SPECIFICATION SessionSpec
CONSTANTS
  s1 = s1
  s2 = s2
  listQuery = listQuery
  countQuery = countQuery
  alice = alice
  NoAuth = NoAuth
  Untyped = Untyped
  NoFetcher = NoFetcher
  Callback = Callback
  NoUpdate = NoUpdate
  Version = {}
  Spelling <- MCOneSpelling
  Canonical <- MCOneCanonical
  Auth = {alice}
  UpdateOps = {"mark"}
  completedRequestRetentionLimit = 2
  MaxQueryID = 2
  MaxSubscriberIdx = 1
  MaxRequestID = 0
  MaxIdentity = 2
  MaxDrops = 2
CHECK_DEADLOCK FALSE
INVARIANTS
  SessionTypeOK
  NoProtocolError
  ServerAgrees
