SPECIFICATION SessionSpec
CONSTANTS
  s1 = s1
  s2 = s2
  listQuery = listQuery
  countQuery = countQuery
  alice = alice
  NoAuth = NoAuth
  Untyped = Untyped
  NoFetcher = NoFetcher
  Callback = Callback
  NoUpdate = NoUpdate
  Version = {}
  Spelling <- MCSpelling
  Canonical <- MCCanonical
  Auth = {}
  UpdateOps = {"mark"}
  completedRequestRetentionLimit = 2
  MaxQueryID = 2
  MaxSubscriberIdx = 1
  MaxRequestID = 1
  MaxIdentity = 0
  MaxDrops = 1
CHECK_DEADLOCK FALSE
INVARIANTS
  SnapshotConsistent
  ReadYourWrites
