SPECIFICATION SessionSpec
CONSTANTS
  s1 = s1
  s2 = s2
  listQuery = listQuery
  countQuery = countQuery
  alice = alice
  NoAuth = NoAuth
  Untyped = Untyped
  NoFetcher = NoFetcher
  Callback = Callback
  NoUpdate = NoUpdate
  Version = {}
  Spelling <- MCOneSpelling
  Canonical <- MCOneCanonical
  Auth = {}
  UpdateOps = {}
  completedRequestRetentionLimit = 2
  MaxQueryID = 1
  MaxSubscriberIdx = 1
  MaxRequestID = 2
  MaxIdentity = 0
  MaxDrops = 2
CHECK_DEADLOCK FALSE
INVARIANTS
  RunGoesOn
  MutationsInOrder
  ActionsAtMostOnce
