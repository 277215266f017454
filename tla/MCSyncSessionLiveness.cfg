SPECIFICATION FairSpec
CONSTANTS
  s1 = s1
  s2 = s2
  listQuery = listQuery
  countQuery = countQuery
  alice = alice
  NoAuth = NoAuth
  Untyped = Untyped
  NoFetcher = NoFetcher
  Callback = Callback
  NoUpdate = NoUpdate
  Version = {}
  Spelling <- MCOneSpelling
  Canonical <- MCOneCanonical
  Auth = {}
  UpdateOps = {"mark"}
  completedRequestRetentionLimit = 2
  MaxQueryID = 1
  MaxSubscriberIdx = 1
  MaxRequestID = 1
  MaxIdentity = 1
  MaxDrops = 1
CHECK_DEADLOCK FALSE
PROPERTIES
  RequestsComplete
  ResultsConverge
