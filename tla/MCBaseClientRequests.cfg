SPECIFICATION Spec
CONSTANTS
  s1 = s1
  s2 = s2
  s3 = s3
  listQuery = listQuery
  countQuery = countQuery
  NoAuth = NoAuth
  Untyped = Untyped
  NoFetcher = NoFetcher
  Callback = Callback
  NoUpdate = NoUpdate
  Spelling <- MCOneSpelling
  Canonical <- MCOneCanonical
  Auth = {}
  UpdateOps = {}
  Version <- MCVersion
  completedRequestRetentionLimit = 1
  MaxQueryID = 0
  MaxSubscriberIdx = 1
  MaxRequestID = 3
  MaxIdentity = 0
INVARIANTS
  PendingRequestsOnTheWay
  ActionsNeverResent
  CompletedMemoryConsistent
PROPERTIES
  RequestsKeepPromises
