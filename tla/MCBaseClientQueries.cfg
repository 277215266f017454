SPECIFICATION Spec
CONSTANTS
  s1 = s1
  s2 = s2
  s3 = s3
  listQuery = listQuery
  countQuery = countQuery
  NoAuth = NoAuth
  Untyped = Untyped
  NoFetcher = NoFetcher
  Callback = Callback
  NoUpdate = NoUpdate
  Spelling <- MCSpelling
  Canonical <- MCCanonical
  Auth = {}
  UpdateOps = {}
  Version <- MCOneVersion
  completedRequestRetentionLimit = 1
  MaxQueryID = 2
  MaxSubscriberIdx = 2
  MaxRequestID = 0
  MaxIdentity = 2
INVARIANTS
  TypeOK
  SubscriptionsConsistent
  VersionChains
  QuerySetAgreement
