SPECIFICATION Spec
CONSTANTS
  s1 = s1
  s2 = s2
  s3 = s3
  listQuery = listQuery
  countQuery = countQuery
  NoAuth = NoAuth
  Untyped = Untyped
  NoFetcher = NoFetcher
  Callback = Callback
  NoUpdate = NoUpdate
  Spelling <- MCOneSpelling
  Canonical <- MCOneCanonical
  Auth = {}
  UpdateOps = {"mark", "set", "hide", "strict"}
  Version <- MCOneVersion
  completedRequestRetentionLimit = 1
  MaxQueryID = 2
  MaxSubscriberIdx = 1
  MaxRequestID = 2
  MaxIdentity = 0
INVARIANTS
  ResultsOnlyForActiveQueries
  ResultsAreOverlay
