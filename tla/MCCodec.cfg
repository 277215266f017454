SPECIFICATION Spec
CONSTANTS
  ByteCount = 2
  ByteSize = 4
  MantissaSize = 2
  MaxUint32 = 7
  BadFields = {"bad"}
  BadWords = {"?"}
  BadIdentifiers = {"", "_", "?"}
  GoValues <- MCGoValues
  Trees <- MCTrees
  Queries <- MCQueries
  Subscribed <- MCSubscribed
  Messages <- MCMessages
  Texts <- MCTexts
CHECK_DEADLOCK FALSE
INVARIANTS
  ValuesSurvive
  QueriesKeepTheirMeaning
  TokensTellQueriesApart
  MessagesSurvive
  FailuresStayFailures
