SPECIFICATION FairSpec
CONSTANTS
  ann = ann
  bob = bob
  nobody = nobody
  Callers = {ann, bob}
  Bounded = {bob}
  Scenarios <- MCScenarios
  flushCap = 1
  resultsCap = 1
CHECK_DEADLOCK FALSE
INVARIANTS
  TypeOK
  OnTheWay
  ChannelsCarryLatest
  TransitionHeals
  ClosedIsGone
PROPERTIES
  FlushIsTrue
  FlushesAnswered
  CloseReleasesAll
