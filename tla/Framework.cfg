SPECIFICATION FairSpec
CONSTANTS
  Values = {0, 1}
  MaxObservers = 2
CHECK_DEADLOCK FALSE
INVARIANTS
  ToldCurrent
  NothingLeftBehind
PROPERTIES
  StopReturns
