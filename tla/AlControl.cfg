SPECIFICATION Spec
CONSTANTS
  Addresses = {1}
  Objects = {"dev"}
  Counts = {1, 2}
  Values = {0}
  WordWidth = 1
  ControlWords <- MCControl
  SdoRequests <- MCRequests
  Sm1Writes = {FALSE}
  StatusWrites <- MCStatusWrites
  ApiStates <- MCEveryState
INVARIANTS
  TypeOK
  ErrorFlagHasCode
  AlRegistersFresh
  ReplyAnswersLastRequest
  RetryIsHarmless
PROPERTIES
  AckNeverLowers
  ErrorLatched
  ImplementsAlStateMachine
