SPECIFICATION FairSpec
CONSTANT
  Clients = {c1, c2}
INVARIANTS
  ServerInv
  StoppedIsQuiet
PROPERTIES
  StopReturns
  WaitingClientServed
