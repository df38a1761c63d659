SPECIFICATION FairSpec
CONSTANTS
  MaxFrames = 4
  Window = 2
  Body = 2
  Oversized = {4}
CHECK_DEADLOCK FALSE
INVARIANT
  TypeOK
PROPERTIES
  ImplementsFrameChannel
  ReadReturns
  SessionEnds
