SPECIFICATION Spec
CONSTANTS
  MaxFrames = 3
  Window = 2
  Body = 2
  Oversized = {}
CHECK_DEADLOCK FALSE
INVARIANT
  BoundariesPreserved
