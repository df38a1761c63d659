SPECIFICATION Spec
CONSTANTS
  Addresses = {1}
  Objects = {}
  Counts = {0}
  Values = {0}
  WordWidth = 1
  Mappings = {}
  Nodes = {n1, n2}
  Faults = TRUE
  Tries = 1
  AutoSteps <- MCNoAuto
SYMMETRY MCSymmetry
CHECK_DEADLOCK FALSE
INVARIANTS
  RowsNeverAhead
