SPECIFICATION FairSpec
CONSTANTS
  Addresses = {1}
  Objects = {}
  Counts = {0}
  Values = {0}
  WordWidth = 1
  Mappings = {TRUE, FALSE}
  Nodes = {n1, n2}
  Faults = FALSE
  Tries = 5
  AutoSteps <- MCAuto
CHECK_DEADLOCK FALSE
INVARIANTS
  TypeOK
  SecondScanPasses
PROPERTIES
  PreopOkIsTrue
  RowsCatchUp
  AutoSequenceSucceeds
