SPECIFICATION FairSpec
CONSTANTS
  Addresses = {1}
  Objects = {}
  Counts = {0}
  Values = {0}
  WordWidth = 1
  ChannelCount = 2
  MaxAssign = 1
  Filter = 2
  MaxAge = 2
  CountValues = {3, 256}
  DebounceTimes = {0, 2}
  Masks = {{}, {1}}
  Watched = {1}
  Wired = {1}
  ControlWords = {20}
INVARIANTS
  TypeOK
  MappedIffAssigned
PROPERTIES
  SafeOpNeedsMapping
  ReadingMovesToInput
  NoBounceShown
  SteadyInputShown
