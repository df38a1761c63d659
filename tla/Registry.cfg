SPECIFICATION Spec
CONSTANTS
  Addresses = {0, 1}
  Objects = {}
  Counts = {0}
  Values = {0}
  WordWidth = 1
  Ids = {s1, s2}
  MaxSlaves = 2
  MaxMaps = 0
  LogicalSize = 1
  Bytes = {0}
  InputBytes = 1
  Widths = {1}
  ControlWords = {2, 17}
  OnlineValues = {TRUE, FALSE}
  OwnMappings = {FALSE}
  SdoRequests = {}
  MailboxReads = {0, 1}
  Dispatcher = "SlavesEndpoint"
  Positions = {0, 1, 65535}
SYMMETRY MCSymmetry
INVARIANTS
  TypeOK
  CountIsRegistry
PROPERTIES
  OfflineUntouched
  BroadcastReachesAll
