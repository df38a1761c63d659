SPECIFICATION PeriodicSpec
CONSTANTS
  Addresses = {0}
  Objects = {"dev"}
  Counts = {0}
  Values = {0}
  WordWidth = 1
  Ids = {s1, s2}
  MaxSlaves = 1
  MaxMaps = 2
  LogicalSize = 1
  Bytes = {0, 1}
  InputBytes = 1
  Widths = {1}
  ControlWords = {}
  OnlineValues = {}
  OwnMappings = {TRUE, FALSE}
  SdoRequests <- MCDownload
  MailboxReads = {}
  Dispatcher = "SimSocket"
  Positions = {}
PROPERTY
  InputsReachLogical
INVARIANT
  MappedHasSource
