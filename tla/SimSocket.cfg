SPECIFICATION FairSocketSpec
CONSTANTS
  Addresses = {0, 1, 2}
  Objects = {}
  Counts = {0}
  Values = {0}
  WordWidth = 1
  Ids = {s1, s2}
  MaxSlaves = 2
  MaxMaps = 0
  LogicalSize = 1
  Bytes = {0, 1}
  InputBytes = 1
  Widths = {1}
  ControlWords = {4}
  OnlineValues = {TRUE, FALSE}
  OwnMappings = {FALSE}
  SdoRequests = {}
  MailboxReads = {}
  Dispatcher = "SimSocket"
  Positions = {0, 65535}
  Frames <- MCFrames
  Latencies = {0, 1}
  MaxFrames = 2
INVARIANT
  NothingLostOrReordered
PROPERTIES
  FrameReadsOwnWrite
  SentArrives
