SPECIFICATION MCFairSpec
CONSTANTS
  Clients = {1, 2}
  LocalClients = {1}
  ChannelCap = 2
  RecordLimit = 2
  ByteLimit = 3
  WireCap = 1
  FlushQuantum = 1
  OutputSizes = {1}
  SnapshotSizes = {1}
  SnapshotLimit = 2
  MaxSequence = 2
  MaxCritical = 2
PROPERTIES
  ReadersCatchUp
  ClosingEnds
\* The system may stop: the bounds are reached, or nobody acts any more.
CHECK_DEADLOCK FALSE
