SPECIFICATION MCSpec
CONSTANTS
  Clients = {1, 2}
  LocalClients = {2}
  ChannelCap = 2
  RecordLimit = 2
  ByteLimit = 4
  WireCap = 1
  FlushQuantum = 2
  OutputSizes = {1}
  SnapshotSizes = {1, 3, 5}
  SnapshotLimit = 4
  MaxSequence = 3
  MaxCritical = 2
INVARIANTS
  TypeOK
  OneSnapshotOutstanding
  WithinBudget
  ClosingIsInert
  CriticalsExactlyOnceInOrder
  FinalTerminalIsShown
PROPERTY ShowsRealHistory
\* The system may stop: the bounds are reached, or nobody acts any more.
CHECK_DEADLOCK FALSE
