SPECIFICATION MCSpec
CONSTANTS
  Panes = {1, 2}
  ChannelCap = 1
  ByteLimit = 4
  MaxOutput = 2
  MaxNotes = 2
  Clients = {1, 2}
  Remaining = {2}
  MaxRequests = 2
  MaxGen = 2
  MaxPending = 2
  MaxShown = 1
  MaxCalls = 18
  MaxNames = 2
  MaxPauses = 2
  MaxRefresh = 1
INVARIANTS
  ClientsTypeOK
  CountersExact
  NotesInOrder
  OutputIsWhole
  PauseIsTold
  NothingWaitsForTheGone
  RepliesExactlyOnce
  EphemeralIsLeased
  QuietMeansCurrent
  ShownIsWhole
  OutcomesAreTrue
\* The client may be gone and the panes silent.
CHECK_DEADLOCK FALSE
