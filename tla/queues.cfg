SPECIFICATION MCSpec
CONSTANTS
  Clients = {1, 2, 3}
  Config = 9
  Hooks = {10}
  Channels = {1, 2}
  MaxChannels = 1
  Kinds = {"plain", "hook", "error", "insert", "job", "background", "file",
           "pane", "stdin", "await", "rouse", "detach", "kick",
           "wait", "signal", "lock", "unlock", "wake"}
  Quantum = 2
  MaxPending = 2
  MaxJobs = 1
  MaxCommands = 2
  MaxDepth = 1
  Sizes = {0, 1, 2}
  RequestBound = 3
  Busy = {1, 2}
  Worker = 1
INVARIANTS
  TypeOK
  BlockedHasOneWaker
  RunnableIsReady
  GoneIsUnlisted
  StartupRunsAlone
  ResultsReachTheirBatch
  RequestsInOrder
  ChannelsAreServed
\* The system may stop: the bounds are reached, or every queue waits.
CHECK_DEADLOCK FALSE
