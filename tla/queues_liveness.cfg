SPECIFICATION MCFairSpec
CONSTANTS
  Clients = {1, 2}
  Config = 9
  Hooks = {}
  Channels = {1}
  MaxChannels = 1
  Kinds = {"plain", "error", "wait", "signal", "lock", "unlock", "job", "pane", "kick"}
  Quantum = 1
  MaxPending = 2
  MaxJobs = 1
  MaxCommands = 2
  MaxDepth = 1
  Sizes = {1, 2}
  RequestBound = 2
  Busy = {}
  Worker = 1
PROPERTIES
  RequestsAreAnswered
\* The system may stop: the bounds are reached, or every queue waits.
CHECK_DEADLOCK FALSE
