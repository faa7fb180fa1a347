SPECIFICATION Spec
CONSTANTS
  Panes = {1}
  ChannelCap = 1
  ByteLimit = 3
  MaxOutput = 1
  MaxNotes = 2
INVARIANT DaemonContinues
CHECK_DEADLOCK FALSE
