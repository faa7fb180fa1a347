SPECIFICATION Spec
CONSTANTS
  Panes = {1}
  MaxGen = 4
  MaxOutput = 1
  MaxPipeInput = 0
  EventCap = 2
  InputCap = 1
  InputLimit = 1
  PipeLimit = 1
  RetiredLimit = 1
INVARIANT CompletionClosesPipe
CHECK_DEADLOCK FALSE
