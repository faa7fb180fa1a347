SPECIFICATION MCSpec
CONSTANTS
  Panes = {1}
  MaxGen = 4
  MaxOutput = 1
  MaxPipeInput = 1
  EventCap = 1
  InputCap = 1
  InputLimit = 2
  PipeLimit = 2
  RetiredLimit = 1
INVARIANTS
  TypeOK
  PanesMatchProcesses
  ScreenIsOfOneProcess
  FinalOutputShown
  CounterExact
  PipeChildrenBounded
PROPERTY DrainedPipeFinishes
\* The system may stop: every pane removed and every thread ended.
CHECK_DEADLOCK FALSE
