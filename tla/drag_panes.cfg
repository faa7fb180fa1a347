SPECIFICATION MCSpec
CONSTANTS
  Views = {1, 2}
  Panes = {0, 1}
  MaxOffer = 2
  MaxSequence = 6
  Begin = 4
  Other = 1
INVARIANTS
  TypeOK
  HolderIsValid
  HoverHasHolder
  EndedStaysEnded
\* The system may stop: every client gone, or the sequence at its bound.
CHECK_DEADLOCK FALSE
