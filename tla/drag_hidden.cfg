SPECIFICATION Spec
CONSTANTS
  Views = {1, 2}
  Panes = {0}
  MaxOffer = 2
  MaxSequence = 5
INVARIANT HolderShowsPane
\* The system may stop: every client gone, or the sequence at its bound.
CHECK_DEADLOCK FALSE
