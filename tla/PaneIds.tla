------------------------------- MODULE PaneIds -------------------------------
(***************************************************************************)
(* The panes of the multiplexer, which two components share when they are  *)
(* explored side by side.                                                  *)
(***************************************************************************)
CONSTANT Panes    \* panes, by id; an id is never used again
=============================================================================
