------------------------- MODULE MCDragProjection -------------------------
(***************************************************************************)
(* DragProjection for TLC, in two scopes explored by one run.  "panes":    *)
(* every view is attached and shows both panes, and every application has  *)
(* registered for drops, so that two drags are two handlers away.          *)
(* "bindings": an empty server and one pane, for which registrations,      *)
(* attachments and view states come and go.  A behaviour of either is one  *)
(* of DragProjection, but for the state the first begins in.               *)
(***************************************************************************)
EXTENDS DragProjection

CONSTANTS Begin,   \* the sequence at which the first scope begins
          Other    \* the pane that the second leaves alone

VARIABLE scope

InitRegistered ==
  /\ seq = Begin /\ outs = 0
  /\ live = Views /\ severed = {} /\ running = Panes
  /\ states = [c \in Views |-> [p \in Panes |-> "visible"]]
  /\ target = [p \in Panes |-> Register(NoTarget, TRUE)]
  /\ active = [p \in Panes |-> NoOffer]
  /\ latest = [c \in Views |-> [p \in Panes |-> 0]]
  /\ stack = <<>>
  /\ view = [c \in Views |-> [seq |-> Begin, shown |-> 0]]
  /\ ended = {}

MCInit == \/ InitRegistered /\ scope = "panes"
          \/ Init /\ scope = "bindings"

MCNext ==
  /\ Next
  /\ scope' = scope
  /\ scope = "bindings" =>
       /\ Other \in running' /\ target'[Other] = NoTarget
       /\ \A c \in Views : states'[c][Other] = "none"

MCSpec == MCInit /\ [][MCNext]_<<vars, scope>>
=============================================================================
