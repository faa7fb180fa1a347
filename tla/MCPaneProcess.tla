--------------------------- MODULE MCPaneProcess ---------------------------
(***************************************************************************)
(* PaneProcess for TLC, in three scopes explored by one run: three         *)
(* children behind a pane that is never empty, with pipes for its output   *)
(* and nothing typed; a process and a pipe that types, with keys and       *)
(* terminal answers; and two children, with pipes both ways and commands   *)
(* that wait for the pane.  A behaviour of any is one of PaneProcess.      *)
(***************************************************************************)
EXTENDS PaneProcess

VARIABLE scope

NothingTyped ==
  \A g \in Gens : /\ work'[g].kind = "process" => work'[g].bytes = 0
                  /\ work'[g].kind = "pipe" => work'[g].made = 0

TwoChildren == \A g \in Gens : g > 2 => work'[g].kind = "none"

Unawaited == \A p \in Panes : ~slot'[p].waiter

NeverEmpty == \A p \in Panes : slot'[p].pane # "empty"

\* The ways a pipe may be joined to its pane: input and output
Joined(ways) ==
  \A p \in Panes : slot'[p].pipe # 0 => <<slot'[p].input, slot'[p].output>> \in ways

MCInit == Init /\ scope \in {"output", "input", "both"}

MCNext ==
  /\ Next
  /\ scope' = scope
  /\ scope = "output" => Unawaited /\ NeverEmpty /\ NothingTyped /\ Joined({<<FALSE, TRUE>>})
  /\ scope = "input" => Unawaited /\ NeverEmpty /\ TwoChildren /\ Joined({<<TRUE, FALSE>>})
  /\ scope = "both" => TwoChildren /\ NothingTyped /\ Joined({<<FALSE, TRUE>>, <<TRUE, TRUE>>})

MCSpec == MCInit /\ [][MCNext]_<<vars, scope>> /\ Fairness
=============================================================================
