---------------------------- MODULE AttachedView ----------------------------
(***************************************************************************)
(* What a tmuxx server promises the user of an attached view: the terminal *)
(* shown is always one the pane really went through, and it never goes     *)
(* back.  A view may follow the pane one output at a time or jump over     *)
(* several by a checkpoint; nothing is repeated or reordered.  An output   *)
(* may be missed, and the view is then torn: it goes on without what it    *)
(* missed until a checkpoint makes it whole.                               *)
(***************************************************************************)
EXTENDS Naturals, Sequences

CONSTANT Views

VARIABLES
  produced,   \* outputs the pane has produced
  shown,      \* shown[v]: the outputs v's terminal has been given
  torn        \* torn[v]: some output is missing among them

promiseVars == <<produced, shown, torn>>

History(n) == [i \in 1..n |-> i]

Latest(outputs) == IF outputs = <<>> THEN 0 ELSE outputs[Len(outputs)]

PromiseInit ==
  /\ produced = 0
  /\ shown = [v \in Views |-> <<>>]
  /\ torn = [v \in Views |-> FALSE]

Produce ==
  /\ produced' = produced + 1
  /\ UNCHANGED <<shown, torn>>

\* A delta or a checkpoint brings the view to a later (or the same) output.
Follow(v) ==
  \E n \in Latest(shown[v])..produced :
    /\ shown' = [shown EXCEPT ![v] = History(n)]
    /\ torn' = [torn EXCEPT ![v] = FALSE]
    /\ UNCHANGED produced

\* An output the view has not been given is lost to it.
Miss(v) ==
  /\ Latest(shown[v]) < produced
  /\ torn' = [torn EXCEPT ![v] = TRUE]
  /\ UNCHANGED <<produced, shown>>

\* A torn view goes on with the next output that reaches it.
GoOn(v) ==
  /\ torn[v]
  /\ \E n \in (Latest(shown[v]) + 1)..produced :
       shown' = [shown EXCEPT ![v] = Append(@, n)]
  /\ UNCHANGED <<produced, torn>>

PromiseNext == Produce \/ \E v \in Views : Follow(v) \/ Miss(v) \/ GoOn(v)

PromiseSpec == PromiseInit /\ [][PromiseNext]_promiseVars
=============================================================================
