------------------------- MODULE MCNativeDelivery -------------------------
(***************************************************************************)
(* NativeDelivery for TLC.                                                 *)
(* Safety, three scopes: "long", one view, checkpoints of one size, three  *)
(* changes; "sizes", checkpoints of three sizes, one that only just fits   *)
(* the byte budget and one over the snapshot limit, and drag metadata; and *)
(* "pair", a crashed holder of a drag in front of a view that reads on, so *)
(* that metadata overtakes output.                                         *)
(* Liveness, two scopes: "alone", one view and every event; and "together",*)
(* two attached views side by side, the first in process and never reading,*)
(* which may crash while it holds a drag.                                  *)
(***************************************************************************)
EXTENDS NativeDelivery

VARIABLE scope

\* The views that keep reading, and the others
Readers == Clients \ LocalClients

\* Connected, subscribed, the first reply and checkpoint read.
InitAttached ==
  /\ engine   = FreshEngine(CHOOSE weight \in SnapshotSizes : weight <= SnapshotLimit)
  /\ d        = [c \in Clients |->
                   [Absent EXCEPT !.live = TRUE, !.subscribed = TRUE, !.issued = 1]]
  /\ flush    = NotFlushing
  /\ cursor   = 0
  /\ writer   = [c \in Clients |-> "idle"]
  /\ wire     = [c \in Clients |-> <<>>]
  /\ sentAcks = {}
  /\ peer     = [c \in Clients |-> "open"]
  /\ asked    = [c \in Clients |-> 0]
  /\ view     = [c \in Clients |-> [NewView EXCEPT !.pane = "open", !.crit = 1]]

\* The far end of client 1 has crashed, and its writer has met the broken pipe.
InitCrashed ==
  /\ engine   = FreshEngine(CHOOSE weight \in SnapshotSizes : weight <= SnapshotLimit)
  /\ d        = [c \in Clients |->
                   [Absent EXCEPT !.live = TRUE, !.subscribed = TRUE, !.issued = 1,
                                  !.rx = c # 1]]
  /\ flush    = NotFlushing
  /\ cursor   = 0
  /\ writer   = [c \in Clients |-> IF c = 1 THEN "gone" ELSE "idle"]
  /\ wire     = [c \in Clients |-> <<>>]
  /\ sentAcks = {}
  /\ peer     = [c \in Clients |-> IF c = 1 THEN "closed" ELSE "open"]
  /\ asked    = [c \in Clients |-> 0]
  /\ view     = [c \in Clients |->
                   [NewView EXCEPT !.pane = "open", !.crit = 1,
                                   !.status = IF c = 1 THEN "failed" ELSE @]]

\* The one client of most scopes is a socket's.
NextAlone ==
  /\ Next
  /\ \A c \in LocalClients : peer'[c] = "away"

\* Readers only read; the others never do, but users act on them.
NextAttached ==
  \/ Output
  \/ FlushNative
  \/ \E c \in Clients :
       \/ HandleRequest(c) \/ HandleSnapshotSent(c) \/ HandleDisconnect(c)
       \/ CloseTimeout(c)
       \/ Take(c) \/ Acknowledge(c) \/ WriteFails(c) \/ WriterEnds(c)
  \/ \E c \in Readers : Receive(c) \/ ReceiveEnd(c)
  \/ \E c \in LocalClients : HostEffect(c) \/ Detach(c) \/ PeerCloses(c)

\* No drag is over the pane: nothing but outputs and changes takes a sequence.
NoDrag == ~DragChanges /\ engine'.seq <= engine.seq + 1

\* Views that read on, of a pane that moves and ends.
NextPair ==
  /\ Next
  /\ ~\E c \in Clients : HostEffect(c) \/ PeerCloses(c) \/ CloseTimeout(c)

-----------------------------------------------------------------------------
MCInit ==
  \/ Init /\ scope \in {"long", "sizes"}
  \/ InitCrashed /\ scope = "pair"

MCNext ==
  /\ scope' = scope
  /\ \/ scope = "long"  /\ NextAlone /\ engine'.weight = 1 /\ NoDrag
     \/ scope = "sizes" /\ NextAlone /\ engine'.seq <= 2
     \/ scope = "pair"  /\ NextPair /\ engine'.weight = 1

MCSpec == MCInit /\ [][MCNext]_<<vars, scope>>

-----------------------------------------------------------------------------
MCInitFair ==
  \/ Init /\ scope = "alone"
  \/ InitAttached /\ scope = "together"

MCNextFair ==
  /\ scope' = scope
  /\ \/ scope = "alone" /\ NextAlone /\ NoDrag /\ ~\E c \in Clients : HostEffect(c)
     \/ scope = "together" /\ NextAttached /\ engine'.seq <= 2

MCFairSpec == MCInitFair /\ [][MCNextFair]_<<vars, scope>> /\ Fairness(Readers)

ReadersCatchUp == ViewsCatchUp(Readers)
=============================================================================
