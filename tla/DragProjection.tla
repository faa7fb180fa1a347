--------------------------- MODULE DragProjection ---------------------------
(***************************************************************************)
(* Native drag-and-drop (tmuxx-runtime/src/drag.rs): which view holds the  *)
(* drag over a pane, the application's drop target (dnd.rs), and the       *)
(* projection of its metadata to every view, in the same stream as output. *)
(*                                                                         *)
(* The owner is one thread, but its sends are not leaves of a call tree: a *)
(* send to a client whose writer has ended disconnects it, which releases  *)
(* its drags, which publishes new metadata, which sends again.  That       *)
(* recursion is a stack of frames here, and one step is one send.  What a  *)
(* view shows is applied as the message is sent: delivery is FIFO          *)
(* (NativeDelivery), so it is what the view shows when it has read it.     *)
(*                                                                         *)
(* The tail of drive (scheduler.rs), which announces a changed graph, is   *)
(* here too: it is the one broadcast that assumes, by indexing clients,    *)
(* that whoever it collected is still connected.                           *)
(***************************************************************************)
EXTENDS Naturals, Sequences

CONSTANTS
  Views,         \* GUI clients, by id
  Panes,         \* panes, by id
  MaxOffer,      \* bound on the offer tokens of a view
  MaxSequence    \* bound on the engine sequence when a handler starts

ASSUME DragAssumption ==
  /\ Views \subseteq Nat \ {0}
  /\ Panes \subseteq Nat
  /\ MaxOffer \in Nat
  /\ MaxSequence \in Nat

VARIABLES
  seq,       \* engine.sequence
  outs,      \* outputs fed so far
  live,      \* clients of the host, all subscribed
  severed,   \* clients whose writer has ended; the owner may not know yet.
             \* Ids are never reused.
  running,   \* panes whose process takes input
  states,    \* ViewStates: states[c][p] is the registered visibility
  target,    \* target[p]: kitty_dnd of the pane's terminal
  active,    \* Bindings::active
  latest,    \* Bindings::latest, 0 when absent
  stack,     \* the owner's call stack
  view,      \* view[c]: outputs shown and the sequence reached
  ended      \* offers that were active and no longer are (history)

vars == <<seq, outs, live, severed, running, states, target, active, latest,
          stack, view, ended>>

NoTarget == [on |-> FALSE, rev |-> 0, reg |-> 0, ready |-> FALSE, offer |-> 0,
             dropped |-> FALSE, accepted |-> FALSE]
NoOffer  == [client |-> 0, reg |-> 0, offer |-> 0]

CallKinds == {"output", "drag", "leave", "announce", "close", "panic"}

Target == [on : BOOLEAN, rev : Nat, reg : Nat, ready : BOOLEAN, offer : Nat,
           dropped : BOOLEAN, accepted : BOOLEAN]
Binding == [client : Nat, reg : Nat, offer : Nat]

Idle == stack = <<>>
Top  == Head(stack)

\* A handler may start: the owner is idle and the run is within its bound.
Ready == Idle /\ seq < MaxSequence

Least(S) == CHOOSE x \in S : \A y \in S : x <= y

Init ==
  /\ seq = 0 /\ outs = 0
  /\ live = {} /\ severed = {} /\ running = Panes
  /\ states = [c \in Views |-> [p \in Panes |-> "none"]]
  /\ target = [p \in Panes |-> NoTarget]
  /\ active = [p \in Panes |-> NoOffer]
  /\ latest = [c \in Views |-> [p \in Panes |-> 0]]
  /\ stack = <<>>
  /\ view = [c \in Views |-> [seq |-> 0, shown |-> 0]]
  /\ ended = {}

-----------------------------------------------------------------------------
(* The application's drop target *)

\* reset_drop; every change of the target draws a fresh revision.
ResetDrop(t) ==
  [t EXCEPT !.rev = @ + 1, !.offer = 0, !.dropped = FALSE, !.accepted = FALSE]

Register(t, complete) ==
  LET r == ResetDrop(t)
  IN  [r EXCEPT !.on = TRUE, !.reg = r.rev, !.ready = complete]

\* What the application's escape codes can do to its target: register (in one
\* piece or not yet complete), unregister, accept the offer, conclude a drop.
Fed(t) ==
  {t, Register(t, TRUE), Register(t, FALSE), [NoTarget EXCEPT !.rev = t.rev]}
    \union (IF t.on THEN {[t EXCEPT !.rev = @ + 1, !.accepted = TRUE],
                          [t EXCEPT !.rev = @ + 1, !.ready = TRUE],
                          ResetDrop(t)}
            ELSE {})

\* drag_revision: none without a target
Revision(t) == IF t.on THEN t.rev ELSE 0

\* Mutant: an application that has answered the offer is not told.
CancelUnanswered(t, offer) ==
  IF t.on /\ t.offer = offer /\ ~t.dropped /\ ~t.accepted THEN ResetDrop(t) ELSE t

\* cancel_offer
Cancel(t, offer) ==
  IF t.on /\ t.offer = offer /\ ~t.dropped THEN ResetDrop(t) ELSE t

-----------------------------------------------------------------------------
(* Publishing, releasing and ending offers *)

Retire(old, new) ==
  ended \union {<<old[p].client, p, old[p].offer>> :
                  p \in {p \in Panes : old[p] # NoOffer /\
                           \/ new[p].client # old[p].client
                           \/ new[p].offer # old[p].offer}}

SetActive(new) == active' = new /\ ended' = Retire(active, new)

Matches(t, b) == t.on /\ t.reg = b.reg /\ t.offer = b.offer

\* Mutant: only a target that is gone ends the binding.
StandingWhileOn(bindings, p, t) ==
  IF t.on THEN bindings ELSE [bindings EXCEPT ![p] = NoOffer]

\* A binding the application no longer knows of is dropped.
Standing(bindings, p, t) ==
  IF bindings[p] = NoOffer \/ Matches(t, bindings[p]) THEN bindings
  ELSE [bindings EXCEPT ![p] = NoOffer]

\* publish_drag_if_changed: bindings is active as the caller left it, rest the
\* caller's frames.
PublishIfChanged(p, before, t, bindings, rest) ==
  IF Revision(t) = before
  THEN /\ SetActive(bindings)
       /\ stack' = rest
       /\ UNCHANGED seq
  ELSE /\ SetActive(Standing(bindings, p, t))
       /\ seq' = seq + 1
       /\ stack' = <<[call |-> "drag", seq |-> seq + 1, todo |-> live]>> \o rest

\* release_drag
ReleaseDrag(c, p, rest) ==
  IF active[p].client = c
  THEN LET t == Cancel(target[p], active[p].offer)
       IN  /\ target' = [target EXCEPT ![p] = t]
           /\ PublishIfChanged(p, Revision(target[p]), t,
                               [active EXCEPT ![p] = NoOffer], rest)
  ELSE stack' = rest /\ UNCHANGED <<seq, target, active, ended>>

-----------------------------------------------------------------------------
(* Handlers, each started on an idle owner *)

\* A view leaves the panes of todo; freed holds the one whose drag is released
\* and whose view state comes next.
Leave(c, todo) == [call |-> "leave", client |-> c, todo |-> todo, freed |-> {}]

\* Connect, subscribe and the first snapshot.
Attach(c) ==
  /\ Ready
  /\ c \notin live \union severed
  /\ live' = live \union {c}
  /\ view' = [view EXCEPT ![c] = [seq |-> seq, shown |-> outs]]
  /\ UNCHANGED <<seq, outs, severed, running, states, target, active, latest,
                 stack, ended>>

\* A subscribing request of an attached view is answered with a checkpoint.
Refresh(c) ==
  /\ Idle
  /\ c \in live \ severed
  /\ view' = [view EXCEPT ![c] = [seq |-> seq, shown |-> outs]]
  /\ UNCHANGED <<seq, outs, live, severed, running, states, target, active,
                 latest, stack, ended>>

\* drive, for a command of no view that changed the graph.
Announce ==
  /\ Ready
  /\ seq' = seq + 1
  /\ stack' = <<[call |-> "announce", todo |-> live]>>
  /\ UNCHANGED <<outs, live, severed, running, states, target, active, latest,
                 view, ended>>

\* pane_output: the clients are collected before the first send.
PaneOutput(p) ==
  /\ Ready
  /\ p \in running
  /\ \E t \in Fed(target[p]) : target' = [target EXCEPT ![p] = t]
  /\ seq' = seq + 1
  /\ outs' = outs + 1
  /\ stack' = <<[call |-> "output", seq |-> seq + 1, todo |-> live, pane |-> p,
                 before |-> Revision(target[p])]>>
  /\ UNCHANGED <<live, severed, running, states, active, latest, view, ended>>

\* The application's pending input is full (or its writer gone) and a report to
\* it fails: input_failed ends the process, sends Exit and then disconnects
\* every subscribed client, those already severed a little earlier.
InputFailed(p, rest) ==
  /\ running' = running \ {p}
  /\ stack' = <<[call |-> "close", todo |-> live]>> \o rest

\* pane_output whose reply to the application fails: nobody is left to send to.
PaneOutputFails(p) ==
  /\ Ready
  /\ p \in running
  /\ \E t \in Fed(target[p]) : target' = [target EXCEPT ![p] = t]
  /\ seq' = seq + 1
  /\ outs' = outs + 1
  /\ InputFailed(p, <<[call |-> "output", seq |-> seq + 1, todo |-> {}, pane |-> p,
                       before |-> Revision(target[p])]>>)
  /\ UNCHANGED <<live, severed, states, active, latest, view, ended>>

\* view_state.  The new state is stored before the application is told of it;
\* if telling it fails, the handler returns there.
ViewState(c, p, visible) ==
  /\ Ready
  /\ c \in live
  /\ states' = [states EXCEPT ![c][p] = IF visible THEN "visible" ELSE "hidden"]
  /\ IF visible THEN UNCHANGED <<seq, target, active, stack, ended>>
     ELSE \/ ReleaseDrag(c, p, <<>>)
          \/ p \in running /\ UNCHANGED <<seq, target, active, stack, ended>>
  /\ UNCHANGED <<outs, live, severed, running, latest, view>>

\* tmuxx-release-pane: the frame of one pane of a departing view.
ReleasePane(c, p) ==
  /\ Ready
  /\ c \in live
  /\ stack' = <<Leave(c, {p})>>
  /\ UNCHANGED <<seq, outs, live, severed, running, states, target, active,
                 latest, view, ended>>

\* Mutant: a request may name the latest offer again.
MayDragAgain(c, p, reg, offer, moves) ==
  /\ Ready
  /\ c \in live
  /\ states[c][p] = "visible"
  /\ p \in running
  /\ \/ active[p] = [client |-> c, reg |-> reg, offer |-> offer]
     \/ /\ moves
        /\ active[p] = NoOffer \/ active[p].client = c
        /\ offer >= latest[c][p]
  /\ target[p].on /\ target[p].ready /\ target[p].reg = reg

\* apply_drag: the guards before the terminal, which the command needs too.
MayDrag(c, p, reg, offer, moves) ==
  /\ Ready
  /\ c \in live
  /\ states[c][p] = "visible"
  /\ p \in running
  /\ \/ active[p] = [client |-> c, reg |-> reg, offer |-> offer]
     \/ /\ moves
        /\ active[p] = NoOffer \/ active[p].client = c
        /\ offer > latest[c][p]
  /\ target[p].on /\ target[p].ready /\ target[p].reg = reg

\* Mutant: the binding takes the offer the target is left with.
CommitTargetOffer(c, p, reg, offer, t) ==
  /\ target' = [target EXCEPT ![p] = t]
  /\ latest' = [latest EXCEPT ![c][p] = offer]
  /\ PublishIfChanged(p, Revision(target[p]), t,
       [active EXCEPT ![p] = [client |-> c, reg |-> reg, offer |-> t.offer]], <<>>)
  /\ UNCHANGED <<outs, live, severed, running, states, view>>

\* Input accepted by the pane commits the new target, binding and tombstone.
CommitDrag(c, p, reg, offer, t) ==
  /\ target' = [target EXCEPT ![p] = t]
  /\ latest' = [latest EXCEPT ![c][p] = offer]
  /\ PublishIfChanged(p, Revision(target[p]), t,
       [active EXCEPT ![p] = [client |-> c, reg |-> reg, offer |-> offer]], <<>>)
  /\ UNCHANGED <<outs, live, severed, running, states, view>>

DragMove(c, p, reg, offer) ==
  LET t == target[p]
  IN /\ MayDrag(c, p, reg, offer, TRUE)
     /\ t.offer = offer => ~t.dropped
     /\ CommitDrag(c, p, reg, offer,
                   [ResetDrop(t) EXCEPT !.offer = offer])

DragDrop(c, p, reg, offer) ==
  LET t == target[p]
  IN /\ MayDrag(c, p, reg, offer, FALSE)
     /\ t.offer = offer /\ ~t.dropped /\ t.accepted
     /\ CommitDrag(c, p, reg, offer, [t EXCEPT !.rev = @ + 1, !.dropped = TRUE])

\* A leave after the drop changes nothing.
DragLeave(c, p, reg, offer) ==
  LET t == target[p]
  IN /\ MayDrag(c, p, reg, offer, FALSE)
     /\ t.offer = offer
     /\ CommitDrag(c, p, reg, offer, Cancel(t, offer))

\* finish_process under remain-on-exit: prune_drags releases the pane's drag.
PaneEnds(p) ==
  /\ Ready
  /\ p \in running
  /\ running' = running \ {p}
  /\ IF active[p] # NoOffer THEN ReleaseDrag(active[p].client, p, <<>>)
     ELSE UNCHANGED <<seq, target, active, stack, ended>>
  /\ UNCHANGED <<outs, live, severed, states, latest, view>>

\* A peer goes: its writer ends now, its Disconnect event comes when it comes.
Sever(c) ==
  /\ c \in live \ severed
  /\ severed' = severed \union {c}
  /\ UNCHANGED <<seq, outs, live, running, states, target, active, latest,
                 stack, view, ended>>

\* Mutant: only one of the client's view states is released.
DisconnectOnePane(c, rest) ==
  /\ live' = live \ {c}
  /\ latest' = [latest EXCEPT ![c] = [p \in Panes |-> 0]]
  /\ stack' = <<Leave(c, {p \in Panes :
                          /\ states[c][p] # "none"
                          /\ \A q \in Panes : q < p => states[c][q] = "none"})>>
                \o rest

\* disconnect, then disconnect_host: forget_client, then every view state.
Disconnect(c, rest) ==
  /\ live' = live \ {c}
  /\ latest' = [latest EXCEPT ![c] = [p \in Panes |-> 0]]
  /\ stack' = <<Leave(c, {p \in Panes : states[c][p] # "none"})>> \o rest

DisconnectEvent(c) ==
  /\ Idle
  /\ c \in live \intersect severed
  /\ Disconnect(c, <<>>)
  /\ UNCHANGED <<seq, outs, severed, running, states, target, active, view, ended>>

-----------------------------------------------------------------------------
(* The rest of a handler, one send at a time *)

\* apply, for PaneOutput and for the metadata of a pane: both advance the
\* view's sequence, and neither is accepted at or below it.
Show(v, frame) ==
  IF frame.seq <= v.seq THEN v
  ELSE [seq |-> frame.seq,
        shown |-> v.shown + IF frame.call = "output" THEN 1 ELSE 0]

\* drive reads self.clients[&target] before it sends: a panic if it is gone.
AnnounceOne ==
  /\ ~Idle
  /\ Top.call = "announce" /\ Top.todo # {}
  /\ LET c    == Least(Top.todo)
         rest == <<[Top EXCEPT !.todo = @ \ {c}]>>
     IN CASE c \notin live            -> /\ stack' = <<[call |-> "panic", todo |-> {}]>>
                                        /\ UNCHANGED <<live, latest>>
          [] c \in live \ severed      -> /\ stack' = rest
                                        /\ UNCHANGED <<live, latest>>
          [] c \in live /\ c \in severed -> Disconnect(c, rest)
  /\ UNCHANGED <<seq, outs, severed, running, states, target, active, view, ended>>

\* Every other broadcast looks its client up again, and skips one that is gone.
SendOne ==
  /\ ~Idle
  /\ Top.call \in {"output", "drag"} /\ Top.todo # {}
  /\ LET c    == Least(Top.todo)
         rest == <<[Top EXCEPT !.todo = @ \ {c}]>> \o Tail(stack)
     IN IF c \in live \intersect severed
        THEN /\ Disconnect(c, rest)
             /\ UNCHANGED view
        ELSE /\ stack' = rest
             /\ view' = IF c \in live THEN [view EXCEPT ![c] = Show(@, Top)]
                        ELSE view
             /\ UNCHANGED <<live, latest>>
  /\ UNCHANGED <<seq, outs, severed, running, states, target, active, ended>>

\* The end of pane_output: "Projection metadata follows its raw output".
OutputSent ==
  /\ ~Idle
  /\ Top.call = "output" /\ Top.todo = {}
  /\ PublishIfChanged(Top.pane, Top.before, target[Top.pane], active, Tail(stack))
  /\ UNCHANGED <<outs, live, severed, running, states, target, latest, view>>

\* input_failed's loop
CloseOne ==
  /\ ~Idle
  /\ Top.call = "close" /\ Top.todo # {}
  /\ LET c    == Least(Top.todo)
         rest == <<[Top EXCEPT !.todo = @ \ {c}]>> \o Tail(stack)
     IN IF c \in live
        THEN Disconnect(c, rest) /\ severed' = severed \union {c}
        ELSE stack' = rest /\ UNCHANGED <<live, latest, severed>>
  /\ UNCHANGED <<seq, outs, running, states, target, active, view, ended>>

Return ==
  /\ ~Idle
  /\ Top.call \in {"drag", "leave", "announce", "close"} /\ Top.todo = {}
  /\ Top.call = "leave" => Top.freed = {}
  /\ stack' = Tail(stack)
  /\ UNCHANGED <<seq, outs, live, severed, running, states, target, active,
                 latest, view, ended>>

\* release_view_state for the client's next pane: its drag, ...
ReleaseViewState ==
  /\ ~Idle
  /\ Top.call = "leave" /\ Top.todo # {} /\ Top.freed = {}
  /\ LET p == Least(Top.todo)
     IN ReleaseDrag(Top.client, p,
          <<[Top EXCEPT !.todo = @ \ {p}, !.freed = {p}]>> \o Tail(stack))
  /\ UNCHANGED <<outs, live, severed, running, states, latest, view>>

\* ... and its state, which the application of a running pane is told of.
ApplyViewState ==
  /\ ~Idle
  /\ Top.call = "leave" /\ Top.freed # {}
  /\ LET p    == Least(Top.freed)
         rest == <<[Top EXCEPT !.freed = {}]>> \o Tail(stack)
     IN /\ states' = [states EXCEPT ![Top.client][p] = "none"]
        /\ \/ stack' = rest /\ UNCHANGED running
           \/ /\ p \in running /\ states[Top.client][p] # "none"
              /\ InputFailed(p, rest)
  /\ UNCHANGED <<seq, outs, live, severed, target, active, latest, view, ended>>

-----------------------------------------------------------------------------
Drags(c, p) ==
  \E reg \in 1..target[p].reg, offer \in 1..MaxOffer :
    \/ DragMove(c, p, reg, offer)
    \/ DragDrop(c, p, reg, offer)
    \/ DragLeave(c, p, reg, offer)

Next ==
  \/ SendOne \/ AnnounceOne \/ CloseOne \/ OutputSent \/ Return
  \/ ReleaseViewState \/ ApplyViewState
  \/ Announce
  \/ \E c \in Views : Attach(c) \/ Refresh(c) \/ Sever(c) \/ DisconnectEvent(c)
  \/ \E p \in Panes : PaneOutput(p) \/ PaneOutputFails(p) \/ PaneEnds(p)
  \/ \E c \in Views, p \in Panes :
       \/ Drags(c, p) \/ ReleasePane(c, p)
       \/ \E visible \in BOOLEAN : ViewState(c, p, visible)

Spec == Init /\ [][Next]_vars

-----------------------------------------------------------------------------
\* Every variable keeps its type; offers are the tokens requests carried, never
\* zero, the mark of no offer.
TypeOK ==
  /\ seq \in Nat /\ outs \in Nat
  /\ live \subseteq Views /\ severed \subseteq Views /\ running \subseteq Panes
  /\ states \in [Views -> [Panes -> {"none", "hidden", "visible"}]]
  /\ target \in [Panes -> Target]
  /\ active \in [Panes -> Binding]
  /\ latest \in [Views -> [Panes -> 0..MaxOffer]]
  /\ view \in [Views -> [seq : Nat, shown : Nat]]
  /\ ended \subseteq (Views \X Panes \X (1..MaxOffer))
  /\ \A i \in DOMAIN stack : stack[i].call \in CallKinds

\* Between handlers, a held drag belongs to a connected client with a view of
\* the pane, over a running pane, and names exactly the registration and offer
\* the application knows: no order of releasing, re-registering, exiting or
\* disconnecting (even half way through a broadcast) leaves a stale holder who
\* would lock every other view out of the pane.
HolderIsValid ==
  Idle => \A p \in Panes :
    active[p] # NoOffer =>
      /\ active[p].client \in live
      /\ states[active[p].client][p] # "none"
      /\ p \in running
      /\ Matches(target[p], active[p])

\* Between handlers, an application that is being hovered over is hovered by
\* somebody: an abandoned drag is always cancelled, so the application is
\* never left waiting for a drop that cannot come.
HoverHasHolder ==
  Idle => \A p \in Panes :
    target[p].on /\ target[p].offer # 0 /\ ~target[p].dropped =>
      active[p].offer = target[p].offer

\* An offer that ended never becomes active again, whatever requests of the
\* same view arrive late ("a delayed Move cannot restart a drag").
EndedStaysEnded ==
  \A p \in Panes :
    active[p] # NoOffer => <<active[p].client, p, active[p].offer>> \notin ended

\* "native drag requires a visible registered GUI view" (apply_drag): the view
\* that holds a drag, and keeps all others out, is one that shows the pane.
HolderShowsPane ==
  Idle => \A p \in Panes :
    active[p] # NoOffer => states[active[p].client][p] = "visible"

\* pane_output's comment: "Projection metadata follows its raw output, never
\* outrunning the sequence number used by attached terminal views for replay".
\* Metadata that outran an output makes the view drop it as stale.
ProjectionNeverOutrunsOutput ==
  Idle => \A c \in live \ severed : view[c].shown = outs

\* "View detaches; daemon continues" (ARCHITECTURE.md): views that go, in
\* whatever number and at whatever moment, never take the owner with them.
DaemonContinues == Idle \/ Top.call # "panic"
=============================================================================
