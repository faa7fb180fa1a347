----------------------------- MODULE HostActions -----------------------------
(***************************************************************************)
(* What a pane's application asks of a view's desktop, and what a view     *)
(* keeps alive (tmuxx-runtime/src/lib.rs, notifications.rs): clipboard     *)
(* reads and desktop notifications are sent to one elected client, which   *)
(* answers later, or never; panes that are not persistent live as long as   *)
(* a client holds a lease on them.                                         *)
(*                                                                         *)
(* An answer meets its own expiry, another answer, the end or respawn of   *)
(* the process that asked, an input queue without room, and the departure  *)
(* of its client.  A handler is one step, but sending to a client whose    *)
(* writer has ended disconnects it, which answers for it and closes its    *)
(* panes, which sends again.                                               *)
(***************************************************************************)
EXTENDS HostState, Lists

vars == <<known, severed, panes, actions, next, answers, askers, accepted>>

Init ==
  /\ known = Clients /\ severed = {}
  /\ panes = [p \in Panes |-> NewPane]
  /\ actions = <<>> /\ next = 1
  /\ answers = [e \in Requests |-> <<>>]
  /\ askers = [e \in Requests |-> NoAsker]
  /\ accepted = {}

-----------------------------------------------------------------------------
(* What the owner does in one step, as operators on                        *)
(* o = [known, panes, actions, answers, todo].  A handler changes o and    *)
(* puts the calls it makes before what is left to do; Run makes them.      *)

Now == [known |-> known, panes |-> panes, actions |-> actions, answers |-> answers,
        todo |-> <<>>]

Without(f, x) == [y \in DOMAIN f \ {x} |-> f[y]]
With(f, x, v) == [y \in DOMAIN f \union {x} |-> IF y = x THEN v ELSE f[y]]
Forget(o, e) == [o EXCEPT !.actions = Without(@, e)]

Do(o, calls) == [o EXCEPT !.todo = calls \o @]

\* A call is a name and what it is for: a client, a pane or a request, or a
\* client and a pane.  One call for each of S, in order:
Each(name, S) ==
  [i \in 1 .. Cardinality(S) |-> <<name, Ascending(S)[i], 0>>]

EventsOf(o, Test(_)) == {e \in DOMAIN o.actions : Test(o.actions[e])}

Writable(o, p) == o.panes[p].gen # 0 /\ o.panes[p].input = "open"

\* Effect::Write to whatever process the pane has now
Written(o, p, e, reply) ==
  [o EXCEPT !.answers[e] = @ \o [i \in DOMAIN reply |->
                                   [gen |-> o.panes[p].gen, reply |-> reply[i]]]]

\* A client whose writer has ended is disconnected by what is sent to it.
Send(o, c) == IF c \in o.known \cap severed THEN Do(o, <<<<"disconnect", c, 0>>>>) ELSE o

Broadcast(o) == Do(o, Each("send", o.known))

\* input_failed: every client is disconnected.
InputFailed(o, p) ==
  IF o.panes[p].gen = 0 THEN o
  ELSE Do([o EXCEPT !.panes[p].gen = 0],
          <<<<"broadcast", 0, 0>>, <<"disconnect all", 0, 0>>, <<"exited", p, 0>>>>)

\* The pane's process is gone; the pane stays with remain-on-exit.
Exited(o, p) ==
  Broadcast([o EXCEPT !.panes[p].gen = 0, !.panes[p].there = @ /\ p \in Remaining])

\* flush_notification_reply.  A toast's reply is empty.
Flush(o, e) ==
  LET a == o.actions[e]
      p == a.pane
      rest == IF Finished(a) THEN Forget(o, e) ELSE [o EXCEPT !.actions[e].reply = <<>>]
  IN  CASE ~OwnerAlive(o, a) -> Forget(o, e)
        [] OwnerAlive(o, a) /\ a.reply = <<>> -> o
        [] OwnerAlive(o, a) /\ a.reply # <<>> /\ a.kind = "toast" -> rest
        [] OwnerAlive(o, a) /\ a.reply # <<>> /\ a.kind # "toast" ->
             CASE o.panes[p].input = "open" -> Written(rest, p, e, a.reply)
               [] o.panes[p].input = "full" -> o
               [] o.panes[p].input = "broken" ->
                    InputFailed([o EXCEPT !.actions[e].reply = <<>>], p)

\* Mutant: a reply may follow the final one.
MayReplyAgain(o, e) ==
  e \in DOMAIN o.actions /\ Notification(o.actions[e]) /\ OwnerAlive(o, o.actions[e])

MayReply(o, e) ==
  /\ e \in DOMAIN o.actions /\ Notification(o.actions[e])
  /\ OwnerAlive(o, o.actions[e]) /\ ~Finished(o.actions[e])

\* respond_notification: at most one "untracked" and then one final reply
Respond(o, e, reply) ==
  IF ~MayReply(o, e) \/ (reply = "untracked" /\ o.actions[e].untracked) THEN o
  ELSE Flush([o EXCEPT !.actions[e].reply = Append(@, reply),
                       !.actions[e].untracked = @ \/ reply = "untracked"], e)

\* Mutant: who owes the reply is gone, and so is the reply.
RetireFinished(o, e) ==
  IF ~OwnerAlive(o, o.actions[e]) \/ Finished(o.actions[e]) THEN Forget(o, e)
  ELSE Respond(o, e, "final")

\* retire_notification: the application is told that it failed.
Retire(o, e) ==
  IF ~OwnerAlive(o, o.actions[e]) THEN Forget(o, e) ELSE Respond(o, e, "final")

\* The answer to a clipboard read goes to the pane, not to the process.
Answered(o, e) == Written(Forget(o, e), o.actions[e].pane, e, <<"final">>)

\* deny_host_events, for one of them
Deny(o, e) ==
  IF e \notin DOMAIN o.actions THEN o
  ELSE LET p == o.actions[e].pane
       IN  IF Notification(o.actions[e]) THEN Retire(o, e)
           ELSE IF ~o.panes[p].there THEN Forget(o, e)
           ELSE IF Writable(o, p) THEN Answered(o, e)
           ELSE InputFailed(Forget(o, e), p)

\* release_view_state (the drag and the pane's focus are elsewhere)
ReleaseView(o, c, p) ==
  Do(o, Each("deny", EventsOf(o, LAMBDA a : a.client = c /\ a.pane = p /\ Notification(a)))
        \o <<<<"unview", c, p>>>>)

\* disconnect_view_states
ReleaseViews(o, c) ==
  LET viewed == {p \in Panes : c \in o.panes[p].views}
  IN  [i \in 1 .. Cardinality(viewed) |-> <<"release view", c, Ascending(viewed)[i]>>]

\* Mutant: what the client was asked is left to its deadline.
DisconnectHostPending(o, c) == Do(o, ReleaseViews(o, c) \o <<<<"give back", c, 0>>>>)

\* disconnect_host: its views, its requests, its leases
DisconnectHost(o, c) ==
  Do(o, ReleaseViews(o, c) \o <<<<"deny client", c, 0>>, <<"give back", c, 0>>>>)

DenyClient(o, c) == Do(o, Each("deny", EventsOf(o, LAMBDA a : a.client = c)))

GiveBack(o, c) ==
  Do([o EXCEPT !.panes = [p \in Panes |-> [o.panes[p] EXCEPT !.owners = @ \ {c}]]],
     Each("close ephemeral", {p \in Panes : o.panes[p].owners = {c}}))

Disconnect(o, c) == DisconnectHost([o EXCEPT !.known = @ \ {c}], c)

ClosePane(o, p) ==
  Broadcast([o EXCEPT !.panes[p].there = FALSE, !.panes[p].gen = 0])

\* release_ephemeral
CloseEphemeral(o, p) ==
  LET s == o.panes[p]
  IN  IF s.owners # {} \/ ~s.there \/ s.persistent THEN o ELSE ClosePane(o, p)

Call(o, call) ==
  LET name == call[1]
  IN  CASE name = "send"            -> Send(o, call[2])
        [] name = "broadcast"       -> Broadcast(o)
        [] name = "disconnect"      -> IF call[2] \in o.known THEN Disconnect(o, call[2]) ELSE o
        [] name = "disconnect all"  -> Do(o, Each("disconnect", o.known))
        [] name = "exited"          -> Exited(o, call[2])
        [] name = "flush"           -> IF call[2] \in DOMAIN o.actions
                                       THEN Flush(o, call[2]) ELSE o
        [] name = "close"           -> Respond(o, call[2], "final")
        [] name = "deny"            -> Deny(o, call[2])
        [] name = "deny client"     -> DenyClient(o, call[2])
        [] name = "release view"    -> ReleaseView(o, call[2], call[3])
        [] name = "unview"          -> [o EXCEPT !.panes[call[3]].views = @ \ {call[2]}]
        [] name = "give back"       -> GiveBack(o, call[2])
        [] name = "close ephemeral" -> CloseEphemeral(o, call[2])

\* The first call that is left to do, before those that it makes
Turn(o) ==
  IF o.todo = <<>> THEN o ELSE Call([o EXCEPT !.todo = Tail(@)], Head(o.todo))

Run(o) ==
  LET after[i \in 0 .. MaxCalls] == IF i = 0 THEN o ELSE Turn(after[i - 1])
  IN  IF o.todo = <<>> THEN o ELSE after[MaxCalls]

Commit(result) ==
  \E o \in {Run(result)} :
    /\ o.todo = <<>>
    /\ known' = o.known /\ panes' = o.panes
    /\ actions' = o.actions /\ answers' = o.answers

-----------------------------------------------------------------------------
(* Requests *)

\* No client: the application is denied at once.
Refused(o, p, e, kind) ==
  CASE kind = "toast" -> o
    [] kind # "toast" /\ Writable(o, p) -> Written(o, p, e, <<"final">>)
    [] kind # "toast" /\ ~Writable(o, p) -> InputFailed(o, p)

\* dispatch_host_to: the client may be gone already, or be found gone.
Dispatch(o, p, e, kind, c) ==
  IF c = 0 \/ Cardinality(DOMAIN o.actions) >= MaxPending THEN Refused(o, p, e, kind)
  ELSE LET added == [o EXCEPT !.actions = With(@, e,
              [kind |-> kind, client |-> c, pane |-> p, gen |-> o.panes[p].gen,
               late |-> FALSE, untracked |-> FALSE, reply |-> <<>>])]
       IN  CASE c \in o.known \cap severed -> Disconnect(added, c)
             [] c \in o.known \ severed    -> added
             [] c \notin o.known           -> DisconnectHost(added, c)

Asking(p, e, kind) ==
  /\ panes[p].there /\ panes[p].gen # 0 /\ e = next
  /\ next' = e + 1
  /\ askers' = [askers EXCEPT ![e] = [pane |-> p, gen |-> panes[p].gen, kind |-> kind]]
  /\ UNCHANGED <<severed, accepted>>

\* dispatch_host: the focused view, or else the first; any may be focused.
RequestRead(p, e) ==
  /\ Asking(p, e, "read")
  /\ \E c \in IF known = {} THEN {0} ELSE known : Commit(Dispatch(Now, p, e, "read", c))

\* The client that has the pane's toasts keeps them; else one with a view.
Elect(p) ==
  LET owners == {e \in DOMAIN actions :
                   LET a == actions[e]
                   IN  /\ a.pane = p /\ a.gen = panes[p].gen /\ Notification(a)
                       /\ ~Finished(a) /\ a.client \in known}
      views == known \cap panes[p].views
  IN  CASE owners # {} -> {actions[Ascending(owners)[1]].client}
        [] owners = {} /\ views # {} -> views
        [] owners = {} /\ views = {} /\ known # {} -> {Ascending(known)[1]}
        [] OTHER -> {0}

\* Mutant: one more than the limit.
HasShownOneMore(o, c) ==
  Cardinality(EventsOf(o, LAMBDA a : a.client = c /\ Notification(a))) <= MaxShown

HasShown(o, c) ==
  Cardinality(EventsOf(o, LAMBDA a : a.client = c /\ Notification(a))) < MaxShown

\* Those of the pane with the same identifier are closed first.
Replace(o, p, kind) ==
  IF kind = "toast" THEN o
  ELSE Run(Do(o, Each("close", EventsOf(o, LAMBDA a : a.pane = p /\ a.kind = "show"))))

\* dispatch_notification.  The client is chosen before those are closed.
RequestShow(p, e, kind) ==
  /\ Asking(p, e, kind)
  /\ \E c \in Elect(p) :
       \E o \in {Replace(Now, p, kind)} :
         Commit(Dispatch(o, p, e, kind,
                         IF HasShown(o, c) THEN c ELSE 0))

\* respond_host, by any client for any request there was.  An answer to a
\* clipboard read that does not fit is refused, and the request forgotten.
Answer(c, e, reply) ==
  /\ c \in known /\ e \in DOMAIN actions /\ actions[e].client = c
  /\ LET a == actions[e]
     IN  IF Notification(a)
         THEN /\ Commit(Respond(Now, e, reply))
              /\ accepted' = IF MayReply(Now, e) /\ reply = "final"
                             THEN accepted \union {e} ELSE accepted
         ELSE /\ reply = "final"
              /\ Commit(IF panes[a.pane].there /\ Writable(Now, a.pane)
                        THEN Answered(Now, e) ELSE Forget(Now, e))
              /\ UNCHANGED accepted
  /\ UNCHANGED <<severed, next, askers>>

-----------------------------------------------------------------------------
(* Views and leases *)

Exists(c, p) == c \in known /\ panes[p].there

\* view_state
RegisterView(c, p) ==
  /\ Exists(c, p)
  /\ Commit([Now EXCEPT !.panes[p].views = @ \union {c}])
  /\ UNCHANGED <<severed, next, askers, accepted>>

\* tmuxx-retain-pane (on, off) and tmuxx-claim-pane
Lease(c, p, persistent) ==
  /\ Exists(c, p)
  /\ Commit([Now EXCEPT !.panes[p].owners = @ \union {c},
                        !.panes[p].persistent = persistent])
  /\ UNCHANGED <<severed, next, askers, accepted>>

\* Mutant: a pane is not closed when its last lease is given back.
ReleasedOnly(c, p) ==
  [Run(ReleaseView(Now, c, p)) EXCEPT !.panes[p].owners = @ \ {c}]

\* tmuxx-release-pane
Released(c, p) ==
  CloseEphemeral([Run(ReleaseView(Now, c, p)) EXCEPT !.panes[p].owners = @ \ {c}], p)

ReleasePane(c, p) ==
  /\ Exists(c, p)
  /\ Commit(Released(c, p))
  /\ UNCHANGED <<severed, next, askers, accepted>>

-----------------------------------------------------------------------------
(* What happens to clients and processes *)

Sever(c) ==
  /\ c \in known \ severed
  /\ severed' = severed \union {c}
  /\ UNCHANGED <<known, panes, actions, next, answers, askers, accepted>>

HandleDisconnect(c) ==
  /\ c \in known \cap severed
  /\ Commit(Disconnect(Now, c))
  /\ UNCHANGED <<severed, next, askers, accepted>>

\* Its output has ended, or it has exited.
ProcessEnding(p) ==
  /\ panes[p].gen # 0 /\ ~panes[p].ending
  /\ Commit([Now EXCEPT !.panes[p].ending = TRUE])
  /\ UNCHANGED <<severed, next, askers, accepted>>

\* finish_process
ProcessEnds(p) ==
  /\ panes[p].gen # 0 /\ panes[p].ending
  /\ Commit(Exited(Now, p))
  /\ UNCHANGED <<severed, next, askers, accepted>>

KillPane(p) ==
  /\ panes[p].there
  /\ Commit(ClosePane(Now, p))
  /\ UNCHANGED <<severed, next, askers, accepted>>

Respawn(p) ==
  /\ panes[p].there /\ panes[p].last < MaxGen
  /\ Commit([Now EXCEPT !.panes[p].gen = panes[p].last + 1,
                        !.panes[p].last = @ + 1, !.panes[p].ending = FALSE,
                        !.panes[p].input = "open"])
  /\ UNCHANGED <<severed, next, askers, accepted>>

\* The application stops reading, reads again, or its writer ends.
InputChanges(p, to) ==
  /\ panes[p].gen # 0 /\ panes[p].input \notin {to, "broken"}
  /\ Commit([Now EXCEPT !.panes[p].input = to])
  /\ UNCHANGED <<severed, next, askers, accepted>>

\* Thirty seconds pass for a clipboard read.
TimePasses(e) ==
  /\ e \in DOMAIN actions /\ actions[e].kind = "read" /\ ~actions[e].late
  /\ Commit([Now EXCEPT !.actions[e].late = TRUE])
  /\ UNCHANGED <<severed, next, askers, accepted>>

\* flush_notification_replies
FlushAll(o) == Run(Do(o, Each("flush", EventsOf(o, LAMBDA a : a.reply # <<>>))))

\* expire_host
Expired(o) ==
  EventsOf(o, LAMBDA a : \/ a.late \/ ~o.panes[a.pane].there
                         \/ Notification(a) /\ ~OwnerAlive(o, a))

\* Leases and views of panes that are gone go with them.
Pruned(o) ==
  [o EXCEPT !.panes = [p \in Panes |->
     IF o.panes[p].there THEN o.panes[p]
     ELSE [o.panes[p] EXCEPT !.owners = {}, !.views = {}]]]

\* Each turn of the owner's loop
Tick ==
  /\ \E o \in {Pruned(FlushAll(Now))} : Commit(Do(o, Each("deny", Expired(o))))
  /\ UNCHANGED <<severed, next, askers, accepted>>

Next ==
  \/ \E p \in Panes, e \in Requests :
       RequestRead(p, e) \/ RequestShow(p, e, "show") \/ RequestShow(p, e, "toast")
  \/ \E c \in Clients, e \in Requests : Answer(c, e, "untracked") \/ Answer(c, e, "final")
  \/ \E c \in Clients, p \in Panes :
       \/ RegisterView(c, p) \/ ReleasePane(c, p)
       \/ \E persistent \in BOOLEAN : Lease(c, p, persistent)
  \/ \E c \in Clients : Sever(c) \/ HandleDisconnect(c)
  \/ \E p \in Panes :
       \/ ProcessEnding(p) \/ ProcessEnds(p) \/ KillPane(p) \/ Respawn(p)
       \/ \E to \in {"open", "full", "broken"} : InputChanges(p, to)
  \/ \E e \in Requests : TimePasses(e)
  \/ Tick

Spec == Init /\ [][Next]_vars

-----------------------------------------------------------------------------
(* Types; the other properties are those of HostState. *)

\* Every variable holds what its declaration says, and the two limits hold.
TypeOK ==
  /\ known \subseteq Clients /\ severed \subseteq Clients
  /\ panes \in [Panes -> Pane]
  /\ DOMAIN actions \subseteq 1 .. next - 1
  /\ \A e \in DOMAIN actions :
       LET a == actions[e]
       IN  /\ [a EXCEPT !.reply = <<>>] \in Action
           /\ a.reply \in {<<>>, <<"untracked">>, <<"final">>, <<"untracked", "final">>}
  /\ Cardinality(DOMAIN actions) <= MaxPending
  /\ \A c \in Clients :
       Cardinality(EventsOf(Now, LAMBDA a : a.client = c /\ Notification(a))) <= MaxShown
=============================================================================
