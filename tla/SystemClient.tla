----------------------------- MODULE SystemClient -----------------------------
(***************************************************************************)
(* Rustty as a client of a stock tmux over SSH: SystemClient and Client    *)
(* of tmuxx-client, and the part of manage() in rustty/src/tmuxx/system.rs *)
(* that drives them for one connection.                                    *)
(*                                                                         *)
(* The client learns of the server by reading: lists of sessions, windows  *)
(* and panes, then a name and a capture of every pane, one command group   *)
(* at a time, each followed by a barrier that prints the group's marker.   *)
(* Notifications reach it in between, in the order the server writes them. *)
(* A notification that changes structure moves `revision`; what was asked  *)
(* for under an older revision is thrown away and asked for again.         *)
(*                                                                         *)
(* The server is external, and as free as the code can rely on: a group    *)
(* and its barrier, which arrive in one write, run together; pane ids are  *)
(* not used twice; pane output, replies and pauses reach the stream in the *)
(* order they happen, while the news of a window or a name may be written  *)
(* any time after (`owed`).  Every pane is the only one of its window,     *)
(* which has its id; there is one session.                                 *)
(*                                                                         *)
(* A revision is never looked at but to compare it with the one a job or   *)
(* a scan began with: `fresh` is that comparison, and is lost whenever the *)
(* revision moves.  Times are left out: a quiet interval may be over, and  *)
(* a deadline may pass, at any turn of the owner.                          *)
(***************************************************************************)
EXTENDS Naturals, FiniteSets, SequencesExt

CONSTANTS         \* a finite set of numbers, and natural numbers
  Panes,        \* the panes that may ever be; 1 is there from the start
  MaxOutput,    \* bound: outputs of one pane
  MaxNames,     \* bound: names the session has one after the other, at least 1
  MaxPauses,    \* bound: times that a pane is paused
  MaxRequests,  \* bound: requests of the user
  MaxRefresh    \* bound: refreshes asked for by the user

VARIABLES
  srv,    \* the server: panes that live, how much they put out, its name
  up,     \* command groups on their way to the server
  down,   \* records on their way to the client
  link,   \* "open" or "closed"
  cl,     \* the SystemClient
  app,    \* what manage() keeps of the connection
  ran     \* history: what the server did with each request of the user

vars == <<srv, up, down, link, cl, app, ran>>

Requests == 1 .. MaxRequests

\* A line of the control stream; of a reply, what its guards enclose.
Rec(k) == [kind |-> k, pane |-> 0, n |-> 0, rows |-> {}, failed |-> FALSE]

\* A command group: a question of the client's own, or a request of the user.
Ask(k, p) == [kind |-> k, pane |-> p, id |-> 0]
UserAsk(i) == [kind |-> "user", pane |-> 0, id |-> i]
Nothing == Ask("none", 0)

NoJob == [ask |-> Nothing, fresh |-> FALSE, replies |-> <<>>]
NoScan == [on |-> FALSE, fresh |-> FALSE, windows |-> {}]

-----------------------------------------------------------------------------
(* The client's own queue: SystemClient::{job, pump, bootstrap, queue} *)

Emit(c, e) == [c EXCEPT !.out = Append(@, e)]
Event(k) == [kind |-> k, pane |-> 0, n |-> 0, id |-> 0, failed |-> FALSE]

\* State::revision moves.
Bump(c) == [c EXCEPT !.job.fresh = FALSE, !.scan.fresh = FALSE]

\* pump(): start over when asked to.
StartScan(c) ==
  [c EXCEPT !.boot = FALSE, !.captured = {},
            !.scan = [on |-> TRUE, fresh |-> TRUE, windows |-> {}],
            !.internal = <<Ask("sessions", 0), Ask("windows", 0), Ask("panes", 0)>>]

\* pump(): one job at a time, the client's own before the user's.
Submit(c, ask) ==
  [c EXCEPT !.writes = Append(@, ask),
            !.job = [ask |-> ask, fresh |-> ask.kind # "user", replies |-> <<>>]]

NextJob(c) ==
  IF c.internal # <<>>
  THEN Submit([c EXCEPT !.internal = Tail(@)], Head(c.internal))
  ELSE IF c.users # <<>>
  THEN Submit([c EXCEPT !.users = Tail(@)], UserAsk(Head(c.users)))
  ELSE c

\* Mutant: a job is begun although another one is not done.
PumpAlways(c) == NextJob(IF c.boot THEN StartScan(c) ELSE c)

Pump(c) ==
  IF c.job # NoJob THEN c ELSE NextJob(IF c.boot THEN StartScan(c) ELSE c)

\* bootstrap() of a client that is not disconnected.
Bootstrap(c) == Pump([c EXCEPT !.boot = TRUE, !.stale = 0])

\* discovery_pending()
Pending(c) ==
  \/ c.boot \/ c.scan.on \/ c.internal # <<>> \/ c.stale >= 3
  \/ c.job # NoJob /\ c.job.ask.kind # "user"

-----------------------------------------------------------------------------
(* What the client knows: State::{notify, reconcile, set_name} *)

Structural == {"attached", "renamed", "add", "close", "pause", "continue", "exit"}

Notify(c, r) ==
  LET known == r.pane \in c.panes
      d == CASE r.kind = "attached" ->
                  [c EXCEPT !.attached = TRUE, !.name = r.n, !.needed = TRUE]
             [] r.kind = "renamed" -> [c EXCEPT !.name = r.n]
             [] r.kind = "close" ->
                  [c EXCEPT !.windows = @ \ {r.pane}, !.panes = @ \ {r.pane},
                            !.needed = TRUE]
             [] r.kind = "add" -> [c EXCEPT !.needed = TRUE]
             [] r.kind \in {"pause", "continue", "output"} ->
                  [c EXCEPT !.needed = @ \/ ~known]
             [] r.kind = "exit" -> [c EXCEPT !.gone = TRUE, !.needed = TRUE]
             [] OTHER -> c
  IN IF r.kind \in Structural THEN Bump(d) ELSE d

\* DiscoverySnapshot::validate: every pane is in a window that was listed.
Consistent(windows, panes) == panes \subseteq windows

Reconcile(c, windows, panes) ==
  Bump([c EXCEPT !.windows = windows, !.panes = panes, !.needed = FALSE,
                 !.internal = @ \o <<Ask("name", 0)>>
                   \o [i \in 1 .. Cardinality(panes) |->
                         Ask("capture", SetToSortSeq(panes, <)[i])]])

-----------------------------------------------------------------------------
(* SystemClient::{complete, retry_bootstrap} *)

Retry(c, structural) ==
  LET d == [c EXCEPT !.scan = NoScan, !.internal = <<>>, !.stale = @ + 1,
                     !.boot = c.stale + 1 < 3]
  IN IF d.boot THEN d
     ELSE Emit(d, Event(IF structural THEN "deferred" ELSE "error"))

\* Every attempt is forgiven once nothing of the discovery is left.
Settle(c) ==
  IF ~c.scan.on /\ c.internal = <<>> /\ ~c.boot THEN [c EXCEPT !.stale = 0] ELSE c

\* An answer that is worth having: the rows, the name or the capture.
Store(c, j, reply) ==
  CASE j.ask.kind = "sessions" -> Settle(c)
    [] j.ask.kind = "windows" -> Settle([c EXCEPT !.scan.windows = reply.rows])
    [] j.ask.kind = "panes" ->
         IF Consistent(c.scan.windows, reply.rows)
         THEN Settle(Emit(Reconcile([c EXCEPT !.scan = NoScan],
                                    c.scan.windows, reply.rows), Event("state")))
         ELSE [c EXCEPT !.scan = NoScan, !.broken = TRUE]
    [] j.ask.kind = "name" ->
         Settle(Emit([c EXCEPT !.name = reply.n], Event("state")))
    [] j.ask.kind = "capture" ->
         Settle(IF j.ask.pane \in c.panes
                THEN Emit([c EXCEPT !.captured = @ \union {j.ask.pane}],
                          [Event("capture") EXCEPT !.pane = j.ask.pane,
                                                   !.n = reply.n])
                ELSE c)

\* The revision has moved since a list was asked for, or its scan began.
ListOutdated(c, j) ==
  j.ask.kind \in {"sessions", "windows", "panes"} /\ c.scan.on /\ ~c.scan.fresh

Outdated(c, j) == j.ask.kind \in {"name", "capture"} /\ ~j.fresh

Complete(c, j) ==
  LET reply == Last(j.replies)
  IN IF j.ask.kind = "user"
     THEN Emit(c, [Event("finished") EXCEPT !.id = j.ask.id, !.pane = reply.pane,
                                            !.failed = reply.failed])
     ELSE IF Outdated(c, j) THEN Retry(c, TRUE)
     ELSE IF reply.failed THEN Retry(c, FALSE)
     ELSE IF ListOutdated(c, j) THEN Retry(c, TRUE)
     ELSE Store(c, j, reply)

-----------------------------------------------------------------------------
(* SystemClient::{process, feed, finish, cancel_queued} *)

\* Requests that were never written are cancelled.
CancelQueued(c) ==
  [c EXCEPT !.out = @ \o [i \in DOMAIN c.users |->
                            [Event("cancelled") EXCEPT !.id = c.users[i]]],
            !.users = <<>>, !.internal = <<>>, !.writes = <<>>, !.scan = NoScan]

\* Mutant: a request without an answer is taken for one that never ran.
IndeterminateCancelled(c) ==
  LET d == [c EXCEPT !.job = NoJob]
  IN IF c.job.ask.kind = "user"
     THEN Emit(d, [Event("cancelled") EXCEPT !.id = c.job.ask.id]) ELSE d

\* The job that was written and has no barrier yet: nobody knows.
Indeterminate(c) ==
  LET d == [c EXCEPT !.job = NoJob]
  IN IF c.job.ask.kind = "user"
     THEN Emit(d, [Event("indeterminate") EXCEPT !.id = c.job.ask.id]) ELSE d

Finish(c) == CancelQueued(Indeterminate([c EXCEPT !.gone = TRUE, !.needed = TRUE]))

\* Mutant: a pause is only taken for news of the pane.
StopLiveOnly(c, p) == [c EXCEPT !.boot = TRUE]

\* Pause and Continue: what the pane puts out has a gap from here on.
StopLive(c, p) == [c EXCEPT !.captured = @ \ {p}, !.boot = TRUE]

Process(c, r) ==
  CASE r.kind = "reply" ->
         IF c.job = NoJob THEN c ELSE [c EXCEPT !.job.replies = Append(@, r)]
    [] r.kind = "endless" -> [c EXCEPT !.broken = TRUE]
    [] r.kind = "mark" ->
         IF c.job = NoJob THEN [c EXCEPT !.broken = TRUE]
         ELSE Complete([c EXCEPT !.job = NoJob], c.job)
    [] r.kind = "output" ->
         IF r.pane \in c.captured
         THEN Emit(c, [Event("output") EXCEPT !.pane = r.pane, !.n = r.n]) ELSE c
    [] r.kind \in {"pause", "continue"} -> StopLive(c, r.pane)
    [] r.kind = "exit" -> Indeterminate(c)
    [] OTHER -> c

\* Mutant: nothing is asked for while something else is.
RescansIdle(c) == c.needed /\ c.job = NoJob /\ c.stale < 3

\* feed(): after news that need a discovery, unless one is running already.
Rescans(c) == c.needed /\ ~c.scan.on /\ c.stale < 3

\* feed(), given one record, as manage() splits what it reads.
FeedRecord(c, r) ==
  LET d == Process(Notify(c, r), r)
      e == IF r.kind \in Structural
           THEN Emit([d EXCEPT !.boot = @ \/ Rescans(d)], Event("state")) ELSE d
  IN IF d.broken THEN Finish(Emit(d, Event("error")))
     ELSE IF d.gone THEN CancelQueued(e)
     ELSE Pump(e)

-----------------------------------------------------------------------------
(* manage(): what the connection does with the client's events *)

\* owns(): the pane is in a window of the session that this connection attached.
Owns(s, p) == s.c.attached /\ p \in s.a.state.panes /\ p \in s.a.state.windows

\* publish_graph(): the graph is shown once every pane of it has been captured,
\* and screens of other panes are let go.
Publish(a) ==
  IF a.failed \/ a.state.needed \/ ~(a.state.panes \subseteq a.captured) THEN a
  ELSE [a EXCEPT !.captured = @ \intersect a.state.panes,
                 !.graph = [windows |-> a.state.windows, panes |-> a.state.panes,
                            name |-> a.state.name]]

\* What the owner keeps of State.
Known(c) == [needed |-> c.needed, windows |-> c.windows, panes |-> c.panes,
             name |-> c.name]

\* CommandFinished.  The reply to a request that moves the focus names the pane:
\* apply_focus_snapshot() takes it, if it is known, and moves the revision.
Finished(s, e) ==
  LET t == [s EXCEPT !.a.outcomes[e.id] =
                       Append(@, IF e.failed THEN "failed" ELSE "finished")]
  IN IF e.failed \/ e.pane \notin s.c.windows \intersect s.c.panes THEN t
     ELSE [c |-> Bump(t.c), a |-> Publish([t.a EXCEPT !.state = Known(t.c)])]

\* fail(): everything is given up; a closed connection shows nothing more.
Apply(s, e) ==
  LET shows == ~s.a.failed /\ Owns(s, e.pane)
  IN CASE e.kind = "state" ->
            IF s.c.gone THEN s
            ELSE [s EXCEPT !.a = Publish([@ EXCEPT !.state = Known(s.c)])]
       [] e.kind = "capture" ->
            IF shows
            THEN [s EXCEPT !.a = Publish([@ EXCEPT !.shown[e.pane] = e.n,
                                          !.captured = @ \union {e.pane}])]
            ELSE s
       [] e.kind = "output" ->
            IF shows /\ e.pane \in s.a.captured
            THEN [s EXCEPT !.a.shown[e.pane] = e.n,
                           !.a.torn = @ \/ e.n # s.a.shown[e.pane] + 1]
            ELSE s
       [] e.kind = "finished" -> Finished(s, e)
       [] e.kind \in {"indeterminate", "cancelled"} ->
            [s EXCEPT !.a.outcomes[e.id] = Append(@, e.kind)]
       [] e.kind = "error" -> [s EXCEPT !.a.failed = TRUE]
       [] e.kind = "deferred" ->
            [s EXCEPT !.a.failed = @ \/ s.a.recovery = "resumed",
                      !.a.recovery = IF @ = "none" THEN "waiting" ELSE @]

\* The events of a call are handled one by one before the next record is fed.
Handle(c, a) ==
  LET s == FoldLeft(Apply, [c |-> c, a |-> a], c.out)
  IN cl' = [s.c EXCEPT !.out = <<>>] /\ app' = s.a

-----------------------------------------------------------------------------
NewClient ==
  [gone |-> FALSE, needed |-> TRUE, broken |-> FALSE, attached |-> FALSE,
   windows |-> {}, panes |-> {}, name |-> 0, job |-> NoJob, users |-> <<>>,
   internal |-> <<>>, scan |-> NoScan, boot |-> FALSE, stale |-> 0,
   captured |-> {}, writes |-> <<>>, out |-> <<>>]

\* Actor::start has bootstrapped the client and flushed its first command; the
\* server begins with %session-changed.
Init ==
  /\ srv = [live |-> {1}, ever |-> {1}, name |-> 1, owed |-> <<>>,
            count |-> [p \in Panes |-> 0], paused |-> {}, pauses |-> 0]
  /\ up = Bootstrap(NewClient).writes
  /\ down = <<[Rec("attached") EXCEPT !.n = 1]>>
  /\ link = "open"
  /\ cl = [Bootstrap(NewClient) EXCEPT !.writes = <<>>]
  /\ app = [recovery |-> "none", failed |-> FALSE, torn |-> FALSE, refreshes |-> 0,
            asked |-> 0, shown |-> [p \in Panes |-> 0], captured |-> {},
            state |-> Known(NewClient),
            graph |-> [windows |-> {}, panes |-> {}, name |-> 0],
            outcomes |-> [i \in Requests |-> <<>>]]
  /\ ran = [i \in Requests |-> <<>>]

-----------------------------------------------------------------------------
(* The server, and the transport *)

client == <<cl, app>>

\* A connection that was given up has its process killed.
Open == link = "open" /\ ~app.failed

\* A window with a new pane.
NewWindow(p) ==
  /\ Open /\ p \notin srv.ever
  /\ srv' = [srv EXCEPT !.live = @ \union {p}, !.ever = @ \union {p},
                        !.owed = Append(@, [Rec("add") EXCEPT !.pane = p])]
  /\ UNCHANGED <<up, down, link, client, ran>>

\* A pane ends, and its window with it.
CloseWindow(p) ==
  /\ Open /\ p \in srv.live /\ srv.live # {p}
  /\ srv' = [srv EXCEPT !.live = @ \ {p}, !.paused = @ \ {p},
                        !.owed = Append(@, [Rec("close") EXCEPT !.pane = p])]
  /\ UNCHANGED <<up, down, link, client, ran>>

Rename ==
  /\ Open /\ srv.name < MaxNames
  /\ srv' = [srv EXCEPT !.name = @ + 1,
               !.owed = Append(@, [Rec("renamed") EXCEPT !.n = srv.name + 1])]
  /\ UNCHANGED <<up, down, link, client, ran>>

\* A notification of what has happened is written.
Tell ==
  /\ Open /\ srv.owed # <<>>
  /\ down' = Append(down, Head(srv.owed))
  /\ srv' = [srv EXCEPT !.owed = Tail(@)]
  /\ UNCHANGED <<up, link, client, ran>>

\* A paused pane's output is not sent.
Output(p) ==
  /\ Open /\ p \in srv.live /\ srv.count[p] < MaxOutput
  /\ srv' = [srv EXCEPT !.count[p] = @ + 1]
  /\ down' = IF p \in srv.paused THEN down
             ELSE Append(down, [Rec("output") EXCEPT !.pane = p,
                                                     !.n = srv.count[p] + 1])
  /\ UNCHANGED <<up, link, client, ran>>

Pause(p) ==
  /\ Open /\ p \in srv.live \ srv.paused /\ srv.pauses < MaxPauses
  /\ srv' = [srv EXCEPT !.paused = @ \union {p}, !.pauses = @ + 1]
  /\ down' = Append(down, [Rec("pause") EXCEPT !.pane = p])
  /\ UNCHANGED <<up, link, client, ran>>

Continue(p) ==
  /\ Open /\ p \in srv.paused
  /\ srv' = [srv EXCEPT !.paused = @ \ {p}]
  /\ down' = Append(down, [Rec("continue") EXCEPT !.pane = p])
  /\ UNCHANGED <<up, link, client, ran>>

\* What the server replies to a question of the client's own.
Reply(ask) ==
  LET r == Rec("reply")
  IN CASE ask.kind = "sessions" -> r
       [] ask.kind \in {"windows", "panes"} -> [r EXCEPT !.rows = srv.live]
       [] ask.kind = "name" -> [r EXCEPT !.n = srv.name]
       [] ask.kind = "capture" ->
            [r EXCEPT !.failed = ask.pane \notin srv.live,
                      !.n = IF ask.pane \in srv.live THEN srv.count[ask.pane] ELSE 0]

\* A command group runs, and its barrier, which came in the same write.
Execute ==
  /\ Open /\ up # <<>>
  /\ up' = Tail(up)
  /\ LET ask == Head(up)
     IN IF ask.kind # "user"
        THEN down' = down \o <<Reply(ask), Rec("mark")>> /\ ran' = ran
        ELSE \E r \in {[Rec("reply") EXCEPT !.pane = p] : p \in srv.live \union {0}}
                        \union {[Rec("reply") EXCEPT !.failed = TRUE], Rec("endless")} :
               /\ down' = down \o <<r, Rec("mark")>>
               /\ ran' = [ran EXCEPT ![ask.id] =
                            Append(@, IF r.failed THEN "failed" ELSE "finished")]
  /\ UNCHANGED <<srv, link, client>>

\* The server lets its client go, with a word.
ServerExit ==
  /\ Open
  /\ link' = "closed" /\ up' = <<>> /\ down' = Append(down, Rec("exit"))
  /\ UNCHANGED <<srv, client, ran>>

\* The connection breaks: what is on its way is lost from some record on.
Sever ==
  /\ Open
  /\ link' = "closed" /\ up' = <<>>
  /\ \E k \in 0 .. Len(down) : down' = SubSeq(down, 1, k)
  /\ UNCHANGED <<srv, client, ran>>

-----------------------------------------------------------------------------
(* The owner thread of the connection *)

server == <<srv, ran, link>>

\* TransportEvent::Bytes, a record at a time; nothing follows %exit.
Feed ==
  /\ ~app.failed /\ ~cl.gone /\ down # <<>>
  /\ down' = Tail(down)
  /\ Handle(FeedRecord(cl, Head(down)), app)
  /\ UNCHANGED <<up, server>>

\* TransportEvent::Closed of the only connection.
Closed ==
  /\ ~app.failed /\ link = "closed" /\ down = <<>>
  /\ Handle(Finish(cl), [app EXCEPT !.failed = TRUE])
  /\ UNCHANGED <<up, down, server>>

\* A request of the user.
Queue ==
  /\ ~app.failed /\ ~cl.gone /\ app.asked < MaxRequests
  /\ cl' = Pump([cl EXCEPT !.users = Append(@, app.asked + 1)])
  /\ app' = [app EXCEPT !.asked = @ + 1]
  /\ UNCHANGED <<up, down, server>>

\* The user asks for a fresh picture; a recovery is left to itself.
Refresh ==
  /\ ~app.failed /\ ~cl.gone /\ app.refreshes < MaxRefresh
  /\ app.recovery = "none"
  /\ cl' = Bootstrap(cl)
  /\ app' = [app EXCEPT !.refreshes = @ + 1]
  /\ UNCHANGED <<up, down, server>>

\* flush(): what the client wants written goes to the writer thread.
Flush ==
  /\ ~app.failed /\ cl.writes # <<>>
  /\ up' = IF link = "open" THEN up \o cl.writes ELSE up
  /\ cl' = [cl EXCEPT !.writes = <<>>]
  /\ UNCHANGED <<down, app, server>>

\* recover_discovery(): over, resumed after a quiet interval, or too late.
Recovered ==
  /\ ~app.failed /\ app.recovery # "none" /\ ~Pending(cl)
  /\ app' = [app EXCEPT !.recovery = "none"]
  /\ UNCHANGED <<up, down, cl, server>>

Resume ==
  /\ ~app.failed /\ app.recovery = "waiting" /\ Pending(cl)
  /\ IF cl.gone
     THEN cl' = cl /\ app' = [app EXCEPT !.failed = TRUE]
     ELSE cl' = Bootstrap(cl) /\ app' = [app EXCEPT !.recovery = "resumed"]
  /\ UNCHANGED <<up, down, server>>

TooLate ==
  /\ ~app.failed /\ app.recovery # "none" /\ Pending(cl)
  /\ app' = [app EXCEPT !.failed = TRUE]
  /\ UNCHANGED <<up, down, cl, server>>

Next ==
  \/ \E p \in Panes : \/ NewWindow(p) \/ CloseWindow(p) \/ Output(p)
                      \/ Pause(p) \/ Continue(p)
  \/ Rename \/ Tell \/ Execute \/ ServerExit \/ Sever
  \/ Feed \/ Closed \/ Queue \/ Refresh \/ Flush
  \/ Recovered \/ Resume \/ TooLate

Spec == Init /\ [][Next]_vars

-----------------------------------------------------------------------------
(* Properties *)

\* Whatever is asked or known is of the kind the code declares, at most one
\* command group is on its way, and the writer's channel never overflows.
TypeOK ==
  /\ cl.windows \subseteq Panes /\ cl.panes \subseteq Panes
  /\ cl.captured \subseteq Panes /\ cl.out = <<>>
  /\ cl.stale \in 0 .. 255 /\ cl.name \in 0 .. MaxNames
  /\ cl.scan.on => \/ \E i \in DOMAIN cl.internal : cl.internal[i].kind = "panes"
                   \/ cl.job.ask.kind = "panes"
  /\ Len(cl.writes) + Len(up) <= 1
  /\ app.recovery \in {"none", "waiting", "resumed"}
  /\ \A i \in Requests : Len(ran[i]) <= 1

\* Nothing is on its way, nothing is being asked, and nothing was given up.
Quiet ==
  /\ ~app.failed /\ ~cl.gone /\ link = "open"
  /\ up = <<>> /\ down = <<>> /\ srv.owed = <<>>
  /\ cl.writes = <<>> /\ cl.job = NoJob /\ app.recovery = "none"

\* When everything has been said the user sees the server as it is, however
\* replies and notifications raced: windows, panes, name, and the screen of
\* every pane that is not paused.
QuietMeansCurrent ==
  Quiet =>
    /\ ~cl.needed /\ ~Pending(cl) /\ cl.users = <<>>
    /\ app.graph = [windows |-> srv.live, panes |-> srv.live, name |-> srv.name]
    /\ \A p \in srv.live \ srv.paused :
         p \in cl.captured /\ app.shown[p] = srv.count[p]

\* A screen never shows an output without the one before it: live output only
\* follows a capture it continues.
ShownIsWhole == ~app.torn

\* A request of the user has one outcome at most, and it is true: what is said
\* to have finished or failed did, what is said to be cancelled never ran, and
\* once the client is gone nobody is left without an outcome.
OutcomesAreTrue ==
  \A i \in Requests :
    LET told == app.outcomes[i]
    IN /\ Len(told) <= 1
       /\ told = <<"cancelled">> => ran[i] = <<>>
       /\ \A v \in {"finished", "failed"} : told = <<v>> => ran[i] = <<v>>
       /\ cl.gone /\ i <= app.asked => told # <<>>
=============================================================================
