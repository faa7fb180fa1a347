---------------------------- MODULE CommandQueues ----------------------------
(***************************************************************************)
(* The command queues of the owner (tmuxx-runtime/src/scheduler.rs).  Each *)
(* client has a queue of requests, a request is a batch of commands, and   *)
(* the owner drives one ready queue per turn, for at most a quantum of     *)
(* commands.  A command may wait: on a wait channel, a lock, an event, a   *)
(* job, a file, standard input or a pane.  Its queue is then blocked, and  *)
(* whatever it waits for must find it again in one of six tables.          *)
(*                                                                         *)
(* The owner is one thread, so a handler is one step.  drive is cut at     *)
(* each command, because commands act on other clients' queues while the   *)
(* driven one is out of the table.  A command's kind is chosen when it     *)
(* runs: nothing before that depends on it.                                *)
(***************************************************************************)
EXTENDS Lists, SequencesExt

CONSTANTS
  Clients,       \* connections, by id
  Config,        \* the internal queue that reads the configuration
  Hooks,         \* ids for the other internal queues
  Channels,      \* names of wait channels
  MaxChannels,   \* MAX_CHANNELS
  Kinds,         \* what commands may do
  Quantum,       \* COMMAND_QUANTUM
  MaxPending,    \* MAX_PENDING_REQUESTS
  MaxJobs,       \* MAX_JOBS
  MaxCommands,   \* MAX_COMMANDS
  MaxDepth,      \* deepest nesting of inserted commands
  Sizes,         \* numbers of commands of a request
  RequestBound   \* bound on the requests of a client

Internal == Hooks \cup {Config}
Ids == Clients \cup Internal

ASSUME QueueAssumption ==
  /\ IsFiniteSet(Ids) /\ Ids \subseteq Nat \ {0}
  /\ Clients \cap Internal = {} /\ Config \notin Hooks
  /\ IsFiniteSet(Channels) /\ Channels \subseteq Nat
  /\ {Quantum, MaxPending, MaxJobs, MaxCommands} \subseteq Nat \ {0}
  /\ {MaxChannels, MaxDepth, RequestBound} \subseteq Nat
  /\ Sizes \subseteq 0..MaxCommands

VARIABLES
  scheduler,   \* Scheduler
  live,        \* the clients of the host, internal ones included
  closing,     \* those whose final messages drain (native_closing)
  outside,     \* pane_waiters and stdin_streams
  driving,     \* the locals of drive
  asked,       \* requests accepted of each client (history)
  answered,    \* replies sent to each client (history)
  holders      \* who was given the lock of a channel last (history)

vars == <<scheduler, live, closing, outside, driving, asked, answered, holders>>

None == 0
Nothing == <<>>
Nobody == [id |-> None, queue |-> [pending |-> <<>>, blocked |-> FALSE],
           budget |-> 0, replies |-> <<>>, detach |-> FALSE]
FreshChannel == [woken |-> FALSE, locked |-> FALSE, waiters |-> <<>>,
                 lockers |-> <<>>]

Idle == driving.id = None
Without(f, x) == Restrict(f, DOMAIN f \ {x})
Put(f, x, v) == [y \in DOMAIN f \cup {x} |-> IF y = x THEN v ELSE f[y]]

\* retain(|other| other != c)
Others(list, c) == Kept(list, {i \in DOMAIN list : list[i] # c})

------------------------------------------------------------------------------
(* Batches                                                                  *)

\* A queued command: its group, how deeply it is nested, and whether it is a
\* hook's, which fires no hooks (no_hooks).
TopLevel == [group |-> 0, depth |-> 0, quiet |-> FALSE]
Deeper(item) == [item EXCEPT !.depth = @ + 1]
HookOf(item) == [Deeper(item) EXCEPT !.quiet = TRUE]

NewBatch(n, commands) == [id |-> n, nextGroup |-> 1, commands |-> commands]

\* Batch::fail: the rest of the group goes.
Fail(b, group) ==
  [b EXCEPT !.commands = Kept(@, {i \in DOMAIN @ : @[i].group # group})]

\* Batch::insert of one command.  Mutant: without the limit.
InsertUnlimited(b, item) == [b EXCEPT !.commands = <<item>> \o @]

Insert(b, item) ==
  IF Len(b.commands) + 1 > MaxCommands
  THEN Fail(b, item.group)
  ELSE [b EXCEPT !.commands = <<item>> \o @]

\* insert_hooks and insert_source: a group of its own
InsertGroup(b, item) ==
  Insert([b EXCEPT !.nextGroup = @ + 1], [item EXCEPT !.group = b.nextGroup])

------------------------------------------------------------------------------
(* Methods of Scheduler                                                     *)

\* Mutant: other queues may start while the configuration is read.
ReadyDuringStartup(s, c) ==
  IF c \notin Range(s.ready) THEN [s EXCEPT !.ready = Append(@, c)] ELSE s

Ready(s, c) ==
  IF s.startup \in {None, c} /\ c \notin Range(s.ready)
  THEN [s EXCEPT !.ready = Append(@, c)]
  ELSE s

Unblock(s, c) ==
  IF c \in DOMAIN s.queues
  THEN Ready([s EXCEPT !.queues[c].blocked = FALSE], c)
  ELSE s

\* One after the other
UnblockAll(s, cs) ==
  LET after[i \in 0..Len(cs)] ==
        IF i = 0 THEN s ELSE Unblock(after[i - 1], cs[i])
  IN after[Len(cs)]

ReadyAll(s, cs) ==
  LET after[i \in 0..Len(cs)] ==
        IF i = 0 THEN s ELSE Ready(after[i - 1], cs[i])
  IN after[Len(cs)]

\* clean_channel, and the retain at the end of lost
Unused(ch) == ~ch.locked /\ ~ch.woken /\ ch.waiters = <<>> /\ ch.lockers = <<>>

Clean(channels) ==
  Restrict(channels, {n \in DOMAIN channels : ~Unused(channels[n])})

\* c neither waits nor queues for the lock any more.
Quit(ch, c) == [ch EXCEPT !.waiters = Others(@, c), !.lockers = Others(@, c)]

\* Mutant: a lost client goes on waiting for its event.
LostStillWaiting(s, c) ==
  [s EXCEPT !.queues = Without(@, c),
            !.files = Without(@, c),
            !.ready = Others(@, c),
            !.channels = Clean([n \in DOMAIN @ |-> Quit(@[n], c)])]

Lost(s, c) ==
  [s EXCEPT !.queues = Without(@, c),
            !.files = Without(@, c),
            !.ready = Others(@, c),
            !.eventWaiters = Without(@, c),
            !.channels = Clean([n \in DOMAIN @ |-> Quit(@[n], c)])]

\* The ids that flush_waiters collects, channel by channel
EveryWaiter(s) ==
  LET names == Ascending(DOMAIN s.channels)
      ids[i \in 0..Len(names)] ==
        IF i = 0 THEN Ascending(DOMAIN s.eventWaiters)
        ELSE ids[i - 1] \o s.channels[names[i]].waiters
                        \o s.channels[names[i]].lockers
  IN ids[Len(names)]

FlushWaiters(s) ==
  UnblockAll([s EXCEPT !.eventWaiters = Nothing, !.channels = Nothing],
             EveryWaiter(s))

\* A result changes the batch at the front of c's queue, if c has one.
OnFront(s, c, Change(_)) ==
  IF c \in DOMAIN s.queues /\ s.queues[c].pending # <<>>
  THEN [s EXCEPT !.queues[c].pending[1] = Change(@)]
  ELSE s

\* Mutant: a waiter is woken and stays listed.
SignalEventKeeping(s, verdict) ==
  UnblockAll(s, Ascending({c \in DOMAIN s.eventWaiters : verdict[c] # "keep"}))

\* signal_hook_event: the filter of each waiter is false, true or in error
SignalEvent(s, verdict) ==
  LET Wake(t, c) == Unblock([t EXCEPT !.eventWaiters = Without(@, c)], c)
      Tell(t, c) ==
        CASE verdict[c] = "keep" -> t
          [] verdict[c] = "wake" -> Wake(t, c)
          [] verdict[c] = "fail" ->
               Wake(OnFront(t, c, LAMBDA b : Fail(b, s.eventWaiters[c].group)), c)
      waiters == Ascending(DOMAIN s.eventWaiters)
      after[i \in 0..Len(waiters)] ==
        IF i = 0 THEN s ELSE Tell(after[i - 1], waiters[i])
  IN after[Len(waiters)]

\* internal_queue: one batch of one command
Spawn(s, c, item) ==
  Ready([s EXCEPT !.queues = Put(@, c, [pending |-> <<NewBatch(0, <<item>>)>>,
                                        blocked |-> FALSE])], c)

FreeHooks == {h \in Hooks : h \notin live
                /\ \A j \in DOMAIN scheduler.jobs : scheduler.jobs[j].client # h}

Signals(s) == {SignalEvent(s, v) :
                 v \in [DOMAIN s.eventWaiters -> {"keep", "wake", "fail"}]}

\* queue_event: waiters are told, and a hook may start an internal queue.
\* Nothing may happen at all.
Events(s) ==
  [scheduler : Signals(s), started : {{}}]
    \cup {[scheduler |-> Spawn(t, h, [TopLevel EXCEPT !.quiet = TRUE]),
            started |-> {h}] : t \in Signals(s), h \in FreeHooks}

------------------------------------------------------------------------------
Init ==
  \E startup \in {None, Config} :
    LET start == {startup} \ {None} IN
    /\ scheduler =
         [queues |-> [c \in start |-> [pending |-> <<NewBatch(0, <<TopLevel>>)>>,
                                       blocked |-> FALSE]],
          ready |-> Ascending(start), startup |-> startup, channels |-> Nothing,
          eventWaiters |-> Nothing, files |-> Nothing, jobs |-> Nothing]
    /\ live = Clients \cup start
    /\ closing = {}
    /\ outside = Nothing
    /\ driving = Nobody
    /\ asked = [c \in Clients |-> 0]
    /\ answered = [c \in Clients |-> <<>>]
    /\ holders = [n \in Channels |-> {}]

------------------------------------------------------------------------------
(* Clients that go                                                          *)

Disconnect(c, s) ==
  \E e \in Events(s) :
    /\ scheduler' = Lost(e.scheduler, c)
    /\ live' = (live \ {c}) \cup e.started
    /\ closing' = closing \ {c}
    /\ outside' = Without(outside, c)

\* disconnect_after_native_delivery while messages wait
Close(c, s) ==
  \E e \in Events(Lost(s, c)) :
    /\ scheduler' = e.scheduler
    /\ live' = live \cup e.started
    /\ closing' = closing \cup {c}
    /\ outside' = Without(outside, c)

ClientGoes(c) ==
  /\ Idle
  /\ c \in live \cap Clients
  /\ Disconnect(c, scheduler)
  /\ UNCHANGED <<driving, asked, answered, holders>>

------------------------------------------------------------------------------
(* Requests: request_parsed                                                 *)

RequestOf(c, size) ==
  LET queue == IF c \in DOMAIN scheduler.queues THEN scheduler.queues[c]
               ELSE [pending |-> <<>>, blocked |-> FALSE]
      batch == NewBatch(asked[c] + 1, [i \in 1..size |-> TopLevel])
      grown == [queue EXCEPT !.pending = Append(@, batch)]
      queued == [scheduler EXCEPT !.queues = Put(@, c, grown)]
  IN
  /\ Idle
  /\ c \in (live \cap Clients) \ closing
  /\ asked[c] < RequestBound
  /\ IF Len(queue.pending) >= MaxPending
     THEN /\ Disconnect(c, scheduler)
          /\ UNCHANGED asked
     ELSE /\ scheduler' = IF queue.blocked THEN queued ELSE Ready(queued, c)
          /\ asked' = [asked EXCEPT ![c] = @ + 1]
          /\ UNCHANGED <<live, closing, outside>>
  /\ UNCHANGED <<driving, answered, holders>>

------------------------------------------------------------------------------
(* What wakes queues from outside                                           *)

HooksFire ==
  \E e \in Events(scheduler) :
    /\ scheduler' = e.scheduler
    /\ live' = live \cup e.started

HookMonitorTick ==
  /\ Idle
  /\ HooksFire
  /\ UNCHANGED <<closing, outside, driving, asked, answered, holders>>

\* exit-empty holds: no session is left
WaitersFlushed ==
  /\ Idle
  /\ scheduler' = FlushWaiters(scheduler)
  /\ holders' = [n \in Channels |-> {}]
  /\ UNCHANGED <<live, closing, outside, driving, asked, answered>>

\* Mutant: a job that failed does not wake its queue.
JobEndsUnheard(j) ==
  LET job == scheduler.jobs[j]
      removed == [scheduler EXCEPT !.jobs = Without(@, j)]
      failed == OnFront(removed, job.client, LAMBDA b : Fail(b, job.item.group))
  IN
  /\ Idle
  /\ ~job.background
  /\ scheduler' \in {Unblock(removed, job.client), failed}
  /\ UNCHANGED <<live, closing, outside, driving, asked, answered, holders>>

\* job_finished of a foreground job: in error or not, with a branch or not
JobEnds(j) ==
  LET job == scheduler.jobs[j]
      removed == [scheduler EXCEPT !.jobs = Without(@, j)]
      Result(b, failed, branch) ==
        LET kept == IF failed THEN Fail(b, job.item.group) ELSE b
        IN IF branch THEN Insert(kept, Deeper(job.item)) ELSE kept
  IN
  /\ Idle
  /\ ~job.background
  /\ \E failed, branch \in BOOLEAN :
       scheduler' = Unblock(OnFront(removed, job.client,
                              LAMBDA b : Result(b, failed, branch)), job.client)
  /\ UNCHANGED <<live, closing, outside, driving, asked, answered, holders>>

\* job_finished of a background job: its commands get a queue of their own
BackgroundJobEnds(j) ==
  LET job == scheduler.jobs[j]
      removed == [scheduler EXCEPT !.jobs = Without(@, j)]
  IN
  /\ Idle
  /\ job.background
  /\ \/ /\ scheduler' = removed
        /\ UNCHANGED live
     \/ \E h \in FreeHooks :
          /\ scheduler' = Spawn(removed, h, [Deeper(job.item) EXCEPT !.group = 0])
          /\ live' = live \cup {h}
  /\ UNCHANGED <<closing, outside, driving, asked, answered, holders>>

\* file_complete: a buffer is stored, a source gives a group of commands, the
\* size limit aborts the group
FileCompletes(c) ==
  LET file == scheduler.files[c]
      removed == [scheduler EXCEPT !.files = Without(@, c)]
  IN
  /\ Idle
  /\ \E kind \in {"stored", "source", "limit"} :
       scheduler' = Unblock(OnFront(removed, c, LAMBDA b :
         CASE kind = "stored" -> b
           [] kind = "source" -> InsertGroup(b, Deeper(file.item))
           [] kind = "limit" -> Fail(b, file.item.group)), c)
  /\ UNCHANGED <<live, closing, outside, driving, asked, answered, holders>>

PaneEnds(c) ==
  /\ Idle
  /\ outside[c].kind = "pane"
  /\ outside' = Without(outside, c)
  /\ scheduler' = Unblock(scheduler, c)
  /\ UNCHANGED <<live, closing, driving, asked, answered, holders>>

\* stdin_complete: end of input, or the pane is gone
StdinEnds(c) ==
  /\ Idle
  /\ outside[c].kind = "stdin"
  /\ outside' = Without(outside, c)
  /\ \E s \in {scheduler, OnFront(scheduler, c,
                            LAMBDA b : Fail(b, outside[c].group))} :
       scheduler' = Unblock(s, c)
  /\ UNCHANGED <<live, closing, driving, asked, answered, holders>>

------------------------------------------------------------------------------
(* drive: the queue leaves the table ...                                    *)

DriveBegins ==
  LET c == Head(scheduler.ready)
      popped == [scheduler EXCEPT !.ready = Tail(@)]
  IN
  /\ Idle
  /\ scheduler.ready # <<>>
  /\ CASE c \notin live \ closing ->
            /\ scheduler' = Lost(popped, c)
            /\ UNCHANGED driving
       [] c \in live \ closing /\ c \notin DOMAIN scheduler.queues ->
            /\ scheduler' = popped
            /\ UNCHANGED driving
       [] c \in live \ closing /\ c \in DOMAIN scheduler.queues ->
            /\ scheduler' = [popped EXCEPT !.queues = Without(@, c)]
            /\ driving' = [id |-> c, queue |-> scheduler.queues[c],
                           budget |-> Quantum, replies |-> <<>>, detach |-> FALSE]
  /\ UNCHANGED <<live, closing, outside, asked, answered, holders>>

(* ... its commands run ...  (The event client-created of a client's first   *)
(* batch wakes others as a HookMonitorTick just before does.)               *)

Running == /\ ~Idle
           /\ ~driving.queue.blocked
           /\ driving.budget > 0
           /\ ~driving.detach
           /\ driving.id \in live \ closing
           /\ driving.queue.pending # <<>>

Current == Head(driving.queue.pending)
Item == Head(Current.commands)
Rest == [Current EXCEPT !.commands = Tail(@)]

Answer(d) == [d EXCEPT !.queue.pending = Tail(@),
                       !.replies = Append(@, Head(d.queue.pending).id)]

\* A batch without commands is answered.
BatchEnds ==
  /\ Running
  /\ Current.commands = <<>>
  /\ driving' = Answer(driving)
  /\ UNCHANGED <<scheduler, live, closing, outside, asked, answered, holders>>

Runs(kind) == /\ Running
              /\ Current.commands # <<>>
              /\ kind \in Kinds
              /\ Item.depth <= MaxDepth

\* The driven queue after its command, whose batch is now b
Ran(b) == [driving EXCEPT !.budget = @ - 1, !.queue.pending[1] = b]

\* Mutant: a batch whose last command waits is answered at once.
WaitsAnswered(b) ==
  driving' = [(IF b.commands = <<>> THEN Answer(Ran(b)) ELSE Ran(b))
                EXCEPT !.queue.blocked = TRUE]

Done(b) == driving' = IF b.commands = <<>> THEN Answer(Ran(b)) ELSE Ran(b)
Waits(b) == driving' = [Ran(b) EXCEPT !.queue.blocked = TRUE]

\* A hook puts a group in front: one that is called by name (set-hook -R), or
\* one that follows a command (command_hooks), unless that is a hook's.
Hooked(b) == {b} \cup IF "hook" \in Kinds THEN {InsertGroup(b, HookOf(Item))}
                      ELSE {}
Followed(b) == IF Item.quiet THEN {b} ELSE Hooked(b)

RunPlain ==
  /\ Runs("plain")
  /\ \E b \in Hooked(Rest) : Done(b)
  /\ HooksFire
  /\ UNCHANGED <<closing, outside, asked, answered, holders>>

\* Any command may be refused; one nested too deeply is.
RunError ==
  /\ Running
  /\ Current.commands # <<>>
  /\ "error" \in Kinds \/ Item.depth > MaxDepth
  /\ \E b \in Followed(Fail(Rest, Item.group)) : Done(b)
  /\ scheduler' \in Signals(scheduler)
  /\ UNCHANGED <<live, closing, outside, asked, answered, holders>>

\* InsertContext and InsertSource
RunInsert ==
  /\ Runs("insert")
  /\ \E b \in {Insert(Rest, Deeper(Item)), InsertGroup(Rest, Deeper(Item))} : Done(b)
  /\ UNCHANGED <<scheduler, live, closing, outside, asked, answered, holders>>

\* detach-client of the client itself: the batch ends with it
RunDetach ==
  /\ Runs("detach")
  /\ driving.id \in Clients
  /\ driving' = Answer([Ran(Rest) EXCEPT !.detach = TRUE])
  /\ UNCHANGED <<scheduler, live, closing, outside, asked, answered, holders>>

\* A command detaches another client, or sends to one whose writer is gone;
\* the driven one may be found gone, too.
RunKick ==
  /\ Runs("kick")
  /\ \E c \in live \cap Clients :
       \/ Disconnect(c, scheduler)
       \/ c # driving.id /\ c \notin closing /\ Close(c, scheduler)
  /\ Done(Rest)
  /\ UNCHANGED <<asked, answered, holders>>

------------------------------------------------------------------------------
(* ... which wait ...                                                       *)

MayWait == scheduler.startup # driving.id

Channel(n) == IF n \in DOMAIN scheduler.channels THEN scheduler.channels[n]
              ELSE FreshChannel

RunsOn(kind, n) ==
  /\ Runs(kind)
  /\ n \in DOMAIN scheduler.channels
       \/ Cardinality(DOMAIN scheduler.channels) < MaxChannels

With(n, ch) == [scheduler EXCEPT !.channels = Clean(Put(@, n, ch))]

\* A wake-up kept for the next waiter is used up.
Consume(ch) == IF ~ch.locked /\ ch.waiters = <<>>
               THEN [ch EXCEPT !.woken = FALSE] ELSE ch

\* Mutant: a wake-up that came first is not noticed.
RunWaitDeaf(n) ==
  /\ RunsOn("wait", n)
  /\ MayWait
  /\ scheduler' = With(n, [Channel(n) EXCEPT !.waiters = Append(@, driving.id)])
  /\ Waits(Rest)
  /\ UNCHANGED <<live, closing, outside, asked, answered, holders>>

RunWait(n) ==
  LET ch == Channel(n) IN
  /\ RunsOn("wait", n)
  /\ MayWait
  /\ IF ch.woken
     THEN /\ scheduler' = With(n, Consume(ch))
          /\ Done(Rest)
     ELSE /\ scheduler' = With(n, [ch EXCEPT !.waiters = Append(@, driving.id)])
          /\ Waits(Rest)
  /\ UNCHANGED <<live, closing, outside, asked, answered, holders>>

\* Mutant: the waiters are woken and not removed.
RunSignalKeeping(n) ==
  /\ RunsOn("signal", n)
  /\ scheduler' = UnblockAll(With(n, [Channel(n) EXCEPT !.woken = TRUE]),
                             Channel(n).waiters)
  /\ Done(Rest)
  /\ UNCHANGED <<live, closing, outside, asked, answered, holders>>

RunSignal(n) ==
  LET ch == Channel(n) IN
  /\ RunsOn("signal", n)
  /\ scheduler' =
       IF ch.waiters = <<>> /\ ~ch.woken
       THEN With(n, [ch EXCEPT !.woken = TRUE])
       ELSE UnblockAll(With(n, Consume([ch EXCEPT !.waiters = <<>>])), ch.waiters)
  /\ Done(Rest)
  /\ UNCHANGED <<live, closing, outside, asked, answered, holders>>

RunLock(n) ==
  LET ch == Channel(n) IN
  /\ RunsOn("lock", n)
  /\ MayWait
  /\ IF ch.locked
     THEN /\ scheduler' = With(n, [ch EXCEPT !.lockers = Append(@, driving.id)])
          /\ Waits(Rest)
          /\ UNCHANGED holders
     ELSE /\ scheduler' = With(n, [ch EXCEPT !.locked = TRUE])
          /\ Done(Rest)
          /\ holders' = [holders EXCEPT ![n] = @ \cup {driving.id}]
  /\ UNCHANGED <<live, closing, outside, asked, answered>>

\* Mutant: the lock is released and passed on.
RunUnlockReleasing(n) ==
  LET ch == Channel(n)
      next == IF ch.lockers = <<>> THEN <<>> ELSE <<Head(ch.lockers)>>
  IN
  /\ RunsOn("unlock", n)
  /\ ch.locked
  /\ scheduler' = UnblockAll(
       With(n, Consume([ch EXCEPT !.locked = FALSE,
                                  !.lockers = SubSeq(@, 2, Len(@))])), next)
  /\ holders' = [holders EXCEPT ![n] = Range(next)]
  /\ Done(Rest)
  /\ UNCHANGED <<live, closing, outside, asked, answered>>

\* The lock passes to the first that waits for it, without being released.
RunUnlock(n) ==
  LET ch == Channel(n) IN
  /\ RunsOn("unlock", n)
  /\ ch.locked
  /\ IF ch.lockers # <<>>
     THEN /\ scheduler' = Unblock(With(n, [ch EXCEPT !.lockers = Tail(@)]),
                                  Head(ch.lockers))
          /\ holders' = [holders EXCEPT ![n] = {Head(ch.lockers)}]
     ELSE /\ scheduler' = With(n, Consume([ch EXCEPT !.locked = FALSE]))
          /\ holders' = [holders EXCEPT ![n] = {}]
  /\ Done(Rest)
  /\ UNCHANGED <<live, closing, outside, asked, answered>>

\* wait-for -w: one waiter, or else one locker, by name
RunWake(n, who) ==
  LET ch == scheduler.channels[n]
      fewer == IF who \in Range(ch.waiters)
               THEN [ch EXCEPT !.waiters = RemoveFirst(@, who)]
               ELSE [ch EXCEPT !.lockers = RemoveFirst(@, who)]
  IN
  /\ Runs("wake")
  /\ MayWait
  /\ n \in DOMAIN scheduler.channels
  /\ who \in live \cap Range(ch.waiters \o ch.lockers)
  /\ scheduler' = Unblock(With(n, fewer), who)
  /\ Done(Rest)
  /\ UNCHANGED <<live, closing, outside, asked, answered, holders>>

\* wait-for -E
RunAwait ==
  /\ Runs("await")
  /\ MayWait
  /\ Cardinality(DOMAIN scheduler.eventWaiters) < MaxChannels
  /\ scheduler' = [scheduler EXCEPT !.eventWaiters =
                     Put(@, driving.id, [group |-> Item.group])]
  /\ Waits(Rest)
  /\ UNCHANGED <<live, closing, outside, asked, answered, holders>>

\* wait-for -E -w
RunRouse(who) ==
  /\ Runs("rouse")
  /\ MayWait
  /\ who \in DOMAIN scheduler.eventWaiters
  /\ scheduler' = Unblock([scheduler EXCEPT !.eventWaiters = Without(@, who)], who)
  /\ Done(Rest)
  /\ UNCHANGED <<live, closing, outside, asked, answered, holders>>

RunJob(background) ==
  LET free == (1..MaxJobs) \ DOMAIN scheduler.jobs
      job == [client |-> driving.id, item |-> Item, batch |-> Current.id,
              background |-> background]
  IN
  /\ Runs(IF background THEN "background" ELSE "job")
  /\ free # {}
  /\ scheduler' = [scheduler EXCEPT !.jobs = Put(@, Min(free), job)]
  /\ IF background THEN Done(Rest) ELSE Waits(Rest)
  /\ UNCHANGED <<live, closing, outside, asked, answered, holders>>

\* load-buffer, save-buffer and source-file at the client's side
RunFile ==
  /\ Runs("file")
  /\ driving.id \in Clients
  /\ \E s \in Signals(scheduler) :
       scheduler' = [s EXCEPT !.files =
         Put(@, driving.id, [item |-> Item, batch |-> Current.id])]
  /\ \E b \in Followed(Rest) : Waits(b)
  /\ UNCHANGED <<live, closing, outside, asked, answered, holders>>

\* split-window -W waits for the pane, -I reads the client's standard input.
RunPane(kind) ==
  /\ kind \in {"pane", "stdin"}
  /\ Runs(kind)
  /\ outside' = Put(outside, driving.id,
                    [kind |-> kind, group |-> Item.group, batch |-> Current.id])
  /\ \E b \in Followed(Rest) : Waits(b)
  /\ HooksFire
  /\ UNCHANGED <<closing, asked, answered, holders>>

------------------------------------------------------------------------------
(* ... and the queue returns.                                               *)

Returned == [scheduler EXCEPT !.queues = Put(@, driving.id, driving.queue)]
Unfinished == driving.queue.pending # <<>>

Stopped == ~Idle /\ ~Running

\* The client went while its commands ran.
DriveLost ==
  /\ Stopped
  /\ driving.id \notin live \ closing
  /\ scheduler' = Lost(scheduler, driving.id)
  /\ driving' = Nobody
  /\ UNCHANGED <<live, closing, outside, asked, answered, holders>>

\* Mutant: replies are sent when the queue is done only.
RepliedAtTheEnd ==
  answered' = IF driving.id \in Clients /\ ~Unfinished
              THEN [answered EXCEPT ![driving.id] = @ \o driving.replies]
              ELSE answered

Replied == answered' = IF driving.id \in Clients
                       THEN [answered EXCEPT ![driving.id] = @ \o driving.replies]
                       ELSE answered

Returns == /\ Stopped
           /\ driving.id \in live \ closing
           /\ driving' = Nobody
           /\ UNCHANGED <<asked, holders>>

\* Mutant: what the quantum leaves is not made ready again.
RequeueNever(s) == s

Requeue(s) == IF Unfinished /\ ~driving.queue.blocked
              THEN Ready(s, driving.id) ELSE s

DriveEnds ==
  /\ Returns
  /\ ~driving.detach
  /\ Unfinished \/ driving.id \in Clients
  /\ scheduler' = Requeue(Returned)
  /\ Replied
  /\ UNCHANGED <<live, closing, outside>>

DriveDetaches ==
  /\ Returns
  /\ driving.detach
  /\ Replied
  /\ Disconnect(driving.id, Returned) \/ Close(driving.id, Returned)

\* A reply finds the writer gone; the queue may be made ready all the same.
DriveCannotReply ==
  /\ Returns
  /\ driving.replies # <<>>
  /\ driving.id \in Clients
  /\ \E e \in Events(Returned) :
       LET s == Lost(e.scheduler, driving.id) IN
       /\ scheduler' = IF driving.detach THEN s ELSE Requeue(s)
       /\ live' = (live \ {driving.id}) \cup e.started
  /\ outside' = Without(outside, driving.id)
  /\ UNCHANGED <<closing, answered>>

\* An internal client ends with its queue; after the configuration, the
\* queues that gathered meanwhile may run.
InternalEnds ==
  LET s == Lost(Returned, driving.id)
      opened == ReadyAll([s EXCEPT !.startup = None], Ascending(DOMAIN s.queues))
  IN
  /\ Returns
  /\ driving.id \in Internal
  /\ ~Unfinished
  /\ scheduler' = IF s.startup = driving.id THEN opened ELSE s
  /\ live' = live \ {driving.id}
  /\ outside' = Without(outside, driving.id)
  /\ UNCHANGED <<closing, answered>>

------------------------------------------------------------------------------
Commands ==
  \/ BatchEnds \/ RunPlain \/ RunError \/ RunInsert \/ RunDetach \/ RunKick
  \/ \E n \in Channels : \/ RunWait(n) \/ RunSignal(n) \/ RunLock(n)
                         \/ RunUnlock(n)
                         \/ \E who \in Ids : RunWake(n, who)
  \/ RunAwait
  \/ \E who \in Ids : RunRouse(who)
  \/ \E background \in BOOLEAN : RunJob(background)
  \/ RunFile
  \/ \E kind \in {"pane", "stdin"} : RunPane(kind)

Drive == \/ DriveBegins \/ Commands \/ DriveLost \/ DriveEnds \/ DriveDetaches
         \/ DriveCannotReply \/ InternalEnds

JobFinished(j) == JobEnds(j) \/ BackgroundJobEnds(j)

Outside ==
  \/ \E c \in Clients : ClientGoes(c)
  \/ \E c \in Clients, size \in Sizes : RequestOf(c, size)
  \/ HookMonitorTick
  \/ WaitersFlushed
  \/ \E c \in DOMAIN scheduler.files : FileCompletes(c)
  \/ \E c \in DOMAIN outside : PaneEnds(c) \/ StdinEnds(c)

Next == Drive \/ Outside \/ \E j \in DOMAIN scheduler.jobs : JobFinished(j)

Spec == Init /\ [][Next]_vars

\* The owner takes a turn whenever a queue is ready, and jobs end.
Fairness ==
  /\ WF_vars(Drive)
  /\ \A j \in 1..MaxJobs :
       SF_vars(j \in DOMAIN scheduler.jobs /\ JobFinished(j))

FairSpec == Spec /\ Fairness

------------------------------------------------------------------------------
(* Properties                                                               *)

CommandType == [group : Nat, depth : Nat, quiet : BOOLEAN]
BatchType == [id : Nat, nextGroup : Nat \ {0}, commands : Seq(CommandType)]
QueueType == [pending : Seq(BatchType), blocked : BOOLEAN]
ChannelType == [woken : BOOLEAN, locked : BOOLEAN, waiters : Seq(Ids),
                lockers : Seq(Ids)]
PartialFunction(f, S, T) == DOMAIN f \subseteq S /\ \A x \in DOMAIN f : f[x] \in T

\* The owner's tables have their types; no table, batch or quantum exceeds
\* its limit.
TypeOK ==
  /\ PartialFunction(scheduler.queues, Ids, QueueType)
  /\ \A c \in DOMAIN scheduler.queues :
       /\ Len(scheduler.queues[c].pending) <= MaxPending
       /\ \A i \in DOMAIN scheduler.queues[c].pending :
            Len(scheduler.queues[c].pending[i].commands) <= MaxCommands
  /\ scheduler.ready \in Seq(Ids)
  /\ scheduler.startup \in {None, Config}
  /\ PartialFunction(scheduler.channels, Channels, ChannelType)
  /\ Cardinality(DOMAIN scheduler.channels) <= MaxChannels
  /\ PartialFunction(scheduler.eventWaiters, Ids, [group : Nat])
  /\ PartialFunction(scheduler.files, Clients, [item : CommandType, batch : Nat])
  /\ PartialFunction(scheduler.jobs, 1..MaxJobs,
                     [client : Ids, item : CommandType, batch : Nat,
                      background : BOOLEAN])
  /\ live \subseteq Ids
  /\ closing \subseteq live \cap Clients
  /\ PartialFunction(outside, Ids, [kind : {"pane", "stdin"}, group : Nat,
                                    batch : Nat])
  /\ driving \in [id : Ids \cup {None}, queue : QueueType, budget : 0..Quantum,
                  replies : Seq(Nat), detach : BOOLEAN]
  /\ asked \in [Clients -> 0..RequestBound]
  /\ answered \in [Clients -> Seq(Nat)]
  /\ holders \in [Channels -> SUBSET Ids]

ForegroundJobs(c) == {j \in DOMAIN scheduler.jobs :
                        scheduler.jobs[j].client = c /\ ~scheduler.jobs[j].background}

Occurrences(list, c) == {i \in DOMAIN list : list[i] = c}

\* The places from which something may come to wake c
Wakers(c) ==
  LET channels == scheduler.channels
      Among(kind, S) == {kind} \X S
      waiting == UNION {{n} \X Occurrences(channels[n].waiters, c) : n \in DOMAIN channels}
      locking == UNION {{n} \X Occurrences(channels[n].lockers, c) : n \in DOMAIN channels}
  IN Among("waiter", waiting) \cup Among("locker", locking)
     \cup Among("event", {c} \cap DOMAIN scheduler.eventWaiters)
     \cup Among("file", {c} \cap DOMAIN scheduler.files)
     \cup Among("outside", {c} \cap DOMAIN outside)
     \cup Among("job", ForegroundJobs(c))

ItsJobs(c) == {"job"} \X ForegroundJobs(c)

Queue(c) == IF driving.id = c THEN driving.queue ELSE scheduler.queues[c]
HasQueue(c) == c \in DOMAIN scheduler.queues \cup ({driving.id} \ {None})

\* A blocked queue is listed in exactly one place that can wake it, and a
\* queue that is not blocked in none: no command sleeps for good or is woken
\* by what an earlier one waited for, whatever is signalled, flushed, forced
\* awake, finished or lost meanwhile.
BlockedHasOneWaker ==
  \A c \in live \ closing :
    HasQueue(c) => Cardinality(Wakers(c)) = IF Queue(c).blocked THEN 1 ELSE 0

\* Who is gone, or about to go, is listed nowhere; only its jobs go on.
GoneIsUnlisted ==
  \A c \in Ids \ (live \ closing) :
    c # driving.id => /\ c \notin DOMAIN scheduler.queues
                      /\ Wakers(c) = ItsJobs(c)

\* A queue with work that is not blocked is ready, or will be when the
\* configuration is done: the quantum, a wake-up during startup and a request
\* to a waiting queue leave none behind.
RunnableIsReady ==
  \A c \in DOMAIN scheduler.queues :
    LET queue == scheduler.queues[c] IN
    (queue.pending # <<>> /\ ~queue.blocked /\ scheduler.startup \in {None, c})
      => c \in Range(scheduler.ready)

\* While the configuration is read no other queue is driven, and its queue
\* exists: startup is never in force with nobody to end it.
StartupRunsAlone ==
  scheduler.startup # None =>
    /\ driving.id \in {None, Config}
    /\ Config \in live /\ HasQueue(Config)

\* The result of a job, of a file or of a pane goes to the front of a queue:
\* what is there is the batch whose command waits for it.
ResultsReachTheirBatch ==
  LET InFront(c, batch) ==
        HasQueue(c) => /\ Queue(c).pending # <<>>
                       /\ Head(Queue(c).pending).id = batch
                       /\ Queue(c).blocked
  IN /\ \A j \in DOMAIN scheduler.jobs :
          LET job == scheduler.jobs[j] IN
          ~job.background => InFront(job.client, job.batch)
     /\ \A c \in DOMAIN scheduler.files : InFront(c, scheduler.files[c].batch)
     /\ \A c \in DOMAIN outside : InFront(c, outside[c].batch)

\* Every request of a client is answered once and in order, and none that was
\* accepted is lost while the client stays: it was answered, is about to be, or
\* is in its queue.
RequestsInOrder ==
  \A c \in Clients :
    LET queue == IF HasQueue(c) THEN Queue(c).pending ELSE <<>>
        waiting == [i \in DOMAIN queue |-> queue[i].id]
        leaving == IF driving.id = c THEN driving.replies ELSE <<>>
        known == answered[c] \o leaving \o waiting
    IN /\ \A i \in DOMAIN known : known[i] = i
       /\ c \in live \ closing /\ ~(driving.id = c /\ driving.detach)
            => Len(known) = asked[c]

\* A lock was given to nobody else until it was released: it is locked exactly
\* as long as somebody has it, even when it passes on or its holder goes.
LockHasOneHolder ==
  \A n \in Channels :
    Cardinality(holders[n]) =
      IF n \in DOMAIN scheduler.channels /\ scheduler.channels[n].locked
      THEN 1 ELSE 0

\* Nobody waits on a channel that was signalled, or queues for a lock that is
\* free.
NobodyWaitsInVain ==
  \A n \in DOMAIN scheduler.channels :
    LET ch == scheduler.channels[n] IN
    /\ ch.woken => ch.waiters = <<>>
    /\ ch.lockers # <<>> => ch.locked

\* Through hand-overs, losses, forced wake-ups and flushes, what a channel says
\* (locked, woken, its waiters and lockers) agrees with who has it and who
\* waits for it (wait_command, Scheduler::lost, flush_waiters).
ChannelsAreServed == LockHasOneHolder /\ NobodyWaitsInVain

\* Every request is answered, however long other queues run, unless its client
\* goes, waits for somebody else's action, or the configuration does.
WaitsForOthers(c) == Wakers(c) # ItsJobs(c)

RequestsAreAnswered ==
  \A c \in Clients, n \in 1..RequestBound :
    asked[c] >= n ~> \/ Len(answered[c]) >= n
                     \/ c \notin live \ closing
                     \/ WaitsForOthers(c)
                     \/ scheduler.startup = Config /\ WaitsForOthers(Config)

==============================================================================
