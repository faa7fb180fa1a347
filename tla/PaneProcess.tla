---------------------------- MODULE PaneProcess ----------------------------
(***************************************************************************)
(* The processes behind the panes (tmuxx-runtime/src/lib.rs, process.rs):  *)
(* spawn, respawn and kill, the reader, writer and reaper thread of each,  *)
(* pipe-pane with its own child and threads, and the events with which     *)
(* they all meet in the owner's one channel.                               *)
(*                                                                         *)
(* A pane closes when three things have happened in some order: its output *)
(* ended, its process exited, and its pipe took what it was owed.  Threads *)
(* of a process outlive it, so that an event is told from those of the     *)
(* process before it by its generation only.                               *)
(***************************************************************************)
EXTENDS Integers, Sequences, FiniteSets

CONSTANTS
  Panes,          \* panes, by id; an id is never used again
  MaxGen,         \* bound on next_process
  MaxOutput,      \* bound on the chunks a process writes
  MaxPipeInput,   \* bound on the chunks a pipe child writes
  EventCap,       \* capacity of the owner's event channel
  InputCap,       \* capacity of the channel to a process writer (64)
  InputLimit,     \* chunks in MAX_REQUEST_BYTES, for input
  PipeLimit,      \* chunks in MAX_REQUEST_BYTES, for a pipe
  RetiredLimit    \* retired pipe children at which no other is started (256)

ASSUME ProcessAssumption ==
  /\ IsFiniteSet(Panes)
  /\ MaxGen \in Nat \ {0} /\ MaxOutput \in Nat /\ MaxPipeInput \in Nat
  /\ EventCap \in Nat \ {0} /\ InputCap \in Nat \ {0}
  /\ InputLimit \in Nat /\ PipeLimit \in Nat /\ RetiredLimit \in Nat \ {0}

VARIABLES
  slot,      \* slot[p]: what the owner keeps for a pane
  retired,   \* retired_pipes, by generation
  next,      \* next_process
  work,      \* work[g]: the child of generation g and its three threads
  events     \* the owner's event channel

vars == <<slot, retired, next, work, events>>

Gens == 1 .. MaxGen

\* The pane in the engine (alive: it has no status and is not empty), its
\* Process (gen = 0: none), its PipeProcess (pipe = 0: none) and the command
\* that waits for it (-W).  screen: the generations whose output its
\* terminal holds (history).
Slot ==
  [pane : {"none", "alive", "empty", "dead", "gone"},
   gen : Nat, eof : BOOLEAN, exited : BOOLEAN,
   pipe : Nat, input : BOOLEAN, output : BOOLEAN,
   waiter : BOOLEAN,
   screen : SUBSET Nat]

NoSlot ==
  [pane |-> "none", gen |-> 0, eof |-> FALSE, exited |-> FALSE,
   pipe |-> 0, input |-> FALSE, output |-> FALSE,
   waiter |-> FALSE, screen |-> {}]

\* A child and its threads.  reaper: the reaper has not reported yet; a child
\* may exit at any moment, so that killing it adds nothing here.  queue and
\* bytes: the channel to the writer and the counter beside it (input_bytes,
\* PipeProcess::bytes), in chunks.  closed: the owner dropped the sender, and
\* cancelled a pipe.  made, shown: chunks read from it and fed to the engine;
\* finished: its pane closed in order, by finish_process (history).
Worker ==
  [kind : {"none", "process", "pipe"}, pane : Panes \union {0},
   reaper : BOOLEAN, reader : BOOLEAN,
   writer : {"none", "idle", "writing", "drained", "failed", "ended"},
   queue : Nat, bytes : Nat, closed : BOOLEAN,
   made : Nat, shown : Nat, finished : BOOLEAN]

NoWorker ==
  [kind |-> "none", pane |-> 0, reaper |-> FALSE, reader |-> FALSE,
   writer |-> "none", queue |-> 0, bytes |-> 0, closed |-> FALSE,
   made |-> 0, shown |-> 0, finished |-> FALSE]

EventKinds == {"output", "readClosed", "exited", "inputFailed",
               "pipeInput", "pipeClosed", "pipeExited", "pipeDrained"}

Event == [kind : EventKinds, pane : Panes, gen : Gens]

Init ==
  /\ slot = [p \in Panes |-> NoSlot]
  /\ retired = {}
  /\ next = 1
  /\ work = [g \in Gens |-> NoWorker]
  /\ events = <<>>

-----------------------------------------------------------------------------
(* What the owner does to a pane.  These operators map the owner's view of  *)
(* one pane, with the tables beside it, to the new one; a handler composes  *)
(* them and commits the result in one step.                                 *)

At(p) == [slot |-> slot[p], retired |-> retired, work |-> work]

Commit(p, o) ==
  /\ slot' = [slot EXCEPT ![p] = o.slot]
  /\ retired' = o.retired
  /\ work' = o.work

\* pane_wait_complete
WaitComplete(o) ==
  [o EXCEPT !.slot.waiter = FALSE]

\* The owner drops its sender (and cancels a pipe): a writer that has nothing
\* more to receive ends.
Left(w) == IF w.writer = "idle" /\ w.queue = 0 /\ w.closed
           THEN [w EXCEPT !.writer = "ended"] ELSE w

Close(w) == Left([w EXCEPT !.closed = TRUE])

\* close_pipe: the child is left to end by itself.
ClosePipe(o) ==
  IF o.slot.pipe = 0 THEN o
  ELSE [o EXCEPT !.slot.pipe = 0, !.slot.input = FALSE, !.slot.output = FALSE,
                 !.retired = @ \union {o.slot.pipe},
                 !.work[o.slot.pipe] = Close(@)]

\* Process::drop: hangs up and kills the child; the threads end later.
DropProcess(o) ==
  IF o.slot.gen = 0 THEN o
  ELSE [o EXCEPT !.slot.gen = 0, !.slot.eof = FALSE, !.slot.exited = FALSE,
                 !.work[o.slot.gen] = Close(@)]

\* Mutant: Effect::Kill leaves the command that waits for the pane.
RemoveUnannounced(o) ==
  [DropProcess(ClosePipe(o)) EXCEPT !.slot.pane = "gone"]

\* engine.remove_pane and its Effect::Kill
Remove(o) ==
  [DropProcess(ClosePipe(WaitComplete(o))) EXCEPT !.slot.pane = "gone"]

\* engine.exited_with_signal and its effects; remain: remain-on-exit applies.
Exited(o, remain) ==
  IF remain THEN [o EXCEPT !.slot.pane = "dead"] ELSE Remove(o)

\* input_failed.  The subscribed clients it disconnects are not here.
InputFailed(o, remain) ==
  IF o.slot.gen = 0 THEN o ELSE Exited(DropProcess(o), remain)

Pending(o) == o.slot.pipe # 0 /\ o.work[o.slot.pipe].bytes # 0

Ended(s) == s.gen # 0 /\ s.eof /\ s.exited

\* Mutant: the pane closes as soon as its process exits.
FinishUnread(o, remain) ==
  IF Pending(o) \/ o.slot.gen = 0 \/ ~o.slot.exited THEN o
  ELSE Exited(ClosePipe(DropProcess(
         [o EXCEPT !.work[o.slot.gen].finished = TRUE])), remain)

\* finish_process
Finish(o, remain) ==
  IF Pending(o) \/ ~Ended(o.slot) THEN o
  ELSE Exited(ClosePipe(DropProcess(
         [o EXCEPT !.work[o.slot.gen].finished = TRUE])), remain)

\* Process::try_write_input: the bytes are counted first, and given back when
\* the channel is full or its writer has ended.
CanWrite(o) ==
  /\ o.slot.gen # 0
  /\ LET w == o.work[o.slot.gen]
     IN  w.bytes < InputLimit /\ w.queue < InputCap /\ w.writer # "ended"

\* Mutant: what a full channel refuses stays counted.
WriteKeeping(o) ==
  IF o.slot.gen = 0 \/ o.work[o.slot.gen].bytes >= InputLimit THEN o
  ELSE LET counted == [o EXCEPT !.work[o.slot.gen].bytes = @ + 1]
       IN  IF CanWrite(o) THEN [counted EXCEPT !.work[o.slot.gen].queue = @ + 1]
           ELSE counted

Write(o) ==
  IF ~CanWrite(o) THEN o
  ELSE [o EXCEPT !.work[o.slot.gen].queue = @ + 1,
                 !.work[o.slot.gen].bytes = @ + 1]

\* Mutant: a pipe that does not keep up is left to grow.
ToPipeUnlimited(o) ==
  IF ~o.slot.output THEN o
  ELSE IF o.work[o.slot.pipe].writer = "ended" THEN ClosePipe(o)
  ELSE [o EXCEPT !.work[o.slot.pipe].queue = @ + 1,
                 !.work[o.slot.pipe].bytes = @ + 1]

\* The pipe half of pane_output.  The counter is raised first and lowered
\* again when the chunk does not fit or the writer has ended.
ToPipe(o) ==
  IF ~o.slot.output THEN o
  ELSE LET w == o.work[o.slot.pipe]
       IN  IF w.bytes >= PipeLimit \/ w.writer = "ended" THEN ClosePipe(o)
           ELSE [o EXCEPT !.work[o.slot.pipe].queue = @ + 1,
                          !.work[o.slot.pipe].bytes = @ + 1]

\* pane_output: to the pipe, to the engine, and what the terminal answers
\* (reply) back to the process.
PaneOutput(o, reply, remain) ==
  LET piped == ToPipe(o)
  IN  IF ~reply \/ o.slot.pane = "empty" THEN piped
      ELSE IF CanWrite(piped) THEN Write(piped)
      ELSE InputFailed(piped, remain)

-----------------------------------------------------------------------------
(* Commands *)

Exists(p) == slot[p].pane \in {"alive", "empty", "dead"}

NewWorker(kind, p, reads, writes) ==
  [NoWorker EXCEPT !.kind = kind, !.pane = p, !.reaper = TRUE, !.reader = reads,
                   !.writer = IF writes THEN "idle" ELSE "none"]

\* spawn: the new process replaces, and so kills, the one in the table.
\* The terminal is a new one.
Spawned(o, p) ==
  LET d == DropProcess(o)
  IN  [d EXCEPT !.slot.pane = "alive", !.slot.gen = next, !.slot.screen = {},
                !.work[next] = NewWorker("process", p, TRUE, TRUE)]

\* Effect::Empty
Emptied(o) == [DropProcess(o) EXCEPT !.slot.pane = "empty", !.slot.screen = {}]

\* new-window, split-window, new-pane; wait: with -W.  A spawn that fails
\* leaves nothing behind but the generation it took.
NewPane(p, wait) ==
  /\ slot[p].pane = "none" /\ next < MaxGen
  /\ LET o == [At(p) EXCEPT !.slot.waiter = wait]
     IN  \/ Commit(p, Spawned(o, p)) /\ next' = next + 1
         \/ UNCHANGED <<slot, retired, work>> /\ next' = next + 1
         \/ Commit(p, Emptied(o)) /\ UNCHANGED next
  /\ UNCHANGED events

\* Mutant: a respawn whose spawn fails has dropped the process it replaces.
RespawnHalf(o, p) == [DropProcess(o) EXCEPT !.slot.pane = "alive"]

\* The error path of execute: the engine is the one before the command, and
\* so are the processes.
RespawnFails(o, p) == o

\* respawn-pane, with -k when the pane is alive; -E leaves it empty.
Respawn(p) ==
  /\ Exists(p) /\ next < MaxGen
  /\ \/ Commit(p, Spawned(At(p), p)) /\ next' = next + 1
     \/ Commit(p, RespawnFails(At(p), p)) /\ next' = next + 1
     \/ Commit(p, Emptied(At(p))) /\ UNCHANGED next
  /\ UNCHANGED events

\* kill-pane, and every other way a pane is removed by a command
KillPane(p) ==
  /\ Exists(p)
  /\ Commit(p, Remove(At(p)))
  /\ UNCHANGED <<next, events>>

\* send-keys, paste-buffer: an error goes to the command.
SendKeys(p) ==
  /\ Exists(p)
  /\ Commit(p, Write(At(p)))
  /\ UNCHANGED <<next, events>>

\* display-message -I: input shown in an empty pane
FeedStdin(p) ==
  /\ slot[p].pane = "empty"
  /\ Commit(p, PaneOutput(At(p), FALSE, FALSE))
  /\ UNCHANGED <<next, events>>

\* reap_pipes: retired children whose reaper has reported
Reaped(s) == {g \in s : work[g].reaper}

\* Mutant: children are started whatever is left of the earlier ones.
MayPipeAlways(o) == TRUE

MayPipe(o) == Cardinality(Reaped(o.retired)) < RetiredLimit

\* pipe-pane without a command
PipeOff(p) ==
  /\ slot[p].pane \in {"alive", "empty"}
  /\ Commit(p, ClosePipe(At(p)))
  /\ UNCHANGED <<next, events>>

\* pipe-pane with a command: closes the pipe there is, and starts a child
\* unless too many are left of earlier ones.  Starting it may fail.
PipeOn(p, input, output) ==
  /\ slot[p].pane \in {"alive", "empty"} /\ next < MaxGen
  /\ LET closed == ClosePipe(At(p))
         o == [closed EXCEPT !.retired = Reaped(@)]
     IN  \/ Commit(p, o) /\ UNCHANGED next
         \/ /\ MayPipe(closed)
            /\ Commit(p, [o EXCEPT !.slot.pipe = next,
                                   !.slot.input = input, !.slot.output = output,
                                   !.work[next] = NewWorker("pipe", p, input, output)])
            /\ next' = next + 1
  /\ UNCHANGED events

\* The owner's turn reaps the retired pipes.
ReapPipes ==
  /\ retired' = Reaped(retired) /\ retired' # retired
  /\ UNCHANGED <<slot, next, work, events>>

Command ==
  \/ \E p \in Panes :
       \/ \E wait \in BOOLEAN : NewPane(p, wait)
       \/ Respawn(p) \/ KillPane(p) \/ SendKeys(p) \/ FeedStdin(p)
       \/ PipeOff(p) \/ PipeOn(p, FALSE, TRUE) \/ PipeOn(p, TRUE, FALSE)
       \/ PipeOn(p, TRUE, TRUE)
  \/ ReapPipes

-----------------------------------------------------------------------------
(* Events, in the order they were sent *)

Take(kind, p, g) ==
  /\ events # <<>>
  /\ LET e == Head(events) IN e.kind = kind /\ e.pane = p /\ e.gen = g
  /\ events' = Tail(events)

\* Mutant: any process of the pane will do.
IsAnyProcess(p, g) == slot[p].gen # 0

\* is_process
IsProcess(p, g) == slot[p].gen = g

IsPipe(p, g) == slot[p].pipe = g

Ignore == UNCHANGED <<slot, retired, work>>

HandleOutput(p, g) ==
  /\ Take("output", p, g)
  /\ IF ~IsProcess(p, g) THEN Ignore
     ELSE LET o == [At(p) EXCEPT !.slot.screen = @ \union {g},
                                 !.work[g].shown = @ + 1]
          IN  \E reply, remain \in BOOLEAN : Commit(p, PaneOutput(o, reply, remain))
  /\ UNCHANGED next

HandleReadClosed(p, g) ==
  /\ Take("readClosed", p, g)
  /\ IF ~IsProcess(p, g) THEN Ignore
     ELSE \E remain \in BOOLEAN :
            Commit(p, Finish([At(p) EXCEPT !.slot.eof = TRUE], remain))
  /\ UNCHANGED next

HandleExited(p, g) ==
  /\ Take("exited", p, g)
  /\ IF ~IsProcess(p, g) THEN Ignore
     ELSE LET o == WaitComplete(At(p))
          IN  \E remain \in BOOLEAN :
                Commit(p, Finish([o EXCEPT !.slot.exited = TRUE], remain))
  /\ UNCHANGED next

HandleInputFailed(p, g) ==
  /\ Take("inputFailed", p, g)
  /\ IF ~IsProcess(p, g) THEN Ignore
     ELSE \E remain \in BOOLEAN : Commit(p, InputFailed(At(p), remain))
  /\ UNCHANGED next

\* What a pipe child writes is typed into the pane.
HandlePipeInput(p, g) ==
  /\ Take("pipeInput", p, g)
  /\ IF ~IsPipe(p, g) \/ slot[p].pane = "empty" THEN Ignore
     ELSE Commit(p, IF CanWrite(At(p)) THEN Write(At(p)) ELSE ClosePipe(At(p)))
  /\ UNCHANGED next

HandlePipeClosed(p, g) ==
  /\ Take("pipeClosed", p, g)
  /\ IF ~IsPipe(p, g) THEN Ignore
     ELSE \E remain \in BOOLEAN : Commit(p, Finish(ClosePipe(At(p)), remain))
  /\ UNCHANGED next

\* A pipe that also types waits for the end of the child's output instead.
HandlePipeExited(p, g) ==
  /\ Take("pipeExited", p, g)
  /\ IF ~IsPipe(p, g) \/ slot[p].input THEN Ignore
     ELSE \E remain \in BOOLEAN : Commit(p, Finish(ClosePipe(At(p)), remain))
  /\ UNCHANGED next

\* The one event that is not checked against a generation.
HandlePipeDrained(p, g) ==
  /\ Take("pipeDrained", p, g)
  /\ \E remain \in BOOLEAN : Commit(p, Finish(At(p), remain))
  /\ UNCHANGED next

HandleEvent ==
  \E p \in Panes, g \in Gens :
    \/ HandleOutput(p, g) \/ HandleReadClosed(p, g) \/ HandleExited(p, g)
    \/ HandleInputFailed(p, g)
    \/ HandlePipeInput(p, g) \/ HandlePipeClosed(p, g) \/ HandlePipeExited(p, g)
    \/ HandlePipeDrained(p, g)

-----------------------------------------------------------------------------
(* The threads of a child.  A send waits for room in the event channel.     *)

Send(kind, g) ==
  /\ Len(events) < EventCap
  /\ events' = Append(events, [kind |-> kind, pane |-> work[g].pane, gen |-> g])

Of(g, process, pipe) == IF work[g].kind = "process" THEN process ELSE pipe

Thread(g, w) == work' = [work EXCEPT ![g] = w] /\ UNCHANGED <<slot, retired, next>>

\* The child exits, and its reaper tells the owner.
Reap(g) ==
  /\ work[g].reaper
  /\ Send(Of(g, "exited", "pipeExited"), g)
  /\ Thread(g, [work[g] EXCEPT !.reaper = FALSE])

Read(g) ==
  /\ work[g].reader /\ work[g].made < Of(g, MaxOutput, MaxPipeInput)
  /\ Send(Of(g, "output", "pipeInput"), g)
  /\ Thread(g, [work[g] EXCEPT !.made = @ + 1])

\* The terminal is closed by its last holder, which need not be the child.
ReadEnds(g) ==
  /\ work[g].reader
  /\ Send(Of(g, "readClosed", "pipeClosed"), g)
  /\ Thread(g, [work[g] EXCEPT !.reader = FALSE])

\* The writer of a pipe that was closed drops what it has not written.
WriterTakes(g) ==
  /\ work[g].writer = "idle" /\ work[g].queue > 0
  /\ Thread(g, [work[g] EXCEPT
       !.queue = @ - 1,
       !.writer = IF work[g].kind = "pipe" /\ work[g].closed
                  THEN "ended" ELSE "writing"])
  /\ UNCHANGED events

\* Mutant: the writer reports only that it has nothing queued.
AfterWriteSilent(g, ok) == IF ~ok THEN "failed" ELSE "idle"

\* What the writer does after a write: reports a failure, or a pipe that owes
\* nothing more.
AfterWrite(g, ok) ==
  IF ~ok THEN "failed"
  ELSE IF work[g].kind = "pipe" /\ work[g].bytes = 1 THEN "drained" ELSE "idle"

WriterWrote(g, ok) ==
  /\ work[g].writer = "writing"
  /\ Thread(g, Left([work[g] EXCEPT !.bytes = @ - 1,
                                  !.writer = AfterWrite(g, ok)]))
  /\ UNCHANGED events

WriterTells(g) ==
  \/ /\ work[g].writer = "drained"
     /\ Send("pipeDrained", g)
     /\ Thread(g, Left([work[g] EXCEPT !.writer = "idle"]))
  \/ /\ work[g].writer = "failed"
     /\ Send(Of(g, "inputFailed", "pipeClosed"), g)
     /\ Thread(g, [work[g] EXCEPT !.writer = "ended"])

Threads ==
  \E g \in Gens :
    \/ Reap(g) \/ Read(g) \/ ReadEnds(g) \/ WriterTakes(g) \/ WriterTells(g)
    \/ \E ok \in BOOLEAN : WriterWrote(g, ok)

Next == Command \/ HandleEvent \/ Threads

Spec == Init /\ [][Next]_vars

\* The writers of pipes.  One that was closed has little left to do, so that
\* fairness to all of them together is fairness to the one that is not.
PipeWriters ==
  \E g \in Gens :
    /\ work[g].kind = "pipe"
    /\ WriterTakes(g) \/ WriterTells(g) \/ \E ok \in BOOLEAN : WriterWrote(g, ok)

\* The owner takes events, and a pipe child reads what it is given: its writer
\* never stays in a write for ever (it fails when the child is gone).  Nothing
\* is assumed of the processes, of the commands or of the reapers.
Fairness == WF_vars(HandleEvent) /\ WF_vars(PipeWriters)

FairSpec == Spec /\ Fairness

-----------------------------------------------------------------------------
(* Properties *)

\* Every variable holds what its declaration says; what is queued for a process
\* or a pipe stays within its budget, and every event names the child that sent
\* it: pane ids and generations are never reused.
TypeOK ==
  /\ slot \in [Panes -> Slot]
  /\ retired \subseteq Gens
  /\ next \in 1 .. MaxGen
  /\ work \in [Gens -> Worker]
  /\ \A g \in Gens : work[g].bytes <= Of(g, InputLimit, PipeLimit)
  /\ events \in Seq(Event)
  /\ \A i \in 1 .. Len(events) : work[events[i].gen].pane = events[i].pane

\* A pane the engine calls running has a process, which will end and close it;
\* a process never runs in a pane that is empty, dead or removed.  Spawns fail,
\* processes end, are respawned and are dropped by failed input in any order
\* (execute, spawn, finish_process, input_failed, Effect::Kill, Effect::Empty).
AliveHasProcess ==
  \A p \in Panes : (slot[p].pane = "alive") = (slot[p].gen # 0)

\* However a pane is removed (its process finished, its input failed, it was
\* killed), no pipe is left for it and no command waits for it.
RemovedLeavesNothing ==
  \A p \in Panes :
    slot[p].pane = "gone" => slot[p].pipe = 0 /\ ~slot[p].waiter

\* The engine's panes and the owner's tables of processes, pipes and waiting
\* commands agree after every handler, whichever of its steps failed.
PanesMatchProcesses == AliveHasProcess /\ RemovedLeavesNothing

\* The terminal of a pane never mixes the output of two processes, though the
\* reader of the first may still send after the second was started.
ScreenIsOfOneProcess ==
  \A p \in Panes :
    \E g \in Gens : slot[p].screen \subseteq {g} /\ slot[p].gen \in {0, g}

\* A pane that closes in order shows everything its process wrote, although
\* output, its end and the exit come from different threads.
FinalOutputShown ==
  \A g \in Gens :
    work[g].finished =>
      /\ work[g].shown = work[g].made
      /\ ~work[g].reader /\ ~work[g].reaper

\* input_bytes and PipeProcess::bytes, lowered by the writer while the owner
\* raises them and takes back what was refused, count what is queued and being
\* written: no leak, after which input would be refused for ever or the pane
\* never close.  A cancelled pipe is exempt: nobody reads its counter.
CounterExact ==
  \A g \in Gens :
    work[g].kind = "process" \/ (work[g].kind = "pipe" /\ ~work[g].closed) =>
      work[g].bytes = work[g].queue + (IF work[g].writer = "writing" THEN 1 ELSE 0)

\* Turning pipes on and off faster than their children end keeps at most the
\* limit of them, and the one each pane may still have.
PipeChildrenBounded ==
  Cardinality(retired) + Cardinality({p \in Panes : slot[p].pipe # 0})
    <= RetiredLimit - 1 + Cardinality(Panes)

\* A process that has ended and whose pipe still holds output is finished when
\* the pipe is dry, unless the pipe is closed first: the writer's report is
\* never lost between its counter and the owner's look at it.
DrainedPipeFinishes ==
  \A p \in Panes, g \in Gens :
    (Ended(slot[p]) /\ slot[p].pipe = g /\ work[g].bytes # 0)
      ~> (~Ended(slot[p]) \/ slot[p].pipe # g)

-----------------------------------------------------------------------------
(* What does not hold *)

\* Something will call finish_process again for the pane.
Reminded(p) ==
  \/ Pending(At(p))
  \/ \E g \in Gens :
       work[g].pane = p /\ work[g].writer \in {"drained", "failed"}
  \/ \E i \in 1 .. Len(events) :
       events[i].pane = p /\ events[i].kind \in {"pipeDrained", "pipeClosed"}

\* Completion closes the pipe of a pane: when its process has exited and its
\* output has ended, a pipe that is still there is about to be closed.  Not so
\* when the pipe was turned off or replaced while it drained: close_pipe does
\* not call finish_process, what the old pipe still sends names a generation
\* that is gone, and the new one owes nothing, so that nothing is left to
\* finish the process.
CompletionClosesPipe ==
  \A p \in Panes : Ended(slot[p]) /\ slot[p].pipe # 0 => Reminded(p)
=============================================================================
