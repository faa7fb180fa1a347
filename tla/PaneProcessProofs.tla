------------------------- MODULE PaneProcessProofs -------------------------
(***************************************************************************)
(* Proofs about PaneProcess, for any panes, generations and capacities.    *)
(*                                                                         *)
(* A handler of the owner is a composition of operators on the owner's     *)
(* view o of one pane.  Each operator has a lemma that says that it keeps  *)
(* Linked(o, n), and what it does to the fields that Settled speaks of,    *)
(* which need not hold half way through a handler.  CommitKeeps then says  *)
(* that a handler whose result is linked and settled keeps the invariant,  *)
(* although its pane shares the table of children with the others.         *)
(***************************************************************************)
EXTENDS PaneProcess, FiniteSetTheorems, FunctionTheorems, TLAPS

\* The chunk a writer holds
Held(w) == IF w.writer = "writing" THEN 1 ELSE 0

\* One child: the counter is exact while anybody reads it, and never less than
\* what is queued, so that the writer cannot bring it below zero.
Counted(w) ==
  /\ w \in Worker
  /\ w.kind = "none" => ~w.reaper /\ ~w.reader /\ w.writer = "none"
  /\ w.kind # "none" => w.pane \in Panes
  /\ w.queue + Held(w) <= w.bytes
  /\ w.kind = "process" \/ (w.kind = "pipe" /\ ~w.closed) => w.bytes = w.queue + Held(w)
  /\ w.bytes <= IF w.kind = "process" THEN InputLimit ELSE PipeLimit

\* The table of children, when n is the next generation
Children(work_, n) ==
  /\ work_ \in [Gens -> Worker]
  /\ \A g \in Gens : Counted(work_[g])
  /\ \A g \in Gens : g >= n => work_[g].kind = "none"

\* What a pane refers to is there, and its screen is of one process.
Refers(s, work_) ==
  /\ s \in Slot
  /\ s.gen # 0 => s.gen \in Gens /\ work_[s.gen].kind = "process"
  /\ s.pipe # 0 => s.pipe \in Gens /\ work_[s.pipe].kind = "pipe"
  /\ s.input \/ s.output => s.pipe # 0
  /\ \E g \in Gens : s.screen \subseteq {g} /\ s.gen \in {0, g}

\* No child becomes another one.
Kept(work_) ==
  \A g \in Gens : work[g].kind # "none" =>
    work_[g].kind = work[g].kind /\ work_[g].pane = work[g].pane

Owner == [slot : Slot, retired : SUBSET Gens, work : [Gens -> Worker]]

Linked(o, n) ==
  o \in Owner /\ Children(o.work, n) /\ Refers(o.slot, o.work) /\ Kept(o.work)

\* The engine's pane and the owner's tables agree.
Settled(s) ==
  /\ s.pane = "alive" <=> s.gen # 0
  /\ s.pane \in {"gone", "none"} => s.gen = 0 /\ s.pipe = 0 /\ ~s.waiter

\* Every event names the child that sent it.
Signed ==
  /\ events \in Seq(Event)
  /\ \A i \in 1 .. Len(events) :
       /\ work[events[i].gen].kind # "none"
       /\ work[events[i].gen].pane = events[i].pane

Inv ==
  /\ next \in 1 .. MaxGen
  /\ retired \subseteq Gens
  /\ Children(work, next)
  /\ slot \in [Panes -> Slot]
  /\ \A p \in Panes : Refers(slot[p], work) /\ Settled(slot[p])
  /\ Signed

-----------------------------------------------------------------------------
(* The operators on the owner's view *)

\* Dropping the sender of a writer changes neither its child nor its counter.
LEMMA CloseKeeps ==
  ASSUME NEW w, Counted(w)
  PROVE  /\ Counted(Close(w))
         /\ Close(w).kind = w.kind /\ Close(w).pane = w.pane
         /\ Close(w).bytes = w.bytes
<1> DEFINE c == [w EXCEPT !.closed = TRUE]
<1>1. w \in Worker
  BY DEF Counted
<1>2. c \in Worker /\ c.kind = w.kind /\ c.pane = w.pane /\ c.bytes = w.bytes
      /\ c.queue = w.queue /\ c.writer = w.writer /\ c.closed
      /\ c.reaper = w.reaper /\ c.reader = w.reader
  BY <1>1 DEF Worker
<1>3. CASE c.writer = "idle" /\ c.queue = 0
  <2>1. Close(w) = [c EXCEPT !.writer = "ended"]
    BY <1>2, <1>3 DEF Close, Left
  <2> HIDE DEF c
  <2>2. Close(w) \in Worker /\ Close(w).kind = w.kind /\ Close(w).pane = w.pane
        /\ Close(w).bytes = w.bytes /\ Close(w).queue = w.queue /\ Close(w).closed
        /\ Close(w).writer = "ended"
        /\ Close(w).reaper = w.reaper /\ Close(w).reader = w.reader
    BY <2>1, <1>2 DEF Worker
  <2> QED
    BY <2>2, <1>2, <1>3 DEF Counted, Held
<1>4. CASE ~(c.writer = "idle" /\ c.queue = 0)
  <2>1. Close(w) = c
    BY <1>2, <1>4 DEF Close, Left
  <2> HIDE DEF c
  <2> QED
    BY <2>1, <1>2 DEF Counted, Held
<1> QED
  BY <1>3, <1>4

\* Replacing a child by one of the same kind and pane keeps the table.
LEMMA ReplaceKeeps ==
  ASSUME NEW n \in Nat, NEW o, Linked(o, n), NEW g \in Gens, NEW w,
         Counted(w), w.kind = o.work[g].kind, w.pane = o.work[g].pane
  PROVE  Linked([o EXCEPT !.work[g] = w], n)
<1> DEFINE r == [o EXCEPT !.work[g] = w]
<1>1. o \in Owner /\ w \in Worker
  BY DEF Linked, Counted
<1>2. r \in Owner /\ r.slot = o.slot /\ r.work = [o.work EXCEPT ![g] = w]
  BY <1>1 DEF Owner
<1> HIDE DEF r
<1>3. \A h \in Gens : r.work[h] = IF h = g THEN w ELSE o.work[h]
  BY <1>1, <1>2 DEF Owner
<1>4. \A h \in Gens : r.work[h].kind = o.work[h].kind /\ r.work[h].pane = o.work[h].pane
  BY <1>3
<1>5. Children(r.work, n)
  <2>1. r.work \in [Gens -> Worker]
    BY <1>2 DEF Owner
  <2>2. \A h \in Gens : Counted(r.work[h])
    BY <1>3 DEF Linked, Children
  <2> QED
    BY <2>1, <2>2, <1>4 DEF Linked, Children
<1>6. Refers(r.slot, r.work)
  BY <1>2, <1>4 DEF Linked, Refers
<1>7. Kept(r.work)
  BY <1>4 DEF Linked, Kept
<1> QED
  BY <1>2, <1>5, <1>6, <1>7 DEF Linked, r

\* A change of the pane that keeps what it refers to
LEMMA SlotKeeps ==
  ASSUME NEW n \in Nat, NEW o, Linked(o, n), NEW s, Refers(s, o.work)
  PROVE  Linked([o EXCEPT !.slot = s], n)
<1>1. o \in Owner /\ s \in Slot
  BY DEF Linked, Refers
<1>2. [o EXCEPT !.slot = s] \in Owner
      /\ [o EXCEPT !.slot = s].slot = s /\ [o EXCEPT !.slot = s].work = o.work
  BY <1>1 DEF Owner
<1> QED
  BY <1>2 DEF Linked

LEMMA RetireKeeps ==
  ASSUME NEW n \in Nat, NEW o, Linked(o, n), NEW r \in SUBSET Gens
  PROVE  Linked([o EXCEPT !.retired = r], n)
<1>1. o \in Owner
  BY DEF Linked
<1>2. [o EXCEPT !.retired = r] \in Owner
      /\ [o EXCEPT !.retired = r].slot = o.slot /\ [o EXCEPT !.retired = r].work = o.work
  BY <1>1 DEF Owner
<1> QED
  BY <1>2 DEF Linked

\* Completing the waiter changes nothing else.
LEMMA WaitCompleteKeeps ==
  ASSUME NEW n \in Nat, NEW o, Linked(o, n)
  PROVE  /\ Linked(WaitComplete(o), n)
         /\ WaitComplete(o).slot = [o.slot EXCEPT !.waiter = FALSE]
<1> DEFINE s == [o.slot EXCEPT !.waiter = FALSE]
<1>1. o \in Owner /\ o.slot \in Slot
  BY DEF Linked, Owner
<1>2. s \in Slot /\ s.gen = o.slot.gen /\ s.pipe = o.slot.pipe /\ s.screen = o.slot.screen
      /\ s.input = o.slot.input /\ s.output = o.slot.output
  BY <1>1 DEF Slot
<1>3. WaitComplete(o) = [o EXCEPT !.slot = s]
  BY <1>1 DEF WaitComplete, Owner
<1> HIDE DEF s
<1>4. Refers(s, o.work)
  BY <1>2 DEF Linked, Refers
<1>5. Linked(WaitComplete(o), n)
  BY <1>3, <1>4, SlotKeeps
<1>6. WaitComplete(o).slot = s
  BY <1>3, <1>1 DEF Owner
<1> QED
  BY <1>5, <1>6 DEF s

\* Closing a pipe leaves the process, the waiter and the pane alone.
LEMMA ClosePipeKeeps ==
  ASSUME NEW n \in Nat, NEW o, Linked(o, n)
  PROVE  /\ Linked(ClosePipe(o), n)
         /\ ClosePipe(o).slot.pipe = 0
         /\ ClosePipe(o).slot.gen = o.slot.gen
         /\ ClosePipe(o).slot.pane = o.slot.pane
         /\ ClosePipe(o).slot.waiter = o.slot.waiter
<1>1. CASE o.slot.pipe = 0
  BY <1>1 DEF ClosePipe
<1>2. CASE o.slot.pipe # 0
  <2> DEFINE g  == o.slot.pipe
             s  == [o.slot EXCEPT !.pipe = 0, !.input = FALSE, !.output = FALSE]
             o1 == [o EXCEPT !.slot = s]
             o2 == [o1 EXCEPT !.work[g] = Close(o.work[g])]
             r  == o.retired \union {g}
  <2>1. o \in Owner /\ o.slot \in Slot /\ g \in Gens /\ Counted(o.work[g])
    BY <1>2 DEF Linked, Owner, Refers, Children
  <2>2. s \in Slot /\ s.gen = o.slot.gen /\ s.pipe = 0 /\ s.screen = o.slot.screen
        /\ s.input = FALSE /\ s.output = FALSE /\ s.pane = o.slot.pane
        /\ s.waiter = o.slot.waiter
    BY <2>1 DEF Slot
  <2> HIDE DEF s
  <2>3. Refers(s, o.work)
    BY <2>2 DEF Linked, Refers
  <2>4. Linked(o1, n)
    BY <2>3, SlotKeeps
  <2>5. o1 \in Owner /\ o1.slot = s /\ o1.work = o.work /\ o1.retired = o.retired
    BY <2>1, <2>2 DEF Owner
  <2>6. Linked(o2, n)
    <3> HIDE DEF o1
    <3> QED
      BY <2>1, <2>4, <2>5, CloseKeeps, ReplaceKeeps
  <2>7. r \in SUBSET Gens
    BY <2>1 DEF Owner
  <2>8. ClosePipe(o) = [o2 EXCEPT !.retired = r]
    BY <1>2, <2>1 DEF ClosePipe, Owner, s
  <2>9. o2 \in Owner /\ o2.slot = s
    <3> HIDE DEF o1
    <3> QED
      BY <2>5, <2>6 DEF Linked, Owner
  <2>10. [o2 EXCEPT !.retired = r].slot = s
    <3> HIDE DEF o2
    <3> QED
      BY <2>9 DEF Owner
  <2>11. Linked(ClosePipe(o), n)
    <3> HIDE DEF o2, r
    <3> QED
      BY <2>6, <2>7, <2>8, RetireKeeps
  <2> HIDE DEF o2
  <2> QED
    BY <2>2, <2>8, <2>10, <2>11
<1> QED
  BY <1>1, <1>2

\* Dropping a process leaves the pipe, the waiter and the pane alone.
LEMMA DropProcessKeeps ==
  ASSUME NEW n \in Nat, NEW o, Linked(o, n)
  PROVE  /\ Linked(DropProcess(o), n)
         /\ DropProcess(o).slot.gen = 0
         /\ DropProcess(o).slot.pipe = o.slot.pipe
         /\ DropProcess(o).slot.pane = o.slot.pane
         /\ DropProcess(o).slot.waiter = o.slot.waiter
<1>1. CASE o.slot.gen = 0
  BY <1>1 DEF DropProcess
<1>2. CASE o.slot.gen # 0
  <2> DEFINE g  == o.slot.gen
             s  == [o.slot EXCEPT !.gen = 0, !.eof = FALSE, !.exited = FALSE]
             o1 == [o EXCEPT !.slot = s]
             o2 == [o1 EXCEPT !.work[g] = Close(o.work[g])]
  <2>1. o \in Owner /\ o.slot \in Slot /\ g \in Gens /\ Counted(o.work[g])
    BY <1>2 DEF Linked, Owner, Refers, Children
  <2>2. s \in Slot /\ s.gen = 0 /\ s.pipe = o.slot.pipe /\ s.screen = o.slot.screen
        /\ s.input = o.slot.input /\ s.output = o.slot.output /\ s.pane = o.slot.pane
        /\ s.waiter = o.slot.waiter
    BY <2>1 DEF Slot
  <2> HIDE DEF s
  <2>3. Refers(s, o.work)
    BY <2>2 DEF Linked, Refers
  <2>4. Linked(o1, n)
    BY <2>3, SlotKeeps
  <2>5. o1 \in Owner /\ o1.slot = s /\ o1.work = o.work
    BY <2>1, <2>2 DEF Owner
  <2>6. Linked(o2, n)
    <3> HIDE DEF o1
    <3> QED
      BY <2>1, <2>4, <2>5, CloseKeeps, ReplaceKeeps
  <2>7. DropProcess(o) = o2
    BY <1>2, <2>1 DEF DropProcess, Owner, s
  <2>8. o2.slot = s
    <3> HIDE DEF o1
    <3> QED
      BY <2>5 DEF Owner
  <2> HIDE DEF o2
  <2> QED
    BY <2>2, <2>6, <2>7, <2>8
<1> QED
  BY <1>1, <1>2

\* Giving a pane another status
LEMMA PaneKeeps ==
  ASSUME NEW n \in Nat, NEW o, Linked(o, n),
         NEW status \in {"none", "alive", "empty", "dead", "gone"}
  PROVE  /\ Linked([o EXCEPT !.slot.pane = status], n)
         /\ [o EXCEPT !.slot.pane = status].slot = [o.slot EXCEPT !.pane = status]
<1> DEFINE s == [o.slot EXCEPT !.pane = status]
<1>1. o \in Owner /\ o.slot \in Slot
  BY DEF Linked, Owner
<1>2. s \in Slot /\ s.gen = o.slot.gen /\ s.pipe = o.slot.pipe /\ s.screen = o.slot.screen
      /\ s.input = o.slot.input /\ s.output = o.slot.output
  BY <1>1 DEF Slot
<1>3. [o EXCEPT !.slot.pane = status] = [o EXCEPT !.slot = s]
      /\ [o EXCEPT !.slot = s].slot = s
  BY <1>1 DEF Owner
<1> HIDE DEF s
<1>4. Refers(s, o.work)
  BY <1>2 DEF Linked, Refers
<1> QED
  BY <1>3, <1>4, SlotKeeps DEF s

\* However much was left, a removed pane is settled.
LEMMA RemoveSettles ==
  ASSUME NEW n \in Nat, NEW o, Linked(o, n)
  PROVE  Linked(Remove(o), n) /\ Settled(Remove(o).slot)
<1> DEFINE w == WaitComplete(o)
           c == ClosePipe(w)
           d == DropProcess(c)
<1>1. Linked(w, n) /\ ~w.slot.waiter
  BY WaitCompleteKeeps, ZenonT(120) DEF Linked, Owner, Slot
<1>2. Linked(c, n) /\ c.slot.pipe = 0 /\ ~c.slot.waiter
  <2> HIDE DEF w
  <2> QED
    BY <1>1, ClosePipeKeeps
<1>3. Linked(d, n) /\ d.slot.pipe = 0 /\ ~d.slot.waiter /\ d.slot.gen = 0
  <2> HIDE DEF c
  <2> QED
    BY <1>2, DropProcessKeeps
<1>4. Remove(o) = [d EXCEPT !.slot.pane = "gone"]
  BY DEF Remove
<1> HIDE DEF d
<1>5. Linked(Remove(o), n) /\ Remove(o).slot = [d.slot EXCEPT !.pane = "gone"]
  BY <1>3, <1>4, PaneKeeps
<1>6. d.slot \in Slot
  BY <1>3 DEF Linked, Owner
<1>7. Remove(o).slot.pane = "gone" /\ Remove(o).slot.pipe = 0
      /\ ~Remove(o).slot.waiter /\ Remove(o).slot.gen = 0
  BY <1>3, <1>5, <1>6 DEF Slot
<1> QED
  BY <1>5, <1>7 DEF Settled

\* A pane whose process is gone dies, or is removed.
LEMMA ExitedSettles ==
  ASSUME NEW n \in Nat, NEW o, Linked(o, n), o.slot.gen = 0, NEW remain \in BOOLEAN
  PROVE  Linked(Exited(o, remain), n) /\ Settled(Exited(o, remain).slot)
<1>1. CASE remain
  <2>1. Exited(o, remain) = [o EXCEPT !.slot.pane = "dead"]
    BY <1>1 DEF Exited
  <2>2. Linked(Exited(o, remain), n)
        /\ Exited(o, remain).slot = [o.slot EXCEPT !.pane = "dead"]
    BY <2>1, PaneKeeps
  <2>3. o.slot \in Slot
    BY DEF Linked, Owner
  <2>4. Exited(o, remain).slot.pane = "dead" /\ Exited(o, remain).slot.gen = 0
    BY <2>2, <2>3 DEF Slot
  <2> QED
    BY <2>2, <2>4 DEF Settled
<1>2. CASE ~remain
  BY <1>2, RemoveSettles DEF Exited
<1> QED
  BY <1>1, <1>2

\* Input that fails takes the process with it.
LEMMA InputFailedSettles ==
  ASSUME NEW n \in Nat, NEW o, Linked(o, n), Settled(o.slot), NEW remain \in BOOLEAN
  PROVE  Linked(InputFailed(o, remain), n) /\ Settled(InputFailed(o, remain).slot)
<1>1. CASE o.slot.gen = 0
  BY <1>1 DEF InputFailed
<1>2. CASE o.slot.gen # 0
  BY <1>2, DropProcessKeeps, ExitedSettles DEF InputFailed
<1> QED
  BY <1>1, <1>2

\* finish_process, whether the process has ended or not
LEMMA FinishSettles ==
  ASSUME NEW n \in Nat, NEW o, Linked(o, n), Settled(o.slot), NEW remain \in BOOLEAN
  PROVE  Linked(Finish(o, remain), n) /\ Settled(Finish(o, remain).slot)
<1>1. CASE Pending(o) \/ ~Ended(o.slot)
  BY <1>1 DEF Finish
<1>2. CASE ~(Pending(o) \/ ~Ended(o.slot))
  <2> DEFINE g == o.slot.gen
             w == [o.work[g] EXCEPT !.finished = TRUE]
             f == [o EXCEPT !.work[g].finished = TRUE]
             d == DropProcess(f)
  <2>1. o \in Owner /\ g \in Gens /\ Counted(o.work[g]) /\ o.work[g] \in Worker
    BY <1>2 DEF Linked, Owner, Refers, Children, Ended, Counted
  <2>2. w \in Worker /\ w.kind = o.work[g].kind /\ w.pane = o.work[g].pane
        /\ w.queue = o.work[g].queue /\ w.bytes = o.work[g].bytes
        /\ w.writer = o.work[g].writer /\ w.closed = o.work[g].closed
        /\ w.reaper = o.work[g].reaper /\ w.reader = o.work[g].reader
    BY <2>1 DEF Worker
  <2>3. Counted(w)
    <3> HIDE DEF w
    <3> QED
      BY <2>1, <2>2 DEF Counted, Held
  <2>4. f = [o EXCEPT !.work[g] = w]
    BY <2>1 DEF Owner
  <2>5. Linked(f, n)
    <3> HIDE DEF w, f
    <3> QED
      BY <2>1, <2>2, <2>3, <2>4, ReplaceKeeps
  <2>6. Linked(d, n) /\ d.slot.gen = 0
    <3> HIDE DEF f
    <3> QED
      BY <2>5, DropProcessKeeps
  <2>7. Linked(ClosePipe(d), n) /\ ClosePipe(d).slot.gen = 0
    <3> HIDE DEF d
    <3> QED
      BY <2>6, ClosePipeKeeps
  <2>8. Finish(o, remain) = Exited(ClosePipe(d), remain)
    BY <1>2 DEF Finish
  <2> HIDE DEF d
  <2> QED
    BY <2>7, <2>8, ExitedSettles
<1> QED
  BY <1>1, <1>2

\* A chunk that fits is counted and queued.
LEMMA WriteKeeps ==
  ASSUME NEW n \in Nat, NEW o, Linked(o, n)
  PROVE  Linked(Write(o), n) /\ Write(o).slot = o.slot
<1>1. CASE ~CanWrite(o)
  BY <1>1 DEF Write
<1>2. CASE CanWrite(o)
  <2> DEFINE g == o.slot.gen
             w == [o.work[g] EXCEPT !.queue = @ + 1, !.bytes = @ + 1]
  <2>1. o \in Owner /\ g \in Gens /\ Counted(o.work[g]) /\ o.work[g] \in Worker
        /\ o.work[g].kind = "process" /\ o.work[g].bytes < InputLimit
    BY <1>2 DEF Linked, Owner, Refers, Children, CanWrite, Counted
  <2>3. o.work[g].queue \in Nat /\ o.work[g].bytes \in Nat
        /\ o.work[g].queue + 1 \in Nat /\ o.work[g].bytes + 1 \in Nat
    BY <2>1, SMTT(60) DEF Worker
  <2>2. w \in Worker /\ w.kind = o.work[g].kind /\ w.pane = o.work[g].pane
        /\ w.queue = o.work[g].queue + 1 /\ w.bytes = o.work[g].bytes + 1
        /\ w.writer = o.work[g].writer /\ w.closed = o.work[g].closed
        /\ w.reaper = o.work[g].reaper /\ w.reader = o.work[g].reader
    BY <2>1, <2>3 DEF Worker
  <2>4. Counted(w)
    <3> HIDE DEF w
    <3> QED
      BY <2>1, <2>2, <2>3, ProcessAssumption DEF Counted, Held
  <2>5. Write(o) = [o EXCEPT !.work[g] = w]
    BY <1>2, <2>1 DEF Write, Owner
  <2>6. [o EXCEPT !.work[g] = w].slot = o.slot
    BY <2>1 DEF Owner
  <2> HIDE DEF w
  <2> QED
    BY <2>1, <2>2, <2>4, <2>5, <2>6, ReplaceKeeps
<1> QED
  BY <1>1, <1>2

\* A pipe that does not keep up is closed, and stays within its budget.
LEMMA ToPipeSettles ==
  ASSUME NEW n \in Nat, NEW o, Linked(o, n), Settled(o.slot)
  PROVE  Linked(ToPipe(o), n) /\ Settled(ToPipe(o).slot)
<1> DEFINE g == o.slot.pipe
<1>1. CASE ~o.slot.output
  BY <1>1 DEF ToPipe
<1>2. CASE o.slot.output /\ (o.work[g].bytes >= PipeLimit \/ o.work[g].writer = "ended")
  BY <1>2, ClosePipeKeeps DEF ToPipe, Settled
<1>3. CASE o.slot.output /\ ~(o.work[g].bytes >= PipeLimit \/ o.work[g].writer = "ended")
  <2> DEFINE w == [o.work[g] EXCEPT !.queue = @ + 1, !.bytes = @ + 1]
  <2>1. o \in Owner /\ g \in Gens /\ Counted(o.work[g]) /\ o.work[g] \in Worker
        /\ o.work[g].kind = "pipe"
    BY <1>3 DEF Linked, Owner, Refers, Children, Counted
  <2>3. o.work[g].queue \in Nat /\ o.work[g].bytes \in Nat /\ o.work[g].bytes < PipeLimit
        /\ o.work[g].queue + 1 \in Nat /\ o.work[g].bytes + 1 \in Nat
    BY <1>3, <2>1, ProcessAssumption, SMTT(60) DEF Worker
  <2>2. w \in Worker /\ w.kind = o.work[g].kind /\ w.pane = o.work[g].pane
        /\ w.queue = o.work[g].queue + 1 /\ w.bytes = o.work[g].bytes + 1
        /\ w.writer = o.work[g].writer /\ w.closed = o.work[g].closed
        /\ w.reaper = o.work[g].reaper /\ w.reader = o.work[g].reader
    BY <2>1, <2>3 DEF Worker
  <2>4. Counted(w)
    <3> HIDE DEF w
    <3> QED
      BY <2>1, <2>2, <2>3, ProcessAssumption DEF Counted, Held
  <2>5. ToPipe(o) = [o EXCEPT !.work[g] = w]
    BY <1>3, <2>1 DEF ToPipe, Owner
  <2>6. [o EXCEPT !.work[g] = w].slot = o.slot
    BY <2>1 DEF Owner
  <2> HIDE DEF w
  <2> QED
    BY <2>1, <2>2, <2>4, <2>5, <2>6, ReplaceKeeps
<1> QED
  BY <1>1, <1>2, <1>3

\* Output, with what the terminal answers
LEMMA PaneOutputSettles ==
  ASSUME NEW n \in Nat, NEW o, Linked(o, n), Settled(o.slot),
         NEW reply \in BOOLEAN, NEW remain \in BOOLEAN
  PROVE  Linked(PaneOutput(o, reply, remain), n) /\ Settled(PaneOutput(o, reply, remain).slot)
<1> DEFINE t == ToPipe(o)
<1>1. Linked(t, n) /\ Settled(t.slot)
  BY ToPipeSettles
<1>2. PaneOutput(o, reply, remain) \in {t, Write(t), InputFailed(t, remain)}
  BY DEF PaneOutput
<1> HIDE DEF t
<1> QED
  BY <1>1, <1>2, WriteKeeps, InputFailedSettles

\* An empty pane has no process, and a screen of its own.
LEMMA EmptiedSettles ==
  ASSUME NEW n \in Nat, NEW o, Linked(o, n)
  PROVE  Linked(Emptied(o), n) /\ Settled(Emptied(o).slot)
<1> DEFINE d == DropProcess(o)
           s == [d.slot EXCEPT !.pane = "empty", !.screen = {}]
<1>1. Linked(d, n) /\ d.slot.gen = 0
  BY DropProcessKeeps
<1> HIDE DEF d
<1>2. d \in Owner /\ d.slot \in Slot
  BY <1>1 DEF Linked, Owner
<1>3. s \in Slot /\ s.gen = 0 /\ s.pipe = d.slot.pipe /\ s.screen = {} /\ s.pane = "empty"
      /\ s.input = d.slot.input /\ s.output = d.slot.output
  BY <1>1, <1>2 DEF Slot
<1>4. Emptied(o) = [d EXCEPT !.slot = s] /\ [d EXCEPT !.slot = s].slot = s
  BY <1>2 DEF Emptied, Owner, d
<1> HIDE DEF s
<1>5. Refers(s, d.work)
  BY <1>1, <1>3 DEF Linked, Refers
<1> QED
  BY <1>1, <1>3, <1>4, <1>5, SlotKeeps DEF Settled

\* A new child takes the next generation.
LEMMA NewWorkerCounted ==
  ASSUME NEW kind \in {"process", "pipe"}, NEW p \in Panes,
         NEW reads \in BOOLEAN, NEW writes \in BOOLEAN
  PROVE  /\ Counted(NewWorker(kind, p, reads, writes))
         /\ NewWorker(kind, p, reads, writes).kind = kind
         /\ NewWorker(kind, p, reads, writes).pane = p
<1> DEFINE w == NewWorker(kind, p, reads, writes)
<1>1. w.kind = kind /\ w.pane = p /\ w.queue = 0 /\ w.bytes = 0 /\ w.writer # "writing"
  BY DEF NewWorker, NoWorker
<1>2. w \in Worker
  BY DEF NewWorker, NoWorker, Worker
<1> HIDE DEF w
<1> QED
  BY <1>1, <1>2, ProcessAssumption DEF Counted, Held, w

\* Starting a child leaves those there were alone.
LEMMA StartKeeps ==
  ASSUME next \in 1 .. MaxGen, NEW o, Linked(o, next), NEW w, Counted(w), w.kind # "none",
         NEW r \in Owner, r.work = [o.work EXCEPT ![next] = w], Refers(r.slot, r.work)
  PROVE  Linked(r, next + 1)
<1>1. o \in Owner /\ w \in Worker /\ next \in Gens
  BY DEF Linked, Counted, Gens
<1>3. r.work \in [Gens -> Worker]
      /\ \A h \in Gens : r.work[h] = IF h = next THEN w ELSE o.work[h]
  BY <1>1 DEF Owner
<1>4. Children(r.work, next + 1)
  <2>1. \A h \in Gens : Counted(r.work[h])
    BY <1>3 DEF Linked, Children
  <2>2. \A h \in Gens : h >= next + 1 => r.work[h].kind = "none"
    BY <1>1, <1>3 DEF Linked, Children, Gens
  <2> QED
    BY <1>3, <2>1, <2>2 DEF Children
<1>5. Kept(r.work)
  <2>1. o.work[next].kind = "none"
    BY <1>1 DEF Linked, Children
  <2>2. work[next].kind = "none"
    BY <1>1, <2>1 DEF Linked, Kept
  <2> QED
    BY <1>3, <2>2 DEF Linked, Kept
<1> QED
  BY <1>4, <1>5 DEF Linked

\* A spawn replaces the process of its pane.
LEMMA SpawnedSettles ==
  ASSUME next \in 1 .. MaxGen, NEW o, Linked(o, next), NEW p \in Panes
  PROVE  Linked(Spawned(o, p), next + 1) /\ Settled(Spawned(o, p).slot)
<1> DEFINE d == DropProcess(o)
           w == NewWorker("process", p, TRUE, TRUE)
           s == [d.slot EXCEPT !.pane = "alive", !.gen = next, !.screen = {}]
<1>1. Linked(d, next)
  BY DropProcessKeeps
<1>2. Counted(w) /\ w.kind = "process"
  BY NewWorkerCounted, ZenonT(120)
<1> HIDE DEF d, w
<1>3. d \in Owner /\ d.slot \in Slot /\ next \in Gens /\ next \in Nat
  BY <1>1 DEF Linked, Owner, Gens
<1>4. s \in Slot /\ s.gen = next /\ s.pipe = d.slot.pipe /\ s.screen = {} /\ s.pane = "alive"
      /\ s.input = d.slot.input /\ s.output = d.slot.output
  BY <1>3 DEF Slot
<1>5. Spawned(o, p) = [d EXCEPT !.slot = s, !.work[next] = w]
  BY <1>3 DEF Spawned, Owner, d, w
<1> HIDE DEF s
<1> DEFINE r == [d EXCEPT !.slot = s, !.work[next] = w]
<1>6. r \in Owner /\ r.slot = s /\ r.work = [d.work EXCEPT ![next] = w]
  BY <1>2, <1>3, <1>4 DEF Owner, Counted
<1> HIDE DEF r
<1>7. Refers(s, r.work)
  <2>1. r.work[next] = w /\ \A h \in Gens : h # next => r.work[h] = d.work[h]
    BY <1>3, <1>6 DEF Owner
  <2>2. d.work[next].kind = "none"
    BY <1>1, <1>3 DEF Linked, Children
  <2>3. s.pipe # 0 => s.pipe \in Gens /\ r.work[s.pipe].kind = "pipe"
    BY <1>1, <1>4, <2>1, <2>2 DEF Linked, Refers
  <2> QED
    BY <1>1, <1>2, <1>3, <1>4, <2>1, <2>3 DEF Linked, Refers
<1>8. w.kind # "none"
  BY <1>2
<1>9. Linked(r, next + 1)
  BY <1>1, <1>2, <1>6, <1>7, <1>8, StartKeeps
<1>10. Settled(s)
  BY <1>3, <1>4 DEF Settled, Gens
<1> QED
  BY <1>5, <1>6, <1>9, <1>10 DEF r

-----------------------------------------------------------------------------
(* Steps *)

LEMMA AtSettled ==
  ASSUME Inv, NEW p \in Panes
  PROVE  /\ Linked(At(p), next) /\ Settled(At(p).slot)
         /\ At(p).slot = slot[p] /\ At(p).work = work /\ At(p).retired = retired
         /\ next \in Nat
<1>1. slot[p] \in Slot
  BY DEF Inv
<1>2. At(p) \in Owner
  BY <1>1 DEF At, Owner, Inv, Children
<1>3. Kept(work)
  BY DEF Kept
<1> QED
  BY <1>2, <1>3 DEF At, Inv, Linked

\* The events that are left are events there were.
Remaining == events' \in Seq(Event) /\ \A i \in 1 .. Len(events') :
               \E j \in 1 .. Len(events) : events'[i] = events[j]

LEMMA TakeRemains ==
  ASSUME Inv, NEW kind, NEW p, NEW g, Take(kind, p, g)
  PROVE  Remaining /\ g \in Gens /\ p \in Panes
<1>1. events \in Seq(Event) /\ events # <<>> /\ events' = Tail(events)
      /\ Head(events).pane = p /\ Head(events).gen = g
  BY DEF Take, Inv, Signed
<1>2. Head(events) \in Event
  BY <1>1
<1>3. events' \in Seq(Event) /\ Len(events') = Len(events) - 1
      /\ \A i \in 1 .. Len(events') : events'[i] = events[i + 1]
  BY <1>1
<1>4. \A i \in 1 .. Len(events') : i + 1 \in 1 .. Len(events)
  BY <1>1, <1>3
<1> QED
  BY <1>1, <1>2, <1>3, <1>4 DEF Remaining, Event

LEMMA StaysRemains ==
  ASSUME Inv, UNCHANGED events
  PROVE  Remaining
BY DEF Remaining, Inv, Signed

\* A handler that leaves its pane linked and settled keeps the invariant: the
\* other panes' children are what they were.
LEMMA CommitKeeps ==
  ASSUME Inv, NEW p \in Panes, NEW o, Linked(o, next'), Settled(o.slot),
         Commit(p, o), next' \in 1 .. MaxGen, Remaining
  PROVE  Inv'
<1>1. o \in Owner /\ slot' = [slot EXCEPT ![p] = o.slot] /\ retired' = o.retired
      /\ work' = o.work
  BY DEF Linked, Commit
<1>2. retired' \subseteq Gens /\ Children(work', next')
  BY <1>1 DEF Linked, Owner
<1>3. slot' \in [Panes -> Slot] /\ \A q \in Panes : slot'[q] = IF q = p THEN o.slot ELSE slot[q]
  BY <1>1 DEF Inv, Owner
<1>4. ASSUME NEW q \in Panes
      PROVE  Refers(slot'[q], work') /\ Settled(slot'[q])
  <2>1. CASE q = p
    BY <1>1, <1>3, <2>1 DEF Linked
  <2>2. CASE q # p
    <3>1. Refers(slot[q], work) /\ Settled(slot[q])
      BY DEF Inv
    <3>2. slot'[q] = slot[q]
      BY <1>3, <2>2
    <3>3. Kept(work')
      BY <1>1 DEF Linked
    <3> QED
      BY <3>1, <3>2, <3>3 DEF Refers, Kept
  <2> QED
    BY <2>1, <2>2
<1>5. Signed'
  <2>1. ASSUME NEW i \in 1 .. Len(events')
        PROVE  work'[events'[i].gen].kind # "none"
               /\ work'[events'[i].gen].pane = events'[i].pane
    <3>1. PICK j \in 1 .. Len(events) : events'[i] = events[j]
      BY <2>1 DEF Remaining
    <3>2. events[j] \in Event
      BY DEF Inv, Signed
    <3>4. events[j].gen \in Gens
      BY <3>2 DEF Event
    <3>3. work[events[j].gen].kind # "none" /\ work[events[j].gen].pane = events[j].pane
      BY DEF Inv, Signed
    <3> QED
      BY <1>1, <3>1, <3>3, <3>4 DEF Linked, Kept
  <2> QED
    BY <2>1 DEF Signed, Remaining
<1> QED
  BY <1>2, <1>3, <1>4, <1>5 DEF Inv

\* Generations may be passed over.
LEMMA IgnoreKeeps ==
  ASSUME Inv, Ignore, next' \in {next, next + 1}, next' \in 1 .. MaxGen, Remaining
  PROVE  Inv'
<1>1. slot' = slot /\ retired' = retired /\ work' = work /\ next' >= next
  BY DEF Ignore, Inv
<1>2. Children(work', next')
  <2>1. \A g \in Gens : g >= next' => g >= next
    BY <1>1 DEF Gens, Inv
  <2> QED
    BY <1>1, <2>1 DEF Inv, Children
<1>3. Signed'
  <2>1. ASSUME NEW i \in 1 .. Len(events')
        PROVE  work'[events'[i].gen].kind # "none"
               /\ work'[events'[i].gen].pane = events'[i].pane
    BY <1>1, <2>1 DEF Remaining, Inv, Signed
  <2> QED
    BY <2>1 DEF Signed, Remaining
<1> QED
  BY <1>1, <1>2, <1>3 DEF Inv

LEMMA NewPaneKeeps ==
  ASSUME Inv, NEW p \in Panes, NEW wait \in BOOLEAN, NewPane(p, wait)
  PROVE  Inv'
<1> DEFINE o == [At(p) EXCEPT !.slot.waiter = wait]
<1>1. next \in 1 .. MaxGen /\ next < MaxGen /\ Remaining /\ next + 1 \in 1 .. MaxGen
  BY StaysRemains, ProcessAssumption DEF NewPane, Inv
<1>2. Linked(o, next)
  <2> DEFINE s == [slot[p] EXCEPT !.waiter = wait]
  <2>1. Linked(At(p), next) /\ At(p).slot = slot[p] /\ next \in Nat
    BY AtSettled
  <2>2. slot[p] \in Slot /\ At(p) \in Owner
    BY <2>1 DEF Linked, Owner
  <2>3. s \in Slot /\ s.gen = slot[p].gen /\ s.pipe = slot[p].pipe /\ s.screen = slot[p].screen
        /\ s.input = slot[p].input /\ s.output = slot[p].output
    BY <2>2 DEF Slot
  <2>4. o = [At(p) EXCEPT !.slot = s]
    BY <2>1, <2>2 DEF Owner
  <2> HIDE DEF s, o
  <2>5. Refers(s, At(p).work)
    BY <2>1, <2>3 DEF Linked, Refers
  <2> QED
    BY <2>1, <2>4, <2>5, SlotKeeps
<1> HIDE DEF o
<1>3. CASE Commit(p, Spawned(o, p)) /\ next' = next + 1
  BY <1>1, <1>2, <1>3, SpawnedSettles, CommitKeeps
<1>4. CASE Ignore /\ next' = next + 1
  BY <1>1, <1>4, IgnoreKeeps
<1>5. CASE Commit(p, Emptied(o)) /\ next' = next
  BY <1>1, <1>2, <1>5, EmptiedSettles, CommitKeeps
<1> QED
  BY <1>3, <1>4, <1>5 DEF NewPane, Ignore, o

LEMMA RespawnKeeps ==
  ASSUME Inv, NEW p \in Panes, Respawn(p)
  PROVE  Inv'
<1> DEFINE o == At(p)
<1>1. next \in 1 .. MaxGen /\ next < MaxGen /\ Remaining /\ next + 1 \in 1 .. MaxGen
  BY StaysRemains, ProcessAssumption DEF Respawn, Inv
<1>2. Linked(o, next) /\ Settled(o.slot)
  BY AtSettled
<1>3. CASE Commit(p, Spawned(o, p)) /\ next' = next + 1
  BY <1>1, <1>2, <1>3, SpawnedSettles, CommitKeeps
<1>4. CASE Commit(p, RespawnFails(o, p)) /\ next' = next + 1
  <2>1. Ignore
    BY <1>4, AtSettled DEF Commit, RespawnFails, Ignore, Inv
  <2> QED
    BY <1>1, <1>4, <2>1, IgnoreKeeps
<1>5. CASE Commit(p, Emptied(o)) /\ next' = next
  BY <1>1, <1>2, <1>5, EmptiedSettles, CommitKeeps
<1> QED
  BY <1>3, <1>4, <1>5 DEF Respawn

\* Commands that start nothing
LEMMA ChangeKeeps ==
  ASSUME Inv, NEW p \in Panes,
         KillPane(p) \/ SendKeys(p) \/ FeedStdin(p) \/ PipeOff(p)
  PROVE  Inv'
<1>1. next' = next /\ next' \in 1 .. MaxGen /\ Remaining
  BY StaysRemains DEF KillPane, SendKeys, FeedStdin, PipeOff, Inv
<1>2. Linked(At(p), next) /\ Settled(At(p).slot) /\ At(p).slot = slot[p] /\ next \in Nat
  BY AtSettled
<1>3. CASE KillPane(p)
  BY <1>1, <1>2, <1>3, RemoveSettles, CommitKeeps DEF KillPane
<1>4. CASE SendKeys(p)
  BY <1>1, <1>2, <1>4, WriteKeeps, CommitKeeps DEF SendKeys
<1>5. CASE FeedStdin(p)
  BY <1>1, <1>2, <1>5, PaneOutputSettles, CommitKeeps DEF FeedStdin
<1>6. CASE PipeOff(p)
  <2>1. Linked(ClosePipe(At(p)), next) /\ Settled(ClosePipe(At(p)).slot)
    BY <1>2, ClosePipeKeeps DEF Settled
  <2> QED
    BY <1>1, <1>6, <2>1, CommitKeeps DEF PipeOff
<1> QED
  BY <1>3, <1>4, <1>5, <1>6

LEMMA PipeOnKeeps ==
  ASSUME Inv, NEW p \in Panes, NEW input \in BOOLEAN, NEW output \in BOOLEAN,
         PipeOn(p, input, output)
  PROVE  Inv'
<1> DEFINE c == ClosePipe(At(p))
           o == [c EXCEPT !.retired = Reaped(@)]
           w == NewWorker("pipe", p, input, output)
           s == [c.slot EXCEPT !.pipe = next, !.input = input, !.output = output]
           r == [o EXCEPT !.slot.pipe = next, !.slot.input = input, !.slot.output = output,
                          !.work[next] = w]
<1>1. next \in 1 .. MaxGen /\ next < MaxGen /\ Remaining /\ next + 1 \in 1 .. MaxGen
      /\ next \in Gens /\ next \in Nat
  BY StaysRemains, ProcessAssumption DEF PipeOn, Inv, Gens
<1>2. Linked(At(p), next) /\ Settled(At(p).slot) /\ At(p).slot = slot[p]
  BY AtSettled
<1>3. Linked(c, next) /\ c.slot.pipe = 0 /\ c.slot.gen = slot[p].gen
      /\ c.slot.pane = slot[p].pane /\ c.slot.waiter = slot[p].waiter
  BY <1>1, <1>2, ClosePipeKeeps
<1>4. Counted(w) /\ w.kind = "pipe" /\ w.kind # "none"
  BY NewWorkerCounted
<1>5. slot[p].pane \in {"alive", "empty"}
  BY DEF PipeOn
<1>6. CASE Commit(p, o) /\ next' = next
  <2> HIDE DEF c, w
  <2>1. c \in Owner /\ Reaped(c.retired) \in SUBSET Gens
    BY <1>3 DEF Linked, Owner, Reaped
  <2>2. Linked(o, next)
    BY <1>1, <1>3, <2>1, RetireKeeps
  <2>3. o.slot = c.slot
    BY <2>1 DEF Owner
  <2>4. Settled(o.slot)
    BY <1>2, <1>3, <2>3 DEF Settled
  <2> HIDE DEF o
  <2> QED
    BY <1>1, <1>6, <2>2, <2>4, CommitKeeps
<1>7. CASE Commit(p, r) /\ next' = next + 1
  <2> HIDE DEF c, w
  <2>1. c \in Owner /\ c.slot \in Slot /\ Reaped(c.retired) \in SUBSET Gens /\ w \in Worker
    BY <1>3, <1>4 DEF Linked, Owner, Reaped, Counted
  <2>2. s \in Slot /\ s.gen = c.slot.gen /\ s.pipe = next /\ s.screen = c.slot.screen
        /\ s.pane = c.slot.pane /\ s.waiter = c.slot.waiter
    BY <1>1, <2>1 DEF Slot
  <2>3. r \in Owner /\ r.slot = s /\ r.work = [c.work EXCEPT ![next] = w]
    BY <1>1, <2>1, <2>2 DEF Owner
  <2> HIDE DEF s, r
  <2>4. Refers(s, r.work)
    <3>1. r.work[next] = w /\ \A h \in Gens : h # next => r.work[h] = c.work[h]
      BY <1>1, <2>1, <2>3 DEF Owner
    <3>2. c.work[next].kind = "none"
      BY <1>1, <1>3 DEF Linked, Children
    <3>3. s.gen # 0 => s.gen \in Gens /\ r.work[s.gen].kind = "process"
      BY <1>3, <2>2, <3>1, <3>2 DEF Linked, Refers
    <3>4. \E g \in Gens : s.screen \subseteq {g} /\ s.gen \in {0, g}
      BY <1>3, <2>2 DEF Linked, Refers
    <3>5. s.pipe # 0 /\ s.pipe \in Gens /\ r.work[s.pipe].kind = "pipe"
      BY <1>1, <1>4, <2>2, <3>1 DEF Gens
    <3> QED
      BY <2>2, <3>3, <3>4, <3>5 DEF Refers
  <2>5. Linked(r, next + 1)
    BY <1>1, <1>3, <1>4, <2>3, <2>4, StartKeeps
  <2>6. Settled(r.slot)
    BY <1>2, <1>3, <1>5, <2>2, <2>3 DEF Settled
  <2> QED
    BY <1>1, <1>7, <2>5, <2>6, CommitKeeps
<1> QED
  BY <1>6, <1>7 DEF PipeOn

LEMMA CommandKeeps ==
  ASSUME Inv, Command
  PROVE  Inv'
<1>1. CASE \E p \in Panes :
             \/ \E wait \in BOOLEAN : NewPane(p, wait)
             \/ Respawn(p) \/ KillPane(p) \/ SendKeys(p) \/ FeedStdin(p)
             \/ PipeOff(p) \/ PipeOn(p, FALSE, TRUE) \/ PipeOn(p, TRUE, FALSE)
             \/ PipeOn(p, TRUE, TRUE)
  BY <1>1, NewPaneKeeps, RespawnKeeps, ChangeKeeps, PipeOnKeeps
<1>2. CASE ReapPipes
  <2>1. slot' = slot /\ next' = next /\ work' = work /\ events' = events
        /\ retired' \subseteq Gens
    BY <1>2 DEF ReapPipes, Reaped, Inv
  <2> QED
    BY <2>1 DEF Inv, Signed
<1> QED
  BY <1>1, <1>2 DEF Command

\* A chunk that was read is shown on the screen of the process it came from.
LEMMA ShownKeeps ==
  ASSUME Inv, NEW p \in Panes, NEW g \in Gens, IsProcess(p, g),
         NEW o, o = [At(p) EXCEPT !.slot.screen = @ \union {g}, !.work[g].shown = @ + 1]
  PROVE  Linked(o, next) /\ Settled(o.slot)
<1> DEFINE a == At(p)
           s == [slot[p] EXCEPT !.screen = @ \union {g}]
           w == [work[g] EXCEPT !.shown = @ + 1]
           b == [a EXCEPT !.slot = s]
<1>1. Linked(a, next) /\ Settled(a.slot) /\ a.slot = slot[p] /\ a.work = work /\ next \in Nat
  BY AtSettled
<1>2. a \in Owner /\ slot[p] \in Slot /\ Counted(work[g]) /\ work[g] \in Worker
      /\ slot[p].gen = g /\ g # 0 /\ g \in Nat
  BY <1>1 DEF Linked, Owner, Children, Counted, IsProcess, Gens
<1>3. s \in Slot /\ s.gen = g /\ s.pipe = slot[p].pipe /\ s.input = slot[p].input
      /\ s.output = slot[p].output /\ s.screen = slot[p].screen \union {g}
      /\ s.pane = slot[p].pane /\ s.waiter = slot[p].waiter
  BY <1>2 DEF Slot
<1>4. work[g].shown \in Nat /\ work[g].shown + 1 \in Nat
  BY <1>2 DEF Worker
<1>5. w \in Worker /\ w.kind = work[g].kind /\ w.pane = work[g].pane
      /\ w.queue = work[g].queue /\ w.bytes = work[g].bytes
      /\ w.writer = work[g].writer /\ w.closed = work[g].closed
      /\ w.reaper = work[g].reaper /\ w.reader = work[g].reader
  BY <1>2, <1>4 DEF Worker
<1>6. Counted(w)
  <2> HIDE DEF w
  <2> QED
    BY <1>2, <1>5 DEF Counted, Held
<1>7. o = [b EXCEPT !.work[g] = w] /\ b.work = work
  BY <1>1, <1>2 DEF Owner
<1> HIDE DEF a, s, w
<1>8. Refers(s, a.work)
  <2>1. PICK h \in Gens : slot[p].screen \subseteq {h} /\ g \in {0, h}
    BY <1>1, <1>2 DEF Linked, Refers
  <2>2. s.screen \subseteq {g}
    BY <1>2, <1>3, <2>1
  <2> QED
    BY <1>1, <1>2, <1>3, <2>2 DEF Linked, Refers
<1>9. Linked(b, next)
  BY <1>1, <1>8, SlotKeeps
<1>10. b \in Owner /\ b.slot = s
  BY <1>2, <1>3 DEF Owner
<1> HIDE DEF b
<1>11. Linked([b EXCEPT !.work[g] = w], next)
  BY <1>1, <1>5, <1>6, <1>7, <1>9, ReplaceKeeps
<1>12. [b EXCEPT !.work[g] = w].slot = s
  BY <1>10 DEF Owner
<1>13. Settled(s)
  BY <1>1, <1>2, <1>3 DEF Settled
<1> QED
  BY <1>7, <1>11, <1>12, <1>13

\* The owner notes that output ended or the process exited, and finishes.
LEMMA NotedKeeps ==
  ASSUME Inv, NEW p \in Panes,
         NEW o \in {[At(p) EXCEPT !.slot.eof = TRUE],
                    [WaitComplete(At(p)) EXCEPT !.slot.exited = TRUE]}
  PROVE  Linked(o, next) /\ Settled(o.slot)
<1>1. Linked(At(p), next) /\ Settled(At(p).slot) /\ next \in Nat
  BY AtSettled
<1>2. ASSUME NEW a, Linked(a, next), Settled(a.slot),
             NEW r \in {[a EXCEPT !.slot.eof = TRUE], [a EXCEPT !.slot.exited = TRUE]}
      PROVE  Linked(r, next) /\ Settled(r.slot)
  <2>1. a \in Owner /\ a.slot \in Slot
    BY <1>2 DEF Linked, Owner
  <2>2. PICK s \in {[a.slot EXCEPT !.eof = TRUE], [a.slot EXCEPT !.exited = TRUE]} :
          r = [a EXCEPT !.slot = s]
    <3>1. CASE r = [a EXCEPT !.slot.eof = TRUE]
      BY <2>1, <3>1 DEF Owner
    <3>2. CASE r = [a EXCEPT !.slot.exited = TRUE]
      BY <2>1, <3>2 DEF Owner
    <3> QED
      BY <1>2, <3>1, <3>2
  <2>3. s \in Slot /\ s.gen = a.slot.gen /\ s.pipe = a.slot.pipe /\ s.screen = a.slot.screen
        /\ s.input = a.slot.input /\ s.output = a.slot.output
        /\ s.pane = a.slot.pane /\ s.waiter = a.slot.waiter
    BY <2>1, <2>2, ZenonT(120) DEF Slot
  <2>4. r.slot = s
    BY <2>1, <2>2 DEF Owner
  <2>5. Refers(s, a.work)
    BY <1>2, <2>3 DEF Linked, Refers
  <2>6. Linked(r, next)
    BY <1>1, <1>2, <2>2, <2>5, SlotKeeps
  <2> QED
    BY <1>2, <2>3, <2>4, <2>6 DEF Settled
<1>3. Linked(WaitComplete(At(p)), next) /\ Settled(WaitComplete(At(p)).slot)
  <2>1. Linked(WaitComplete(At(p)), next)
        /\ WaitComplete(At(p)).slot = [At(p).slot EXCEPT !.waiter = FALSE]
    BY <1>1, WaitCompleteKeeps
  <2>2. At(p).slot \in Slot
    BY <1>1 DEF Linked, Owner
  <2> DEFINE s == [At(p).slot EXCEPT !.waiter = FALSE]
  <2>3. s.gen = At(p).slot.gen /\ s.pipe = At(p).slot.pipe
        /\ s.pane = At(p).slot.pane /\ s.waiter = FALSE
    BY <2>2 DEF Slot
  <2> HIDE DEF s
  <2>4. Settled(s)
    BY <1>1, <2>3 DEF Settled
  <2> QED
    BY <2>1, <2>4 DEF s
<1> QED
  BY <1>1, <1>2, <1>3

LEMMA ClosedSettles ==
  ASSUME Inv, NEW p \in Panes
  PROVE  Linked(ClosePipe(At(p)), next) /\ Settled(ClosePipe(At(p)).slot)
<1>1. Linked(At(p), next) /\ Settled(At(p).slot) /\ next \in Nat
  BY AtSettled
<1> QED
  BY <1>1, ClosePipeKeeps DEF Settled

LEMMA HandleEventKeeps ==
  ASSUME Inv, HandleEvent
  PROVE  Inv'
<1>1. PICK p \in Panes, g \in Gens :
        \/ HandleOutput(p, g) \/ HandleReadClosed(p, g) \/ HandleExited(p, g)
        \/ HandleInputFailed(p, g)
        \/ HandlePipeInput(p, g) \/ HandlePipeClosed(p, g) \/ HandlePipeExited(p, g)
        \/ HandlePipeDrained(p, g)
  BY DEF HandleEvent
<1>2. next' = next /\ next' \in 1 .. MaxGen /\ next \in Nat
  BY <1>1 DEF HandleOutput, HandleReadClosed, HandleExited, HandleInputFailed,
              HandlePipeInput, HandlePipeClosed, HandlePipeExited, HandlePipeDrained, Inv
<1>3. Remaining
  <2>1. PICK kind : Take(kind, p, g)
    BY <1>1 DEF HandleOutput, HandleReadClosed, HandleExited, HandleInputFailed,
                HandlePipeInput, HandlePipeClosed, HandlePipeExited, HandlePipeDrained
  <2> QED
    BY <2>1, TakeRemains
<1>4. Linked(At(p), next) /\ Settled(At(p).slot)
  BY AtSettled
<1>5. ASSUME Ignore
      PROVE  Inv'
  BY <1>2, <1>3, <1>5, IgnoreKeeps
<1>6. ASSUME NEW o, Linked(o, next), Settled(o.slot), Commit(p, o)
      PROVE  Inv'
  BY <1>2, <1>3, <1>6, CommitKeeps
<1>7. CASE HandleOutput(p, g)
  <2> DEFINE o == [At(p) EXCEPT !.slot.screen = @ \union {g}, !.work[g].shown = @ + 1]
  <2>1. CASE ~IsProcess(p, g)
    BY <1>5, <1>7, <2>1 DEF HandleOutput
  <2>2. CASE IsProcess(p, g)
    <3>1. Linked(o, next) /\ Settled(o.slot)
      BY <2>2, ShownKeeps
    <3>2. \E reply, remain \in BOOLEAN : Commit(p, PaneOutput(o, reply, remain))
      BY <1>7, <2>2 DEF HandleOutput
    <3> HIDE DEF o
    <3> QED
      BY <1>2, <1>6, <3>1, <3>2, PaneOutputSettles
  <2> QED
    BY <2>1, <2>2
<1>8. CASE HandleReadClosed(p, g)
  <2> DEFINE o == [At(p) EXCEPT !.slot.eof = TRUE]
  <2>1. Linked(o, next) /\ Settled(o.slot)
    BY NotedKeeps
  <2>2. Ignore \/ \E remain \in BOOLEAN : Commit(p, Finish(o, remain))
    BY <1>8 DEF HandleReadClosed
  <2> HIDE DEF o
  <2> QED
    BY <1>2, <1>5, <1>6, <2>1, <2>2, FinishSettles
<1>9. CASE HandleExited(p, g)
  <2> DEFINE o == [WaitComplete(At(p)) EXCEPT !.slot.exited = TRUE]
  <2>1. Linked(o, next) /\ Settled(o.slot)
    BY NotedKeeps
  <2>2. Ignore \/ \E remain \in BOOLEAN : Commit(p, Finish(o, remain))
    BY <1>9 DEF HandleExited
  <2> HIDE DEF o
  <2> QED
    BY <1>2, <1>5, <1>6, <2>1, <2>2, FinishSettles
<1>10. CASE HandleInputFailed(p, g)
  BY <1>2, <1>4, <1>5, <1>6, <1>10, InputFailedSettles DEF HandleInputFailed
<1>11. CASE HandlePipeInput(p, g)
  <2>1. Linked(Write(At(p)), next) /\ Settled(Write(At(p)).slot)
    BY <1>2, <1>4, WriteKeeps
  <2>2. Ignore \/ Commit(p, Write(At(p))) \/ Commit(p, ClosePipe(At(p)))
    BY <1>11 DEF HandlePipeInput
  <2> QED
    BY <1>5, <1>6, <2>1, <2>2, ClosedSettles
<1>12. CASE HandlePipeClosed(p, g) \/ HandlePipeExited(p, g)
  <2>1. Ignore \/ \E remain \in BOOLEAN : Commit(p, Finish(ClosePipe(At(p)), remain))
    BY <1>12 DEF HandlePipeClosed, HandlePipeExited
  <2> QED
    BY <1>2, <1>5, <1>6, <2>1, ClosedSettles, FinishSettles
<1>13. CASE HandlePipeDrained(p, g)
  BY <1>2, <1>4, <1>6, <1>13, FinishSettles DEF HandlePipeDrained
<1> QED
  BY <1>1, <1>7, <1>8, <1>9, <1>10, <1>11, <1>12, <1>13

\* A thread changes its own child, and signs what it sends.
LEMMA ThreadKeeps ==
  ASSUME Inv, NEW g \in Gens, NEW w, Thread(g, w), Counted(w),
         w.kind = work[g].kind, w.pane = work[g].pane, w.kind # "none",
         UNCHANGED events \/ \E kind \in EventKinds : Send(kind, g)
  PROVE  Inv'
<1>1. slot' = slot /\ retired' = retired /\ next' = next /\ work' = [work EXCEPT ![g] = w]
      /\ work \in [Gens -> Worker] /\ w \in Worker
  BY DEF Thread, Inv, Children, Counted
<1>2. work' \in [Gens -> Worker] /\ \A h \in Gens : work'[h] = IF h = g THEN w ELSE work[h]
  BY <1>1
<1>3. \A h \in Gens : work'[h].kind = work[h].kind /\ work'[h].pane = work[h].pane
  BY <1>2
<1>4. Children(work', next')
  <2>1. \A h \in Gens : Counted(work'[h])
    BY <1>2 DEF Inv, Children
  <2> QED
    BY <1>1, <1>2, <1>3, <2>1 DEF Inv, Children
<1>5. \A p \in Panes : Refers(slot'[p], work') /\ Settled(slot'[p])
  BY <1>1, <1>3 DEF Inv, Refers
<1>6. Signed'
  <2>1. \A i \in 1 .. Len(events) : events[i].gen \in Gens
    <3>1. ASSUME NEW i \in 1 .. Len(events)
          PROVE  events[i] \in Event
      BY DEF Inv, Signed
    <3> QED
      BY <3>1 DEF Event
  <2>2. CASE UNCHANGED events
    BY <1>3, <2>1, <2>2 DEF Inv, Signed
  <2>3. ASSUME NEW kind \in EventKinds, Send(kind, g)
        PROVE  Signed'
    <3> DEFINE e == [kind |-> kind, pane |-> work[g].pane, gen |-> g]
    <3>1. work[g].pane \in Panes /\ events \in Seq(Event)
      BY DEF Inv, Signed, Counted
    <3>2. e \in Event /\ e.gen = g /\ e.pane = work[g].pane /\ events' = Append(events, e)
      BY <2>3, <3>1 DEF Event, Send
    <3> HIDE DEF e
    <3>3. events' \in Seq(Event) /\ Len(events') = Len(events) + 1
          /\ \A i \in 1 .. Len(events') :
               events'[i] = IF i = Len(events) + 1 THEN e ELSE events[i]
      BY <3>1, <3>2
    <3>4. ASSUME NEW i \in 1 .. Len(events')
          PROVE  work'[events'[i].gen].kind # "none"
                 /\ work'[events'[i].gen].pane = events'[i].pane
      <4>1. CASE i = Len(events) + 1
        BY <1>3, <3>2, <3>3, <4>1
      <4>2. CASE i # Len(events) + 1
        <5>1. i \in 1 .. Len(events) /\ events'[i] = events[i]
          BY <3>1, <3>3, <4>2
        <5> QED
          BY <1>3, <2>1, <5>1 DEF Inv, Signed
      <4> QED
        BY <4>1, <4>2
    <3> QED
      BY <3>3, <3>4 DEF Signed
  <2> QED
    BY <2>2, <2>3
<1> QED
  BY <1>1, <1>4, <1>5, <1>6 DEF Inv

\* The writer ends when it has nothing to write and nothing more will come.
LEMMA LeftKeeps ==
  ASSUME NEW w, Counted(w), w.kind # "none"
  PROVE  Counted(Left(w)) /\ Left(w).kind = w.kind /\ Left(w).pane = w.pane
<1>1. w \in Worker
  BY DEF Counted
<1>2. CASE w.writer = "idle" /\ w.queue = 0 /\ w.closed
  <2> DEFINE e == [w EXCEPT !.writer = "ended"]
  <2>1. e \in Worker /\ e.kind = w.kind /\ e.pane = w.pane /\ e.bytes = w.bytes
        /\ e.queue = w.queue /\ e.closed = w.closed /\ e.writer = "ended"
    BY <1>1 DEF Worker
  <2>2. Left(w) = e
    BY <1>2 DEF Left
  <2> HIDE DEF e
  <2>3. Counted(e)
    BY <1>2, <2>1 DEF Counted, Held
  <2> QED
    BY <2>1, <2>2, <2>3
<1>3. CASE ~(w.writer = "idle" /\ w.queue = 0 /\ w.closed)
  BY <1>3 DEF Left
<1> QED
  BY <1>2, <1>3

LEMMA ThreadsKeep ==
  ASSUME Inv, Threads
  PROVE  Inv'
<1>1. PICK g \in Gens :
        \/ Reap(g) \/ Read(g) \/ ReadEnds(g) \/ WriterTakes(g) \/ WriterTells(g)
        \/ \E ok \in BOOLEAN : WriterWrote(g, ok)
  BY DEF Threads
<1> DEFINE w == work[g]
<1>2. Counted(w) /\ w \in Worker
  BY DEF Inv, Children, Counted
<1>3. w.queue \in Nat /\ w.bytes \in Nat /\ w.made \in Nat /\ w.made + 1 \in Nat
      /\ w.kind \in {"none", "process", "pipe"}
  BY <1>2 DEF Worker
<1>4. CASE Reap(g)
  <2> DEFINE v == [w EXCEPT !.reaper = FALSE]
  <2>1. v \in Worker /\ v.kind = w.kind /\ v.pane = w.pane /\ v.bytes = w.bytes
        /\ v.queue = w.queue /\ v.closed = w.closed /\ v.writer = w.writer
        /\ v.reader = w.reader /\ ~v.reaper
    BY <1>2 DEF Worker
  <2>2. Thread(g, v) /\ w.kind # "none" /\ \E kind \in EventKinds : Send(kind, g)
    BY <1>2, <1>4 DEF Reap, Counted, Of, EventKinds
  <2> HIDE DEF v
  <2>3. Counted(v)
    BY <1>2, <2>1, <2>2 DEF Counted, Held
  <2> QED
    BY <2>1, <2>2, <2>3, ThreadKeeps
<1>5. CASE Read(g)
  <2> DEFINE v == [w EXCEPT !.made = @ + 1]
  <2>1. v \in Worker /\ v.kind = w.kind /\ v.pane = w.pane /\ v.bytes = w.bytes
        /\ v.queue = w.queue /\ v.closed = w.closed /\ v.writer = w.writer
        /\ v.reader = w.reader /\ v.reaper = w.reaper
    BY <1>2, <1>3 DEF Worker
  <2>2. Thread(g, v) /\ w.kind # "none" /\ \E kind \in EventKinds : Send(kind, g)
    BY <1>2, <1>5 DEF Read, Counted, Of, EventKinds
  <2> HIDE DEF v
  <2>3. Counted(v)
    BY <1>2, <2>1, <2>2 DEF Counted, Held
  <2> QED
    BY <2>1, <2>2, <2>3, ThreadKeeps
<1>6. CASE ReadEnds(g)
  <2> DEFINE v == [w EXCEPT !.reader = FALSE]
  <2>1. v \in Worker /\ v.kind = w.kind /\ v.pane = w.pane /\ v.bytes = w.bytes
        /\ v.queue = w.queue /\ v.closed = w.closed /\ v.writer = w.writer
        /\ v.reaper = w.reaper /\ ~v.reader
    BY <1>2 DEF Worker
  <2>2. Thread(g, v) /\ w.kind # "none" /\ \E kind \in EventKinds : Send(kind, g)
    BY <1>2, <1>6 DEF ReadEnds, Counted, Of, EventKinds
  <2> HIDE DEF v
  <2>3. Counted(v)
    BY <1>2, <2>1, <2>2 DEF Counted, Held
  <2> QED
    BY <2>1, <2>2, <2>3, ThreadKeeps
<1>7. CASE WriterTakes(g)
  <2>1. w.writer = "idle" /\ w.queue > 0 /\ w.queue - 1 \in Nat /\ events' = events
    BY <1>3, <1>7 DEF WriterTakes
  <2>2. w.kind # "none"
    BY <1>2, <2>1 DEF Counted
  <2> DEFINE t(x) == [w EXCEPT !.queue = @ - 1, !.writer = x]
  <2>3. ASSUME NEW x \in {"ended", "writing"}, Thread(g, t(x)),
               x = "ended" => w.kind = "pipe" /\ w.closed
        PROVE  Inv'
    <3> DEFINE v == t(x)
    <3>1. v \in Worker /\ v.kind = w.kind /\ v.pane = w.pane /\ v.bytes = w.bytes
          /\ v.queue = w.queue - 1 /\ v.closed = w.closed /\ v.writer = x
          /\ v.reader = w.reader /\ v.reaper = w.reaper
      BY <1>2, <2>1 DEF Worker
    <3>2. Thread(g, v)
      BY <2>3
    <3> HIDE DEF v
    <3>3. Counted(v)
      BY <1>2, <1>3, <2>1, <2>2, <2>3, <3>1 DEF Counted, Held
    <3> QED
      BY <2>1, <2>2, <3>1, <3>2, <3>3, ThreadKeeps
  <2>4. CASE w.kind = "pipe" /\ w.closed
    BY <1>7, <2>3, <2>4 DEF WriterTakes
  <2>5. CASE ~(w.kind = "pipe" /\ w.closed)
    BY <1>7, <2>3, <2>5 DEF WriterTakes
  <2> QED
    BY <2>4, <2>5
<1>8. ASSUME NEW ok \in BOOLEAN, WriterWrote(g, ok)
      PROVE  Inv'
  <2> DEFINE x == AfterWrite(g, ok)
             v == [w EXCEPT !.bytes = @ - 1, !.writer = x]
  <2>1. w.writer = "writing" /\ w.kind # "none" /\ events' = events
    BY <1>2, <1>8 DEF WriterWrote, Counted
  <2>2. w.bytes - 1 \in Nat /\ w.queue <= w.bytes - 1
    BY <1>2, <1>3, <2>1 DEF Counted, Held
  <2>3. x \in {"failed", "drained", "idle"}
    BY DEF AfterWrite
  <2>4. Thread(g, Left(v))
    BY <1>8 DEF WriterWrote
  <2> HIDE DEF x
  <2>5. v \in Worker /\ v.kind = w.kind /\ v.pane = w.pane /\ v.bytes = w.bytes - 1
        /\ v.queue = w.queue /\ v.closed = w.closed /\ v.writer = x
        /\ v.reader = w.reader /\ v.reaper = w.reaper
    BY <1>2, <2>2, <2>3 DEF Worker
  <2> HIDE DEF v
  <2>6. InputLimit \in Nat /\ PipeLimit \in Nat
    BY ProcessAssumption
  <2>7. Counted(v)
    BY <1>2, <1>3, <2>1, <2>2, <2>3, <2>5, <2>6 DEF Counted, Held
  <2>8. Counted(Left(v)) /\ Left(v).kind = w.kind /\ Left(v).pane = w.pane
    BY <2>1, <2>5, <2>7, LeftKeeps
  <2> QED
    BY <2>1, <2>4, <2>8, ThreadKeeps
<1>9. CASE WriterTells(g)
  <2>1. ASSUME NEW x \in {"idle", "ended"}, w.writer \in {"drained", "failed"}
        PROVE  LET v == [w EXCEPT !.writer = x]
               IN  Counted(v) /\ v.kind = w.kind /\ v.pane = w.pane
    <3> DEFINE v == [w EXCEPT !.writer = x]
    <3>1. v \in Worker /\ v.kind = w.kind /\ v.pane = w.pane /\ v.bytes = w.bytes
          /\ v.queue = w.queue /\ v.closed = w.closed /\ v.writer = x
          /\ v.reader = w.reader /\ v.reaper = w.reaper
      BY <1>2, <2>1 DEF Worker
    <3> HIDE DEF v
    <3>2. Counted(v)
      BY <1>2, <2>1, <3>1 DEF Counted, Held
    <3> QED
      BY <3>1, <3>2 DEF v
  <2>2. w.kind # "none" /\ w.writer \in {"drained", "failed"}
        /\ \E kind \in EventKinds : Send(kind, g)
    BY <1>2, <1>9 DEF WriterTells, Counted, Of, EventKinds
  <2>3. CASE Thread(g, Left([w EXCEPT !.writer = "idle"]))
    <3> DEFINE v == [w EXCEPT !.writer = "idle"]
    <3>1. Counted(v) /\ v.kind = w.kind /\ v.pane = w.pane
      BY <2>1, <2>2
    <3>2. Thread(g, Left(v))
      BY <2>3
    <3> HIDE DEF v
    <3> QED
      BY <2>2, <3>1, <3>2, LeftKeeps, ThreadKeeps
  <2>4. CASE Thread(g, [w EXCEPT !.writer = "ended"])
    <3> DEFINE v == [w EXCEPT !.writer = "ended"]
    <3>1. Counted(v) /\ v.kind = w.kind /\ v.pane = w.pane
      BY <2>1, <2>2
    <3>2. Thread(g, v)
      BY <2>4
    <3> HIDE DEF v
    <3> QED
      BY <2>2, <3>1, <3>2, ThreadKeeps
  <2> QED
    BY <1>9, <2>3, <2>4 DEF WriterTells
<1> QED
  BY <1>1, <1>4, <1>5, <1>6, <1>7, <1>8, <1>9

-----------------------------------------------------------------------------
(* The invariant and what follows from it *)

LEMMA InvInit ==
  ASSUME Init
  PROVE  Inv
<1>1. PICK g0 \in Gens : g0 = 1
  BY ProcessAssumption DEF Gens
<1>2. NoWorker \in Worker /\ NoWorker.kind = "none" /\ ~NoWorker.reaper /\ ~NoWorker.reader
      /\ NoWorker.writer = "none" /\ NoWorker.queue = 0 /\ NoWorker.bytes = 0
  BY DEF NoWorker, Worker
<1>3. Counted(NoWorker)
  BY <1>2, ProcessAssumption DEF Counted, Held
<1>4. NoSlot \in Slot /\ NoSlot.pane = "none" /\ NoSlot.gen = 0 /\ NoSlot.pipe = 0
      /\ ~NoSlot.input /\ ~NoSlot.output /\ ~NoSlot.waiter /\ NoSlot.screen = {}
  BY DEF NoSlot, Slot
<1>5. Refers(NoSlot, work) /\ Settled(NoSlot)
  BY <1>1, <1>4 DEF Refers, Settled
<1>6. Children(work, next)
  BY <1>2, <1>3 DEF Init, Children
<1>7. Signed
  BY DEF Init, Signed
<1> QED
  BY <1>4, <1>5, <1>6, <1>7, ProcessAssumption DEF Init, Inv

LEMMA InvNext ==
  ASSUME Inv, [Next]_vars
  PROVE  Inv'
<1>1. CASE Next
  BY <1>1, CommandKeeps, HandleEventKeeps, ThreadsKeep DEF Next
<1>2. CASE UNCHANGED vars
  BY <1>2 DEF vars, Inv, Children, Signed
<1> QED
  BY <1>1, <1>2

\* The invariant that the handlers keep: what a pane, a pipe or an event refers
\* to is there, and of the kind it should be (spawn, finish_process, close_pipe).
THEOREM Invariance == Spec => []Inv
  BY InvInit, InvNext, PTL DEF Spec

LEMMA InvTypes ==
  ASSUME Inv
  PROVE  TypeOK
<1>1. \A g \in Gens : work[g].bytes <= Of(g, InputLimit, PipeLimit)
  BY DEF Inv, Children, Counted, Of
<1> QED
  BY <1>1 DEF Inv, Children, Signed, TypeOK

\* Types hold, what is queued stays within its budget and events name the child
\* that sent them, for any capacities (try_write_input, pane_output).
THEOREM TypesHold == Spec => []TypeOK
  BY Invariance, InvTypes, PTL

\* No interleaving of the owner and the writers of processes and pipes makes a
\* counter of input or piped output leak (input_bytes, PipeProcess::bytes).
THEOREM CountersAreExact == Spec => []CounterExact
<1>1. Inv => CounterExact
  BY DEF Inv, Children, Counted, Held, CounterExact
<1> QED
  BY <1>1, Invariance, PTL

\* After every handler the engine's panes agree with the processes, pipes and
\* waiting commands the owner keeps (execute, finish_process, input_failed).
THEOREM TablesAgree == Spec => []PanesMatchProcesses
<1>1. Inv => PanesMatchProcesses
  BY DEF Inv, Settled, PanesMatchProcesses, AliveHasProcess, RemovedLeavesNothing
<1> QED
  BY <1>1, Invariance, PTL

\* However late a reader is, its output never reaches the terminal of the next
\* process of the pane (is_process).
THEOREM ScreensAreOfOneProcess == Spec => []ScreenIsOfOneProcess
<1>1. Inv => ScreenIsOfOneProcess
  BY DEF Inv, Refers, ScreenIsOfOneProcess
<1> QED
  BY <1>1, Invariance, PTL

-----------------------------------------------------------------------------
(* The children of pipes                                                    *)

\* From a to b the pipe of the pane stays, or joins the retired ones.
Piped(a, b) ==
  \/ b.slot.pipe = a.slot.pipe /\ b.retired = a.retired
  \/ b.slot.pipe = 0 /\ b.retired = a.retired \union ({a.slot.pipe} \ {0})

LEMMA PipedTwice ==
  ASSUME NEW a, NEW b, NEW c, Piped(a, b), Piped(b, c)
  PROVE  Piped(a, c)
  BY DEF Piped

LEMMA WaitCompletePiped ==
  ASSUME NEW n \in Nat, NEW o, Linked(o, n)
  PROVE  Piped(o, WaitComplete(o))
<1>1. o \in Owner /\ o.slot \in Slot
  BY DEF Linked, Owner
<1> QED
  BY <1>1 DEF WaitComplete, Owner, Slot, Piped

LEMMA ClosePipePiped ==
  ASSUME NEW n \in Nat, NEW o, Linked(o, n)
  PROVE  Piped(o, ClosePipe(o))
<1>1. o \in Owner /\ o.slot \in Slot
  BY DEF Linked, Owner
<1>2. CASE o.slot.pipe = 0
  BY <1>2 DEF ClosePipe, Piped
<1>3. CASE o.slot.pipe # 0
  <2>1. ClosePipe(o).retired = o.retired \union {o.slot.pipe}
    BY <1>1, <1>3 DEF ClosePipe, Owner
  <2>2. ClosePipe(o).slot.pipe = 0
    BY ClosePipeKeeps
  <2> QED
    BY <1>3, <2>1, <2>2 DEF Piped
<1> QED
  BY <1>2, <1>3

LEMMA DropProcessPiped ==
  ASSUME NEW n \in Nat, NEW o, Linked(o, n)
  PROVE  Piped(o, DropProcess(o))
<1>1. o \in Owner
  BY DEF Linked
<1>2. DropProcess(o).retired = o.retired
  BY <1>1 DEF DropProcess, Owner
<1>3. DropProcess(o).slot.pipe = o.slot.pipe
  BY DropProcessKeeps
<1> QED
  BY <1>2, <1>3 DEF Piped

LEMMA PanePiped ==
  ASSUME NEW n \in Nat, NEW o, Linked(o, n), NEW status
  PROVE  Piped(o, [o EXCEPT !.slot.pane = status])
<1>1. o \in Owner /\ o.slot \in Slot
  BY DEF Linked, Owner
<1> QED
  BY <1>1 DEF Owner, Slot, Piped

LEMMA RemovePiped ==
  ASSUME NEW n \in Nat, NEW o, Linked(o, n)
  PROVE  Piped(o, Remove(o))
<1> DEFINE w == WaitComplete(o)
           c == ClosePipe(w)
           d == DropProcess(c)
<1>1. Linked(w, n) /\ Piped(o, w)
  BY WaitCompleteKeeps, WaitCompletePiped
<1> HIDE DEF w
<1>2. Linked(c, n) /\ Piped(w, c)
  BY <1>1, ClosePipeKeeps, ClosePipePiped
<1> HIDE DEF c
<1>3. Linked(d, n) /\ Piped(c, d)
  BY <1>2, DropProcessKeeps, DropProcessPiped
<1> HIDE DEF d
<1>4. Piped(d, [d EXCEPT !.slot.pane = "gone"])
  BY <1>3, PanePiped
<1>5. Remove(o) = [d EXCEPT !.slot.pane = "gone"]
  BY DEF Remove, d, c, w
<1>6. Piped(d, Remove(o))
  BY <1>4, <1>5
<1> QED
  BY <1>1, <1>2, <1>3, <1>6, PipedTwice

LEMMA ExitedPiped ==
  ASSUME NEW n \in Nat, NEW o, Linked(o, n), NEW remain \in BOOLEAN
  PROVE  Piped(o, Exited(o, remain))
<1>1. CASE remain
  BY <1>1, PanePiped DEF Exited
<1>2. CASE ~remain
  BY <1>2, RemovePiped DEF Exited
<1> QED
  BY <1>1, <1>2

LEMMA InputFailedPiped ==
  ASSUME NEW n \in Nat, NEW o, Linked(o, n), NEW remain \in BOOLEAN
  PROVE  Piped(o, InputFailed(o, remain))
<1>1. CASE o.slot.gen = 0
  BY <1>1 DEF InputFailed, Piped
<1>2. CASE o.slot.gen # 0
  <2>1. Linked(DropProcess(o), n) /\ Piped(o, DropProcess(o))
    BY DropProcessKeeps, DropProcessPiped
  <2>2. Piped(DropProcess(o), Exited(DropProcess(o), remain))
    BY <2>1, ExitedPiped
  <2> QED
    BY <1>2, <2>1, <2>2, PipedTwice DEF InputFailed
<1> QED
  BY <1>1, <1>2

LEMMA WritePiped ==
  ASSUME NEW n \in Nat, NEW o, Linked(o, n)
  PROVE  Piped(o, Write(o))
<1>1. o \in Owner
  BY DEF Linked
<1>2. Write(o).retired = o.retired
  BY <1>1 DEF Write, Owner
<1> QED
  BY <1>2, WriteKeeps DEF Piped

LEMMA ToPipePiped ==
  ASSUME NEW n \in Nat, NEW o, Linked(o, n)
  PROVE  Piped(o, ToPipe(o))
<1>1. o \in Owner
  BY DEF Linked
<1>2. CASE ToPipe(o) \in {o, ClosePipe(o)}
  BY <1>2, ClosePipePiped DEF Piped
<1>3. CASE ToPipe(o) \notin {o, ClosePipe(o)}
  <2>1. ToPipe(o) = [o EXCEPT !.work[o.slot.pipe].queue = @ + 1,
                              !.work[o.slot.pipe].bytes = @ + 1]
    BY <1>3 DEF ToPipe
  <2>2. ToPipe(o).retired = o.retired /\ ToPipe(o).slot = o.slot
    BY <1>1, <2>1 DEF Owner
  <2> QED
    BY <2>2 DEF Piped
<1> QED
  BY <1>2, <1>3

LEMMA PaneOutputPiped ==
  ASSUME NEW n \in Nat, NEW o, Linked(o, n), Settled(o.slot),
         NEW reply \in BOOLEAN, NEW remain \in BOOLEAN
  PROVE  Piped(o, PaneOutput(o, reply, remain))
<1> DEFINE t == ToPipe(o)
<1>1. Linked(t, n) /\ Piped(o, t)
  BY ToPipeSettles, ToPipePiped
<1>2. PaneOutput(o, reply, remain) \in {t, Write(t), InputFailed(t, remain)}
  BY DEF PaneOutput
<1> HIDE DEF t
<1>3. Piped(t, PaneOutput(o, reply, remain))
  BY <1>1, <1>2, WritePiped, InputFailedPiped DEF Piped
<1> QED
  BY <1>1, <1>3, PipedTwice

LEMMA FinishPiped ==
  ASSUME NEW n \in Nat, NEW o, Linked(o, n), NEW remain \in BOOLEAN
  PROVE  Piped(o, Finish(o, remain))
<1>1. CASE Pending(o) \/ ~Ended(o.slot)
  BY <1>1 DEF Finish, Piped
<1>2. CASE ~(Pending(o) \/ ~Ended(o.slot))
  <2> DEFINE g == o.slot.gen
             w == [o.work[g] EXCEPT !.finished = TRUE]
             f == [o EXCEPT !.work[g].finished = TRUE]
             d == DropProcess(f)
             c == ClosePipe(d)
  <2>1. o \in Owner /\ g \in Gens /\ Counted(o.work[g]) /\ o.work[g] \in Worker
    BY <1>2 DEF Linked, Owner, Refers, Children, Ended, Counted
  <2>2. w \in Worker /\ w.kind = o.work[g].kind /\ w.pane = o.work[g].pane
        /\ w.queue = o.work[g].queue /\ w.bytes = o.work[g].bytes
        /\ w.writer = o.work[g].writer /\ w.closed = o.work[g].closed
        /\ w.reaper = o.work[g].reaper /\ w.reader = o.work[g].reader
    BY <2>1 DEF Worker
  <2>3. Counted(w)
    <3> HIDE DEF w
    <3> QED
      BY <2>1, <2>2 DEF Counted, Held
  <2>4. f = [o EXCEPT !.work[g] = w] /\ f.slot = o.slot /\ f.retired = o.retired
    BY <2>1 DEF Owner
  <2>5. Linked(f, n) /\ Piped(o, f)
    <3> HIDE DEF w, f
    <3> QED
      BY <2>1, <2>2, <2>3, <2>4, ReplaceKeeps DEF Piped
  <2> HIDE DEF f
  <2>6. Linked(d, n) /\ Piped(f, d)
    BY <2>5, DropProcessKeeps, DropProcessPiped
  <2> HIDE DEF d
  <2>7. Linked(c, n) /\ Piped(d, c)
    BY <2>6, ClosePipeKeeps, ClosePipePiped
  <2>8. Finish(o, remain) = Exited(c, remain)
    BY <1>2 DEF Finish, c, d, f
  <2> HIDE DEF c
  <2>9. Piped(c, Finish(o, remain))
    BY <2>7, <2>8, ExitedPiped
  <2> QED
    BY <2>5, <2>6, <2>7, <2>9, PipedTwice
<1> QED
  BY <1>1, <1>2

LEMMA EmptiedPiped ==
  ASSUME NEW n \in Nat, NEW o, Linked(o, n)
  PROVE  Piped(o, Emptied(o))
<1> DEFINE d == DropProcess(o)
<1>1. Linked(d, n) /\ Piped(o, d)
  BY DropProcessKeeps, DropProcessPiped
<1>2. Emptied(o) = [d EXCEPT !.slot.pane = "empty", !.slot.screen = {}]
  BY DEF Emptied
<1> HIDE DEF d
<1>3. d \in Owner /\ d.slot \in Slot
  BY <1>1 DEF Linked, Owner
<1>4. Piped(d, Emptied(o))
  BY <1>2, <1>3, ZenonT(120) DEF Owner, Slot, Piped
<1> QED
  BY <1>1, <1>4, PipedTwice

LEMMA SpawnedPiped ==
  ASSUME Inv, NEW o, Linked(o, next), NEW p \in Panes
  PROVE  Piped(o, Spawned(o, p))
<1> DEFINE d == DropProcess(o)
           w == NewWorker("process", p, TRUE, TRUE)
<1>1. Linked(d, next) /\ Piped(o, d)
  BY DropProcessKeeps, DropProcessPiped DEF Inv
<1>2. Spawned(o, p) = [d EXCEPT !.slot.pane = "alive", !.slot.gen = next, !.slot.screen = {},
                                !.work[next] = w]
  BY DEF Spawned
<1> HIDE DEF d, w
<1>3. d \in Owner /\ d.slot \in Slot
  BY <1>1 DEF Linked, Owner
<1> DEFINE s == [d.slot EXCEPT !.pane = "alive", !.gen = next, !.screen = {}]
<1>4. Spawned(o, p).retired = d.retired /\ Spawned(o, p).slot.pipe = d.slot.pipe
  <2>1. Spawned(o, p) = [d EXCEPT !.slot = s, !.work[next] = w]
    BY <1>2, <1>3 DEF Owner
  <2>2. s.pipe = d.slot.pipe
    BY <1>3 DEF Slot
  <2> HIDE DEF s
  <2> QED
    BY <1>3, <2>1, <2>2 DEF Owner
<1>5. Piped(d, Spawned(o, p))
  BY <1>4 DEF Piped
<1> QED
  BY <1>1, <1>5, PipedTwice

\* The children of pipes: retired, or of a pane
Piping == {p \in Panes : slot[p].pipe # 0}

InvPipes == Cardinality(retired) + Cardinality(Piping) <= RetiredLimit - 1 + Cardinality(Panes)

LEMMA PipesFinite ==
  ASSUME Inv
  PROVE  /\ IsFiniteSet(Panes) /\ IsFiniteSet(Gens)
         /\ IsFiniteSet(retired) /\ IsFiniteSet(Piping)
         /\ Cardinality(retired) \in Nat /\ Cardinality(Piping) \in Nat
         /\ Cardinality(Panes) \in Nat /\ RetiredLimit \in Nat \ {0}
<1>1. IsFiniteSet(Panes) /\ RetiredLimit \in Nat \ {0} /\ 1 \in Int /\ MaxGen \in Int
  BY ProcessAssumption
<1>2. IsFiniteSet(Gens)
  BY <1>1, FS_Interval DEF Gens
<1>3. IsFiniteSet(retired) /\ IsFiniteSet(Piping)
  BY <1>1, <1>2, FS_Subset DEF Inv, Piping
<1> QED
  BY <1>1, <1>2, <1>3, FS_CardinalityType

\* A pipe that closes goes from one count to the other.
LEMMA PipedKeeps ==
  ASSUME Inv, InvPipes, NEW p \in Panes, NEW o, Piped(At(p), o),
         slot' = [slot EXCEPT ![p] = o.slot], retired' \subseteq o.retired,
         o.retired \subseteq Gens
  PROVE  InvPipes'
<1>1. /\ IsFiniteSet(retired) /\ IsFiniteSet(Piping) /\ IsFiniteSet(Gens)
      /\ Cardinality(retired) \in Nat /\ Cardinality(Piping) \in Nat
      /\ Cardinality(Panes) \in Nat /\ RetiredLimit \in Nat \ {0}
  BY PipesFinite
<1>2. At(p).slot = slot[p] /\ At(p).retired = retired
  BY AtSettled
<1>3. \A q \in Panes : slot'[q] = IF q = p THEN o.slot ELSE slot[q]
  BY DEF Inv
<1>4. IsFiniteSet(o.retired) /\ Cardinality(o.retired) \in Nat
      /\ IsFiniteSet(retired') /\ Cardinality(retired') \in Nat
      /\ Cardinality(retired') <= Cardinality(o.retired)
  BY <1>1, FS_Subset, FS_CardinalityType
<1>5. CASE o.slot.pipe = slot[p].pipe /\ o.retired = retired
  <2>1. Piping' = Piping
    BY <1>3, <1>5 DEF Piping
  <2> QED
    BY <1>1, <1>4, <1>5, <2>1 DEF InvPipes
<1>6. CASE slot[p].pipe # 0 /\ o.slot.pipe = 0 /\ o.retired = retired \union {slot[p].pipe}
  <2>1. Piping' = Piping \ {p} /\ p \in Piping
    BY <1>3, <1>6 DEF Piping
  <2>2. Cardinality(Piping') = Cardinality(Piping) - 1
    BY <1>1, <2>1, FS_RemoveElement
  <2>3. Cardinality(o.retired) <= Cardinality(retired) + 1
    <3>1. CASE slot[p].pipe \in retired
      <4>1. o.retired = retired
        BY <1>6, <3>1
      <4> QED
        BY <1>1, <4>1
    <3>2. CASE slot[p].pipe \notin retired
      <4>1. Cardinality(retired \union {slot[p].pipe}) = Cardinality(retired) + 1
        BY <1>1, <3>2, FS_AddElement
      <4> QED
        BY <1>1, <1>6, <4>1
    <3> QED
      BY <3>1, <3>2
  <2> QED
    BY <1>1, <1>4, <2>2, <2>3 DEF InvPipes
<1> QED
  BY <1>2, <1>5, <1>6 DEF Piped

LEMMA CommitPiped ==
  ASSUME Inv, InvPipes, NEW p \in Panes, NEW n \in Nat, NEW o, Linked(o, n), Piped(At(p), o),
         Commit(p, o)
  PROVE  InvPipes'
<1>1. o.retired \subseteq Gens
  BY DEF Linked, Owner
<1> QED
  BY <1>1, PipedKeeps DEF Commit

LEMMA StillPiped ==
  ASSUME InvPipes, UNCHANGED slot, retired' \subseteq retired, Inv
  PROVE  InvPipes'
<1>1. /\ IsFiniteSet(retired) /\ Cardinality(retired) \in Nat
      /\ Cardinality(Piping) \in Nat /\ Cardinality(Panes) \in Nat
      /\ RetiredLimit \in Nat \ {0}
  BY PipesFinite
<1>2. Cardinality(retired') \in Nat /\ Cardinality(retired') <= Cardinality(retired)
  BY <1>1, FS_Subset, FS_CardinalityType
<1>3. Piping' = Piping
  BY DEF Piping
<1> QED
  BY <1>1, <1>2, <1>3 DEF InvPipes

LEMMA PipeOnPiped ==
  ASSUME Inv, InvPipes, NEW p \in Panes, NEW input \in BOOLEAN, NEW output \in BOOLEAN,
         PipeOn(p, input, output)
  PROVE  InvPipes'
<1> DEFINE c == ClosePipe(At(p))
           o == [c EXCEPT !.retired = Reaped(@)]
           w == NewWorker("pipe", p, input, output)
           r == [o EXCEPT !.slot.pipe = next, !.slot.input = input, !.slot.output = output,
                          !.work[next] = w]
<1>1. Linked(At(p), next) /\ next \in Nat
  BY AtSettled
<1>2. Linked(c, next) /\ Piped(At(p), c)
  BY <1>1, ClosePipeKeeps, ClosePipePiped
<1> HIDE DEF w
<1>3. CASE Commit(p, o)
  <2> HIDE DEF c
  <2>1. c \in Owner /\ o.slot = c.slot /\ o.retired = Reaped(c.retired)
    BY <1>2 DEF Linked, Owner
  <2>2. o.retired \subseteq c.retired /\ c.retired \subseteq Gens
    BY <2>1 DEF Reaped, Owner
  <2> HIDE DEF o
  <2> QED
    BY <1>2, <1>3, <2>1, <2>2, PipedKeeps DEF Commit
<1>4. CASE MayPipe(c) /\ Commit(p, r)
  <2>1. r.retired = Reaped(c.retired)
    <3> HIDE DEF c
    <3>1. c \in Owner
      BY <1>2 DEF Linked
    <3>2. o.retired = Reaped(c.retired)
      BY <3>1 DEF Owner
    <3> QED
      BY <3>1, <3>2 DEF Owner
  <2>2. retired' = Reaped(c.retired) /\ Cardinality(Reaped(c.retired)) < RetiredLimit
    BY <1>4, <2>1 DEF Commit, MayPipe
  <2>3. Reaped(c.retired) \subseteq Gens
    BY <1>2 DEF Linked, Owner, Reaped
  <2> HIDE DEF c
  <2>4. IsFiniteSet(Gens) /\ IsFiniteSet(Panes) /\ Cardinality(Panes) \in Nat
        /\ RetiredLimit \in Nat \ {0}
    BY PipesFinite
  <2>5. Cardinality(retired') \in Nat /\ Cardinality(retired') <= RetiredLimit - 1
    BY <2>2, <2>3, <2>4, FS_Subset, FS_CardinalityType
  <2>6. Piping' \subseteq Panes
    BY DEF Piping
  <2>7. Cardinality(Piping') \in Nat /\ Cardinality(Piping') <= Cardinality(Panes)
    BY <2>4, <2>6, FS_Subset, FS_CardinalityType
  <2> QED
    BY <2>4, <2>5, <2>7 DEF InvPipes
<1> QED
  BY <1>3, <1>4 DEF PipeOn, w

LEMMA CommandPiped ==
  ASSUME Inv, InvPipes, Command
  PROVE  InvPipes'
<1>1. CASE ReapPipes
  BY <1>1, StillPiped DEF ReapPipes, Reaped
<1>2. ASSUME NEW p \in Panes, NEW wait \in BOOLEAN, NewPane(p, wait)
      PROVE  InvPipes'
  <2> DEFINE s == [slot[p] EXCEPT !.waiter = wait]
             o == [At(p) EXCEPT !.slot.waiter = wait]
  <2>1. Linked(At(p), next) /\ At(p).slot = slot[p] /\ next \in Nat
    BY AtSettled
  <2>2. slot[p] \in Slot /\ At(p) \in Owner
    BY <2>1 DEF Linked, Owner
  <2>3. s \in Slot /\ s.gen = slot[p].gen /\ s.pipe = slot[p].pipe /\ s.screen = slot[p].screen
        /\ s.input = slot[p].input /\ s.output = slot[p].output
    BY <2>2 DEF Slot
  <2>4. o = [At(p) EXCEPT !.slot = s]
    BY <2>1, <2>2 DEF Owner
  <2> HIDE DEF s
  <2>5. Linked(o, next)
    <3>1. Refers(s, At(p).work)
      BY <2>1, <2>3 DEF Linked, Refers
    <3> HIDE DEF o
    <3> QED
      BY <2>1, <2>4, <3>1, SlotKeeps
  <2>6. Piped(At(p), o)
    BY <2>1, <2>2, <2>3, <2>4 DEF Owner, Piped
  <2>7. Commit(p, Spawned(o, p)) \/ UNCHANGED <<slot, retired>> \/ Commit(p, Emptied(o))
    BY <1>2 DEF NewPane
  <2> HIDE DEF o
  <2>8. Piped(At(p), Spawned(o, p)) /\ Piped(At(p), Emptied(o))
    BY <2>1, <2>5, <2>6, SpawnedPiped, EmptiedPiped, PipedTwice
  <2>9. Linked(Spawned(o, p), next + 1) /\ Linked(Emptied(o), next) /\ next + 1 \in Nat
    BY <2>1, <2>5, SpawnedSettles, EmptiedSettles DEF Inv
  <2> QED
    BY <2>1, <2>7, <2>8, <2>9, CommitPiped, StillPiped
<1>3. ASSUME NEW p \in Panes, Respawn(p)
      PROVE  InvPipes'
  <2>1. Linked(At(p), next) /\ next \in Nat /\ next + 1 \in Nat
    BY AtSettled
  <2>2. Commit(p, Spawned(At(p), p)) \/ Commit(p, At(p)) \/ Commit(p, Emptied(At(p)))
    BY <1>3 DEF Respawn, RespawnFails
  <2>3. Piped(At(p), At(p))
    BY DEF Piped
  <2>4. Linked(Spawned(At(p), p), next + 1) /\ Linked(Emptied(At(p)), next)
    BY <2>1, SpawnedSettles, EmptiedSettles DEF Inv
  <2> QED
    BY <2>1, <2>2, <2>3, <2>4, SpawnedPiped, EmptiedPiped, CommitPiped
<1>4. ASSUME NEW p \in Panes, KillPane(p) \/ SendKeys(p) \/ FeedStdin(p) \/ PipeOff(p)
      PROVE  InvPipes'
  <2>1. Linked(At(p), next) /\ Settled(At(p).slot) /\ next \in Nat
    BY AtSettled
  <2>2. CASE KillPane(p)
    BY <2>1, <2>2, RemoveSettles, RemovePiped, CommitPiped DEF KillPane
  <2>3. CASE SendKeys(p)
    BY <2>1, <2>3, WriteKeeps, WritePiped, CommitPiped DEF SendKeys
  <2>4. CASE FeedStdin(p)
    BY <2>1, <2>4, PaneOutputSettles, PaneOutputPiped, CommitPiped DEF FeedStdin
  <2>5. CASE PipeOff(p)
    BY <2>1, <2>5, ClosePipeKeeps, ClosePipePiped, CommitPiped DEF PipeOff
  <2> QED
    BY <1>4, <2>2, <2>3, <2>4, <2>5
<1> QED
  BY <1>1, <1>2, <1>3, <1>4, PipeOnPiped DEF Command

LEMMA HandleEventPiped ==
  ASSUME Inv, InvPipes, HandleEvent
  PROVE  InvPipes'
<1>1. PICK p \in Panes, g \in Gens :
        \/ HandleOutput(p, g) \/ HandleReadClosed(p, g) \/ HandleExited(p, g)
        \/ HandleInputFailed(p, g)
        \/ HandlePipeInput(p, g) \/ HandlePipeClosed(p, g) \/ HandlePipeExited(p, g)
        \/ HandlePipeDrained(p, g)
  BY DEF HandleEvent
<1> DEFINE a == At(p)
<1>2. Linked(a, next) /\ Settled(a.slot) /\ next \in Nat /\ a \in Owner /\ a.slot \in Slot
      /\ a.slot = slot[p]
  BY AtSettled DEF Linked, Owner
<1>3. ASSUME Ignore
      PROVE  InvPipes'
  BY <1>3, StillPiped DEF Ignore
<1>4. ASSUME NEW o, Linked(o, next), Piped(a, o), Commit(p, o)
      PROVE  InvPipes'
  BY <1>2, <1>4, CommitPiped
<1>5. ASSUME NEW o, Linked(o, next), Piped(a, o), NEW remain \in BOOLEAN, Settled(o.slot),
             Commit(p, Finish(o, remain))
      PROVE  InvPipes'
  <2>1. Piped(a, Finish(o, remain))
    BY <1>2, <1>5, FinishPiped, PipedTwice
  <2> QED
    BY <1>2, <1>4, <1>5, <2>1, FinishSettles
<1>6. Linked(ClosePipe(a), next) /\ Settled(ClosePipe(a).slot) /\ Piped(a, ClosePipe(a))
  BY <1>2, ClosedSettles, ClosePipePiped
<1>7. CASE HandleOutput(p, g)
  <2> DEFINE o == [a EXCEPT !.slot.screen = @ \union {g}, !.work[g].shown = @ + 1]
  <2>1. CASE ~IsProcess(p, g)
    BY <1>3, <1>7, <2>1 DEF HandleOutput
  <2>2. CASE IsProcess(p, g)
    <3>1. Linked(o, next) /\ Settled(o.slot)
      BY <2>2, ShownKeeps
    <3>2. PICK reply \in BOOLEAN, remain \in BOOLEAN : Commit(p, PaneOutput(o, reply, remain))
      BY <1>7, <2>2 DEF HandleOutput
    <3>3. Piped(a, o)
      <4> DEFINE s == [a.slot EXCEPT !.screen = @ \union {g}]
      <4>1. o = [a EXCEPT !.slot = s, !.work[g].shown = @ + 1]
        BY <1>2 DEF Owner
      <4>2. s.pipe = a.slot.pipe
        BY <1>2 DEF Slot
      <4> HIDE DEF s, a
      <4>3. o.slot = s /\ o.retired = a.retired
        BY <1>2, <4>1 DEF Owner
      <4> QED
        BY <4>2, <4>3 DEF Piped
    <3> HIDE DEF o
    <3>4. Piped(o, PaneOutput(o, reply, remain))
      BY <1>2, <3>1, PaneOutputPiped
    <3>5. Linked(PaneOutput(o, reply, remain), next)
      BY <1>2, <3>1, PaneOutputSettles
    <3>6. Piped(a, PaneOutput(o, reply, remain))
      BY <3>3, <3>4, PipedTwice
    <3> QED
      BY <1>4, <3>2, <3>5, <3>6
  <2> QED
    BY <2>1, <2>2
<1>8. CASE HandleReadClosed(p, g)
  <2> DEFINE o == [a EXCEPT !.slot.eof = TRUE]
  <2>1. Linked(o, next) /\ Settled(o.slot)
    BY NotedKeeps
  <2>2. Ignore \/ \E remain \in BOOLEAN : Commit(p, Finish(o, remain))
    BY <1>8 DEF HandleReadClosed
  <2>3. Piped(a, o)
    BY <1>2 DEF Owner, Slot, Piped
  <2> HIDE DEF o
  <2> QED
    BY <1>3, <1>5, <2>1, <2>2, <2>3
<1>9. CASE HandleExited(p, g)
  <2> DEFINE w == WaitComplete(a)
             o == [w EXCEPT !.slot.exited = TRUE]
  <2>1. Linked(o, next) /\ Settled(o.slot)
    BY NotedKeeps
  <2>2. Ignore \/ \E remain \in BOOLEAN : Commit(p, Finish(o, remain))
    BY <1>9 DEF HandleExited
  <2>3. Linked(w, next) /\ Piped(a, w)
    BY <1>2, WaitCompleteKeeps, WaitCompletePiped
  <2> HIDE DEF w
  <2>4. w \in Owner /\ w.slot \in Slot
    BY <2>3 DEF Linked, Owner
  <2>5. Piped(w, o)
    BY <2>4 DEF Owner, Slot, Piped
  <2> HIDE DEF o
  <2>6. Piped(a, o)
    BY <2>3, <2>5, PipedTwice
  <2> QED
    BY <1>3, <1>5, <2>1, <2>2, <2>6
<1>10. CASE HandleInputFailed(p, g)
  BY <1>2, <1>3, <1>4, <1>10, InputFailedSettles, InputFailedPiped DEF HandleInputFailed
<1>11. CASE HandlePipeInput(p, g)
  <2>1. Ignore \/ Commit(p, Write(a)) \/ Commit(p, ClosePipe(a))
    BY <1>11 DEF HandlePipeInput
  <2> QED
    BY <1>2, <1>3, <1>4, <1>6, <2>1, WriteKeeps, WritePiped
<1>12. CASE HandlePipeClosed(p, g) \/ HandlePipeExited(p, g)
  <2>1. Ignore \/ \E remain \in BOOLEAN : Commit(p, Finish(ClosePipe(a), remain))
    BY <1>12 DEF HandlePipeClosed, HandlePipeExited
  <2> QED
    BY <1>3, <1>5, <1>6, <2>1
<1>13. CASE HandlePipeDrained(p, g)
  <2>1. Piped(a, a)
    BY DEF Piped
  <2> QED
    BY <1>2, <1>5, <1>13, <2>1 DEF HandlePipeDrained
<1> QED
  BY <1>1, <1>7, <1>8, <1>9, <1>10, <1>11, <1>12, <1>13

\* Turning pipes on and off leaves a bounded number of children, whatever the
\* limit, the panes and the speed at which children end (reap_pipes, pipe_pane).
THEOREM PipesAreBounded == Spec => []PipeChildrenBounded
<1>1. ASSUME Init
      PROVE  InvPipes
  <2>1. retired = {} /\ Piping = {}
    BY <1>1 DEF Init, Piping, NoSlot
  <2>2. Cardinality(Panes) \in Nat /\ RetiredLimit \in Nat \ {0}
    BY ProcessAssumption, FS_CardinalityType
  <2> QED
    BY <2>1, <2>2, FS_EmptySet DEF InvPipes
<1>2. ASSUME Inv, InvPipes, [Next]_vars
      PROVE  InvPipes'
  <2>1. CASE Threads
    <3>1. slot' = slot /\ retired' = retired
      BY <2>1 DEF Threads, Reap, Read, ReadEnds, WriterTakes, WriterTells, WriterWrote, Thread
    <3> QED
      BY <1>2, <3>1, StillPiped
  <2>2. CASE UNCHANGED vars
    BY <1>2, <2>2, StillPiped DEF vars
  <2> QED
    BY <1>2, <2>1, <2>2, CommandPiped, HandleEventPiped DEF Next
<1>3. InvPipes => PipeChildrenBounded
  BY DEF InvPipes, Piping, PipeChildrenBounded
<1> QED
  BY <1>1, <1>2, <1>3, Invariance, PTL DEF Spec

-----------------------------------------------------------------------------
(***************************************************************************)
(* A pane that closes in order shows everything its process wrote: the     *)
(* proof, on top of the invariant above.                                   *)
(*                                                                         *)
(* What a child has written and the terminal has not been fed is in the    *)
(* owner's event channel, and only there.  The end of the output is sent   *)
(* behind it and the exit after the child ended, each by its own thread,   *)
(* so that finish_process, which waits for both, finds nothing unread.     *)
(*                                                                         *)
(* Faithful(o, ev, p) says so of the owner's view o of pane p, and that o  *)
(* left the children of other panes alone.  Each operator of a handler     *)
(* keeps it (Traced), Finish by the argument above, and CommitTraces takes *)
(* the view of a handler's result to the next state.                       *)
(***************************************************************************)

\* Where the output of a generation waits in the channel
Waiting(ev, g) == {i \in 1 .. Len(ev) : ev[i].kind = "output" /\ ev[i].gen = g}

\* What a child reported is so, and nothing follows the end of its output.
Reported(w, ev, g) ==
  \A i \in 1 .. Len(ev) : ev[i].gen = g =>
    /\ ev[i].kind = "exited" => ~w.reaper
    /\ ev[i].kind = "readClosed" => ~w.reader /\ \A j \in Waiting(ev, g) : j < i

\* A child whose pane closed in order is shown in full, and is no more.
Complete(w) == w.finished => w.shown = w.made /\ ~w.reader /\ ~w.reaper

\* A process of a pane: its output is on the terminal or in the channel, and
\* what the owner noted of it is so.
Follows(s, work_, ev, p) ==
  /\ s.gen = 0 => ~s.eof /\ ~s.exited
  /\ s.gen # 0 =>
       /\ work_[s.gen].pane = p /\ ~work_[s.gen].finished
       /\ work_[s.gen].shown + Cardinality(Waiting(ev, s.gen)) = work_[s.gen].made
       /\ s.eof => ~work_[s.gen].reader /\ Waiting(ev, s.gen) = {}
       /\ s.exited => ~work_[s.gen].reaper

\* The children and all panes, were ev in the channel
ChildrenTrue(work_, ev) == \A g \in Gens : Complete(work_[g]) /\ Reported(work_[g], ev, g)

Trace(ev) == ChildrenTrue(work, ev) /\ \A p \in Panes : Follows(slot[p], work, ev, p)

InvTrace == Trace(events)

\* What the trace of a child depends on
Alike(v, w) ==
  /\ w.pane = v.pane /\ w.made = v.made /\ w.shown = v.shown
  /\ w.reader = v.reader /\ w.reaper = v.reaper /\ w.finished = v.finished

\* The children of other panes are as they were.
Beside(o, p) ==
  \A g \in Gens : work[g].kind # "none" /\ work[g].pane # p => Alike(work[g], o.work[g])

Faithful(o, ev, p) ==
  ChildrenTrue(o.work, ev) /\ Follows(o.slot, o.work, ev, p) /\ Beside(o, p)

\* From a to b the children are alike, and the process of the pane stays with
\* what was noted of it, or is dropped with it.
Traced(a, b) ==
  /\ \A g \in Gens : Alike(a.work[g], b.work[g])
  /\ \/ b.slot.gen = a.slot.gen /\ b.slot.eof = a.slot.eof /\ b.slot.exited = a.slot.exited
     \/ b.slot.gen = 0 /\ ~b.slot.eof /\ ~b.slot.exited

-----------------------------------------------------------------------------
(* The channel *)

LEMMA WaitingFinite ==
  ASSUME NEW ev \in Seq(Event), NEW g
  PROVE  /\ Waiting(ev, g) \subseteq 1 .. Len(ev)
         /\ IsFiniteSet(Waiting(ev, g)) /\ Cardinality(Waiting(ev, g)) \in Nat
<1>1. IsFiniteSet(1 .. Len(ev))
  BY FS_Interval
<1>2. Waiting(ev, g) \subseteq 1 .. Len(ev)
  BY DEF Waiting
<1> QED
  BY <1>1, <1>2, FS_Subset, FS_CardinalityType

\* Taking the first event: the output behind it moves up by one.
LEMMA WaitingTail ==
  ASSUME NEW ev \in Seq(Event), ev # <<>>, NEW g
  PROVE  /\ Waiting(ev, g) = {} => Waiting(Tail(ev), g) = {}
         /\ Cardinality(Waiting(Tail(ev), g)) =
              Cardinality(Waiting(ev, g))
                - (IF Head(ev).kind = "output" /\ Head(ev).gen = g THEN 1 ELSE 0)
<1> DEFINE S == Waiting(ev, g)
           T == Waiting(Tail(ev), g)
           U == S \ {1}
<1>1. /\ Tail(ev) \in Seq(Event) /\ Len(ev) \in Nat /\ Len(Tail(ev)) = Len(ev) - 1
      /\ Len(ev) >= 1 /\ Head(ev) = ev[1]
      /\ \A i \in 1 .. Len(Tail(ev)) : Tail(ev)[i] = ev[i + 1]
  OBVIOUS
<1>2. IsFiniteSet(S) /\ Cardinality(S) \in Nat
  BY WaitingFinite
<1>3. \A i : i \in T <=> i + 1 \in U /\ i \in 1 .. Len(Tail(ev))
  BY <1>1 DEF Waiting
<1>4. \A j \in U : j \in Nat /\ j - 1 \in T /\ j - 1 \in Int
  BY <1>1 DEF Waiting
<1>5. U = S \ {1} /\ T \subseteq Int /\ U \subseteq Int
  BY <1>1 DEF Waiting
<1> DEFINE f == [j \in U |-> j - 1]
<1>6. f \in Bijection(U, T)
  <2> HIDE DEF S, T, U
  <2>1. f \in [U -> T]
    BY <1>4
  <2>2. \A a, b \in U : f[a] = f[b] => a = b
    BY <1>4
  <2>3. \A i \in T : i + 1 \in U /\ f[i + 1] = i
    BY <1>3, <1>5
  <2>4. \A i \in T : \E j \in U : f[j] = i
    BY <2>3
  <2> HIDE DEF f
  <2> QED
    BY <2>1, <2>2, <2>4, Fun_IsBij
<1>7. Cardinality(T) = Cardinality(U)
  <2>1. IsFiniteSet(U)
    BY <1>2, FS_RemoveElement
  <2>2. ExistsBijection(U, T)
    BY <1>6 DEF ExistsBijection
  <2> HIDE DEF S, T, U, f
  <2> QED
    BY <2>1, <2>2, FS_Bijection
<1>8. 1 \in S <=> Head(ev).kind = "output" /\ Head(ev).gen = g
  BY <1>1 DEF Waiting
<1>9. Cardinality(U) = IF 1 \in S THEN Cardinality(S) - 1 ELSE Cardinality(S)
  BY <1>2, FS_RemoveElement
<1>10. S = {} => T = {}
  BY <1>3
<1> HIDE DEF S, T, U
<1>11. Cardinality(T) = Cardinality(S) - (IF 1 \in S THEN 1 ELSE 0)
  BY <1>2, <1>7, <1>9
<1> QED
  BY <1>8, <1>10, <1>11 DEF S, T

LEMMA WaitingAppend ==
  ASSUME NEW ev \in Seq(Event), NEW e \in Event, NEW g
  PROVE  Waiting(Append(ev, e), g) =
           Waiting(ev, g)
             \union (IF e.kind = "output" /\ e.gen = g THEN {Len(ev) + 1} ELSE {})
<1>1. /\ Len(ev) \in Nat /\ Len(Append(ev, e)) = Len(ev) + 1
      /\ \A i \in 1 .. Len(ev) + 1 : Append(ev, e)[i] = IF i = Len(ev) + 1 THEN e ELSE ev[i]
      /\ 1 .. Len(ev) + 1 = (1 .. Len(ev)) \union {Len(ev) + 1}
  OBVIOUS
<1> QED
  BY <1>1 DEF Waiting

LEMMA WaitingMore ==
  ASSUME NEW ev \in Seq(Event), NEW e \in Event, NEW g
  PROVE  Cardinality(Waiting(Append(ev, e), g)) =
           Cardinality(Waiting(ev, g)) + (IF e.kind = "output" /\ e.gen = g THEN 1 ELSE 0)
<1>1. /\ IsFiniteSet(Waiting(ev, g)) /\ Len(ev) \in Nat /\ Len(ev) + 1 \notin Waiting(ev, g)
      /\ Cardinality(Waiting(ev, g)) \in Nat
  <2>1. Waiting(ev, g) \subseteq 1 .. Len(ev) /\ Len(ev) \in Nat
    BY WaitingFinite
  <2> QED
    BY <2>1, WaitingFinite
<1>2. Cardinality(Waiting(ev, g) \union {Len(ev) + 1}) = Cardinality(Waiting(ev, g)) + 1
  BY <1>1, FS_AddElement
<1>3. CASE e.kind = "output" /\ e.gen = g
  BY <1>1, <1>2, <1>3, WaitingAppend
<1>4. CASE ~(e.kind = "output" /\ e.gen = g)
  <2>1. Waiting(Append(ev, e), g) = Waiting(ev, g) \union {}
    BY <1>4, WaitingAppend
  <2> QED
    BY <1>1, <1>4, <2>1
<1> QED
  BY <1>3, <1>4

\* What was reported stays so when the first event is taken.
LEMMA ReportedTail ==
  ASSUME NEW ev \in Seq(Event), ev # <<>>, NEW g, NEW w, Reported(w, ev, g)
  PROVE  Reported(w, Tail(ev), g)
<1> DEFINE t == Tail(ev)
<1>1. /\ Len(ev) \in Nat /\ Len(t) = Len(ev) - 1
      /\ \A i \in 1 .. Len(t) : i + 1 \in 1 .. Len(ev) /\ t[i] = ev[i + 1]
  OBVIOUS
<1> HIDE DEF t
<1>2. \A j \in Waiting(t, g) : j \in Nat /\ j + 1 \in Waiting(ev, g)
  BY <1>1 DEF Waiting
<1> SUFFICES ASSUME NEW i \in 1 .. Len(t), t[i].gen = g
             PROVE  /\ t[i].kind = "exited" => ~w.reaper
                    /\ t[i].kind = "readClosed" =>
                         ~w.reader /\ \A j \in Waiting(t, g) : j < i
  BY DEF Reported, t
<1>3. i + 1 \in 1 .. Len(ev) /\ ev[i + 1] = t[i] /\ i \in Int
  BY <1>1
<1>4. /\ t[i].kind = "exited" => ~w.reaper
      /\ t[i].kind = "readClosed" =>
           ~w.reader /\ \A j \in Waiting(ev, g) : j < i + 1
  BY <1>3 DEF Reported
<1>5. (\A j \in Waiting(ev, g) : j < i + 1) => \A j \in Waiting(t, g) : j < i
  <2>1. ASSUME \A j \in Waiting(ev, g) : j < i + 1, NEW j \in Waiting(t, g)
        PROVE  j < i
    <3>1. j \in Nat /\ j + 1 < i + 1
      BY <1>2, <2>1
    <3> QED
      BY <1>3, <3>1
  <2> QED
    BY <2>1
<1> QED
  BY <1>4, <1>5

\* What is sent behind it follows from what the child is then; the end of the
\* output is sent by a reader that sends nothing more.
LEMMA ReportedAppend ==
  ASSUME NEW ev \in Seq(Event), NEW e \in Event, NEW g, NEW v, NEW w, Reported(v, ev, g),
         w.reaper => v.reaper, w.reader => v.reader,
         e.gen = g => /\ e.kind = "exited" => ~w.reaper
                      /\ e.kind = "readClosed" => ~w.reader
                      /\ e.kind = "output" => v.reader
  PROVE  Reported(w, Append(ev, e), g)
<1> DEFINE a == Append(ev, e)
<1>1. /\ Len(ev) \in Nat /\ Len(a) = Len(ev) + 1 /\ a[Len(ev) + 1] = e
      /\ \A i \in 1 .. Len(ev) : a[i] = ev[i]
  OBVIOUS
<1>2. Waiting(a, g) = Waiting(ev, g)
        \union (IF e.kind = "output" /\ e.gen = g THEN {Len(ev) + 1} ELSE {})
      /\ Waiting(ev, g) \subseteq 1 .. Len(ev)
  BY WaitingAppend, WaitingFinite
<1> HIDE DEF a
<1> SUFFICES ASSUME NEW i \in 1 .. Len(a), a[i].gen = g
             PROVE  /\ a[i].kind = "exited" => ~w.reaper
                    /\ a[i].kind = "readClosed" =>
                         ~w.reader /\ \A j \in Waiting(a, g) : j < i
  BY DEF Reported, a
<1>3. CASE i = Len(ev) + 1
  <2>1. a[i] = e /\ e.gen = g
    BY <1>1, <1>3
  <2>2. e.kind = "readClosed" => Waiting(a, g) \subseteq 1 .. Len(ev)
    BY <1>2
  <2>3. \A j \in 1 .. Len(ev) : j < i
    BY <1>1, <1>3
  <2> QED
    BY <2>1, <2>2, <2>3
<1>4. CASE i # Len(ev) + 1
  <2>1. i \in 1 .. Len(ev) /\ a[i] = ev[i]
    BY <1>1, <1>4
  <2>2. /\ ev[i].kind = "exited" => ~v.reaper
        /\ ev[i].kind = "readClosed" => ~v.reader /\ \A j \in Waiting(ev, g) : j < i
    BY <2>1 DEF Reported
  <2>3. ev[i].kind = "readClosed" => Waiting(a, g) = Waiting(ev, g)
    BY <1>2, <2>2
  <2> QED
    BY <2>1, <2>2, <2>3
<1> QED
  BY <1>3, <1>4

-----------------------------------------------------------------------------
(* The relation between views *)

LEMMA TracedTwice ==
  ASSUME NEW a, NEW b, NEW c, Traced(a, b), Traced(b, c)
  PROVE  Traced(a, c)
<1>1. \A g \in Gens : Alike(a.work[g], c.work[g])
  BY DEF Traced, Alike
<1> QED
  BY <1>1 DEF Traced

\* A view that nothing was done to
LEMMA TracedSame ==
  ASSUME NEW a, NEW b, b.work = a.work, b.slot.gen = a.slot.gen,
         b.slot.eof = a.slot.eof, b.slot.exited = a.slot.exited
  PROVE  Traced(a, b)
  BY DEF Traced, Alike

LEMMA ChildrenAlike ==
  ASSUME NEW a, NEW b, NEW ev, ChildrenTrue(a, ev), \A g \in Gens : Alike(a[g], b[g])
  PROVE  ChildrenTrue(b, ev)
<1> SUFFICES ASSUME NEW g \in Gens
             PROVE  Complete(b[g]) /\ Reported(b[g], ev, g)
  BY DEF ChildrenTrue
<1>1. Complete(a[g]) /\ Reported(a[g], ev, g) /\ Alike(a[g], b[g])
  BY DEF ChildrenTrue
<1>2. Complete(b[g])
  BY <1>1 DEF Complete, Alike
<1>3. Reported(b[g], ev, g)
  BY <1>1 DEF Reported, Alike
<1> QED
  BY <1>2, <1>3

LEMMA FaithfulKeeps ==
  ASSUME NEW n, NEW a, NEW b, NEW ev, NEW p, Linked(a, n), Faithful(a, ev, p), Traced(a, b)
  PROVE  Faithful(b, ev, p)
<1>1. ChildrenTrue(b.work, ev)
  BY ChildrenAlike DEF Faithful, Traced
<1>2. Beside(b, p)
  BY DEF Faithful, Beside, Traced, Alike
<1>3. Follows(b.slot, b.work, ev, p)
  <2>1. CASE b.slot.gen = 0 /\ ~b.slot.eof /\ ~b.slot.exited
    BY <2>1 DEF Follows
  <2>2. CASE b.slot.gen = a.slot.gen /\ b.slot.eof = a.slot.eof
             /\ b.slot.exited = a.slot.exited
    <3>1. a.slot.gen # 0 => a.slot.gen \in Gens
      BY DEF Linked, Refers
    <3>2. a.slot.gen # 0 => Alike(a.work[a.slot.gen], b.work[a.slot.gen])
      BY <3>1 DEF Traced
    <3>3. Follows(a.slot, a.work, ev, p)
      BY DEF Faithful
    <3> QED
      BY <2>2, <3>2, <3>3 DEF Follows, Alike
  <2> QED
    BY <2>1, <2>2 DEF Traced
<1> QED
  BY <1>1, <1>2, <1>3 DEF Faithful

-----------------------------------------------------------------------------
(* The operators on the owner's view *)

LEMMA CloseAlike ==
  ASSUME NEW w \in Worker
  PROVE  Alike(w, Close(w))
<1> DEFINE c == [w EXCEPT !.closed = TRUE]
<1>1. c \in Worker /\ Alike(w, c)
  BY DEF Worker, Alike
<1>2. Close(w) \in {c, [c EXCEPT !.writer = "ended"]}
  BY DEF Close, Left
<1> HIDE DEF c
<1>3. Alike(c, [c EXCEPT !.writer = "ended"]) /\ Alike(c, c)
  BY <1>1 DEF Worker, Alike
<1> QED
  BY <1>1, <1>2, <1>3 DEF Alike

\* A child is replaced by one that is alike.
LEMMA ReplaceAlike ==
  ASSUME NEW a \in Owner, NEW g \in Gens, NEW w, Alike(a.work[g], w),
         NEW b, b.work = [a.work EXCEPT ![g] = w]
  PROVE  \A h \in Gens : Alike(a.work[h], b.work[h])
<1>1. \A h \in Gens : b.work[h] = IF h = g THEN w ELSE a.work[h]
  BY DEF Owner
<1> QED
  BY <1>1 DEF Alike

LEMMA WaitCompleteTraced ==
  ASSUME NEW n \in Nat, NEW o, Linked(o, n)
  PROVE  Traced(o, WaitComplete(o))
<1>1. o \in Owner /\ o.slot \in Slot
  BY DEF Linked, Owner
<1>2. /\ WaitComplete(o).work = o.work /\ WaitComplete(o).slot.gen = o.slot.gen
      /\ WaitComplete(o).slot.eof = o.slot.eof /\ WaitComplete(o).slot.exited = o.slot.exited
  BY <1>1 DEF WaitComplete, Owner, Slot
<1> QED
  BY <1>2, TracedSame

LEMMA PaneTraced ==
  ASSUME NEW n \in Nat, NEW o, Linked(o, n), NEW status
  PROVE  Traced(o, [o EXCEPT !.slot.pane = status])
<1> DEFINE b == [o EXCEPT !.slot.pane = status]
<1>1. o \in Owner /\ o.slot \in Slot
  BY DEF Linked, Owner
<1>2. /\ b.work = o.work /\ b.slot.gen = o.slot.gen
      /\ b.slot.eof = o.slot.eof /\ b.slot.exited = o.slot.exited
  BY <1>1 DEF Owner, Slot
<1> QED
  BY <1>2, TracedSame

LEMMA ClosePipeTraced ==
  ASSUME NEW n \in Nat, NEW o, Linked(o, n)
  PROVE  Traced(o, ClosePipe(o))
<1> DEFINE g == o.slot.pipe
           b == ClosePipe(o)
<1>1. CASE g = 0
  BY <1>1, TracedSame DEF ClosePipe
<1>2. CASE g # 0
  <2>1. o \in Owner /\ o.slot \in Slot /\ g \in Gens /\ o.work[g] \in Worker
    BY <1>2 DEF Linked, Owner, Refers
  <2> DEFINE s == [o.slot EXCEPT !.pipe = 0, !.input = FALSE, !.output = FALSE]
             w == Close(o.work[g])
  <2>2. b = [o EXCEPT !.slot = s, !.retired = @ \union {g}, !.work[g] = w]
    BY <1>2, <2>1 DEF ClosePipe, Owner
  <2>3. s.gen = o.slot.gen /\ s.eof = o.slot.eof /\ s.exited = o.slot.exited
    BY <2>1 DEF Slot
  <2>4. Alike(o.work[g], w)
    BY <2>1, CloseAlike
  <2> HIDE DEF s, w
  <2>5. b.slot = s /\ b.work = [o.work EXCEPT ![g] = w]
    BY <2>1, <2>2 DEF Owner
  <2>6. b.slot.gen = o.slot.gen /\ b.slot.eof = o.slot.eof /\ b.slot.exited = o.slot.exited
    BY <2>3, <2>5
  <2> HIDE DEF b, g
  <2>7. \A h \in Gens : Alike(o.work[h], b.work[h])
    BY ONLY <2>1, <2>4, <2>5, ReplaceAlike
  <2>8. Traced(o, b)
    BY <2>6, <2>7 DEF Traced
  <2> QED
    BY <2>8 DEF b
<1> QED
  BY <1>1, <1>2

LEMMA DropProcessTraced ==
  ASSUME NEW n \in Nat, NEW o, Linked(o, n)
  PROVE  Traced(o, DropProcess(o))
<1> DEFINE g == o.slot.gen
           b == DropProcess(o)
<1>1. CASE g = 0
  BY <1>1, TracedSame DEF DropProcess
<1>2. CASE g # 0
  <2>1. o \in Owner /\ o.slot \in Slot /\ g \in Gens /\ o.work[g] \in Worker
    BY <1>2 DEF Linked, Owner, Refers
  <2> DEFINE s == [o.slot EXCEPT !.gen = 0, !.eof = FALSE, !.exited = FALSE]
             w == Close(o.work[g])
  <2>2. b = [o EXCEPT !.slot = s, !.work[g] = w]
    BY <1>2, <2>1 DEF DropProcess, Owner
  <2>3. s.gen = 0 /\ ~s.eof /\ ~s.exited
    BY <2>1 DEF Slot
  <2>4. Alike(o.work[g], w)
    BY <2>1, CloseAlike
  <2> HIDE DEF s, w
  <2>5. b.slot = s /\ b.work = [o.work EXCEPT ![g] = w]
    BY <2>1, <2>2 DEF Owner
  <2>6. b.slot.gen = 0 /\ ~b.slot.eof /\ ~b.slot.exited
    BY <2>3, <2>5
  <2> HIDE DEF b, g
  <2>7. \A h \in Gens : Alike(o.work[h], b.work[h])
    BY ONLY <2>1, <2>4, <2>5, ReplaceAlike
  <2>8. Traced(o, b)
    BY <2>6, <2>7 DEF Traced
  <2> QED
    BY <2>8 DEF b
<1> QED
  BY <1>1, <1>2

LEMMA RemoveTraced ==
  ASSUME NEW n \in Nat, NEW o, Linked(o, n)
  PROVE  Traced(o, Remove(o))
<1> DEFINE w == WaitComplete(o)
           c == ClosePipe(w)
           d == DropProcess(c)
<1>1. Linked(w, n) /\ Traced(o, w)
  BY WaitCompleteKeeps, WaitCompleteTraced
<1> HIDE DEF w
<1>2. Linked(c, n) /\ Traced(w, c)
  BY <1>1, ClosePipeKeeps, ClosePipeTraced
<1> HIDE DEF c
<1>3. Linked(d, n) /\ Traced(c, d)
  BY <1>2, DropProcessKeeps, DropProcessTraced
<1> HIDE DEF d
<1>4. Traced(d, [d EXCEPT !.slot.pane = "gone"])
  BY <1>3, PaneTraced
<1>5. Remove(o) = [d EXCEPT !.slot.pane = "gone"]
  BY DEF Remove, d, c, w
<1>6. Traced(d, Remove(o))
  BY <1>4, <1>5
<1> QED
  BY <1>1, <1>2, <1>3, <1>6, TracedTwice

LEMMA ExitedTraced ==
  ASSUME NEW n \in Nat, NEW o, Linked(o, n), NEW remain \in BOOLEAN
  PROVE  Traced(o, Exited(o, remain))
<1>1. CASE remain
  BY <1>1, PaneTraced DEF Exited
<1>2. CASE ~remain
  BY <1>2, RemoveTraced DEF Exited
<1> QED
  BY <1>1, <1>2

LEMMA InputFailedTraced ==
  ASSUME NEW n \in Nat, NEW o, Linked(o, n), NEW remain \in BOOLEAN
  PROVE  Traced(o, InputFailed(o, remain))
<1>1. CASE o.slot.gen = 0
  BY <1>1, TracedSame DEF InputFailed
<1>2. CASE o.slot.gen # 0
  <2>1. Linked(DropProcess(o), n) /\ Traced(o, DropProcess(o))
    BY DropProcessKeeps, DropProcessTraced
  <2>2. Traced(DropProcess(o), Exited(DropProcess(o), remain))
    BY <2>1, ExitedTraced
  <2> QED
    BY <1>2, <2>1, <2>2, TracedTwice DEF InputFailed
<1> QED
  BY <1>1, <1>2

\* Counting a chunk for a writer is no part of the trace.
LEMMA QueuedTraced ==
  ASSUME NEW o \in Owner, NEW g \in Gens
  PROVE  Traced(o, [o EXCEPT !.work[g].queue = @ + 1, !.work[g].bytes = @ + 1])
<1> DEFINE b == [o EXCEPT !.work[g].queue = @ + 1, !.work[g].bytes = @ + 1]
           w == [o.work[g] EXCEPT !.queue = @ + 1, !.bytes = @ + 1]
<1>1. b = [o EXCEPT !.work[g] = w] /\ o.work[g] \in Worker
  BY DEF Owner
<1>2. Alike(o.work[g], w)
  BY <1>1 DEF Worker, Alike
<1> HIDE DEF w
<1>3. b.slot = o.slot /\ b.work = [o.work EXCEPT ![g] = w]
  BY <1>1 DEF Owner
<1> HIDE DEF b
<1>4. \A h \in Gens : Alike(o.work[h], b.work[h])
  BY ONLY <1>2, <1>3, ReplaceAlike, o \in Owner, g \in Gens
<1>5. Traced(o, b)
  BY <1>3, <1>4 DEF Traced
<1> QED
  BY <1>5 DEF b

LEMMA WriteTraced ==
  ASSUME NEW n \in Nat, NEW o, Linked(o, n)
  PROVE  Traced(o, Write(o))
<1>1. CASE ~CanWrite(o)
  BY <1>1, TracedSame DEF Write
<1>2. CASE CanWrite(o)
  <2>1. o \in Owner /\ o.slot.gen \in Gens
    BY <1>2 DEF Linked, Refers, CanWrite
  <2> QED
    BY <1>2, <2>1, QueuedTraced DEF Write
<1> QED
  BY <1>1, <1>2

LEMMA ToPipeTraced ==
  ASSUME NEW n \in Nat, NEW o, Linked(o, n)
  PROVE  Traced(o, ToPipe(o))
<1>1. CASE ToPipe(o) = o
  BY <1>1, TracedSame
<1>2. CASE ToPipe(o) = ClosePipe(o)
  BY <1>2, ClosePipeTraced
<1>3. CASE ToPipe(o) \notin {o, ClosePipe(o)}
  <2>1. ToPipe(o) = [o EXCEPT !.work[o.slot.pipe].queue = @ + 1,
                              !.work[o.slot.pipe].bytes = @ + 1] /\ o.slot.output
    BY <1>3 DEF ToPipe
  <2>2. o \in Owner /\ o.slot.pipe \in Gens
    BY <2>1 DEF Linked, Refers
  <2> QED
    BY <2>1, <2>2, QueuedTraced
<1> QED
  BY <1>1, <1>2, <1>3

LEMMA PaneOutputTraced ==
  ASSUME NEW n \in Nat, NEW o, Linked(o, n), Settled(o.slot),
         NEW reply \in BOOLEAN, NEW remain \in BOOLEAN
  PROVE  Traced(o, PaneOutput(o, reply, remain))
<1> DEFINE t == ToPipe(o)
<1>1. Linked(t, n) /\ Traced(o, t)
  BY ToPipeSettles, ToPipeTraced
<1>2. PaneOutput(o, reply, remain) \in {t, Write(t), InputFailed(t, remain)}
  BY DEF PaneOutput
<1> HIDE DEF t
<1>3. Traced(t, PaneOutput(o, reply, remain))
  BY <1>1, <1>2, WriteTraced, InputFailedTraced, TracedSame
<1> QED
  BY <1>1, <1>3, TracedTwice

LEMMA EmptiedTraced ==
  ASSUME NEW n \in Nat, NEW o, Linked(o, n)
  PROVE  Traced(o, Emptied(o))
<1> DEFINE d == DropProcess(o)
<1>1. Linked(d, n) /\ Traced(o, d)
  BY DropProcessKeeps, DropProcessTraced
<1> HIDE DEF d
<1>2. d \in Owner /\ d.slot \in Slot
  BY <1>1 DEF Linked, Owner
<1> DEFINE s == [d.slot EXCEPT !.pane = "empty", !.screen = {}]
<1>3. Emptied(o) = [d EXCEPT !.slot = s]
      /\ s.gen = d.slot.gen /\ s.eof = d.slot.eof /\ s.exited = d.slot.exited
  BY <1>2 DEF Emptied, Owner, Slot, d
<1> HIDE DEF s
<1>4. /\ Emptied(o).work = d.work /\ Emptied(o).slot.gen = d.slot.gen
      /\ Emptied(o).slot.eof = d.slot.eof /\ Emptied(o).slot.exited = d.slot.exited
  BY <1>2, <1>3 DEF Owner
<1>5. Traced(d, Emptied(o))
  BY <1>4, TracedSame
<1> QED
  BY <1>1, <1>5, TracedTwice

\* finish_process: when the output has ended and the process exited, nothing
\* waits in the channel and nothing more will come.
LEMMA FinishFaithful ==
  ASSUME NEW n \in Nat, NEW o, Linked(o, n), NEW ev, NEW p, Faithful(o, ev, p),
         NEW remain \in BOOLEAN
  PROVE  Faithful(Finish(o, remain), ev, p)
<1>1. CASE Pending(o) \/ ~Ended(o.slot)
  BY <1>1 DEF Finish
<1>2. CASE ~(Pending(o) \/ ~Ended(o.slot))
  <2> DEFINE g == o.slot.gen
             w == [o.work[g] EXCEPT !.finished = TRUE]
             f == [o EXCEPT !.work[g].finished = TRUE]
             d == DropProcess(f)
             c == ClosePipe(d)
  <2>1. o \in Owner /\ g \in Gens /\ g # 0 /\ Counted(o.work[g]) /\ o.work[g] \in Worker
        /\ o.work[g].kind = "process"
    BY <1>2 DEF Linked, Owner, Refers, Children, Ended, Counted
  <2>2. w \in Worker /\ w.kind = o.work[g].kind /\ w.pane = o.work[g].pane
        /\ w.queue = o.work[g].queue /\ w.bytes = o.work[g].bytes
        /\ w.writer = o.work[g].writer /\ w.closed = o.work[g].closed
        /\ w.reaper = o.work[g].reaper /\ w.reader = o.work[g].reader
        /\ w.made = o.work[g].made /\ w.shown = o.work[g].shown
    BY <2>1 DEF Worker
  <2>3. Counted(w)
    <3> HIDE DEF w
    <3> QED
      BY <2>1, <2>2 DEF Counted, Held
  <2>4. f = [o EXCEPT !.work[g] = w]
    BY <2>1 DEF Owner
  <2>5. Linked(f, n) /\ f.work = [o.work EXCEPT ![g] = w]
    <3>1. Linked(f, n)
      <4> HIDE DEF w, f
      <4> QED
        BY <2>1, <2>2, <2>3, <2>4, ReplaceKeeps
    <3>2. f.work = [o.work EXCEPT ![g] = w]
      <4> HIDE DEF w
      <4> QED
        BY <2>1, <2>4 DEF Owner
    <3> QED
      BY <3>1, <3>2
  <2>6. o.work[g].shown = o.work[g].made /\ ~o.work[g].reader /\ ~o.work[g].reaper
        /\ o.work[g].pane = p
    <3>1. /\ o.work[g].pane = p
          /\ o.work[g].shown + Cardinality(Waiting(ev, g)) = o.work[g].made
          /\ ~o.work[g].reader /\ Waiting(ev, g) = {} /\ ~o.work[g].reaper
      BY <1>2, <2>1 DEF Faithful, Follows, Ended
    <3>2. o.work[g].shown \in Nat /\ Cardinality(Waiting(ev, g)) = 0
      BY <2>1, <3>1, FS_EmptySet DEF Worker
    <3> QED
      BY <3>1, <3>2
  <2> HIDE DEF w
  <2>7. \A h \in Gens : f.work[h] = IF h = g THEN w ELSE o.work[h]
    BY <2>1, <2>5 DEF Owner
  <2> HIDE DEF f
  <2>8. ChildrenTrue(f.work, ev)
    <3>1. ASSUME NEW h \in Gens
          PROVE  Complete(f.work[h]) /\ Reported(f.work[h], ev, h)
      <4>1. Complete(o.work[h]) /\ Reported(o.work[h], ev, h)
        BY DEF Faithful, ChildrenTrue
      <4>2. CASE h = g
        BY <2>2, <2>6, <2>7, <4>1, <4>2 DEF Complete, Reported
      <4>3. CASE h # g
        BY <2>7, <4>1, <4>3
      <4> QED
        BY <4>2, <4>3
    <3> QED
      BY <3>1 DEF ChildrenTrue
  <2>9. Beside(f, p)
    <3>1. ASSUME NEW h \in Gens, work[h].kind # "none", work[h].pane # p
          PROVE  h # g
      BY <2>6, <3>1 DEF Linked, Kept
    <3> QED
      BY <2>7, <3>1 DEF Beside, Faithful
  <2>10. Linked(d, n) /\ d.slot.gen = 0 /\ Traced(f, d)
    BY <2>5, DropProcessKeeps, DropProcessTraced
  <2>11. Faithful(d, ev, p)
    <3>1. ChildrenTrue(d.work, ev)
      BY <2>8, <2>10, ChildrenAlike DEF Traced
    <3>2. Beside(d, p)
      BY <2>9, <2>10 DEF Beside, Traced, Alike
    <3>3. ~d.slot.eof /\ ~d.slot.exited
      <4>1. f.slot.gen = g
        <5>1. f.slot = o.slot
          BY <2>1, <2>4 DEF Owner
        <5> QED
          BY <5>1
      <4> QED
        BY <2>1, <2>10, <4>1 DEF Traced
    <3> QED
      BY <2>10, <3>1, <3>2, <3>3 DEF Faithful, Follows
  <2> HIDE DEF d
  <2>12. Linked(c, n) /\ Faithful(c, ev, p)
    BY <2>10, <2>11, ClosePipeKeeps, ClosePipeTraced, FaithfulKeeps
  <2>13. Finish(o, remain) = Exited(c, remain)
    BY <1>2 DEF Finish, c, d, f
  <2> HIDE DEF c
  <2>14. Traced(c, Exited(c, remain))
    BY <2>12, ExitedTraced
  <2> QED
    BY <2>12, <2>13, <2>14, FaithfulKeeps
<1> QED
  BY <1>1, <1>2

\* A new child has written nothing, and no event names its generation.
LEMMA StartTraces ==
  ASSUME Inv, NEW a, Linked(a, next), NEW p, Faithful(a, events, p), next \in Gens,
         NEW r, ~r.work[next].finished, \A h \in Gens \ {next} : r.work[h] = a.work[h]
  PROVE  ChildrenTrue(r.work, events) /\ Beside(r, p) /\ Waiting(events, next) = {}
<1>2. work[next].kind = "none"
  BY DEF Inv, Children
<1>3. \A i \in 1 .. Len(events) : events[i].gen # next
  BY <1>2 DEF Inv, Signed
<1>4. ChildrenTrue(r.work, events)
  <2>1. ASSUME NEW h \in Gens
        PROVE  Complete(r.work[h]) /\ Reported(r.work[h], events, h)
    <3>1. CASE h = next
      BY <1>3, <3>1 DEF Complete, Reported
    <3>2. CASE h # next
      BY <3>2 DEF Faithful, ChildrenTrue
    <3> QED
      BY <3>1, <3>2
  <2> QED
    BY <2>1 DEF ChildrenTrue
<1>5. Beside(r, p)
  BY <1>2 DEF Beside, Faithful
<1>6. Waiting(events, next) = {}
  BY <1>3 DEF Waiting
<1> QED
  BY <1>4, <1>5, <1>6

LEMMA NewWorkerFresh ==
  ASSUME NEW kind, NEW p, NEW reads, NEW writes
  PROVE  LET w == NewWorker(kind, p, reads, writes)
         IN  w.pane = p /\ w.made = 0 /\ w.shown = 0 /\ ~w.finished
  BY DEF NewWorker, NoWorker

LEMMA SpawnedFaithful ==
  ASSUME Inv, NEW o, Linked(o, next), NEW p \in Panes, Faithful(o, events, p)
  PROVE  Faithful(Spawned(o, p), events, p)
<1> DEFINE d == DropProcess(o)
           w == NewWorker("process", p, TRUE, TRUE)
           s == [d.slot EXCEPT !.pane = "alive", !.gen = next, !.screen = {}]
           r == Spawned(o, p)
<1>1. next \in Gens /\ next \in Nat /\ next # 0
  BY DEF Inv, Gens
<1>2. Linked(d, next) /\ d.slot.gen = 0 /\ Faithful(d, events, p)
  BY <1>1, DropProcessKeeps, DropProcessTraced, FaithfulKeeps
<1>3. w.pane = p /\ w.made = 0 /\ w.shown = 0 /\ ~w.finished
  BY NewWorkerFresh
<1> HIDE DEF d, w
<1>4. d \in Owner /\ d.slot \in Slot /\ ~d.slot.eof /\ ~d.slot.exited
  BY <1>2 DEF Linked, Owner, Faithful, Follows
<1>5. s.gen = next /\ ~s.eof /\ ~s.exited
  BY <1>4 DEF Slot
<1>6. r = [d EXCEPT !.slot = s, !.work[next] = w]
  BY <1>4 DEF Spawned, Owner, d, w
<1> HIDE DEF s
<1>7. r.slot = s /\ r.work = [d.work EXCEPT ![next] = w]
  BY <1>4, <1>6 DEF Owner
<1> HIDE DEF r
<1>8. /\ r.work[next] = w /\ \A h \in Gens \ {next} : r.work[h] = d.work[h]
      /\ ChildrenTrue(r.work, events) /\ Beside(r, p) /\ Waiting(events, next) = {}
  <2>1. r.work[next] = w /\ \A h \in Gens \ {next} : r.work[h] = d.work[h]
    BY <1>1, <1>4, <1>7 DEF Owner
  <2> QED
    BY <1>1, <1>2, <1>3, <2>1, StartTraces
<1>9. Follows(r.slot, r.work, events, p)
  <2>1. Cardinality(Waiting(events, next)) = 0
    BY <1>8, FS_EmptySet
  <2> QED
    BY <1>1, <1>3, <1>5, <1>7, <1>8, <2>1 DEF Follows
<1> QED
  BY <1>8, <1>9 DEF Faithful, r

-----------------------------------------------------------------------------
(* Steps *)

LEMMA AtFaithful ==
  ASSUME Inv, NEW p \in Panes, NEW ev, Trace(ev)
  PROVE  Faithful(At(p), ev, p)
<1>1. At(p).slot = slot[p] /\ At(p).work = work
  BY AtSettled
<1> QED
  BY <1>1 DEF Trace, Faithful, Beside, Alike

\* A handler of p leaves the traces of the other panes.
LEMMA CommitTraces ==
  ASSUME Inv, NEW p \in Panes, NEW o, Commit(p, o), Faithful(o, events', p),
         \A q \in Panes \ {p} : Follows(slot[q], work, events', q)
  PROVE  InvTrace'
<1>1. work' = o.work /\ \A q \in Panes : slot'[q] = IF q = p THEN o.slot ELSE slot[q]
  BY DEF Commit, Inv
<1>2. ASSUME NEW q \in Panes
      PROVE  Follows(slot'[q], work', events', q)
  <2>1. CASE q = p
    BY <1>1, <2>1 DEF Faithful
  <2>2. CASE q # p
    <3> DEFINE g == slot[q].gen
    <3>1. slot'[q] = slot[q] /\ Follows(slot[q], work, events', q)
      BY <1>1, <2>2
    <3>2. g # 0 => g \in Gens /\ work[g].kind = "process" /\ work[g].pane = q
      BY <3>1 DEF Inv, Refers, Follows
    <3>3. g # 0 => Alike(work[g], work'[g])
      BY <1>1, <2>2, <3>2 DEF Faithful, Beside
    <3> HIDE DEF g
    <3> QED
      BY <3>1, <3>3 DEF Follows, Alike, g
  <2> QED
    BY <2>1, <2>2
<1>3. ChildrenTrue(work', events')
  BY <1>1 DEF Faithful
<1> QED
  BY <1>2, <1>3 DEF InvTrace, Trace

\* A handler that composes operators, with the events that are left
LEMMA CommitTraced ==
  ASSUME Inv, NEW p \in Panes, NEW o, Commit(p, o), Traced(At(p), o), Trace(events')
  PROVE  InvTrace'
<1>1. Faithful(At(p), events', p) /\ Linked(At(p), next)
  BY AtFaithful, AtSettled
<1>2. Faithful(o, events', p)
  BY <1>1, FaithfulKeeps
<1>3. \A q \in Panes : Follows(slot[q], work, events', q)
  BY DEF Trace
<1> QED
  BY <1>2, <1>3, CommitTraces

\* The pipe of a pane is another child than its process.
LEMMA PipeOnTraces ==
  ASSUME Inv, InvTrace, NEW p \in Panes, NEW input \in BOOLEAN, NEW output \in BOOLEAN,
         PipeOn(p, input, output)
  PROVE  InvTrace'
<1> DEFINE c == ClosePipe(At(p))
           o == [c EXCEPT !.retired = Reaped(@)]
           w == NewWorker("pipe", p, input, output)
           s == [c.slot EXCEPT !.pipe = next, !.input = input, !.output = output]
           r == [o EXCEPT !.slot.pipe = next, !.slot.input = input, !.slot.output = output,
                          !.work[next] = w]
<1>1. next \in Gens /\ next \in Nat
  BY DEF Inv, Gens
<1>2. Trace(events) /\ events' = events /\ (Commit(p, o) \/ Commit(p, r))
  BY DEF InvTrace, PipeOn
<1>3. Linked(c, next) /\ Faithful(c, events, p)
  BY <1>1, <1>2, AtSettled, AtFaithful, ClosePipeKeeps, ClosePipeTraced, FaithfulKeeps
<1>4. ~w.finished
  BY NewWorkerFresh
<1> HIDE DEF c, w
<1>5. c \in Owner /\ c.slot \in Slot
  BY <1>3 DEF Linked, Owner
<1>6. ASSUME NEW v, Commit(p, v), Faithful(v, events, p)
      PROVE  InvTrace'
  <2>1. \A q \in Panes : Follows(slot[q], work, events', q)
    BY <1>2 DEF Trace
  <2>2. Faithful(v, events', p)
    BY <1>2, <1>6
  <2> QED
    BY <1>6, <2>1, <2>2, CommitTraces
<1>7. Faithful(o, events, p) /\ o \in Owner /\ o.slot = c.slot /\ o.work = c.work
  <2>1. o \in Owner /\ o.slot = c.slot /\ o.work = c.work
    BY <1>5 DEF Owner, Reaped
  <2> QED
    BY <1>3, <2>1 DEF Faithful, Beside
<1>8. Faithful(r, events, p)
  <2>1. r = [o EXCEPT !.slot = s, !.work[next] = w]
    BY <1>7 DEF Owner
  <2>2. s.gen = c.slot.gen /\ s.eof = c.slot.eof /\ s.exited = c.slot.exited
    BY <1>5 DEF Slot
  <2> HIDE DEF s, o
  <2>3. r.slot = s /\ r.work = [c.work EXCEPT ![next] = w]
    BY <1>7, <2>1 DEF Owner
  <2> HIDE DEF r
  <2>4. /\ r.work[next] = w /\ \A h \in Gens \ {next} : r.work[h] = c.work[h]
        /\ ChildrenTrue(r.work, events) /\ Beside(r, p)
    <3>1. r.work[next] = w /\ \A h \in Gens \ {next} : r.work[h] = c.work[h]
      BY <1>1, <1>5, <2>3 DEF Owner
    <3> QED
      BY <1>1, <1>3, <1>4, <3>1, StartTraces
  <2>5. s.gen # 0 => r.work[s.gen] = c.work[s.gen]
    <3>1. c.slot.gen # 0 => c.slot.gen \in Gens /\ c.work[c.slot.gen].kind = "process"
      BY <1>3 DEF Linked, Refers
    <3>2. c.work[next].kind = "none"
      BY <1>1, <1>3 DEF Linked, Children
    <3> QED
      BY <2>2, <2>4, <3>1, <3>2
  <2>6. Follows(r.slot, r.work, events, p)
    BY <1>3, <2>2, <2>3, <2>5 DEF Faithful, Follows
  <2> QED
    BY <2>4, <2>6 DEF Faithful
<1> QED
  BY <1>2, <1>6, <1>7, <1>8

LEMMA CommandTraces ==
  ASSUME Inv, InvTrace, Command
  PROVE  InvTrace'
<1>1. next \in Nat
  BY DEF Inv
<1>2. events' = events
  BY DEF Command, NewPane, Respawn, KillPane, SendKeys, FeedStdin, PipeOff, PipeOn, ReapPipes
<1>3. Trace(events) /\ Trace(events')
  BY <1>2 DEF InvTrace
<1>4. ASSUME UNCHANGED <<slot, work>>
      PROVE  InvTrace'
  BY <1>3, <1>4 DEF InvTrace, Trace, ChildrenTrue
<1>5. ASSUME NEW p \in Panes, NEW o, Commit(p, o), Faithful(o, events, p)
      PROVE  InvTrace'
  <2>1. \A q \in Panes : Follows(slot[q], work, events', q)
    BY <1>3 DEF Trace
  <2>2. Faithful(o, events', p)
    BY <1>2, <1>5
  <2> QED
    BY <1>5, <2>1, <2>2, CommitTraces
<1>6. CASE ReapPipes
  BY <1>4, <1>6 DEF ReapPipes
<1>7. ASSUME NEW p \in Panes, NEW wait \in BOOLEAN, NewPane(p, wait)
      PROVE  InvTrace'
  <2> DEFINE s == [slot[p] EXCEPT !.waiter = wait]
             o == [At(p) EXCEPT !.slot.waiter = wait]
  <2>1. Linked(At(p), next) /\ At(p).slot = slot[p] /\ Faithful(At(p), events, p)
    BY <1>3, AtSettled, AtFaithful
  <2>2. slot[p] \in Slot /\ At(p) \in Owner
    BY <2>1 DEF Linked, Owner
  <2>3. s \in Slot /\ s.gen = slot[p].gen /\ s.pipe = slot[p].pipe /\ s.screen = slot[p].screen
        /\ s.input = slot[p].input /\ s.output = slot[p].output
        /\ s.eof = slot[p].eof /\ s.exited = slot[p].exited
    BY <2>2 DEF Slot
  <2>4. o = [At(p) EXCEPT !.slot = s]
    BY <2>1, <2>2 DEF Owner
  <2> HIDE DEF s
  <2>5. o.slot = s /\ o.work = At(p).work
    BY <2>2, <2>4 DEF Owner
  <2>6. Linked(o, next)
    <3>1. Refers(s, At(p).work)
      BY <2>1, <2>3 DEF Linked, Refers
    <3> HIDE DEF o
    <3> QED
      BY <1>1, <2>1, <2>4, <3>1, SlotKeeps
  <2>7. Commit(p, Spawned(o, p)) \/ UNCHANGED <<slot, work>> \/ Commit(p, Emptied(o))
    BY <1>7 DEF NewPane
  <2> HIDE DEF o
  <2>8. Faithful(o, events, p)
    <3>1. Traced(At(p), o)
      BY <2>1, <2>3, <2>5, TracedSame
    <3> QED
      BY <2>1, <3>1, FaithfulKeeps
  <2>9. Faithful(Spawned(o, p), events, p)
    BY <2>6, <2>8, SpawnedFaithful
  <2>10. Faithful(Emptied(o), events, p)
    BY <1>1, <2>6, <2>8, EmptiedTraced, FaithfulKeeps
  <2> QED
    BY <1>4, <1>5, <2>7, <2>9, <2>10
<1>8. ASSUME NEW p \in Panes, Respawn(p)
      PROVE  InvTrace'
  <2> DEFINE o == At(p)
  <2>1. Linked(o, next) /\ Faithful(o, events, p)
    BY <1>3, AtSettled, AtFaithful
  <2>2. Commit(p, Spawned(o, p)) \/ Commit(p, o) \/ Commit(p, Emptied(o))
    BY <1>8 DEF Respawn, RespawnFails
  <2> HIDE DEF o
  <2>3. Faithful(Spawned(o, p), events, p)
    BY <2>1, SpawnedFaithful
  <2>4. Faithful(Emptied(o), events, p)
    BY <1>1, <2>1, EmptiedTraced, FaithfulKeeps
  <2> QED
    BY <1>5, <2>1, <2>2, <2>3, <2>4
<1>9. ASSUME NEW p \in Panes, KillPane(p) \/ SendKeys(p) \/ FeedStdin(p) \/ PipeOff(p)
      PROVE  InvTrace'
  <2>1. Linked(At(p), next) /\ Settled(At(p).slot)
    BY AtSettled
  <2>2. CASE KillPane(p)
    BY <1>1, <1>3, <2>1, <2>2, RemoveTraced, CommitTraced DEF KillPane
  <2>3. CASE SendKeys(p)
    BY <1>1, <1>3, <2>1, <2>3, WriteTraced, CommitTraced DEF SendKeys
  <2>4. CASE FeedStdin(p)
    BY <1>1, <1>3, <2>1, <2>4, PaneOutputTraced, CommitTraced DEF FeedStdin
  <2>5. CASE PipeOff(p)
    BY <1>1, <1>3, <2>1, <2>5, ClosePipeTraced, CommitTraced DEF PipeOff
  <2> QED
    BY <1>9, <2>2, <2>3, <2>4, <2>5
<1>10. ASSUME NEW p \in Panes, NEW input \in BOOLEAN, NEW output \in BOOLEAN,
              PipeOn(p, input, output)
       PROVE  InvTrace'
  BY <1>10, PipeOnTraces
<1> QED
  BY <1>6, <1>7, <1>8, <1>9, <1>10 DEF Command

\* The first event is taken.  Only output that the pane of its process is to
\* show is missed, and an event names no process of another pane.
LEMMA TakeTraces ==
  ASSUME Inv, InvTrace, NEW kind, NEW p \in Panes, NEW g \in Gens, Take(kind, p, g)
  PROVE  /\ ChildrenTrue(work, events')
         /\ Reported(work[g], events, g) /\ 1 \in 1 .. Len(events)
         /\ events[1].kind = kind /\ events[1].gen = g
         /\ Cardinality(Waiting(events', g)) =
              Cardinality(Waiting(events, g)) - (IF kind = "output" THEN 1 ELSE 0)
         /\ Waiting(events, g) = {} => Waiting(events', g) = {}
         /\ \A q \in Panes :
              (kind = "output" /\ slot[q].gen = g) \/ Follows(slot[q], work, events', q)
         /\ \A q \in Panes \ {p} : slot[q].gen # g
<1>1. events \in Seq(Event) /\ events # <<>> /\ events' = Tail(events) /\ Len(events) \in Nat
      /\ Head(events) = events[1] /\ 1 \in 1 .. Len(events)
      /\ events[1].kind = kind /\ events[1].pane = p /\ events[1].gen = g
  BY DEF Take, Inv, Signed
<1>2. ChildrenTrue(work, events) /\ \A q \in Panes : Follows(slot[q], work, events, q)
  BY DEF InvTrace, Trace
<1>3. ChildrenTrue(work, events')
  BY <1>1, <1>2, ReportedTail DEF ChildrenTrue
<1>4. ASSUME NEW h
      PROVE  /\ Waiting(events, h) = {} => Waiting(events', h) = {}
             /\ Cardinality(Waiting(events', h)) =
                  Cardinality(Waiting(events, h)) - (IF kind = "output" /\ g = h THEN 1 ELSE 0)
             /\ Cardinality(Waiting(events, h)) \in Nat
  BY <1>1, WaitingTail, WaitingFinite
<1>5. ASSUME NEW q \in Panes, ~(kind = "output" /\ slot[q].gen = g)
      PROVE  Follows(slot[q], work, events', q)
  <2> DEFINE h == slot[q].gen
  <2>1. Follows(slot[q], work, events, q)
    BY <1>2
  <2>2. /\ Waiting(events, h) = {} => Waiting(events', h) = {}
        /\ Cardinality(Waiting(events', h)) = Cardinality(Waiting(events, h))
    BY <1>4, <1>5
  <2> QED
    BY <2>1, <2>2 DEF Follows
<1>6. ASSUME NEW q \in Panes \ {p}
      PROVE  slot[q].gen # g
  <2>1. work[g].pane = p
    BY <1>1 DEF Inv, Signed
  <2>2. g # 0
    BY DEF Gens
  <2> QED
    BY <1>2, <2>1, <2>2 DEF Follows
<1>7. Reported(work[g], events, g)
  BY <1>2 DEF ChildrenTrue
<1>8. Cardinality(Waiting(events', g)) =
        Cardinality(Waiting(events, g)) - (IF kind = "output" THEN 1 ELSE 0)
      /\ (Waiting(events, g) = {} => Waiting(events', g) = {})
  BY <1>4
<1> QED
  BY <1>1, <1>3, <1>5, <1>6, <1>7, <1>8

\* Any event but output leaves the trace as it is.
LEMMA TakenTrace ==
  ASSUME Inv, InvTrace, NEW kind, kind # "output", NEW p \in Panes, NEW g \in Gens,
         Take(kind, p, g)
  PROVE  Trace(events')
  BY TakeTraces DEF Trace

\* A chunk is fed to the terminal: one less in the channel, one more shown.
LEMMA ShownFaithful ==
  ASSUME Inv, InvTrace, NEW p \in Panes, NEW g \in Gens, IsProcess(p, g),
         Take("output", p, g),
         NEW o, o = [At(p) EXCEPT !.slot.screen = @ \union {g}, !.work[g].shown = @ + 1]
  PROVE  Faithful(o, events', p)
<1> DEFINE a == At(p)
           s == [slot[p] EXCEPT !.screen = @ \union {g}]
           w == [work[g] EXCEPT !.shown = @ + 1]
<1>1. Linked(a, next) /\ a.slot = slot[p] /\ a.work = work
  BY AtSettled
<1>2. a \in Owner /\ slot[p] \in Slot /\ work[g] \in Worker /\ slot[p].gen = g /\ g # 0
      /\ work[g].shown \in Nat /\ work[g].made \in Nat /\ work \in [Gens -> Worker]
  <2>1. a \in Owner /\ slot[p] \in Slot /\ work \in [Gens -> Worker]
    BY <1>1 DEF Linked, Owner
  <2>2. work[g] \in Worker /\ slot[p].gen = g /\ g # 0
    BY <2>1 DEF IsProcess, Gens
  <2> QED
    BY <2>1, <2>2 DEF Worker
<1>3. s.gen = g /\ s.eof = slot[p].eof /\ s.exited = slot[p].exited
  BY <1>2 DEF Slot
<1>4. /\ w.pane = work[g].pane /\ w.made = work[g].made /\ w.shown = work[g].shown + 1
      /\ w.reader = work[g].reader /\ w.reaper = work[g].reaper
      /\ w.finished = work[g].finished
  BY <1>2 DEF Worker
<1> DEFINE b == [a EXCEPT !.slot = s]
<1>5. o = [b EXCEPT !.work[g] = w] /\ b.work = work /\ b.slot = s
  BY <1>1, <1>2 DEF Owner
<1> HIDE DEF a, s, w
<1>6. o.slot = s /\ \A h \in Gens : o.work[h] = IF h = g THEN w ELSE work[h]
  <2>1. o.slot = b.slot /\ o.work = [b.work EXCEPT ![g] = w]
    BY <1>2, <1>5 DEF Owner
  <2> QED
    BY <1>2, <1>5, <2>1
<1>7. /\ ChildrenTrue(work, events')
      /\ Cardinality(Waiting(events', g)) = Cardinality(Waiting(events, g)) - 1
      /\ Waiting(events, g) = {} => Waiting(events', g) = {}
  BY TakeTraces
<1>8. Follows(slot[p], work, events, p) /\ Cardinality(Waiting(events, g)) \in Nat
  BY WaitingFinite DEF InvTrace, Trace, Inv, Signed
<1>9. work[g].pane = p /\ ~work[g].finished
      /\ work[g].shown + Cardinality(Waiting(events, g)) = work[g].made
      /\ (slot[p].eof => ~work[g].reader /\ Waiting(events, g) = {})
      /\ (slot[p].exited => ~work[g].reaper)
  BY <1>2, <1>8 DEF Follows
<1>10. ChildrenTrue(o.work, events')
  <2>1. ASSUME NEW h \in Gens
        PROVE  Complete(o.work[h]) /\ Reported(o.work[h], events', h)
    <3>1. Complete(work[h]) /\ Reported(work[h], events', h)
      BY <1>7 DEF ChildrenTrue
    <3>2. CASE h = g
      BY <1>4, <1>6, <1>9, <3>1, <3>2 DEF Complete, Reported
    <3>3. CASE h # g
      BY <1>6, <3>1, <3>3
    <3> QED
      BY <3>2, <3>3
  <2> QED
    BY <2>1 DEF ChildrenTrue
<1>11. Beside(o, p)
  <2>1. \A h \in Gens : work[h].pane # p => o.work[h] = work[h]
    BY <1>6, <1>9
  <2> QED
    BY <2>1 DEF Beside, Alike
<1>12. Follows(o.slot, o.work, events', p)
  <2>1. o.work[g] = w
    BY <1>6
  <2>2. w.shown + Cardinality(Waiting(events', g)) = w.made
    BY <1>2, <1>4, <1>7, <1>8, <1>9
  <2> QED
    BY <1>2, <1>3, <1>4, <1>6, <1>7, <1>9, <2>1, <2>2 DEF Follows
<1> QED
  BY <1>10, <1>11, <1>12 DEF Faithful

\* The end of the output is noted: the reader is gone, and what it read before
\* came before.  The exit is noted: the reaper has reported.
LEMMA NotedFaithful ==
  ASSUME Inv, InvTrace, NEW p \in Panes, NEW g \in Gens, IsProcess(p, g), NEW o,
         \/ Take("readClosed", p, g) /\ o = [At(p) EXCEPT !.slot.eof = TRUE]
         \/ Take("exited", p, g) /\ o = [WaitComplete(At(p)) EXCEPT !.slot.exited = TRUE]
  PROVE  Faithful(o, events', p)
<1>1. Linked(At(p), next) /\ At(p).slot = slot[p] /\ At(p).work = work
  BY AtSettled
<1>2. At(p) \in Owner /\ slot[p] \in Slot /\ slot[p].gen = g /\ g # 0
  BY <1>1 DEF Linked, Owner, IsProcess, Gens
<1>3. Trace(events')
  BY TakenTrace
<1>4. Follows(slot[p], work, events', p) /\ ChildrenTrue(work, events')
  BY <1>3 DEF Trace
<1>5. CASE Take("readClosed", p, g) /\ o = [At(p) EXCEPT !.slot.eof = TRUE]
  <2>1. o.work = work /\ o.slot.gen = g /\ o.slot.exited = slot[p].exited
    BY <1>1, <1>2, <1>5 DEF Owner, Slot
  <2>2. ~work[g].reader /\ Waiting(events', g) = {}
    <3>1. ~work[g].reader /\ \A j \in Waiting(events, g) : j < 1
      BY <1>5, TakeTraces DEF Reported
    <3>2. Waiting(events, g) = {}
      BY <3>1 DEF Waiting
    <3> QED
      BY <1>5, <3>1, <3>2, TakeTraces
  <2>3. Follows(o.slot, o.work, events', p)
    BY <1>2, <1>4, <2>1, <2>2 DEF Follows
  <2>4. Beside(o, p)
    BY <2>1 DEF Beside, Alike
  <2> QED
    BY <1>4, <2>1, <2>3, <2>4 DEF Faithful
<1>6. CASE Take("exited", p, g) /\ o = [WaitComplete(At(p)) EXCEPT !.slot.exited = TRUE]
  <2>1. o.work = work /\ o.slot.gen = g /\ o.slot.eof = slot[p].eof
    BY <1>1, <1>2, <1>6 DEF Owner, Slot, WaitComplete
  <2>2. ~work[g].reaper
    BY <1>6, TakeTraces DEF Reported
  <2>3. Follows(o.slot, o.work, events', p)
    BY <1>2, <1>4, <2>1, <2>2 DEF Follows
  <2>4. Beside(o, p)
    BY <2>1 DEF Beside, Alike
  <2> QED
    BY <1>4, <2>1, <2>3, <2>4 DEF Faithful
<1> QED
  BY <1>5, <1>6

LEMMA HandleEventTraces ==
  ASSUME Inv, InvTrace, HandleEvent
  PROVE  InvTrace'
<1>1. PICK p \in Panes, g \in Gens :
        \/ HandleOutput(p, g) \/ HandleReadClosed(p, g) \/ HandleExited(p, g)
        \/ HandleInputFailed(p, g)
        \/ HandlePipeInput(p, g) \/ HandlePipeClosed(p, g) \/ HandlePipeExited(p, g)
        \/ HandlePipeDrained(p, g)
  BY DEF HandleEvent
<1> DEFINE a == At(p)
<1>2. Linked(a, next) /\ Settled(a.slot) /\ next \in Nat
  BY AtSettled
<1>3. PICK kind : Take(kind, p, g) /\ (kind = "output" <=> HandleOutput(p, g))
  <2>1. ASSUME NEW k, NEW l, Take(k, p, g), Take(l, p, g)
        PROVE  k = l
    BY <2>1 DEF Take
  <2>2. CASE HandleOutput(p, g)
    BY <2>2 DEF HandleOutput
  <2>3. CASE ~HandleOutput(p, g)
    <3>1. PICK k \in EventKinds \ {"output"} : Take(k, p, g)
      BY <1>1, <2>3 DEF HandleReadClosed, HandleExited, HandleInputFailed, HandlePipeInput,
                        HandlePipeClosed, HandlePipeExited, HandlePipeDrained, EventKinds
    <3> QED
      BY <2>3, <3>1
  <2> QED
    BY <2>2, <2>3
<1>4. ASSUME Ignore, Trace(events')
      PROVE  InvTrace'
  BY <1>4 DEF Ignore, InvTrace, Trace, ChildrenTrue
<1>5. CASE HandleOutput(p, g)
  <2> DEFINE o == [a EXCEPT !.slot.screen = @ \union {g}, !.work[g].shown = @ + 1]
  <2>1. Take("output", p, g)
    BY <1>5 DEF HandleOutput
  <2>2. CASE ~IsProcess(p, g)
    <3>1. \A q \in Panes : slot[q].gen # g
      BY <2>1, <2>2, TakeTraces DEF IsProcess
    <3>2. Trace(events')
      BY <2>1, <3>1, TakeTraces DEF Trace
    <3>3. Ignore
      BY <1>5, <2>2 DEF HandleOutput
    <3> QED
      BY <1>4, <3>2, <3>3
  <2>3. CASE IsProcess(p, g)
    <3>1. Linked(o, next) /\ Settled(o.slot)
      BY <2>3, ShownKeeps
    <3>2. Faithful(o, events', p)
      BY <2>1, <2>3, ShownFaithful
    <3>3. PICK reply \in BOOLEAN, remain \in BOOLEAN : Commit(p, PaneOutput(o, reply, remain))
      BY <1>5, <2>3 DEF HandleOutput
    <3> HIDE DEF o
    <3>4. Traced(o, PaneOutput(o, reply, remain))
      BY <1>2, <3>1, PaneOutputTraced
    <3>5. Faithful(PaneOutput(o, reply, remain), events', p)
      BY <3>1, <3>2, <3>4, FaithfulKeeps
    <3>6. \A q \in Panes \ {p} : Follows(slot[q], work, events', q)
      BY <2>1, TakeTraces
    <3> QED
      BY <3>3, <3>5, <3>6, CommitTraces
  <2> QED
    BY <2>2, <2>3
<1>6. CASE ~HandleOutput(p, g)
  <2>1. Trace(events') /\ Faithful(a, events', p)
        /\ \A q \in Panes \ {p} : Follows(slot[q], work, events', q)
    <3>1. Trace(events')
      BY <1>3, <1>6, TakenTrace
    <3> QED
      BY <3>1, AtFaithful DEF Trace
  <2>2. ASSUME NEW o, Linked(o, next), Faithful(o, events', p), NEW remain \in BOOLEAN,
               Commit(p, Finish(o, remain))
        PROVE  InvTrace'
    <3>1. Faithful(Finish(o, remain), events', p)
      BY <1>2, <2>2, FinishFaithful
    <3> QED
      BY <2>1, <2>2, <3>1, CommitTraces
  <2>3. ASSUME Ignore
        PROVE  InvTrace'
    BY <1>4, <2>1, <2>3
  <2>4. Linked(ClosePipe(a), next) /\ Faithful(ClosePipe(a), events', p)
    BY <1>2, <2>1, ClosePipeKeeps, ClosePipeTraced, FaithfulKeeps
  <2>5. CASE HandleReadClosed(p, g) \/ HandleExited(p, g)
    <3>1. CASE ~IsProcess(p, g)
      BY <2>3, <2>5, <3>1 DEF HandleReadClosed, HandleExited
    <3>2. CASE IsProcess(p, g) /\ HandleReadClosed(p, g)
      <4> DEFINE o == [a EXCEPT !.slot.eof = TRUE]
      <4>1. PICK remain \in BOOLEAN : Commit(p, Finish(o, remain))
        BY <3>2 DEF HandleReadClosed
      <4>2. Linked(o, next)
        BY NotedKeeps
      <4>3. Faithful(o, events', p)
        BY <3>2, NotedFaithful DEF HandleReadClosed
      <4> HIDE DEF o
      <4> QED
        BY <2>2, <4>1, <4>2, <4>3
    <3>3. CASE IsProcess(p, g) /\ HandleExited(p, g)
      <4> DEFINE o == [WaitComplete(a) EXCEPT !.slot.exited = TRUE]
      <4>1. PICK remain \in BOOLEAN : Commit(p, Finish(o, remain))
        BY <3>3 DEF HandleExited
      <4>2. Linked(o, next)
        BY NotedKeeps
      <4>3. Faithful(o, events', p)
        BY <3>3, NotedFaithful DEF HandleExited
      <4> HIDE DEF o
      <4> QED
        BY <2>2, <4>1, <4>2, <4>3
    <3> QED
      BY <2>5, <3>1, <3>2, <3>3
  <2>6. CASE HandleInputFailed(p, g)
    BY <1>2, <2>1, <2>3, <2>6, InputFailedTraced, CommitTraced DEF HandleInputFailed
  <2>7. CASE HandlePipeInput(p, g)
    <3>1. Ignore \/ Commit(p, Write(a)) \/ Commit(p, ClosePipe(a))
      BY <2>7 DEF HandlePipeInput
    <3> QED
      BY <1>2, <2>1, <2>3, <3>1, WriteTraced, ClosePipeTraced, CommitTraced
  <2>8. CASE HandlePipeClosed(p, g) \/ HandlePipeExited(p, g)
    <3>1. Ignore \/ \E remain \in BOOLEAN : Commit(p, Finish(ClosePipe(a), remain))
      BY <2>8 DEF HandlePipeClosed, HandlePipeExited
    <3> QED
      BY <2>2, <2>3, <2>4, <3>1
  <2>9. CASE HandlePipeDrained(p, g)
    BY <1>2, <2>1, <2>2, <2>9 DEF HandlePipeDrained
  <2> QED
    BY <1>1, <1>6, <2>5, <2>6, <2>7, <2>8, <2>9
<1> QED
  BY <1>5, <1>6

\* A writer is no part of the trace of its child.
LEMMA WriterTraces ==
  ASSUME Inv, InvTrace, NEW g \in Gens, NEW w, Thread(g, w), Alike(work[g], w),
         UNCHANGED events
  PROVE  InvTrace'
<1>1. slot' = slot /\ \A h \in Gens : work'[h] = IF h = g THEN w ELSE work[h]
  BY DEF Thread, Inv, Children
<1>2. \A h \in Gens : Alike(work[h], work'[h])
  BY <1>1 DEF Alike
<1>3. ChildrenTrue(work', events')
  BY <1>2, ChildrenAlike DEF InvTrace, Trace
<1>4. ASSUME NEW p \in Panes
      PROVE  Follows(slot'[p], work', events', p)
  <2>1. Follows(slot[p], work, events, p) /\ (slot[p].gen # 0 => slot[p].gen \in Gens)
    BY DEF InvTrace, Trace, Inv, Refers
  <2> QED
    BY <1>1, <1>2, <2>1 DEF Follows, Alike
<1> QED
  BY <1>3, <1>4 DEF InvTrace, Trace

\* A thread tells the owner what it did to its child, and nothing else.
LEMMA SendTraces ==
  ASSUME Inv, InvTrace, NEW g \in Gens, NEW w, Thread(g, w), NEW kind \in EventKinds,
         Send(kind, g), work[g].kind # "none",
         w.pane = work[g].pane, w.shown = work[g].shown, w.finished = work[g].finished,
         w.reader => work[g].reader, w.reaper => work[g].reaper,
         w.made # work[g].made => work[g].reader,
         kind = "output" => work[g].reader,
         work[g].kind = "process" =>
           w.made = work[g].made + (IF kind = "output" THEN 1 ELSE 0),
         kind = "exited" => ~w.reaper, kind = "readClosed" => ~w.reader
  PROVE  InvTrace'
<1> DEFINE e == [kind |-> kind, pane |-> work[g].pane, gen |-> g]
<1>1. slot' = slot /\ work'[g] = w /\ \A h \in Gens \ {g} : work'[h] = work[h]
  BY DEF Thread, Inv, Children
<1>2. events \in Seq(Event) /\ e \in Event /\ e.kind = kind /\ e.gen = g
      /\ events' = Append(events, e)
  BY DEF Inv, Signed, Children, Counted, Event, Send
<1> HIDE DEF e
<1>3. ChildrenTrue(work', events')
  <2>1. ASSUME NEW h \in Gens
        PROVE  Complete(work'[h]) /\ Reported(work'[h], events', h)
    <3>1. Complete(work[h]) /\ Reported(work[h], events, h)
      BY DEF InvTrace, Trace, ChildrenTrue
    <3>2. CASE h = g
      <4>1. Complete(w)
        BY <3>1, <3>2 DEF Complete
      <4>2. Reported(w, events', g)
        BY <1>2, <3>1, <3>2, ReportedAppend
      <4> QED
        BY <1>1, <3>2, <4>1, <4>2
    <3>3. CASE h # g
      <4>1. Reported(work[h], events', h)
        BY <1>2, <3>1, <3>3, ReportedAppend
      <4> QED
        BY <1>1, <3>1, <3>3, <4>1
    <3> QED
      BY <3>2, <3>3
  <2> QED
    BY <2>1 DEF ChildrenTrue
<1>4. ASSUME NEW p \in Panes
      PROVE  Follows(slot'[p], work', events', p)
  <2> DEFINE h == slot[p].gen
  <2>1. Follows(slot[p], work, events, p) /\ slot'[p] = slot[p]
        /\ (h # 0 => h \in Gens /\ work[h].kind = "process" /\ work[h] \in Worker)
    BY <1>1 DEF InvTrace, Trace, Inv, Refers, Children
  <2>2. CASE h = 0
    BY <2>1, <2>2 DEF Follows
  <2>3. CASE h # 0 /\ ~(h = g /\ kind = "output")
    <3>1. Waiting(events', h) = Waiting(events, h) \union {}
      BY <1>2, <2>3, WaitingAppend
    <3>2. Waiting(events', h) = Waiting(events, h)
      BY <3>1
    <3>3. work'[h].pane = work[h].pane /\ work'[h].made = work[h].made
          /\ work'[h].shown = work[h].shown /\ work'[h].finished = work[h].finished
          /\ (work'[h].reader => work[h].reader) /\ (work'[h].reaper => work[h].reaper)
      <4>1. CASE h = g
        <5>1. w.made = work[g].made
          BY <2>1, <2>3, <4>1 DEF Worker
        <5> QED
          BY <1>1, <4>1, <5>1
      <4>2. CASE h # g
        BY <1>1, <2>1, <2>3, <4>2
      <4> QED
        BY <4>1, <4>2
    <3> QED
      BY <2>1, <2>3, <3>2, <3>3 DEF Follows
  <2>4. CASE h # 0 /\ h = g /\ kind = "output"
    <3>1. Cardinality(Waiting(events', g)) = Cardinality(Waiting(events, g)) + 1
          /\ Cardinality(Waiting(events, g)) \in Nat
      BY <1>2, <2>4, WaitingMore, WaitingFinite
    <3>2. w.made = work[g].made + 1 /\ work[g].shown \in Nat /\ work[g].made \in Nat
      BY <2>1, <2>4 DEF Worker
    <3>3. work[g].pane = p /\ ~work[g].finished /\ ~slot[p].eof
          /\ work[g].shown + Cardinality(Waiting(events, g)) = work[g].made
          /\ (slot[p].exited => ~work[g].reaper)
      BY <2>1, <2>4 DEF Follows
    <3>4. w.shown + Cardinality(Waiting(events', g)) = w.made
      BY <3>1, <3>2, <3>3
    <3> QED
      BY <1>1, <2>1, <2>4, <3>3, <3>4 DEF Follows
  <2> QED
    BY <2>2, <2>3, <2>4
<1> QED
  BY <1>3, <1>4 DEF InvTrace, Trace

LEMMA LeftAlike ==
  ASSUME NEW w \in Worker
  PROVE  Alike(w, Left(w))
<1>1. Left(w) \in {w, [w EXCEPT !.writer = "ended"]}
  BY DEF Left
<1> QED
  BY <1>1 DEF Worker, Alike

LEMMA ThreadsTrace ==
  ASSUME Inv, InvTrace, Threads
  PROVE  InvTrace'
<1>1. PICK g \in Gens :
        \/ Reap(g) \/ Read(g) \/ ReadEnds(g) \/ WriterTakes(g) \/ WriterTells(g)
        \/ \E ok \in BOOLEAN : WriterWrote(g, ok)
  BY DEF Threads
<1> DEFINE w == work[g]
<1>2. Counted(w) /\ w \in Worker
  BY DEF Inv, Children, Counted
<1>3. CASE Reap(g)
  <2> DEFINE v == [w EXCEPT !.reaper = FALSE]
             kind == Of(g, "exited", "pipeExited")
  <2>1. v.pane = w.pane /\ v.made = w.made /\ v.shown = w.shown /\ v.finished = w.finished
        /\ v.reader = w.reader /\ ~v.reaper /\ w.made \in Nat
    BY <1>2 DEF Worker
  <2>2. Thread(g, v) /\ Send(kind, g) /\ w.kind # "none"
    BY <1>2, <1>3 DEF Reap, Counted
  <2>3. kind \in {"exited", "pipeExited"} /\ kind \in EventKinds /\ w.made + 0 = w.made
    BY <2>1 DEF Of, EventKinds
  <2> HIDE DEF v, kind
  <2> QED
    BY <2>1, <2>2, <2>3, SendTraces
<1>4. CASE Read(g)
  <2> DEFINE v == [w EXCEPT !.made = @ + 1]
             kind == Of(g, "output", "pipeInput")
  <2>1. v.pane = w.pane /\ v.made = w.made + 1 /\ v.shown = w.shown
        /\ v.finished = w.finished /\ v.reader = w.reader /\ v.reaper = w.reaper
    BY <1>2 DEF Worker
  <2>2. Thread(g, v) /\ Send(kind, g) /\ w.reader /\ w.kind # "none"
    BY <1>2, <1>4 DEF Read, Counted
  <2>3. kind \in {"output", "pipeInput"} /\ kind \in EventKinds
        /\ (w.kind = "process" => kind = "output")
    BY DEF Of, EventKinds
  <2> HIDE DEF v, kind
  <2> QED
    BY <2>1, <2>2, <2>3, SendTraces
<1>5. CASE ReadEnds(g)
  <2> DEFINE v == [w EXCEPT !.reader = FALSE]
             kind == Of(g, "readClosed", "pipeClosed")
  <2>1. v.pane = w.pane /\ v.made = w.made /\ v.shown = w.shown /\ v.finished = w.finished
        /\ ~v.reader /\ v.reaper = w.reaper /\ w.made \in Nat
    BY <1>2 DEF Worker
  <2>2. Thread(g, v) /\ Send(kind, g) /\ w.kind # "none"
    BY <1>2, <1>5 DEF ReadEnds, Counted
  <2>3. kind \in {"readClosed", "pipeClosed"} /\ kind \in EventKinds /\ w.made + 0 = w.made
    BY <2>1 DEF Of, EventKinds
  <2> HIDE DEF v, kind
  <2> QED
    BY <2>1, <2>2, <2>3, SendTraces
<1>6. CASE WriterTakes(g)
  <2>1. PICK v : Thread(g, v) /\ \E x : v = [w EXCEPT !.queue = @ - 1, !.writer = x]
    BY <1>6 DEF WriterTakes
  <2>2. Alike(w, v)
    BY <1>2, <2>1 DEF Worker, Alike
  <2> QED
    BY <1>6, <2>1, <2>2, WriterTraces DEF WriterTakes
<1>7. ASSUME NEW ok \in BOOLEAN, WriterWrote(g, ok)
      PROVE  InvTrace'
  <2> DEFINE v == [w EXCEPT !.bytes = @ - 1, !.writer = AfterWrite(g, ok)]
  <2>1. Thread(g, Left(v)) /\ w.writer = "writing" /\ UNCHANGED events
    BY <1>7 DEF WriterWrote
  <2>2. AfterWrite(g, ok) \in {"failed", "drained", "idle"} /\ w.bytes - 1 \in Nat
    BY <1>2, <2>1 DEF AfterWrite, Counted, Held, Worker
  <2>3. v \in Worker /\ Alike(w, v)
    BY <1>2, <2>2 DEF Worker, Alike
  <2> HIDE DEF v
  <2>4. Alike(w, Left(v))
    BY <2>3, LeftAlike DEF Alike
  <2> QED
    BY <2>1, <2>4, WriterTraces
<1>8. CASE WriterTells(g)
  <2>1. w.kind # "none" /\ w.made \in Nat /\ w.made + 0 = w.made
    BY <1>2, <1>8 DEF WriterTells, Counted, Worker
  <2>2. ASSUME NEW v, NEW kind \in {"pipeDrained", "inputFailed", "pipeClosed"},
               Thread(g, v), Send(kind, g), Alike(w, v)
        PROVE  InvTrace'
    <3>1. v.pane = w.pane /\ v.made = w.made /\ v.shown = w.shown
          /\ v.finished = w.finished /\ v.reader = w.reader /\ v.reaper = w.reaper
      BY <2>2 DEF Alike
    <3>2. kind \in EventKinds
      BY DEF EventKinds
    <3> QED
      BY <2>1, <2>2, <3>1, <3>2, SendTraces
  <2>3. CASE Send("pipeDrained", g) /\ Thread(g, Left([w EXCEPT !.writer = "idle"]))
    <3> DEFINE v == [w EXCEPT !.writer = "idle"]
    <3>1. v \in Worker /\ Alike(w, v)
      BY <1>2 DEF Worker, Alike
    <3>2. Thread(g, Left(v))
      BY <2>3
    <3> HIDE DEF v
    <3>3. Alike(w, Left(v))
      BY <3>1, LeftAlike DEF Alike
    <3> QED
      BY <2>2, <2>3, <3>2, <3>3
  <2>4. CASE /\ Send(Of(g, "inputFailed", "pipeClosed"), g)
             /\ Thread(g, [w EXCEPT !.writer = "ended"])
    <3> DEFINE v == [w EXCEPT !.writer = "ended"]
               kind == Of(g, "inputFailed", "pipeClosed")
    <3>1. Alike(w, v)
      BY <1>2 DEF Worker, Alike
    <3>2. Thread(g, v) /\ Send(kind, g) /\ kind \in {"inputFailed", "pipeClosed"}
      BY <2>4 DEF Of
    <3> HIDE DEF v, kind
    <3> QED
      BY <2>2, <3>1, <3>2
  <2> QED
    BY <1>8, <2>3, <2>4 DEF WriterTells
<1> QED
  BY <1>1, <1>3, <1>4, <1>5, <1>6, <1>7, <1>8

-----------------------------------------------------------------------------
(* The trace of every child, and what follows from it *)

LEMMA TraceInit ==
  ASSUME Init
  PROVE  InvTrace
<1>1. events = <<>> /\ \A g \in Gens : ~work[g].finished
  BY DEF Init, NoWorker
<1>2. \A p \in Panes : slot[p].gen = 0 /\ ~slot[p].eof /\ ~slot[p].exited
  BY DEF Init, NoSlot
<1>3. ChildrenTrue(work, events)
  BY <1>1 DEF ChildrenTrue, Complete, Reported
<1> QED
  BY <1>2, <1>3 DEF InvTrace, Trace, Follows

LEMMA TraceNext ==
  ASSUME Inv, InvTrace, [Next]_vars
  PROVE  InvTrace'
<1>1. CASE UNCHANGED vars
  BY <1>1 DEF vars, InvTrace, Trace, ChildrenTrue
<1> QED
  BY <1>1, CommandTraces, HandleEventTraces, ThreadsTrace DEF Next

\* The trace of every child is kept by all the owner and the threads do: what a
\* process wrote is on the terminal or on its way (reader_thread, pane_output,
\* finish_process).
THEOREM TracesHold == Spec => []InvTrace
  BY Invariance, TraceInit, TraceNext, PTL DEF Spec

\* A pane that closes in order shows everything its process wrote, whatever the
\* order of the output, its end and the exit, of pipes turned on and off, and
\* of the events of other children in the same channel (finish_process).
THEOREM FinalOutputIsShown == Spec => []FinalOutputShown
<1>1. InvTrace => FinalOutputShown
  BY DEF InvTrace, Trace, ChildrenTrue, Complete, FinalOutputShown
<1> QED
  BY <1>1, TracesHold, PTL
=============================================================================
