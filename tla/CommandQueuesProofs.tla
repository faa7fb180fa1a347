------------------------ MODULE CommandQueuesProofs ------------------------
(***************************************************************************)
(* Proofs about CommandQueues, for any clients, hooks and channels, any    *)
(* number of jobs and batches, and any budget of a turn.                   *)
(*                                                                         *)
(* The invariant Inv relates where a queue is listed to whether it is      *)
(* blocked: a blocked queue is listed in exactly one place, a runnable one *)
(* in none, and one that is gone is listed nowhere but as the client of a  *)
(* job (Listing).  A result finds the batch it belongs to in front         *)
(* (Fronts), the batches of a client carry the numbers of its requests     *)
(* without a gap (InOrder), a channel is locked exactly while somebody     *)
(* holds it (Served), only the configuration runs until it has ended       *)
(* (StartsAlone), and what may run is on the ready list (Runnable).        *)
(*                                                                         *)
(* The handlers are proved as the code is written, as functions of the     *)
(* scheduler's table: all parts of the invariant are operators of a state  *)
(* s, and the lemmas follow a table through the helpers a handler calls,   *)
(* one after the other.  Between two of them a queue may already be back   *)
(* without being on the ready list, or its numbers may not add up yet: X   *)
(* is the set of the queues in such a suspense.  Bundle is the invariant   *)
(* of a table, Core what is left of it while a handler is under way.       *)
(***************************************************************************)
EXTENDS CommandQueues, ListProofs

-----------------------------------------------------------------------------
(* The inductive invariant                                                 *)

\* The batches the program builds, and the lists and queues of them
BatchSet == {b \in BatchType : Len(b.commands) <= MaxCommands}
Batches == {list \in Seq(BatchSet) : Len(list) <= MaxPending}
QueueSet == [pending : Batches, blocked : BOOLEAN]

\* s has the tables of the scheduler, and no others.
IsScheduler(s) ==
  s = [queues |-> s.queues, ready |-> s.ready, startup |-> s.startup,
       channels |-> s.channels, eventWaiters |-> s.eventWaiters,
       files |-> s.files, jobs |-> s.jobs]

\* What every table holds
Tables(s) ==
  /\ IsScheduler(s)
  /\ PartialFunction(s.queues, Ids, QueueSet)
  /\ s.ready \in Seq(Ids)
  /\ s.startup \in {None, Config}
  /\ PartialFunction(s.channels, Channels, ChannelType)
  /\ Cardinality(DOMAIN s.channels) <= MaxChannels
  /\ PartialFunction(s.eventWaiters, Ids, [group : Nat])
  /\ PartialFunction(s.files, Clients, [item : CommandType, batch : Nat])
  /\ PartialFunction(s.jobs, 1..MaxJobs,
       [client : Ids, item : CommandType, batch : Nat, background : BOOLEAN])

\* What is taken from the table while its commands run
Drives(d) ==
  d \in [id : Ids \cup {None}, queue : QueueSet, budget : 0..Quantum,
         replies : Seq(Nat), detach : BOOLEAN]

\* Nobody is in the list twice.
Distinct(list) == \A i, j \in DOMAIN list : list[i] = list[j] => i = j
\* Nobody waits on a channel twice.
ListsDistinct(s) ==
  \A n \in DOMAIN s.channels : /\ Distinct(s.channels[n].waiters)
                               /\ Distinct(s.channels[n].lockers)

\* The places where c is listed: the channels it waits for and those it queues
\* to lock, the events, files and panes it waits for, and its jobs
WaitsAt(s, c) == {n \in DOMAIN s.channels : c \in Range(s.channels[n].waiters)}
LocksAt(s, c) == {n \in DOMAIN s.channels : c \in Range(s.channels[n].lockers)}
JobsAt(s, c) == {j \in DOMAIN s.jobs : s.jobs[j].client = c /\ ~s.jobs[j].background}
Places(s, o, c) ==
  ({"waiter"} \X WaitsAt(s, c)) \cup ({"locker"} \X LocksAt(s, c))
    \cup ({"event"} \X ({c} \cap DOMAIN s.eventWaiters))
    \cup ({"file"} \X ({c} \cap DOMAIN s.files))
    \cup ({"outside"} \X ({c} \cap DOMAIN o))
    \cup ({"job"} \X JobsAt(s, c))

\* The queue of c, which is in the table unless its commands are running
Has(s, d, c) == c \in DOMAIN s.queues \/ d.id = c
QueueIn(s, d, c) == IF d.id = c THEN d.queue ELSE s.queues[c]

\* There is just one.
OnePlace(S) == \E p : S = {p}

\* A blocked queue is listed in one place, another in none.  Who has no queue is
\* at most the client of a job; the clients of P are those that are still there.
Listing(s, o, d, P) ==
  /\ ListsDistinct(s)
  /\ d.id \notin DOMAIN s.queues
  /\ d.id \notin P => ~d.queue.blocked
  /\ DOMAIN s.queues \subseteq P
  /\ \A c \in Ids : Has(s, d, c) =>
       IF QueueIn(s, d, c).blocked THEN OnePlace(Places(s, o, c)) ELSE Places(s, o, c) = {}
  /\ \A c \in Ids : ~Has(s, d, c) =>
       /\ Places(s, o, c) \subseteq {"job"} \X JobsAt(s, c)
       /\ c \in P => Places(s, o, c) = {}

\* The batch in front of c's queue is the one meant.
AtFront(s, d, c, batch) ==
  Has(s, d, c) => LET pending == QueueIn(s, d, c).pending
                  IN pending # <<>> /\ pending[1].id = batch
\* Results belong to the batch in front.
Fronts(s, o, d) ==
  /\ \A j \in DOMAIN s.jobs :
       ~s.jobs[j].background => AtFront(s, d, s.jobs[j].client, s.jobs[j].batch)
  /\ \A c \in DOMAIN s.files : AtFront(s, d, c, s.files[c].batch)
  /\ \A c \in DOMAIN o : AtFront(s, d, c, o[c].batch)

\* Replies that were sent, those of the drive and the batches of the queue are
\* numbered as the requests came.
InOrder(s, d, ak, an, P, X) ==
  \A c \in Clients :
    LET a == Len(an[c])
        r == IF d.id = c THEN Len(d.replies) ELSE 0
        pending == QueueIn(s, d, c).pending
    IN /\ \A i \in 1..a : an[c][i] = i
       /\ c \notin X =>
           /\ d.id = c => \A i \in 1..r : d.replies[i] = a + i
           /\ Has(s, d, c) => \A i \in 1..Len(pending) : pending[i].id = a + r + i
           /\ c \in P => ak[c] = a + r + IF Has(s, d, c) THEN Len(pending) ELSE 0

\* A locked channel has a holder, and a wake-up is only kept when nobody waits.
Served(s, h) ==
  /\ \A n \in Channels :
       IF n \in DOMAIN s.channels /\ s.channels[n].locked
       THEN OnePlace(h[n]) ELSE h[n] = {}
  /\ \A n \in DOMAIN s.channels :
       /\ s.channels[n].woken => s.channels[n].waiters = <<>>
       /\ s.channels[n].lockers # <<>> => s.channels[n].locked

\* Until the configuration has ended it alone is ready or runs.
StartsAlone(s, lv, d) ==
  s.startup # None =>
    /\ Range(s.ready) \subseteq {Config}
    /\ d.id \in {None, Config}
    /\ Config \in lv
    /\ Has(s, d, Config)

\* What may run is ready.
Runnable(s, X) ==
  \A c \in DOMAIN s.queues \ X :
    (/\ s.queues[c].pending # <<>> /\ ~s.queues[c].blocked
     /\ s.startup \in {None, c})
      => c \in Range(s.ready)

\* The other variables
Control(lv, cl, o, d, ak, an, h) ==
  /\ Drives(d)
  /\ d.id = None => d = Nobody
  /\ d.id \in Internal => d.id \in lv
  /\ d.detach => d.id \in Clients
  /\ lv \subseteq Ids
  /\ cl \subseteq lv \cap Clients
  /\ PartialFunction(o, Ids, [kind : {"pane", "stdin"}, group : Nat, batch : Nat])
  /\ ak \in [Clients -> 0..RequestBound]
  /\ an \in [Clients -> Seq(Nat)]
  /\ h \in [Channels -> SUBSET Ids]

\* The invariant, of given values
Bundle(s, lv, cl, o, d, ak, an, h, X) ==
  /\ Tables(s)
  /\ Control(lv, cl, o, d, ak, an, h)
  /\ Listing(s, o, d, lv \ cl)
  /\ Fronts(s, o, d)
  /\ InOrder(s, d, ak, an, lv \ cl, X)
  /\ Served(s, h)
  /\ StartsAlone(s, lv, d)
  /\ Runnable(s, X)

\* The invariant
Inv == Bundle(scheduler, live, closing, outside, driving, asked, answered, holders, {})

-----------------------------------------------------------------------------
(* Lists in ascending order                                                *)

\* The list of a set is a sequence of its elements, and of no others.
LEMMA AscendingSequence ==
  ASSUME NEW S, IsFiniteSet(S), S \subseteq Nat
  PROVE  /\ Ascending(S) \in Seq(S)
         /\ Len(Ascending(S)) = Cardinality(S)
         /\ Range(Ascending(S)) = S
<1> DEFINE a == Ascending(S)
           n == Cardinality(S)
<1> HIDE DEF a, n
<1>1. /\ n \in Nat
      /\ a \in [1..n -> S]
      /\ \A x \in S : \E i \in 1..n : a[i] = x
  BY AscendingLists DEF a, n
<1>2. a \in Seq(S) /\ Len(a) = n /\ DOMAIN a = 1..n
  BY <1>1
<1>3. Range(a) = S
  BY <1>1, <1>2 DEF Range
<1> QED BY <1>2, <1>3 DEF a, n

-----------------------------------------------------------------------------
(* Lists, batches and commands                                             *)

\* What the constants are.
LEMMA Constants ==
  /\ IsFiniteSet(Ids) /\ Ids \subseteq Nat /\ None \notin Ids
  /\ Clients \subseteq Ids /\ Hooks \subseteq Ids /\ Config \in Ids
  /\ Internal \subseteq Ids /\ Ids = Clients \cup Internal
  /\ Clients \cap Internal = {} /\ Config \notin Hooks /\ Config \notin Clients
  /\ Hooks \subseteq Internal /\ Config \in Internal /\ Internal = Hooks \cup {Config}
  /\ IsFiniteSet(Channels) /\ Channels \subseteq Nat
  /\ Quantum \in Nat \ {0} /\ MaxPending \in Nat \ {0}
  /\ MaxJobs \in Nat \ {0} /\ MaxCommands \in Nat \ {0}
  /\ MaxChannels \in Nat /\ MaxDepth \in Nat /\ RequestBound \in Nat
  /\ Sizes \subseteq 0..MaxCommands
BY QueueAssumption DEF Ids, Internal, None

\* Sets of ids and of channels can be walked.
LEMMA WalkedIds ==
  ASSUME NEW S, S \subseteq Ids
  PROVE  /\ IsFiniteSet(S) /\ S \subseteq Nat
         /\ Ascending(S) \in Seq(S) /\ Ascending(S) \in Seq(Ids)
         /\ Range(Ascending(S)) = S
<1>1. IsFiniteSet(S) /\ S \subseteq Nat
  BY Constants, FS_Subset
<1>2. Ascending(S) \in Seq(S) /\ Range(Ascending(S)) = S
  BY <1>1, AscendingSequence
<1>3. Ascending(S) \in Seq(Ids)
  BY <1>2
<1> QED BY <1>1, <1>2, <1>3

\* The channels of a table can be walked in their order.
LEMMA WalkedChannels ==
  ASSUME NEW S, S \subseteq Channels
  PROVE  /\ IsFiniteSet(S) /\ S \subseteq Nat
         /\ Ascending(S) \in Seq(S)
         /\ Range(Ascending(S)) = S
<1>1. IsFiniteSet(S) /\ S \subseteq Nat
  BY Constants, FS_Subset
<1>2. Ascending(S) \in Seq(S) /\ Range(Ascending(S)) = S
  BY <1>1, AscendingSequence
<1> QED BY <1>1, <1>2

\* What is kept of a list.
LEMMA KeptOfList ==
  ASSUME NEW T, NEW list \in Seq(T), NEW I, I \subseteq DOMAIN list
  PROVE  /\ Kept(list, I) \in Seq(T)
         /\ Len(Kept(list, I)) <= Len(list)
         /\ \A k \in DOMAIN Kept(list, I) : \E i \in I : Kept(list, I)[k] = list[i]
         /\ \A i \in I : \E k \in DOMAIN Kept(list, I) : Kept(list, I)[k] = list[i]
         /\ Distinct(list) => Distinct(Kept(list, I))
<1> DEFINE a == Ascending(I)
           n == Cardinality(I)
           kept == [k \in 1..n |-> list[a[k]]]
<1>1. DOMAIN list = 1..Len(list) /\ Len(list) \in Nat
  OBVIOUS
<1> DEFINE m == Len(list)
<1>2. IsFiniteSet(1..m) /\ Cardinality(1..m) = m
  <2> HIDE DEF m
  <2>1. m \in Nat
    BY <1>1 DEF m
  <2> QED BY <2>1, FS_Interval
<1>3. IsFiniteSet(I) /\ I \subseteq Nat /\ n <= Len(list)
  <2>1. I \in SUBSET (1..m)
    BY <1>1
  <2> QED BY <1>1, <1>2, <2>1, FS_Subset
<1>4. /\ n \in Nat
      /\ a \in [1..n -> I]
      /\ \A i, j \in 1..n : a[i] = a[j] => i = j
      /\ \A x \in I : \E i \in 1..n : a[i] = x
  BY <1>3, AscendingLists
<1> HIDE DEF a, n
<1>5. kept \in Seq(T) /\ Len(kept) = n /\ DOMAIN kept = 1..n
  <2>1. \A k \in 1..n : list[a[k]] \in T
    BY <1>4
  <2> QED BY <2>1, <1>4
<1>6. \A k \in 1..n : \E i \in I : kept[k] = list[i]
  BY <1>4
<1>7. \A i \in I : \E k \in 1..n : kept[k] = list[i]
  BY <1>4
<1>8. ASSUME Distinct(list) PROVE Distinct(kept)
  BY <1>4, <1>5, <1>8 DEF Distinct
<1>9. Kept(list, I) = kept
  BY DEF Kept, a, n
<1> HIDE DEF kept
<1> QED BY <1>3, <1>5, <1>6, <1>7, <1>8, <1>9

\* retain leaves the others, in a list of their own.
LEMMA OthersOfList ==
  ASSUME NEW T, NEW list \in Seq(T), NEW c
  PROVE  /\ Others(list, c) \in Seq(T)
         /\ Range(Others(list, c)) = Range(list) \ {c}
         /\ Distinct(list) => Distinct(Others(list, c))
         /\ list = <<>> => Others(list, c) = <<>>
<1> DEFINE I == {i \in DOMAIN list : list[i] # c}
           k == Kept(list, I)
<1>1. /\ k \in Seq(T)
      /\ Len(k) <= Len(list)
      /\ \A j \in DOMAIN k : \E i \in I : k[j] = list[i]
      /\ \A i \in I : \E j \in DOMAIN k : k[j] = list[i]
      /\ Distinct(list) => Distinct(k)
  BY KeptOfList
<1> HIDE DEF k
<1>2. Range(k) = Range(list) \ {c}
  BY <1>1 DEF Range
<1>3. list = <<>> => k = <<>>
  <2> SUFFICES ASSUME list = <<>> PROVE k = <<>>
    OBVIOUS
  <2>1. Len(k) = 0
    BY <1>1
  <2> QED BY <1>1, <2>1
<1> QED BY <1>1, <1>2, <1>3 DEF Others, k

\* A fresh batch is well formed.
LEMMA NewBatches ==
  ASSUME NEW n \in Nat, NEW commands \in Seq(CommandType), Len(commands) <= MaxCommands
  PROVE  NewBatch(n, commands) \in BatchSet /\ NewBatch(n, commands).id = n
BY DEF NewBatch, BatchSet, BatchType

\* Failing a group and inserting a command leave a batch that is no longer
\* than allowed, and the same.
LEMMA FailedBatch ==
  ASSUME NEW b \in BatchSet, NEW group
  PROVE  Fail(b, group) \in BatchSet /\ Fail(b, group).id = b.id
<1> DEFINE I == {i \in DOMAIN b.commands : b.commands[i].group # group}
           k == Kept(b.commands, I)
<1>1. b \in BatchType /\ Len(b.commands) <= MaxCommands /\ b.commands \in Seq(CommandType)
  BY DEF BatchSet, BatchType
<1>2. k \in Seq(CommandType) /\ Len(k) <= Len(b.commands)
  BY <1>1, KeptOfList
<1>3. Fail(b, group) = [b EXCEPT !.commands = k]
  BY DEF Fail
<1> HIDE DEF k
<1>4. Fail(b, group) \in BatchType /\ Fail(b, group).commands = k /\ Fail(b, group).id = b.id
  BY <1>1, <1>2, <1>3 DEF BatchType
<1>5. Len(k) <= MaxCommands
  BY <1>1, <1>2, Constants
<1> QED BY <1>4, <1>5 DEF BatchSet

\* So is a batch into which a command was inserted.
LEMMA InsertedBatch ==
  ASSUME NEW b \in BatchSet, NEW item \in CommandType
  PROVE  Insert(b, item) \in BatchSet /\ Insert(b, item).id = b.id
<1>1. b \in BatchType /\ Len(b.commands) <= MaxCommands /\ b.commands \in Seq(CommandType)
  BY DEF BatchSet, BatchType
<1>2. CASE Len(b.commands) + 1 > MaxCommands
  <2>1. Insert(b, item) = Fail(b, item.group)
    BY <1>2 DEF Insert
  <2> QED BY <2>1, FailedBatch
<1>3. CASE ~ (Len(b.commands) + 1 > MaxCommands)
  <2> DEFINE k == <<item>> \o b.commands
  <2>1. k \in Seq(CommandType) /\ Len(k) = Len(b.commands) + 1
    BY <1>1
  <2>2. Insert(b, item) = [b EXCEPT !.commands = k]
    BY <1>3 DEF Insert
  <2> HIDE DEF k
  <2>3. Insert(b, item) \in BatchType /\ Insert(b, item).commands = k
        /\ Insert(b, item).id = b.id
    BY <1>1, <2>1, <2>2 DEF BatchType
  <2>4. Len(k) <= MaxCommands
    BY <1>1, <1>3, <2>1, Constants
  <2> QED BY <2>3, <2>4 DEF BatchSet
<1> QED BY <1>2, <1>3

\* So is one whose command was inserted with its group.
LEMMA InsertedGroup ==
  ASSUME NEW b \in BatchSet, NEW item \in CommandType
  PROVE  InsertGroup(b, item) \in BatchSet /\ InsertGroup(b, item).id = b.id
<1> DEFINE a == [b EXCEPT !.nextGroup = @ + 1]
           k == [item EXCEPT !.group = b.nextGroup]
<1>1. a \in BatchSet /\ a.id = b.id
  BY DEF BatchSet, BatchType
<1>2. k \in CommandType
  BY DEF BatchSet, BatchType, CommandType
<1>3. InsertGroup(b, item) = Insert(a, k)
  BY DEF InsertGroup
<1> HIDE DEF a, k
<1> QED BY <1>1, <1>2, <1>3, InsertedBatch

\* The commands a handler makes of another are commands.
LEMMA Items ==
  /\ TopLevel \in CommandType
  /\ \A item \in CommandType : Deeper(item) \in CommandType /\ HookOf(item) \in CommandType
  /\ \A item \in CommandType : [item EXCEPT !.group = 0] \in CommandType
  /\ \A item \in CommandType : [item EXCEPT !.quiet = TRUE] \in CommandType
<1>1. TopLevel \in CommandType
  BY DEF TopLevel, CommandType
<1>2. \A item \in CommandType : Deeper(item) \in CommandType
  BY DEF CommandType, Deeper
<1>3. \A item \in CommandType : /\ [item EXCEPT !.group = 0] \in CommandType
                                /\ [item EXCEPT !.quiet = TRUE] \in CommandType
  BY DEF CommandType
<1>4. \A item \in CommandType : HookOf(item) \in CommandType
  BY <1>2, <1>3 DEF HookOf
<1> QED BY <1>1, <1>2, <1>3, <1>4

-----------------------------------------------------------------------------
(* Waking a queue: Ready, Unblock and what they change                     *)

\* The same requests, whatever became of their batches
SameIds(p, q) == Len(q) = Len(p) /\ \A i \in 1..Len(p) : q[i].id = p[i].id

\* From s to t the queues in W are woken, whatever happens to the batches in
\* front of them, those of H begin, and nothing else changes but the ready
\* list, and perhaps who waits for an event.
Stirs(s, t, W, H) ==
  /\ IsScheduler(t)
  /\ t.startup = s.startup /\ t.channels = s.channels
  /\ t.files = s.files /\ t.jobs = s.jobs
  /\ DOMAIN t.queues = DOMAIN s.queues \cup H
  /\ \A c \in DOMAIN t.queues : t.queues[c] \in QueueSet
  /\ \A c \in DOMAIN s.queues : SameIds(s.queues[c].pending, t.queues[c].pending)
  /\ \A c \in DOMAIN s.queues \ W : t.queues[c] = s.queues[c]
  /\ \A c \in (DOMAIN s.queues \cap W) \cup H :
       ~t.queues[c].blocked /\ (s.startup \in {None, c} => c \in Range(t.ready))
  /\ t.ready \in Seq(Ids)
  /\ Range(s.ready) \subseteq Range(t.ready)
  /\ \A c \in Range(t.ready) \ Range(s.ready) : s.startup \in {None, c}

\* What an appended list has
LEMMA RangeOfAppend ==
  ASSUME NEW T, NEW list \in Seq(T), NEW c
  PROVE  Range(Append(list, c)) = Range(list) \cup {c}
<1> DEFINE k == Append(list, c)
<1>1. /\ DOMAIN k = 1..(Len(list) + 1) /\ DOMAIN list = 1..Len(list)
      /\ Len(list) \in Nat
      /\ \A i \in 1..Len(list) : k[i] = list[i]
      /\ k[Len(list) + 1] = c
  OBVIOUS
<1> HIDE DEF k
<1>2. \A x \in Range(k) : x \in Range(list) \cup {c}
  BY <1>1 DEF Range
<1>3. \A x \in Range(list) \cup {c} : x \in Range(k)
  <2>1. Len(list) + 1 \in DOMAIN k
    BY <1>1
  <2>2. \A i \in DOMAIN list : i \in DOMAIN k
    BY <1>1
  <2> QED BY <1>1, <2>1, <2>2 DEF Range
<1> QED BY <1>2, <1>3 DEF k

\* Only the ready list changes, and only as startup allows.
LEMMA ReadyChanges ==
  ASSUME NEW s, IsScheduler(s), s.ready \in Seq(Ids), NEW c \in Ids
  PROVE  LET t == Ready(s, c) IN
         /\ IsScheduler(t)
         /\ t.queues = s.queues /\ t.startup = s.startup /\ t.channels = s.channels
         /\ t.eventWaiters = s.eventWaiters /\ t.files = s.files /\ t.jobs = s.jobs
         /\ t.ready \in Seq(Ids) /\ Range(s.ready) \subseteq Range(t.ready)
         /\ Range(t.ready) \subseteq Range(s.ready) \cup {c}
         /\ s.startup \in {None, c} => c \in Range(t.ready)
         /\ \A x \in Range(t.ready) \ Range(s.ready) : s.startup \in {None, x}
<1> DEFINE t == Ready(s, c)
           grown == Append(s.ready, c)
<1>1. CASE s.startup \in {None, c} /\ c \notin Range(s.ready)
  <2>1. t = [s EXCEPT !.ready = grown]
    BY <1>1 DEF Ready
  <2>2. grown \in Seq(Ids) /\ Range(grown) = Range(s.ready) \cup {c}
    BY RangeOfAppend
  <2> HIDE DEF t, grown
  <2>3. /\ IsScheduler(t)
        /\ t.queues = s.queues /\ t.startup = s.startup /\ t.channels = s.channels
        /\ t.eventWaiters = s.eventWaiters /\ t.files = s.files /\ t.jobs = s.jobs
        /\ t.ready = grown
    BY <2>1 DEF IsScheduler
  <2> QED BY <1>1, <2>2, <2>3 DEF t
<1>2. CASE ~(s.startup \in {None, c} /\ c \notin Range(s.ready))
  <2>1. t = s
    BY <1>2 DEF Ready
  <2> QED BY <1>2, <2>1
<1> QED BY <1>1, <1>2

\* The fields of a queue
LEMMA QueueFields ==
  ASSUME NEW q \in QueueSet
  PROVE  /\ q.pending \in Batches /\ q.blocked \in BOOLEAN
         /\ q.pending \in Seq(BatchSet) /\ Len(q.pending) <= MaxPending
         /\ q = [pending |-> q.pending, blocked |-> q.blocked]
BY DEF QueueSet, Batches

\* A list has its own numbers.
LEMMA SameIdsOfSame ==
  ASSUME NEW p PROVE SameIds(p, p)
BY DEF SameIds

\* Setting blocked leaves the batches alone.
LEMMA Unblocked ==
  ASSUME NEW r, NEW v, NEW x, x = [pending |-> r, blocked |-> v]
  PROVE  [x EXCEPT !.blocked = FALSE] = [pending |-> r, blocked |-> FALSE]
<1>1. DOMAIN x = {"pending", "blocked"} /\ x.pending = r
  OBVIOUS
<1> DEFINE y == [x EXCEPT !.blocked = FALSE]
           z == [pending |-> r, blocked |-> FALSE]
<1>2. y = [k \in {"pending", "blocked"} |-> IF k = "blocked" THEN FALSE ELSE x[k]]
  BY <1>1
<1>3. y.pending = r /\ y.blocked = FALSE
  BY <1>1, <1>2
<1>4. z = [k \in {"pending", "blocked"} |-> z[k]] /\ z.pending = r /\ z.blocked = FALSE
  OBVIOUS
<1> HIDE DEF y, z
<1> QED BY <1>2, <1>3, <1>4

\* Another batch in front, with the same number
LEMMA Refronted ==
  ASSUME NEW p \in Seq(BatchSet), p # <<>>, NEW b \in BatchSet, b.id = p[1].id
  PROVE  LET r == [p EXCEPT ![1] = b] IN
         r \in Seq(BatchSet) /\ SameIds(p, r)
<1> DEFINE r == [p EXCEPT ![1] = b]
<1>1. r \in Seq(BatchSet) /\ Len(r) = Len(p) /\ DOMAIN p = 1..Len(p)
  OBVIOUS
<1>2. ASSUME NEW i \in 1..Len(p) PROVE r[i].id = p[i].id
  <2>1. r[i] = IF i = 1 THEN b ELSE p[i]
    BY <1>1
  <2> HIDE DEF r
  <2> QED BY <2>1
<1> QED BY <1>1, <1>2 DEF SameIds

\* A result changes the batch in front, and the queue is woken.
LEMMA FrontWakes ==
  ASSUME NEW s, Tables(s), NEW c \in Ids, NEW b, NEW t,
         \/ t = s
         \/ /\ c \in DOMAIN s.queues /\ s.queues[c].pending # <<>>
            /\ b \in BatchSet /\ b.id = s.queues[c].pending[1].id
            /\ t = [s EXCEPT !.queues[c].pending[1] = b]
  PROVE  /\ Stirs(s, Unblock(t, c), {c}, {})
         /\ Unblock(t, c).eventWaiters = s.eventWaiters
<1> DEFINE u == Unblock(t, c)
           open == [t EXCEPT !.queues[c].blocked = FALSE]
<1>a. /\ IsScheduler(s) /\ s.ready \in Seq(Ids)
      /\ \A x \in DOMAIN s.queues : s.queues[x] \in QueueSet
  BY DEF Tables, PartialFunction
<1>1. CASE c \notin DOMAIN s.queues
  <2>1. t = s
    BY <1>1
  <2>2. u = s
    BY <2>1, <1>1 DEF Unblock
  <2> QED BY <1>1, <1>a, <2>2, SameIdsOfSame DEF Stirs
<1>2. CASE c \in DOMAIN s.queues
  <2> DEFINE q == s.queues[c]
  <2>1. q \in QueueSet
    BY <1>a, <1>2
  <2>2. PICK r : /\ r \in Batches /\ SameIds(q.pending, r)
                 /\ IsScheduler(t) /\ DOMAIN t.queues = DOMAIN s.queues
                 /\ t.queues[c] = [pending |-> r, blocked |-> q.blocked]
                 /\ \A x \in DOMAIN s.queues \ {c} : t.queues[x] = s.queues[x]
                 /\ t.ready = s.ready /\ t.startup = s.startup /\ t.channels = s.channels
                 /\ t.eventWaiters = s.eventWaiters /\ t.files = s.files /\ t.jobs = s.jobs
    <3>1. CASE t = s
      <4> WITNESS q.pending
      <4> QED BY <1>a, <2>1, <3>1, QueueFields, SameIdsOfSame
    <3>2. CASE t # s
      <4> DEFINE r == [q.pending EXCEPT ![1] = b]
      <4>1. /\ b \in BatchSet /\ b.id = q.pending[1].id /\ q.pending # <<>>
            /\ t = [s EXCEPT !.queues[c].pending[1] = b]
        BY <3>2
      <4>2. q.pending \in Seq(BatchSet) /\ Len(q.pending) <= MaxPending
        BY <2>1, QueueFields
      <4>3. r \in Seq(BatchSet) /\ SameIds(q.pending, r)
        BY <4>1, <4>2, Refronted
      <4>5. r \in Batches /\ SameIds(q.pending, r)
        BY <4>2, <4>3 DEF Batches, SameIds
      <4>6. t = [s EXCEPT !.queues[c].pending = r]
        BY <4>1
      <4> HIDE DEF r
      <4> DEFINE p == [q EXCEPT !.pending = r]
      <4>7. t = [s EXCEPT !.queues[c] = p]
        BY <4>6
      <4>8. p = [pending |-> r, blocked |-> q.blocked]
        BY <2>1, QueueFields
      <4> HIDE DEF p
      <4>9. /\ IsScheduler(t) /\ DOMAIN t.queues = DOMAIN s.queues
            /\ t.queues[c] = p
            /\ \A x \in DOMAIN s.queues \ {c} : t.queues[x] = s.queues[x]
            /\ t.ready = s.ready /\ t.startup = s.startup /\ t.channels = s.channels
            /\ t.eventWaiters = s.eventWaiters /\ t.files = s.files /\ t.jobs = s.jobs
        BY <4>7, <1>2, <1>a DEF IsScheduler
      <4> WITNESS r
      <4> QED BY <4>5, <4>8, <4>9
    <3> QED BY <3>1, <3>2
  <2> DEFINE p == [pending |-> r, blocked |-> FALSE]
  <2>3. open = [t EXCEPT !.queues[c] = p]
    <3>1. [t.queues[c] EXCEPT !.blocked = FALSE] = p
      BY <2>2, Unblocked
    <3>2. open = [t EXCEPT !.queues[c] = [t.queues[c] EXCEPT !.blocked = FALSE]]
      OBVIOUS
    <3> HIDE DEF p, open
    <3> QED BY <3>1, <3>2
  <2>4. p \in QueueSet /\ p.pending = r /\ ~p.blocked
    BY <2>2 DEF QueueSet
  <2> HIDE DEF p, open
  <2>5. /\ IsScheduler(open) /\ DOMAIN open.queues = DOMAIN s.queues
        /\ open.queues[c] = p
        /\ \A x \in DOMAIN s.queues \ {c} : open.queues[x] = s.queues[x]
        /\ open.ready = s.ready /\ open.startup = s.startup /\ open.channels = s.channels
        /\ open.eventWaiters = s.eventWaiters /\ open.files = s.files
        /\ open.jobs = s.jobs
    BY <2>2, <2>3, <1>2 DEF IsScheduler
  <2>6. u = Ready(open, c)
    BY <2>2, <1>2 DEF Unblock, open
  <2>7. /\ IsScheduler(u)
        /\ u.queues = open.queues /\ u.startup = s.startup /\ u.channels = s.channels
        /\ u.eventWaiters = s.eventWaiters /\ u.files = s.files /\ u.jobs = s.jobs
        /\ u.ready \in Seq(Ids) /\ Range(s.ready) \subseteq Range(u.ready)
        /\ s.startup \in {None, c} => c \in Range(u.ready)
        /\ \A x \in Range(u.ready) \ Range(s.ready) : s.startup \in {None, x}
    <3>1. IsScheduler(open) /\ open.ready \in Seq(Ids)
      BY <2>5, <1>a
    <3> HIDE DEF u
    <3>2. /\ IsScheduler(u)
          /\ u.queues = open.queues /\ u.startup = open.startup
          /\ u.channels = open.channels /\ u.eventWaiters = open.eventWaiters
          /\ u.files = open.files /\ u.jobs = open.jobs
          /\ u.ready \in Seq(Ids) /\ Range(open.ready) \subseteq Range(u.ready)
          /\ open.startup \in {None, c} => c \in Range(u.ready)
          /\ \A x \in Range(u.ready) \ Range(open.ready) : open.startup \in {None, x}
      BY <3>1, <2>6, ReadyChanges
    <3> QED BY <3>2, <2>5
  <2> HIDE DEF u, q
  <2>8. \A x \in DOMAIN s.queues : SameIds(s.queues[x].pending, u.queues[x].pending)
    BY <2>2, <2>4, <2>5, <2>7, SameIdsOfSame DEF q
  <2>9. \A x \in DOMAIN u.queues : u.queues[x] \in QueueSet
    BY <2>4, <2>5, <2>7, <1>a
  <2>10. Stirs(s, u, {c}, {})
    BY <1>2, <2>4, <2>5, <2>7, <2>8, <2>9 DEF Stirs
  <2> QED BY <2>7, <2>10 DEF u
<1> QED BY <1>1, <1>2

\* Unblock wakes one queue.
LEMMA UnblockWakes ==
  ASSUME NEW s, Tables(s), NEW c \in Ids
  PROVE  Stirs(s, Unblock(s, c), {c}, {}) /\ Unblock(s, c).eventWaiters = s.eventWaiters
<1> DEFINE t == s
<1>1. t = s
  OBVIOUS
<1> HIDE DEF t
<1>2. Stirs(s, Unblock(t, c), {c}, {}) /\ Unblock(t, c).eventWaiters = s.eventWaiters
  BY <1>1, FrontWakes
<1> QED BY <1>1, <1>2

\* Nothing changes in a table that is left alone.
LEMMA NothingStirs ==
  ASSUME NEW s, Tables(s)
  PROVE  Stirs(s, s, {}, {})
BY SameIdsOfSame DEF Stirs, Tables, PartialFunction

\* A table in which queues were woken is well formed.
LEMMA StirredTables ==
  ASSUME NEW s, Tables(s), NEW t, NEW W, NEW H, H \subseteq Ids, Stirs(s, t, W, H),
         PartialFunction(t.eventWaiters, Ids, [group : Nat])
  PROVE  Tables(t)
BY DEF Tables, Stirs, PartialFunction

\* One waking follows another.
LEMMA StirsOn ==
  ASSUME NEW s, NEW t, NEW u, NEW V, NEW W, Stirs(s, t, V, {}), Stirs(t, u, W, {})
  PROVE  Stirs(s, u, V \cup W, {})
<1>1. /\ IsScheduler(u)
      /\ u.startup = s.startup /\ u.channels = s.channels
      /\ u.files = s.files /\ u.jobs = s.jobs
      /\ DOMAIN u.queues = DOMAIN s.queues /\ DOMAIN t.queues = DOMAIN s.queues
      /\ \A c \in DOMAIN u.queues : u.queues[c] \in QueueSet
      /\ u.ready \in Seq(Ids)
  BY DEF Stirs
<1>2. ASSUME NEW c \in DOMAIN s.queues
      PROVE  SameIds(s.queues[c].pending, u.queues[c].pending)
  <2>1. /\ SameIds(s.queues[c].pending, t.queues[c].pending)
        /\ SameIds(t.queues[c].pending, u.queues[c].pending)
    BY <1>1 DEF Stirs
  <2> QED BY <2>1 DEF SameIds
<1>3. \A c \in DOMAIN s.queues \ (V \cup W) : u.queues[c] = s.queues[c]
  BY <1>1 DEF Stirs
<1>4. /\ Range(s.ready) \subseteq Range(t.ready) /\ Range(t.ready) \subseteq Range(u.ready)
      /\ t.startup = s.startup
  BY DEF Stirs
<1>5. ASSUME NEW c \in DOMAIN s.queues \cap (V \cup W)
      PROVE  ~u.queues[c].blocked /\ (s.startup \in {None, c} => c \in Range(u.ready))
  <2>1. CASE c \in W
    BY <2>1, <1>1, <1>4 DEF Stirs
  <2>2. CASE c \notin W
    <3>1. u.queues[c] = t.queues[c]
      BY <2>2, <1>1 DEF Stirs
    <3>2. ~t.queues[c].blocked /\ (s.startup \in {None, c} => c \in Range(t.ready))
      BY <2>2, <1>1 DEF Stirs
    <3> QED BY <3>1, <3>2, <1>4
  <2> QED BY <2>1, <2>2
<1>6. \A c \in Range(u.ready) \ Range(s.ready) : s.startup \in {None, c}
  BY <1>4 DEF Stirs
<1> QED BY <1>1, <1>2, <1>3, <1>4, <1>5, <1>6 DEF Stirs

\* UnblockAll goes step by step.
LEMMA UnblockAllSteps ==
  ASSUME NEW s, NEW cs, Len(cs) \in Nat
  PROVE  \E after : /\ after[0] = s
                    /\ \A i \in 1..Len(cs) : after[i] = Unblock(after[i - 1], cs[i])
                    /\ UnblockAll(s, cs) = after[Len(cs)]
<1> DEFINE Trace(f, n) == f = [i \in 0..n |-> IF i = 0 THEN s ELSE Unblock(f[i - 1], cs[i])]
           Bad == {n \in Nat : ~ \E f : Trace(f, n)}
<1>1. Bad = {}
  <2>1. SUFFICES ASSUME Bad # {} PROVE FALSE
    OBVIOUS
  <2>2. PICK n \in Bad : \A m \in Bad : n <= m
    <3>1. Bad \subseteq Nat
      OBVIOUS
    <3> HIDE DEF Bad
    <3> QED BY <2>1, <3>1, LeastOf
  <2>3. n \in Nat /\ ~ \E f : Trace(f, n)
    OBVIOUS
  <2>4. CASE n = 0
    <3>1. Trace([i \in 0..0 |-> s], 0)
      OBVIOUS
    <3> QED BY <2>3, <2>4, <3>1
  <2>5. CASE n # 0
    <3>1. n - 1 \in Nat /\ n - 1 \notin Bad
      <4> HIDE DEF Bad
      <4> QED BY <2>2, <2>3, <2>5
    <3>2. PICK f : Trace(f, n - 1)
      BY <3>1
    <3> HIDE DEF Bad
    <3> DEFINE g == [i \in 0..n |-> IF i = n THEN Unblock(f[n - 1], cs[n]) ELSE f[i]]
    <3>3. \A i \in 0..n : g[i] = IF i = n THEN Unblock(f[n - 1], cs[n]) ELSE f[i]
      OBVIOUS
    <3>4. \A i \in 0..(n - 1) : f[i] = IF i = 0 THEN s ELSE Unblock(f[i - 1], cs[i])
      BY <3>2
    <3>5. g = [i \in 0..n |-> g[i]]
      OBVIOUS
    <3> HIDE DEF g
    <3>6. ASSUME NEW i \in 0..n PROVE g[i] = IF i = 0 THEN s ELSE Unblock(g[i - 1], cs[i])
      <4>1. CASE i = n
        <5>1. g[n - 1] = f[n - 1]
          BY <3>3, <2>3, <2>5
        <5> QED BY <3>3, <4>1, <5>1, <2>3, <2>5
      <4>2. CASE i # n
        <5>1. i \in 0..(n - 1) /\ g[i] = f[i]
          BY <3>3, <4>2, <2>3
        <5>2. i # 0 => g[i - 1] = f[i - 1]
          BY <3>3, <5>1, <2>3
        <5> QED BY <3>4, <5>1, <5>2
      <4> QED BY <4>1, <4>2
    <3>7. Trace(g, n)
      BY <3>5, <3>6
    <3> QED BY <2>3, <3>7
  <2> QED BY <2>4, <2>5
<1> DEFINE after == CHOOSE f : Trace(f, Len(cs))
<1>2. Trace(after, Len(cs))
  <2>1. \E f : Trace(f, Len(cs))
    BY <1>1
  <2> HIDE DEF Trace
  <2> QED BY <2>1
<1>3. UnblockAll(s, cs) = after[Len(cs)]
  BY DEF UnblockAll
<1> HIDE DEF after
<1>4. after[0] = s /\ \A i \in 1..Len(cs) : after[i] = Unblock(after[i - 1], cs[i])
  BY <1>2
<1> QED BY <1>3, <1>4

-----------------------------------------------------------------------------
(* Changing one table of the scheduler                                     *)

\* Assigning one table leaves the others alone: the queues,
LEMMA SetQueues ==
  ASSUME NEW s, IsScheduler(s), NEW x
  PROVE  LET t == [s EXCEPT !.queues = x] IN
         /\ IsScheduler(t) /\ t.queues = x
         /\ t.ready = s.ready /\ t.startup = s.startup /\ t.channels = s.channels
         /\ t.eventWaiters = s.eventWaiters /\ t.files = s.files /\ t.jobs = s.jobs
BY DEF IsScheduler

\* the ready list,
LEMMA SetReady ==
  ASSUME NEW s, IsScheduler(s), NEW x
  PROVE  LET t == [s EXCEPT !.ready = x] IN
         /\ IsScheduler(t) /\ t.ready = x
         /\ t.queues = s.queues /\ t.startup = s.startup /\ t.channels = s.channels
         /\ t.eventWaiters = s.eventWaiters /\ t.files = s.files /\ t.jobs = s.jobs
BY DEF IsScheduler

\* the id that starts up,
LEMMA SetStartup ==
  ASSUME NEW s, IsScheduler(s), NEW x
  PROVE  LET t == [s EXCEPT !.startup = x] IN
         /\ IsScheduler(t) /\ t.startup = x
         /\ t.queues = s.queues /\ t.ready = s.ready /\ t.channels = s.channels
         /\ t.eventWaiters = s.eventWaiters /\ t.files = s.files /\ t.jobs = s.jobs
BY DEF IsScheduler

\* the channels,
LEMMA SetChannels ==
  ASSUME NEW s, IsScheduler(s), NEW x
  PROVE  LET t == [s EXCEPT !.channels = x] IN
         /\ IsScheduler(t) /\ t.channels = x
         /\ t.queues = s.queues /\ t.ready = s.ready /\ t.startup = s.startup
         /\ t.eventWaiters = s.eventWaiters /\ t.files = s.files /\ t.jobs = s.jobs
BY DEF IsScheduler

\* those who wait for an event,
LEMMA SetEventWaiters ==
  ASSUME NEW s, IsScheduler(s), NEW x
  PROVE  LET t == [s EXCEPT !.eventWaiters = x] IN
         /\ IsScheduler(t) /\ t.eventWaiters = x
         /\ t.queues = s.queues /\ t.ready = s.ready /\ t.startup = s.startup
         /\ t.channels = s.channels /\ t.files = s.files /\ t.jobs = s.jobs
BY DEF IsScheduler

\* the files,
LEMMA SetFiles ==
  ASSUME NEW s, IsScheduler(s), NEW x
  PROVE  LET t == [s EXCEPT !.files = x] IN
         /\ IsScheduler(t) /\ t.files = x
         /\ t.queues = s.queues /\ t.ready = s.ready /\ t.startup = s.startup
         /\ t.channels = s.channels /\ t.eventWaiters = s.eventWaiters /\ t.jobs = s.jobs
BY DEF IsScheduler

\* and the jobs.
LEMMA SetJobs ==
  ASSUME NEW s, IsScheduler(s), NEW x
  PROVE  LET t == [s EXCEPT !.jobs = x] IN
         /\ IsScheduler(t) /\ t.jobs = x
         /\ t.queues = s.queues /\ t.ready = s.ready /\ t.startup = s.startup
         /\ t.channels = s.channels /\ t.eventWaiters = s.eventWaiters /\ t.files = s.files
BY DEF IsScheduler

\* What is left of a map without one key
LEMMA WithoutOne ==
  ASSUME NEW f, NEW x
  PROVE  /\ DOMAIN Without(f, x) = DOMAIN f \ {x}
         /\ \A y \in DOMAIN f \ {x} : Without(f, x)[y] = f[y]
BY DEF Without, Restrict

\* A map with one key more
LEMMA PutOne ==
  ASSUME NEW f, NEW x, NEW v
  PROVE  /\ DOMAIN Put(f, x, v) = DOMAIN f \cup {x}
         /\ Put(f, x, v)[x] = v
         /\ \A y \in DOMAIN f \ {x} : Put(f, x, v)[y] = f[y]
BY DEF Put

\* Somebody who waited for an event is forgotten there.
LEMMA EventWaiterGoes ==
  ASSUME NEW s, Tables(s), NEW c
  PROVE  LET t == [s EXCEPT !.eventWaiters = Without(@, c)] IN
         /\ Tables(t) /\ Stirs(s, t, {}, {})
         /\ t.eventWaiters = Without(s.eventWaiters, c)
         /\ t.queues = s.queues
<1> DEFINE x == Without(s.eventWaiters, c)
           t == [s EXCEPT !.eventWaiters = x]
<1>1. IsScheduler(s)
  BY DEF Tables
<1>2. DOMAIN x = DOMAIN s.eventWaiters \ {c} /\ \A y \in DOMAIN x : x[y] = s.eventWaiters[y]
  BY WithoutOne
<1>3. t = [s EXCEPT !.eventWaiters = Without(@, c)]
  OBVIOUS
<1> HIDE DEF x
<1>4. /\ IsScheduler(t) /\ t.eventWaiters = x
      /\ t.queues = s.queues /\ t.ready = s.ready /\ t.startup = s.startup
      /\ t.channels = s.channels /\ t.files = s.files /\ t.jobs = s.jobs
  BY <1>1, SetEventWaiters
<1> HIDE DEF t
<1>5. Tables(t)
  BY <1>2, <1>4 DEF Tables, PartialFunction
<1>6. Stirs(s, t, {}, {})
  BY <1>4, SameIdsOfSame DEF Stirs, Tables, PartialFunction
<1> QED BY <1>3, <1>4, <1>5, <1>6 DEF x

\* A batch in front is changed, or there is none.
Refronts(s, t, c) ==
  \/ t = s
  \/ \E b \in BatchSet :
       /\ c \in DOMAIN s.queues /\ s.queues[c].pending # <<>>
       /\ b.id = s.queues[c].pending[1].id
       /\ t = [s EXCEPT !.queues[c].pending[1] = b]

\* A result that changes the batch in front wakes its queue.
LEMMA RefrontWakes ==
  ASSUME NEW s, Tables(s), NEW c \in Ids, NEW t, Refronts(s, t, c)
  PROVE  Stirs(s, Unblock(t, c), {c}, {}) /\ Unblock(t, c).eventWaiters = s.eventWaiters
<1>1. CASE t = s
  BY <1>1, UnblockWakes
<1>2. ASSUME NEW b \in BatchSet,
             /\ c \in DOMAIN s.queues /\ s.queues[c].pending # <<>>
             /\ b.id = s.queues[c].pending[1].id
             /\ t = [s EXCEPT !.queues[c].pending[1] = b]
      PROVE  Stirs(s, Unblock(t, c), {c}, {}) /\ Unblock(t, c).eventWaiters = s.eventWaiters
  BY <1>2, FrontWakes, ZenonT(120)
<1> QED BY <1>1, <1>2 DEF Refronts

\* The batch in front is well formed.
LEMMA FrontInBatchSet ==
  ASSUME NEW s, Tables(s), NEW c \in DOMAIN s.queues, s.queues[c].pending # <<>>
  PROVE  s.queues[c].pending[1] \in BatchSet
<1>1. s.queues[c] \in QueueSet
  BY DEF Tables, PartialFunction
<1>2. s.queues[c].pending \in Seq(BatchSet)
  BY <1>1, QueueFields
<1> QED BY <1>2

-----------------------------------------------------------------------------
(* Waking several queues, one after the other                              *)

\* ReadyAll goes step by step.
LEMMA ReadyAllSteps ==
  ASSUME NEW s, NEW cs, Len(cs) \in Nat
  PROVE  \E after : /\ after[0] = s
                    /\ \A i \in 1..Len(cs) : after[i] = Ready(after[i - 1], cs[i])
                    /\ ReadyAll(s, cs) = after[Len(cs)]
<1> DEFINE Trace(f, n) == f = [i \in 0..n |-> IF i = 0 THEN s ELSE Ready(f[i - 1], cs[i])]
           Bad == {n \in Nat : ~ \E f : Trace(f, n)}
<1>1. Bad = {}
  <2>1. SUFFICES ASSUME Bad # {} PROVE FALSE
    OBVIOUS
  <2>2. PICK n \in Bad : \A m \in Bad : n <= m
    <3>1. Bad \subseteq Nat
      OBVIOUS
    <3> HIDE DEF Bad
    <3> QED BY <2>1, <3>1, LeastOf
  <2>3. n \in Nat /\ ~ \E f : Trace(f, n)
    OBVIOUS
  <2>4. CASE n = 0
    <3>1. Trace([i \in 0..0 |-> s], 0)
      OBVIOUS
    <3> QED BY <2>3, <2>4, <3>1
  <2>5. CASE n # 0
    <3>1. n - 1 \in Nat /\ n - 1 \notin Bad
      <4> HIDE DEF Bad
      <4> QED BY <2>2, <2>3, <2>5
    <3>2. PICK f : Trace(f, n - 1)
      BY <3>1
    <3> HIDE DEF Bad
    <3> DEFINE last == Ready(f[n - 1], cs[n])
               g == [i \in 0..n |-> IF i = n THEN last ELSE f[i]]
    <3>3. \A i \in 0..n : g[i] = IF i = n THEN last ELSE f[i]
      OBVIOUS
    <3>4. \A i \in 0..(n - 1) : f[i] = IF i = 0 THEN s ELSE Ready(f[i - 1], cs[i])
      BY <3>2
    <3>5. g = [i \in 0..n |-> g[i]]
      OBVIOUS
    <3> HIDE DEF g
    <3>6. ASSUME NEW i \in 0..n
          PROVE  g[i] = IF i = 0 THEN s ELSE Ready(g[i - 1], cs[i])
      <4>1. CASE i = n
        <5>1. g[n - 1] = f[n - 1]
          BY <3>3, <2>3, <2>5
        <5> QED BY <3>3, <4>1, <5>1, <2>3, <2>5
      <4>2. CASE i # n
        <5>1. i \in 0..(n - 1) /\ g[i] = f[i]
          BY <3>3, <4>2, <2>3
        <5>2. i # 0 => g[i - 1] = f[i - 1]
          BY <3>3, <5>1, <2>3
        <5> QED BY <3>4, <5>1, <5>2
      <4> QED BY <4>1, <4>2
    <3>7. Trace(g, n)
      BY <3>5, <3>6
    <3> QED BY <2>3, <3>7
  <2> QED BY <2>4, <2>5
<1> DEFINE after == CHOOSE f : Trace(f, Len(cs))
<1>2. Trace(after, Len(cs))
  <2>1. \E f : Trace(f, Len(cs))
    BY <1>1
  <2> HIDE DEF Trace
  <2> QED BY <2>1
<1>3. ReadyAll(s, cs) = after[Len(cs)]
  BY DEF ReadyAll
<1> HIDE DEF after
<1>4. after[0] = s /\ \A i \in 1..Len(cs) : after[i] = Ready(after[i - 1], cs[i])
  BY <1>2
<1> QED BY <1>3, <1>4

\* What SignalEvent tells one waiter
Told(s, t, c, answer) ==
  LET gone(r) == [r EXCEPT !.eventWaiters = Without(@, c)]
      front == t.queues[c].pending[1]
      failed == IF c \in DOMAIN t.queues /\ t.queues[c].pending # <<>>
                THEN [t EXCEPT !.queues[c].pending[1] =
                        Fail(front, s.eventWaiters[c].group)]
                ELSE t
  IN CASE answer = "keep" -> t
       [] answer = "wake" -> Unblock(gone(t), c)
       [] answer = "fail" -> Unblock(gone(failed), c)

\* SignalEvent tells its waiters one after the other.
LEMMA SignalEventSteps ==
  ASSUME NEW s, NEW verdict, Len(Ascending(DOMAIN s.eventWaiters)) \in Nat
  PROVE  LET waiters == Ascending(DOMAIN s.eventWaiters) IN
         \E after : /\ after[0] = s
                    /\ \A i \in 1..Len(waiters) : after[i] = Told(s, after[i - 1], waiters[i], verdict[waiters[i]])
                    /\ SignalEvent(s, verdict) = after[Len(waiters)]
<1> DEFINE waiters == Ascending(DOMAIN s.eventWaiters)
           Trace(f, n) == f = [i \in 0..n |-> IF i = 0 THEN s ELSE Told(s, f[i - 1], waiters[i], verdict[waiters[i]])]
           Bad == {n \in Nat : ~ \E f : Trace(f, n)}
<1>1. Bad = {}
  <2>1. SUFFICES ASSUME Bad # {} PROVE FALSE
    OBVIOUS
  <2>2. PICK n \in Bad : \A m \in Bad : n <= m
    <3>1. Bad \subseteq Nat
      OBVIOUS
    <3> HIDE DEF Bad
    <3> QED BY <2>1, <3>1, LeastOf
  <2>3. n \in Nat /\ ~ \E f : Trace(f, n)
    OBVIOUS
  <2>4. CASE n = 0
    <3>1. Trace([i \in 0..0 |-> s], 0)
      OBVIOUS
    <3> QED BY <2>3, <2>4, <3>1
  <2>5. CASE n # 0
    <3>1. n - 1 \in Nat /\ n - 1 \notin Bad
      <4> HIDE DEF Bad
      <4> QED BY <2>2, <2>3, <2>5
    <3>2. PICK f : Trace(f, n - 1)
      BY <3>1
    <3> HIDE DEF Bad
    <3> DEFINE last == Told(s, f[n - 1], waiters[n], verdict[waiters[n]])
               g == [i \in 0..n |-> IF i = n THEN last ELSE f[i]]
    <3>3. \A i \in 0..n : g[i] = IF i = n THEN last ELSE f[i]
      OBVIOUS
    <3>4. \A i \in 0..(n - 1) : f[i] = IF i = 0 THEN s ELSE Told(s, f[i - 1], waiters[i], verdict[waiters[i]])
      BY <3>2
    <3>5. g = [i \in 0..n |-> g[i]]
      OBVIOUS
    <3> HIDE DEF g
    <3>6. ASSUME NEW i \in 0..n
          PROVE  g[i] = IF i = 0 THEN s ELSE Told(s, g[i - 1], waiters[i], verdict[waiters[i]])
      <4>1. CASE i = n
        <5>1. g[n - 1] = f[n - 1]
          BY <3>3, <2>3, <2>5
        <5> QED BY <3>3, <4>1, <5>1, <2>3, <2>5
      <4>2. CASE i # n
        <5>1. i \in 0..(n - 1) /\ g[i] = f[i]
          BY <3>3, <4>2, <2>3
        <5>2. i # 0 => g[i - 1] = f[i - 1]
          BY <3>3, <5>1, <2>3
        <5> QED BY <3>4, <5>1, <5>2
      <4> QED BY <4>1, <4>2
    <3>7. Trace(g, n)
      BY <3>5, <3>6
    <3> QED BY <2>3, <3>7
  <2> QED BY <2>4, <2>5
<1> DEFINE after == CHOOSE f : Trace(f, Len(waiters))
<1>2. Trace(after, Len(waiters))
  <2>1. \E f : Trace(f, Len(waiters))
    BY <1>1
  <2> HIDE DEF Trace
  <2> QED BY <2>1
<1>3. SignalEvent(s, verdict) = after[Len(waiters)]
  BY DEF SignalEvent, Told, OnFront
<1> HIDE DEF after
<1>4. after[0] = s /\ \A i \in 1..Len(waiters) : after[i] = Told(s, after[i - 1], waiters[i], verdict[waiters[i]])
  BY <1>2
<1> QED BY <1>3, <1>4

\* EveryWaiter adds those on channel n.
Also(s, ids, n) == ids \o s.channels[n].waiters \o s.channels[n].lockers

\* EveryWaiter goes channel by channel.
LEMMA EveryWaiterSteps ==
  ASSUME NEW s, Len(Ascending(DOMAIN s.channels)) \in Nat
  PROVE  LET names == Ascending(DOMAIN s.channels) IN
         \E after : /\ after[0] = Ascending(DOMAIN s.eventWaiters)
                    /\ \A i \in 1..Len(names) : after[i] = Also(s, after[i - 1], names[i])
                    /\ EveryWaiter(s) = after[Len(names)]
<1> DEFINE names == Ascending(DOMAIN s.channels)
           Trace(f, n) == f = [i \in 0..n |-> IF i = 0 THEN Ascending(DOMAIN s.eventWaiters) ELSE Also(s, f[i - 1], names[i])]
           Bad == {n \in Nat : ~ \E f : Trace(f, n)}
<1>1. Bad = {}
  <2>1. SUFFICES ASSUME Bad # {} PROVE FALSE
    OBVIOUS
  <2>2. PICK n \in Bad : \A m \in Bad : n <= m
    <3>1. Bad \subseteq Nat
      OBVIOUS
    <3> HIDE DEF Bad
    <3> QED BY <2>1, <3>1, LeastOf
  <2>3. n \in Nat /\ ~ \E f : Trace(f, n)
    OBVIOUS
  <2>4. CASE n = 0
    <3>1. Trace([i \in 0..0 |-> Ascending(DOMAIN s.eventWaiters)], 0)
      OBVIOUS
    <3> QED BY <2>3, <2>4, <3>1
  <2>5. CASE n # 0
    <3>1. n - 1 \in Nat /\ n - 1 \notin Bad
      <4> HIDE DEF Bad
      <4> QED BY <2>2, <2>3, <2>5
    <3>2. PICK f : Trace(f, n - 1)
      BY <3>1
    <3> HIDE DEF Bad
    <3> DEFINE last == Also(s, f[n - 1], names[n])
               g == [i \in 0..n |-> IF i = n THEN last ELSE f[i]]
    <3>3. \A i \in 0..n : g[i] = IF i = n THEN last ELSE f[i]
      OBVIOUS
    <3>4. \A i \in 0..(n - 1) : f[i] = IF i = 0 THEN Ascending(DOMAIN s.eventWaiters) ELSE Also(s, f[i - 1], names[i])
      BY <3>2
    <3>5. g = [i \in 0..n |-> g[i]]
      OBVIOUS
    <3> HIDE DEF g
    <3>6. ASSUME NEW i \in 0..n
          PROVE  g[i] = IF i = 0 THEN Ascending(DOMAIN s.eventWaiters) ELSE Also(s, g[i - 1], names[i])
      <4>1. CASE i = n
        <5>1. g[n - 1] = f[n - 1]
          BY <3>3, <2>3, <2>5
        <5> QED BY <3>3, <4>1, <5>1, <2>3, <2>5
      <4>2. CASE i # n
        <5>1. i \in 0..(n - 1) /\ g[i] = f[i]
          BY <3>3, <4>2, <2>3
        <5>2. i # 0 => g[i - 1] = f[i - 1]
          BY <3>3, <5>1, <2>3
        <5> QED BY <3>4, <5>1, <5>2
      <4> QED BY <4>1, <4>2
    <3>7. Trace(g, n)
      BY <3>5, <3>6
    <3> QED BY <2>3, <3>7
  <2> QED BY <2>4, <2>5
<1> DEFINE after == CHOOSE f : Trace(f, Len(names))
<1>2. Trace(after, Len(names))
  <2>1. \E f : Trace(f, Len(names))
    BY <1>1
  <2> HIDE DEF Trace
  <2> QED BY <2>1
<1>3. EveryWaiter(s) = after[Len(names)]
  BY DEF EveryWaiter, Also
<1> HIDE DEF after
<1>4. after[0] = Ascending(DOMAIN s.eventWaiters) /\ \A i \in 1..Len(names) : after[i] = Also(s, after[i - 1], names[i])
  BY <1>2
<1> QED BY <1>3, <1>4

\* The first i of cs
Prefix(cs, i) == {cs[j] : j \in 1..i}

\* The first i are the first i - 1 and one more.
LEMMA PrefixGrows ==
  ASSUME NEW cs, NEW i \in Nat \ {0}
  PROVE  Prefix(cs, i) = Prefix(cs, i - 1) \cup {cs[i]}
<1>1. \A j \in 1..i : j \in 1..(i - 1) \/ j = i
  OBVIOUS
<1>2. \A j \in 1..(i - 1) : j \in 1..i
  OBVIOUS
<1>3. i \in 1..i
  OBVIOUS
<1> QED BY <1>1, <1>2, <1>3 DEF Prefix

\* All of a list
LEMMA PrefixOfAll ==
  ASSUME NEW T, NEW cs \in Seq(T)
  PROVE  Prefix(cs, Len(cs)) = Range(cs) /\ Prefix(cs, 0) = {}
BY DEF Prefix, Range

\* Everybody in the list is woken.
LEMMA UnblockAllWakes ==
  ASSUME NEW s, Tables(s), NEW cs \in Seq(Ids)
  PROVE  /\ Stirs(s, UnblockAll(s, cs), Range(cs), {})
         /\ UnblockAll(s, cs).eventWaiters = s.eventWaiters
         /\ Tables(UnblockAll(s, cs))
<1>1. Len(cs) \in Nat /\ DOMAIN cs = 1..Len(cs)
  OBVIOUS
<1>2. PICK after : /\ after[0] = s
                   /\ \A i \in 1..Len(cs) : after[i] = Unblock(after[i - 1], cs[i])
                   /\ UnblockAll(s, cs) = after[Len(cs)]
  BY <1>1, UnblockAllSteps, SMTT(60)
<1> DEFINE Good(i) == /\ Stirs(s, after[i], Prefix(cs, i), {})
                      /\ after[i].eventWaiters = s.eventWaiters
                      /\ Tables(after[i])
           Bad == {i \in 0..Len(cs) : ~Good(i)}
<1>3. Bad = {}
  <2>1. SUFFICES ASSUME Bad # {} PROVE FALSE
    OBVIOUS
  <2>2. PICK n \in Bad : \A m \in Bad : n <= m
    <3>1. Bad \subseteq Nat
      BY <1>1
    <3> HIDE DEF Bad
    <3> QED BY <2>1, <3>1, LeastOf
  <2>3. n \in Nat /\ n \in 0..Len(cs) /\ ~Good(n)
    BY <1>1
  <2>4. CASE n = 0
    <3>1. Good(0)
      BY <1>2, NothingStirs, PrefixOfAll
    <3> QED BY <2>3, <2>4, <3>1
  <2>5. CASE n # 0
    <3>1. n - 1 \in 0..Len(cs) /\ n \in 1..Len(cs)
      BY <2>3, <2>5, <1>1
    <3>2. n - 1 \notin Bad
      <4> HIDE DEF Bad
      <4> QED BY <2>2, <2>3, <2>5
    <3>3. Good(n - 1)
      BY <3>1, <3>2
    <3> HIDE DEF Bad
    <3> DEFINE t == after[n - 1]
               u == after[n]
               c == cs[n]
    <3>4. c \in Ids /\ u = Unblock(t, c)
      BY <3>1, <1>1, <1>2
    <3> HIDE DEF t, u, c
    <3>5. Tables(t) /\ Stirs(s, t, Prefix(cs, n - 1), {}) /\ t.eventWaiters = s.eventWaiters
      BY <3>3 DEF t
    <3>6. Stirs(t, u, {c}, {}) /\ u.eventWaiters = t.eventWaiters
      BY <3>4, <3>5, UnblockWakes
    <3>7. Stirs(s, u, Prefix(cs, n), {})
      <4>1. Stirs(s, u, Prefix(cs, n - 1) \cup {c}, {})
        BY <3>5, <3>6, StirsOn
      <4>2. Prefix(cs, n) = Prefix(cs, n - 1) \cup {c}
        BY <2>3, <2>5, PrefixGrows DEF c
      <4> QED BY <4>1, <4>2
    <3>8. Tables(u)
      <4>1. PartialFunction(u.eventWaiters, Ids, [group : Nat])
        BY <3>5, <3>6 DEF Tables
      <4> QED BY <3>5, <3>6, <4>1, StirredTables
    <3>9. Good(n)
      BY <3>5, <3>6, <3>7, <3>8 DEF u
    <3> HIDE DEF Good
    <3> QED BY <2>3, <3>9
  <2> QED BY <2>4, <2>5
<1>4. Good(Len(cs))
  <2>1. Len(cs) \in 0..Len(cs)
    BY <1>1
  <2> HIDE DEF Good
  <2> QED BY <1>3, <2>1
<1>5. Prefix(cs, Len(cs)) = Range(cs)
  BY PrefixOfAll
<1> QED BY <1>2, <1>4, <1>5

\* Everybody in the list is made ready, if startup allows.
LEMMA ReadyAllChanges ==
  ASSUME NEW s, IsScheduler(s), s.ready \in Seq(Ids), NEW cs \in Seq(Ids)
  PROVE  LET t == ReadyAll(s, cs) IN
         /\ IsScheduler(t)
         /\ t.queues = s.queues /\ t.startup = s.startup /\ t.channels = s.channels
         /\ t.eventWaiters = s.eventWaiters /\ t.files = s.files /\ t.jobs = s.jobs
         /\ t.ready \in Seq(Ids) /\ Range(s.ready) \subseteq Range(t.ready)
         /\ \A c \in Range(cs) : s.startup \in {None, c} => c \in Range(t.ready)
         /\ \A x \in Range(t.ready) \ Range(s.ready) : s.startup \in {None, x}
<1>1. Len(cs) \in Nat /\ DOMAIN cs = 1..Len(cs)
  OBVIOUS
<1>2. PICK after : /\ after[0] = s
                   /\ \A i \in 1..Len(cs) : after[i] = Ready(after[i - 1], cs[i])
                   /\ ReadyAll(s, cs) = after[Len(cs)]
  BY <1>1, ReadyAllSteps
<1> DEFINE Same(t) ==
             /\ IsScheduler(t)
             /\ t.queues = s.queues /\ t.startup = s.startup /\ t.channels = s.channels
             /\ t.eventWaiters = s.eventWaiters /\ t.files = s.files /\ t.jobs = s.jobs
             /\ t.ready \in Seq(Ids) /\ Range(s.ready) \subseteq Range(t.ready)
             /\ \A x \in Range(t.ready) \ Range(s.ready) : s.startup \in {None, x}
           Good(i) == /\ Same(after[i])
                      /\ \A c \in Prefix(cs, i) :
                           s.startup \in {None, c} => c \in Range(after[i].ready)
           Bad == {i \in 0..Len(cs) : ~Good(i)}
<1>3. Bad = {}
  <2>1. SUFFICES ASSUME Bad # {} PROVE FALSE
    OBVIOUS
  <2>2. PICK n \in Bad : \A m \in Bad : n <= m
    <3>1. Bad \subseteq Nat
      BY <1>1
    <3> HIDE DEF Bad
    <3> QED BY <2>1, <3>1, LeastOf
  <2>3. n \in Nat /\ n \in 0..Len(cs) /\ ~Good(n)
    BY <1>1
  <2>4. CASE n = 0
    <3>1. Good(0)
      BY <1>2, PrefixOfAll
    <3> QED BY <2>3, <2>4, <3>1
  <2>5. CASE n # 0
    <3>1. n - 1 \in 0..Len(cs) /\ n \in 1..Len(cs)
      BY <2>3, <2>5, <1>1
    <3>2. n - 1 \notin Bad
      <4> HIDE DEF Bad
      <4> QED BY <2>2, <2>3, <2>5
    <3>3. Good(n - 1)
      BY <3>1, <3>2
    <3> HIDE DEF Bad
    <3> DEFINE t == after[n - 1]
               u == after[n]
               c == cs[n]
    <3>4. c \in Ids /\ u = Ready(t, c)
      BY <3>1, <1>1, <1>2
    <3> HIDE DEF t, u, c
    <3>5. /\ Same(t)
          /\ \A x \in Prefix(cs, n - 1) : s.startup \in {None, x} => x \in Range(t.ready)
      BY <3>3 DEF t
    <3>6. /\ IsScheduler(u)
          /\ u.queues = t.queues /\ u.startup = t.startup /\ u.channels = t.channels
          /\ u.eventWaiters = t.eventWaiters /\ u.files = t.files /\ u.jobs = t.jobs
          /\ u.ready \in Seq(Ids) /\ Range(t.ready) \subseteq Range(u.ready)
          /\ t.startup \in {None, c} => c \in Range(u.ready)
          /\ \A x \in Range(u.ready) \ Range(t.ready) : t.startup \in {None, x}
      BY <3>4, <3>5, ReadyChanges
    <3>7. Same(u)
      BY <3>5, <3>6
    <3>8. Prefix(cs, n) = Prefix(cs, n - 1) \cup {c}
      BY <2>3, <2>5, PrefixGrows DEF c
    <3>9. \A x \in Prefix(cs, n) : s.startup \in {None, x} => x \in Range(u.ready)
      BY <3>5, <3>6, <3>8
    <3>10. Good(n)
      BY <3>7, <3>9 DEF u
    <3> HIDE DEF Good
    <3> QED BY <2>3, <3>10
  <2> QED BY <2>4, <2>5
<1>4. Good(Len(cs))
  <2>1. Len(cs) \in 0..Len(cs)
    BY <1>1
  <2> HIDE DEF Good
  <2> QED BY <1>3, <2>1
<1>5. Prefix(cs, Len(cs)) = Range(cs)
  BY PrefixOfAll
<1> QED BY <1>2, <1>4, <1>5

-----------------------------------------------------------------------------
(* Telling those who wait for an event                                     *)

\* Those who wait on channel n
On(s, n) == Range(s.channels[n].waiters) \cup Range(s.channels[n].lockers)

\* What two lists have together
LEMMA RangeOfConcat ==
  ASSUME NEW T, NEW p \in Seq(T), NEW q \in Seq(T)
  PROVE  Range(p \o q) = Range(p) \cup Range(q)
<1> DEFINE k == p \o q
<1>1. /\ DOMAIN k = 1..(Len(p) + Len(q)) /\ DOMAIN p = 1..Len(p) /\ DOMAIN q = 1..Len(q)
      /\ Len(p) \in Nat /\ Len(q) \in Nat
      /\ \A i \in 1..Len(p) : k[i] = p[i]
      /\ \A i \in 1..Len(q) : k[Len(p) + i] = q[i]
  OBVIOUS
<1> HIDE DEF k
<1>2. ASSUME NEW i \in DOMAIN k PROVE k[i] \in Range(p) \cup Range(q)
  <2>1. CASE i \in 1..Len(p)
    BY <2>1, <1>1 DEF Range
  <2>2. CASE i \notin 1..Len(p)
    <3>1. i - Len(p) \in 1..Len(q) /\ i = Len(p) + (i - Len(p))
      BY <2>2, <1>1
    <3>2. k[i] = q[i - Len(p)]
      BY <3>1, <1>1
    <3> QED BY <3>1, <3>2, <1>1 DEF Range
  <2> QED BY <2>1, <2>2
<1>3. ASSUME NEW i \in 1..Len(p) PROVE p[i] \in Range(k)
  <2>1. i \in DOMAIN k
    BY <1>1
  <2> QED BY <2>1, <1>1 DEF Range
<1>4. ASSUME NEW i \in 1..Len(q) PROVE q[i] \in Range(k)
  <2>1. Len(p) + i \in DOMAIN k
    BY <1>1
  <2> QED BY <2>1, <1>1 DEF Range
<1>5. Range(k) \subseteq Range(p) \cup Range(q)
  BY <1>2 DEF Range
<1>6. Range(p) \subseteq Range(k)
  BY <1>1, <1>3 DEF Range
<1>7. Range(q) \subseteq Range(k)
  BY <1>1, <1>4 DEF Range
<1> QED BY <1>5, <1>6, <1>7 DEF k

\* flush_waiters finds everybody who waits for an event or on a channel.
LEMMA EveryWaiterIsListed ==
  ASSUME NEW s, Tables(s)
  PROVE  /\ EveryWaiter(s) \in Seq(Ids)
         /\ \A c : c \in Range(EveryWaiter(s)) <=>
                     \/ c \in DOMAIN s.eventWaiters
                     \/ \E n \in DOMAIN s.channels : c \in On(s, n)
<1> DEFINE names == Ascending(DOMAIN s.channels)
           first == Ascending(DOMAIN s.eventWaiters)
<1>1. /\ DOMAIN s.channels \subseteq Channels /\ DOMAIN s.eventWaiters \subseteq Ids
      /\ \A n \in DOMAIN s.channels : s.channels[n] \in ChannelType
  BY DEF Tables, PartialFunction
<1>2. /\ names \in Seq(DOMAIN s.channels) /\ Range(names) = DOMAIN s.channels
      /\ Len(names) \in Nat /\ DOMAIN names = 1..Len(names)
      /\ first \in Seq(Ids) /\ Range(first) = DOMAIN s.eventWaiters
  <2>1. names \in Seq(DOMAIN s.channels) /\ Range(names) = DOMAIN s.channels
    BY <1>1, WalkedChannels
  <2>2. first \in Seq(Ids) /\ Range(first) = DOMAIN s.eventWaiters
    BY <1>1, WalkedIds
  <2> HIDE DEF names, first
  <2> QED BY <2>1, <2>2
<1>3. PICK after : /\ after[0] = first
                   /\ \A i \in 1..Len(names) : after[i] = Also(s, after[i - 1], names[i])
                   /\ EveryWaiter(s) = after[Len(names)]
  BY <1>2, EveryWaiterSteps
<1> HIDE DEF names, first
<1> DEFINE Good(i) ==
             /\ after[i] \in Seq(Ids)
             /\ \A c : c \in Range(after[i]) <=>
                         \/ c \in DOMAIN s.eventWaiters
                         \/ \E n \in Prefix(names, i) : c \in On(s, n)
           Bad == {i \in 0..Len(names) : ~Good(i)}
<1>4. Bad = {}
  <2>1. SUFFICES ASSUME Bad # {} PROVE FALSE
    OBVIOUS
  <2>2. PICK n \in Bad : \A m \in Bad : n <= m
    <3>1. Bad \subseteq Nat
      BY <1>2
    <3> HIDE DEF Bad
    <3> QED BY <2>1, <3>1, LeastOf
  <2>3. n \in Nat /\ n \in 0..Len(names) /\ ~Good(n)
    BY <1>2
  <2>4. CASE n = 0
    <3>1. Prefix(names, 0) = {}
      BY <1>2, PrefixOfAll
    <3>2. Good(0)
      BY <1>2, <1>3, <3>1
    <3> QED BY <2>3, <2>4, <3>2
  <2>5. CASE n # 0
    <3>1. n - 1 \in 0..Len(names) /\ n \in 1..Len(names)
      BY <2>3, <2>5, <1>2
    <3>2. n - 1 \notin Bad
      <4> HIDE DEF Bad
      <4> QED BY <2>2, <2>3, <2>5
    <3>3. Good(n - 1)
      BY <3>1, <3>2
    <3> HIDE DEF Bad
    <3> DEFINE t == after[n - 1]
               u == after[n]
               k == names[n]
               w == s.channels[k].waiters
               l == s.channels[k].lockers
    <3>4. k \in DOMAIN s.channels /\ u = Also(s, t, k)
      BY <3>1, <1>2, <1>3
    <3>5. w \in Seq(Ids) /\ l \in Seq(Ids) /\ On(s, k) = Range(w) \cup Range(l)
      BY <3>4, <1>1 DEF ChannelType, On
    <3>6. u = (t \o w) \o l
      BY <3>4 DEF Also
    <3> HIDE DEF t, u, k, w, l
    <3>7. /\ t \in Seq(Ids)
          /\ \A c : c \in Range(t) <=>
                      \/ c \in DOMAIN s.eventWaiters
                      \/ \E m \in Prefix(names, n - 1) : c \in On(s, m)
      BY <3>3 DEF t
    <3>8. t \o w \in Seq(Ids) /\ Range(t \o w) = Range(t) \cup Range(w)
      BY <3>5, <3>7, RangeOfConcat
    <3>9. u \in Seq(Ids) /\ Range(u) = (Range(t) \cup Range(w)) \cup Range(l)
      <4> DEFINE tw == t \o w
      <4> HIDE DEF tw
      <4>1. tw \in Seq(Ids) /\ Range(tw) = Range(t) \cup Range(w) /\ u = tw \o l
        BY <3>6, <3>8 DEF tw
      <4>2. Range(tw \o l) = Range(tw) \cup Range(l)
        BY <4>1, <3>5, RangeOfConcat
      <4> QED BY <4>1, <4>2, <3>5
    <3>10. Prefix(names, n) = Prefix(names, n - 1) \cup {k}
      BY <2>3, <2>5, PrefixGrows DEF k
    <3>11. \A c : c \in Range(u) <=>
                    \/ c \in DOMAIN s.eventWaiters
                    \/ \E m \in Prefix(names, n) : c \in On(s, m)
      BY <3>5, <3>7, <3>9, <3>10
    <3>12. Good(n)
      BY <3>9, <3>11 DEF u
    <3> HIDE DEF Good
    <3> QED BY <2>3, <3>12
  <2> QED BY <2>4, <2>5
<1>5. Good(Len(names))
  <2>1. Len(names) \in 0..Len(names)
    BY <1>2
  <2> HIDE DEF Good
  <2> QED BY <1>4, <2>1
<1>6. Prefix(names, Len(names)) = DOMAIN s.channels
  BY <1>2, PrefixOfAll
<1> QED BY <1>3, <1>5, <1>6

\* Some of the waiters for events are told, and leave the table.
Tells(s, t, H) ==
  /\ Stirs(s, t, DOMAIN s.eventWaiters \ DOMAIN t.eventWaiters, H)
  /\ DOMAIN t.eventWaiters \subseteq DOMAIN s.eventWaiters
  /\ \A c \in DOMAIN t.eventWaiters : t.eventWaiters[c] = s.eventWaiters[c]

\* What a hook may find about an event it is waiting for
Verdicts == {"keep", "wake", "fail"}

\* Telling one of those who wait for an event
LEMMA OneIsTold ==
  ASSUME NEW s, NEW t, Tables(t), NEW c \in Ids, NEW answer \in Verdicts, NEW W,
         answer = "keep" => W = {}, answer # "keep" => W = {c}
  PROVE  LET u == Told(s, t, c, answer)
         IN /\ Stirs(t, u, W, {}) /\ Tables(u)
            /\ DOMAIN u.eventWaiters = DOMAIN t.eventWaiters \ W
            /\ \A x \in DOMAIN u.eventWaiters : u.eventWaiters[x] = t.eventWaiters[x]
<1> DEFINE u == Told(s, t, c, answer)
           gone == [t EXCEPT !.eventWaiters = Without(@, c)]
<1>1. c \in Ids
  OBVIOUS
<1>2. /\ Tables(gone) /\ Stirs(t, gone, {}, {})
      /\ gone.eventWaiters = Without(t.eventWaiters, c) /\ gone.queues = t.queues
  BY EventWaiterGoes
<1>3. /\ DOMAIN gone.eventWaiters = DOMAIN t.eventWaiters \ {c}
      /\ \A x \in DOMAIN gone.eventWaiters : gone.eventWaiters[x] = t.eventWaiters[x]
  <2> DEFINE w == Without(t.eventWaiters, c)
  <2>1. DOMAIN w = DOMAIN t.eventWaiters \ {c} /\ \A x \in DOMAIN w : w[x] = t.eventWaiters[x]
    BY WithoutOne
  <2>2. gone.eventWaiters = w
    BY <1>2
  <2> HIDE DEF gone, w
  <2> QED BY <2>1, <2>2
<1>4. CASE answer = "keep"
  <2>1. u = t
    BY <1>4 DEF Told
  <2> HIDE DEF u
  <2> QED BY <1>4, <2>1, NothingStirs DEF u
<1>5. ASSUME NEW v, Refronts(gone, v, c), u = Unblock(v, c), answer # "keep"
      PROVE  /\ Stirs(t, u, {c}, {}) /\ Tables(u)
             /\ DOMAIN u.eventWaiters = DOMAIN t.eventWaiters \ {c}
             /\ \A x \in DOMAIN u.eventWaiters : u.eventWaiters[x] = t.eventWaiters[x]
  <2> HIDE DEF gone, u
  <2>1. Stirs(gone, u, {c}, {}) /\ u.eventWaiters = gone.eventWaiters
    BY <1>1, <1>2, <1>5, RefrontWakes
  <2>2. Stirs(t, u, {c}, {})
    <3>1. Stirs(t, u, {} \cup {c}, {})
      BY <1>2, <2>1, StirsOn
    <3>2. {} \cup {c} = {c}
      OBVIOUS
    <3> QED BY <3>1, <3>2
  <2>3. Tables(u)
    <3>1. PartialFunction(u.eventWaiters, Ids, [group : Nat])
      BY <1>2, <2>1 DEF Tables
    <3> QED BY <1>2, <2>1, <3>1, StirredTables
  <2> QED BY <1>3, <2>1, <2>2, <2>3
<1>6. CASE answer = "wake"
  <2>1. u = Unblock(gone, c)
    BY <1>6 DEF Told
  <2>2. Refronts(gone, gone, c)
    BY DEF Refronts
  <2> HIDE DEF u, gone
  <2> QED BY <1>5, <1>6, <2>1, <2>2 DEF u
<1>7. CASE answer = "fail"
  <2> DEFINE b == Fail(t.queues[c].pending[1], s.eventWaiters[c].group)
             failed == IF c \in DOMAIN t.queues /\ t.queues[c].pending # <<>>
                       THEN [t EXCEPT !.queues[c].pending[1] = b] ELSE t
             v == [failed EXCEPT !.eventWaiters = Without(@, c)]
  <2>1. u = Unblock(v, c)
    BY <1>7 DEF Told
  <2>2. CASE c \in DOMAIN t.queues /\ t.queues[c].pending # <<>>
    <3>1. b \in BatchSet /\ b.id = t.queues[c].pending[1].id
      <4>1. t.queues[c].pending[1] \in BatchSet
        BY <2>2, FrontInBatchSet
      <4> QED BY <4>1, FailedBatch
    <3> HIDE DEF b
    <3>2. v = [gone EXCEPT !.queues[c].pending[1] = b]
      <4>1. IsScheduler(t)
        BY DEF Tables
      <4>2. failed = [t EXCEPT !.queues[c].pending[1] = b]
        BY <2>2
      <4> DEFINE q == [t.queues EXCEPT ![c].pending[1] = b]
                 w == Without(t.eventWaiters, c)
      <4>3. failed = [t EXCEPT !.queues = q]
        BY <4>2
      <4>4. gone = [t EXCEPT !.eventWaiters = w]
        OBVIOUS
      <4>5. [gone EXCEPT !.queues[c].pending[1] = b] = [gone EXCEPT !.queues = q]
        BY <1>2
      <4> HIDE DEF q, w, gone, failed
      <4>6. failed = [queues |-> q, ready |-> t.ready, startup |-> t.startup,
                      channels |-> t.channels, eventWaiters |-> t.eventWaiters,
                      files |-> t.files, jobs |-> t.jobs]
        BY <4>1, <4>3 DEF IsScheduler
      <4>9. gone = [queues |-> t.queues, ready |-> t.ready, startup |-> t.startup,
                    channels |-> t.channels, eventWaiters |-> w,
                    files |-> t.files, jobs |-> t.jobs]
        BY <4>1, <4>4 DEF IsScheduler
      <4>7. [gone EXCEPT !.queues = q]
              = [queues |-> q, ready |-> t.ready, startup |-> t.startup,
                 channels |-> t.channels, eventWaiters |-> w,
                 files |-> t.files, jobs |-> t.jobs]
        BY <4>9
      <4>8. v = [queues |-> q, ready |-> t.ready, startup |-> t.startup,
                 channels |-> t.channels, eventWaiters |-> w,
                 files |-> t.files, jobs |-> t.jobs]
        BY <4>6 DEF w
      <4> HIDE DEF v
      <4> QED BY <4>5, <4>7, <4>8
    <3>3. Refronts(gone, v, c)
      <4> HIDE DEF gone, v, failed
      <4> QED BY <1>2, <2>2, <3>1, <3>2 DEF Refronts
    <3> HIDE DEF v, failed, u, gone
    <3> QED BY <1>5, <1>7, <2>1, <3>3 DEF u
  <2>3. CASE ~(c \in DOMAIN t.queues /\ t.queues[c].pending # <<>>)
    <3>1. v = gone
      BY <2>3
    <3>2. Refronts(gone, v, c)
      BY <3>1 DEF Refronts
    <3> HIDE DEF v, failed, u, gone
    <3> QED BY <1>5, <1>7, <2>1, <3>2 DEF u
  <2> QED BY <2>2, <2>3
<1> QED BY <1>4, <1>6, <1>7 DEF Verdicts

\* An event reaches some of its waiters.
LEMMA SignalEventTells ==
  ASSUME NEW s, Tables(s), NEW verdict,
         \A c \in DOMAIN s.eventWaiters : verdict[c] \in Verdicts
  PROVE  LET t == SignalEvent(s, verdict) IN Tells(s, t, {}) /\ Tables(t)
<1> DEFINE cs == Ascending(DOMAIN s.eventWaiters)
           D(i) == {c \in Prefix(cs, i) : verdict[c] # "keep"}
<1>0. DOMAIN s.eventWaiters \subseteq Ids
  BY DEF Tables, PartialFunction
<1>1. /\ cs \in Seq(DOMAIN s.eventWaiters) /\ Len(cs) \in Nat /\ DOMAIN cs = 1..Len(cs)
      /\ Range(cs) = DOMAIN s.eventWaiters
  <2>1. cs \in Seq(DOMAIN s.eventWaiters) /\ Range(cs) = DOMAIN s.eventWaiters
    BY <1>0, WalkedIds
  <2> HIDE DEF cs
  <2> QED BY <2>1
<1>2. PICK after : /\ after[0] = s
                   /\ \A i \in 1..Len(cs) : after[i] = Told(s, after[i - 1], cs[i], verdict[cs[i]])
                   /\ SignalEvent(s, verdict) = after[Len(cs)]
  BY <1>1, SignalEventSteps
<1> HIDE DEF cs
<1> DEFINE Fine(t, S) == /\ Stirs(s, t, S, {})
                         /\ Tables(t)
                         /\ DOMAIN t.eventWaiters = DOMAIN s.eventWaiters \ S
                         /\ \A x \in DOMAIN t.eventWaiters :
                              t.eventWaiters[x] = s.eventWaiters[x]
           Good(i) == Fine(after[i], D(i))
           Bad == {i \in 0..Len(cs) : ~Good(i)}
<1>3. Bad = {}
  <2>1. SUFFICES ASSUME Bad # {} PROVE FALSE
    OBVIOUS
  <2>2. PICK n \in Bad : \A m \in Bad : n <= m
    <3>1. Bad \subseteq Nat
      BY <1>1
    <3> HIDE DEF Bad
    <3> QED BY <2>1, <3>1, LeastOf
  <2>3. n \in Nat /\ n \in 0..Len(cs) /\ ~Good(n)
    BY <1>1
  <2>4. CASE n = 0
    <3>1. Prefix(cs, 0) = {}
      BY <1>1, PrefixOfAll
    <3>2. D(0) = {}
      BY <3>1
    <3>3. Fine(s, {})
      BY NothingStirs
    <3> HIDE DEF Fine
    <3>4. Good(0)
      BY <1>2, <3>2, <3>3
    <3> QED BY <2>3, <2>4, <3>4
  <2>5. CASE n # 0
    <3>1. n - 1 \in 0..Len(cs) /\ n \in 1..Len(cs)
      BY <2>3, <2>5, <1>1
    <3>2. n - 1 \notin Bad
      <4> HIDE DEF Bad
      <4> QED BY <2>2, <2>3, <2>5
    <3>3. Good(n - 1)
      BY <3>1, <3>2
    <3> HIDE DEF Bad
    <3> DEFINE t == after[n - 1]
               u == after[n]
               c == cs[n]
               answer == verdict[c]
               W == IF verdict[c] = "keep" THEN {} ELSE {c}
               S == D(n - 1)
    <3>4. c \in DOMAIN s.eventWaiters /\ u = Told(s, t, c, answer)
      BY <3>1, <1>1, <1>2
    <3>5. c \in Ids /\ answer \in Verdicts
      BY <3>4, <1>0
    <3>6. Fine(t, S)
      BY <3>3
    <3>8. D(n) = S \cup W
      <4>1. Prefix(cs, n) = Prefix(cs, n - 1) \cup {c}
        BY <2>3, <2>5, PrefixGrows
      <4> HIDE DEF c
      <4> QED BY <4>1
    <3>7. /\ Stirs(t, u, W, {}) /\ Tables(u)
          /\ DOMAIN u.eventWaiters = DOMAIN t.eventWaiters \ W
          /\ \A x \in DOMAIN u.eventWaiters : u.eventWaiters[x] = t.eventWaiters[x]
      <4>1. (answer = "keep" => W = {}) /\ (answer # "keep" => W = {c})
        OBVIOUS
      <4>2. Tables(t)
        BY <3>6
      <4> HIDE DEF t, u, c, answer, S, W, Fine, Good
      <4> DEFINE z == Told(s, t, c, answer)
      <4>3. /\ Stirs(t, z, W, {}) /\ Tables(z)
            /\ DOMAIN z.eventWaiters = DOMAIN t.eventWaiters \ W
            /\ \A x \in DOMAIN z.eventWaiters : z.eventWaiters[x] = t.eventWaiters[x]
        BY ONLY <3>5, <4>1, <4>2, OneIsTold
      <4>4. u = z
        BY <3>4
      <4> HIDE DEF z
      <4> QED BY <4>3, <4>4
    <3> HIDE DEF t, u, c, answer, W, S
    <3>9. Stirs(s, u, S \cup W, {})
      BY <3>6, <3>7, StirsOn
    <3>10. Fine(u, S \cup W)
      BY <3>6, <3>7, <3>9
    <3>11. Good(n)
      <4> HIDE DEF Fine
      <4> QED BY <3>8, <3>10 DEF u
    <3> QED BY <2>3, <3>11
  <2> QED BY <2>4, <2>5
<1>4. Good(Len(cs))
  <2>1. Len(cs) \in 0..Len(cs)
    BY <1>1
  <2> HIDE DEF Good
  <2> QED BY <1>3, <2>1
<1> DEFINE S == D(Len(cs))
<1>5. S \subseteq DOMAIN s.eventWaiters
  <2>1. Prefix(cs, Len(cs)) = DOMAIN s.eventWaiters
    BY <1>1, PrefixOfAll
  <2> QED BY <2>1
<1> DEFINE t == SignalEvent(s, verdict)
<1>6. Fine(t, S)
  BY <1>2, <1>4
<1> HIDE DEF S, t
<1>7. S = DOMAIN s.eventWaiters \ DOMAIN t.eventWaiters
  BY <1>5, <1>6
<1>8. Tells(s, t, {}) /\ Tables(t)
  BY <1>6, <1>7 DEF Tells
<1> QED BY <1>8 DEF t

\* An internal queue begins.
LEMMA SpawnStirs ==
  ASSUME NEW s, NEW t, Tells(s, t, {}), Tables(t), NEW h \in Ids, h \notin DOMAIN s.queues,
         NEW item \in CommandType
  PROVE  LET u == Spawn(t, h, item) IN Tells(s, u, {h}) /\ Tables(u)
<1> DEFINE b == NewBatch(0, <<item>>)
           q == [pending |-> <<b>>, blocked |-> FALSE]
           x == Put(t.queues, h, q)
           v == [t EXCEPT !.queues = x]
           u == Spawn(t, h, item)
<1>1. b \in BatchSet
  <2> DEFINE k == <<item>>
  <2>1. k \in Seq(CommandType) /\ Len(k) = 1
    OBVIOUS
  <2> HIDE DEF k
  <2>2. 1 <= MaxCommands
    BY Constants
  <2> QED BY <2>1, <2>2, NewBatches DEF k
<1> HIDE DEF b
<1>2. q \in QueueSet /\ ~q.blocked
  <2>1. <<b>> \in Seq(BatchSet) /\ Len(<<b>>) = 1
    BY <1>1
  <2>2. 1 <= MaxPending
    BY Constants
  <2> QED BY <2>1, <2>2 DEF QueueSet, Batches
<1>3. u = Ready(v, h)
  BY DEF Spawn, b
<1> HIDE DEF q
<1>4. /\ DOMAIN x = DOMAIN t.queues \cup {h} /\ x[h] = q
      /\ \A y \in DOMAIN t.queues \ {h} : x[y] = t.queues[y]
  <2> DEFINE f == t.queues
  <2> HIDE DEF f
  <2>1. x = Put(f, h, q)
    BY DEF f
  <2> HIDE DEF x
  <2>2. /\ DOMAIN x = DOMAIN f \cup {h} /\ x[h] = q
        /\ \A y \in DOMAIN f \ {h} : x[y] = f[y]
    BY <2>1 DEF Put
  <2> QED BY <2>2 DEF f
<1> HIDE DEF x
<1>5. IsScheduler(t) /\ t.ready \in Seq(Ids)
  BY DEF Tables
<1>6. /\ IsScheduler(v) /\ v.queues = x
      /\ v.ready = t.ready /\ v.startup = t.startup /\ v.channels = t.channels
      /\ v.eventWaiters = t.eventWaiters /\ v.files = t.files /\ v.jobs = t.jobs
  BY <1>5, SetQueues
<1> HIDE DEF v, u
<1>7. /\ IsScheduler(u)
      /\ u.queues = v.queues /\ u.startup = v.startup /\ u.channels = v.channels
      /\ u.eventWaiters = v.eventWaiters /\ u.files = v.files /\ u.jobs = v.jobs
      /\ u.ready \in Seq(Ids) /\ Range(v.ready) \subseteq Range(u.ready)
      /\ v.startup \in {None, h} => h \in Range(u.ready)
      /\ \A y \in Range(u.ready) \ Range(v.ready) : v.startup \in {None, y}
  BY <1>3, <1>5, <1>6, ReadyChanges
<1>8. /\ u.queues = x /\ u.startup = t.startup /\ u.channels = t.channels
      /\ u.eventWaiters = t.eventWaiters /\ u.files = t.files /\ u.jobs = t.jobs
      /\ u.ready \in Seq(Ids) /\ Range(t.ready) \subseteq Range(u.ready)
      /\ t.startup \in {None, h} => h \in Range(u.ready)
      /\ \A y \in Range(u.ready) \ Range(t.ready) : t.startup \in {None, y}
  BY <1>6, <1>7
<1> DEFINE W == DOMAIN s.eventWaiters \ DOMAIN t.eventWaiters
<1>9. Stirs(s, t, W, {})
  BY DEF Tells
<1> HIDE DEF W
<1>10. DOMAIN t.queues = DOMAIN s.queues
  BY <1>9 DEF Stirs
<1>11. \A y \in DOMAIN u.queues : u.queues[y] \in QueueSet
  BY <1>2, <1>4, <1>8, <1>9, <1>10 DEF Stirs
<1>12. \A y \in DOMAIN s.queues : u.queues[y] = t.queues[y]
  BY <1>4, <1>8, <1>10
<1>13. Stirs(s, u, W, {h})
  BY <1>2, <1>4, <1>7, <1>8, <1>9, <1>10, <1>11, <1>12 DEF Stirs
<1>14. Tells(s, u, {h})
  BY <1>8, <1>13 DEF Tells, W
<1>15. Tables(u)
  BY <1>4, <1>7, <1>8, <1>10, <1>11 DEF Tables, PartialFunction
<1> QED BY <1>14, <1>15 DEF u

\* Whatever comes of an event
LEMMA EventsTell ==
  ASSUME NEW s, Tables(s), NEW e \in Events(s), \A h \in FreeHooks : h \notin DOMAIN s.queues
  PROVE  /\ Tells(s, e.scheduler, e.started) /\ Tables(e.scheduler)
         /\ e.started \subseteq FreeHooks
<1>1. ASSUME NEW t \in Signals(s) PROVE Tells(s, t, {}) /\ Tables(t)
  <2>1. PICK v \in [DOMAIN s.eventWaiters -> Verdicts] : t = SignalEvent(s, v)
    BY DEF Signals, Verdicts
  <2> QED BY <2>1, SignalEventTells
<1> DEFINE A == [scheduler : Signals(s), started : {{}}]
           item == [TopLevel EXCEPT !.quiet = TRUE]
           B == {[scheduler |-> Spawn(t, h, item), started |-> {h}] :
                   t \in Signals(s), h \in FreeHooks}
<1>4. Events(s) = A \cup B
  BY DEF Events
<1>5. item \in CommandType
  BY Items
<1> HIDE DEF item
<1>2. CASE e \in A
  <2>1. e.scheduler \in Signals(s) /\ e.started = {}
    BY <1>2
  <2> QED BY <1>1, <2>1
<1>3. CASE e \in B
  <2>2. PICK t \in Signals(s), h \in FreeHooks :
          e = [scheduler |-> Spawn(t, h, item), started |-> {h}]
    BY ONLY <1>3
  <2>3. h \in Ids /\ h \notin DOMAIN s.queues
    BY Constants DEF FreeHooks
  <2>4. Tells(s, t, {}) /\ Tables(t)
    BY <1>1
  <2> DEFINE u == Spawn(t, h, item)
  <2>5. Tells(s, u, {h}) /\ Tables(u)
    BY <1>5, <2>3, <2>4, SpawnStirs
  <2> HIDE DEF u
  <2>6. e.scheduler = u /\ e.started = {h}
    BY <2>2 DEF u
  <2> QED BY <2>5, <2>6
<1> HIDE DEF A, B
<1> QED BY <1>2, <1>3, <1>4

\* The signal of an event tells those who wait for it.
LEMMA SignalsTell ==
  ASSUME NEW s, Tables(s), NEW t \in Signals(s)
  PROVE  Tells(s, t, {}) /\ Tables(t)
<1>1. PICK v \in [DOMAIN s.eventWaiters -> Verdicts] : t = SignalEvent(s, v)
  BY DEF Signals, Verdicts
<1> QED BY <1>1, SignalEventTells

-----------------------------------------------------------------------------
(* What waking keeps of the invariant                                      *)

\* g is a part of f.
Part(g, f) == DOMAIN g \subseteq DOMAIN f /\ \A x \in DOMAIN g : g[x] = f[x]

\* What Stirs says of the queues and the ready list
Rouses(s, t, W, H) ==
  /\ t.startup = s.startup
  /\ DOMAIN t.queues = DOMAIN s.queues \cup H
  /\ \A c \in DOMAIN s.queues : SameIds(s.queues[c].pending, t.queues[c].pending)
  /\ \A c \in DOMAIN s.queues \ W : t.queues[c] = s.queues[c]
  /\ \A c \in (DOMAIN s.queues \cap W) \cup H :
       ~t.queues[c].blocked /\ (s.startup \in {None, c} => c \in Range(t.ready))
  /\ Range(s.ready) \subseteq Range(t.ready)
  /\ \A c \in Range(t.ready) \ Range(s.ready) : s.startup \in {None, c}

\* The queues in W are woken, and leave the place where they were listed;
\* those of H begin.
Wakes(s, o, t, p, d, W, H) ==
  /\ Rouses(s, t, W, H)
  /\ ListsDistinct(t)
  /\ Part(t.jobs, s.jobs) /\ Part(t.files, s.files) /\ Part(p, o)
  /\ \A c \in Ids : Places(t, p, c) \subseteq Places(s, o, c)
  /\ \A c \in Ids \ W : Places(t, p, c) = Places(s, o, c)
  /\ \A c \in W : Has(s, d, c) => Places(t, p, c) = {}
  /\ d.id \in W => ~d.queue.blocked
  /\ \A c \in H : c \in Hooks /\ ~Has(s, d, c) /\ Places(s, o, c) = {}

\* Stirs implies Rouses.
LEMMA StirRouses ==
  ASSUME NEW s, NEW t, NEW W, NEW H, Stirs(s, t, W, H)
  PROVE  Rouses(s, t, W, H)
BY DEF Stirs, Rouses

\* A place of the kind "job" is a job.
LEMMA PlacesAreJobs ==
  ASSUME NEW s, NEW o, NEW c, NEW t, NEW p, Places(t, p, c) \subseteq Places(s, o, c),
         Places(s, o, c) \subseteq {"job"} \X JobsAt(s, c)
  PROVE  Places(t, p, c) \subseteq {"job"} \X JobsAt(t, c)
<1> SUFFICES ASSUME NEW x \in Places(t, p, c) PROVE x \in {"job"} \X JobsAt(t, c)
  OBVIOUS
<1>1. x \in {"job"} \X JobsAt(s, c)
  OBVIOUS
<1>2. x[1] = "job"
  BY <1>1
<1> QED BY <1>2 DEF Places

\* Who is woken leaves its place: Listing is kept.
LEMMA WakesListing ==
  ASSUME NEW s, NEW o, NEW t, NEW p, NEW d, NEW W, NEW H, NEW P,
         Wakes(s, o, t, p, d, W, H), Listing(s, o, d, P), W \subseteq Ids
  PROVE  Listing(t, p, d, P \cup H)
<1>1. ListsDistinct(t)
  BY DEF Wakes
<1>2. /\ DOMAIN t.queues = DOMAIN s.queues \cup H
      /\ d.id \notin DOMAIN t.queues
      /\ DOMAIN t.queues \subseteq P \cup H
  BY DEF Wakes, Rouses, Listing, Has
<1>3. d.id \notin P \cup H => ~d.queue.blocked
  BY DEF Listing
<1>4. ASSUME NEW c \in Ids, Has(t, d, c)
      PROVE  IF QueueIn(t, d, c).blocked THEN OnePlace(Places(t, p, c))
             ELSE Places(t, p, c) = {}
  <2>1. CASE c \in H
    <3>1. d.id # c /\ ~t.queues[c].blocked /\ Places(s, o, c) = {}
      BY <2>1 DEF Wakes, Rouses, Has
    <3>2. Places(t, p, c) = {}
      BY <3>1 DEF Wakes
    <3> QED BY <3>1, <3>2 DEF QueueIn
  <2>2. CASE c \notin H /\ c \in W
    <3>1. Has(s, d, c)
      BY <1>2, <1>4, <2>2 DEF Has
    <3>2. Places(t, p, c) = {}
      BY <3>1, <2>2 DEF Wakes
    <3>3. ~QueueIn(t, d, c).blocked
      <4>1. CASE d.id = c
        BY <4>1, <2>2 DEF Wakes, QueueIn
      <4>2. CASE d.id # c
        <5>1. c \in DOMAIN s.queues \cap W
          BY <3>1, <4>2, <2>2 DEF Has
        <5> QED BY <4>2, <5>1 DEF QueueIn, Wakes, Rouses
      <4> QED BY <4>1, <4>2
    <3> QED BY <3>2, <3>3
  <2>3. CASE c \notin H /\ c \notin W
    <3>1. Has(s, d, c)
      BY <1>2, <1>4, <2>3 DEF Has
    <3>2. Places(t, p, c) = Places(s, o, c)
      BY <2>3 DEF Wakes
    <3>3. QueueIn(t, d, c) = QueueIn(s, d, c)
      BY <3>1, <2>3 DEF Has, QueueIn, Wakes, Rouses
    <3>4. IF QueueIn(s, d, c).blocked THEN OnePlace(Places(s, o, c)) ELSE Places(s, o, c) = {}
      BY <3>1 DEF Listing
    <3> QED BY <3>2, <3>3, <3>4
  <2> QED BY <2>1, <2>2, <2>3
<1>5. ASSUME NEW c \in Ids, ~Has(t, d, c)
      PROVE  /\ Places(t, p, c) \subseteq {"job"} \X JobsAt(t, c)
             /\ c \in P \cup H => Places(t, p, c) = {}
  <2>1. ~Has(s, d, c) /\ c \notin H
    BY <1>2, <1>5 DEF Has
  <2>2. /\ Places(s, o, c) \subseteq {"job"} \X JobsAt(s, c)
        /\ c \in P => Places(s, o, c) = {}
    BY <2>1 DEF Listing
  <2>3. Places(t, p, c) \subseteq Places(s, o, c)
    BY DEF Wakes
  <2> QED BY <2>1, <2>2, <2>3, PlacesAreJobs
<1> QED BY <1>1, <1>2, <1>3, <1>4, <1>5 DEF Listing

\* The batches in front of the queues are the same.
LEMMA RouseFronts ==
  ASSUME NEW s, NEW t, NEW W, NEW H, NEW d, NEW c, NEW batch,
         Rouses(s, t, W, H), AtFront(s, d, c, batch), c \in H => Has(s, d, c)
  PROVE  AtFront(t, d, c, batch)
<1> SUFFICES ASSUME Has(t, d, c)
             PROVE  LET pending == QueueIn(t, d, c).pending
                    IN pending # <<>> /\ pending[1].id = batch
  BY DEF AtFront
<1>1. Has(s, d, c)
  BY DEF Has, Rouses
<1>2. CASE d.id = c
  BY <1>1, <1>2 DEF AtFront, QueueIn
<1>3. CASE d.id # c
  <2> DEFINE a == s.queues[c].pending
             b == t.queues[c].pending
  <2>1. SameIds(a, b)
    BY <1>1, <1>3 DEF Has, Rouses
  <2>2. a # <<>> /\ a[1].id = batch
    BY <1>1, <1>3 DEF AtFront, QueueIn
  <2>3. b = QueueIn(t, d, c).pending
    BY <1>3 DEF QueueIn
  <2> HIDE DEF a, b
  <2>4. b # <<>> /\ b[1].id = batch
    BY <2>1, <2>2 DEF SameIds
  <2> QED BY <2>3, <2>4
<1> QED BY <1>2, <1>3

\* Fronts is kept.
LEMMA WakesFronts ==
  ASSUME NEW s, NEW o, NEW t, NEW p, NEW d, NEW W, NEW H, Tables(s),
         Wakes(s, o, t, p, d, W, H), Fronts(s, o, d),
         DOMAIN o \subseteq Ids
  PROVE  Fronts(t, p, d)
<1>1. \A c \in H : c \in Ids /\ Places(s, o, c) = {}
  BY Constants DEF Wakes
<1>2. Rouses(s, t, W, H)
  BY DEF Wakes
<1>3. ASSUME NEW j \in DOMAIN t.jobs, ~t.jobs[j].background
      PROVE  AtFront(t, d, t.jobs[j].client, t.jobs[j].batch)
  <2>1. j \in DOMAIN s.jobs /\ t.jobs[j] = s.jobs[j]
    BY DEF Wakes, Part
  <2> DEFINE c == t.jobs[j].client
             batch == t.jobs[j].batch
  <2>2. AtFront(s, d, c, batch)
    BY <1>3, <2>1 DEF Fronts
  <2>3. <<"job", j>> \in Places(s, o, c)
    BY <1>3, <2>1 DEF Places, JobsAt
  <2>4. c \notin H
    BY <2>3, <1>1
  <2> HIDE DEF c, batch
  <2>5. AtFront(t, d, c, batch)
    BY <1>2, <2>2, <2>4, RouseFronts
  <2> QED BY <2>5 DEF c, batch
<1>4. ASSUME NEW c \in DOMAIN t.files PROVE AtFront(t, d, c, t.files[c].batch)
  <2>1. c \in DOMAIN s.files /\ t.files[c] = s.files[c]
    BY DEF Wakes, Part
  <2> DEFINE batch == t.files[c].batch
  <2>2. AtFront(s, d, c, batch)
    BY <2>1 DEF Fronts
  <2>3. <<"file", c>> \in Places(s, o, c)
    BY <2>1 DEF Places
  <2>4. c \notin H
    BY <2>3, <1>1
  <2> HIDE DEF batch
  <2>5. AtFront(t, d, c, batch)
    BY <1>2, <2>2, <2>4, RouseFronts
  <2> QED BY <2>5 DEF batch
<1>5. ASSUME NEW c \in DOMAIN p PROVE AtFront(t, d, c, p[c].batch)
  <2>1. c \in DOMAIN o /\ p[c] = o[c]
    BY DEF Wakes, Part
  <2> DEFINE batch == p[c].batch
  <2>2. AtFront(s, d, c, batch)
    BY <2>1 DEF Fronts
  <2>3. <<"outside", c>> \in Places(s, o, c)
    BY <2>1 DEF Places
  <2>4. c \notin H
    BY <2>3, <1>1
  <2> HIDE DEF batch
  <2>5. AtFront(t, d, c, batch)
    BY <1>2, <2>2, <2>4, RouseFronts
  <2> QED BY <2>5 DEF batch
<1> QED BY <1>3, <1>4, <1>5 DEF Fronts

\* No request is lost or moved: InOrder is kept.
LEMMA RousesInOrder ==
  ASSUME NEW s, NEW t, NEW d, NEW W, NEW H, NEW ak, NEW an, NEW P, NEW X,
         Rouses(s, t, W, H), H \subseteq Hooks, InOrder(s, d, ak, an, P, X)
  PROVE  InOrder(t, d, ak, an, P \cup H, X)
<1> SUFFICES ASSUME NEW c \in Clients
             PROVE LET a == Len(an[c])
                       r == IF d.id = c THEN Len(d.replies) ELSE 0
                       pending == QueueIn(t, d, c).pending
                   IN /\ \A i \in 1..a : an[c][i] = i
                      /\ c \notin X =>
                          /\ d.id = c => \A i \in 1..r : d.replies[i] = a + i
                          /\ Has(t, d, c) => \A i \in 1..Len(pending) : pending[i].id = a + r + i
                          /\ c \in P \cup H =>
                               ak[c] = a + r + IF Has(t, d, c) THEN Len(pending) ELSE 0
  BY DEF InOrder
<1>1. c \notin H
  BY Constants
<1>2. Has(s, d, c) <=> Has(t, d, c)
  BY <1>1 DEF Has, Rouses
<1> DEFINE a == Len(an[c])
           r == IF d.id = c THEN Len(d.replies) ELSE 0
           p == QueueIn(s, d, c).pending
           q == QueueIn(t, d, c).pending
<1>3. Has(s, d, c) => SameIds(p, q)
  BY SameIdsOfSame DEF Rouses, Has, QueueIn
<1>4. /\ \A i \in 1..a : an[c][i] = i
      /\ c \notin X =>
          /\ d.id = c => \A i \in 1..r : d.replies[i] = a + i
          /\ Has(s, d, c) => \A i \in 1..Len(p) : p[i].id = a + r + i
          /\ c \in P => ak[c] = a + r + IF Has(s, d, c) THEN Len(p) ELSE 0
  BY DEF InOrder
<1> HIDE DEF a, r, p, q
<1>5. Has(s, d, c) => Len(p) = Len(q) /\ \A i \in 1..Len(p) : q[i].id = p[i].id
  BY <1>3 DEF SameIds
<1>6. /\ \A i \in 1..a : an[c][i] = i
      /\ c \notin X =>
          /\ d.id = c => \A i \in 1..r : d.replies[i] = a + i
          /\ Has(t, d, c) => \A i \in 1..Len(q) : q[i].id = a + r + i
          /\ c \in P \cup H => ak[c] = a + r + IF Has(t, d, c) THEN Len(q) ELSE 0
  BY <1>1, <1>2, <1>4, <1>5
<1> QED BY <1>6 DEF a, r, q

\* Ready lets the configuration run alone: StartsAlone is kept.
LEMMA RousesStartsAlone ==
  ASSUME NEW s, NEW t, NEW d, NEW W, NEW H, NEW lv, Rouses(s, t, W, H),
         Tables(s), StartsAlone(s, lv, d)
  PROVE  StartsAlone(t, lv \cup H, d)
<1> SUFFICES ASSUME t.startup # None
             PROVE /\ Range(t.ready) \subseteq {Config}
                   /\ d.id \in {None, Config}
                   /\ Config \in lv \cup H
                   /\ Has(t, d, Config)
  BY DEF StartsAlone
<1>1. s.startup = Config /\ s.startup # None
  BY DEF Rouses, Tables
<1> QED BY <1>1 DEF StartsAlone, Rouses, Has

\* Who is woken is ready: Runnable is kept.
LEMMA RousesRunnable ==
  ASSUME NEW s, NEW t, NEW W, NEW H, NEW X, Rouses(s, t, W, H), Runnable(s, X)
  PROVE  Runnable(t, X)
<1> SUFFICES ASSUME NEW c \in DOMAIN t.queues \ X,
                    t.queues[c].pending # <<>>, ~t.queues[c].blocked,
                    t.startup \in {None, c}
             PROVE  c \in Range(t.ready)
  BY DEF Runnable
<1>1. s.startup \in {None, c}
  BY DEF Rouses
<1>2. CASE c \in H \/ c \in W
  BY <1>1, <1>2 DEF Rouses
<1>3. CASE c \notin H /\ c \notin W
  <2>1. c \in DOMAIN s.queues /\ t.queues[c] = s.queues[c]
    BY <1>3 DEF Rouses
  <2>2. c \in Range(s.ready)
    BY <1>1, <2>1 DEF Runnable
  <2> QED BY <2>2 DEF Rouses
<1> QED BY <1>2, <1>3

\* Whoever is woken, the invariant is kept.
LEMMA WakeKeeps ==
  ASSUME NEW s, NEW lv, NEW cl, NEW o, NEW d, NEW ak, NEW an, NEW h, NEW X,
         Bundle(s, lv, cl, o, d, ak, an, h, X),
         NEW t, NEW p, NEW W, NEW H, NEW g, Wakes(s, o, t, p, d, W, H), W \subseteq Ids,
         Tables(t), Served(t, g), g \in [Channels -> SUBSET Ids], H \cap lv = {}
  PROVE  Bundle(t, lv \cup H, cl, p, d, ak, an, g, X)
<1> DEFINE P == lv \ cl
<1>1. /\ Tables(s) /\ Control(lv, cl, o, d, ak, an, h) /\ Listing(s, o, d, P)
      /\ Fronts(s, o, d) /\ InOrder(s, d, ak, an, P, X)
      /\ StartsAlone(s, lv, d) /\ Runnable(s, X)
  BY DEF Bundle
<1>2. /\ Rouses(s, t, W, H) /\ H \subseteq Hooks /\ Part(p, o)
  BY DEF Wakes
<1>3. P \cup H = (lv \cup H) \ cl
  BY <1>1 DEF Control
<1>4. Control(lv \cup H, cl, p, d, ak, an, g)
  BY <1>1, <1>2, Constants DEF Control, Part, PartialFunction
<1> HIDE DEF P
<1>5. Listing(t, p, d, P \cup H)
  BY <1>1, WakesListing
<1>6. Fronts(t, p, d)
  <2>1. DOMAIN o \subseteq Ids
    BY <1>1 DEF Control, PartialFunction
  <2> QED BY <1>1, <2>1, WakesFronts
<1>7. InOrder(t, d, ak, an, P \cup H, X)
  BY <1>1, <1>2, RousesInOrder
<1>8. StartsAlone(t, lv \cup H, d)
  BY <1>1, <1>2, RousesStartsAlone
<1>9. Runnable(t, X)
  BY <1>1, <1>2, RousesRunnable
<1> QED BY <1>3, <1>4, <1>5, <1>6, <1>7, <1>8, <1>9 DEF Bundle

-----------------------------------------------------------------------------
(* Events keep the invariant                                               *)

\* Two tables that differ in who waits for an event only
LEMMA PlacesByEvents ==
  ASSUME NEW s, NEW t, NEW o, NEW c, t.channels = s.channels, t.files = s.files,
         t.jobs = s.jobs, DOMAIN t.eventWaiters \subseteq DOMAIN s.eventWaiters
  PROVE  /\ Places(t, o, c) \subseteq Places(s, o, c)
         /\ c \notin DOMAIN s.eventWaiters \ DOMAIN t.eventWaiters
              => Places(t, o, c) = Places(s, o, c)
         /\ c \notin DOMAIN t.eventWaiters => <<"event", c>> \notin Places(t, o, c)
<1>1. WaitsAt(t, c) = WaitsAt(s, c) /\ LocksAt(t, c) = LocksAt(s, c) /\ JobsAt(t, c) = JobsAt(s, c)
  BY DEF WaitsAt, LocksAt, JobsAt
<1>2. {c} \cap DOMAIN t.eventWaiters \subseteq {c} \cap DOMAIN s.eventWaiters
  OBVIOUS
<1>3. c \notin DOMAIN s.eventWaiters \ DOMAIN t.eventWaiters
        => {c} \cap DOMAIN t.eventWaiters = {c} \cap DOMAIN s.eventWaiters
  OBVIOUS
<1>4. c \notin DOMAIN t.eventWaiters => <<"event", c>> \notin Places(t, o, c)
  BY DEF Places
<1>5. Places(t, o, c) \subseteq Places(s, o, c)
  BY <1>1, <1>2 DEF Places
<1>6. c \notin DOMAIN s.eventWaiters \ DOMAIN t.eventWaiters
        => Places(t, o, c) = Places(s, o, c)
  BY <1>1, <1>3 DEF Places
<1> QED BY <1>4, <1>5, <1>6

\* Who is not there yet, and has no job, is listed nowhere.
LEMMA NewcomerIsUnlisted ==
  ASSUME NEW s, NEW lv, NEW cl, NEW o, NEW d, NEW ak, NEW an, NEW h, NEW X,
         Bundle(s, lv, cl, o, d, ak, an, h, X),
         NEW c \in Hooks, c \notin lv, \A j \in DOMAIN s.jobs : s.jobs[j].client # c
  PROVE  c \notin DOMAIN s.queues /\ d.id # c /\ ~Has(s, d, c) /\ Places(s, o, c) = {}
<1>1. Control(lv, cl, o, d, ak, an, h) /\ Listing(s, o, d, lv \ cl) /\ c \in Ids /\ c \in Internal
  BY Constants DEF Bundle
<1>2. c \notin DOMAIN s.queues /\ d.id # c
  BY <1>1 DEF Control, Listing
<1>3. ~Has(s, d, c)
  BY <1>2 DEF Has
<1>4. JobsAt(s, c) = {}
  BY DEF JobsAt
<1>5. Places(s, o, c) \subseteq {"job"} \X JobsAt(s, c)
  BY <1>1, <1>3 DEF Listing
<1> QED BY <1>2, <1>3, <1>4, <1>5

\* What waited for the event alone is listed nowhere.
LEMMA TellWakes ==
  ASSUME NEW s, NEW lv, NEW cl, NEW o, NEW d, NEW ak, NEW an, NEW h, NEW X,
         Bundle(s, lv, cl, o, d, ak, an, h, X), ~d.queue.blocked,
         NEW t, NEW H, Tells(s, t, H), Tables(t), H \subseteq Hooks, H \cap lv = {},
         \A j \in DOMAIN s.jobs : s.jobs[j].client \notin H
  PROVE  Wakes(s, o, t, o, d, DOMAIN s.eventWaiters \ DOMAIN t.eventWaiters, H)
<1> DEFINE W == DOMAIN s.eventWaiters \ DOMAIN t.eventWaiters
<1>1. Stirs(s, t, W, H) /\ DOMAIN t.eventWaiters \subseteq DOMAIN s.eventWaiters
  BY DEF Tells
<1>2. /\ Listing(s, o, d, lv \ cl) /\ Tables(s)
  BY DEF Bundle
<1>3. t.channels = s.channels /\ t.files = s.files /\ t.jobs = s.jobs /\ W \subseteq Ids
  BY <1>1, <1>2 DEF Stirs, Tables, PartialFunction
<1>4. Rouses(s, t, W, H)
  BY <1>1, StirRouses
<1>5. ListsDistinct(t)
  BY <1>2, <1>3 DEF Listing, ListsDistinct
<1>6. Part(t.jobs, s.jobs) /\ Part(t.files, s.files) /\ Part(o, o)
  BY <1>3 DEF Part
<1>7. ASSUME NEW c \in Ids
      PROVE  /\ Places(t, o, c) \subseteq Places(s, o, c)
             /\ c \notin W => Places(t, o, c) = Places(s, o, c)
             /\ c \in W => <<"event", c>> \notin Places(t, o, c)
  BY <1>1, <1>3, PlacesByEvents
<1>8. ASSUME NEW c \in W, Has(s, d, c) PROVE Places(t, o, c) = {}
  <2>1. c \in Ids /\ c \in DOMAIN s.eventWaiters
    BY <1>3
  <2>2. <<"event", c>> \in Places(s, o, c)
    BY <2>1 DEF Places
  <2>3. PICK x : Places(s, o, c) = {x}
    BY <1>2, <1>8, <2>1, <2>2 DEF Listing, OnePlace
  <2> HIDE DEF W
  <2> QED BY <1>7, <2>1, <2>2, <2>3
<1>9. ASSUME NEW c \in H PROVE c \in Hooks /\ ~Has(s, d, c) /\ Places(s, o, c) = {}
  <2>1. c \in Hooks /\ c \notin lv /\ \A j \in DOMAIN s.jobs : s.jobs[j].client # c
    OBVIOUS
  <2> QED BY <2>1, NewcomerIsUnlisted
<1> QED BY <1>4, <1>5, <1>6, <1>7, <1>8, <1>9 DEF Wakes

\* An event is queued.
LEMMA TellKeeps ==
  ASSUME NEW s, NEW lv, NEW cl, NEW o, NEW d, NEW ak, NEW an, NEW h, NEW X,
         Bundle(s, lv, cl, o, d, ak, an, h, X), ~d.queue.blocked,
         NEW t, NEW H, Tells(s, t, H), Tables(t), H \subseteq Hooks, H \cap lv = {},
         \A j \in DOMAIN s.jobs : s.jobs[j].client \notin H
  PROVE  Bundle(t, lv \cup H, cl, o, d, ak, an, h, X)
<1> DEFINE W == DOMAIN s.eventWaiters \ DOMAIN t.eventWaiters
<1>1. Wakes(s, o, t, o, d, W, H)
  BY TellWakes
<1>2. t.channels = s.channels /\ W \subseteq Ids
  BY DEF Tells, Stirs, Bundle, Tables, PartialFunction
<1>3. Served(t, h) /\ h \in [Channels -> SUBSET Ids]
  BY <1>2 DEF Bundle, Served, Control
<1> HIDE DEF W
<1> QED BY <1>1, <1>2, <1>3, WakeKeeps

\* The hooks that may start are not there yet.
HooksAreFree(s, lv) ==
  \A c \in FreeHooks : c \notin lv /\ \A j \in DOMAIN s.jobs : s.jobs[j].client # c

\* queue_event and queue_hook_event, which may start a hook, keep the invariant.
LEMMA EventKeeps ==
  ASSUME NEW s, NEW lv, NEW cl, NEW o, NEW d, NEW ak, NEW an, NEW h, NEW X,
         Bundle(s, lv, cl, o, d, ak, an, h, X), ~d.queue.blocked,
         HooksAreFree(s, lv), NEW e \in Events(s)
  PROVE  /\ Bundle(e.scheduler, lv \cup e.started, cl, o, d, ak, an, h, X)
         /\ e.started \subseteq Hooks /\ e.started \cap lv = {}
         /\ e.started \subseteq FreeHooks
<1>1. Tables(s)
  BY DEF Bundle
<1>2. ASSUME NEW c \in FreeHooks PROVE c \notin DOMAIN s.queues /\ c \in Hooks
  <2>1. c \in Hooks /\ c \notin lv /\ \A j \in DOMAIN s.jobs : s.jobs[j].client # c
    BY DEF HooksAreFree, FreeHooks
  <2> QED BY <2>1, NewcomerIsUnlisted
<1> DEFINE t == e.scheduler
           H == e.started
<1>3. Tells(s, t, H) /\ Tables(t) /\ H \subseteq FreeHooks
  BY <1>1, <1>2, EventsTell
<1>4. /\ H \subseteq Hooks /\ H \cap lv = {}
      /\ \A j \in DOMAIN s.jobs : s.jobs[j].client \notin H
  BY <1>2, <1>3 DEF HooksAreFree
<1> HIDE DEF t, H
<1>5. Bundle(t, lv \cup H, cl, o, d, ak, an, h, X)
  BY <1>3, <1>4, TellKeeps
<1> QED BY <1>3, <1>4, <1>5 DEF t, H

\* signal_hook_event keeps it.
LEMMA SignalKeeps ==
  ASSUME NEW s, NEW lv, NEW cl, NEW o, NEW d, NEW ak, NEW an, NEW h, NEW X,
         Bundle(s, lv, cl, o, d, ak, an, h, X), ~d.queue.blocked,
         NEW t \in Signals(s)
  PROVE  Bundle(t, lv, cl, o, d, ak, an, h, X) /\ t.files = s.files
<1> DEFINE H == {}
<1>1. Tables(s)
  BY DEF Bundle
<1>2. Tells(s, t, {}) /\ Tables(t)
  BY <1>1, SignalsTell
<1>3. Tells(s, t, H)
  BY <1>2
<1>4. H \subseteq Hooks /\ H \cap lv = {} /\ \A j \in DOMAIN s.jobs : s.jobs[j].client \notin H
  OBVIOUS
<1>5. lv \cup H = lv
  OBVIOUS
<1> HIDE DEF H
<1>6. Bundle(t, lv \cup H, cl, o, d, ak, an, h, X)
  BY <1>2, <1>3, <1>4, TellKeeps
<1>7. t.files = s.files
  BY <1>2 DEF Tells, Stirs
<1> QED BY <1>5, <1>6, <1>7

-----------------------------------------------------------------------------
(* Dropping a queue: Lost                                                  *)

\* A channel nobody uses goes: nobody is listed there.
LEMMA CleanKeeps ==
  ASSUME NEW r, NEW t, PartialFunction(r.channels, Channels, ChannelType),
         t.channels = Clean(r.channels)
  PROVE  /\ DOMAIN t.channels \subseteq DOMAIN r.channels
         /\ PartialFunction(t.channels, Channels, ChannelType)
         /\ \A c : WaitsAt(t, c) = WaitsAt(r, c) /\ LocksAt(t, c) = LocksAt(r, c)
         /\ ListsDistinct(r) => ListsDistinct(t)
         /\ \A h : Served(r, h) => Served(t, h)
<1> DEFINE C == r.channels
           D == t.channels
<1>1. /\ DOMAIN D \subseteq DOMAIN C /\ DOMAIN C \subseteq Channels
      /\ \A n \in DOMAIN D : D[n] = C[n]
      /\ \A n \in DOMAIN C \ DOMAIN D : Unused(C[n])
      /\ \A n \in DOMAIN C : C[n] \in ChannelType
  BY DEF Clean, Restrict, PartialFunction
<1> HIDE DEF C, D
<1>2. /\ DOMAIN t.channels \subseteq DOMAIN r.channels
      /\ PartialFunction(t.channels, Channels, ChannelType)
  BY <1>1 DEF C, D, PartialFunction
<1>3. \A n \in DOMAIN C \ DOMAIN D : Range(C[n].waiters) = {} /\ Range(C[n].lockers) = {}
  BY <1>1 DEF Unused, Range
<1>4. ASSUME NEW c PROVE WaitsAt(t, c) = WaitsAt(r, c) /\ LocksAt(t, c) = LocksAt(r, c)
  BY <1>1, <1>3 DEF WaitsAt, LocksAt, C, D
<1>5. ListsDistinct(r) => ListsDistinct(t)
  BY <1>1 DEF ListsDistinct, C, D
<1>6. ASSUME NEW h, Served(r, h) PROVE Served(t, h)
  <2>1. ASSUME NEW n \in Channels
        PROVE  n \in DOMAIN D /\ D[n].locked <=> n \in DOMAIN C /\ C[n].locked
    BY <1>1 DEF Unused
  <2>2. \A n \in Channels : IF n \in DOMAIN D /\ D[n].locked THEN OnePlace(h[n]) ELSE h[n] = {}
    BY <1>6, <2>1 DEF Served, C
  <2>3. \A n \in DOMAIN D :
          /\ D[n].woken => D[n].waiters = <<>>
          /\ D[n].lockers # <<>> => D[n].locked
    BY <1>1, <1>6 DEF Served, C
  <2> QED BY <2>2, <2>3 DEF Served, D
<1> QED BY <1>2, <1>4, <1>5, <1>6

\* What a channel is without c
LEMMA QuitOne ==
  ASSUME NEW ch \in ChannelType, NEW c
  PROVE  /\ Quit(ch, c) \in ChannelType
         /\ Quit(ch, c).locked = ch.locked /\ Quit(ch, c).woken = ch.woken
         /\ Quit(ch, c).waiters = Others(ch.waiters, c)
         /\ Quit(ch, c).lockers = Others(ch.lockers, c)
         /\ Others(ch.waiters, c) \in Seq(Ids)
         /\ Others(ch.lockers, c) \in Seq(Ids)
         /\ Range(Others(ch.waiters, c)) = Range(ch.waiters) \ {c}
         /\ Range(Others(ch.lockers, c)) = Range(ch.lockers) \ {c}
         /\ Distinct(ch.waiters) => Distinct(Others(ch.waiters, c))
         /\ Distinct(ch.lockers) => Distinct(Others(ch.lockers, c))
         /\ ch.waiters = <<>> => Others(ch.waiters, c) = <<>>
         /\ ch.lockers = <<>> => Others(ch.lockers, c) = <<>>
<1> DEFINE w == Others(ch.waiters, c)
           l == Others(ch.lockers, c)
<1>1. ch.waiters \in Seq(Ids) /\ ch.lockers \in Seq(Ids)
  BY DEF ChannelType
<1>2. /\ w \in Seq(Ids) /\ Range(w) = Range(ch.waiters) \ {c}
      /\ Distinct(ch.waiters) => Distinct(w)
      /\ ch.waiters = <<>> => w = <<>>
  BY <1>1, OthersOfList
<1>3. /\ l \in Seq(Ids) /\ Range(l) = Range(ch.lockers) \ {c}
      /\ Distinct(ch.lockers) => Distinct(l)
      /\ ch.lockers = <<>> => l = <<>>
  BY <1>1, OthersOfList
<1>4. Quit(ch, c) = [ch EXCEPT !.waiters = w, !.lockers = l]
  BY DEF Quit
<1> HIDE DEF w, l
<1>5. /\ Quit(ch, c) \in ChannelType
      /\ Quit(ch, c).locked = ch.locked /\ Quit(ch, c).woken = ch.woken
      /\ Quit(ch, c).waiters = w /\ Quit(ch, c).lockers = l
  BY <1>2, <1>3, <1>4 DEF ChannelType
<1> QED BY <1>2, <1>3, <1>5 DEF w, l

\* What all channels are without c
LEMMA QuitKeeps ==
  ASSUME NEW s, NEW r, NEW c, PartialFunction(s.channels, Channels, ChannelType),
         r.channels = [n \in DOMAIN s.channels |-> Quit(s.channels[n], c)]
  PROVE  /\ DOMAIN r.channels = DOMAIN s.channels
         /\ PartialFunction(r.channels, Channels, ChannelType)
         /\ \A x : x # c => WaitsAt(r, x) = WaitsAt(s, x) /\ LocksAt(r, x) = LocksAt(s, x)
         /\ WaitsAt(r, c) = {} /\ LocksAt(r, c) = {}
         /\ ListsDistinct(s) => ListsDistinct(r)
         /\ \A h : Served(s, h) => Served(r, h)
<1> DEFINE C == s.channels
           D == r.channels
<1>1. /\ DOMAIN C = DOMAIN D
      /\ \A n \in DOMAIN C : D[n] = Quit(C[n], c)
      /\ \A n \in DOMAIN C : C[n] \in ChannelType
      /\ DOMAIN C \subseteq Channels
  BY DEF PartialFunction
<1> HIDE DEF C, D
<1>2. \A n \in DOMAIN C :
         /\ D[n] \in ChannelType
         /\ D[n].locked = C[n].locked /\ D[n].woken = C[n].woken
         /\ Range(D[n].waiters) = Range(C[n].waiters) \ {c}
         /\ Range(D[n].lockers) = Range(C[n].lockers) \ {c}
         /\ Distinct(C[n].waiters) => Distinct(D[n].waiters)
         /\ Distinct(C[n].lockers) => Distinct(D[n].lockers)
         /\ C[n].waiters = <<>> => D[n].waiters = <<>>
         /\ C[n].lockers = <<>> => D[n].lockers = <<>>
  <2> SUFFICES ASSUME NEW n \in DOMAIN C
               PROVE  /\ D[n] \in ChannelType
                      /\ D[n].locked = C[n].locked /\ D[n].woken = C[n].woken
                      /\ Range(D[n].waiters) = Range(C[n].waiters) \ {c}
                      /\ Range(D[n].lockers) = Range(C[n].lockers) \ {c}
                      /\ Distinct(C[n].waiters) => Distinct(D[n].waiters)
                      /\ Distinct(C[n].lockers) => Distinct(D[n].lockers)
                      /\ C[n].waiters = <<>> => D[n].waiters = <<>>
                      /\ C[n].lockers = <<>> => D[n].lockers = <<>>
    OBVIOUS
  <2> DEFINE ch == C[n]
  <2>1. ch \in ChannelType /\ D[n] = Quit(ch, c)
    BY <1>1
  <2> HIDE DEF ch
  <2>2. /\ Quit(ch, c) \in ChannelType
        /\ Quit(ch, c).locked = ch.locked /\ Quit(ch, c).woken = ch.woken
        /\ Quit(ch, c).waiters = Others(ch.waiters, c)
        /\ Quit(ch, c).lockers = Others(ch.lockers, c)
        /\ Range(Others(ch.waiters, c)) = Range(ch.waiters) \ {c}
        /\ Range(Others(ch.lockers, c)) = Range(ch.lockers) \ {c}
        /\ Distinct(ch.waiters) => Distinct(Others(ch.waiters, c))
        /\ Distinct(ch.lockers) => Distinct(Others(ch.lockers, c))
        /\ ch.waiters = <<>> => Others(ch.waiters, c) = <<>>
        /\ ch.lockers = <<>> => Others(ch.lockers, c) = <<>>
    BY <2>1, QuitOne
  <2> QED BY <2>1, <2>2 DEF ch
<1>3. PartialFunction(r.channels, Channels, ChannelType)
  BY <1>1, <1>2 DEF PartialFunction, D
<1>4. /\ \A x : x # c => WaitsAt(r, x) = WaitsAt(s, x) /\ LocksAt(r, x) = LocksAt(s, x)
      /\ WaitsAt(r, c) = {} /\ LocksAt(r, c) = {}
  BY <1>1, <1>2, ZenonT(120) DEF WaitsAt, LocksAt, C, D
<1>5. ListsDistinct(s) => ListsDistinct(r)
  BY <1>1, <1>2 DEF ListsDistinct, C, D
<1>6. ASSUME NEW h, Served(s, h) PROVE Served(r, h)
  <2>1. \A n \in Channels : IF n \in DOMAIN D /\ D[n].locked THEN OnePlace(h[n]) ELSE h[n] = {}
    BY <1>1, <1>2, <1>6 DEF Served, C
  <2>2. \A n \in DOMAIN D :
          /\ D[n].woken => D[n].waiters = <<>>
          /\ D[n].lockers # <<>> => D[n].locked
    BY <1>1, <1>2, <1>6 DEF Served, C
  <2> QED BY <2>1, <2>2 DEF Served, D
<1> QED BY <1>1, <1>3, <1>4, <1>5, <1>6 DEF C, D

\* A part of the channels is not too many.
LEMMA FewerChannels ==
  ASSUME NEW S, NEW T, T \subseteq Channels, S \subseteq T, Cardinality(T) <= MaxChannels
  PROVE  Cardinality(S) <= MaxChannels
<1>1. IsFiniteSet(T)
  BY Constants, FS_Subset
<1>2. /\ IsFiniteSet(S) /\ Cardinality(S) <= Cardinality(T)
      /\ Cardinality(S) \in Nat /\ Cardinality(T) \in Nat
  BY <1>1, FS_Subset, FS_CardinalityType
<1> DEFINE a == Cardinality(S)
           b == Cardinality(T)
<1> HIDE DEF a, b
<1>3. a \in Nat /\ b \in Nat /\ a <= b /\ b <= MaxChannels /\ MaxChannels \in Nat
  BY <1>2, Constants DEF a, b
<1>4. a <= MaxChannels
  BY <1>3
<1> QED BY <1>4 DEF a

\* Scheduler::lost
LEMMA LostChanges ==
  ASSUME NEW s, Tables(s), NEW c
  PROVE  LET t == Lost(s, c) IN
         /\ Tables(t) /\ t.startup = s.startup /\ t.jobs = s.jobs
         /\ DOMAIN t.queues = DOMAIN s.queues \ {c}
         /\ \A x \in DOMAIN t.queues : t.queues[x] = s.queues[x]
         /\ DOMAIN t.files = DOMAIN s.files \ {c}
         /\ \A x \in DOMAIN t.files : t.files[x] = s.files[x]
         /\ DOMAIN t.eventWaiters = DOMAIN s.eventWaiters \ {c}
         /\ Range(t.ready) = Range(s.ready) \ {c}
         /\ \A x : x # c => WaitsAt(t, x) = WaitsAt(s, x) /\ LocksAt(t, x) = LocksAt(s, x)
         /\ WaitsAt(t, c) = {} /\ LocksAt(t, c) = {}
         /\ ListsDistinct(s) => ListsDistinct(t)
         /\ \A h : Served(s, h) => Served(t, h)
<1> DEFINE quit == [n \in DOMAIN s.channels |-> Quit(s.channels[n], c)]
           queues == Without(s.queues, c)
           files == Without(s.files, c)
           waiters == Without(s.eventWaiters, c)
           ready == Others(s.ready, c)
           channels == Clean(quit)
           t == Lost(s, c)
           r == [channels |-> quit]
<1>1. t = [s EXCEPT !.queues = queues, !.files = files, !.ready = ready,
                    !.eventWaiters = waiters, !.channels = channels]
  BY DEF Lost
<1>2. /\ IsScheduler(s) /\ s.ready \in Seq(Ids)
      /\ PartialFunction(s.channels, Channels, ChannelType)
  BY DEF Tables
<1>3. /\ DOMAIN queues = DOMAIN s.queues \ {c} /\ \A x \in DOMAIN queues : queues[x] = s.queues[x]
      /\ DOMAIN files = DOMAIN s.files \ {c} /\ \A x \in DOMAIN files : files[x] = s.files[x]
      /\ DOMAIN waiters = DOMAIN s.eventWaiters \ {c}
      /\ \A x \in DOMAIN waiters : waiters[x] = s.eventWaiters[x]
  BY DEF Without, Restrict
<1>4. ready \in Seq(Ids) /\ Range(ready) = Range(s.ready) \ {c}
  BY <1>2, OthersOfList
<1>5. r.channels = quit
  OBVIOUS
<1> HIDE DEF queues, files, waiters, ready, channels, t, r
<1>6. /\ IsScheduler(t) /\ t.queues = queues /\ t.files = files /\ t.ready = ready
      /\ t.eventWaiters = waiters /\ t.channels = channels
      /\ t.startup = s.startup /\ t.jobs = s.jobs
  BY <1>1, <1>2 DEF IsScheduler
<1>7. t.channels = Clean(r.channels)
  BY <1>5, <1>6 DEF channels
<1>8. /\ DOMAIN r.channels = DOMAIN s.channels
      /\ PartialFunction(r.channels, Channels, ChannelType)
      /\ \A x : x # c => WaitsAt(r, x) = WaitsAt(s, x) /\ LocksAt(r, x) = LocksAt(s, x)
      /\ WaitsAt(r, c) = {} /\ LocksAt(r, c) = {}
      /\ ListsDistinct(s) => ListsDistinct(r)
      /\ \A h : Served(s, h) => Served(r, h)
  BY <1>2, <1>5, QuitKeeps, ZenonT(120)
<1> HIDE DEF quit
<1>9. /\ DOMAIN t.channels \subseteq DOMAIN r.channels
      /\ PartialFunction(t.channels, Channels, ChannelType)
      /\ \A x : WaitsAt(t, x) = WaitsAt(r, x) /\ LocksAt(t, x) = LocksAt(r, x)
      /\ ListsDistinct(r) => ListsDistinct(t)
      /\ \A h : Served(r, h) => Served(t, h)
  BY <1>7, <1>8, CleanKeeps
<1>10. Cardinality(DOMAIN t.channels) <= MaxChannels
  <2>1. DOMAIN s.channels \subseteq Channels /\ Cardinality(DOMAIN s.channels) <= MaxChannels
    BY DEF Tables, PartialFunction
  <2> DEFINE S == DOMAIN t.channels
             T == DOMAIN s.channels
  <2>2. S \subseteq T
    BY <1>8, <1>9
  <2> HIDE DEF S, T
  <2> QED BY <2>1, <2>2, FewerChannels DEF S, T
<1>11. Tables(t)
  BY <1>3, <1>4, <1>6, <1>9, <1>10 DEF Tables, PartialFunction
<1> QED BY <1>3, <1>4, <1>6, <1>8, <1>9, <1>11 DEF t

\* What Scheduler::lost leaves of the places where queues are listed
Leaves(s, o, t, p, c) ==
  /\ Tables(t) /\ t.startup = s.startup /\ t.jobs = s.jobs
  /\ DOMAIN t.queues = DOMAIN s.queues \ {c}
  /\ \A x \in DOMAIN t.queues : t.queues[x] = s.queues[x]
  /\ Part(t.files, s.files) /\ Part(p, o)
  /\ Range(t.ready) = Range(s.ready) \ {c}
  /\ \A x \in Ids \ {c} : Places(t, p, x) = Places(s, o, x)
  /\ Places(t, p, c) = {"job"} \X JobsAt(t, c)
  /\ Places(t, p, c) \subseteq Places(s, o, c)
  /\ ListsDistinct(s) => ListsDistinct(t)
  /\ \A h : Served(s, h) => Served(t, h)

\* Lost takes c from every place but its jobs.
LEMMA LostLeaves ==
  ASSUME NEW s, Tables(s), NEW c, NEW o, NEW p, Part(p, o), DOMAIN p = DOMAIN o \ {c}
  PROVE  Leaves(s, o, Lost(s, c), p, c)
<1> DEFINE t == Lost(s, c)
<1>1. /\ Tables(t) /\ t.startup = s.startup /\ t.jobs = s.jobs
      /\ DOMAIN t.queues = DOMAIN s.queues \ {c}
      /\ \A x \in DOMAIN t.queues : t.queues[x] = s.queues[x]
      /\ DOMAIN t.files = DOMAIN s.files \ {c}
      /\ \A x \in DOMAIN t.files : t.files[x] = s.files[x]
      /\ DOMAIN t.eventWaiters = DOMAIN s.eventWaiters \ {c}
      /\ Range(t.ready) = Range(s.ready) \ {c}
      /\ \A x : x # c => WaitsAt(t, x) = WaitsAt(s, x) /\ LocksAt(t, x) = LocksAt(s, x)
      /\ WaitsAt(t, c) = {} /\ LocksAt(t, c) = {}
      /\ ListsDistinct(s) => ListsDistinct(t)
      /\ \A h : Served(s, h) => Served(t, h)
  BY LostChanges
<1> HIDE DEF t
<1>2. \A x : JobsAt(t, x) = JobsAt(s, x)
  BY <1>1 DEF JobsAt
<1>3. ASSUME NEW x \in Ids \ {c} PROVE Places(t, p, x) = Places(s, o, x)
  <2>1. /\ WaitsAt(t, x) = WaitsAt(s, x) /\ LocksAt(t, x) = LocksAt(s, x)
        /\ {x} \cap DOMAIN t.eventWaiters = {x} \cap DOMAIN s.eventWaiters
        /\ {x} \cap DOMAIN t.files = {x} \cap DOMAIN s.files
        /\ {x} \cap DOMAIN p = {x} \cap DOMAIN o
        /\ JobsAt(t, x) = JobsAt(s, x)
    BY <1>1, <1>2
  <2> QED BY <2>1 DEF Places
<1>4. Places(t, p, c) = {"job"} \X JobsAt(t, c)
  <2>1. /\ {c} \cap DOMAIN t.eventWaiters = {}
        /\ {c} \cap DOMAIN t.files = {}
        /\ {c} \cap DOMAIN p = {}
    BY <1>1
  <2> QED BY <1>1, <2>1 DEF Places
<1>5. {"job"} \X JobsAt(t, c) \subseteq Places(s, o, c)
  BY <1>2 DEF Places
<1> QED BY <1>1, <1>3, <1>4, <1>5 DEF Leaves, Part, t

\* Listing is kept.
LEMMA LeavesListing ==
  ASSUME NEW s, NEW o, NEW t, NEW p, NEW c, NEW d, NEW P, Leaves(s, o, t, p, c),
         Listing(s, o, d, P), d.id = c => ~d.queue.blocked
  PROVE  Listing(t, p, d, P \ {c})
<1>1. ListsDistinct(t)
  BY DEF Listing, Leaves
<1>2. /\ d.id \notin DOMAIN t.queues
      /\ d.id \notin P \ {c} => ~d.queue.blocked
      /\ DOMAIN t.queues \subseteq P \ {c}
  BY DEF Listing, Leaves
<1>3. ASSUME NEW x \in Ids, Has(t, d, x)
      PROVE  IF QueueIn(t, d, x).blocked THEN OnePlace(Places(t, p, x))
             ELSE Places(t, p, x) = {}
  <2>1. Has(s, d, x) /\ QueueIn(t, d, x) = QueueIn(s, d, x)
    BY <1>3 DEF Has, QueueIn, Leaves
  <2>2. IF QueueIn(s, d, x).blocked THEN OnePlace(Places(s, o, x)) ELSE Places(s, o, x) = {}
    BY <2>1 DEF Listing
  <2>3. CASE x # c
    BY <2>1, <2>2, <2>3 DEF Leaves
  <2>4. CASE x = c
    <3>1. d.id = c
      BY <1>3, <2>4 DEF Has, Leaves
    <3>2. ~QueueIn(s, d, x).blocked
      BY <2>4, <3>1 DEF QueueIn
    <3>3. Places(t, p, x) = {}
      BY <2>2, <2>4, <3>2 DEF Leaves
    <3> QED BY <2>1, <3>2, <3>3
  <2> QED BY <2>3, <2>4
<1>4. ASSUME NEW x \in Ids, ~Has(t, d, x)
      PROVE  /\ Places(t, p, x) \subseteq {"job"} \X JobsAt(t, x)
             /\ x \in P \ {c} => Places(t, p, x) = {}
  <2>1. CASE x = c
    BY <2>1 DEF Leaves
  <2>2. CASE x # c
    <3>1. ~Has(s, d, x)
      BY <1>4, <2>2 DEF Has, Leaves
    <3>2. /\ Places(s, o, x) \subseteq {"job"} \X JobsAt(s, x)
          /\ x \in P => Places(s, o, x) = {}
      BY <3>1 DEF Listing
    <3>3. Places(t, p, x) = Places(s, o, x) /\ JobsAt(t, x) = JobsAt(s, x)
      BY <2>2 DEF Leaves, JobsAt
    <3> QED BY <3>2, <3>3
  <2> QED BY <2>1, <2>2
<1> QED BY <1>1, <1>2, <1>3, <1>4 DEF Listing

\* Fronts is kept.
LEMMA LeavesFronts ==
  ASSUME NEW s, NEW o, NEW t, NEW p, NEW c, NEW d, Leaves(s, o, t, p, c), Fronts(s, o, d)
  PROVE  Fronts(t, p, d)
<1>1. ASSUME NEW x, NEW batch, AtFront(s, d, x, batch) PROVE AtFront(t, d, x, batch)
  <2>1. Has(t, d, x) => Has(s, d, x) /\ QueueIn(t, d, x) = QueueIn(s, d, x)
    BY DEF Has, QueueIn, Leaves
  <2> QED BY <1>1, <2>1 DEF AtFront
<1>2. /\ t.jobs = s.jobs
      /\ \A x \in DOMAIN t.files : x \in DOMAIN s.files /\ t.files[x] = s.files[x]
      /\ \A x \in DOMAIN p : x \in DOMAIN o /\ p[x] = o[x]
  BY DEF Leaves, Part
<1> QED BY <1>1, <1>2 DEF Fronts

\* InOrder is kept.
LEMMA LeavesInOrder ==
  ASSUME NEW s, NEW o, NEW t, NEW p, NEW c, NEW d, NEW ak, NEW an, NEW P, NEW X,
         Leaves(s, o, t, p, c), InOrder(s, d, ak, an, P, X), c \in X => d.id # c
  PROVE  InOrder(t, d, ak, an, P \ {c}, X \ {c})
<1> SUFFICES ASSUME NEW x \in Clients
             PROVE LET a == Len(an[x])
                       r == IF d.id = x THEN Len(d.replies) ELSE 0
                       pending == QueueIn(t, d, x).pending
                   IN /\ \A i \in 1..a : an[x][i] = i
                      /\ x \notin X \ {c} =>
                          /\ d.id = x => \A i \in 1..r : d.replies[i] = a + i
                          /\ Has(t, d, x) => \A i \in 1..Len(pending) : pending[i].id = a + r + i
                          /\ x \in P \ {c} =>
                               ak[x] = a + r + IF Has(t, d, x) THEN Len(pending) ELSE 0
  BY DEF InOrder
<1>1. Has(t, d, x) => Has(s, d, x) /\ QueueIn(t, d, x) = QueueIn(s, d, x)
  BY DEF Has, QueueIn, Leaves
<1>2. x # c => (Has(t, d, x) <=> Has(s, d, x))
  BY DEF Has, Leaves
<1>3. x = c /\ x \in X => ~Has(t, d, x) /\ d.id # x
  BY DEF Has, Leaves
<1> DEFINE a == Len(an[x])
           r == IF d.id = x THEN Len(d.replies) ELSE 0
           pending == QueueIn(s, d, x).pending
           q == QueueIn(t, d, x).pending
<1>4. /\ \A i \in 1..a : an[x][i] = i
      /\ x \notin X =>
          /\ d.id = x => \A i \in 1..r : d.replies[i] = a + i
          /\ Has(s, d, x) => \A i \in 1..Len(pending) : pending[i].id = a + r + i
          /\ x \in P => ak[x] = a + r + IF Has(s, d, x) THEN Len(pending) ELSE 0
  BY DEF InOrder
<1>5. Has(t, d, x) => Has(s, d, x) /\ pending = q
  BY <1>1
<1> HIDE DEF a, r, pending, q
<1>6. /\ \A i \in 1..a : an[x][i] = i
      /\ x \notin X \ {c} =>
          /\ d.id = x => \A i \in 1..r : d.replies[i] = a + i
          /\ Has(t, d, x) => \A i \in 1..Len(q) : q[i].id = a + r + i
          /\ x \in P \ {c} => ak[x] = a + r + IF Has(t, d, x) THEN Len(q) ELSE 0
  BY <1>2, <1>3, <1>4, <1>5
<1> QED BY <1>6 DEF a, r, q

\* All of the invariant but what concerns the ready list
Core(s, lv, cl, o, d, ak, an, h, X) ==
  /\ Tables(s)
  /\ Control(lv, cl, o, d, ak, an, h)
  /\ Listing(s, o, d, lv \ cl)
  /\ Fronts(s, o, d)
  /\ InOrder(s, d, ak, an, lv \ cl, X)
  /\ Served(s, h)

\* Bundle is Core with what concerns the ready list.
LEMMA CoreOfBundle ==
  ASSUME NEW s, NEW lv, NEW cl, NEW o, NEW d, NEW ak, NEW an, NEW h, NEW X
  PROVE  Bundle(s, lv, cl, o, d, ak, an, h, X) <=>
           /\ Core(s, lv, cl, o, d, ak, an, h, X)
           /\ StartsAlone(s, lv, d) /\ Runnable(s, X)
BY DEF Bundle, Core

\* Dropping c keeps Core,
LEMMA DropKeepsCore ==
  ASSUME NEW s, NEW lv, NEW cl, NEW o, NEW d, NEW ak, NEW an, NEW h, NEW X,
         Core(s, lv, cl, o, d, ak, an, h, X), NEW c,
         NEW p, Part(p, o), DOMAIN p = DOMAIN o \ {c},
         NEW lw, NEW cm, lw \subseteq lv, lv \ {c} \subseteq lw, cm \subseteq lw \cap Clients,
         lw \ cm = (lv \ cl) \ {c},
         d.id = c => ~d.queue.blocked /\ c \in Clients, c \in X => d.id # c
  PROVE  Core(Lost(s, c), lw, cm, p, d, ak, an, h, X \ {c})
<1> DEFINE t == Lost(s, c)
           P == lv \ cl
<1>1. /\ Tables(s) /\ Control(lv, cl, o, d, ak, an, h) /\ Listing(s, o, d, P)
      /\ Fronts(s, o, d) /\ InOrder(s, d, ak, an, P, X) /\ Served(s, h)
  BY DEF Core
<1>2. Leaves(s, o, t, p, c)
  BY <1>1, LostLeaves
<1> HIDE DEF t, P
<1>3. P \ {c} = lw \ cm
  BY DEF P
<1>4. Listing(t, p, d, P \ {c})
  BY <1>1, <1>2, LeavesListing
<1>5. Fronts(t, p, d)
  BY <1>1, <1>2, LeavesFronts
<1>6. InOrder(t, d, ak, an, P \ {c}, X \ {c})
  BY <1>1, <1>2, LeavesInOrder
<1>7. Tables(t) /\ Served(t, h)
  BY <1>1, <1>2 DEF Leaves
<1>8. Control(lw, cm, p, d, ak, an, h)
  <2>1. d.id \in Internal => d.id \in lw
    BY <1>1, Constants, ZenonT(120) DEF Control
  <2> QED BY <1>1, <2>1 DEF Control, Part, PartialFunction
<1> QED BY <1>3, <1>4, <1>5, <1>6, <1>7, <1>8 DEF Core, t

\* Who is lost runs no more.
LEMMA DropKeepsRunnable ==
  ASSUME NEW s, Tables(s), NEW c, NEW X, Runnable(s, X)
  PROVE  Runnable(Lost(s, c), X \ {c})
<1> DEFINE t == Lost(s, c)
<1>1. /\ t.startup = s.startup
      /\ DOMAIN t.queues = DOMAIN s.queues \ {c}
      /\ \A x \in DOMAIN t.queues : t.queues[x] = s.queues[x]
      /\ Range(t.ready) = Range(s.ready) \ {c}
  BY LostChanges, SMTT(60)
<1> HIDE DEF t
<1>2. Runnable(t, X \ {c})
  BY <1>1 DEF Runnable
<1> QED BY <1>2 DEF t

\* and all of the invariant, unless the configuration goes while it starts up.
LEMMA DropKeeps ==
  ASSUME NEW s, NEW lv, NEW cl, NEW o, NEW d, NEW ak, NEW an, NEW h, NEW X,
         Bundle(s, lv, cl, o, d, ak, an, h, X), NEW c,
         NEW p, Part(p, o), DOMAIN p = DOMAIN o \ {c},
         NEW lw, NEW cm, lw \subseteq lv, lv \ {c} \subseteq lw, cm \subseteq lw \cap Clients,
         lw \ cm = (lv \ cl) \ {c},
         d.id = c => ~d.queue.blocked /\ c \in Clients, c \in X => d.id # c,
         s.startup = None \/ c # Config
  PROVE  Bundle(Lost(s, c), lw, cm, p, d, ak, an, h, X \ {c})
<1> DEFINE t == Lost(s, c)
<1>1. /\ Core(s, lv, cl, o, d, ak, an, h, X)
      /\ StartsAlone(s, lv, d) /\ Runnable(s, X) /\ Tables(s)
  BY CoreOfBundle DEF Core
<1>2. Core(t, lw, cm, p, d, ak, an, h, X \ {c})
  BY <1>1, DropKeepsCore, ZenonT(120)
<1>3. Runnable(t, X \ {c})
  BY <1>1, DropKeepsRunnable
<1>4. /\ t.startup = s.startup
      /\ DOMAIN t.queues = DOMAIN s.queues \ {c}
      /\ Range(t.ready) = Range(s.ready) \ {c}
  BY <1>1, LostChanges
<1> HIDE DEF t
<1>5. StartsAlone(t, lw, d)
  BY <1>1, <1>4 DEF StartsAlone, Has
<1> QED BY <1>2, <1>3, <1>5, CoreOfBundle DEF t

-----------------------------------------------------------------------------
(* The queue that is driven                                                *)

\* The command in front has run, and b is left of its batch.
RanOf(d, b) == [d EXCEPT !.budget = @ - 1, !.queue.pending[1] = b]

\* The fields of the drive
LEMMA DriveFields ==
  ASSUME NEW d, Drives(d)
  PROVE  /\ d.id \in Ids \cup {None} /\ d.queue \in QueueSet /\ d.budget \in 0..Quantum
         /\ d.replies \in Seq(Nat) /\ d.detach \in BOOLEAN
         /\ d.queue.pending \in Seq(BatchSet) /\ Len(d.queue.pending) <= MaxPending
         /\ d.queue.blocked \in BOOLEAN
         /\ d.queue = [pending |-> d.queue.pending, blocked |-> d.queue.blocked]
         /\ d = [id |-> d.id, queue |-> d.queue, budget |-> d.budget,
                 replies |-> d.replies, detach |-> d.detach]
<1>1. /\ d.id \in Ids \cup {None} /\ d.queue \in QueueSet /\ d.budget \in 0..Quantum
      /\ d.replies \in Seq(Nat) /\ d.detach \in BOOLEAN
      /\ d = [id |-> d.id, queue |-> d.queue, budget |-> d.budget,
              replies |-> d.replies, detach |-> d.detach]
  BY DEF Drives
<1> QED BY <1>1, QueueFields

\* Other batches leave blocked alone.
LEMMA SetPending ==
  ASSUME NEW q \in QueueSet, NEW r
  PROVE  [q EXCEPT !.pending = r] = [pending |-> r, blocked |-> q.blocked]
BY QueueFields

\* What running a command makes of the drive
LEMMA RanFields ==
  ASSUME NEW d, Drives(d), d.queue.pending # <<>>, d.budget > 0,
         NEW b \in BatchSet, b.id = d.queue.pending[1].id
  PROVE  LET e == RanOf(d, b) IN
         /\ Drives(e) /\ e.id = d.id /\ e.detach = d.detach /\ e.replies = d.replies
         /\ e.queue.blocked = d.queue.blocked
         /\ SameIds(d.queue.pending, e.queue.pending)
         /\ e.queue.pending # <<>>
         /\ e.queue.pending[1].id = d.queue.pending[1].id
<1> DEFINE q == d.queue
           pending == q.pending
           r == [pending EXCEPT ![1] = b]
           k == [q EXCEPT !.pending = r]
           e == RanOf(d, b)
<1>1. /\ pending \in Seq(BatchSet) /\ Len(pending) <= MaxPending /\ q \in QueueSet
      /\ q.blocked \in BOOLEAN /\ pending # <<>>
  BY DriveFields
<1>2. e = [d EXCEPT !.budget = d.budget - 1, !.queue = k]
  BY DEF RanOf
<1>3. r \in Seq(BatchSet) /\ SameIds(pending, r)
  BY <1>1, Refronted
<1>4. r # <<>> /\ r[1].id = b.id
  <2> HIDE DEF q, pending
  <2> QED BY <1>1
<1> HIDE DEF r
<1>5. k = [pending |-> r, blocked |-> q.blocked]
  BY <1>1, SetPending
<1>6. r \in Batches
  <2>1. Len(r) = Len(pending)
    BY <1>3 DEF SameIds
  <2> HIDE DEF q, pending
  <2> QED BY <1>1, <1>3, <2>1 DEF Batches
<1> HIDE DEF k
<1>7. k \in QueueSet /\ k.pending = r /\ k.blocked = q.blocked
  BY <1>1, <1>5, <1>6 DEF QueueSet
<1>8. d.budget - 1 \in 0..Quantum
  <2> DEFINE n == d.budget
  <2>1. n \in 0..Quantum /\ n > 0
    BY DEF Drives
  <2>2. Quantum \in Nat
    BY Constants
  <2> HIDE DEF n
  <2>3. n - 1 \in 0..Quantum
    BY <2>1, <2>2
  <2> QED BY <2>3 DEF n
<1>9. /\ e.queue = k /\ e.id = d.id /\ e.detach = d.detach /\ e.replies = d.replies
      /\ Drives(e)
  <2> HIDE DEF e
  <2> QED BY <1>2, <1>7, <1>8 DEF Drives
<1> HIDE DEF e
<1> QED BY <1>3, <1>4, <1>7, <1>9 DEF e

\* What the end of a batch makes of the drive
LEMMA AnswerFields ==
  ASSUME NEW d, Drives(d), d.queue.pending # <<>>
  PROVE  LET e == Answer(d) IN
         /\ Drives(e) /\ e.id = d.id /\ e.detach = d.detach /\ e.budget = d.budget
         /\ e.queue.blocked = d.queue.blocked
         /\ e.replies = Append(d.replies, d.queue.pending[1].id)
         /\ e.queue.pending = Tail(d.queue.pending)
<1> DEFINE q == d.queue
           pending == q.pending
           r == Tail(pending)
           n == Head(pending).id
           k == [q EXCEPT !.pending = r]
           e == Answer(d)
           replies == Append(d.replies, n)
<1>1. /\ pending \in Seq(BatchSet) /\ Len(pending) <= MaxPending /\ q \in QueueSet
      /\ q.blocked \in BOOLEAN /\ pending # <<>> /\ d.replies \in Seq(Nat)
  BY DriveFields
<1>2. e = [d EXCEPT !.queue = k, !.replies = replies]
  BY DEF Answer
<1>3. pending[1] \in BatchSet /\ Head(pending) = pending[1]
  <2> HIDE DEF q, pending
  <2> QED BY <1>1
<1>4. n \in Nat /\ n = pending[1].id
  BY <1>3 DEF BatchSet, BatchType
<1>5. r \in Batches
  <2>1. r \in Seq(BatchSet) /\ Len(r) = Len(pending) - 1 /\ Len(pending) \in Nat
    <3> HIDE DEF q, pending
    <3> QED BY <1>1
  <2> HIDE DEF r, q, pending
  <2> QED BY <1>1, <2>1, Constants DEF Batches
<1>6. k = [pending |-> r, blocked |-> q.blocked]
  BY <1>1, SetPending
<1> HIDE DEF k, r, n
<1>7. k \in QueueSet /\ k.pending = r /\ k.blocked = q.blocked
  BY <1>1, <1>5, <1>6 DEF QueueSet
<1>8. replies \in Seq(Nat)
  BY <1>1, <1>4
<1> HIDE DEF replies, e
<1>9. /\ e.queue = k /\ e.id = d.id /\ e.detach = d.detach /\ e.replies = replies
      /\ e.budget = d.budget /\ Drives(e)
  BY <1>2, <1>7, <1>8 DEF Drives
<1> QED BY <1>4, <1>7, <1>9 DEF e, r, replies

\* The driven queue goes on: its batches are the same, or the first of them is
\* answered.
Moves(d, e) ==
  /\ Drives(e) /\ e.id = d.id /\ e.queue.blocked = d.queue.blocked
  /\ e.detach => e.id \in Clients
  /\ \/ e.replies = d.replies /\ SameIds(d.queue.pending, e.queue.pending)
     \/ /\ d.queue.pending # <<>>
        /\ e.replies = Append(d.replies, d.queue.pending[1].id)
        /\ e.queue.pending = Tail(d.queue.pending)

\* A reply takes the number of the batch it answers.
LEMMA MovesInOrder ==
  ASSUME NEW s, NEW d, NEW e, NEW ak, NEW an, NEW P, NEW X, Drives(d), d.id # None,
         an \in [Clients -> Seq(Nat)], Moves(d, e), InOrder(s, d, ak, an, P, X)
  PROVE  InOrder(s, e, ak, an, P, X)
<1> SUFFICES ASSUME NEW c \in Clients
             PROVE LET a == Len(an[c])
                       r == IF e.id = c THEN Len(e.replies) ELSE 0
                       pending == QueueIn(s, e, c).pending
                   IN /\ \A i \in 1..a : an[c][i] = i
                      /\ c \notin X =>
                          /\ e.id = c => \A i \in 1..r : e.replies[i] = a + i
                          /\ Has(s, e, c) => \A i \in 1..Len(pending) : pending[i].id = a + r + i
                          /\ c \in P => ak[c] = a + r + IF Has(s, e, c) THEN Len(pending) ELSE 0
  BY DEF InOrder
<1>1. e.id = d.id /\ (Has(s, e, c) <=> Has(s, d, c))
  BY DEF Moves, Has
<1> DEFINE a == Len(an[c])
<1>2. a \in Nat
  OBVIOUS
<1>3. CASE d.id # c
  <2>1. QueueIn(s, e, c) = QueueIn(s, d, c)
    BY <1>1, <1>3 DEF QueueIn
  <2> QED BY <1>1, <1>3, <2>1, ZenonT(120) DEF InOrder
<1>4. CASE d.id = c
  <2> DEFINE p == d.queue.pending
             q == e.queue.pending
             u == d.replies
             v == e.replies
  <2>1. /\ Has(s, d, c) /\ Has(s, e, c)
        /\ QueueIn(s, d, c).pending = p /\ QueueIn(s, e, c).pending = q
    BY <1>1, <1>4 DEF Has, QueueIn
  <2>2. /\ \A i \in 1..a : an[c][i] = i
        /\ c \notin X => /\ \A i \in 1..Len(u) : u[i] = a + i
                         /\ \A i \in 1..Len(p) : p[i].id = a + Len(u) + i
                         /\ c \in P => ak[c] = a + Len(u) + Len(p)
    BY <1>4, <2>1, ZenonT(120) DEF InOrder
  <2>3. /\ u \in Seq(Nat) /\ p \in Seq(BatchSet) /\ q \in Seq(BatchSet)
        /\ \/ v = u /\ SameIds(p, q)
           \/ p # <<>> /\ v = Append(u, p[1].id) /\ q = Tail(p)
    BY DriveFields DEF Moves
  <2> HIDE DEF a, p, q, u, v
  <2>4. c \notin X => /\ \A i \in 1..Len(v) : v[i] = a + i
                      /\ \A i \in 1..Len(q) : q[i].id = a + Len(v) + i
                      /\ c \in P => ak[c] = a + Len(v) + Len(q)
    <3>1. CASE v = u /\ SameIds(p, q)
      BY <2>2, <2>3, <3>1 DEF SameIds
    <3>2. CASE p # <<>> /\ v = Append(u, p[1].id) /\ q = Tail(p)
      <4> SUFFICES ASSUME c \notin X
                   PROVE  /\ \A i \in 1..Len(v) : v[i] = a + i
                          /\ \A i \in 1..Len(q) : q[i].id = a + Len(v) + i
                          /\ c \in P => ak[c] = a + Len(v) + Len(q)
        OBVIOUS
      <4> DEFINE m == Len(u)
                 k == Len(p)
      <4>1. /\ m \in Nat /\ k \in Nat /\ k > 0
            /\ \A i \in 1..m : u[i] = a + i
            /\ \A i \in 1..k : p[i].id = a + m + i
            /\ c \in P => ak[c] = a + m + k
        BY <2>2, <2>3, <3>2
      <4>2. /\ Len(v) = m + 1 /\ Len(q) = k - 1
            /\ \A i \in 1..m : v[i] = u[i]
            /\ v[m + 1] = p[1].id
            /\ \A i \in 1..(k - 1) : q[i] = p[i + 1]
        BY <2>3, <3>2
      <4> HIDE DEF m, k
      <4>3. p[1].id = a + m + 1
        BY <4>1
      <4>4. \A i \in 1..(m + 1) : i \in 1..m \/ i = m + 1
        BY <4>1
      <4>5. ASSUME NEW i \in 1..(m + 1) PROVE v[i] = a + i
        <5>1. CASE i \in 1..m
          BY <4>1, <4>2, <5>1
        <5>2. CASE i = m + 1
          BY <1>2, <4>1, <4>2, <4>3, <5>2
        <5> QED BY <4>4, <5>1, <5>2
      <4>6. ASSUME NEW i \in 1..(k - 1) PROVE q[i].id = a + (m + 1) + i
        <5>1. i + 1 \in 1..k
          BY <4>1
        <5>2. p[i + 1].id = a + m + (i + 1)
          BY <4>1, <5>1
        <5> QED BY <1>2, <4>1, <4>2, <5>2
      <4>7. c \in P => ak[c] = a + (m + 1) + (k - 1)
        BY <1>2, <4>1
      <4> QED BY <4>2, <4>5, <4>6, <4>7
    <3> QED BY <2>3, <3>1, <3>2
  <2> QED BY <1>1, <1>4, <2>1, <2>2, <2>4, ZenonT(120) DEF a, q, v
<1> QED BY <1>3, <1>4

\* A command that does not wait
LEMMA MoveKeeps ==
  ASSUME NEW s, NEW lv, NEW cl, NEW o, NEW d, NEW ak, NEW an, NEW h, NEW X,
         Bundle(s, lv, cl, o, d, ak, an, h, X), d.id # None, ~d.queue.blocked,
         NEW e, Moves(d, e)
  PROVE  Bundle(s, lv, cl, o, e, ak, an, h, X)
<1> DEFINE P == lv \ cl
<1>1. /\ Tables(s) /\ Control(lv, cl, o, d, ak, an, h) /\ Listing(s, o, d, P)
      /\ Fronts(s, o, d) /\ InOrder(s, d, ak, an, P, X) /\ Served(s, h)
      /\ StartsAlone(s, lv, d) /\ Runnable(s, X)
  BY DEF Bundle
<1>2. Drives(e) /\ e.id = d.id /\ ~e.queue.blocked
  BY DEF Moves
<1>3. \A c : /\ Has(s, e, c) <=> Has(s, d, c)
             /\ c # d.id => QueueIn(s, e, c) = QueueIn(s, d, c)
             /\ QueueIn(s, e, c).blocked <=> QueueIn(s, d, c).blocked
  BY <1>2 DEF Has, QueueIn
<1> HIDE DEF P
<1>4. Listing(s, o, e, P)
  BY <1>1, <1>2, <1>3 DEF Listing
<1>5. d.id \in Ids /\ Places(s, o, d.id) = {}
  <2>1. d.id \in Ids /\ Has(s, d, d.id) /\ QueueIn(s, d, d.id) = d.queue
    BY <1>1, DriveFields DEF Control, Has, QueueIn
  <2> QED BY <1>1, <2>1 DEF Listing
<1>6. ASSUME NEW c, NEW batch, AtFront(s, d, c, batch), c # d.id
      PROVE  AtFront(s, e, c, batch)
  BY <1>3, <1>6 DEF AtFront
<1>7. Fronts(s, o, e)
  <2>1. ASSUME NEW j \in DOMAIN s.jobs, ~s.jobs[j].background
        PROVE  AtFront(s, e, s.jobs[j].client, s.jobs[j].batch)
    <3> DEFINE c == s.jobs[j].client
               batch == s.jobs[j].batch
    <3>1. c # d.id
      <4>1. c = d.id => <<"job", j>> \in Places(s, o, d.id)
        BY <2>1 DEF Places, JobsAt
      <4> QED BY <1>5, <4>1
    <3>2. AtFront(s, d, c, batch)
      BY <1>1, <2>1 DEF Fronts
    <3> HIDE DEF c, batch
    <3>3. AtFront(s, e, c, batch)
      BY <1>6, <3>1, <3>2
    <3> QED BY <3>3 DEF c, batch
  <2>2. ASSUME NEW c \in DOMAIN s.files PROVE AtFront(s, e, c, s.files[c].batch)
    <3>1. c # d.id
      <4>1. c = d.id => <<"file", d.id>> \in Places(s, o, d.id)
        BY DEF Places
      <4> QED BY <1>5, <4>1
    <3> QED BY <1>1, <1>6, <3>1 DEF Fronts
  <2>3. ASSUME NEW c \in DOMAIN o PROVE AtFront(s, e, c, o[c].batch)
    <3>1. c # d.id
      <4>1. c = d.id => <<"outside", d.id>> \in Places(s, o, d.id)
        BY DEF Places
      <4> QED BY <1>5, <4>1
    <3> QED BY <1>1, <1>6, <3>1 DEF Fronts
  <2> QED BY <2>1, <2>2, <2>3 DEF Fronts
<1>8. InOrder(s, e, ak, an, P, X)
  <2>1. Drives(d) /\ an \in [Clients -> Seq(Nat)]
    BY <1>1 DEF Control
  <2> QED BY <1>1, <2>1, MovesInOrder
<1>9. Control(lv, cl, o, e, ak, an, h)
  BY <1>1, <1>2 DEF Control, Moves
<1>10. StartsAlone(s, lv, e)
  BY <1>1, <1>2, <1>3 DEF StartsAlone
<1> QED BY <1>1, <1>4, <1>7, <1>8, <1>9, <1>10 DEF Bundle, P

\* The driven queue becomes blocked.
Stopping(d) == [d EXCEPT !.queue.blocked = TRUE]

\* Blocking the driven queue changes nothing else.
LEMMA StoppingFields ==
  ASSUME NEW d, Drives(d)
  PROVE  LET e == Stopping(d) IN
         /\ Drives(e) /\ e.id = d.id /\ e.detach = d.detach /\ e.replies = d.replies
         /\ e.queue.blocked /\ e.queue.pending = d.queue.pending
<1> DEFINE q == d.queue
           k == [q EXCEPT !.blocked = TRUE]
           e == Stopping(d)
<1>1. q \in QueueSet
  BY DriveFields
<1>2. k \in QueueSet /\ k.blocked = TRUE /\ k.pending = q.pending
  BY <1>1 DEF QueueSet
<1>3. e = [d EXCEPT !.queue = k]
  BY DEF Stopping
<1> HIDE DEF k, e
<1>4. /\ Drives(e) /\ e.id = d.id /\ e.detach = d.detach /\ e.replies = d.replies
      /\ e.queue = k
  BY <1>2, <1>3 DEF Drives
<1> QED BY <1>2, <1>4 DEF e

\* An entry that is new is of id's batch in front.
Entered(g, f, id, front) ==
  \A x \in DOMAIN g : \/ x \in DOMAIN f /\ g[x] = f[x]
                      \/ x = id /\ g[x].batch = front

\* From s and o to t and p, id is listed somewhere.
Lists(s, o, t, p, id, front) ==
  /\ t.queues = s.queues /\ t.ready = s.ready /\ t.startup = s.startup
  /\ ListsDistinct(t)
  /\ \A c \in Ids \ {id} : Places(t, p, c) = Places(s, o, c)
  /\ OnePlace(Places(t, p, id))
  /\ \A j \in DOMAIN t.jobs :
       \/ j \in DOMAIN s.jobs /\ t.jobs[j] = s.jobs[j]
       \/ t.jobs[j].background
       \/ t.jobs[j].client = id /\ t.jobs[j].batch = front
  /\ Entered(t.files, s.files, id, front)
  /\ Entered(p, o, id, front)

\* A command that waits
LEMMA BlockKeeps ==
  ASSUME NEW s, NEW lv, NEW cl, NEW o, NEW d, NEW ak, NEW an, NEW h, NEW X,
         Bundle(s, lv, cl, o, d, ak, an, h, X), d.id \in lv \ cl,
         d.queue.pending # <<>>,
         NEW t, NEW p, Tables(t), Served(t, h),
         PartialFunction(p, Ids, [kind : {"pane", "stdin"}, group : Nat, batch : Nat]),
         Lists(s, o, t, p, d.id, d.queue.pending[1].id)
  PROVE  Bundle(t, lv, cl, p, Stopping(d), ak, an, h, X)
<1> DEFINE P == lv \ cl
           e == Stopping(d)
           id == d.id
           front == d.queue.pending[1].id
<1>1. /\ Tables(s) /\ Control(lv, cl, o, d, ak, an, h) /\ Listing(s, o, d, P)
      /\ Fronts(s, o, d) /\ InOrder(s, d, ak, an, P, X) /\ Served(s, h)
      /\ StartsAlone(s, lv, d) /\ Runnable(s, X)
  BY DEF Bundle
<1>2. /\ Drives(e) /\ e.id = d.id /\ e.detach = d.detach /\ e.replies = d.replies
      /\ e.queue.blocked /\ e.queue.pending = d.queue.pending
  BY <1>1, StoppingFields DEF Control
<1>3. id \in Ids /\ id # None /\ id \in P
  BY <1>1, Constants DEF Control
<1> HIDE DEF P, e
<1>4. \A c : /\ Has(t, e, c) <=> Has(s, d, c)
             /\ c # id => QueueIn(t, e, c) = QueueIn(s, d, c)
             /\ QueueIn(t, e, c).pending = QueueIn(s, d, c).pending
  BY <1>2 DEF Has, QueueIn, Lists
<1>5. Listing(t, p, e, P)
  <2>1. ListsDistinct(t) /\ e.id \notin DOMAIN t.queues /\ DOMAIN t.queues \subseteq P
    BY <1>1, <1>2 DEF Listing, Lists
  <2>2. ASSUME NEW c \in Ids, Has(t, e, c)
        PROVE  IF QueueIn(t, e, c).blocked THEN OnePlace(Places(t, p, c))
               ELSE Places(t, p, c) = {}
    <3>1. CASE c = id
      <4>1. QueueIn(t, e, c).blocked
        BY <1>2, <3>1 DEF QueueIn
      <4> QED BY <3>1, <4>1 DEF Lists
    <3>2. CASE c # id
      <4>1. Has(s, d, c) /\ QueueIn(t, e, c) = QueueIn(s, d, c)
        BY <1>4, <2>2, <3>2
      <4>2. IF QueueIn(s, d, c).blocked THEN OnePlace(Places(s, o, c)) ELSE Places(s, o, c) = {}
        BY <1>1, <4>1 DEF Listing
      <4>3. Places(t, p, c) = Places(s, o, c)
        BY <3>2 DEF Lists
      <4> QED BY <4>1, <4>2, <4>3
    <3> QED BY <3>1, <3>2
  <2>3. ASSUME NEW c \in Ids, ~Has(t, e, c)
        PROVE  /\ Places(t, p, c) \subseteq {"job"} \X JobsAt(t, c)
               /\ c \in P => Places(t, p, c) = {}
    <3>1. ~Has(s, d, c) /\ c # id
      BY <1>4, <2>3 DEF Has
    <3>2. /\ Places(s, o, c) \subseteq {"job"} \X JobsAt(s, c)
          /\ c \in P => Places(s, o, c) = {}
      BY <1>1, <3>1 DEF Listing
    <3>3. Places(t, p, c) = Places(s, o, c)
      BY <3>1 DEF Lists
    <3> QED BY <3>2, <3>3, PlacesAreJobs
  <2> QED BY <1>2, <1>3, <2>1, <2>2, <2>3 DEF Listing
<1>6. \A c, batch : AtFront(s, d, c, batch) => AtFront(t, e, c, batch)
  BY <1>4 DEF AtFront
<1>7. AtFront(t, e, id, front)
  <2>1. QueueIn(t, e, id).pending = d.queue.pending
    BY <1>2 DEF QueueIn
  <2> QED BY <2>1 DEF AtFront
<1>8. Fronts(t, p, e)
  <2>1. ASSUME NEW j \in DOMAIN t.jobs, ~t.jobs[j].background
        PROVE  AtFront(t, e, t.jobs[j].client, t.jobs[j].batch)
    <3>1. CASE j \in DOMAIN s.jobs /\ t.jobs[j] = s.jobs[j]
      BY <1>1, <1>6, <2>1, <3>1 DEF Fronts
    <3>2. CASE t.jobs[j].client = id /\ t.jobs[j].batch = front
      BY <1>7, <3>2
    <3> QED BY <2>1, <3>1, <3>2 DEF Lists
  <2>2. ASSUME NEW c \in DOMAIN t.files PROVE AtFront(t, e, c, t.files[c].batch)
    <3>1. CASE c \in DOMAIN s.files /\ t.files[c] = s.files[c]
      BY <1>1, <1>6, <3>1 DEF Fronts
    <3>2. CASE c = id /\ t.files[c].batch = front
      BY <1>7, <3>2
    <3> QED BY <3>1, <3>2 DEF Lists, Entered
  <2>3. ASSUME NEW c \in DOMAIN p PROVE AtFront(t, e, c, p[c].batch)
    <3>1. CASE c \in DOMAIN o /\ p[c] = o[c]
      BY <1>1, <1>6, <3>1 DEF Fronts
    <3>2. CASE c = id /\ p[c].batch = front
      BY <1>7, <3>2
    <3> QED BY <3>1, <3>2 DEF Lists, Entered
  <2> QED BY <2>1, <2>2, <2>3 DEF Fronts
<1>9. InOrder(t, e, ak, an, P, X)
  <2> SUFFICES ASSUME NEW c \in Clients
             PROVE LET a == Len(an[c])
                       r == IF e.id = c THEN Len(e.replies) ELSE 0
                       pending == QueueIn(t, e, c).pending
                   IN /\ \A i \in 1..a : an[c][i] = i
                      /\ c \notin X =>
                          /\ e.id = c => \A i \in 1..r : e.replies[i] = a + i
                          /\ Has(t, e, c) => \A i \in 1..Len(pending) : pending[i].id = a + r + i
                          /\ c \in P => ak[c] = a + r + IF Has(t, e, c) THEN Len(pending) ELSE 0
    BY DEF InOrder
  <2>1. (Has(t, e, c) <=> Has(s, d, c)) /\ QueueIn(t, e, c).pending = QueueIn(s, d, c).pending
    BY <1>4
  <2> DEFINE a == Len(an[c])
             r == IF d.id = c THEN Len(d.replies) ELSE 0
             q == QueueIn(s, d, c).pending
  <2>2. /\ \A i \in 1..a : an[c][i] = i
        /\ c \notin X =>
            /\ d.id = c => \A i \in 1..r : d.replies[i] = a + i
            /\ Has(s, d, c) => \A i \in 1..Len(q) : q[i].id = a + r + i
            /\ c \in P => ak[c] = a + r + IF Has(s, d, c) THEN Len(q) ELSE 0
    BY <1>1 DEF InOrder
  <2> HIDE DEF a, q
  <2>3. /\ \A i \in 1..a : an[c][i] = i
        /\ c \notin X =>
            /\ e.id = c => \A i \in 1..r : e.replies[i] = a + i
            /\ Has(t, e, c) => \A i \in 1..Len(q) : q[i].id = a + r + i
            /\ c \in P => ak[c] = a + r + IF Has(t, e, c) THEN Len(q) ELSE 0
    BY <1>2, <2>1, <2>2
  <2>4. QueueIn(t, e, c).pending = q /\ r = IF e.id = c THEN Len(e.replies) ELSE 0
    BY <1>2, <2>1 DEF q
  <2> QED BY <2>3, <2>4 DEF a
<1>10. Control(lv, cl, p, e, ak, an, h)
  BY <1>1, <1>2, <1>3 DEF Control
<1>11. StartsAlone(t, lv, e) /\ Runnable(t, X)
  BY <1>1, <1>2, <1>4 DEF StartsAlone, Runnable, Lists
<1> QED BY <1>5, <1>8, <1>9, <1>10, <1>11 DEF Bundle, P, e

-----------------------------------------------------------------------------
(* Taking a queue off the ready list                                       *)

\* What the tail of a list has
LEMMA RangeOfTail ==
  ASSUME NEW T, NEW list \in Seq(T), list # <<>>
  PROVE  /\ Tail(list) \in Seq(T) /\ Head(list) \in T
         /\ Range(list) = {Head(list)} \cup Range(Tail(list))
         /\ Distinct(list) => /\ Distinct(Tail(list))
                              /\ Head(list) \notin Range(Tail(list))
<1> DEFINE k == Tail(list)
           c == Head(list)
           n == Len(list)
<1>1. /\ k \in Seq(T) /\ c \in T /\ n \in Nat /\ n > 0
      /\ DOMAIN list = 1..n /\ DOMAIN k = 1..(n - 1)
      /\ c = list[1] /\ \A i \in 1..(n - 1) : k[i] = list[i + 1]
  OBVIOUS
<1> HIDE DEF k, c, n
<1>2. \A i \in 1..(n - 1) : i + 1 \in 1..n /\ i + 1 # 1
  BY <1>1
<1>3. ASSUME NEW i \in 1..n PROVE list[i] \in {c} \cup Range(k)
  <2>1. CASE i = 1
    BY <1>1, <2>1
  <2>2. CASE i # 1
    <3>1. i - 1 \in 1..(n - 1) /\ (i - 1) + 1 = i
      BY <1>1, <2>2
    <3>2. k[i - 1] = list[i]
      BY <1>1, <3>1
    <3> QED BY <1>1, <3>1, <3>2 DEF Range
  <2> QED BY <2>1, <2>2
<1>4. c \in Range(list)
  BY <1>1 DEF Range
<1>5. ASSUME NEW i \in 1..(n - 1) PROVE k[i] \in Range(list)
  BY <1>1, <1>2 DEF Range
<1>6. Range(list) = {c} \cup Range(k)
  <2>1. Range(list) \subseteq {c} \cup Range(k)
    BY <1>1, <1>3 DEF Range
  <2>2. Range(k) \subseteq Range(list)
    BY <1>1, <1>5 DEF Range
  <2> QED BY <1>4, <2>1, <2>2
<1>7. ASSUME Distinct(list) PROVE Distinct(k) /\ c \notin Range(k)
  <2>1. ASSUME NEW i \in DOMAIN k, NEW j \in DOMAIN k, k[i] = k[j] PROVE i = j
    <3>1. /\ i + 1 \in DOMAIN list /\ j + 1 \in DOMAIN list
          /\ list[i + 1] = list[j + 1] /\ i \in Nat /\ j \in Nat
      BY <1>1, <1>2, <2>1
    <3>2. i + 1 = j + 1
      BY <1>7, <3>1 DEF Distinct
    <3> QED BY <3>1, <3>2
  <2>2. ASSUME NEW i \in DOMAIN k PROVE k[i] # c
    <3>1. i + 1 \in DOMAIN list /\ 1 \in DOMAIN list /\ i + 1 # 1
      BY <1>1, <1>2
    <3>2. list[i + 1] # list[1]
      BY <1>7, <3>1 DEF Distinct
    <3> QED BY <1>1, <3>2
  <2> QED BY <2>1, <2>2 DEF Distinct, Range
<1> QED BY <1>1, <1>6, <1>7 DEF k, c

\* InOrder looks at the drive and the batches only.
LEMMA InOrderSame ==
  ASSUME NEW s, NEW d, NEW t, NEW e, NEW ak, NEW an, NEW P, NEW X,
         InOrder(s, d, ak, an, P, X),
         \A c \in Clients : /\ e.id = c <=> d.id = c
                            /\ e.id = c => e.replies = d.replies
                            /\ Has(t, e, c) <=> Has(s, d, c)
                            /\ Has(s, d, c) => QueueIn(t, e, c) = QueueIn(s, d, c)
  PROVE  InOrder(t, e, ak, an, P, X)
<1> SUFFICES ASSUME NEW c \in Clients
           PROVE LET a == Len(an[c])
                     r == IF e.id = c THEN Len(e.replies) ELSE 0
                     pending == QueueIn(t, e, c).pending
                 IN /\ \A i \in 1..a : an[c][i] = i
                    /\ c \notin X =>
                        /\ e.id = c => \A i \in 1..r : e.replies[i] = a + i
                        /\ Has(t, e, c) => \A i \in 1..Len(pending) : pending[i].id = a + r + i
                        /\ c \in P => ak[c] = a + r + IF Has(t, e, c) THEN Len(pending) ELSE 0
  BY DEF InOrder
<1> DEFINE a == Len(an[c])
           r == IF d.id = c THEN Len(d.replies) ELSE 0
           p == QueueIn(s, d, c).pending
           q == QueueIn(t, e, c).pending
<1>1. /\ \A i \in 1..a : an[c][i] = i
      /\ c \notin X =>
          /\ d.id = c => \A i \in 1..r : d.replies[i] = a + i
          /\ Has(s, d, c) => \A i \in 1..Len(p) : p[i].id = a + r + i
          /\ c \in P => ak[c] = a + r + IF Has(s, d, c) THEN Len(p) ELSE 0
  BY DEF InOrder
<1>2. /\ e.id = c <=> d.id = c
      /\ e.id = c => e.replies = d.replies
      /\ Has(t, e, c) <=> Has(s, d, c)
      /\ Has(s, d, c) => p = q
  OBVIOUS
<1>3. r = IF e.id = c THEN Len(e.replies) ELSE 0
  BY <1>2
<1> HIDE DEF a, r, p, q
<1>4. /\ \A i \in 1..a : an[c][i] = i
      /\ c \notin X =>
          /\ e.id = c => \A i \in 1..r : e.replies[i] = a + i
          /\ Has(t, e, c) => \A i \in 1..Len(q) : q[i].id = a + r + i
          /\ c \in P => ak[c] = a + r + IF Has(t, e, c) THEN Len(q) ELSE 0
  BY <1>1, <1>2
<1> QED BY <1>3, <1>4 DEF a, q

\* Core does not depend on the ready list, nor on startup.
LEMMA CoreOnReady ==
  ASSUME NEW s, NEW lv, NEW cl, NEW o, NEW d, NEW ak, NEW an, NEW h, NEW X,
         Core(s, lv, cl, o, d, ak, an, h, X),
         NEW t, IsScheduler(t), t.queues = s.queues, t.channels = s.channels,
         t.eventWaiters = s.eventWaiters, t.files = s.files, t.jobs = s.jobs,
         t.ready \in Seq(Ids), t.startup \in {None, Config}
  PROVE  Core(t, lv, cl, o, d, ak, an, h, X)
<1>1. Tables(t)
  BY DEF Core, Tables
<1>2. \A c : Places(t, o, c) = Places(s, o, c) /\ JobsAt(t, c) = JobsAt(s, c)
  BY DEF Places, WaitsAt, LocksAt, JobsAt
<1>3. \A c : (Has(t, d, c) <=> Has(s, d, c)) /\ QueueIn(t, d, c) = QueueIn(s, d, c)
  BY DEF Has, QueueIn
<1>4. Listing(t, o, d, lv \ cl)
  BY <1>2, <1>3 DEF Core, Listing, ListsDistinct
<1>5. \A c, batch : AtFront(s, d, c, batch) => AtFront(t, d, c, batch)
  BY <1>3 DEF AtFront
<1>6. Fronts(t, o, d)
  BY <1>5 DEF Core, Fronts
<1>7. InOrder(t, d, ak, an, lv \ cl, X)
  <2>1. InOrder(s, d, ak, an, lv \ cl, X)
    BY DEF Core
  <2> QED BY <1>3, <2>1, InOrderSame
<1>8. Served(t, h) /\ Control(lv, cl, o, d, ak, an, h)
  BY DEF Core, Served
<1> QED BY <1>1, <1>4, <1>6, <1>7, <1>8 DEF Core

\* More may be in suspense.
LEMMA CoreWeakens ==
  ASSUME NEW s, NEW lv, NEW cl, NEW o, NEW d, NEW ak, NEW an, NEW h, NEW X, NEW Y,
         Core(s, lv, cl, o, d, ak, an, h, X), X \subseteq Y
  PROVE  Core(s, lv, cl, o, d, ak, an, h, Y)
<1>1. InOrder(s, d, ak, an, lv \ cl, X)
  BY DEF Core
<1>2. InOrder(s, d, ak, an, lv \ cl, Y)
  BY <1>1 DEF InOrder
<1> QED BY <1>2 DEF Core

\* One more queue is made ready.
LEMMA ReadyKeeps ==
  ASSUME NEW s, NEW lv, NEW cl, NEW o, NEW d, NEW ak, NEW an, NEW h, NEW X,
         Core(s, lv, cl, o, d, ak, an, h, X), StartsAlone(s, lv, d),
         NEW c \in Ids, NEW Y, Runnable(s, Y)
  PROVE  /\ Core(Ready(s, c), lv, cl, o, d, ak, an, h, X)
         /\ StartsAlone(Ready(s, c), lv, d)
         /\ Runnable(Ready(s, c), Y) /\ Runnable(Ready(s, c), Y \ {c})
<1> DEFINE t == Ready(s, c)
<1>1. IsScheduler(s) /\ s.ready \in Seq(Ids) /\ s.startup \in {None, Config}
  BY DEF Core, Tables
<1>2. /\ IsScheduler(t)
      /\ t.queues = s.queues /\ t.startup = s.startup /\ t.channels = s.channels
      /\ t.eventWaiters = s.eventWaiters /\ t.files = s.files /\ t.jobs = s.jobs
      /\ t.ready \in Seq(Ids) /\ Range(s.ready) \subseteq Range(t.ready)
      /\ Range(t.ready) \subseteq Range(s.ready) \cup {c}
      /\ s.startup \in {None, c} => c \in Range(t.ready)
      /\ \A x \in Range(t.ready) \ Range(s.ready) : s.startup \in {None, x}
  BY <1>1, ReadyChanges
<1> HIDE DEF t
<1>3. Core(t, lv, cl, o, d, ak, an, h, X)
  BY <1>1, <1>2, CoreOnReady
<1>4. StartsAlone(t, lv, d)
  BY <1>1, <1>2 DEF StartsAlone, Has
<1>5. Runnable(t, Y) /\ Runnable(t, Y \ {c})
  BY <1>2 DEF Runnable
<1> QED BY <1>3, <1>4, <1>5 DEF t

\* No queue is driven.
NobodyDrives == Drives(Nobody) /\ Nobody.id = None /\ ~Nobody.queue.blocked
                  /\ Nobody.detach = FALSE /\ Nobody.replies = <<>>

\* Nobody is no queue.
LEMMA NobodyIsFine == NobodyDrives
<1>1. <<>> \in Batches
  BY Constants DEF Batches
<1>2. Nobody.queue \in QueueSet
  BY <1>1 DEF Nobody, QueueSet
<1>3. 0 \in 0..Quantum
  BY Constants
<1>4. Drives(Nobody)
  BY <1>2, <1>3 DEF Nobody, Drives
<1> QED BY <1>4 DEF NobodyDrives, Nobody

\* The ready list without its head
Popped(s) == [s EXCEPT !.ready = Tail(@)]

\* What taking the head of the ready list leaves
LEMMA PoppedFields ==
  ASSUME NEW s, IsScheduler(s), s.ready \in Seq(Ids), s.ready # <<>>
  PROVE  LET t == Popped(s) IN
         /\ IsScheduler(t) /\ t.queues = s.queues /\ t.startup = s.startup
         /\ t.channels = s.channels /\ t.eventWaiters = s.eventWaiters
         /\ t.files = s.files /\ t.jobs = s.jobs
         /\ t.ready \in Seq(Ids) /\ Head(s.ready) \in Ids
         /\ Range(s.ready) = {Head(s.ready)} \cup Range(t.ready)
<1> DEFINE x == Tail(s.ready)
           t == [s EXCEPT !.ready = x]
<1>1. x \in Seq(Ids) /\ Head(s.ready) \in Ids /\ Range(s.ready) = {Head(s.ready)} \cup Range(x)
  BY RangeOfTail
<1>2. t = Popped(s)
  BY DEF Popped
<1> HIDE DEF x
<1>3. /\ IsScheduler(t) /\ t.ready = x
      /\ t.queues = s.queues /\ t.startup = s.startup /\ t.channels = s.channels
      /\ t.eventWaiters = s.eventWaiters /\ t.files = s.files /\ t.jobs = s.jobs
  BY SetReady
<1> HIDE DEF t
<1> QED BY <1>1, <1>2, <1>3

\* A ready client without a queue is passed over.
LEMMA PopKeeps ==
  ASSUME NEW s, NEW lv, NEW cl, NEW o, NEW d, NEW ak, NEW an, NEW h, NEW X,
         Bundle(s, lv, cl, o, d, ak, an, h, X), s.ready # <<>>,
         Head(s.ready) \notin DOMAIN s.queues
  PROVE  Bundle(Popped(s), lv, cl, o, d, ak, an, h, X)
<1> DEFINE t == Popped(s)
<1>1. /\ Core(s, lv, cl, o, d, ak, an, h, X) /\ StartsAlone(s, lv, d) /\ Runnable(s, X)
      /\ IsScheduler(s) /\ s.ready \in Seq(Ids) /\ s.startup \in {None, Config}
  BY CoreOfBundle DEF Core, Tables
<1>2. /\ IsScheduler(t) /\ t.queues = s.queues /\ t.startup = s.startup
      /\ t.channels = s.channels /\ t.eventWaiters = s.eventWaiters
      /\ t.files = s.files /\ t.jobs = s.jobs
      /\ t.ready \in Seq(Ids) /\ Range(s.ready) = {Head(s.ready)} \cup Range(t.ready)
  BY <1>1, PoppedFields
<1> HIDE DEF t
<1>3. Core(t, lv, cl, o, d, ak, an, h, X)
  BY <1>1, <1>2, CoreOnReady
<1>4. StartsAlone(t, lv, d) /\ Runnable(t, X)
  BY <1>1, <1>2 DEF StartsAlone, Runnable, Has
<1> QED BY <1>3, <1>4, CoreOfBundle DEF t

\* The queue leaves the table ...
LEMMA TakeKeeps ==
  ASSUME NEW s, NEW lv, NEW cl, NEW o, NEW ak, NEW an, NEW h, NEW X,
         Bundle(s, lv, cl, o, Nobody, ak, an, h, X), s.ready # <<>>,
         NEW c, c = Head(s.ready), c \in DOMAIN s.queues, c \notin X,
         NEW t, t = [Popped(s) EXCEPT !.queues = Without(@, c)],
         NEW e, e = [id |-> c, queue |-> s.queues[c], budget |-> Quantum,
                     replies |-> <<>>, detach |-> FALSE]
  PROVE  Bundle(t, lv, cl, o, e, ak, an, h, X)
<1> DEFINE P == lv \ cl
           u == Popped(s)
           x == Without(s.queues, c)
           d == Nobody
<1>1. /\ Tables(s) /\ Control(lv, cl, o, d, ak, an, h) /\ Listing(s, o, d, P)
      /\ Fronts(s, o, d) /\ InOrder(s, d, ak, an, P, X) /\ Served(s, h)
      /\ StartsAlone(s, lv, d) /\ Runnable(s, X)
  BY DEF Bundle
<1>2. IsScheduler(s) /\ s.ready \in Seq(Ids)
  BY <1>1 DEF Tables
<1>3. /\ IsScheduler(u) /\ u.queues = s.queues /\ u.startup = s.startup
      /\ u.channels = s.channels /\ u.eventWaiters = s.eventWaiters
      /\ u.files = s.files /\ u.jobs = s.jobs
      /\ u.ready \in Seq(Ids) /\ c \in Ids /\ Range(s.ready) = {c} \cup Range(u.ready)
  BY <1>2, PoppedFields
<1> HIDE DEF u
<1>4. DOMAIN x = DOMAIN s.queues \ {c} /\ \A y \in DOMAIN x : x[y] = s.queues[y]
  BY WithoutOne, ZenonT(120)
<1>5. t = [u EXCEPT !.queues = x]
  <2> DEFINE y == Without(u.queues, c)
  <2>1. t = [u EXCEPT !.queues = y]
    BY DEF u
  <2>2. y = x
    BY <1>3
  <2> HIDE DEF x, y
  <2> QED BY <2>1, <2>2
<1> HIDE DEF x
<1>6. /\ IsScheduler(t) /\ t.queues = x
      /\ t.ready = u.ready /\ t.startup = s.startup /\ t.channels = s.channels
      /\ t.eventWaiters = s.eventWaiters /\ t.files = s.files /\ t.jobs = s.jobs
  <2> DEFINE z == [u EXCEPT !.queues = x]
  <2>1. /\ IsScheduler(z) /\ z.queues = x
        /\ z.ready = u.ready /\ z.startup = u.startup /\ z.channels = u.channels
        /\ z.eventWaiters = u.eventWaiters /\ z.files = u.files /\ z.jobs = u.jobs
    BY <1>3, SetQueues
  <2>2. t = z
    BY <1>5
  <2> HIDE DEF z
  <2> QED BY ONLY <1>3, <2>1, <2>2
<1>7. Tables(t)
  BY <1>1, <1>3, <1>4, <1>6 DEF Tables, PartialFunction
<1>8. /\ e.id = c /\ e.queue = s.queues[c] /\ e.replies = <<>> /\ e.detach = FALSE
      /\ Drives(e)
  <2>1. s.queues[c] \in QueueSet
    BY <1>1 DEF Tables, PartialFunction
  <2>2. Quantum \in 0..Quantum
    BY Constants
  <2> QED BY <1>3, <2>1, <2>2 DEF Drives
<1>9. d.id = None /\ None \notin Ids
  BY NobodyIsFine, Constants DEF NobodyDrives
<1>10. \A y \in Ids : /\ Has(t, e, y) <=> Has(s, d, y)
                      /\ Has(s, d, y) => QueueIn(t, e, y) = QueueIn(s, d, y)
  BY <1>4, <1>6, <1>8, <1>9 DEF Has, QueueIn
<1>11. c \in P /\ P \subseteq Ids
  BY <1>1 DEF Listing, Control
<1> HIDE DEF P, d
<1>12. \A y : Places(t, o, y) = Places(s, o, y) /\ JobsAt(t, y) = JobsAt(s, y)
  BY <1>6 DEF Places, WaitsAt, LocksAt, JobsAt
<1>13. Listing(t, o, e, P)
  <2>1. e.id \notin DOMAIN t.queues /\ DOMAIN t.queues \subseteq P /\ ListsDistinct(t)
    BY <1>1, <1>4, <1>6, <1>8 DEF Listing, ListsDistinct
  <2>2. e.id \in P
    BY <1>8, <1>11
  <2>3. \A y \in Ids : Has(t, e, y) =>
          IF QueueIn(t, e, y).blocked THEN OnePlace(Places(t, o, y)) ELSE Places(t, o, y) = {}
    BY <1>1, <1>10, <1>12 DEF Listing
  <2>4. \A y \in Ids : ~Has(t, e, y) =>
          /\ Places(t, o, y) \subseteq {"job"} \X JobsAt(t, y)
          /\ y \in P => Places(t, o, y) = {}
    BY <1>1, <1>10, <1>12 DEF Listing
  <2> QED BY <2>1, <2>2, <2>3, <2>4 DEF Listing
<1>14. \A y \in Ids : \A batch : AtFront(s, d, y, batch) => AtFront(t, e, y, batch)
  BY <1>10 DEF AtFront
<1>15. Fronts(t, o, e)
  <2>1. /\ \A j \in DOMAIN s.jobs : s.jobs[j].client \in Ids
        /\ DOMAIN s.files \subseteq Ids /\ DOMAIN o \subseteq Ids
    BY <1>1, Constants, SMTT(60) DEF Tables, Control, PartialFunction
  <2> QED BY <1>1, <1>6, <1>14, <2>1 DEF Fronts
<1>16. InOrder(t, e, ak, an, P, X)
  <2> SUFFICES ASSUME NEW y \in Clients
             PROVE LET a == Len(an[y])
                       r == IF e.id = y THEN Len(e.replies) ELSE 0
                       pending == QueueIn(t, e, y).pending
                   IN /\ \A i \in 1..a : an[y][i] = i
                      /\ y \notin X =>
                          /\ e.id = y => \A i \in 1..r : e.replies[i] = a + i
                          /\ Has(t, e, y) => \A i \in 1..Len(pending) : pending[i].id = a + r + i
                          /\ y \in P => ak[y] = a + r + IF Has(t, e, y) THEN Len(pending) ELSE 0
    BY DEF InOrder
  <2>1. Len(e.replies) = 0 /\ d.id # y /\ y \in Ids
    BY <1>8, <1>9, Constants
  <2> DEFINE a == Len(an[y])
             p == QueueIn(s, d, y).pending
             q == QueueIn(t, e, y).pending
  <2>2. /\ \A i \in 1..a : an[y][i] = i
        /\ y \notin X =>
            /\ Has(s, d, y) => \A i \in 1..Len(p) : p[i].id = a + 0 + i
            /\ y \in P => ak[y] = a + 0 + IF Has(s, d, y) THEN Len(p) ELSE 0
    BY <1>1, <2>1, ZenonT(120) DEF InOrder
  <2>3. (Has(t, e, y) <=> Has(s, d, y)) /\ (Has(s, d, y) => p = q)
    BY <1>10, <2>1
  <2> HIDE DEF a, p, q
  <2>4. /\ \A i \in 1..a : an[y][i] = i
        /\ y \notin X =>
            /\ e.id = y => \A i \in 1..0 : e.replies[i] = a + i
            /\ Has(t, e, y) => \A i \in 1..Len(q) : q[i].id = a + 0 + i
            /\ y \in P => ak[y] = a + 0 + IF Has(t, e, y) THEN Len(q) ELSE 0
    BY <2>2, <2>3
  <2>5. 0 = IF e.id = y THEN Len(e.replies) ELSE 0
    BY <2>1
  <2> QED BY <2>4, <2>5 DEF a, q
<1>17. Served(t, h)
  BY <1>1, <1>6 DEF Served
<1>18. StartsAlone(t, lv, e)
  <2> SUFFICES ASSUME t.startup # None
               PROVE  /\ Range(t.ready) \subseteq {Config} /\ e.id \in {None, Config}
                      /\ Config \in lv /\ Has(t, e, Config)
    BY DEF StartsAlone
  <2>1. Range(s.ready) \subseteq {Config} /\ Config \in lv /\ Has(s, d, Config)
    BY <1>1, <1>6 DEF StartsAlone
  <2>2. Config \in Ids
    BY Constants
  <2> QED BY <1>3, <1>6, <1>8, <1>10, <2>1, <2>2
<1>19. Runnable(t, X)
  BY <1>1, <1>3, <1>4, <1>6 DEF Runnable
<1>20. Control(lv, cl, o, e, ak, an, h)
  <2>1. e.id \in lv /\ e.id # None
    BY <1>3, <1>8, <1>9, <1>11 DEF P
  <2> QED BY <1>1, <1>8, <2>1 DEF Control
<1> QED BY <1>7, <1>13, <1>15, <1>16, <1>17, <1>18, <1>19, <1>20 DEF Bundle, P

-----------------------------------------------------------------------------
(* Dropping a drive, and giving the queue back                             *)

\* The driven client went: its queue goes.
LEMMA ForgetKeeps ==
  ASSUME NEW s, NEW lv, NEW cl, NEW o, NEW d, NEW ak, NEW an, NEW h, NEW X,
         Bundle(s, lv, cl, o, d, ak, an, h, X), d.id # None, d.id \notin lv \ cl
  PROVE  Bundle(s, lv, cl, o, Nobody, ak, an, h, X)
<1> DEFINE P == lv \ cl
           e == Nobody
           id == d.id
<1>1. /\ Tables(s) /\ Control(lv, cl, o, d, ak, an, h) /\ Listing(s, o, d, P)
      /\ Fronts(s, o, d) /\ InOrder(s, d, ak, an, P, X) /\ Served(s, h)
      /\ StartsAlone(s, lv, d) /\ Runnable(s, X)
  BY DEF Bundle
<1>2. /\ Drives(e) /\ e.id = None /\ ~e.queue.blocked /\ e.detach = FALSE
      /\ e = Nobody
  BY NobodyIsFine DEF NobodyDrives
<1> HIDE DEF P, e
<1>3. id \in Ids /\ None \notin Ids /\ DOMAIN s.queues \subseteq Ids /\ id \notin P
  BY <1>1, DriveFields, Constants DEF Control, Tables, PartialFunction, P
<1>4. id \notin DOMAIN s.queues /\ ~d.queue.blocked
  BY <1>1, <1>3 DEF Listing
<1>5. Places(s, o, id) = {}
  <2>1. Has(s, d, id) /\ QueueIn(s, d, id) = d.queue
    BY DEF Has, QueueIn
  <2> QED BY <1>1, <1>3, <1>4, <2>1 DEF Listing
<1>6. /\ ~Has(s, e, id)
      /\ \A c \in Ids \ {id} : /\ Has(s, e, c) <=> Has(s, d, c)
                               /\ QueueIn(s, e, c) = QueueIn(s, d, c)
  BY <1>2, <1>3, <1>4 DEF Has, QueueIn
<1>7. Listing(s, o, e, P)
  <2>1. ASSUME NEW c \in Ids, Has(s, e, c)
        PROVE  IF QueueIn(s, e, c).blocked THEN OnePlace(Places(s, o, c))
               ELSE Places(s, o, c) = {}
    <3>1. c # id
      BY <1>6, <2>1
    <3> QED BY <1>1, <1>6, <2>1, <3>1 DEF Listing
  <2>2. ASSUME NEW c \in Ids, ~Has(s, e, c)
        PROVE  /\ Places(s, o, c) \subseteq {"job"} \X JobsAt(s, c)
               /\ c \in P => Places(s, o, c) = {}
    <3>1. CASE c = id
      BY <1>5, <3>1
    <3>2. CASE c # id
      BY <1>1, <1>6, <2>2, <3>2 DEF Listing
    <3> QED BY <3>1, <3>2
  <2>3. /\ ListsDistinct(s) /\ e.id \notin DOMAIN s.queues /\ DOMAIN s.queues \subseteq P
        /\ ~e.queue.blocked
    BY <1>1, <1>2, <1>3 DEF Listing
  <2> QED BY <2>1, <2>2, <2>3 DEF Listing
<1>8. \A c \in Ids : \A batch : AtFront(s, d, c, batch) => AtFront(s, e, c, batch)
  BY <1>6 DEF AtFront
<1>9. Fronts(s, o, e)
  <2>1. /\ \A j \in DOMAIN s.jobs : s.jobs[j].client \in Ids
        /\ DOMAIN s.files \subseteq Ids /\ DOMAIN o \subseteq Ids
    BY <1>1, Constants DEF Tables, Control, PartialFunction
  <2> QED BY <1>1, <1>8, <2>1 DEF Fronts
<1>10. InOrder(s, e, ak, an, P, X)
  <2> SUFFICES ASSUME NEW y \in Clients
             PROVE LET a == Len(an[y])
                       r == IF e.id = y THEN Len(e.replies) ELSE 0
                       pending == QueueIn(s, e, y).pending
                   IN /\ \A i \in 1..a : an[y][i] = i
                      /\ y \notin X =>
                          /\ e.id = y => \A i \in 1..r : e.replies[i] = a + i
                          /\ Has(s, e, y) => \A i \in 1..Len(pending) : pending[i].id = a + r + i
                          /\ y \in P => ak[y] = a + r + IF Has(s, e, y) THEN Len(pending) ELSE 0
    BY DEF InOrder
  <2>1. y \in Ids /\ e.id # y
    BY <1>2, Constants
  <2>2. CASE y = id
    <3>1. \A i \in 1..Len(an[y]) : an[y][i] = i
      BY <1>1 DEF InOrder
    <3>2. y \notin P /\ ~Has(s, e, y)
      BY <1>3, <1>6, <2>2
    <3> QED BY <2>1, <3>1, <3>2
  <2>3. CASE y # id
    <3>1. (Has(s, e, y) <=> Has(s, d, y)) /\ QueueIn(s, e, y) = QueueIn(s, d, y)
      BY <1>6, <2>1, <2>3
    <3> DEFINE a == Len(an[y])
               p == QueueIn(s, d, y).pending
               q == QueueIn(s, e, y).pending
    <3>2. /\ \A i \in 1..a : an[y][i] = i
          /\ y \notin X =>
              /\ Has(s, d, y) => \A i \in 1..Len(p) : p[i].id = a + 0 + i
              /\ y \in P => ak[y] = a + 0 + IF Has(s, d, y) THEN Len(p) ELSE 0
      BY <1>1, <2>3 DEF InOrder
    <3>3. p = q
      BY <3>1
    <3> HIDE DEF a, p, q
    <3>4. /\ \A i \in 1..a : an[y][i] = i
          /\ y \notin X =>
              /\ Has(s, e, y) => \A i \in 1..Len(q) : q[i].id = a + 0 + i
              /\ y \in P => ak[y] = a + 0 + IF Has(s, e, y) THEN Len(q) ELSE 0
      BY <3>1, <3>2, <3>3
    <3> QED BY <2>1, <3>4 DEF a, q
  <2> QED BY <2>2, <2>3
<1>11. Control(lv, cl, o, e, ak, an, h)
  <2>1. None \notin Internal
    BY Constants
  <2> QED BY <1>1, <1>2, <2>1 DEF Control
<1>12. StartsAlone(s, lv, e)
  <2> SUFFICES ASSUME s.startup # None
               PROVE  /\ Range(s.ready) \subseteq {Config} /\ e.id \in {None, Config}
                      /\ Config \in lv /\ Has(s, e, Config)
    BY DEF StartsAlone
  <2>1. Range(s.ready) \subseteq {Config} /\ Config \in lv /\ Has(s, d, Config)
    BY <1>1 DEF StartsAlone
  <2>2. Config \in Ids /\ Config \notin cl
    BY <1>1, Constants DEF Control
  <2>3. id # Config
    BY <1>3, <2>1, <2>2 DEF P
  <2> QED BY <1>2, <1>6, <2>1, <2>2, <2>3
<1> QED BY <1>1, <1>2, <1>7, <1>9, <1>10, <1>11, <1>12 DEF Bundle, P

\* ... and returns to it, answered or not.
PutBack(s, t, d) == t = [s EXCEPT !.queues = Put(@, d.id, d.queue)]

\* The replies are sent, or the order of the replies does not matter any more.
Pays(d, an, am, X, Y) ==
  \/ am = an /\ (d.id \in Clients => d.id \in Y)
  \/ d.id \in Clients /\ d.id \notin X /\ am = [an EXCEPT ![d.id] = @ \o d.replies]

\* The driven queue returns to the table; it is not on the ready list yet.
LEMMA ReturnKeeps ==
  ASSUME NEW s, NEW lv, NEW cl, NEW o, NEW d, NEW ak, NEW an, NEW h, NEW X,
         Bundle(s, lv, cl, o, d, ak, an, h, X), d.id \in lv \ cl,
         NEW t, PutBack(s, t, d),
         NEW am, NEW Y, X \subseteq Y,
         Pays(d, an, am, X, Y)
  PROVE  /\ Core(t, lv, cl, o, Nobody, ak, am, h, Y)
         /\ StartsAlone(t, lv, Nobody)
         /\ Runnable(t, X \cup {d.id}) /\ t.queues[d.id] = d.queue
<1> USE DEF PutBack, Pays
<1> DEFINE P == lv \ cl
           e == Nobody
           id == d.id
<1>1. /\ Tables(s) /\ Control(lv, cl, o, d, ak, an, h) /\ Listing(s, o, d, P)
      /\ Fronts(s, o, d) /\ InOrder(s, d, ak, an, P, X) /\ Served(s, h)
      /\ StartsAlone(s, lv, d) /\ Runnable(s, X)
  BY DEF Bundle
<1>2. /\ Drives(e) /\ e.id = None /\ ~e.queue.blocked /\ e.detach = FALSE
      /\ e = Nobody
  BY NobodyIsFine DEF NobodyDrives
<1>3. id \in Ids /\ None \notin Ids /\ id \in P /\ d.queue \in QueueSet
      /\ d.replies \in Seq(Nat) /\ an \in [Clients -> Seq(Nat)]
  BY <1>1, DriveFields, Constants DEF Control
<1> HIDE DEF P, e
<1>4. /\ Tables(t) /\ t.startup = s.startup /\ t.channels = s.channels
      /\ t.eventWaiters = s.eventWaiters /\ t.files = s.files /\ t.jobs = s.jobs
      /\ t.ready = s.ready
      /\ DOMAIN t.queues = DOMAIN s.queues \cup {id} /\ t.queues[id] = d.queue
      /\ \A x \in DOMAIN s.queues \ {id} : t.queues[x] = s.queues[x]
  <2> DEFINE x == Put(s.queues, id, d.queue)
             z == [s EXCEPT !.queues = x]
  <2>1. DOMAIN x = DOMAIN s.queues \cup {id} /\ x[id] = d.queue
    BY DEF Put
  <2>2. \A y \in DOMAIN s.queues \ {id} : x[y] = s.queues[y]
    BY DEF Put
  <2>3. t = z /\ IsScheduler(s)
    BY <1>1 DEF Tables
  <2> HIDE DEF x
  <2>4. /\ IsScheduler(z) /\ z.queues = x
        /\ z.ready = s.ready /\ z.startup = s.startup /\ z.channels = s.channels
        /\ z.eventWaiters = s.eventWaiters /\ z.files = s.files /\ z.jobs = s.jobs
    BY <2>3, SetQueues
  <2> HIDE DEF z
  <2>5. /\ IsScheduler(t) /\ t.queues = x
        /\ t.ready = s.ready /\ t.startup = s.startup /\ t.channels = s.channels
        /\ t.eventWaiters = s.eventWaiters /\ t.files = s.files /\ t.jobs = s.jobs
    BY ONLY <2>3, <2>4
  <2>6. PartialFunction(t.queues, Ids, QueueSet)
    <3>1. PartialFunction(s.queues, Ids, QueueSet)
      BY <1>1 DEF Tables
    <3> QED BY <1>3, <2>1, <2>2, <2>5, <3>1, SMTT(60) DEF PartialFunction
  <2>7. Tables(t)
    BY <1>1, <2>5, <2>6 DEF Tables
  <2> QED BY <2>1, <2>2, <2>5, <2>7
<1>5. \A c \in Ids : /\ Has(t, e, c) <=> Has(s, d, c)
                     /\ Has(s, d, c) => QueueIn(t, e, c) = QueueIn(s, d, c)
  BY <1>2, <1>3, <1>4 DEF Has, QueueIn
<1>6. \A y : Places(t, o, y) = Places(s, o, y) /\ JobsAt(t, y) = JobsAt(s, y)
  BY <1>4 DEF Places, WaitsAt, LocksAt, JobsAt
<1>7. Listing(t, o, e, P)
  <2>1. /\ e.id \notin DOMAIN t.queues /\ DOMAIN t.queues \subseteq P /\ ListsDistinct(t)
        /\ ~e.queue.blocked
    <3>1. DOMAIN t.queues \subseteq P /\ P \subseteq Ids
      BY <1>1, <1>3, <1>4 DEF Listing, Control, P
    <3> QED BY <1>1, <1>2, <1>3, <1>4, <3>1 DEF Listing, ListsDistinct
  <2>3. \A y \in Ids : Has(t, e, y) =>
          IF QueueIn(t, e, y).blocked THEN OnePlace(Places(t, o, y)) ELSE Places(t, o, y) = {}
    BY <1>1, <1>5, <1>6 DEF Listing
  <2>4. \A y \in Ids : ~Has(t, e, y) =>
          /\ Places(t, o, y) \subseteq {"job"} \X JobsAt(t, y)
          /\ y \in P => Places(t, o, y) = {}
    BY <1>1, <1>5, <1>6 DEF Listing
  <2> QED BY <2>1, <2>3, <2>4 DEF Listing
<1>8. \A c \in Ids : \A batch : AtFront(s, d, c, batch) => AtFront(t, e, c, batch)
  BY <1>5 DEF AtFront
<1>9. Fronts(t, o, e)
  <2>1. /\ \A j \in DOMAIN s.jobs : s.jobs[j].client \in Ids
        /\ DOMAIN s.files \subseteq Ids /\ DOMAIN o \subseteq Ids
    BY <1>1, Constants DEF Tables, Control, PartialFunction
  <2> QED BY <1>1, <1>4, <1>8, <2>1 DEF Fronts
<1>10. InOrder(t, e, ak, am, P, Y)
  <2> SUFFICES ASSUME NEW y \in Clients
             PROVE LET a == Len(am[y])
                       r == IF e.id = y THEN Len(e.replies) ELSE 0
                       pending == QueueIn(t, e, y).pending
                   IN /\ \A i \in 1..a : am[y][i] = i
                      /\ y \notin Y =>
                          /\ e.id = y => \A i \in 1..r : e.replies[i] = a + i
                          /\ Has(t, e, y) => \A i \in 1..Len(pending) : pending[i].id = a + r + i
                          /\ y \in P => ak[y] = a + r + IF Has(t, e, y) THEN Len(pending) ELSE 0
    BY DEF InOrder
  <2>1. y \in Ids /\ e.id # y
    BY <1>2, <1>3, Constants
  <2> DEFINE a == Len(an[y])
             p == QueueIn(s, d, y).pending
             q == QueueIn(t, e, y).pending
             m == Len(d.replies)
  <2>2. a \in Nat /\ m \in Nat
    BY <1>3
  <2>3. (Has(t, e, y) <=> Has(s, d, y)) /\ (Has(s, d, y) => p = q)
    BY <1>5, <2>1
  <2>4. /\ \A i \in 1..a : an[y][i] = i
        /\ y \notin X =>
            /\ d.id = y => \A i \in 1..m : d.replies[i] = a + i
            /\ Has(s, d, y) => \A i \in 1..Len(p) :
                                 p[i].id = a + (IF d.id = y THEN m ELSE 0) + i
            /\ y \in P => ak[y] = a + (IF d.id = y THEN m ELSE 0)
                                    + IF Has(s, d, y) THEN Len(p) ELSE 0
    BY <1>1 DEF InOrder
  <2>5. CASE am = an /\ (d.id = y => y \in Y)
    <3> HIDE DEF a, p, q, m
    <3>1. /\ \A i \in 1..a : am[y][i] = i
          /\ y \notin Y =>
              /\ Has(t, e, y) => \A i \in 1..Len(q) : q[i].id = a + 0 + i
              /\ y \in P => ak[y] = a + 0 + IF Has(t, e, y) THEN Len(q) ELSE 0
      BY <2>3, <2>4, <2>5
    <3>2. a = Len(am[y])
      BY <2>5 DEF a
    <3> QED BY <2>1, <3>1, <3>2 DEF q
  <2>6. CASE d.id = y /\ y \notin X /\ am = [an EXCEPT ![d.id] = @ \o d.replies]
    <3>1. am[y] = an[y] \o d.replies
      BY <1>3, <2>6
    <3>2. an[y] \in Seq(Nat)
      BY <1>3
    <3> DEFINE u == an[y]
               v == d.replies
               w == am[y]
    <3>3. /\ Len(w) = a + m
          /\ \A i \in 1..a : w[i] = u[i]
          /\ \A i \in 1..m : w[a + i] = v[i]
      BY <1>3, <3>1, <3>2, SMTT(60)
    <3> HIDE DEF a, p, q, m, u, v, w
    <3>4. ASSUME NEW i \in 1..(a + m) PROVE w[i] = i
      <4>1. CASE i \in 1..a
        BY <2>4, <3>3, <4>1 DEF u
      <4>2. CASE i \notin 1..a
        <5>1. i - a \in 1..m /\ a + (i - a) = i
          BY <2>2, <4>2
        <5>2. w[i] = v[i - a]
          BY <3>3, <5>1
        <5>3. v[i - a] = a + (i - a)
          BY <2>4, <2>6, <5>1 DEF v
        <5> QED BY <5>1, <5>2, <5>3
      <4> QED BY <4>1, <4>2
    <3>5. /\ Has(t, e, y) => \A i \in 1..Len(q) : q[i].id = (a + m) + 0 + i
          /\ y \in P => ak[y] = (a + m) + 0 + IF Has(t, e, y) THEN Len(q) ELSE 0
      BY <2>2, <2>3, <2>4, <2>6
    <3> QED BY <2>1, <3>3, <3>4, <3>5 DEF q, w
  <2>7. CASE d.id # y /\ am = [an EXCEPT ![d.id] = @ \o d.replies]
    <3>1. am[y] = an[y]
      BY <1>3, <2>7
    <3> HIDE DEF a, p, q, m
    <3>2. /\ \A i \in 1..a : am[y][i] = i
          /\ y \notin Y =>
              /\ Has(t, e, y) => \A i \in 1..Len(q) : q[i].id = a + 0 + i
              /\ y \in P => ak[y] = a + 0 + IF Has(t, e, y) THEN Len(q) ELSE 0
      BY <2>3, <2>4, <2>7, <3>1
    <3>3. a = Len(am[y])
      BY <3>1 DEF a
    <3> QED BY <2>1, <3>2, <3>3 DEF q
  <2> QED BY <2>5, <2>6, <2>7
<1>11. Control(lv, cl, o, e, ak, am, h)
  <2>1. None \notin Internal
    BY Constants
  <2>2. am \in [Clients -> Seq(Nat)]
    <3>1. CASE am = an
      BY <1>3, <3>1
    <3>2. CASE d.id \in Clients /\ am = [an EXCEPT ![d.id] = @ \o d.replies]
      <4>1. an[d.id] \o d.replies \in Seq(Nat)
        BY <1>3, <3>2
      <4> QED BY <1>3, <3>2, <4>1
    <3> QED BY <3>1, <3>2
  <2> QED BY <1>1, <1>2, <2>1, <2>2 DEF Control
<1>12. StartsAlone(t, lv, e)
  <2> SUFFICES ASSUME s.startup # None
               PROVE  /\ Range(t.ready) \subseteq {Config} /\ e.id \in {None, Config}
                      /\ Config \in lv /\ Has(t, e, Config)
    BY <1>4 DEF StartsAlone
  <2>1. Range(s.ready) \subseteq {Config} /\ Config \in lv /\ Has(s, d, Config)
    BY <1>1 DEF StartsAlone
  <2>2. Config \in Ids
    BY Constants
  <2> QED BY <1>2, <1>4, <1>5, <2>1, <2>2
<1>13. Runnable(t, X \cup {id})
  BY <1>1, <1>4 DEF Runnable
<1>14. Served(t, h)
  BY <1>1, <1>4 DEF Served
<1>15. Core(t, lv, cl, o, e, ak, am, h, Y)
  BY <1>4, <1>7, <1>9, <1>10, <1>11, <1>14 DEF Core, P
<1> QED BY <1>2, <1>4, <1>12, <1>13, <1>15

-----------------------------------------------------------------------------
(* A request arrives                                                       *)

\* A request is queued.
\* From s to t the queue of c, p, becomes q: one request more, n.  It is blocked
\* when v.
Grows(s, t, c, p, q, v, n) ==
  /\ Len(p) \in Nat /\ Len(q) = Len(p) + 1
  /\ c \in DOMAIN s.queues => s.queues[c].pending = p /\ (s.queues[c].blocked <=> v)
  /\ c \notin DOMAIN s.queues => Len(p) = 0 /\ ~v
  /\ \A i \in 1..Len(p) : q[i] = p[i]
  /\ q[Len(p) + 1].id = n
  /\ Tables(t) /\ t.startup = s.startup /\ t.channels = s.channels
  /\ t.eventWaiters = s.eventWaiters /\ t.files = s.files /\ t.jobs = s.jobs
  /\ t.ready = s.ready
  /\ DOMAIN t.queues = DOMAIN s.queues \cup {c}
  /\ t.queues[c].pending = q /\ (t.queues[c].blocked <=> v)
  /\ \A x \in DOMAIN s.queues \ {c} : t.queues[x] = s.queues[x]

\* One more request of c was accepted.
Counts(ak, al, c) ==
  /\ al \in [Clients -> 0..RequestBound] /\ al[c] = ak[c] + 1
  /\ \A y \in Clients \ {c} : al[y] = ak[y]

\* A batch numbered after the last one keeps the numbers in order.
LEMMA GrowKeeps ==
  ASSUME NEW s, NEW lv, NEW cl, NEW o, NEW ak, NEW an, NEW h,
         Bundle(s, lv, cl, o, Nobody, ak, an, h, {}),
         NEW c, c \in (lv \cap Clients) \ cl, ak[c] < RequestBound,
         NEW p, NEW q, NEW v, NEW t, Grows(s, t, c, p, q, v, ak[c] + 1),
         NEW al, Counts(ak, al, c)
  PROVE  /\ Core(t, lv, cl, o, Nobody, al, an, h, {})
         /\ StartsAlone(t, lv, Nobody)
         /\ Runnable(t, {c}) /\ (v => Runnable(t, {}))
<1> DEFINE P == lv \ cl
           e == Nobody
<1> DEFINE grown == t.queues[c]
<1>1. /\ Tables(s) /\ Control(lv, cl, o, e, ak, an, h) /\ Listing(s, o, e, P)
      /\ Fronts(s, o, e) /\ InOrder(s, e, ak, an, P, {}) /\ Served(s, h)
      /\ StartsAlone(s, lv, e) /\ Runnable(s, {})
  BY DEF Bundle
<1>2. e.id = None /\ ~e.queue.blocked /\ None \notin Ids
  BY NobodyIsFine, Constants DEF NobodyDrives
<1> HIDE DEF e
<1>3. c \in P /\ c \in Ids /\ c \in Clients /\ P \subseteq Ids
  BY <1>1, Constants DEF Control
<1> HIDE DEF P
<1>5. Len(p) \in Nat
  BY DEF Grows
<1>6. /\ Len(q) = Len(p) + 1
      /\ \A i \in 1..Len(p) : q[i] = p[i]
      /\ q[Len(p) + 1].id = ak[c] + 1
  BY DEF Grows
<1>8. c \notin DOMAIN s.queues => Len(p) = 0 /\ ~v
  BY DEF Grows
<1>9. grown.pending = q /\ (grown.blocked <=> v)
  BY DEF Grows
<1>10. /\ Tables(t) /\ t.startup = s.startup /\ t.channels = s.channels
       /\ t.eventWaiters = s.eventWaiters /\ t.files = s.files /\ t.jobs = s.jobs
       /\ t.ready = s.ready
       /\ DOMAIN t.queues = DOMAIN s.queues \cup {c} /\ t.queues[c] = grown
       /\ \A x \in DOMAIN s.queues \ {c} : t.queues[x] = s.queues[x]
  BY DEF Grows
<1>7. c \in DOMAIN s.queues => s.queues[c].pending = p /\ (s.queues[c].blocked <=> v)
  BY DEF Grows
<1> HIDE DEF grown
<1>11. /\ \A y \in Ids \ {c} : /\ Has(t, e, y) <=> Has(s, e, y)
                               /\ Has(s, e, y) => QueueIn(t, e, y) = QueueIn(s, e, y)
       /\ Has(t, e, c) /\ QueueIn(t, e, c) = grown
       /\ Has(s, e, c) <=> c \in DOMAIN s.queues
       /\ Has(s, e, c) => /\ QueueIn(s, e, c).pending = p
                          /\ QueueIn(s, e, c).blocked <=> v
  <2>1. \A y \in Ids : e.id # y
    BY <1>2
  <2>2. /\ \A y \in Ids : Has(t, e, y) <=> y \in DOMAIN t.queues
        /\ \A y \in Ids : Has(s, e, y) <=> y \in DOMAIN s.queues
        /\ \A y \in Ids : QueueIn(t, e, y) = t.queues[y] /\ QueueIn(s, e, y) = s.queues[y]
    BY <2>1 DEF Has, QueueIn
  <2> QED BY <1>3, <1>7, <1>10, <2>2
<1>12. \A y : Places(t, o, y) = Places(s, o, y) /\ JobsAt(t, y) = JobsAt(s, y)
  BY <1>10 DEF Places, WaitsAt, LocksAt, JobsAt
<1>13. Listing(t, o, e, P)
  <2>1. e.id \notin DOMAIN t.queues /\ DOMAIN t.queues \subseteq P /\ ListsDistinct(t)
    BY <1>1, <1>2, <1>3, <1>10 DEF Listing, ListsDistinct
  <2>2. ASSUME NEW y \in Ids, Has(t, e, y)
        PROVE  IF QueueIn(t, e, y).blocked THEN OnePlace(Places(t, o, y))
               ELSE Places(t, o, y) = {}
    <3>1. CASE y # c
      BY <1>1, <1>11, <1>12, <2>2, <3>1 DEF Listing
    <3>2. CASE y = c /\ c \in DOMAIN s.queues
      <4>1. IF v THEN OnePlace(Places(s, o, c)) ELSE Places(s, o, c) = {}
        BY <1>1, <1>3, <1>11, <3>2 DEF Listing
      <4> QED BY <1>9, <1>11, <1>12, <3>2, <4>1
    <3>3. CASE y = c /\ c \notin DOMAIN s.queues
      <4>1. Places(s, o, c) = {}
        BY <1>1, <1>3, <1>11, <3>3 DEF Listing
      <4> QED BY <1>8, <1>9, <1>11, <1>12, <3>3, <4>1
    <3> QED BY <3>1, <3>2, <3>3
  <2>3. ASSUME NEW y \in Ids, ~Has(t, e, y)
        PROVE  /\ Places(t, o, y) \subseteq {"job"} \X JobsAt(t, y)
               /\ y \in P => Places(t, o, y) = {}
    <3>1. y # c /\ ~Has(s, e, y)
      BY <1>11, <2>3
    <3> QED BY <1>1, <1>12, <3>1 DEF Listing
  <2> QED BY <1>2, <2>1, <2>2, <2>3 DEF Listing
<1>14. ASSUME NEW batch2, AtFront(s, e, c, batch2), c \in DOMAIN s.queues
       PROVE  AtFront(t, e, c, batch2)
  <2>1. p # <<>> /\ p[1].id = batch2
    BY <1>11, <1>14 DEF AtFront
  <2>2. Len(p) >= 1 /\ Len(p) \in Nat
    BY <1>5, <2>1
  <2>3. q[1] = p[1] /\ q # <<>>
    BY <1>6, <2>2
  <2> QED BY <1>9, <1>11, <2>1, <2>3 DEF AtFront
<1>15. ASSUME NEW y \in Ids, NEW batch2, AtFront(s, e, y, batch2),
              Places(s, o, y) # {}
       PROVE  AtFront(t, e, y, batch2)
  <2>1. CASE y # c
    BY <1>11, <1>15, <2>1 DEF AtFront
  <2>2. CASE y = c
    <3>1. c \in DOMAIN s.queues
      BY <1>1, <1>3, <1>11, <1>15, <2>2 DEF Listing
    <3> QED BY <1>14, <1>15, <2>2, <3>1
  <2> QED BY <2>1, <2>2
<1>16. Fronts(t, o, e)
  <2>1. /\ \A j \in DOMAIN s.jobs : s.jobs[j].client \in Ids
        /\ DOMAIN s.files \subseteq Ids /\ DOMAIN o \subseteq Ids
    BY <1>1, Constants DEF Tables, Control, PartialFunction
  <2>2. ASSUME NEW j \in DOMAIN s.jobs, ~s.jobs[j].background
        PROVE  AtFront(t, e, s.jobs[j].client, s.jobs[j].batch)
    <3>1. <<"job", j>> \in Places(s, o, s.jobs[j].client)
      BY <2>2 DEF Places, JobsAt
    <3>2. AtFront(s, e, s.jobs[j].client, s.jobs[j].batch)
      BY <1>1, <2>2 DEF Fronts
    <3> QED BY <1>15, <2>1, <3>1, <3>2
  <2>3. ASSUME NEW y \in DOMAIN s.files
        PROVE  AtFront(t, e, y, s.files[y].batch)
    <3>1. <<"file", y>> \in Places(s, o, y)
      BY DEF Places
    <3>2. AtFront(s, e, y, s.files[y].batch)
      BY <1>1 DEF Fronts
    <3> QED BY <1>15, <2>1, <3>1, <3>2
  <2>4. ASSUME NEW y \in DOMAIN o
        PROVE  AtFront(t, e, y, o[y].batch)
    <3>1. <<"outside", y>> \in Places(s, o, y)
      BY DEF Places
    <3>2. AtFront(s, e, y, o[y].batch)
      BY <1>1 DEF Fronts
    <3> QED BY <1>15, <2>1, <3>1, <3>2
  <2> QED BY <1>10, <2>2, <2>3, <2>4 DEF Fronts
<1>17. /\ al \in [Clients -> 0..RequestBound] /\ al[c] = ak[c] + 1 /\ ak[c] \in Nat
       /\ \A y \in Clients \ {c} : al[y] = ak[y]
  BY <1>1, <1>3 DEF Control, Counts
<1>18. Control(lv, cl, o, e, al, an, h)
  BY <1>1, <1>17 DEF Control
<1>19. InOrder(t, e, al, an, P, {})
  <2> SUFFICES ASSUME NEW y \in Clients
             PROVE LET a == Len(an[y])
                       r == IF e.id = y THEN Len(e.replies) ELSE 0
                       pending == QueueIn(t, e, y).pending
                   IN /\ \A i \in 1..a : an[y][i] = i
                      /\ y \notin {} =>
                          /\ e.id = y => \A i \in 1..r : e.replies[i] = a + i
                          /\ Has(t, e, y) => \A i \in 1..Len(pending) : pending[i].id = a + r + i
                          /\ y \in P => al[y] = a + r + IF Has(t, e, y) THEN Len(pending) ELSE 0
    BY DEF InOrder
  <2>1. e.id # y /\ y \in Ids
    BY <1>2, Constants
  <2> DEFINE a == Len(an[y])
             f == QueueIn(s, e, y).pending
             g == QueueIn(t, e, y).pending
  <2>2. /\ \A i \in 1..a : an[y][i] = i
        /\ Has(s, e, y) => \A i \in 1..Len(f) : f[i].id = a + 0 + i
        /\ y \in P => ak[y] = a + 0 + IF Has(s, e, y) THEN Len(f) ELSE 0
    BY <1>1, <2>1 DEF InOrder
  <2>3. a \in Nat
    BY <1>1 DEF Control
  <2>4. CASE y # c
    <3>1. (Has(t, e, y) <=> Has(s, e, y)) /\ (Has(s, e, y) => f = g) /\ al[y] = ak[y]
      BY <1>11, <1>17, <2>1, <2>4
    <3> HIDE DEF a, f, g
    <3>2. /\ \A i \in 1..a : an[y][i] = i
          /\ Has(t, e, y) => \A i \in 1..Len(g) : g[i].id = a + 0 + i
          /\ y \in P => al[y] = a + 0 + IF Has(t, e, y) THEN Len(g) ELSE 0
      BY <2>2, <3>1
    <3> QED BY <2>1, <3>2 DEF a, g
  <2>5. CASE y = c
    <3>1. g = q /\ Has(t, e, y) /\ al[y] = ak[y] + 1
      BY <1>9, <1>11, <1>17, <2>5
    <3>2. Has(s, e, y) => f = p
      BY <1>11, <2>5
    <3>3. ~Has(s, e, y) => Len(p) = 0
      BY <1>8, <1>11, <2>5
    <3>4. Len(p) \in Nat
      BY <1>5
    <3> HIDE DEF a, f, g
    <3>5. ak[y] = a + Len(p)
      BY <1>3, <2>2, <2>3, <2>5, <3>2, <3>3
    <3>6. ASSUME NEW i \in 1..Len(q) PROVE q[i].id = a + i
      <4>1. CASE i \in 1..Len(p)
        <5>1. Has(s, e, y)
          BY <3>3, <4>1
        <5> QED BY <1>6, <2>2, <2>3, <3>2, <4>1, <5>1
      <4>2. CASE i = Len(p) + 1
        BY <1>6, <2>3, <2>5, <3>4, <3>5, <4>2
      <4> QED BY <1>6, <3>4, <4>1, <4>2
    <3>7. /\ \A i \in 1..a : an[y][i] = i
          /\ \A i \in 1..Len(g) : g[i].id = a + 0 + i
          /\ al[y] = a + 0 + Len(g)
      <4>1. al[y] = a + 0 + Len(g)
        BY <1>6, <2>3, <3>1, <3>4, <3>5
      <4>2. \A i \in 1..Len(g) : g[i].id = a + 0 + i
        BY <2>3, <3>1, <3>6
      <4> QED BY <2>2, <4>1, <4>2
    <3> QED BY <2>1, <3>1, <3>7 DEF a, g
  <2> QED BY <2>4, <2>5
<1>20. Served(t, h)
  BY <1>1, <1>10 DEF Served
<1>21. StartsAlone(t, lv, e)
  <2> SUFFICES ASSUME s.startup # None
               PROVE  /\ Range(t.ready) \subseteq {Config} /\ e.id \in {None, Config}
                      /\ Config \in lv /\ Has(t, e, Config)
    BY <1>10 DEF StartsAlone
  <2>1. Range(s.ready) \subseteq {Config} /\ Config \in lv /\ Has(s, e, Config)
    BY <1>1 DEF StartsAlone
  <2> QED BY <1>2, <1>10, <2>1 DEF Has
<1>22. Runnable(t, {c}) /\ (v => Runnable(t, {}))
  <2>1. Runnable(t, {c})
    BY <1>1, <1>10 DEF Runnable
  <2>2. ASSUME v PROVE Runnable(t, {})
    BY <1>9, <1>10, <2>1, <2>2 DEF Runnable
  <2> QED BY <2>1, <2>2
<1> QED BY <1>10, <1>13, <1>16, <1>18, <1>19, <1>20, <1>21, <1>22 DEF Core, P, e

\* enqueue: the batch is queued and the queue is ready.
LEMMA RequestKeeps ==
  ASSUME NEW s, NEW lv, NEW cl, NEW o, NEW ak, NEW an, NEW h,
         Bundle(s, lv, cl, o, Nobody, ak, an, h, {}),
         NEW c \in (lv \cap Clients) \ cl, ak[c] < RequestBound,
         NEW queue, queue = IF c \in DOMAIN s.queues THEN s.queues[c]
                            ELSE [pending |-> <<>>, blocked |-> FALSE],
         ~(Len(queue.pending) >= MaxPending),
         NEW batch \in BatchSet, batch.id = ak[c] + 1,
         NEW grown, grown = [queue EXCEPT !.pending = Append(@, batch)],
         NEW t, t = [s EXCEPT !.queues = Put(@, c, grown)],
         NEW al, al = [ak EXCEPT ![c] = @ + 1],
         NEW u, u = IF queue.blocked THEN t ELSE Ready(t, c)
  PROVE  Bundle(u, lv, cl, o, Nobody, al, an, h, {})
<1> DEFINE p == queue.pending
           v == queue.blocked
           q == Append(p, batch)
<1>1. Tables(s) /\ c \in Ids /\ MaxPending \in Nat
  BY Constants DEF Bundle
<1>2. queue \in QueueSet
  <2>1. CASE c \in DOMAIN s.queues
    BY <1>1, <2>1 DEF Tables, PartialFunction
  <2>2. CASE c \notin DOMAIN s.queues
    <3>1. queue = [pending |-> <<>>, blocked |-> FALSE]
      BY <2>2
    <3>2. <<>> \in Batches
      BY <1>1 DEF Batches
    <3> QED BY ONLY <3>1, <3>2 DEF QueueSet
  <2> QED BY <2>1, <2>2
<1>3. /\ c \in DOMAIN s.queues =>
            s.queues[c].pending = p /\ (s.queues[c].blocked <=> v)
      /\ c \notin DOMAIN s.queues => Len(p) = 0 /\ ~v
  OBVIOUS
<1>4. /\ p \in Seq(BatchSet) /\ Len(p) < MaxPending /\ Len(p) \in Nat
      /\ v \in BOOLEAN
  <2>1. p \in Seq(BatchSet) /\ v \in BOOLEAN
    BY ONLY <1>2, QueueFields
  <2> HIDE DEF p
  <2>2. Len(p) \in Nat
    BY ONLY <2>1
  <2>3. ~(Len(p) >= MaxPending)
    BY DEF p
  <2> QED BY ONLY <1>1, <2>1, <2>2, <2>3
<1>5. grown = [pending |-> q, blocked |-> v]
  BY ONLY <1>2, grown = [queue EXCEPT !.pending = Append(@, batch)] DEF QueueSet
<1> HIDE DEF p, v
<1>6. /\ q \in Seq(BatchSet) /\ Len(q) = Len(p) + 1
      /\ \A i \in 1..Len(p) : q[i] = p[i]
      /\ q[Len(p) + 1] = batch
  BY ONLY <1>4, batch \in BatchSet
<1> HIDE DEF q
<1>7. q[Len(p) + 1].id = ak[c] + 1
  BY <1>6
<1>8. /\ grown.pending = q /\ (grown.blocked <=> v) /\ grown \in QueueSet
  <2>1. q \in Batches
    BY ONLY <1>1, <1>4, <1>6 DEF Batches
  <2> QED BY ONLY <1>4, <1>5, <2>1 DEF QueueSet
<1>9. /\ Tables(t) /\ t.startup = s.startup /\ t.channels = s.channels
      /\ t.eventWaiters = s.eventWaiters /\ t.files = s.files /\ t.jobs = s.jobs
      /\ t.ready = s.ready
      /\ DOMAIN t.queues = DOMAIN s.queues \cup {c} /\ t.queues[c] = grown
      /\ \A x \in DOMAIN s.queues \ {c} : t.queues[x] = s.queues[x]
  <2> DEFINE x == Put(s.queues, c, grown)
             z == [s EXCEPT !.queues = x]
  <2>1. DOMAIN x = DOMAIN s.queues \cup {c} /\ x[c] = grown
    BY ONLY TRUE DEF Put
  <2>2. \A y \in DOMAIN s.queues \ {c} : x[y] = s.queues[y]
    BY ONLY TRUE DEF Put
  <2>3. t = z /\ IsScheduler(s)
    BY <1>1 DEF Tables
  <2> HIDE DEF x
  <2>4. /\ IsScheduler(z) /\ z.queues = x
        /\ z.ready = s.ready /\ z.startup = s.startup /\ z.channels = s.channels
        /\ z.eventWaiters = s.eventWaiters /\ z.files = s.files /\ z.jobs = s.jobs
    BY <2>3, SetQueues
  <2> HIDE DEF z
  <2>5. /\ IsScheduler(t) /\ t.queues = x
        /\ t.ready = s.ready /\ t.startup = s.startup /\ t.channels = s.channels
        /\ t.eventWaiters = s.eventWaiters /\ t.files = s.files /\ t.jobs = s.jobs
    BY ONLY <2>3, <2>4
  <2>6. PartialFunction(t.queues, Ids, QueueSet)
    <3>1. PartialFunction(s.queues, Ids, QueueSet)
      BY <1>1 DEF Tables
    <3> QED BY ONLY <1>1, <1>8, <2>1, <2>2, <2>5, <3>1 DEF PartialFunction
  <2>7. Tables(t)
    BY ONLY <1>1, <2>5, <2>6 DEF Tables
  <2> QED BY ONLY <2>1, <2>2, <2>5, <2>7
<1>10. Counts(ak, al, c)
  <2>1. ak \in [Clients -> 0..RequestBound] /\ RequestBound \in Nat
    BY Constants DEF Bundle, Control
  <2>2. c \in Clients /\ ak[c] < RequestBound /\ al = [ak EXCEPT ![c] = @ + 1]
    OBVIOUS
  <2>3. ak[c] + 1 \in 0..RequestBound
    BY ONLY <2>1, <2>2
  <2> QED BY ONLY <2>1, <2>2, <2>3 DEF Counts
<1>15. Grows(s, t, c, p, q, v, ak[c] + 1)
  BY ONLY <1>3, <1>4, <1>6, <1>7, <1>8, <1>9 DEF Grows
<1>14. c \in (lv \cap Clients) \ cl /\ ak[c] < RequestBound
       /\ Bundle(s, lv, cl, o, Nobody, ak, an, h, {})
  OBVIOUS
<1>11. /\ Core(t, lv, cl, o, Nobody, al, an, h, {})
       /\ StartsAlone(t, lv, Nobody)
       /\ Runnable(t, {c}) /\ (v => Runnable(t, {}))
  BY ONLY <1>10, <1>14, <1>15, GrowKeeps, ZenonT(120)
<1>12. CASE v
  <2>1. u = t
    BY <1>12 DEF v
  <2> QED BY ONLY <1>11, <1>12, <2>1, CoreOfBundle
<1>13. CASE ~v
  <2>1. u = Ready(t, c) /\ c \in Ids
    BY <1>13, Constants DEF v
  <2>2. {c} \ {c} = {}
    OBVIOUS
  <2>3. /\ Core(Ready(t, c), lv, cl, o, Nobody, al, an, h, {})
        /\ StartsAlone(Ready(t, c), lv, Nobody)
        /\ Runnable(Ready(t, c), {c} \ {c})
    BY ONLY <1>11, <2>1, ReadyKeeps
  <2> QED BY ONLY <2>1, <2>2, <2>3, CoreOfBundle
<1> QED BY <1>12, <1>13

-----------------------------------------------------------------------------
(* Channels                                                                *)

\* The channel n of the table s, and its replacement
ChannelOf(s, n) == IF n \in DOMAIN s.channels THEN s.channels[n] ELSE FreshChannel
WithOf(s, n, ch) == [s EXCEPT !.channels = Clean(Put(@, n, ch))]
\* Channel n is there or may be created.
RoomFor(s, n) == \/ n \in DOMAIN s.channels
                 \/ Cardinality(DOMAIN s.channels) < MaxChannels

\* What holds of one channel, and of who has its lock
Sound(ch, holding) ==
  /\ IF ch.locked THEN OnePlace(holding) ELSE holding = {}
  /\ ch.woken => ch.waiters = <<>>
  /\ ch.lockers # <<>> => ch.locked

\* What is known of the channel of a name, be it new or not
LEMMA ChannelIsSound ==
  ASSUME NEW s, Tables(s), ListsDistinct(s), NEW h, Served(s, h), NEW n \in Channels,
         NEW ch, ch = ChannelOf(s, n)
  PROVE  /\ ch \in ChannelType /\ Sound(ch, h[n])
         /\ Distinct(ch.waiters) /\ Distinct(ch.lockers)
         /\ \A c : c \in Range(ch.waiters) <=> n \in WaitsAt(s, c)
         /\ \A c : c \in Range(ch.lockers) <=> n \in LocksAt(s, c)
<1>1. CASE n \in DOMAIN s.channels
  <2>1. ch = s.channels[n]
    BY <1>1 DEF ChannelOf
  <2>2. ch \in ChannelType
    BY <1>1, <2>1 DEF Tables, PartialFunction
  <2>3. Sound(ch, h[n])
    BY <1>1, <2>1 DEF Served, Sound
  <2>4. Distinct(ch.waiters) /\ Distinct(ch.lockers)
    BY <1>1, <2>1 DEF ListsDistinct
  <2> QED BY <1>1, <2>1, <2>2, <2>3, <2>4 DEF WaitsAt, LocksAt
<1>2. CASE n \notin DOMAIN s.channels
  <2>1. ch = FreshChannel
    BY <1>2 DEF ChannelOf
  <2>2. /\ ch \in ChannelType /\ ~ch.locked /\ ~ch.woken /\ ch.waiters = <<>>
        /\ ch.lockers = <<>>
    BY <2>1 DEF FreshChannel, ChannelType
  <2>3. h[n] = {}
    BY <1>2 DEF Served
  <2>4. Range(<<>>) = {} /\ Distinct(<<>>)
    BY DEF Range, Distinct
  <2>5. \A c : n \notin WaitsAt(s, c) /\ n \notin LocksAt(s, c)
    BY <1>2 DEF WaitsAt, LocksAt
  <2> QED BY <2>2, <2>3, <2>4, <2>5 DEF Sound
<1> QED BY <1>1, <1>2

\* A channel is only created while there is room.
LEMMA OneMore ==
  ASSUME NEW S, S \subseteq Channels, NEW n \in Channels,
         \/ n \in S /\ Cardinality(S) <= MaxChannels
         \/ Cardinality(S) < MaxChannels
  PROVE  Cardinality(S \cup {n}) <= MaxChannels
<1>1. IsFiniteSet(S) /\ MaxChannels \in Nat
  BY Constants, FS_Subset
<1>2. Cardinality(S) \in Nat
  BY <1>1, FS_CardinalityType
<1>3. CASE n \in S
  <2>1. S \cup {n} = S
    BY <1>3
  <2> QED BY <1>1, <1>2, <1>3, <2>1
<1>4. CASE n \notin S
  <2>1. Cardinality(S \cup {n}) = Cardinality(S) + 1
    BY <1>1, <1>4, FS_AddElement
  <2> DEFINE k == Cardinality(S)
             m == Cardinality(S \cup {n})
  <2>2. k < MaxChannels
    BY <1>4
  <2> HIDE DEF k, m
  <2>3. m <= MaxChannels
    BY <1>1, <1>2, <2>1, <2>2 DEF k, m
  <2> QED BY <2>3 DEF m
<1> QED BY <1>3, <1>4

\* A channel is changed, or made, and those that are unused go.
LEMMA ChannelChanges ==
  ASSUME NEW s, Tables(s), NEW n \in Channels, RoomFor(s, n),
         NEW ch, ch \in ChannelType, NEW t, t = WithOf(s, n, ch)
  PROVE  /\ Tables(t) /\ t.queues = s.queues /\ t.ready = s.ready
         /\ t.startup = s.startup /\ t.eventWaiters = s.eventWaiters
         /\ t.files = s.files /\ t.jobs = s.jobs
         /\ \A c, m : m \in WaitsAt(t, c) <=> IF m = n THEN c \in Range(ch.waiters)
                                              ELSE m \in WaitsAt(s, c)
         /\ \A c, m : m \in LocksAt(t, c) <=> IF m = n THEN c \in Range(ch.lockers)
                                              ELSE m \in LocksAt(s, c)
         /\ ListsDistinct(s) /\ Distinct(ch.waiters) /\ Distinct(ch.lockers)
              => ListsDistinct(t)
         /\ \A h, g : Served(s, h) /\ Sound(ch, g[n])
                      /\ (\A m \in Channels \ {n} : g[m] = h[m]) => Served(t, g)
<1> DEFINE x == Put(s.channels, n, ch)
           y == Clean(x)
           r == [s EXCEPT !.channels = x]
           z == [s EXCEPT !.channels = y]
<1>1. DOMAIN x = DOMAIN s.channels \cup {n} /\ x[n] = ch
  BY DEF Put
<1>2. \A m \in DOMAIN s.channels \ {n} : x[m] = s.channels[m]
  BY DEF Put
<1>3. IsScheduler(s)
  BY DEF Tables
<1>4. t = z
  BY DEF WithOf
<1> HIDE DEF x
<1>5. r.channels = x
  BY <1>3, SetChannels
<1>6. y = Clean(r.channels)
  BY <1>5
<1> HIDE DEF r, y
<1>7. /\ IsScheduler(z) /\ z.channels = y
      /\ z.queues = s.queues /\ z.ready = s.ready /\ z.startup = s.startup
      /\ z.eventWaiters = s.eventWaiters /\ z.files = s.files /\ z.jobs = s.jobs
  BY <1>3, SetChannels
<1> HIDE DEF z
<1>8. /\ IsScheduler(t) /\ t.channels = Clean(r.channels)
      /\ t.queues = s.queues /\ t.ready = s.ready /\ t.startup = s.startup
      /\ t.eventWaiters = s.eventWaiters /\ t.files = s.files /\ t.jobs = s.jobs
  BY <1>4, <1>6, <1>7
<1>9. /\ PartialFunction(s.channels, Channels, ChannelType)
      /\ Cardinality(DOMAIN s.channels) <= MaxChannels
  BY DEF Tables
<1>10. PartialFunction(r.channels, Channels, ChannelType)
  BY <1>1, <1>2, <1>5, <1>9 DEF PartialFunction
<1>11. /\ DOMAIN t.channels \subseteq DOMAIN r.channels
       /\ PartialFunction(t.channels, Channels, ChannelType)
       /\ \A c : WaitsAt(t, c) = WaitsAt(r, c) /\ LocksAt(t, c) = LocksAt(r, c)
       /\ ListsDistinct(r) => ListsDistinct(t)
       /\ \A h : Served(r, h) => Served(t, h)
  BY <1>8, <1>10, CleanKeeps
<1>12. Cardinality(DOMAIN t.channels) <= MaxChannels
  <2> DEFINE S == DOMAIN s.channels
             T == DOMAIN t.channels
  <2>1. S \subseteq Channels /\ T \subseteq S \cup {n}
    BY <1>1, <1>5, <1>9, <1>11 DEF PartialFunction
  <2>2. \/ n \in S /\ Cardinality(S) <= MaxChannels
        \/ Cardinality(S) < MaxChannels
    BY <1>9 DEF RoomFor
  <2> HIDE DEF S, T
  <2>3. Cardinality(S \cup {n}) <= MaxChannels
    BY <2>1, <2>2, OneMore
  <2>4. S \cup {n} \subseteq Channels
    BY <2>1
  <2>5. Cardinality(T) <= MaxChannels
    BY <2>1, <2>3, <2>4, FewerChannels
  <2> QED BY <2>5 DEF T
<1>13. Tables(t)
  BY <1>8, <1>11, <1>12 DEF Tables
<1>14. \A c, m : m \in WaitsAt(r, c) <=> IF m = n THEN c \in Range(ch.waiters)
                                         ELSE m \in WaitsAt(s, c)
  BY <1>1, <1>2, <1>5 DEF WaitsAt
<1>15. \A c, m : m \in LocksAt(r, c) <=> IF m = n THEN c \in Range(ch.lockers)
                                         ELSE m \in LocksAt(s, c)
  BY <1>1, <1>2, <1>5 DEF LocksAt
<1>16. ListsDistinct(s) /\ Distinct(ch.waiters) /\ Distinct(ch.lockers) => ListsDistinct(r)
  BY <1>1, <1>2, <1>5 DEF ListsDistinct
<1>17. ASSUME NEW h, NEW g, Served(s, h), Sound(ch, g[n]),
              \A m \in Channels \ {n} : g[m] = h[m]
       PROVE  Served(r, g)
  <2>1. ASSUME NEW m \in Channels
        PROVE  IF m \in DOMAIN r.channels /\ r.channels[m].locked
               THEN OnePlace(g[m]) ELSE g[m] = {}
    <3>1. CASE m = n
      BY <1>1, <1>5, <1>17, <3>1 DEF Sound
    <3>2. CASE m # n
      <4>1. m \in DOMAIN r.channels <=> m \in DOMAIN s.channels
        BY <1>1, <1>5, <3>2
      <4>2. m \in DOMAIN s.channels => r.channels[m] = s.channels[m]
        BY <1>2, <1>5, <3>2
      <4> QED BY <1>17, <3>2, <4>1, <4>2 DEF Served
    <3> QED BY <3>1, <3>2
  <2>2. ASSUME NEW m \in DOMAIN r.channels
        PROVE  /\ r.channels[m].woken => r.channels[m].waiters = <<>>
               /\ r.channels[m].lockers # <<>> => r.channels[m].locked
    <3>1. CASE m = n
      BY <1>1, <1>5, <1>17, <3>1 DEF Sound
    <3>2. CASE m # n
      <4>1. m \in DOMAIN s.channels /\ r.channels[m] = s.channels[m]
        BY <1>1, <1>2, <1>5, <3>2
      <4> QED BY <1>17, <4>1 DEF Served
    <3> QED BY <3>1, <3>2
  <2> QED BY <2>1, <2>2 DEF Served
<1> QED BY <1>8, <1>11, <1>13, <1>14, <1>15, <1>16, <1>17

-----------------------------------------------------------------------------
(* Running a command                                                       *)

\* d is driven and may run a command.
MayRun(d, P) == /\ d.id # None /\ d.id \in P /\ ~d.queue.blocked
               /\ d.queue.pending # <<>> /\ d.budget > 0

\* b is what becomes of the batch in front.
Becomes(d, b) == b \in BatchSet /\ b.id = d.queue.pending[1].id

\* Running a command that leaves its batch in front keeps the invariant.
LEMMA RanKeeps ==
  ASSUME NEW s, NEW lv, NEW cl, NEW o, NEW d, NEW ak, NEW an, NEW h, NEW X,
         Bundle(s, lv, cl, o, d, ak, an, h, X), MayRun(d, lv \ cl),
         NEW b, Becomes(d, b), NEW e, e = RanOf(d, b)
  PROVE  /\ Bundle(s, lv, cl, o, e, ak, an, h, X) /\ e.id = d.id
         /\ ~e.queue.blocked /\ e.queue.pending # <<>>
         /\ e.queue.pending[1].id = d.queue.pending[1].id
<1>1. Drives(d) /\ (d.detach => d.id \in Clients)
  BY DEF Bundle, Control
<1>2. d.queue.pending # <<>> /\ d.budget > 0 /\ b \in BatchSet
      /\ b.id = d.queue.pending[1].id /\ d.id # None /\ ~d.queue.blocked
  BY DEF MayRun, Becomes
<1>3. /\ Drives(e) /\ e.id = d.id /\ e.detach = d.detach /\ e.replies = d.replies
      /\ e.queue.blocked = d.queue.blocked
      /\ SameIds(d.queue.pending, e.queue.pending)
      /\ e.queue.pending # <<>>
      /\ e.queue.pending[1].id = d.queue.pending[1].id
  <2> DEFINE z == RanOf(d, b)
  <2>1. /\ Drives(z) /\ z.id = d.id /\ z.detach = d.detach /\ z.replies = d.replies
        /\ z.queue.blocked = d.queue.blocked
        /\ SameIds(d.queue.pending, z.queue.pending)
        /\ z.queue.pending # <<>>
        /\ z.queue.pending[1].id = d.queue.pending[1].id
    BY ONLY <1>1, <1>2, RanFields
  <2>2. e = z
    OBVIOUS
  <2> HIDE DEF z
  <2> QED BY ONLY <2>1, <2>2
<1>4. Moves(d, e)
  BY ONLY <1>1, <1>3 DEF Moves
<1>5. Bundle(s, lv, cl, o, e, ak, an, h, X)
  BY <1>2, <1>4, MoveKeeps
<1> QED BY ONLY <1>2, <1>3, <1>5

\* So does the end of a batch,
LEMMA AnswerKeeps ==
  ASSUME NEW s, NEW lv, NEW cl, NEW o, NEW d, NEW ak, NEW an, NEW h, NEW X,
         Bundle(s, lv, cl, o, d, ak, an, h, X), d.id # None, ~d.queue.blocked,
         d.queue.pending # <<>>, NEW e, e = Answer(d)
  PROVE  Bundle(s, lv, cl, o, e, ak, an, h, X) /\ e.id = d.id /\ ~e.queue.blocked
<1>1. Drives(d) /\ (d.detach => d.id \in Clients) /\ d.queue.pending # <<>>
  BY DEF Bundle, Control
<1>2. /\ Drives(e) /\ e.id = d.id /\ e.detach = d.detach /\ e.budget = d.budget
      /\ e.queue.blocked = d.queue.blocked
      /\ e.replies = Append(d.replies, d.queue.pending[1].id)
      /\ e.queue.pending = Tail(d.queue.pending)
  <2> DEFINE z == Answer(d)
  <2>1. /\ Drives(z) /\ z.id = d.id /\ z.detach = d.detach /\ z.budget = d.budget
        /\ z.queue.blocked = d.queue.blocked
        /\ z.replies = Append(d.replies, d.queue.pending[1].id)
        /\ z.queue.pending = Tail(d.queue.pending)
    BY ONLY <1>1, AnswerFields
  <2>2. e = z
    OBVIOUS
  <2> HIDE DEF z
  <2> QED BY ONLY <2>1, <2>2
<1>3. Moves(d, e)
  BY ONLY <1>1, <1>2 DEF Moves
<1>4. Bundle(s, lv, cl, o, e, ak, an, h, X)
  BY <1>3, MoveKeeps
<1> QED BY <1>2, <1>4

\* and a command that may have been the last of its batch.
LEMMA DoneKeeps ==
  ASSUME NEW s, NEW lv, NEW cl, NEW o, NEW d, NEW ak, NEW an, NEW h, NEW X,
         Bundle(s, lv, cl, o, d, ak, an, h, X), MayRun(d, lv \ cl),
         NEW b, Becomes(d, b),
         NEW e, e = IF b.commands = <<>> THEN Answer(RanOf(d, b)) ELSE RanOf(d, b)
  PROVE  Bundle(s, lv, cl, o, e, ak, an, h, X) /\ e.id = d.id /\ ~e.queue.blocked
<1> DEFINE f == RanOf(d, b)
<1>1. f = RanOf(d, b) /\ d.id # None
  BY DEF MayRun
<1>2. e = f \/ e = Answer(f)
  OBVIOUS
<1> HIDE DEF f
<1>3. /\ Bundle(s, lv, cl, o, f, ak, an, h, X) /\ f.id = d.id
      /\ ~f.queue.blocked /\ f.queue.pending # <<>>
  BY <1>1, RanKeeps
<1>4. CASE e = f
  BY ONLY <1>3, <1>4
<1>5. CASE e = Answer(f)
  <2>1. Bundle(s, lv, cl, o, e, ak, an, h, X) /\ e.id = f.id /\ ~e.queue.blocked
    BY ONLY <1>1, <1>3, <1>5, AnswerKeeps
  <2> QED BY ONLY <1>3, <2>1
<1> QED BY <1>2, <1>4, <1>5

\* A command that waits: its queue is blocked, and listed where it was not.
LEMMA WaitKeeps ==
  ASSUME NEW s, NEW lv, NEW cl, NEW o, NEW d, NEW ak, NEW an, NEW h, NEW X,
         Bundle(s, lv, cl, o, d, ak, an, h, X), MayRun(d, lv \ cl),
         NEW b, Becomes(d, b),
         NEW e, e = Stopping(RanOf(d, b)), NEW t, NEW p, Tables(t), Served(t, h),
         PartialFunction(p, Ids, [kind : {"pane", "stdin"}, group : Nat, batch : Nat]),
         Lists(s, o, t, p, d.id, d.queue.pending[1].id)
  PROVE  Bundle(t, lv, cl, p, e, ak, an, h, X)
<1> DEFINE f == RanOf(d, b)
<1>1. f = RanOf(d, b) /\ e = Stopping(f) /\ d.id \in lv \ cl
  BY DEF MayRun
<1> HIDE DEF f
<1>2. /\ Bundle(s, lv, cl, o, f, ak, an, h, X) /\ f.id = d.id
      /\ ~f.queue.blocked /\ f.queue.pending # <<>>
      /\ f.queue.pending[1].id = d.queue.pending[1].id
  BY <1>1, RanKeeps
<1>3. Lists(s, o, t, p, f.id, f.queue.pending[1].id) /\ f.id \in lv \ cl
  BY <1>1, <1>2
<1>4. Bundle(t, lv, cl, p, Stopping(f), ak, an, h, X)
  BY <1>2, <1>3, BlockKeeps
<1> QED BY <1>1, <1>4

\* What the commands have in common
LEMMA Driven ==
  ASSUME Inv, Running
  PROVE  /\ MayRun(driving, live \ closing) /\ Drives(driving)
         /\ Current \in BatchSet /\ Current = driving.queue.pending[1]
         /\ driving.id \in Ids
<1>1. Drives(driving)
  BY DEF Inv, Bundle, Control
<1>2. MayRun(driving, live \ closing) /\ driving.queue.pending # <<>> /\ driving.id # None
  BY DEF Running, MayRun, Idle
<1>3. driving.queue.pending \in Seq(BatchSet) /\ driving.id \in Ids
  BY <1>1, <1>2, DriveFields
<1> DEFINE list == driving.queue.pending
<1>4. Current = Head(list)
  BY DEF Current
<1> HIDE DEF list
<1>5. Head(list) \in BatchSet /\ Head(list) = list[1]
  BY <1>2, <1>3 DEF list
<1> QED BY <1>1, <1>2, <1>3, <1>4, <1>5 DEF list

\* The command in front, and the batch without it
LEMMA CommandsRest ==
  ASSUME Current \in BatchSet, Current.commands # <<>>
  PROVE  /\ Item \in CommandType /\ Rest \in BatchSet /\ Rest.id = Current.id
         /\ Current.id \in Nat
<1>1. /\ Current \in BatchType /\ Current.commands \in Seq(CommandType)
      /\ Len(Current.commands) <= MaxCommands
  BY DEF BatchSet, BatchType
<1> DEFINE c == Current
           list == c.commands
           rest == Tail(list)
<1>2. Rest = [c EXCEPT !.commands = rest] /\ Item = Head(list)
  BY DEF Rest, Item
<1>3. list \in Seq(CommandType) /\ list # <<>> /\ c \in BatchType /\ MaxCommands \in Nat
      /\ Len(list) <= MaxCommands
  BY <1>1, Constants
<1> HIDE DEF c
<1>5. Head(list) \in CommandType
  BY <1>3
<1>6. rest \in Seq(CommandType) /\ Len(rest) <= MaxCommands
  <2> HIDE DEF list
  <2>1. rest \in Seq(CommandType) /\ Len(rest) = Len(list) - 1 /\ Len(list) \in Nat
    BY <1>3
  <2> HIDE DEF rest
  <2> QED BY <1>3, <2>1
<1> HIDE DEF list, rest
<1>7. /\ [c EXCEPT !.commands = rest] \in BatchType
      /\ [c EXCEPT !.commands = rest].commands = rest
      /\ [c EXCEPT !.commands = rest].id = c.id
      /\ c.id \in Nat
  BY <1>3, <1>6 DEF BatchType
<1> QED BY <1>2, <1>5, <1>6, <1>7 DEF BatchSet, c

\* The hooks of a command are inserted into its batch.
LEMMA HooksFollow ==
  ASSUME Item \in CommandType, NEW b \in BatchSet
  PROVE  /\ \A e \in Hooked(b) : e \in BatchSet /\ e.id = b.id
         /\ \A e \in Followed(b) : e \in BatchSet /\ e.id = b.id
<1>1. HookOf(Item) \in CommandType
  BY Items
<1>2. InsertGroup(b, HookOf(Item)) \in BatchSet /\ InsertGroup(b, HookOf(Item)).id = b.id
  BY <1>1, InsertedGroup
<1> QED BY <1>2 DEF Hooked, Followed

-----------------------------------------------------------------------------
(* Hooks, clients that go, and commands that do not block                  *)

\* The hooks that a command fires keep the invariant.
LEMMA FireKeeps ==
  ASSUME NEW cl, NEW o, NEW d, NEW ak, NEW an, NEW h, NEW X,
         Bundle(scheduler, live, cl, o, d, ak, an, h, X), ~d.queue.blocked, HooksFire
  PROVE  Bundle(scheduler', live', cl, o, d, ak, an, h, X)
<1>1. HooksAreFree(scheduler, live)
  BY DEF HooksAreFree, FreeHooks
<1>2. PICK e \in Events(scheduler) :
        scheduler' = e.scheduler /\ live' = live \cup e.started
  BY DEF HooksFire
<1>3. Bundle(e.scheduler, live \cup e.started, cl, o, d, ak, an, h, X)
  BY <1>1, EventKeeps
<1> QED BY <1>2, <1>3

\* A map without one key is a part of the map.
LEMMA WithoutClient ==
  ASSUME NEW f, NEW c
  PROVE  Part(Without(f, c), f) /\ DOMAIN Without(f, c) = DOMAIN f \ {c}
BY WithoutOne, ZenonT(120) DEF Part

\* disconnect tells the hooks and drops the client's queue.
LEMMA DisconnectKeeps ==
  ASSUME NEW s, NEW d, NEW ak, NEW an, NEW h, NEW X,
         Bundle(s, live, closing, outside, d, ak, an, h, X), ~d.queue.blocked,
         HooksAreFree(s, live), NEW c \in Clients, c \in X => d.id # c, Disconnect(c, s)
  PROVE  Bundle(scheduler', live', closing', outside', d, ak, an, h, X \ {c})
<1>1. PICK e \in Events(s) :
        /\ scheduler' = Lost(e.scheduler, c)
        /\ live' = (live \ {c}) \cup e.started
        /\ closing' = closing \ {c}
        /\ outside' = Without(outside, c)
  BY DEF Disconnect
<1> DEFINE u == e.scheduler
           k == e.started
           lv == live \cup k
           p == Without(outside, c)
<1>2. /\ Bundle(u, lv, closing, outside, d, ak, an, h, X)
      /\ k \subseteq Hooks /\ k \cap live = {}
  BY EventKeeps
<1>3. Part(p, outside) /\ DOMAIN p = DOMAIN outside \ {c}
  BY WithoutClient
<1>4. closing \subseteq live \cap Clients
  BY DEF Bundle, Control
<1>5. c \notin k /\ c # Config
  BY <1>2, Constants
<1> DEFINE lw == (live \ {c}) \cup k
           cm == closing \ {c}
<1>6. /\ lw \subseteq lv /\ lv \ {c} \subseteq lw /\ cm \subseteq lw \cap Clients
      /\ lw \ cm = (lv \ closing) \ {c}
  BY <1>4, <1>5
<1>7. scheduler' = Lost(u, c) /\ live' = lw /\ closing' = cm /\ outside' = p
  BY <1>1
<1> HIDE DEF u, k, lv, p, lw, cm
<1>8. d.id = c => ~d.queue.blocked /\ c \in Clients
  OBVIOUS
<1>9. Bundle(Lost(u, c), lw, cm, p, d, ak, an, h, X \ {c})
  BY <1>2, <1>3, <1>5, <1>6, <1>8, DropKeeps, ZenonT(120)
<1> QED BY <1>7, <1>9

\* disconnect_after_native_delivery drops the queue; the client is still there.
LEMMA CloseKeeps ==
  ASSUME NEW s, NEW d, NEW ak, NEW an, NEW h, NEW X,
         Bundle(s, live, closing, outside, d, ak, an, h, X), ~d.queue.blocked,
         HooksAreFree(s, live), NEW c \in Clients, c \in X => d.id # c, c \in live,
         Close(c, s)
  PROVE  Bundle(scheduler', live', closing', outside', d, ak, an, h, X \ {c})
<1> DEFINE u == Lost(s, c)
           p == Without(outside, c)
           cm == closing \cup {c}
<1>1. PICK e \in Events(u) :
        /\ scheduler' = e.scheduler
        /\ live' = live \cup e.started
        /\ closing' = cm
        /\ outside' = p
  BY DEF Close
<1>2. Part(p, outside) /\ DOMAIN p = DOMAIN outside \ {c}
  BY WithoutClient
<1>3. closing \subseteq live \cap Clients
  BY DEF Bundle, Control
<1>4. /\ live \subseteq live /\ live \ {c} \subseteq live /\ cm \subseteq live \cap Clients
      /\ live \ cm = (live \ closing) \ {c} /\ c # Config
  BY <1>3, Constants
<1>5. d.id = c => ~d.queue.blocked /\ c \in Clients
  OBVIOUS
<1>6. HooksAreFree(u, live)
  <2>1. Tables(s)
    BY DEF Bundle
  <2>2. u.jobs = s.jobs
    BY <2>1, LostChanges
  <2> QED BY <2>2 DEF HooksAreFree
<1> HIDE DEF p, cm
<1>7. Bundle(u, live, cm, p, d, ak, an, h, X \ {c})
  BY <1>2, <1>4, <1>5, DropKeeps
<1> HIDE DEF u
<1>8. Bundle(e.scheduler, live \cup e.started, cm, p, d, ak, an, h, X \ {c})
  BY <1>6, <1>7, EventKeeps
<1> QED BY <1>1, <1>8

\* What a command that ends does to the driven queue
LEMMA DoneIsKept ==
  ASSUME Inv, Running, Current.commands # <<>>, NEW b, b \in BatchSet, b.id = Current.id,
         Done(b)
  PROVE  /\ Bundle(scheduler, live, closing, outside, driving', asked, answered, holders, {})
         /\ driving'.id = driving.id /\ ~driving'.queue.blocked
<1>1. MayRun(driving, live \ closing) /\ Becomes(driving, b)
  BY Driven DEF Becomes
<1>2. driving' = IF b.commands = <<>> THEN Answer(RanOf(driving, b)) ELSE RanOf(driving, b)
  BY DEF Done, Ran, RanOf
<1>3. Bundle(scheduler, live, closing, outside, driving, asked, answered, holders, {})
  BY DEF Inv
<1> QED BY ONLY <1>1, <1>2, <1>3, DoneKeeps

\* What is known when a command runs
LEMMA CommandFacts ==
  ASSUME Inv, Running, Current.commands # <<>>
  PROVE  /\ Item \in CommandType /\ Rest \in BatchSet /\ Rest.id = Current.id
         /\ Current.id \in Nat
         /\ \A b \in BatchSet : \A e \in Hooked(b) : e \in BatchSet /\ e.id = b.id
         /\ \A b \in BatchSet : \A e \in Followed(b) : e \in BatchSet /\ e.id = b.id
BY Driven, CommandsRest, HooksFollow

\* The end of a batch keeps the invariant.
LEMMA BatchEndsKeeps == Inv /\ BatchEnds => Inv'
<1> SUFFICES ASSUME Inv, BatchEnds PROVE Inv'
  OBVIOUS
<1>1. Bundle(scheduler, live, closing, outside, driving, asked, answered, holders, {})
  BY DEF Inv
<1>2. driving.id # None /\ ~driving.queue.blocked /\ driving.queue.pending # <<>>
  BY DEF BatchEnds, Running, Idle
<1>3. driving' = Answer(driving)
  BY DEF BatchEnds
<1>4. Bundle(scheduler, live, closing, outside, driving', asked, answered, holders, {})
  BY ONLY <1>1, <1>2, <1>3, AnswerKeeps
<1> QED BY <1>4 DEF BatchEnds, Inv

\* So does a command that succeeds,
LEMMA RunPlainKeeps == Inv /\ RunPlain => Inv'
<1> SUFFICES ASSUME Inv, RunPlain PROVE Inv'
  OBVIOUS
<1>1. Running /\ Current.commands # <<>> /\ HooksFire
  BY DEF RunPlain, Runs
<1>2. PICK b \in Hooked(Rest) : Done(b)
  BY DEF RunPlain
<1>3. b \in BatchSet /\ b.id = Current.id
  BY <1>1, CommandFacts
<1>4. /\ Bundle(scheduler, live, closing, outside, driving', asked, answered, holders, {})
      /\ ~driving'.queue.blocked
  BY <1>1, <1>2, <1>3, DoneIsKept
<1>5. Bundle(scheduler', live', closing, outside, driving', asked, answered, holders, {})
  BY <1>1, <1>4, FireKeeps
<1> QED BY <1>5 DEF RunPlain, Inv

\* one that fails,
LEMMA RunErrorKeeps == Inv /\ RunError => Inv'
<1> SUFFICES ASSUME Inv, RunError PROVE Inv'
  OBVIOUS
<1>1. Running /\ Current.commands # <<>>
  BY DEF RunError
<1> DEFINE f == Fail(Rest, Item.group)
<1>2. PICK b \in Followed(f) : Done(b)
  BY DEF RunError
<1>3. f \in BatchSet /\ f.id = Current.id
  BY <1>1, CommandFacts, FailedBatch
<1> HIDE DEF f
<1>4. b \in BatchSet /\ b.id = Current.id
  BY <1>1, <1>3, CommandFacts
<1>5. /\ Bundle(scheduler, live, closing, outside, driving', asked, answered, holders, {})
      /\ ~driving'.queue.blocked
  BY <1>1, <1>2, <1>4, DoneIsKept
<1>6. scheduler' \in Signals(scheduler)
  BY DEF RunError
<1>7. Bundle(scheduler', live, closing, outside, driving', asked, answered, holders, {})
  BY <1>5, <1>6, SignalKeeps
<1> QED BY <1>7 DEF RunError, Inv

\* and one that inserts other commands.
LEMMA RunInsertKeeps == Inv /\ RunInsert => Inv'
<1> SUFFICES ASSUME Inv, RunInsert PROVE Inv'
  OBVIOUS
<1>1. Running /\ Current.commands # <<>>
  BY DEF RunInsert, Runs
<1> DEFINE i == Deeper(Item)
<1>2. PICK b \in {Insert(Rest, i), InsertGroup(Rest, i)} : Done(b)
  BY DEF RunInsert
<1>3. i \in CommandType /\ Rest \in BatchSet /\ Rest.id = Current.id
  BY <1>1, CommandFacts, Items
<1> HIDE DEF i
<1>4. b \in BatchSet /\ b.id = Current.id
  BY <1>3, InsertedBatch, InsertedGroup
<1>5. Bundle(scheduler, live, closing, outside, driving', asked, answered, holders, {})
  BY <1>1, <1>2, <1>4, DoneIsKept
<1> QED BY <1>5 DEF RunInsert, Inv

-----------------------------------------------------------------------------
(* Commands that detach, and commands on channels                          *)

\* A command that detaches its own client
LEMMA RunDetachKeeps == Inv /\ RunDetach => Inv'
<1> SUFFICES ASSUME Inv, RunDetach PROVE Inv'
  OBVIOUS
<1>1. Running /\ Current.commands # <<>> /\ driving.id \in Clients
  BY DEF RunDetach, Runs
<1> DEFINE f == RanOf(driving, Rest)
           g == [f EXCEPT !.detach = TRUE]
<1>2. driving' = Answer(g)
  BY DEF RunDetach, Ran, RanOf
<1>3. MayRun(driving, live \ closing) /\ Becomes(driving, Rest)
  BY <1>1, Driven, CommandFacts DEF Becomes
<1>4. Bundle(scheduler, live, closing, outside, driving, asked, answered, holders, {})
  BY DEF Inv
<1>5. f = RanOf(driving, Rest) /\ g = [f EXCEPT !.detach = TRUE]
  OBVIOUS
<1> HIDE DEF f, g
<1>6. /\ Bundle(scheduler, live, closing, outside, f, asked, answered, holders, {})
      /\ f.id = driving.id /\ ~f.queue.blocked /\ f.queue.pending # <<>>
  BY ONLY <1>3, <1>4, <1>5, RanKeeps
<1>7. Drives(f) /\ f.id # None
  BY <1>3, <1>6 DEF Bundle, Control, MayRun
<1>8. /\ Drives(g) /\ g.id = f.id /\ g.queue = f.queue /\ g.replies = f.replies
  BY ONLY <1>5, <1>7 DEF Drives
<1>9. Moves(f, g)
  BY <1>1, <1>6, <1>8, SameIdsOfSame DEF Moves
<1>10. Bundle(scheduler, live, closing, outside, g, asked, answered, holders, {})
  BY ONLY <1>6, <1>7, <1>9, MoveKeeps
<1>11. g.id # None /\ ~g.queue.blocked /\ g.queue.pending # <<>>
  BY <1>6, <1>7, <1>8
<1>12. Bundle(scheduler, live, closing, outside, driving', asked, answered, holders, {})
  BY ONLY <1>2, <1>10, <1>11, AnswerKeeps
<1> QED BY <1>12 DEF RunDetach, Inv

\* A command that detaches another client
LEMMA RunKickKeeps == Inv /\ RunKick => Inv'
<1> SUFFICES ASSUME Inv, RunKick PROVE Inv'
  OBVIOUS
<1>1. Running /\ Current.commands # <<>> /\ Done(Rest)
  BY DEF RunKick, Runs
<1>2. Rest \in BatchSet /\ Rest.id = Current.id
  BY <1>1, CommandFacts
<1>3. /\ Bundle(scheduler, live, closing, outside, driving', asked, answered, holders, {})
      /\ ~driving'.queue.blocked
  BY <1>1, <1>2, DoneIsKept
<1>4. PICK c \in live \cap Clients : Disconnect(c, scheduler) \/ Close(c, scheduler)
  BY DEF RunKick
<1>5. HooksAreFree(scheduler, live)
  BY DEF HooksAreFree, FreeHooks
<1>6. {} \ {c} = {} /\ c \notin {} /\ c \in Clients /\ c \in live
  BY <1>4
<1> DEFINE d == driving'
<1>7. Bundle(scheduler, live, closing, outside, d, asked, answered, holders, {})
      /\ ~d.queue.blocked
  BY <1>3
<1>8. driving' = d
  OBVIOUS
<1> HIDE DEF d
<1>9. Bundle(scheduler', live', closing', outside', d, asked, answered, holders, {} \ {c})
  <2>1. CASE Disconnect(c, scheduler)
    BY ONLY <1>5, <1>6, <1>7, <2>1, DisconnectKeeps
  <2>2. CASE Close(c, scheduler)
    BY ONLY <1>5, <1>6, <1>7, <2>2, CloseKeeps
  <2> QED BY <1>4, <2>1, <2>2
<1> QED BY <1>6, <1>8, <1>9 DEF RunKick, Inv

\* The driven queue, or any that is not blocked, is listed nowhere.
LEMMA UnblockedIsUnlisted ==
  ASSUME NEW s, NEW o, NEW d, NEW P, Listing(s, o, d, P), NEW c \in Ids, d.id = c,
         ~d.queue.blocked
  PROVE  Places(s, o, c) = {}
BY DEF Listing, Has, QueueIn

\* Places in tables of which only channels differ
LEMMA PlacesByParts ==
  ASSUME NEW s, NEW o, NEW t, NEW p, NEW c, t.jobs = s.jobs,
         DOMAIN t.eventWaiters = DOMAIN s.eventWaiters,
         DOMAIN t.files = DOMAIN s.files, DOMAIN p = DOMAIN o
  PROVE  /\ WaitsAt(t, c) \subseteq WaitsAt(s, c) /\ LocksAt(t, c) \subseteq LocksAt(s, c)
              => Places(t, p, c) \subseteq Places(s, o, c)
         /\ WaitsAt(t, c) = WaitsAt(s, c) /\ LocksAt(t, c) = LocksAt(s, c)
              => Places(t, p, c) = Places(s, o, c)
         /\ JobsAt(t, c) = JobsAt(s, c)
BY DEF Places, JobsAt

\* The queues in W leave a channel and are woken.
LEMMA ChannelWakes ==
  ASSUME NEW s, NEW lv, NEW cl, NEW o, NEW d, NEW ak, NEW an, NEW h, NEW X,
         Bundle(s, lv, cl, o, d, ak, an, h, X), ~d.queue.blocked,
         NEW n \in Channels, RoomFor(s, n), NEW ch, ch = ChannelOf(s, n),
         NEW dh \in ChannelType, Distinct(dh.waiters), Distinct(dh.lockers),
         NEW W, W \subseteq Ids,
         Range(dh.waiters) \subseteq Range(ch.waiters),
         Range(dh.lockers) \subseteq Range(ch.lockers),
         Range(ch.waiters) \ W \subseteq Range(dh.waiters),
         Range(ch.lockers) \ W \subseteq Range(dh.lockers),
         \A c \in W : \/ c \in Range(ch.waiters) \ Range(dh.waiters)
                      \/ c \in Range(ch.lockers) \ Range(dh.lockers),
         NEW t, t = WithOf(s, n, dh), NEW u, Stirs(t, u, W, {}),
         u.eventWaiters = t.eventWaiters,
         NEW g \in [Channels -> SUBSET Ids], Sound(dh, g[n]),
         \A m \in Channels \ {n} : g[m] = h[m]
  PROVE  Bundle(u, lv, cl, o, d, ak, an, g, X)
<1>1. Tables(s) /\ Listing(s, o, d, lv \ cl) /\ Served(s, h) /\ ListsDistinct(s)
  BY DEF Bundle, Listing
<1>2. /\ Tables(t) /\ t.queues = s.queues /\ t.ready = s.ready
      /\ t.startup = s.startup /\ t.eventWaiters = s.eventWaiters
      /\ t.files = s.files /\ t.jobs = s.jobs
      /\ \A c, m : m \in WaitsAt(t, c) <=> IF m = n THEN c \in Range(dh.waiters)
                                           ELSE m \in WaitsAt(s, c)
      /\ \A c, m : m \in LocksAt(t, c) <=> IF m = n THEN c \in Range(dh.lockers)
                                           ELSE m \in LocksAt(s, c)
      /\ ListsDistinct(t) /\ Served(t, g)
  BY <1>1, ChannelChanges
<1>3. /\ \A c : c \in Range(ch.waiters) <=> n \in WaitsAt(s, c)
      /\ \A c : c \in Range(ch.lockers) <=> n \in LocksAt(s, c)
  BY <1>1, ChannelIsSound
<1>4. /\ u.startup = t.startup /\ u.channels = t.channels /\ u.files = t.files
      /\ u.jobs = t.jobs
  BY DEF Stirs
<1>5. \A c : WaitsAt(u, c) = WaitsAt(t, c) /\ LocksAt(u, c) = LocksAt(t, c)
  BY <1>4 DEF WaitsAt, LocksAt
<1>6. \A c : WaitsAt(u, c) \subseteq WaitsAt(s, c) /\ LocksAt(u, c) \subseteq LocksAt(s, c)
  BY <1>2, <1>3, <1>5
<1>7. \A c \in Ids \ W : WaitsAt(u, c) = WaitsAt(s, c) /\ LocksAt(u, c) = LocksAt(s, c)
  <2> SUFFICES ASSUME NEW c \in Ids \ W
               PROVE  WaitsAt(t, c) = WaitsAt(s, c) /\ LocksAt(t, c) = LocksAt(s, c)
    BY <1>5
  <2>1. /\ c \in Range(dh.waiters) <=> c \in Range(ch.waiters)
        /\ c \in Range(dh.lockers) <=> c \in Range(ch.lockers)
    OBVIOUS
  <2>2. \A m : m \in WaitsAt(t, c) <=> m \in WaitsAt(s, c)
    BY <1>2, <1>3, <2>1
  <2>3. \A m : m \in LocksAt(t, c) <=> m \in LocksAt(s, c)
    BY <1>2, <1>3, <2>1
  <2> QED BY ONLY <2>2, <2>3
<1>8. \A c : Places(u, o, c) \subseteq Places(s, o, c)
  BY <1>2, <1>4, <1>6, PlacesByParts
<1>9. \A c \in Ids \ W : Places(u, o, c) = Places(s, o, c)
  BY <1>2, <1>4, <1>7, PlacesByParts
<1>10. ASSUME NEW c \in W, Has(s, d, c) PROVE Places(u, o, c) = {}
  <2>1. c \in Ids
    OBVIOUS
  <2>2. \E place \in Places(s, o, c) : place \notin Places(u, o, c)
    <3>1. CASE c \in Range(ch.waiters) \ Range(dh.waiters)
      <4>1. n \in WaitsAt(s, c) /\ n \notin WaitsAt(u, c)
        BY <1>2, <1>3, <1>5, <3>1
      <4>2. <<"waiter", n>> \in Places(s, o, c) /\ <<"waiter", n>> \notin Places(u, o, c)
        BY <4>1 DEF Places
      <4> QED BY <4>2
    <3>2. CASE c \in Range(ch.lockers) \ Range(dh.lockers)
      <4>1. n \in LocksAt(s, c) /\ n \notin LocksAt(u, c)
        BY <1>2, <1>3, <1>5, <3>2
      <4>2. <<"locker", n>> \in Places(s, o, c) /\ <<"locker", n>> \notin Places(u, o, c)
        BY <4>1 DEF Places
      <4> QED BY <4>2
    <3> QED BY <3>1, <3>2
  <2>3. OnePlace(Places(s, o, c))
    BY <1>1, <1>10, <2>1, <2>2 DEF Listing
  <2> QED BY <1>8, <2>2, <2>3 DEF OnePlace
<1>11. Rouses(s, u, W, {})
  <2>1. Rouses(t, u, W, {})
    BY StirRouses
  <2> QED BY <1>2, <2>1 DEF Rouses
<1>12. ListsDistinct(u) /\ Served(u, g)
  BY <1>2, <1>4 DEF ListsDistinct, Served
<1>13. Part(u.jobs, s.jobs) /\ Part(u.files, s.files) /\ Part(o, o)
  BY <1>2, <1>4 DEF Part
<1>14. Wakes(s, o, u, o, d, W, {})
  BY <1>8, <1>9, <1>10, <1>11, <1>12, <1>13 DEF Wakes
<1>15. Tables(u)
  <2>1. PartialFunction(u.eventWaiters, Ids, [group : Nat])
    BY <1>2 DEF Tables
  <2> QED BY <1>2, <2>1, StirredTables
<1>16. Bundle(u, lv \cup {}, cl, o, d, ak, an, g, X)
  BY <1>12, <1>14, <1>15, WakeKeeps
<1>17. lv \cup {} = lv
  OBVIOUS
<1> QED BY ONLY <1>16, <1>17

\* A list to which somebody new was appended
LEMMA AppendedList ==
  ASSUME NEW T, NEW list \in Seq(T), NEW c \in T, Distinct(list), c \notin Range(list)
  PROVE  /\ Append(list, c) \in Seq(T) /\ Distinct(Append(list, c))
         /\ Range(Append(list, c)) = Range(list) \cup {c}
<1> DEFINE new == Append(list, c)
           k == Len(list)
<1>1. /\ new \in Seq(T) /\ k \in Nat /\ DOMAIN new = 1..(k + 1)
      /\ new[k + 1] = c /\ \A i \in 1..k : new[i] = list[i]
      /\ DOMAIN list = 1..k
  OBVIOUS
<1> HIDE DEF new, k
<1>2. \A i \in 1..k : list[i] # c
  BY <1>1 DEF Range
<1>3. Distinct(new)
  <2> SUFFICES ASSUME NEW i \in DOMAIN new, NEW j \in DOMAIN new, new[i] = new[j]
               PROVE  i = j
    BY DEF Distinct
  <2>1. CASE i \in 1..k /\ j \in 1..k
    BY <1>1, <2>1 DEF Distinct
  <2>2. CASE i = k + 1 /\ j \in 1..k
    BY <1>1, <1>2, <2>2
  <2>3. CASE j = k + 1 /\ i \in 1..k
    BY <1>1, <1>2, <2>3
  <2>4. CASE i = k + 1 /\ j = k + 1
    BY <2>4
  <2> QED BY <1>1, <2>1, <2>2, <2>3, <2>4
<1>4. Range(new) = Range(list) \cup {c}
  BY RangeOfAppend DEF new
<1> QED BY <1>1, <1>3, <1>4 DEF new

\* A command waits on a channel, or for its lock.
LEMMA EnlistKeeps ==
  ASSUME NEW s, NEW lv, NEW cl, NEW o, NEW d, NEW ak, NEW an, NEW h, NEW X,
         Bundle(s, lv, cl, o, d, ak, an, h, X), MayRun(d, lv \ cl),
         NEW b, Becomes(d, b), NEW e, e = Stopping(RanOf(d, b)),
         NEW n \in Channels, RoomFor(s, n), NEW ch, ch = ChannelOf(s, n),
         NEW dh, Sound(dh, h[n]), dh \in ChannelType,
         \/ dh.waiters = Append(ch.waiters, d.id) /\ dh.lockers = ch.lockers
         \/ dh.lockers = Append(ch.lockers, d.id) /\ dh.waiters = ch.waiters,
         NEW t, t = WithOf(s, n, dh)
  PROVE  Bundle(t, lv, cl, o, e, ak, an, h, X)
<1> DEFINE id == d.id
<1>1. /\ Tables(s) /\ Listing(s, o, d, lv \ cl) /\ Served(s, h) /\ ListsDistinct(s)
      /\ Control(lv, cl, o, d, ak, an, h)
  BY DEF Bundle, Listing
<1>2. id \in Ids /\ ~d.queue.blocked /\ id # None
  <2>1. lv \subseteq Ids
    BY <1>1 DEF Control
  <2> QED BY <2>1 DEF MayRun
<1>3. Places(s, o, id) = {}
  BY <1>1, <1>2, UnblockedIsUnlisted
<1>4. /\ ch \in ChannelType /\ Distinct(ch.waiters) /\ Distinct(ch.lockers)
      /\ \A c : c \in Range(ch.waiters) <=> n \in WaitsAt(s, c)
      /\ \A c : c \in Range(ch.lockers) <=> n \in LocksAt(s, c)
  BY <1>1, ChannelIsSound
<1>5. /\ WaitsAt(s, id) = {} /\ LocksAt(s, id) = {}
      /\ id \notin DOMAIN s.eventWaiters /\ id \notin DOMAIN s.files
      /\ id \notin DOMAIN o /\ JobsAt(s, id) = {}
  <2> HIDE DEF id
  <2>1. \A m : m \in WaitsAt(s, id) => <<"waiter", m>> \in Places(s, o, id)
    BY ONLY TRUE DEF Places
  <2>2. \A m : m \in LocksAt(s, id) => <<"locker", m>> \in Places(s, o, id)
    BY ONLY TRUE DEF Places
  <2>3. \A m : m \in JobsAt(s, id) => <<"job", m>> \in Places(s, o, id)
    BY ONLY TRUE DEF Places
  <2>4. /\ id \in DOMAIN s.eventWaiters => <<"event", id>> \in Places(s, o, id)
        /\ id \in DOMAIN s.files => <<"file", id>> \in Places(s, o, id)
        /\ id \in DOMAIN o => <<"outside", id>> \in Places(s, o, id)
    BY ONLY TRUE DEF Places
  <2> QED BY ONLY <1>3, <2>1, <2>2, <2>3, <2>4
<1>6. id \notin Range(ch.waiters) /\ id \notin Range(ch.lockers)
  BY <1>4, <1>5
<1>7. ch.waiters \in Seq(Ids) /\ ch.lockers \in Seq(Ids)
  BY <1>4 DEF ChannelType
<1>8. /\ Range(Append(ch.waiters, id)) = Range(ch.waiters) \cup {id}
      /\ Distinct(Append(ch.waiters, id))
      /\ Range(Append(ch.lockers, id)) = Range(ch.lockers) \cup {id}
      /\ Distinct(Append(ch.lockers, id))
  <2> HIDE DEF id
  <2> QED BY ONLY <1>2, <1>4, <1>6, <1>7, AppendedList
<1>9. Distinct(dh.waiters) /\ Distinct(dh.lockers)
  BY <1>4, <1>8
<1>10. /\ Tables(t) /\ t.queues = s.queues /\ t.ready = s.ready
       /\ t.startup = s.startup /\ t.eventWaiters = s.eventWaiters
       /\ t.files = s.files /\ t.jobs = s.jobs
       /\ \A c, m : m \in WaitsAt(t, c) <=> IF m = n THEN c \in Range(dh.waiters)
                                            ELSE m \in WaitsAt(s, c)
       /\ \A c, m : m \in LocksAt(t, c) <=> IF m = n THEN c \in Range(dh.lockers)
                                            ELSE m \in LocksAt(s, c)
       /\ ListsDistinct(t) /\ Served(t, h)
  BY <1>1, <1>9, ChannelChanges
<1> HIDE DEF id
<1>11. \A c \in Ids \ {id} : Places(t, o, c) = Places(s, o, c)
  <2> SUFFICES ASSUME NEW c \in Ids \ {id} PROVE Places(t, o, c) = Places(s, o, c)
    OBVIOUS
  <2>1. /\ c \in Range(dh.waiters) <=> c \in Range(ch.waiters)
        /\ c \in Range(dh.lockers) <=> c \in Range(ch.lockers)
    BY <1>8 DEF id
  <2>2. \A m : m \in WaitsAt(t, c) <=> m \in WaitsAt(s, c)
    BY <1>4, <1>10, <2>1
  <2>3. \A m : m \in LocksAt(t, c) <=> m \in LocksAt(s, c)
    BY <1>4, <1>10, <2>1
  <2>4. WaitsAt(t, c) = WaitsAt(s, c) /\ LocksAt(t, c) = LocksAt(s, c)
    BY ONLY <2>2, <2>3
  <2> QED BY <1>10, <2>4, PlacesByParts
<1>12. OnePlace(Places(t, o, id))
  <2>1. JobsAt(t, id) = {}
    BY <1>5, <1>10 DEF JobsAt
  <2>2. CASE dh.waiters = Append(ch.waiters, id) /\ dh.lockers = ch.lockers
    <3>1. WaitsAt(t, id) = {n} /\ LocksAt(t, id) = {}
      <4>1. id \in Range(dh.waiters) /\ id \notin Range(dh.lockers)
        BY <1>6, <1>8, <2>2
      <4>2. \A m : m \in WaitsAt(t, id) <=> m = n
        BY <1>5, <1>10, <4>1
      <4>3. \A m : m \notin LocksAt(t, id)
        BY <1>5, <1>10, <4>1
      <4> QED BY ONLY <4>2, <4>3
    <3>2. Places(t, o, id) = {<<"waiter", n>>}
      BY <1>5, <1>10, <2>1, <3>1 DEF Places
    <3> QED BY <3>2 DEF OnePlace
  <2>3. CASE dh.lockers = Append(ch.lockers, id) /\ dh.waiters = ch.waiters
    <3>1. LocksAt(t, id) = {n} /\ WaitsAt(t, id) = {}
      <4>1. id \in Range(dh.lockers) /\ id \notin Range(dh.waiters)
        BY <1>6, <1>8, <2>3
      <4>2. \A m : m \in LocksAt(t, id) <=> m = n
        BY <1>5, <1>10, <4>1
      <4>3. \A m : m \notin WaitsAt(t, id)
        BY <1>5, <1>10, <4>1
      <4> QED BY ONLY <4>2, <4>3
    <3>2. Places(t, o, id) = {<<"locker", n>>}
      BY <1>5, <1>10, <2>1, <3>1 DEF Places
    <3> QED BY <3>2 DEF OnePlace
  <2> QED BY <2>2, <2>3 DEF id
<1>13. Lists(s, o, t, o, d.id, d.queue.pending[1].id)
  BY <1>10, <1>11, <1>12 DEF Lists, Entered, id
<1>14. PartialFunction(o, Ids, [kind : {"pane", "stdin"}, group : Nat, batch : Nat])
  BY <1>1 DEF Control
<1> QED BY <1>10, <1>13, <1>14, WaitKeeps

\* The channel a command names
LEMMA ItsChannel ==
  ASSUME NEW kind, NEW n, RunsOn(kind, n)
  PROVE  /\ Running /\ Current.commands # <<>> /\ RoomFor(scheduler, n)
         /\ Channel(n) = ChannelOf(scheduler, n)
         /\ \A ch : With(n, ch) = WithOf(scheduler, n, ch)
BY DEF RunsOn, Runs, RoomFor, Channel, ChannelOf, With, WithOf

\* Commands on a channel
LEMMA OnChannel ==
  ASSUME Inv, Running, Current.commands # <<>>, NEW n \in Channels,
         RoomFor(scheduler, n), NEW ch, ch = ChannelOf(scheduler, n)
  PROVE  /\ ch \in ChannelType /\ Sound(ch, holders[n])
         /\ ch.waiters \in Seq(Ids) /\ ch.lockers \in Seq(Ids)
         /\ Distinct(ch.waiters) /\ Distinct(ch.lockers)
         /\ MayRun(driving, live \ closing) /\ Becomes(driving, Rest)
         /\ Rest \in BatchSet /\ Rest.id = Current.id
         /\ Bundle(scheduler, live, closing, outside, driving, asked, answered, holders, {})
         /\ Tables(scheduler) /\ ~driving.queue.blocked
         /\ driving.id \in Ids /\ holders \in [Channels -> SUBSET Ids]
<1>1. Running /\ Current.commands # <<>> /\ RoomFor(scheduler, n)
  OBVIOUS
<1>2. Bundle(scheduler, live, closing, outside, driving, asked, answered, holders, {})
  BY DEF Inv
<1>3. Tables(scheduler) /\ Served(scheduler, holders) /\ ListsDistinct(scheduler)
      /\ holders \in [Channels -> SUBSET Ids]
  BY <1>2 DEF Bundle, Listing, Control
<1>4. ch = ChannelOf(scheduler, n)
  OBVIOUS
<1>5. /\ ch \in ChannelType /\ Sound(ch, holders[n])
      /\ Distinct(ch.waiters) /\ Distinct(ch.lockers)
  BY <1>3, <1>4, ChannelIsSound
<1>6. ch.waiters \in Seq(Ids) /\ ch.lockers \in Seq(Ids)
  BY <1>5 DEF ChannelType
<1>7. /\ MayRun(driving, live \ closing) /\ Current = driving.queue.pending[1]
      /\ driving.id \in Ids
  BY <1>1, Driven
<1>8. Rest \in BatchSet /\ Rest.id = Current.id
  BY <1>1, CommandFacts
<1>9. Becomes(driving, Rest) /\ ~driving.queue.blocked
  BY <1>7, <1>8 DEF Becomes, MayRun
<1> QED BY <1>1, <1>2, <1>3, <1>4, <1>5, <1>6, <1>7, <1>8, <1>9

\* The fields of a channel
LEMMA ChannelFields ==
  ASSUME NEW ch \in ChannelType
  PROVE  /\ ch.woken \in BOOLEAN /\ ch.locked \in BOOLEAN
         /\ ch.waiters \in Seq(Ids) /\ ch.lockers \in Seq(Ids)
         /\ ch = [woken |-> ch.woken, locked |-> ch.locked, waiters |-> ch.waiters,
                  lockers |-> ch.lockers]
BY DEF ChannelType

\* Assigning one of them: the waiters,
LEMMA SetWaiters ==
  ASSUME NEW ch \in ChannelType, NEW list \in Seq(Ids), NEW dh,
         dh = [ch EXCEPT !.waiters = list]
  PROVE  /\ dh \in ChannelType /\ dh.waiters = list /\ dh.lockers = ch.lockers
         /\ dh.woken = ch.woken /\ dh.locked = ch.locked
BY DEF ChannelType

\* those who queue for the lock,
LEMMA SetLockers ==
  ASSUME NEW ch \in ChannelType, NEW list \in Seq(Ids), NEW dh,
         dh = [ch EXCEPT !.lockers = list]
  PROVE  /\ dh \in ChannelType /\ dh.lockers = list /\ dh.waiters = ch.waiters
         /\ dh.woken = ch.woken /\ dh.locked = ch.locked
BY DEF ChannelType

\* the lock,
LEMMA SetLocked ==
  ASSUME NEW ch \in ChannelType, NEW v \in BOOLEAN, NEW dh,
         dh = [ch EXCEPT !.locked = v]
  PROVE  /\ dh \in ChannelType /\ dh.lockers = ch.lockers /\ dh.waiters = ch.waiters
         /\ dh.woken = ch.woken /\ (dh.locked <=> v)
BY DEF ChannelType

\* and the wake-up that is kept.
LEMMA SetWoken ==
  ASSUME NEW ch \in ChannelType, NEW v \in BOOLEAN, NEW dh,
         dh = [ch EXCEPT !.woken = v]
  PROVE  /\ dh \in ChannelType /\ dh.lockers = ch.lockers /\ dh.waiters = ch.waiters
         /\ (dh.woken <=> v) /\ dh.locked = ch.locked
BY DEF ChannelType

\* A wake-up is consumed.
LEMMA Consumed ==
  ASSUME NEW ch \in ChannelType, NEW dh, dh = Consume(ch)
  PROVE  /\ dh \in ChannelType /\ dh.lockers = ch.lockers /\ dh.waiters = ch.waiters
         /\ dh.woken => ch.woken
         /\ dh.locked = ch.locked
BY DEF Consume, ChannelType

\* Nobody is in the empty list.
LEMMA EmptyList == Range(<<>>) = {} /\ Distinct(<<>>) /\ <<>> \in Seq(Ids)
BY DEF Range, Distinct

\* Only the holder of n changes.
Elsewhere(g, h, n) == /\ g \in [Channels -> SUBSET Ids]
                      /\ \A m \in Channels \ {n} : g[m] = h[m]

\* A channel changes, and the lists of it do not.
LEMMA ChannelKeeps ==
  ASSUME NEW s, NEW lv, NEW cl, NEW o, NEW d, NEW ak, NEW an, NEW h, NEW X,
         Bundle(s, lv, cl, o, d, ak, an, h, X), ~d.queue.blocked,
         NEW n \in Channels, RoomFor(s, n), NEW ch, ch = ChannelOf(s, n),
         NEW dh, dh \in ChannelType, dh.waiters = ch.waiters, dh.lockers = ch.lockers,
         NEW t, t = WithOf(s, n, dh),
         NEW g, Sound(dh, g[n]), Elsewhere(g, h, n)
  PROVE  Bundle(t, lv, cl, o, d, ak, an, g, X)
<1>1. Tables(s) /\ ListsDistinct(s) /\ Served(s, h)
  BY DEF Bundle, Listing
<1>2. Distinct(ch.waiters) /\ Distinct(ch.lockers)
  BY <1>1, ChannelIsSound
<1>3. Tables(t)
  BY <1>1, ChannelChanges
<1>4. Stirs(t, t, {}, {})
  BY <1>3, NothingStirs
<1> DEFINE W == {}
<1>5. /\ Distinct(dh.waiters) /\ Distinct(dh.lockers) /\ W \subseteq Ids
      /\ Range(dh.waiters) \subseteq Range(ch.waiters)
      /\ Range(dh.lockers) \subseteq Range(ch.lockers)
      /\ Range(ch.waiters) \ W \subseteq Range(dh.waiters)
      /\ Range(ch.lockers) \ W \subseteq Range(dh.lockers)
      /\ \A c \in W : \/ c \in Range(ch.waiters) \ Range(dh.waiters)
                      \/ c \in Range(ch.lockers) \ Range(dh.lockers)
      /\ Stirs(t, t, W, {})
  BY <1>2, <1>4
<1>6. g \in [Channels -> SUBSET Ids] /\ \A m \in Channels \ {n} : g[m] = h[m]
  BY DEF Elsewhere
<1> HIDE DEF W
<1> QED BY <1>5, <1>6, ChannelWakes

\* wait-for: the queue waits, or consumes a wake-up that was kept.
LEMMA RunWaitKeeps == ASSUME NEW n \in Channels PROVE Inv /\ RunWait(n) => Inv'
<1> SUFFICES ASSUME Inv, RunWait(n) PROVE Inv'
  OBVIOUS
<1> DEFINE ch == Channel(n)
<1>1. /\ Running /\ Current.commands # <<>> /\ RoomFor(scheduler, n)
      /\ ch = ChannelOf(scheduler, n)
      /\ \A x : With(n, x) = WithOf(scheduler, n, x)
  BY ItsChannel DEF RunWait
<1>2. /\ ch.woken => scheduler' = With(n, Consume(ch)) /\ Done(Rest)
      /\ ~ch.woken => /\ scheduler' = With(n, [ch EXCEPT !.waiters = Append(@, driving.id)])
                      /\ Waits(Rest)
  BY DEF RunWait
<1> HIDE DEF ch
<1>3. /\ ch \in ChannelType /\ Sound(ch, holders[n])
      /\ ch.waiters \in Seq(Ids) /\ ch.lockers \in Seq(Ids)
      /\ Distinct(ch.waiters) /\ Distinct(ch.lockers)
      /\ MayRun(driving, live \ closing) /\ Becomes(driving, Rest)
      /\ Rest \in BatchSet /\ Rest.id = Current.id
      /\ Bundle(scheduler, live, closing, outside, driving, asked, answered, holders, {})
      /\ driving.id \in Ids /\ holders \in [Channels -> SUBSET Ids]
  BY <1>1, OnChannel
<1>4. Bundle(scheduler', live, closing, outside, driving', asked, answered, holders, {})
  <2>1. CASE ch.woken
    <3> DEFINE dh == Consume(ch)
    <3>1. /\ Bundle(scheduler, live, closing, outside, driving', asked, answered, holders, {})
          /\ ~driving'.queue.blocked
      BY <1>1, <1>2, <1>3, <2>1, DoneIsKept
    <3>2. /\ dh \in ChannelType /\ dh.lockers = ch.lockers /\ dh.waiters = ch.waiters
          /\ dh.woken => ch.woken
          /\ dh.locked = ch.locked
      BY <1>3, Consumed
    <3>3. scheduler' = WithOf(scheduler, n, dh)
      BY <1>1, <1>2, <2>1
    <3> HIDE DEF dh
    <3>4. Sound(dh, holders[n])
      BY <1>3, <3>2 DEF Sound
    <3> DEFINE d == driving'
               t == scheduler'
    <3>5. /\ Bundle(scheduler, live, closing, outside, d, asked, answered, holders, {})
          /\ ~d.queue.blocked /\ t = WithOf(scheduler, n, dh)
      BY <3>1, <3>3
    <3>6. Elsewhere(holders, holders, n)
      BY <1>3 DEF Elsewhere
    <3> HIDE DEF d, t
    <3>7. Bundle(t, live, closing, outside, d, asked, answered, holders, {})
      BY ONLY <1>1, <1>3, <3>2, <3>4, <3>5, <3>6, n \in Channels, ChannelKeeps
    <3> QED BY <3>7 DEF d, t
  <2>2. CASE ~ch.woken
    <3> DEFINE list == Append(ch.waiters, driving.id)
               dh == [ch EXCEPT !.waiters = list]
    <3>1. scheduler' = WithOf(scheduler, n, dh) /\ driving' = Stopping(RanOf(driving, Rest))
      BY <1>1, <1>2, <2>2 DEF Waits, Ran, RanOf, Stopping
    <3>2. list \in Seq(Ids)
      BY <1>3
    <3>3. list = Append(ch.waiters, driving.id) /\ dh = [ch EXCEPT !.waiters = list]
      OBVIOUS
    <3> HIDE DEF list, dh
    <3>4. /\ dh \in ChannelType /\ dh.waiters = list /\ dh.lockers = ch.lockers
          /\ dh.woken = ch.woken /\ dh.locked = ch.locked
      <4>1. ch \in ChannelType /\ list \in Seq(Ids) /\ dh = [ch EXCEPT !.waiters = list]
        BY <1>3, <3>2, <3>3
      <4> QED BY ONLY <4>1 DEF ChannelType
    <3>5. Sound(dh, holders[n])
      BY <1>3, <2>2, <3>4 DEF Sound
    <3>6. dh.waiters = Append(ch.waiters, driving.id) /\ dh.lockers = ch.lockers
      BY <3>3, <3>4
    <3> QED BY ONLY <1>1, <1>3, <3>1, <3>4, <3>5, <3>6, n \in Channels, EnlistKeeps
  <2> QED BY <2>1, <2>2
<1> QED BY <1>4 DEF RunWait, Inv

\* What a command that is done finds on its channel
LEMMA AtChannel ==
  ASSUME Inv, NEW kind, NEW n \in Channels, RunsOn(kind, n), NEW ch, ch = Channel(n),
         Done(Rest)
  PROVE  /\ RoomFor(scheduler, n) /\ ch = ChannelOf(scheduler, n)
         /\ ch \in ChannelType /\ Sound(ch, holders[n])
         /\ ch.waiters \in Seq(Ids) /\ ch.lockers \in Seq(Ids)
         /\ Distinct(ch.waiters) /\ Distinct(ch.lockers)
         /\ driving.id \in Ids /\ holders \in [Channels -> SUBSET Ids]
         /\ Tables(scheduler)
         /\ Bundle(scheduler, live, closing, outside, driving', asked, answered, holders, {})
         /\ ~driving'.queue.blocked
         /\ \A x : With(n, x) = WithOf(scheduler, n, x)
<1>1. /\ Running /\ Current.commands # <<>> /\ RoomFor(scheduler, n)
      /\ Channel(n) = ChannelOf(scheduler, n)
      /\ \A x : With(n, x) = WithOf(scheduler, n, x)
  BY ItsChannel
<1>2. /\ ch \in ChannelType /\ Sound(ch, holders[n])
      /\ ch.waiters \in Seq(Ids) /\ ch.lockers \in Seq(Ids)
      /\ Distinct(ch.waiters) /\ Distinct(ch.lockers)
      /\ Rest \in BatchSet /\ Rest.id = Current.id
      /\ driving.id \in Ids /\ holders \in [Channels -> SUBSET Ids]
      /\ Tables(scheduler)
  BY <1>1, OnChannel
<1>3. /\ Bundle(scheduler, live, closing, outside, driving', asked, answered, holders, {})
      /\ ~driving'.queue.blocked
  BY <1>1, <1>2, DoneIsKept
<1> QED BY <1>1, <1>2, <1>3

\* wait-for -S: all that wait on the channel are woken, or the wake-up is kept.
LEMMA RunSignalKeeps == ASSUME NEW n \in Channels PROVE Inv /\ RunSignal(n) => Inv'
<1> SUFFICES ASSUME Inv, RunSignal(n) PROVE Inv'
  OBVIOUS
<1> DEFINE ch == Channel(n)
           d == driving'
<1>1. /\ RoomFor(scheduler, n) /\ ch = ChannelOf(scheduler, n)
      /\ ch \in ChannelType /\ Sound(ch, holders[n])
      /\ ch.waiters \in Seq(Ids) /\ ch.lockers \in Seq(Ids)
      /\ Distinct(ch.waiters) /\ Distinct(ch.lockers)
      /\ holders \in [Channels -> SUBSET Ids] /\ Tables(scheduler)
      /\ Bundle(scheduler, live, closing, outside, d, asked, answered, holders, {})
      /\ ~d.queue.blocked
      /\ \A x : With(n, x) = WithOf(scheduler, n, x)
  BY AtChannel DEF RunSignal
<1> DEFINE quiet == ch.waiters = <<>> /\ ~ch.woken
           one == [ch EXCEPT !.woken = TRUE]
           list == <<>>
           two == [ch EXCEPT !.waiters = list]
           three == Consume(two)
<1>2. /\ quiet => scheduler' = With(n, one)
      /\ ~quiet => scheduler' = UnblockAll(With(n, three), ch.waiters)
  BY DEF RunSignal
<1>3. Elsewhere(holders, holders, n)
  BY <1>1 DEF Elsewhere
<1> HIDE DEF ch, d
<1>4. Bundle(scheduler', live, closing, outside, d, asked, answered, holders, {})
  <2>1. CASE quiet
    <3>1. /\ one \in ChannelType /\ one.lockers = ch.lockers /\ one.waiters = ch.waiters
          /\ one.locked = ch.locked
      <4>1. ch \in ChannelType
        BY <1>1
      <4> QED BY ONLY <4>1 DEF ChannelType
    <3>2. Sound(one, holders[n])
      <4>1. ch.waiters = <<>>
        BY <2>1
      <4> HIDE DEF one
      <4> QED BY <1>1, <3>1, <4>1 DEF Sound
    <3> DEFINE t == WithOf(scheduler, n, one)
    <3>3. scheduler' = t /\ t = WithOf(scheduler, n, one)
      BY <1>1, <1>2, <2>1
    <3> HIDE DEF one, t
    <3>4. Bundle(t, live, closing, outside, d, asked, answered, holders, {})
      BY ONLY <1>1, <1>3, <3>1, <3>2, <3>3, n \in Channels, ChannelKeeps
    <3> QED BY <3>3, <3>4
  <2>2. CASE ~quiet
    <3>1. list \in Seq(Ids) /\ Range(list) = {} /\ Distinct(list)
      BY EmptyList
    <3>2. /\ two \in ChannelType /\ two.waiters = list /\ two.lockers = ch.lockers
          /\ two.woken = ch.woken /\ two.locked = ch.locked
      <4>1. ch \in ChannelType /\ <<>> \in Seq(Ids)
        BY <1>1, EmptyList
      <4> QED BY ONLY <4>1 DEF ChannelType
    <3>3. two.waiters = <<>>
      BY <3>2
    <3> HIDE DEF two, list
    <3>4. /\ three \in ChannelType /\ three.lockers = two.lockers
          /\ three.waiters = two.waiters /\ three.locked = two.locked
      BY <3>2, Consumed
    <3> HIDE DEF three
    <3>5. Sound(three, holders[n])
      BY <1>1, <3>2, <3>3, <3>4 DEF Sound
    <3> DEFINE t == WithOf(scheduler, n, three)
               cs == ch.waiters
               W == Range(cs)
               u == UnblockAll(t, cs)
    <3>6. scheduler' = u /\ t = WithOf(scheduler, n, three)
      BY <1>1, <1>2, <2>2
    <3>7. cs \in Seq(Ids) /\ cs = ch.waiters
      BY <1>1
    <3> HIDE DEF t
    <3>8. Tables(t)
      BY <1>1, <3>4, <3>6, ChannelChanges
    <3> HIDE DEF cs
    <3>9. Stirs(t, u, W, {}) /\ u.eventWaiters = t.eventWaiters
      BY <3>7, <3>8, UnblockAllWakes
    <3>10. W \subseteq Ids
      BY <3>7 DEF Range
    <3>11. /\ Range(three.waiters) = {} /\ Range(three.lockers) = Range(ch.lockers)
           /\ Range(ch.waiters) = W
           /\ Distinct(three.waiters) /\ Distinct(three.lockers)
      BY <1>1, <3>1, <3>2, <3>4, <3>7
    <3> HIDE DEF u, W
    <3>12. /\ Range(three.waiters) \subseteq Range(ch.waiters)
           /\ Range(three.lockers) \subseteq Range(ch.lockers)
           /\ Range(ch.waiters) \ W \subseteq Range(three.waiters)
           /\ Range(ch.lockers) \ W \subseteq Range(three.lockers)
           /\ \A c \in W : \/ c \in Range(ch.waiters) \ Range(three.waiters)
                           \/ c \in Range(ch.lockers) \ Range(three.lockers)
      BY <3>11
    <3>13. holders \in [Channels -> SUBSET Ids] /\ \A m \in Channels \ {n} : holders[m] = holders[m]
      BY <1>1
    <3>14. Bundle(u, live, closing, outside, d, asked, answered, holders, {})
      BY ONLY <1>1, <3>4, <3>5, <3>6, <3>9, <3>10, <3>11, <3>12, <3>13, n \in Channels, ChannelWakes
    <3> QED BY <3>6, <3>14
  <2> QED BY <2>1, <2>2
<1> QED BY <1>4 DEF RunSignal, Inv, d

\* wait-for -L: the queue has the lock, or queues for it.
LEMMA RunLockKeeps == ASSUME NEW n \in Channels PROVE Inv /\ RunLock(n) => Inv'
<1> SUFFICES ASSUME Inv, RunLock(n) PROVE Inv'
  OBVIOUS
<1> DEFINE ch == Channel(n)
<1>1. /\ Running /\ Current.commands # <<>> /\ RoomFor(scheduler, n)
      /\ ch = ChannelOf(scheduler, n)
      /\ \A x : With(n, x) = WithOf(scheduler, n, x)
  BY ItsChannel DEF RunLock
<1>2. /\ ch.locked => /\ scheduler' = With(n, [ch EXCEPT !.lockers = Append(@, driving.id)])
                      /\ Waits(Rest) /\ holders' = holders
      /\ ~ch.locked => /\ scheduler' = With(n, [ch EXCEPT !.locked = TRUE])
                       /\ Done(Rest)
                       /\ holders' = [holders EXCEPT ![n] = @ \cup {driving.id}]
  BY DEF RunLock
<1> HIDE DEF ch
<1>3. /\ ch \in ChannelType /\ Sound(ch, holders[n])
      /\ ch.waiters \in Seq(Ids) /\ ch.lockers \in Seq(Ids)
      /\ Distinct(ch.waiters) /\ Distinct(ch.lockers)
      /\ MayRun(driving, live \ closing) /\ Becomes(driving, Rest)
      /\ Rest \in BatchSet /\ Rest.id = Current.id
      /\ Bundle(scheduler, live, closing, outside, driving, asked, answered, holders, {})
      /\ driving.id \in Ids /\ holders \in [Channels -> SUBSET Ids]
  BY <1>1, OnChannel
<1>4. Bundle(scheduler', live, closing, outside, driving', asked, answered, holders', {})
  <2>1. CASE ~ch.locked
    <3> DEFINE dh == [ch EXCEPT !.locked = TRUE]
               g == [holders EXCEPT ![n] = @ \cup {driving.id}]
               t == WithOf(scheduler, n, dh)
               d == driving'
    <3>1. Bundle(scheduler, live, closing, outside, d, asked, answered, holders, {})
          /\ ~d.queue.blocked
      BY <1>1, <1>2, <1>3, <2>1, DoneIsKept
    <3>2. /\ dh \in ChannelType /\ dh.lockers = ch.lockers /\ dh.waiters = ch.waiters
          /\ dh.woken = ch.woken /\ dh.locked
      <4>1. ch \in ChannelType
        BY <1>3
      <4> QED BY ONLY <4>1 DEF ChannelType
    <3>3. holders[n] = {}
      BY <1>3, <2>1 DEF Sound
    <3>4. g[n] = {driving.id} /\ Elsewhere(g, holders, n)
      BY <1>3, <3>3 DEF Elsewhere
    <3>5. scheduler' = t /\ t = WithOf(scheduler, n, dh) /\ holders' = g
      BY <1>1, <1>2, <2>1
    <3> HIDE DEF dh, g, t, d
    <3>6. Sound(dh, g[n])
      BY <1>3, <3>2, <3>4 DEF Sound, OnePlace
    <3>7. Bundle(t, live, closing, outside, d, asked, answered, g, {})
      BY ONLY <1>1, <3>1, <3>2, <3>4, <3>5, <3>6, n \in Channels, ChannelKeeps
    <3> QED BY <3>5, <3>7 DEF d
  <2>2. CASE ch.locked
    <3> DEFINE list == Append(ch.lockers, driving.id)
               dh == [ch EXCEPT !.lockers = list]
    <3>1. scheduler' = WithOf(scheduler, n, dh) /\ driving' = Stopping(RanOf(driving, Rest))
          /\ holders' = holders
      BY <1>1, <1>2, <2>2 DEF Waits, Ran, RanOf, Stopping
    <3>2. list \in Seq(Ids)
      BY <1>3
    <3>3. list = Append(ch.lockers, driving.id) /\ dh = [ch EXCEPT !.lockers = list]
      OBVIOUS
    <3> HIDE DEF list, dh
    <3>4. /\ dh \in ChannelType /\ dh.lockers = list /\ dh.waiters = ch.waiters
          /\ dh.woken = ch.woken /\ dh.locked = ch.locked
      <4>1. ch \in ChannelType /\ list \in Seq(Ids) /\ dh = [ch EXCEPT !.lockers = list]
        BY <1>3, <3>2, <3>3
      <4> QED BY ONLY <4>1 DEF ChannelType
    <3>5. Sound(dh, holders[n])
      BY <1>3, <2>2, <3>4 DEF Sound
    <3>6. dh.lockers = Append(ch.lockers, driving.id) /\ dh.waiters = ch.waiters
      BY <3>3, <3>4
    <3>7. Bundle(scheduler', live, closing, outside, driving', asked, answered, holders, {})
      BY ONLY <1>1, <1>3, <3>1, <3>4, <3>5, <3>6, n \in Channels, EnlistKeeps
    <3> QED BY <3>1, <3>7
  <2> QED BY <2>1, <2>2
<1> QED BY <1>4 DEF RunLock, Inv

\* One queue leaves a channel and is woken.
LEMMA ChannelWakesOne ==
  ASSUME NEW s, NEW lv, NEW cl, NEW o, NEW d, NEW ak, NEW an, NEW h, NEW X,
         Bundle(s, lv, cl, o, d, ak, an, h, X), ~d.queue.blocked,
         NEW n \in Channels, RoomFor(s, n), NEW ch, ch = ChannelOf(s, n),
         NEW dh, dh \in ChannelType, Distinct(dh.waiters), Distinct(dh.lockers),
         NEW c \in Ids,
         \/ /\ c \in Range(ch.waiters) /\ Range(dh.waiters) = Range(ch.waiters) \ {c}
            /\ dh.lockers = ch.lockers
         \/ /\ c \in Range(ch.lockers) /\ Range(dh.lockers) = Range(ch.lockers) \ {c}
            /\ dh.waiters = ch.waiters,
         NEW t, t = WithOf(s, n, dh),
         NEW g, Sound(dh, g[n]), Elsewhere(g, h, n)
  PROVE  Bundle(Unblock(t, c), lv, cl, o, d, ak, an, g, X)
<1> DEFINE u == Unblock(t, c)
           W == {c}
<1>1. Tables(s) /\ ListsDistinct(s) /\ Served(s, h)
  BY DEF Bundle, Listing
<1>2. Tables(t)
  BY <1>1, ChannelChanges
<1>3. Stirs(t, u, W, {}) /\ u.eventWaiters = t.eventWaiters
  BY <1>2, UnblockWakes
<1>4. /\ W \subseteq Ids
      /\ Range(dh.waiters) \subseteq Range(ch.waiters)
      /\ Range(dh.lockers) \subseteq Range(ch.lockers)
      /\ Range(ch.waiters) \ W \subseteq Range(dh.waiters)
      /\ Range(ch.lockers) \ W \subseteq Range(dh.lockers)
  OBVIOUS
<1>5. \A x \in W : \/ x \in Range(ch.waiters) \ Range(dh.waiters)
                   \/ x \in Range(ch.lockers) \ Range(dh.lockers)
  OBVIOUS
<1>6. g \in [Channels -> SUBSET Ids] /\ \A m \in Channels \ {n} : g[m] = h[m]
  BY DEF Elsewhere
<1> HIDE DEF u, W
<1> QED BY <1>3, <1>4, <1>5, <1>6, ChannelWakes DEF u

\* wait-for -U: the lock goes to the next one, or is free.
LEMMA RunUnlockKeeps == ASSUME NEW n \in Channels PROVE Inv /\ RunUnlock(n) => Inv'
<1> SUFFICES ASSUME Inv, RunUnlock(n) PROVE Inv'
  OBVIOUS
<1> DEFINE ch == Channel(n)
           d == driving'
<1>1. /\ RoomFor(scheduler, n) /\ ch = ChannelOf(scheduler, n)
      /\ ch \in ChannelType /\ Sound(ch, holders[n])
      /\ ch.waiters \in Seq(Ids) /\ ch.lockers \in Seq(Ids)
      /\ Distinct(ch.waiters) /\ Distinct(ch.lockers)
      /\ holders \in [Channels -> SUBSET Ids] /\ Tables(scheduler)
      /\ Bundle(scheduler, live, closing, outside, d, asked, answered, holders, {})
      /\ ~d.queue.blocked
      /\ \A x : With(n, x) = WithOf(scheduler, n, x)
  BY AtChannel DEF RunUnlock
<1> DEFINE list == Tail(ch.lockers)
           next == Head(ch.lockers)
           one == [ch EXCEPT !.lockers = list]
           two == [ch EXCEPT !.locked = FALSE]
           three == Consume(two)
           g1 == [holders EXCEPT ![n] = {next}]
           g2 == [holders EXCEPT ![n] = {}]
<1>2. /\ ch.lockers # <<>> => scheduler' = Unblock(With(n, one), next) /\ holders' = g1
      /\ ch.lockers = <<>> => scheduler' = With(n, three) /\ holders' = g2
      /\ ch.locked
  BY DEF RunUnlock
<1>3. Elsewhere(g2, holders, n) /\ g2[n] = {}
  BY <1>1 DEF Elsewhere
<1>4. next \in Ids => Elsewhere(g1, holders, n) /\ g1[n] = {next}
  BY <1>1 DEF Elsewhere
<1> HIDE DEF ch, d, g1, g2
<1>5. Bundle(scheduler', live, closing, outside, d, asked, answered, holders', {})
  <2>1. CASE ch.lockers # <<>>
    <3>1. /\ list \in Seq(Ids) /\ next \in Ids
          /\ Range(ch.lockers) = {next} \cup Range(list)
          /\ Distinct(list) /\ next \notin Range(list)
      BY <1>1, <2>1, RangeOfTail
    <3>2. /\ one \in ChannelType /\ one.lockers = list /\ one.waiters = ch.waiters
          /\ one.woken = ch.woken /\ one.locked = ch.locked
      <4>1. ch \in ChannelType /\ list \in Seq(Ids)
        BY <1>1, <3>1
      <4> HIDE DEF list
      <4> QED BY ONLY <4>1 DEF ChannelType
    <3> DEFINE t == WithOf(scheduler, n, one)
    <3>3. scheduler' = Unblock(t, next) /\ t = WithOf(scheduler, n, one) /\ holders' = g1
      BY <1>1, <1>2, <2>1
    <3> HIDE DEF t, one, list, next
    <3>4. Elsewhere(g1, holders, n) /\ g1[n] = {next}
      BY <1>4, <3>1
    <3>5. Sound(one, g1[n])
      BY <1>1, <1>2, <3>2, <3>4 DEF Sound, OnePlace
    <3>6. /\ next \in Range(ch.lockers) /\ Range(one.lockers) = Range(ch.lockers) \ {next}
          /\ one.waiters = ch.waiters
          /\ Distinct(one.lockers) /\ Distinct(one.waiters)
      BY <1>1, <3>1, <3>2
    <3>7. Bundle(Unblock(t, next), live, closing, outside, d, asked, answered, g1, {})
      BY ONLY <1>1, <3>1, <3>2, <3>3, <3>4, <3>5, <3>6, n \in Channels, ChannelWakesOne
    <3> QED BY <3>3, <3>7
  <2>2. CASE ch.lockers = <<>>
    <3>1. /\ two \in ChannelType /\ two.lockers = ch.lockers /\ two.waiters = ch.waiters
          /\ two.woken = ch.woken /\ ~two.locked
      <4>1. ch \in ChannelType
        BY <1>1
      <4> QED BY ONLY <4>1 DEF ChannelType
    <3> HIDE DEF two
    <3>2. /\ three \in ChannelType /\ three.lockers = two.lockers
          /\ three.waiters = two.waiters /\ three.locked = two.locked
          /\ three.woken => two.woken
      BY <3>1, Consumed
    <3> DEFINE t == WithOf(scheduler, n, three)
    <3>3. scheduler' = t /\ t = WithOf(scheduler, n, three) /\ holders' = g2
      BY <1>1, <1>2, <2>2
    <3> HIDE DEF t, three
    <3>4. Sound(three, g2[n])
      BY <1>1, <1>3, <2>2, <3>1, <3>2 DEF Sound
    <3>5. three.lockers = ch.lockers /\ three.waiters = ch.waiters
      BY <3>1, <3>2
    <3>6. Bundle(t, live, closing, outside, d, asked, answered, g2, {})
      BY ONLY <1>1, <1>3, <3>2, <3>3, <3>4, <3>5, n \in Channels, ChannelKeeps
    <3> QED BY <3>3, <3>6
  <2> QED BY <2>1, <2>2
<1> QED BY <1>5 DEF RunUnlock, Inv, d

\* Removing somebody from a list where it is once
LEMMA FirstRemoved ==
  ASSUME NEW T, NEW list \in Seq(T), NEW c, c \in Range(list), Distinct(list)
  PROVE  /\ RemoveFirst(list, c) \in Seq(T) /\ Distinct(RemoveFirst(list, c))
         /\ Range(RemoveFirst(list, c)) = Range(list) \ {c}
<1> DEFINE I == {i \in 1..Len(list) : list[i] = c}
           k == Min(I)
           p == SubSeq(list, 1, k - 1)
           q == SubSeq(list, k + 1, Len(list))
           r == p \o q
           m == Len(list)
<1>1. PICK i \in 1..m : list[i] = c
  BY DEF Range
<1>2. I # {} /\ I = {i}
  BY <1>1 DEF Distinct
<1>3. k = i
  <2>1. k = CHOOSE x \in I : \A y \in I : x <= y
    BY DEF Min
  <2>2. i \in I /\ (\A y \in I : i <= y) /\ \A x \in I : x = i
    BY <1>1, <1>2
  <2> HIDE DEF I, k
  <2> QED BY ONLY <2>1, <2>2
<1>4. RemoveFirst(list, c) = r
  <2>1. SelectInSeq(list, LAMBDA v : v = c) = k
    BY <1>2 DEF SelectInSeq
  <2> QED BY <1>1, <2>1 DEF RemoveFirst, RemoveAt
<1> HIDE DEF I, k
<1>5. m \in Nat /\ i \in 1..m
  BY <1>1
<1>6. /\ p \in Seq(T) /\ Len(p) = i - 1 /\ \A j \in 1..(i - 1) : p[j] = list[j]
      /\ q \in Seq(T) /\ Len(q) = m - i /\ \A j \in 1..(m - i) : q[j] = list[i + j]
  BY <1>3, <1>5
<1> HIDE DEF p, q
<1>7. /\ r \in Seq(T) /\ Len(r) = m - 1
      /\ \A j \in 1..(m - 1) : r[j] = IF j < i THEN list[j] ELSE list[j + 1]
  <2> DEFINE x == Len(p)
             y == Len(q)
  <2>1. /\ r \in Seq(T) /\ Len(r) = x + y /\ x \in Nat /\ y \in Nat
        /\ \A j \in 1..x : r[j] = p[j]
        /\ \A j \in 1..y : r[x + j] = q[j]
    <3>1. p \in Seq(T) /\ q \in Seq(T)
      BY <1>6
    <3> QED BY ONLY <3>1
  <2>2. x = i - 1 /\ y = m - i
    BY <1>6
  <2> HIDE DEF r, x, y, m
  <2>3. Len(r) = m - 1
    BY <1>5, <2>1, <2>2
  <2>4. ASSUME NEW j \in 1..(m - 1)
        PROVE  r[j] = IF j < i THEN list[j] ELSE list[j + 1]
    <3>1. CASE j < i
      <4>1. j \in 1..x
        BY <1>5, <2>2, <3>1
      <4> QED BY <1>6, <2>1, <2>2, <3>1, <4>1
    <3>2. CASE ~(j < i)
      <4> DEFINE z == j - x
      <4>1. z \in 1..y /\ x + z = j /\ i + z = j + 1
        BY <1>5, <2>2, <3>2
      <4> HIDE DEF z
      <4>2. r[j] = q[z]
        BY <2>1, <4>1
      <4>3. q[z] = list[i + z]
        BY <1>6, <2>2, <4>1 DEF m
      <4> QED BY <3>2, <4>1, <4>2, <4>3
    <3> QED BY <3>1, <3>2
  <2> QED BY <2>1, <2>3, <2>4 DEF m
<1> HIDE DEF r, m
<1>8. DOMAIN list = 1..m /\ DOMAIN r = 1..(m - 1)
  BY <1>5, <1>7 DEF m
<1>9. Distinct(r)
  <2> SUFFICES ASSUME NEW a \in 1..(m - 1), NEW b \in 1..(m - 1), r[a] = r[b]
               PROVE  a = b
    BY <1>8 DEF Distinct
  <2>1. PICK x \in 1..m : r[a] = list[x] /\ (x = IF a < i THEN a ELSE a + 1)
    BY <1>5, <1>7
  <2>2. PICK y \in 1..m : r[b] = list[y] /\ (y = IF b < i THEN b ELSE b + 1)
    BY <1>5, <1>7
  <2>3. x = y
    BY <1>8, <2>1, <2>2 DEF Distinct
  <2> QED BY <1>5, <2>1, <2>2, <2>3
<1>10. Range(r) = Range(list) \ {c}
  <2>1. ASSUME NEW a \in 1..(m - 1) PROVE r[a] \in Range(list) \ {c}
    <3>1. PICK x \in 1..m : r[a] = list[x] /\ x # i
      BY <1>5, <1>7
    <3>2. list[x] # c
      BY <1>1, <1>5, <1>8, <3>1 DEF Distinct
    <3> QED BY <1>8, <3>1, <3>2 DEF Range
  <2>2. ASSUME NEW x \in 1..m, list[x] # c PROVE list[x] \in Range(r)
    <3>1. x # i
      BY <1>1, <2>2
    <3>2. CASE x < i
      <4>1. x \in 1..(m - 1) /\ r[x] = list[x]
        BY <1>5, <1>7, <3>2
      <4> QED BY <1>8, <4>1 DEF Range
    <3>3. CASE x > i
      <4>1. x - 1 \in 1..(m - 1) /\ r[x - 1] = list[x]
        BY <1>5, <1>7, <3>3
      <4> QED BY <1>8, <4>1 DEF Range
    <3> QED BY <1>5, <3>1, <3>2, <3>3
  <2> QED BY <1>8, <2>1, <2>2 DEF Range
<1> QED BY <1>4, <1>7, <1>9, <1>10

-----------------------------------------------------------------------------
(* Waking somebody from outside                                            *)

\* wait-for -w: one waiter, or else one locker, is woken by name.
LEMMA RunWakeKeeps ==
  ASSUME NEW n \in Channels, NEW who \in Ids PROVE Inv /\ RunWake(n, who) => Inv'
<1> SUFFICES ASSUME Inv, RunWake(n, who) PROVE Inv'
  OBVIOUS
<1> DEFINE ch == scheduler.channels[n]
           d == driving'
           fewer == RemoveFirst(ch.waiters, who)
           less == RemoveFirst(ch.lockers, who)
           one == [ch EXCEPT !.waiters = fewer]
           two == [ch EXCEPT !.lockers = less]
           dh == IF who \in Range(ch.waiters) THEN one ELSE two
           t == WithOf(scheduler, n, dh)
<1>1. /\ Running /\ Current.commands # <<>> /\ n \in DOMAIN scheduler.channels
      /\ who \in Range(ch.waiters \o ch.lockers)
      /\ scheduler' = Unblock(t, who) /\ Done(Rest)
  BY DEF RunWake, Runs, With, WithOf
<1>2. RoomFor(scheduler, n) /\ ch = ChannelOf(scheduler, n)
  BY <1>1 DEF RoomFor, ChannelOf
<1> HIDE DEF ch
<1>3. /\ ch \in ChannelType /\ Sound(ch, holders[n])
      /\ ch.waiters \in Seq(Ids) /\ ch.lockers \in Seq(Ids)
      /\ Distinct(ch.waiters) /\ Distinct(ch.lockers)
      /\ Rest \in BatchSet /\ Rest.id = Current.id
      /\ holders \in [Channels -> SUBSET Ids]
  BY <1>1, <1>2, OnChannel
<1>4. Bundle(scheduler, live, closing, outside, d, asked, answered, holders, {})
      /\ ~d.queue.blocked
  BY <1>1, <1>3, DoneIsKept
<1>5. Range(ch.waiters \o ch.lockers) = Range(ch.waiters) \cup Range(ch.lockers)
  BY <1>3, RangeOfConcat
<1>6. Elsewhere(holders, holders, n)
  BY <1>3 DEF Elsewhere
<1>7. /\ dh \in ChannelType /\ Distinct(dh.waiters) /\ Distinct(dh.lockers)
      /\ Sound(dh, holders[n])
      /\ \/ /\ who \in Range(ch.waiters)
            /\ Range(dh.waiters) = Range(ch.waiters) \ {who} /\ dh.lockers = ch.lockers
         \/ /\ who \in Range(ch.lockers)
            /\ Range(dh.lockers) = Range(ch.lockers) \ {who} /\ dh.waiters = ch.waiters
  <2>1. CASE who \in Range(ch.waiters)
    <3>1. dh = one
      BY <2>1
    <3>2. /\ fewer \in Seq(Ids) /\ Distinct(fewer)
          /\ Range(fewer) = Range(ch.waiters) \ {who}
      BY <1>3, <2>1, FirstRemoved
    <3>3. /\ one \in ChannelType /\ one.waiters = fewer /\ one.lockers = ch.lockers
          /\ one.woken = ch.woken /\ one.locked = ch.locked
      <4>1. ch \in ChannelType /\ fewer \in Seq(Ids)
        BY <1>3, <3>2
      <4> HIDE DEF fewer
      <4> QED BY ONLY <4>1 DEF ChannelType
    <3>4. ch.waiters # <<>>
      <4>1. Range(<<>>) = {}
        BY EmptyList
      <4> QED BY <2>1, <4>1
    <3> HIDE DEF one, fewer, dh
    <3>5. Sound(dh, holders[n])
      BY <1>3, <3>1, <3>3, <3>4 DEF Sound
    <3> QED BY <1>3, <2>1, <3>1, <3>2, <3>3, <3>5
  <2>2. CASE who \notin Range(ch.waiters)
    <3>1. dh = two
      BY <2>2
    <3>2. who \in Range(ch.lockers)
      BY <1>1, <1>5, <2>2
    <3>3. /\ less \in Seq(Ids) /\ Distinct(less)
          /\ Range(less) = Range(ch.lockers) \ {who}
      BY <1>3, <3>2, FirstRemoved
    <3>4. /\ two \in ChannelType /\ two.waiters = ch.waiters /\ two.lockers = less
          /\ two.woken = ch.woken /\ two.locked = ch.locked
      <4>1. ch \in ChannelType /\ less \in Seq(Ids)
        BY <1>3, <3>3
      <4> HIDE DEF less
      <4> QED BY ONLY <4>1 DEF ChannelType
    <3>5. ch.lockers # <<>>
      <4>1. Range(<<>>) = {}
        BY EmptyList
      <4> QED BY <3>2, <4>1
    <3> HIDE DEF two, less, dh
    <3>6. Sound(dh, holders[n])
      BY <1>3, <3>1, <3>4, <3>5 DEF Sound
    <3> QED BY <1>3, <3>1, <3>2, <3>3, <3>4, <3>6
  <2> QED BY <2>1, <2>2
<1>8. t = WithOf(scheduler, n, dh) /\ scheduler' = Unblock(t, who)
  BY <1>1
<1> HIDE DEF dh, t, d
<1>9. Bundle(Unblock(t, who), live, closing, outside, d, asked, answered, holders, {})
  BY ONLY <1>2, <1>4, <1>6, <1>7, <1>8, n \in Channels, who \in Ids, ChannelWakesOne
<1>10. Bundle(scheduler', live, closing, outside, driving', asked, answered, holders, {})
  BY <1>8, <1>9 DEF d
<1> QED BY <1>10 DEF RunWake, Inv

\* A queue leaves the place where it is listed, and is woken.
LEMMA OneWakes ==
  ASSUME NEW s, NEW lv, NEW cl, NEW o, NEW d, NEW ak, NEW an, NEW h, NEW X,
         Bundle(s, lv, cl, o, d, ak, an, h, X), ~d.queue.blocked,
         NEW c \in Ids,
         NEW t, Tables(t), NEW p, t.startup = s.startup, t.channels = s.channels,
         t.queues = s.queues, t.ready = s.ready,
         Part(t.jobs, s.jobs), Part(t.files, s.files), Part(p, o),
         \A x \in Ids \ {c} : Places(t, p, x) = Places(s, o, x),
         Places(t, p, c) \subseteq Places(s, o, c),
         Places(t, p, c) # Places(s, o, c),
         NEW f, Refronts(t, f, c), NEW u, u = Unblock(f, c)
  PROVE  Bundle(u, lv, cl, p, d, ak, an, h, X)
<1>1. Tables(s) /\ Listing(s, o, d, lv \ cl) /\ Served(s, h)
      /\ h \in [Channels -> SUBSET Ids] /\ ListsDistinct(s)
  BY DEF Bundle, Listing, Control
<1>2. Stirs(t, u, {c}, {}) /\ u.eventWaiters = t.eventWaiters
  BY RefrontWakes
<1>3. Tables(u)
  <2>1. PartialFunction(u.eventWaiters, Ids, [group : Nat])
    BY <1>2 DEF Tables
  <2> QED BY <1>2, <2>1, StirredTables
<1>4. /\ u.channels = s.channels /\ u.files = t.files /\ u.jobs = t.jobs
  BY <1>2 DEF Stirs
<1>5. \A x : Places(u, p, x) = Places(t, p, x)
  BY <1>2, <1>4 DEF Places, WaitsAt, LocksAt, JobsAt
<1>6. Rouses(s, u, {c}, {})
  <2>1. Rouses(t, u, {c}, {})
    BY <1>2, StirRouses
  <2> QED BY <2>1 DEF Rouses
<1>7. ASSUME Has(s, d, c) PROVE Places(u, p, c) = {}
  <2>1. OnePlace(Places(s, o, c))
    BY <1>1, <1>7 DEF Listing
  <2> QED BY <1>5, <2>1 DEF OnePlace
<1>8. ListsDistinct(u) /\ Served(u, h)
  BY <1>1, <1>4 DEF ListsDistinct, Served
<1>9. Wakes(s, o, u, p, d, {c}, {})
  <2>1. \A x \in Ids : Places(u, p, x) \subseteq Places(s, o, x)
    BY <1>5
  <2>2. \A x \in Ids \ {c} : Places(u, p, x) = Places(s, o, x)
    BY <1>5
  <2> QED BY <1>4, <1>6, <1>7, <1>8, <2>1, <2>2 DEF Wakes
<1>10. Bundle(u, lv \cup {}, cl, p, d, ak, an, h, X)
  BY <1>1, <1>3, <1>8, <1>9, WakeKeeps
<1>11. lv \cup {} = lv
  OBVIOUS
<1> QED BY ONLY <1>10, <1>11

\* The invariant of the variables as they are
LEMMA NowBundle ==
  ASSUME Inv
  PROVE  /\ Bundle(scheduler, live, closing, outside, driving, asked, answered, holders, {})
         /\ Tables(scheduler) /\ IsScheduler(scheduler)
         /\ Control(live, closing, outside, driving, asked, answered, holders)
BY DEF Inv, Bundle, Tables

\* Between two drives nothing is blocked in the drive.
LEMMA IdleIsUnblocked ==
  ASSUME Inv, Idle PROVE ~driving.queue.blocked /\ driving = Nobody
<1>1. driving = Nobody
  BY NowBundle DEF Idle, Control
<1> QED BY <1>1, NobodyIsFine DEF NobodyDrives

\* A map is a part of itself.
LEMMA PartSame == ASSUME NEW f PROVE Part(f, f)
BY DEF Part

\* A part of a map has its type.
LEMMA WithoutType ==
  ASSUME NEW f, NEW c, NEW S, NEW T, PartialFunction(f, S, T)
  PROVE  PartialFunction(Without(f, c), S, T)
<1> DEFINE g == Without(f, c)
<1>1. DOMAIN g = DOMAIN f \ {c} /\ \A y \in DOMAIN f \ {c} : g[y] = f[y]
  BY WithoutOne
<1> HIDE DEF g
<1>2. PartialFunction(g, S, T)
  BY <1>1 DEF PartialFunction
<1> QED BY <1>2 DEF g

\* wait-for -E -w: one that waits for an event is woken by name.
LEMMA RunRouseKeeps == ASSUME NEW who \in Ids PROVE Inv /\ RunRouse(who) => Inv'
<1> SUFFICES ASSUME Inv, RunRouse(who) PROVE Inv'
  OBVIOUS
<1> DEFINE s == scheduler
           x == Without(s.eventWaiters, who)
           t == [s EXCEPT !.eventWaiters = x]
           d == driving'
           o == outside
           u == Unblock(t, who)
<1>1. /\ Running /\ Current.commands # <<>> /\ who \in DOMAIN s.eventWaiters
      /\ scheduler' = u /\ Done(Rest)
  BY DEF RunRouse, Runs
<1>2. Rest \in BatchSet /\ Rest.id = Current.id
  BY <1>1, CommandFacts
<1>3. Bundle(s, live, closing, o, d, asked, answered, holders, {})
      /\ ~d.queue.blocked
  BY <1>1, <1>2, DoneIsKept
<1>4. Tables(s) /\ IsScheduler(s)
  BY NowBundle
<1>5. DOMAIN x = DOMAIN s.eventWaiters \ {who}
  BY WithoutOne
<1>6. PartialFunction(x, Ids, [group : Nat])
  BY <1>4, WithoutType DEF Tables
<1> HIDE DEF x, s, d, o
<1>7. /\ IsScheduler(t) /\ t.eventWaiters = x
      /\ t.queues = s.queues /\ t.ready = s.ready /\ t.startup = s.startup
      /\ t.channels = s.channels /\ t.files = s.files /\ t.jobs = s.jobs
  BY <1>4, SetEventWaiters
<1> HIDE DEF t
<1>8. Tables(t)
  BY <1>4, <1>6, <1>7 DEF Tables
<1>9. \A y \in Ids \ {who} : Places(t, o, y) = Places(s, o, y)
  BY <1>5, <1>7 DEF Places, WaitsAt, LocksAt, JobsAt
<1>10. Places(t, o, who) \subseteq Places(s, o, who)
  BY <1>5, <1>7 DEF Places, WaitsAt, LocksAt, JobsAt
<1>11. <<"event", who>> \in Places(s, o, who) /\ <<"event", who>> \notin Places(t, o, who)
  BY <1>1, <1>5, <1>7 DEF Places
<1>12. Part(t.jobs, s.jobs) /\ Part(t.files, s.files) /\ Part(o, o)
  BY <1>7, PartSame
<1>13. Refronts(t, t, who) /\ u = Unblock(t, who) /\ Places(t, o, who) # Places(s, o, who)
  BY <1>11 DEF Refronts
<1> HIDE DEF u
<1>14. Bundle(u, live, closing, o, d, asked, answered, holders, {})
  BY <1>3, <1>7, <1>8, <1>9, <1>10, <1>12, <1>13, OneWakes
<1> QED BY <1>1, <1>14 DEF RunRouse, Inv, d, o

\* How a result changes the batch in front
LEMMA Refronting ==
  ASSUME NEW t, NEW c, NEW b, NEW f,
         c \in DOMAIN t.queues /\ t.queues[c].pending # <<>> =>
           /\ b \in BatchSet /\ b.id = t.queues[c].pending[1].id
           /\ f = [t EXCEPT !.queues[c].pending[1] = b],
         ~(c \in DOMAIN t.queues /\ t.queues[c].pending # <<>>) => f = t
  PROVE  Refronts(t, f, c)
BY DEF Refronts

\* What an outsider's end does
LEMMA OutsideEnds ==
  ASSUME Inv, Idle, NEW c \in DOMAIN outside, NEW f, Refronts(scheduler, f, c),
         scheduler' = Unblock(f, c), outside' = Without(outside, c),
         UNCHANGED <<live, closing, driving, asked, answered, holders>>
  PROVE  Inv'
<1> DEFINE s == scheduler
           o == outside
           p == Without(outside, c)
           u == Unblock(f, c)
<1>1. /\ Bundle(s, live, closing, o, driving, asked, answered, holders, {})
      /\ Tables(s) /\ ~driving.queue.blocked /\ DOMAIN o \subseteq Ids
  BY NowBundle, IdleIsUnblocked DEF Control, PartialFunction
<1>2. Part(p, o) /\ DOMAIN p = DOMAIN o \ {c} /\ c \in DOMAIN o /\ c \in Ids
  BY <1>1, WithoutClient
<1>3. Refronts(s, f, c) /\ u = Unblock(f, c) /\ scheduler' = u /\ outside' = p
  OBVIOUS
<1> HIDE DEF s, o, p, u
<1>4. \A y \in Ids \ {c} : Places(s, p, y) = Places(s, o, y)
  BY <1>2 DEF Places
<1>5. Places(s, p, c) \subseteq Places(s, o, c)
  BY <1>2 DEF Places
<1>6. <<"outside", c>> \in Places(s, o, c) /\ <<"outside", c>> \notin Places(s, p, c)
  BY <1>2 DEF Places
<1>7. Places(s, p, c) # Places(s, o, c)
  BY <1>6
<1>8. Part(s.jobs, s.jobs) /\ Part(s.files, s.files)
  BY PartSame
<1>9. Bundle(u, live, closing, p, driving, asked, answered, holders, {})
  BY <1>1, <1>2, <1>3, <1>4, <1>5, <1>7, <1>8, OneWakes
<1> QED BY <1>3, <1>9 DEF Inv

\* The pane a command waits for has ended.
LEMMA PaneEndsKeeps == ASSUME NEW c \in DOMAIN outside PROVE Inv /\ PaneEnds(c) => Inv'
<1> SUFFICES ASSUME Inv, PaneEnds(c) PROVE Inv'
  OBVIOUS
<1>1. Refronts(scheduler, scheduler, c)
  BY DEF Refronts
<1> QED BY <1>1, OutsideEnds DEF PaneEnds

\* The input a command waits for has ended.
LEMMA StdinEndsKeeps == ASSUME NEW c \in DOMAIN outside PROVE Inv /\ StdinEnds(c) => Inv'
<1> SUFFICES ASSUME Inv, StdinEnds(c) PROVE Inv'
  OBVIOUS
<1> DEFINE s == scheduler
           front == s.queues[c].pending[1]
           b == Fail(front, outside[c].group)
           failed == OnFront(s, c, LAMBDA x : Fail(x, outside[c].group))
<1>1. PICK f \in {s, failed} : scheduler' = Unblock(f, c)
  BY DEF StdinEnds
<1>2. Tables(s)
  BY NowBundle
<1>3. Refronts(s, failed, c)
  <2>1. c \in DOMAIN s.queues /\ s.queues[c].pending # <<>> =>
          /\ b \in BatchSet /\ b.id = s.queues[c].pending[1].id
    BY <1>2, FrontInBatchSet, FailedBatch
  <2>2. c \in DOMAIN s.queues /\ s.queues[c].pending # <<>> =>
          failed = [s EXCEPT !.queues[c].pending[1] = b]
    BY DEF OnFront
  <2>3. ~(c \in DOMAIN s.queues /\ s.queues[c].pending # <<>>) => failed = s
    BY DEF OnFront
  <2> HIDE DEF b, failed
  <2> QED BY <2>1, <2>2, <2>3, Refronting
<1>4. Refronts(s, f, c)
  BY <1>1, <1>3 DEF Refronts
<1> QED BY <1>1, <1>4, OutsideEnds DEF StdinEnds

-----------------------------------------------------------------------------
(* Results                                                                 *)

\* A file was read or written.
LEMMA FileCompletesKeeps ==
  ASSUME NEW c \in DOMAIN scheduler.files PROVE Inv /\ FileCompletes(c) => Inv'
<1> SUFFICES ASSUME Inv, FileCompletes(c) PROVE Inv'
  OBVIOUS
<1> DEFINE s == scheduler
           o == outside
           x == Without(s.files, c)
           t == [s EXCEPT !.files = x]
           item == s.files[c].item
           front == t.queues[c].pending[1]
<1>1. /\ Bundle(s, live, closing, o, driving, asked, answered, holders, {})
      /\ Tables(s) /\ IsScheduler(s) /\ ~driving.queue.blocked /\ driving = Nobody
  BY NowBundle, IdleIsUnblocked DEF FileCompletes
<1>2. /\ DOMAIN x = DOMAIN s.files \ {c} /\ Part(x, s.files)
      /\ PartialFunction(x, Clients, [item : CommandType, batch : Nat])
  BY <1>1, WithoutClient, WithoutType DEF Tables
<1>3. item \in CommandType /\ c \in Ids /\ c \in DOMAIN s.files
  BY <1>1 DEF Tables, PartialFunction, Ids
<1>4. PICK kind \in {"stored", "source", "limit"} :
       scheduler' = Unblock(OnFront(t, c, LAMBDA b :
         CASE kind = "stored" -> b
           [] kind = "source" -> InsertGroup(b, Deeper(item))
           [] kind = "limit" -> Fail(b, item.group)), c)
  BY DEF FileCompletes
<1> DEFINE b == CASE kind = "stored" -> front
                  [] kind = "source" -> InsertGroup(front, Deeper(item))
                  [] kind = "limit" -> Fail(front, item.group)
           f == OnFront(t, c, LAMBDA bb :
                  CASE kind = "stored" -> bb
                    [] kind = "source" -> InsertGroup(bb, Deeper(item))
                    [] kind = "limit" -> Fail(bb, item.group))
           u == Unblock(f, c)
<1>5. scheduler' = u
  BY <1>4
<1>6. /\ c \in DOMAIN t.queues /\ t.queues[c].pending # <<>> =>
           f = [t EXCEPT !.queues[c].pending[1] = b]
      /\ ~(c \in DOMAIN t.queues /\ t.queues[c].pending # <<>>) => f = t
  BY DEF OnFront
<1>7. Deeper(item) \in CommandType
  BY <1>3, Items
<1>8. ASSUME front \in BatchSet PROVE b \in BatchSet /\ b.id = front.id
  BY <1>4, <1>7, <1>8, InsertedGroup, FailedBatch
<1> HIDE DEF f, b, u, x, s, o
<1>9. /\ IsScheduler(t) /\ t.files = x
      /\ t.queues = s.queues /\ t.ready = s.ready /\ t.startup = s.startup
      /\ t.channels = s.channels /\ t.eventWaiters = s.eventWaiters /\ t.jobs = s.jobs
  BY <1>1, SetFiles
<1> HIDE DEF t
<1>10. Tables(t)
  BY <1>1, <1>2, <1>9 DEF Tables
<1>11. Refronts(t, f, c)
  BY <1>6, <1>8, <1>10, FrontInBatchSet, Refronting
<1>12. \A y \in Ids \ {c} : Places(t, o, y) = Places(s, o, y)
  BY <1>2, <1>9 DEF Places, WaitsAt, LocksAt, JobsAt
<1>13. Places(t, o, c) \subseteq Places(s, o, c)
  BY <1>2, <1>9 DEF Places, WaitsAt, LocksAt, JobsAt
<1>14. <<"file", c>> \in Places(s, o, c) /\ <<"file", c>> \notin Places(t, o, c)
  BY <1>2, <1>3, <1>9 DEF Places
<1>15. Part(t.jobs, s.jobs) /\ Part(t.files, s.files) /\ Part(o, o)
  BY <1>2, <1>9, PartSame
<1>16. u = Unblock(f, c) /\ Places(t, o, c) # Places(s, o, c)
  BY <1>14 DEF u
<1>17. Bundle(u, live, closing, o, driving, asked, answered, holders, {})
  BY <1>1, <1>3, <1>9, <1>10, <1>11, <1>12, <1>13, <1>15, <1>16, OneWakes
<1> QED BY <1>5, <1>17 DEF FileCompletes, Inv, s, o

\* What a job leaves of the batch that waits for it
LEMMA JobResult ==
  ASSUME NEW b \in BatchSet, NEW item \in CommandType, NEW failed \in BOOLEAN,
         NEW branch \in BOOLEAN
  PROVE  LET kept == IF failed THEN Fail(b, item.group) ELSE b
             r == IF branch THEN Insert(kept, Deeper(item)) ELSE kept
         IN r \in BatchSet /\ r.id = b.id
<1> DEFINE kept == IF failed THEN Fail(b, item.group) ELSE b
<1>1. kept \in BatchSet /\ kept.id = b.id
  BY FailedBatch
<1>2. Deeper(item) \in CommandType
  BY Items
<1> HIDE DEF kept
<1>3. LET r == IF branch THEN Insert(kept, Deeper(item)) ELSE kept
      IN r \in BatchSet /\ r.id = b.id
  BY <1>1, <1>2, InsertedBatch
<1> QED BY <1>3 DEF kept

\* A job has ended, and its queue goes on.
LEMMA JobEndsKeeps ==
  ASSUME NEW j \in DOMAIN scheduler.jobs PROVE Inv /\ JobEnds(j) => Inv'
<1> SUFFICES ASSUME Inv, JobEnds(j) PROVE Inv'
  OBVIOUS
<1> DEFINE s == scheduler
           o == outside
           x == Without(s.jobs, j)
           t == [s EXCEPT !.jobs = x]
           item == s.jobs[j].item
           c == s.jobs[j].client
           front == t.queues[c].pending[1]
<1>1. /\ Bundle(s, live, closing, o, driving, asked, answered, holders, {})
      /\ Tables(s) /\ IsScheduler(s) /\ ~driving.queue.blocked /\ driving = Nobody
  BY NowBundle, IdleIsUnblocked DEF JobEnds
<1>2. /\ DOMAIN x = DOMAIN s.jobs \ {j} /\ Part(x, s.jobs)
      /\ PartialFunction(x, 1..MaxJobs,
           [client : Ids, item : CommandType, batch : Nat, background : BOOLEAN])
  BY <1>1, WithoutClient, WithoutType DEF Tables
<1>3. /\ item \in CommandType /\ c \in Ids /\ j \in DOMAIN s.jobs
      /\ ~s.jobs[j].background /\ s.jobs[j].client = c
  BY <1>1 DEF Tables, PartialFunction, JobEnds
<1>4. PICK failed \in BOOLEAN, branch \in BOOLEAN :
       scheduler' = Unblock(OnFront(t, c, LAMBDA b :
         LET kept == IF failed THEN Fail(b, item.group) ELSE b
         IN IF branch THEN Insert(kept, Deeper(item)) ELSE kept), c)
  BY DEF JobEnds
<1> DEFINE kept == IF failed THEN Fail(front, item.group) ELSE front
           b == IF branch THEN Insert(kept, Deeper(item)) ELSE kept
           f == OnFront(t, c, LAMBDA bb :
                  LET ky == IF failed THEN Fail(bb, item.group) ELSE bb
                  IN IF branch THEN Insert(ky, Deeper(item)) ELSE ky)
           u == Unblock(f, c)
<1>5. scheduler' = u
  BY <1>4
<1>6. /\ c \in DOMAIN t.queues /\ t.queues[c].pending # <<>> =>
           f = [t EXCEPT !.queues[c].pending[1] = b]
      /\ ~(c \in DOMAIN t.queues /\ t.queues[c].pending # <<>>) => f = t
  BY DEF OnFront
<1>8. ASSUME front \in BatchSet PROVE b \in BatchSet /\ b.id = front.id
  BY <1>3, <1>4, <1>8, JobResult
<1> HIDE DEF f, b, u, x, s, o, c, item
<1>9. /\ IsScheduler(t) /\ t.jobs = x
      /\ t.queues = s.queues /\ t.ready = s.ready /\ t.startup = s.startup
      /\ t.channels = s.channels /\ t.eventWaiters = s.eventWaiters /\ t.files = s.files
  BY <1>1, SetJobs
<1> HIDE DEF t
<1>10. Tables(t)
  BY <1>1, <1>2, <1>9 DEF Tables
<1>11. Refronts(t, f, c)
  BY <1>6, <1>8, <1>10, FrontInBatchSet, Refronting
<1>12. /\ \A y : JobsAt(t, y) = JobsAt(s, y) \ {j}
       /\ \A y \in Ids \ {c} : JobsAt(t, y) = JobsAt(s, y)
       /\ j \in JobsAt(s, c)
  <2>1. \A y : JobsAt(t, y) = JobsAt(s, y) \ {j}
    BY <1>2, <1>9 DEF JobsAt, Part
  <2>2. \A y \in Ids \ {c} : j \notin JobsAt(s, y)
    BY <1>3 DEF JobsAt
  <2>3. j \in JobsAt(s, c)
    BY <1>3 DEF JobsAt
  <2> QED BY <2>1, <2>2, <2>3
<1>13. \A y \in Ids \ {c} : Places(t, o, y) = Places(s, o, y)
  BY <1>9, <1>12 DEF Places, WaitsAt, LocksAt
<1>14. Places(t, o, c) \subseteq Places(s, o, c)
  BY <1>9, <1>12 DEF Places, WaitsAt, LocksAt
<1>15. <<"job", j>> \in Places(s, o, c) /\ <<"job", j>> \notin Places(t, o, c)
  BY <1>12 DEF Places
<1>16. Part(t.jobs, s.jobs) /\ Part(t.files, s.files) /\ Part(o, o)
  BY <1>2, <1>9, PartSame
<1>17. u = Unblock(f, c) /\ Places(t, o, c) # Places(s, o, c)
  BY <1>15 DEF u
<1>18. Bundle(u, live, closing, o, driving, asked, answered, holders, {})
  BY <1>1, <1>3, <1>9, <1>10, <1>11, <1>13, <1>14, <1>16, <1>17, OneWakes
<1> QED BY <1>5, <1>18 DEF JobEnds, Inv, s, o

-----------------------------------------------------------------------------
(* Clients and monitors                                                    *)

\* A hook that may start has no queue and no job.
LEMMA FreeHooksAreFree == HooksAreFree(scheduler, live)
BY DEF HooksAreFree, FreeHooks

\* The monitors look for changes.
LEMMA HookMonitorTickKeeps == Inv /\ HookMonitorTick => Inv'
<1> SUFFICES ASSUME Inv, HookMonitorTick PROVE Inv'
  OBVIOUS
<1>1. Bundle(scheduler', live', closing, outside, driving, asked, answered, holders, {})
  BY NowBundle, IdleIsUnblocked, FireKeeps DEF HookMonitorTick
<1> QED BY <1>1 DEF HookMonitorTick, Inv

\* A client is disconnected between two drives.
LEMMA IdleDisconnects ==
  ASSUME Inv, Idle, NEW c \in Clients, Disconnect(c, scheduler)
  PROVE  Bundle(scheduler', live', closing', outside', driving, asked, answered, holders, {})
<1>1. Bundle(scheduler', live', closing', outside', driving, asked, answered, holders,
             {} \ {c})
  BY NowBundle, IdleIsUnblocked, FreeHooksAreFree, DisconnectKeeps
<1>2. {} \ {c} = {}
  OBVIOUS
<1> QED BY <1>1, <1>2

\* A connection ends.
LEMMA ClientGoesKeeps == ASSUME NEW c \in Clients PROVE Inv /\ ClientGoes(c) => Inv'
<1> SUFFICES ASSUME Inv, ClientGoes(c) PROVE Inv'
  OBVIOUS
<1> QED BY IdleDisconnects DEF ClientGoes, Inv

\* A request is a well-formed batch.
LEMMA FreshBatch ==
  ASSUME NEW n \in Nat, NEW size \in Sizes
  PROVE  LET b == NewBatch(n, [i \in 1..size |-> TopLevel]) IN b \in BatchSet /\ b.id = n
<1> DEFINE commands == [i \in 1..size |-> TopLevel]
<1>1. size \in Nat /\ size <= MaxCommands
  BY Constants, QueueAssumption
<1>2. commands \in Seq(CommandType) /\ Len(commands) = size
  BY <1>1, Items
<1> HIDE DEF commands
<1>3. NewBatch(n, commands) \in BatchSet /\ NewBatch(n, commands).id = n
  BY <1>1, <1>2, NewBatches
<1> QED BY <1>3 DEF commands

\* A client asks for something.
LEMMA RequestOfKeeps ==
  ASSUME NEW c \in Clients, NEW size \in Sizes PROVE Inv /\ RequestOf(c, size) => Inv'
<1> SUFFICES ASSUME Inv, RequestOf(c, size) PROVE Inv'
  OBVIOUS
<1> DEFINE s == scheduler
           queue == IF c \in DOMAIN s.queues THEN s.queues[c]
                    ELSE [pending |-> <<>>, blocked |-> FALSE]
           batch == NewBatch(asked[c] + 1, [i \in 1..size |-> TopLevel])
           grown == [queue EXCEPT !.pending = Append(@, batch)]
           t == [s EXCEPT !.queues = Put(@, c, grown)]
           u == IF queue.blocked THEN t ELSE Ready(t, c)
           al == [asked EXCEPT ![c] = @ + 1]
<1>1. CASE Len(queue.pending) >= MaxPending
  <2>1. /\ Idle /\ Disconnect(c, scheduler)
        /\ UNCHANGED <<asked, driving, answered, holders>>
    BY <1>1 DEF RequestOf
  <2> QED BY ONLY <2>1, IdleDisconnects, Inv DEF Inv
<1>2. CASE ~(Len(queue.pending) >= MaxPending)
  <2>1. /\ Idle /\ c \in (live \cap Clients) \ closing /\ asked[c] < RequestBound
        /\ scheduler' = u /\ asked' = al
        /\ UNCHANGED <<live, closing, outside, driving, answered, holders>>
    BY <1>2 DEF RequestOf
  <2>2. asked[c] \in Nat /\ asked[c] + 1 \in Nat
    BY NowBundle, Constants, QueueAssumption DEF Control
  <2>3. batch \in BatchSet /\ batch.id = asked[c] + 1
    BY <2>2, FreshBatch
  <2>4. Bundle(s, live, closing, outside, Nobody, asked, answered, holders, {})
        /\ driving = Nobody
    BY <2>1, NowBundle, IdleIsUnblocked
  <2>5. /\ queue = IF c \in DOMAIN s.queues THEN s.queues[c]
                   ELSE [pending |-> <<>>, blocked |-> FALSE]
        /\ grown = [queue EXCEPT !.pending = Append(@, batch)]
        /\ t = [s EXCEPT !.queues = Put(@, c, grown)]
        /\ u = IF queue.blocked THEN t ELSE Ready(t, c)
        /\ al = [asked EXCEPT ![c] = @ + 1]
    OBVIOUS
  <2> HIDE DEF s, queue, batch, grown, t, u, al
  <2>6. Bundle(u, live, closing, outside, Nobody, al, answered, holders, {})
    BY ONLY <1>2, <2>1, <2>3, <2>4, <2>5, RequestKeeps, ZenonT(120)
  <2> QED BY <2>1, <2>4, <2>6 DEF Inv
<1> QED BY <1>1, <1>2

\* A background job has ended; nobody waits for it.
LEMMA BackgroundJobEndsKeeps ==
  ASSUME NEW j \in DOMAIN scheduler.jobs PROVE Inv /\ BackgroundJobEnds(j) => Inv'
<1> SUFFICES ASSUME Inv, BackgroundJobEnds(j) PROVE Inv'
  OBVIOUS
<1> DEFINE s == scheduler
           o == outside
           x == Without(s.jobs, j)
           t == [s EXCEPT !.jobs = x]
           item == [Deeper(s.jobs[j].item) EXCEPT !.group = 0]
<1>1. /\ Bundle(s, live, closing, o, driving, asked, answered, holders, {})
      /\ Tables(s) /\ IsScheduler(s) /\ ~driving.queue.blocked /\ driving = Nobody
  BY NowBundle, IdleIsUnblocked DEF BackgroundJobEnds
<1>2. /\ DOMAIN x = DOMAIN s.jobs \ {j} /\ Part(x, s.jobs)
      /\ PartialFunction(x, 1..MaxJobs,
           [client : Ids, item : CommandType, batch : Nat, background : BOOLEAN])
  BY <1>1, WithoutClient, WithoutType DEF Tables
<1>3. s.jobs[j].background /\ item \in CommandType
  <2>1. s.jobs[j].item \in CommandType
    BY <1>1 DEF Tables, PartialFunction
  <2> QED BY <2>1, Items DEF BackgroundJobEnds
<1>4. \/ scheduler' = t /\ UNCHANGED live
      \/ \E h \in FreeHooks : scheduler' = Spawn(t, h, item) /\ live' = live \cup {h}
  BY DEF BackgroundJobEnds
<1>5. UNCHANGED <<closing, outside, driving, asked, answered, holders>>
  BY DEF BackgroundJobEnds
<1>6. /\ IsScheduler(t) /\ t.jobs = x
      /\ t.queues = s.queues /\ t.ready = s.ready /\ t.startup = s.startup
      /\ t.channels = s.channels /\ t.eventWaiters = s.eventWaiters /\ t.files = s.files
  BY <1>1, SetJobs
<1>7. FreeHooks \subseteq Hooks /\ \A h \in FreeHooks : h \notin live
        /\ \A i \in DOMAIN s.jobs : s.jobs[i].client # h
  BY DEF FreeHooks
<1> HIDE DEF t, x, s, o, item
<1>8. Tables(t)
  BY <1>1, <1>2, <1>6 DEF Tables
<1>9. Bundle(t, live, closing, o, driving, asked, answered, holders, {})
  <2>1. \A y : JobsAt(t, y) = JobsAt(s, y)
    <3>1. \A y : j \notin JobsAt(s, y)
      BY <1>3 DEF JobsAt
    <3>2. \A y : JobsAt(t, y) = JobsAt(s, y) \ {j}
      BY <1>2, <1>6 DEF JobsAt, Part
    <3> QED BY <3>1, <3>2
  <2>2. \A y : Places(t, o, y) = Places(s, o, y)
    BY <1>6, <2>1 DEF Places, WaitsAt, LocksAt
  <2>3. ListsDistinct(t) /\ Served(t, holders)
    BY <1>1, <1>6 DEF Bundle, Listing, ListsDistinct, Served
  <2>4. Part(t.jobs, s.jobs) /\ Part(t.files, s.files) /\ Part(o, o)
    BY <1>2, <1>6, PartSame
  <2>5. Rouses(s, t, {}, {})
    BY <1>6 DEF Rouses, SameIds
  <2>6. Wakes(s, o, t, o, driving, {}, {})
    BY <2>2, <2>3, <2>4, <2>5 DEF Wakes
  <2>7. holders \in [Channels -> SUBSET Ids] /\ {} \subseteq Ids /\ {} \cap live = {}
    BY <1>1 DEF Bundle, Control
  <2>8. Bundle(t, live \cup {}, closing, o, driving, asked, answered, holders, {})
    BY ONLY <1>1, <1>8, <2>3, <2>6, <2>7, WakeKeeps
  <2>9. live \cup {} = live
    OBVIOUS
  <2> QED BY <2>8, <2>9
<1>10. CASE scheduler' = t /\ UNCHANGED live
  BY <1>5, <1>9, <1>10 DEF Inv, o
<1>11. ASSUME NEW h \in FreeHooks, scheduler' = Spawn(t, h, item), live' = live \cup {h}
       PROVE  Inv'
  <2> DEFINE u == Spawn(t, h, item)
  <2>1. h \in Hooks /\ h \notin live /\ \A i \in DOMAIN t.jobs : t.jobs[i].client # h
    BY <1>2, <1>6, <1>7 DEF Part
  <2>2. h \notin DOMAIN t.queues /\ h \in Ids
    BY <1>9, <2>1, NewcomerIsUnlisted DEF Ids, Internal
  <2>3. Tells(t, t, {})
    <3>1. Stirs(t, t, {}, {})
      BY <1>8, NothingStirs
    <3>2. DOMAIN t.eventWaiters \ DOMAIN t.eventWaiters = {}
      OBVIOUS
    <3> QED BY <3>1, <3>2 DEF Tells
  <2>4. Tells(t, u, {h}) /\ Tables(u)
    BY <1>3, <1>8, <2>2, <2>3, SpawnStirs
  <2>5. /\ {h} \subseteq Hooks /\ {h} \cap live = {}
        /\ \A i \in DOMAIN t.jobs : t.jobs[i].client \notin {h}
    BY <2>1
  <2>6. scheduler' = u
    BY <1>11
  <2> HIDE DEF u
  <2>7. Bundle(u, live \cup {h}, closing, o, driving, asked, answered, holders, {})
    BY ONLY <1>1, <1>9, <2>4, <2>5, TellKeeps
  <2> QED BY <1>5, <1>11, <2>6, <2>7 DEF Inv, o
<1> QED BY <1>4, <1>10, <1>11

-----------------------------------------------------------------------------
(* Channels are flushed                                                    *)

\* Without channels nobody waits on one.
LEMMA NoChannelServes ==
  ASSUME NEW t, t.channels = Nothing
  PROVE  /\ ListsDistinct(t) /\ Served(t, [n \in Channels |-> {}])
         /\ \A c : WaitsAt(t, c) = {} /\ LocksAt(t, c) = {}
<1>1. DOMAIN t.channels = {}
  BY DEF Nothing
<1> QED BY <1>1 DEF ListsDistinct, Served, WaitsAt, LocksAt

\* flush_waiters wakes all who wait on a channel or for an event.
LEMMA WaitersFlushedKeeps == Inv /\ WaitersFlushed => Inv'
<1> SUFFICES ASSUME Inv, WaitersFlushed PROVE Inv'
  OBVIOUS
<1> DEFINE s == scheduler
           o == outside
           t == [s EXCEPT !.eventWaiters = Nothing, !.channels = Nothing]
           ids == EveryWaiter(s)
           u == UnblockAll(t, ids)
           W == Range(ids)
           g == [n \in Channels |-> {}]
<1>1. /\ Bundle(s, live, closing, o, driving, asked, answered, holders, {})
      /\ Tables(s) /\ IsScheduler(s) /\ ~driving.queue.blocked /\ driving = Nobody
  BY NowBundle, IdleIsUnblocked DEF WaitersFlushed
<1>2. scheduler' = u /\ holders' = g
      /\ UNCHANGED <<live, closing, outside, driving, asked, answered>>
  BY DEF WaitersFlushed, FlushWaiters
<1>3. /\ ids \in Seq(Ids)
      /\ \A c : c \in W <=> \/ c \in DOMAIN s.eventWaiters
                            \/ \E n \in DOMAIN s.channels : c \in On(s, n)
  BY <1>1, EveryWaiterIsListed
<1>4. W \subseteq Ids
  BY <1>3 DEF Range
<1>5. /\ IsScheduler(t) /\ t.eventWaiters = Nothing /\ t.channels = Nothing
      /\ t.queues = s.queues /\ t.ready = s.ready /\ t.startup = s.startup
      /\ t.files = s.files /\ t.jobs = s.jobs
  <2> DEFINE r == [s EXCEPT !.eventWaiters = Nothing]
  <2>1. /\ IsScheduler(r) /\ r.eventWaiters = Nothing /\ r.channels = s.channels
        /\ r.queues = s.queues /\ r.ready = s.ready /\ r.startup = s.startup
        /\ r.files = s.files /\ r.jobs = s.jobs
    BY <1>1, SetEventWaiters
  <2>2. t = [r EXCEPT !.channels = Nothing]
    OBVIOUS
  <2> HIDE DEF r, t, s
  <2> QED BY <2>1, <2>2, SetChannels
<1>6. g \in [Channels -> SUBSET Ids]
  OBVIOUS
<1> HIDE DEF s, o, t, ids, W
<1>7. Tables(t)
  <2>1. DOMAIN t.channels = {} /\ DOMAIN t.eventWaiters = {}
    BY <1>5 DEF Nothing
  <2>2. Cardinality(DOMAIN t.channels) <= MaxChannels
    BY <2>1, FS_EmptySet, Constants
  <2> QED BY <1>1, <1>5, <2>1, <2>2 DEF Tables, PartialFunction
<1>8. /\ Stirs(t, u, W, {}) /\ u.eventWaiters = t.eventWaiters /\ Tables(u)
  BY <1>3, <1>7, UnblockAllWakes DEF W
<1> HIDE DEF u
<1>9. /\ u.eventWaiters = Nothing /\ u.channels = Nothing
      /\ u.files = s.files /\ u.jobs = s.jobs
  BY <1>5, <1>8 DEF Stirs
<1>10. Rouses(s, u, W, {})
  <2>1. Rouses(t, u, W, {})
    BY <1>8, StirRouses
  <2> QED BY <1>5, <2>1 DEF Rouses
<1>11. /\ ListsDistinct(u) /\ Served(u, g)
       /\ \A c : WaitsAt(u, c) = {} /\ LocksAt(u, c) = {}
  BY <1>9, NoChannelServes
<1>12. \A c : JobsAt(u, c) = JobsAt(s, c)
  BY <1>9 DEF JobsAt
<1>13. DOMAIN u.eventWaiters = {}
  BY <1>9 DEF Nothing
<1>14. \A c : Places(u, o, c) \subseteq Places(s, o, c)
  BY <1>9, <1>11, <1>12, <1>13 DEF Places
<1>15. \A c \in Ids \ W : Places(u, o, c) = Places(s, o, c)
  <2>1. \A c \in Ids \ W : WaitsAt(s, c) = {} /\ LocksAt(s, c) = {}
          /\ {c} \cap DOMAIN s.eventWaiters = {}
    BY <1>3 DEF WaitsAt, LocksAt, On
  <2>2. \A c : {c} \cap DOMAIN u.eventWaiters = {}
    BY <1>13
  <2> QED BY <1>9, <1>11, <1>12, <2>1, <2>2 DEF Places
<1>16. \A c \in W : Has(s, driving, c) => Places(u, o, c) = {}
  <2> SUFFICES ASSUME NEW c \in W, Has(s, driving, c) PROVE Places(u, o, c) = {}
    OBVIOUS
  <2>1. \E l1 \in {"waiter", "locker", "event"} : \E x : <<l1, x>> \in Places(s, o, c)
    <3>1. CASE c \in DOMAIN s.eventWaiters
      <4>1. <<"event", c>> \in Places(s, o, c)
        BY <3>1 DEF Places
      <4> QED BY <4>1
    <3>2. ASSUME NEW n \in DOMAIN s.channels, c \in Range(s.channels[n].waiters)
          PROVE \E x : <<"waiter", x>> \in Places(s, o, c)
      <4>1. <<"waiter", n>> \in Places(s, o, c)
        BY <3>2 DEF Places, WaitsAt
      <4> QED BY <4>1
    <3>3. ASSUME NEW n \in DOMAIN s.channels, c \in Range(s.channels[n].lockers)
          PROVE \E x : <<"locker", x>> \in Places(s, o, c)
      <4>1. <<"locker", n>> \in Places(s, o, c)
        BY <3>3 DEF Places, LocksAt
      <4> QED BY <4>1
    <3> QED BY <1>3, <3>1, <3>2, <3>3 DEF On
  <2>2. PICK l1 \in {"waiter", "locker", "event"} : \E x : <<l1, x>> \in Places(s, o, c)
    BY <2>1
  <2> PICK x : <<l1, x>> \in Places(s, o, c)
    BY <2>2
  <2>3. c \in Ids
    BY <1>4
  <2>4. OnePlace(Places(s, o, c))
    BY <1>1, <2>2, <2>3 DEF Bundle, Listing
  <2>5. PICK q : Places(s, o, c) = {q}
    BY <2>4 DEF OnePlace
  <2>6. Places(s, o, c) = {<<l1, x>>}
    BY <2>2, <2>5
  <2>7. <<l1, x>> \notin Places(u, o, c)
    BY <1>11, <1>13, <2>2 DEF Places
  <2>8. Places(u, o, c) \subseteq {<<l1, x>>}
    BY <1>14, <2>6
  <2> QED BY <2>7, <2>8
<1>17. Part(u.jobs, s.jobs) /\ Part(u.files, s.files) /\ Part(o, o)
  BY <1>9, PartSame
<1>18. Wakes(s, o, u, o, driving, W, {})
  BY <1>1, <1>10, <1>11, <1>14, <1>15, <1>16, <1>17 DEF Wakes
<1>19. {} \cap live = {} /\ live \cup {} = live
  OBVIOUS
<1> HIDE DEF g
<1>20. Bundle(u, live \cup {}, closing, o, driving, asked, answered, g, {})
  BY ONLY <1>1, <1>4, <1>6, <1>8, <1>11, <1>18, <1>19, WakeKeeps
<1> QED BY <1>2, <1>19, <1>20 DEF Inv, s, o

-----------------------------------------------------------------------------
(* Commands that wait                                                      *)

\* c is listed nowhere.
Unlisted(s, o, c) ==
  /\ WaitsAt(s, c) = {} /\ LocksAt(s, c) = {} /\ JobsAt(s, c) = {}
  /\ c \notin DOMAIN s.eventWaiters /\ c \notin DOMAIN s.files /\ c \notin DOMAIN o

\* The queue whose commands run is listed nowhere.
LEMMA DrivenIsUnlisted ==
  ASSUME NEW s, NEW lv, NEW cl, NEW o, NEW d, NEW ak, NEW an, NEW h, NEW X,
         Bundle(s, lv, cl, o, d, ak, an, h, X), MayRun(d, lv \ cl),
         NEW c, c = d.id
  PROVE  Unlisted(s, o, c) /\ c \in Ids
<1>1. Listing(s, o, d, lv \ cl) /\ Control(lv, cl, o, d, ak, an, h)
  BY DEF Bundle
<1>2. c \in Ids /\ ~d.queue.blocked /\ c # None
  <2>1. lv \subseteq Ids
    BY <1>1 DEF Control
  <2> QED BY <2>1 DEF MayRun
<1>3. Places(s, o, c) = {}
  BY <1>1, <1>2, UnblockedIsUnlisted
<1>4. \A m : m \in WaitsAt(s, c) => <<"waiter", m>> \in Places(s, o, c)
  BY ONLY TRUE DEF Places
<1>5. \A m : m \in LocksAt(s, c) => <<"locker", m>> \in Places(s, o, c)
  BY ONLY TRUE DEF Places
<1>6. \A m : m \in JobsAt(s, c) => <<"job", m>> \in Places(s, o, c)
  BY ONLY TRUE DEF Places
<1>7. /\ c \in DOMAIN s.eventWaiters => <<"event", c>> \in Places(s, o, c)
      /\ c \in DOMAIN s.files => <<"file", c>> \in Places(s, o, c)
      /\ c \in DOMAIN o => <<"outside", c>> \in Places(s, o, c)
  BY ONLY TRUE DEF Places
<1>8. Unlisted(s, o, c)
  BY ONLY <1>3, <1>4, <1>5, <1>6, <1>7 DEF Unlisted
<1> QED BY <1>2, <1>8

\* A map with one key more has its type.
LEMMA PutType ==
  ASSUME NEW f, NEW S, NEW T, PartialFunction(f, S, T), NEW x \in S, NEW v \in T
  PROVE  PartialFunction(Put(f, x, v), S, T)
<1> DEFINE g == Put(f, x, v)
<1>1. DOMAIN g = DOMAIN f \cup {x}
  BY DEF Put
<1>2. \A y \in DOMAIN g : g[y] = IF y = x THEN v ELSE f[y]
  BY DEF Put
<1> HIDE DEF g
<1>3. PartialFunction(g, S, T)
  BY <1>1, <1>2 DEF PartialFunction
<1> QED BY <1>3 DEF g

\* A command waits for an event.
LEMMA AwaitLists ==
  ASSUME NEW s, Tables(s), NEW o, NEW c \in Ids, Unlisted(s, o, c), ListsDistinct(s),
         NEW g \in Nat, NEW front, NEW h, Served(s, h),
         NEW t, t = [s EXCEPT !.eventWaiters = Put(@, c, [group |-> g])]
  PROVE  Tables(t) /\ Served(t, h) /\ Lists(s, o, t, o, c, front)
<1> DEFINE v == [group |-> g]
           x == Put(s.eventWaiters, c, v)
           z == [s EXCEPT !.eventWaiters = x]
<1>1. t = z /\ v \in [group : Nat]
  OBVIOUS
<1>2. /\ DOMAIN x = DOMAIN s.eventWaiters \cup {c}
      /\ PartialFunction(x, Ids, [group : Nat])
  <2>1. PartialFunction(s.eventWaiters, Ids, [group : Nat])
    BY ONLY Tables(s) DEF Tables
  <2> HIDE DEF v
  <2> QED BY <1>1, <2>1, PutOne, PutType
<1> HIDE DEF x
<1>3. /\ IsScheduler(z) /\ z.eventWaiters = x
      /\ z.queues = s.queues /\ z.ready = s.ready /\ z.startup = s.startup
      /\ z.channels = s.channels /\ z.files = s.files /\ z.jobs = s.jobs
  BY SetEventWaiters DEF Tables
<1> HIDE DEF z
<1>4. /\ IsScheduler(t) /\ t.eventWaiters = x
      /\ t.queues = s.queues /\ t.ready = s.ready /\ t.startup = s.startup
      /\ t.channels = s.channels /\ t.files = s.files /\ t.jobs = s.jobs
  BY ONLY <1>1, <1>3
<1>5. Tables(t)
  BY ONLY <1>2, <1>4, Tables(s) DEF Tables
<1>6. Served(t, h) /\ ListsDistinct(t)
  BY ONLY <1>4, Served(s, h), ListsDistinct(s) DEF Served, ListsDistinct
<1>7. \A y \in Ids \ {c} : Places(t, o, y) = Places(s, o, y)
  BY ONLY <1>2, <1>4 DEF Places, WaitsAt, LocksAt, JobsAt
<1>8. Places(t, o, c) = {<<"event", c>>}
  BY ONLY <1>2, <1>4, Unlisted(s, o, c) DEF Unlisted, Places, WaitsAt, LocksAt, JobsAt
<1>9. Lists(s, o, t, o, c, front)
  BY ONLY <1>4, <1>6, <1>7, <1>8 DEF Lists, OnePlace, Entered
<1> QED BY <1>5, <1>6, <1>9

\* A command's file is read or written at the client's side.
LEMMA FileLists ==
  ASSUME NEW s, Tables(s), NEW o, NEW c \in Clients, Unlisted(s, o, c), ListsDistinct(s),
         NEW item \in CommandType, NEW front \in Nat, NEW h, Served(s, h),
         NEW t, t = [s EXCEPT !.files = Put(@, c, [item |-> item, batch |-> front])]
  PROVE  Tables(t) /\ Served(t, h) /\ Lists(s, o, t, o, c, front)
<1> DEFINE v == [item |-> item, batch |-> front]
           x == Put(s.files, c, v)
           z == [s EXCEPT !.files = x]
<1>1. t = z /\ v \in [item : CommandType, batch : Nat] /\ v.batch = front
  OBVIOUS
<1>2. /\ DOMAIN x = DOMAIN s.files \cup {c} /\ x[c] = v
      /\ \A y \in DOMAIN s.files \ {c} : x[y] = s.files[y]
      /\ PartialFunction(x, Clients, [item : CommandType, batch : Nat])
  <2>0. /\ DOMAIN x = DOMAIN s.files \cup {c}
        /\ \A y \in DOMAIN x : x[y] = IF y = c THEN v ELSE s.files[y]
    BY ONLY TRUE DEF Put
  <2>1. PartialFunction(s.files, Clients, [item : CommandType, batch : Nat])
    BY ONLY Tables(s) DEF Tables
  <2> HIDE DEF v
  <2>2. PartialFunction(x, Clients, [item : CommandType, batch : Nat])
    BY ONLY <1>1, <2>1, c \in Clients, PutType DEF x
  <2> HIDE DEF x
  <2> QED BY ONLY <2>0, <2>2
<1> HIDE DEF x, v
<1>3. /\ IsScheduler(z) /\ z.files = x
      /\ z.queues = s.queues /\ z.ready = s.ready /\ z.startup = s.startup
      /\ z.channels = s.channels /\ z.eventWaiters = s.eventWaiters /\ z.jobs = s.jobs
  BY SetFiles DEF Tables
<1> HIDE DEF z
<1>4. /\ IsScheduler(t) /\ t.files = x
      /\ t.queues = s.queues /\ t.ready = s.ready /\ t.startup = s.startup
      /\ t.channels = s.channels /\ t.eventWaiters = s.eventWaiters /\ t.jobs = s.jobs
  BY ONLY <1>1, <1>3
<1>5. Tables(t)
  BY ONLY <1>2, <1>4, Tables(s) DEF Tables
<1>6. Served(t, h) /\ ListsDistinct(t)
  BY ONLY <1>4, Served(s, h), ListsDistinct(s) DEF Served, ListsDistinct
<1>7. \A y \in Ids \ {c} : Places(t, o, y) = Places(s, o, y)
  BY ONLY <1>2, <1>4 DEF Places, WaitsAt, LocksAt, JobsAt
<1>8. Places(t, o, c) = {<<"file", c>>}
  BY ONLY <1>2, <1>4, Unlisted(s, o, c) DEF Unlisted, Places, WaitsAt, LocksAt, JobsAt
<1>9. Entered(t.files, s.files, c, front)
  BY ONLY <1>1, <1>2, <1>4 DEF Entered
<1>10. Lists(s, o, t, o, c, front)
  BY ONLY <1>4, <1>6, <1>7, <1>8, <1>9 DEF Lists, OnePlace, Entered
<1> QED BY <1>5, <1>6, <1>10

\* A command waits for its pane, or for the client's standard input.
LEMMA OutsideLists ==
  ASSUME NEW s, Tables(s), NEW o, NEW c \in Ids, Unlisted(s, o, c), ListsDistinct(s),
         NEW kind \in {"pane", "stdin"}, NEW g \in Nat, NEW front \in Nat,
         PartialFunction(o, Ids, [kind : {"pane", "stdin"}, group : Nat, batch : Nat]),
         NEW p, p = Put(o, c, [kind |-> kind, group |-> g, batch |-> front])
  PROVE  /\ Lists(s, o, s, p, c, front)
         /\ PartialFunction(p, Ids, [kind : {"pane", "stdin"}, group : Nat, batch : Nat])
<1> DEFINE v == [kind |-> kind, group |-> g, batch |-> front]
<1>1. /\ v \in [kind : {"pane", "stdin"}, group : Nat, batch : Nat]
      /\ v.batch = front /\ p = Put(o, c, v)
  OBVIOUS
<1> HIDE DEF v
<1>2. /\ DOMAIN p = DOMAIN o \cup {c} /\ p[c] = v
      /\ \A y \in DOMAIN o \ {c} : p[y] = o[y]
      /\ PartialFunction(p, Ids, [kind : {"pane", "stdin"}, group : Nat, batch : Nat])
  <2>1. PartialFunction(Put(o, c, v), Ids,
                        [kind : {"pane", "stdin"}, group : Nat, batch : Nat])
    BY <1>1, PutType
  <2> DEFINE q == Put(o, c, v)
  <2>2. DOMAIN q = DOMAIN o \cup {c}
    BY ONLY TRUE DEF Put
  <2>3. \A y \in DOMAIN q : q[y] = IF y = c THEN v ELSE o[y]
    BY ONLY TRUE DEF Put
  <2>4. p = q
    BY <1>1
  <2> HIDE DEF q
  <2>5. PartialFunction(q, Ids, [kind : {"pane", "stdin"}, group : Nat, batch : Nat])
    BY <2>1 DEF q
  <2> QED BY ONLY <2>2, <2>3, <2>4, <2>5
<1>3. \A y \in Ids \ {c} : Places(s, p, y) = Places(s, o, y)
  BY ONLY <1>2 DEF Places
<1>4. Places(s, p, c) = {<<"outside", c>>}
  BY ONLY <1>2, Unlisted(s, o, c) DEF Unlisted, Places
<1>5. Entered(p, o, c, front) /\ Entered(s.files, s.files, c, front)
  BY ONLY <1>1, <1>2 DEF Entered
<1>6. Lists(s, o, s, p, c, front)
  BY ONLY <1>3, <1>4, <1>5, ListsDistinct(s) DEF Lists, OnePlace
<1> QED BY <1>2, <1>6

\* Job j is new.
AddsJob(s, t, j, v) ==
  /\ Tables(t)
  /\ t.queues = s.queues /\ t.ready = s.ready /\ t.startup = s.startup
  /\ t.channels = s.channels /\ t.eventWaiters = s.eventWaiters /\ t.files = s.files
  /\ j \notin DOMAIN s.jobs /\ DOMAIN t.jobs = DOMAIN s.jobs \cup {j}
  /\ t.jobs[j] = v
  /\ \A y \in DOMAIN s.jobs : t.jobs[y] = s.jobs[y]

\* A job that is under way
JobType == [client : Ids, item : CommandType, batch : Nat, background : BOOLEAN]

\* A free number takes a job.
LEMMA JobIsAdded ==
  ASSUME NEW s, Tables(s), NEW j \in (1..MaxJobs) \ DOMAIN s.jobs, NEW v \in JobType,
         NEW t, t = [s EXCEPT !.jobs = Put(@, j, v)]
  PROVE  AddsJob(s, t, j, v)
<1> DEFINE x == Put(s.jobs, j, v)
           z == [s EXCEPT !.jobs = x]
<1>1. t = z
  OBVIOUS
<1>2. DOMAIN x = DOMAIN s.jobs \cup {j}
  BY ONLY TRUE DEF Put
<1>3. \A y \in DOMAIN x : x[y] = IF y = j THEN v ELSE s.jobs[y]
  BY ONLY TRUE DEF Put
<1>4. PartialFunction(x, 1..MaxJobs, JobType)
  <2>1. PartialFunction(s.jobs, 1..MaxJobs, JobType)
    BY ONLY Tables(s) DEF Tables, JobType
  <2> QED BY <2>1, PutType
<1> HIDE DEF x
<1>5. /\ IsScheduler(z) /\ z.jobs = x
      /\ z.queues = s.queues /\ z.ready = s.ready /\ z.startup = s.startup
      /\ z.channels = s.channels /\ z.eventWaiters = s.eventWaiters /\ z.files = s.files
  BY SetJobs DEF Tables
<1> HIDE DEF z
<1>6. Tables(z)
  BY ONLY <1>4, <1>5, Tables(s) DEF Tables, JobType
<1>7. AddsJob(s, z, j, v)
  BY ONLY <1>2, <1>3, <1>5, <1>6, j \notin DOMAIN s.jobs DEF AddsJob
<1> QED BY <1>1, <1>7

\* A command waits for its job.
LEMMA JobLists ==
  ASSUME NEW s, NEW o, NEW t, NEW j, NEW v \in JobType, AddsJob(s, t, j, v),
         NEW c \in Ids, Unlisted(s, o, c), ListsDistinct(s),
         v.client = c, ~v.background, NEW front, v.batch = front, NEW h, Served(s, h)
  PROVE  Served(t, h) /\ Lists(s, o, t, o, c, front)
<1>1. Served(t, h) /\ ListsDistinct(t)
  BY DEF AddsJob, Served, ListsDistinct
<1>2. \A y : JobsAt(t, y) = IF y = c THEN JobsAt(s, y) \cup {j} ELSE JobsAt(s, y)
  <2>1. \A y, k : k \in JobsAt(t, y) <=> k \in JobsAt(s, y) \/ (k = j /\ y = c)
    BY DEF AddsJob, JobsAt
  <2>2. \A y : y # c => JobsAt(t, y) = JobsAt(s, y)
    BY ONLY <2>1
  <2>3. JobsAt(t, c) = JobsAt(s, c) \cup {j}
    BY ONLY <2>1
  <2> QED BY ONLY <2>2, <2>3
<1>3. \A y \in Ids \ {c} : Places(t, o, y) = Places(s, o, y)
  BY <1>2 DEF AddsJob, Places, WaitsAt, LocksAt
<1>4. Places(t, o, c) = {<<"job", j>>}
  <2>1. JobsAt(t, c) = {j}
    BY <1>2 DEF Unlisted
  <2>2. /\ WaitsAt(t, c) = {} /\ LocksAt(t, c) = {}
        /\ c \notin DOMAIN t.eventWaiters /\ c \notin DOMAIN t.files /\ c \notin DOMAIN o
    BY DEF Unlisted, AddsJob, WaitsAt, LocksAt
  <2> QED BY ONLY <2>1, <2>2 DEF Places
<1>5. Entered(t.files, s.files, c, front) /\ Entered(o, o, c, front)
  BY DEF Entered, AddsJob
<1>6. \A k \in DOMAIN t.jobs : \/ k \in DOMAIN s.jobs /\ t.jobs[k] = s.jobs[k]
                               \/ t.jobs[k].background
                               \/ t.jobs[k].client = c /\ t.jobs[k].batch = front
  BY DEF AddsJob
<1>7. OnePlace(Places(t, o, c))
  BY ONLY <1>4 DEF OnePlace
<1>8. t.queues = s.queues /\ t.ready = s.ready /\ t.startup = s.startup
  BY DEF AddsJob
<1> QED BY ONLY <1>1, <1>3, <1>5, <1>6, <1>7, <1>8 DEF Lists

\* A command starts a job nobody waits for.
LEMMA BackgroundKeeps ==
  ASSUME NEW s, NEW lv, NEW cl, NEW o, NEW d, NEW ak, NEW an, NEW h, NEW X,
         Bundle(s, lv, cl, o, d, ak, an, h, X),
         NEW t, NEW j, NEW v, AddsJob(s, t, j, v), v.background
  PROVE  Bundle(t, lv, cl, o, d, ak, an, h, X)
<1>1. /\ t.queues = s.queues /\ t.ready = s.ready /\ t.startup = s.startup
      /\ t.channels = s.channels /\ t.eventWaiters = s.eventWaiters /\ t.files = s.files
      /\ Tables(t)
  BY DEF AddsJob
<1>2. \A y : JobsAt(t, y) = JobsAt(s, y)
  BY DEF AddsJob, JobsAt
<1>3. \A y : Places(t, o, y) = Places(s, o, y)
  BY <1>1, <1>2 DEF Places, WaitsAt, LocksAt
<1>4. \A y : (Has(t, d, y) <=> Has(s, d, y)) /\ QueueIn(t, d, y) = QueueIn(s, d, y)
  BY <1>1 DEF Has, QueueIn
<1>5. Listing(t, o, d, lv \ cl)
  <2>1. Listing(s, o, d, lv \ cl)
    BY DEF Bundle
  <2> QED BY ONLY <1>1, <1>2, <1>3, <1>4, <2>1 DEF Listing, ListsDistinct
<1>6. Fronts(t, o, d)
  <2>1. Fronts(s, o, d)
    BY DEF Bundle
  <2>2. \A y, b : AtFront(s, d, y, b) => AtFront(t, d, y, b)
    BY ONLY <1>4 DEF AtFront
  <2>3. \A k \in DOMAIN t.jobs : ~t.jobs[k].background =>
          k \in DOMAIN s.jobs /\ t.jobs[k] = s.jobs[k]
    BY DEF AddsJob
  <2> QED BY ONLY <1>1, <2>1, <2>2, <2>3 DEF Fronts
<1>7. InOrder(t, d, ak, an, lv \ cl, X)
  <2>1. InOrder(s, d, ak, an, lv \ cl, X)
    BY DEF Bundle
  <2> QED BY <1>4, <2>1, InOrderSame
<1>8. Served(t, h) /\ StartsAlone(t, lv, d) /\ Runnable(t, X)
  <2>1. Served(s, h) /\ StartsAlone(s, lv, d) /\ Runnable(s, X)
    BY DEF Bundle
  <2> QED BY ONLY <1>1, <2>1 DEF Served, StartsAlone, Has, Runnable
<1>9. Control(lv, cl, o, d, ak, an, h)
  BY DEF Bundle
<1> QED BY <1>1, <1>5, <1>6, <1>7, <1>8, <1>9 DEF Bundle

\* A command that waits blocks its queue.
LEMMA WaitingIsStopping ==
  ASSUME NEW b, Waits(b) PROVE driving' = Stopping(RanOf(driving, b))
BY DEF Waits, Ran, RanOf, Stopping

\* What every command that waits starts from
LEMMA WaitFacts ==
  ASSUME Inv, Running, Current.commands # <<>>
  PROVE  /\ Bundle(scheduler, live, closing, outside, driving, asked, answered, holders, {})
         /\ MayRun(driving, live \ closing)
         /\ Unlisted(scheduler, outside, driving.id) /\ driving.id \in Ids
         /\ Item \in CommandType /\ Item.group \in Nat
         /\ Current = driving.queue.pending[1] /\ Current.id \in Nat
         /\ Rest \in BatchSet /\ Rest.id = Current.id /\ Becomes(driving, Rest)
         /\ \A b \in Followed(Rest) : Becomes(driving, b)
<1>1. Bundle(scheduler, live, closing, outside, driving, asked, answered, holders, {})
      /\ MayRun(driving, live \ closing) /\ Current = driving.queue.pending[1]
  BY NowBundle, Driven
<1>2. /\ Item \in CommandType /\ Rest \in BatchSet /\ Rest.id = Current.id
      /\ Current.id \in Nat
      /\ \A b \in Followed(Rest) : b \in BatchSet /\ b.id = Rest.id
  BY CommandFacts
<1>3. Unlisted(scheduler, outside, driving.id) /\ driving.id \in Ids
  BY <1>1, DrivenIsUnlisted
<1>4. Item.group \in Nat
  BY <1>2 DEF CommandType
<1> QED BY <1>1, <1>2, <1>3, <1>4 DEF Becomes

\* Some parts of the invariant
LEMMA BundleParts ==
  ASSUME NEW s, NEW lv, NEW cl, NEW o, NEW d, NEW ak, NEW an, NEW h, NEW X,
         Bundle(s, lv, cl, o, d, ak, an, h, X)
  PROVE  /\ Tables(s) /\ ListsDistinct(s) /\ Served(s, h)
         /\ PartialFunction(o, Ids, [kind : {"pane", "stdin"}, group : Nat, batch : Nat])
         /\ h \in [Channels -> SUBSET Ids]
BY DEF Bundle, Listing, Control

\* A command that waits for an event
LEMMA RunAwaitKeeps == Inv /\ RunAwait => Inv'
<1> SUFFICES ASSUME Inv, RunAwait PROVE Inv'
  OBVIOUS
<1> DEFINE s == scheduler
           o == outside
           c == driving.id
           g == Item.group
           t == [s EXCEPT !.eventWaiters = Put(@, c, [group |-> g])]
           e == driving'
           b == Rest
           front == driving.queue.pending[1].id
<1>1. /\ Running /\ Current.commands # <<>> /\ Waits(b) /\ scheduler' = t
      /\ UNCHANGED <<live, closing, outside, asked, answered, holders>>
  BY DEF RunAwait, Runs
<1>2. /\ Bundle(s, live, closing, o, driving, asked, answered, holders, {})
      /\ MayRun(driving, live \ closing)
      /\ Unlisted(s, o, c) /\ c \in Ids /\ g \in Nat
      /\ Becomes(driving, b)
  BY <1>1, WaitFacts
<1>3. e = Stopping(RanOf(driving, b))
  BY <1>1, WaitingIsStopping
<1>4. t = [s EXCEPT !.eventWaiters = Put(@, c, [group |-> g])] /\ c = driving.id
      /\ front = driving.queue.pending[1].id
  OBVIOUS
<1> HIDE DEF s, o, c, g, t, e, b, front
<1>5. Tables(s) /\ ListsDistinct(s) /\ Served(s, holders)
      /\ PartialFunction(o, Ids, [kind : {"pane", "stdin"}, group : Nat, batch : Nat])
  BY ONLY <1>2, BundleParts
<1>6. Tables(t) /\ Served(t, holders) /\ Lists(s, o, t, o, c, front)
  BY ONLY <1>2, <1>4, <1>5, AwaitLists
<1>7. Bundle(t, live, closing, o, e, asked, answered, holders, {})
  <2>1. Lists(s, o, t, o, driving.id, driving.queue.pending[1].id)
    BY ONLY <1>4, <1>6
  <2> QED BY ONLY <1>2, <1>3, <1>5, <1>6, <2>1, WaitKeeps
<1> QED BY <1>1, <1>7 DEF Inv, o, e

\* A command that waits for a file
LEMMA RunFileKeeps == Inv /\ RunFile => Inv'
<1> SUFFICES ASSUME Inv, RunFile PROVE Inv'
  OBVIOUS
<1>1. PICK s \in Signals(scheduler) : scheduler' = [s EXCEPT !.files =
         Put(@, driving.id, [item |-> Item, batch |-> Current.id])]
  BY DEF RunFile
<1>2. PICK b \in Followed(Rest) : Waits(b)
  BY DEF RunFile
<1> DEFINE o == outside
           c == driving.id
           item == Item
           front == driving.queue.pending[1].id
           t == [s EXCEPT !.files = Put(@, c, [item |-> item, batch |-> front])]
           e == driving'
<1>3. /\ Running /\ Current.commands # <<>> /\ c \in Clients
      /\ UNCHANGED <<live, closing, outside, asked, answered, holders>>
  BY DEF RunFile, Runs
<1>4. /\ Bundle(scheduler, live, closing, o, driving, asked, answered, holders, {})
      /\ MayRun(driving, live \ closing)
      /\ c \in Ids /\ item \in CommandType /\ front \in Nat
      /\ Becomes(driving, b) /\ Current.id = front
  BY <1>2, <1>3, WaitFacts
<1>5. Bundle(s, live, closing, o, driving, asked, answered, holders, {})
  <2>1. ~driving.queue.blocked
    BY <1>4 DEF MayRun
  <2> QED BY <1>1, <1>4, <2>1, SignalKeeps
<1>6. e = Stopping(RanOf(driving, b))
  BY <1>2, WaitingIsStopping
<1>7. scheduler' = t /\ t = [s EXCEPT !.files = Put(@, c, [item |-> item, batch |-> front])]
      /\ c = driving.id /\ front = driving.queue.pending[1].id
  BY <1>1, <1>4
<1> HIDE DEF o, c, item, front, t, e
<1>8. Unlisted(s, o, c)
  BY ONLY <1>4, <1>5, <1>7, DrivenIsUnlisted
<1>9. Tables(s) /\ ListsDistinct(s) /\ Served(s, holders)
      /\ PartialFunction(o, Ids, [kind : {"pane", "stdin"}, group : Nat, batch : Nat])
  BY ONLY <1>5, BundleParts
<1>10. Tables(t) /\ Served(t, holders) /\ Lists(s, o, t, o, c, front)
  BY ONLY <1>3, <1>4, <1>7, <1>8, <1>9, FileLists
<1>11. Bundle(t, live, closing, o, e, asked, answered, holders, {})
  <2>1. Lists(s, o, t, o, driving.id, driving.queue.pending[1].id)
    BY ONLY <1>7, <1>10
  <2> QED BY ONLY <1>4, <1>5, <1>6, <1>9, <1>10, <2>1, WaitKeeps
<1> QED BY <1>3, <1>7, <1>11 DEF Inv, o, e

\* A command that waits for a pane or its input
LEMMA RunPaneKeeps ==
  ASSUME NEW kind \in {"pane", "stdin"} PROVE Inv /\ RunPane(kind) => Inv'
<1> SUFFICES ASSUME Inv, RunPane(kind) PROVE Inv'
  OBVIOUS
<1>1. PICK b \in Followed(Rest) : Waits(b)
  BY DEF RunPane
<1> DEFINE o == outside
           s == scheduler'
           lw == live'
           c == driving.id
           g == Item.group
           front == driving.queue.pending[1].id
           p == Put(o, c, [kind |-> kind, group |-> g, batch |-> front])
           e == driving'
<1>2. /\ Running /\ Current.commands # <<>> /\ HooksFire
      /\ UNCHANGED <<closing, asked, answered, holders>>
      /\ outside' = Put(o, c, [kind |-> kind, group |-> g, batch |-> Current.id])
  BY DEF RunPane, Runs
<1>3. /\ Bundle(scheduler, live, closing, o, driving, asked, answered, holders, {})
      /\ MayRun(driving, live \ closing)
      /\ c \in Ids /\ g \in Nat /\ front \in Nat
      /\ Becomes(driving, b) /\ Current.id = front
  BY <1>1, <1>2, WaitFacts
<1>4. Bundle(s, lw, closing, o, driving, asked, answered, holders, {})
  <2>1. ~driving.queue.blocked
    BY <1>3 DEF MayRun
  <2> QED BY <1>2, <1>3, <2>1, FireKeeps
<1>5. MayRun(driving, lw \ closing)
  <2>1. live \subseteq lw
    BY <1>2 DEF HooksFire
  <2> QED BY <1>3, <2>1 DEF MayRun
<1>6. e = Stopping(RanOf(driving, b))
  BY <1>1, WaitingIsStopping
<1>7. outside' = p /\ p = Put(o, c, [kind |-> kind, group |-> g, batch |-> front])
      /\ c = driving.id /\ front = driving.queue.pending[1].id
  BY <1>2, <1>3
<1> HIDE DEF o, s, lw, c, g, front, p, e
<1>8. Unlisted(s, o, c)
  BY ONLY <1>4, <1>5, <1>7, DrivenIsUnlisted
<1>9. Tables(s) /\ ListsDistinct(s) /\ Served(s, holders)
      /\ PartialFunction(o, Ids, [kind : {"pane", "stdin"}, group : Nat, batch : Nat])
  BY ONLY <1>4, BundleParts
<1>10. /\ Lists(s, o, s, p, c, front)
       /\ PartialFunction(p, Ids, [kind : {"pane", "stdin"}, group : Nat, batch : Nat])
  BY ONLY <1>3, <1>7, <1>8, <1>9, kind \in {"pane", "stdin"}, OutsideLists
<1>11. Bundle(s, lw, closing, p, e, asked, answered, holders, {})
  <2>1. Lists(s, o, s, p, driving.id, driving.queue.pending[1].id)
    BY ONLY <1>7, <1>10
  <2> QED BY ONLY <1>3, <1>4, <1>5, <1>6, <1>9, <1>10, <2>1, WaitKeeps
<1> QED BY <1>2, <1>7, <1>11 DEF Inv, s, lw, e

\* The number a job takes is free.
LEMMA FreeJob ==
  ASSUME NEW S, (1..MaxJobs) \ S # {}
  PROVE  Min((1..MaxJobs) \ S) \in (1..MaxJobs) \ S
<1> DEFINE F == (1..MaxJobs) \ S
<1>1. F \subseteq Nat /\ F # {}
  BY Constants
<1>2. \E x \in F : \A y \in F : x <= y
  BY <1>1, LeastOf
<1> HIDE DEF F
<1>3. Min(F) \in F
  BY <1>2 DEF Min
<1> QED BY <1>3 DEF F

\* A command that starts a job
LEMMA RunJobKeeps ==
  ASSUME NEW background \in BOOLEAN PROVE Inv /\ RunJob(background) => Inv'
<1> SUFFICES ASSUME Inv, RunJob(background) PROVE Inv'
  OBVIOUS
<1> DEFINE s == scheduler
           o == outside
           c == driving.id
           b == Rest
           front == driving.queue.pending[1].id
           v == [client |-> c, item |-> Item, batch |-> front, background |-> background]
           j == Min((1..MaxJobs) \ DOMAIN s.jobs)
           t == [s EXCEPT !.jobs = Put(@, j, v)]
           e == driving'
<1>1. /\ Running /\ Current.commands # <<>>
      /\ (1..MaxJobs) \ DOMAIN s.jobs # {}
      /\ scheduler' = [s EXCEPT !.jobs = Put(@, j, [v EXCEPT !.batch = Current.id])]
      /\ background => Done(b)
      /\ ~background => Waits(b)
      /\ UNCHANGED <<live, closing, outside, asked, answered, holders>>
  BY DEF RunJob, Runs
<1>2. /\ Bundle(s, live, closing, o, driving, asked, answered, holders, {})
      /\ MayRun(driving, live \ closing)
      /\ Unlisted(s, o, c) /\ c \in Ids /\ Item \in CommandType /\ front \in Nat
      /\ b \in BatchSet /\ b.id = Current.id /\ Becomes(driving, b) /\ Current.id = front
  BY <1>1, WaitFacts
<1>3. j \in (1..MaxJobs) \ DOMAIN s.jobs
  BY <1>1, FreeJob
<1>4. /\ v \in JobType /\ v.client = c /\ v.batch = front
      /\ (v.background <=> background)
  BY <1>2 DEF JobType
<1>5. scheduler' = t
  BY <1>1, <1>2
<1>6. t = [s EXCEPT !.jobs = Put(@, j, v)] /\ c = driving.id
      /\ front = driving.queue.pending[1].id
  OBVIOUS
<1>7. Tables(s) /\ ListsDistinct(s) /\ Served(s, holders)
      /\ PartialFunction(o, Ids, [kind : {"pane", "stdin"}, group : Nat, batch : Nat])
  BY <1>2, BundleParts
<1> HIDE DEF s, o, c, b, front, v, j, t, e
<1>8. AddsJob(s, t, j, v)
  BY ONLY <1>3, <1>4, <1>6, <1>7, JobIsAdded
<1>9. Bundle(t, live, closing, o, e, asked, answered, holders, {})
  <2>1. CASE background
    <3>1. Bundle(s, live, closing, o, e, asked, answered, holders, {})
      BY <1>1, <1>2, <2>1, DoneIsKept DEF s, o, e
    <3>2. v.background
      BY <1>4, <2>1
    <3> QED BY ONLY <1>8, <3>1, <3>2, BackgroundKeeps
  <2>2. CASE ~background
    <3>1. e = Stopping(RanOf(driving, b))
      BY <1>1, <2>2, WaitingIsStopping DEF e
    <3>2. ~v.background
      BY <1>4, <2>2
    <3>3. Served(t, holders) /\ Lists(s, o, t, o, c, front)
      BY ONLY <1>2, <1>4, <1>7, <1>8, <3>2, JobLists
    <3>4. Lists(s, o, t, o, driving.id, driving.queue.pending[1].id)
      BY ONLY <1>6, <3>3
    <3>5. Tables(t)
      BY ONLY <1>8 DEF AddsJob
    <3> QED BY ONLY <1>2, <1>7, <3>1, <3>3, <3>4, <3>5, WaitKeeps
  <2> QED BY <2>1, <2>2
<1> QED BY <1>1, <1>5, <1>9 DEF Inv, o, e

-----------------------------------------------------------------------------
(* Drives begin and end                                                    *)

\* Who is gone is listed with nobody outside.
LEMMA GoneIsNotOutside ==
  ASSUME NEW s, NEW o, NEW d, NEW P, Listing(s, o, d, P), NEW c \in Ids, ~Has(s, d, c)
  PROVE  c \notin DOMAIN o
<1>1. Places(s, o, c) \subseteq {"job"} \X JobsAt(s, c)
  BY DEF Listing
<1>2. c \in DOMAIN o => <<"outside", c>> \in Places(s, o, c)
  BY ONLY TRUE DEF Places
<1> QED BY <1>1, <1>2

\* A queue of the ready list whose client is gone is dropped.
LEMMA GoneDrops ==
  ASSUME NEW s, NEW lv, NEW cl, NEW o, NEW ak, NEW an, NEW h,
         Bundle(s, lv, cl, o, Nobody, ak, an, h, {}),
         NEW c \in Ids, c \notin lv \ cl
  PROVE  Bundle(Lost(s, c), lv, cl, o, Nobody, ak, an, h, {})
<1> DEFINE d == Nobody
<1>1. /\ Listing(s, o, d, lv \ cl) /\ Control(lv, cl, o, d, ak, an, h)
      /\ StartsAlone(s, lv, d) /\ Tables(s)
  BY DEF Bundle
<1>2. d.id = None /\ c # None
  BY NobodyIsFine, Constants DEF NobodyDrives
<1>3. c \notin DOMAIN s.queues /\ ~Has(s, d, c)
  <2>1. DOMAIN s.queues \subseteq lv \ cl
    BY <1>1 DEF Listing
  <2> QED BY <1>2, <2>1 DEF Has
<1>4. DOMAIN o = DOMAIN o \ {c} /\ Part(o, o)
  BY <1>1, <1>3, GoneIsNotOutside, PartSame
<1>5. s.startup = None \/ c # Config
  <2>1. cl \subseteq Clients
    BY <1>1 DEF Control
  <2> QED BY <1>1, <2>1, Constants DEF StartsAlone
<1>6. /\ lv \subseteq lv /\ lv \ {c} \subseteq lv /\ cl \subseteq lv \cap Clients
      /\ lv \ cl = (lv \ cl) \ {c}
  BY <1>1 DEF Control
<1>7. /\ d.id = c => ~d.queue.blocked /\ c \in Clients
      /\ c \in {} => d.id # c
  BY <1>2
<1>8. Bundle(s, lv, cl, o, d, ak, an, h, {})
  OBVIOUS
<1> HIDE DEF d
<1>9. Bundle(Lost(s, c), lv, cl, o, d, ak, an, h, {} \ {c})
  BY ONLY <1>4, <1>5, <1>6, <1>7, <1>8, DropKeeps
<1>10. {} \ {c} = {}
  OBVIOUS
<1> QED BY <1>9, <1>10 DEF d

\* drive takes the head of the ready list.
LEMMA DriveBeginsKeeps == Inv /\ DriveBegins => Inv'
<1> SUFFICES ASSUME Inv, DriveBegins PROVE Inv'
  OBVIOUS
<1> DEFINE s == scheduler
           c == Head(s.ready)
           t == Popped(s)
<1>1. /\ Idle /\ s.ready # <<>>
      /\ UNCHANGED <<live, closing, outside, asked, answered, holders>>
  BY DEF DriveBegins
<1>2. /\ Bundle(s, live, closing, outside, Nobody, asked, answered, holders, {})
      /\ driving = Nobody /\ Tables(s)
  BY <1>1, NowBundle, IdleIsUnblocked
<1>3. c \in Ids
  BY <1>1, <1>2, PoppedFields DEF Tables
<1>4. DOMAIN s.queues \subseteq live \ closing
  BY <1>2 DEF Bundle, Listing
<1>5. /\ c \notin live \ closing => scheduler' = Lost(t, c) /\ UNCHANGED driving
      /\ c \in live \ closing /\ c \notin DOMAIN s.queues =>
           scheduler' = t /\ UNCHANGED driving
      /\ c \in live \ closing /\ c \in DOMAIN s.queues =>
           /\ scheduler' = [t EXCEPT !.queues = Without(@, c)]
           /\ driving' = [id |-> c, queue |-> s.queues[c], budget |-> Quantum,
                          replies |-> <<>>, detach |-> FALSE]
  BY DEF DriveBegins, Popped
<1>6. c = Head(s.ready) /\ t = Popped(s)
  OBVIOUS
<1> HIDE DEF s, c, t
<1>7. c \notin DOMAIN s.queues =>
        Bundle(t, live, closing, outside, Nobody, asked, answered, holders, {})
  BY <1>1, <1>2, <1>6, PopKeeps
<1>8. Bundle(scheduler', live, closing, outside, driving', asked, answered, holders, {})
  <2>1. CASE c \notin live \ closing
    <3>1. Bundle(Lost(t, c), live, closing, outside, Nobody, asked, answered, holders, {})
      BY <1>3, <1>4, <1>7, <2>1, GoneDrops
    <3> QED BY <1>2, <1>5, <2>1, <3>1
  <2>2. CASE c \in live \ closing /\ c \notin DOMAIN s.queues
    BY <1>2, <1>5, <1>7, <2>2
  <2>3. CASE c \in live \ closing /\ c \in DOMAIN s.queues
    <3> DEFINE u == scheduler'
               e == driving'
    <3>1. /\ u = [Popped(s) EXCEPT !.queues = Without(@, c)]
          /\ e = [id |-> c, queue |-> s.queues[c], budget |-> Quantum,
                  replies |-> <<>>, detach |-> FALSE]
          /\ c \in DOMAIN s.queues /\ c \notin {}
      BY <1>5, <1>6, <2>3
    <3> HIDE DEF u, e
    <3>2. Bundle(u, live, closing, outside, e, asked, answered, holders, {})
      BY ONLY <1>1, <1>2, <1>6, <3>1, TakeKeeps
    <3> QED BY <3>2 DEF u, e
  <2> QED BY <2>1, <2>2, <2>3
<1> QED BY <1>1, <1>8 DEF Inv

\* The client is gone by the end of the drive.
LEMMA DriveLostKeeps == Inv /\ DriveLost => Inv'
<1> SUFFICES ASSUME Inv, DriveLost PROVE Inv'
  OBVIOUS
<1>1. /\ driving.id # None /\ driving.id \notin live \ closing
      /\ scheduler' = Lost(scheduler, driving.id) /\ driving' = Nobody
      /\ UNCHANGED <<live, closing, outside, asked, answered, holders>>
  BY DEF DriveLost, Stopped, Idle
<1>2. Bundle(scheduler, live, closing, outside, driving, asked, answered, holders, {})
  BY NowBundle
<1>3. Bundle(scheduler, live, closing, outside, Nobody, asked, answered, holders, {})
  BY <1>1, <1>2, ForgetKeeps
<1>4. driving.id \in Ids
  BY <1>1, <1>2, DriveFields DEF Bundle, Control
<1>5. Bundle(Lost(scheduler, driving.id), live, closing, outside, Nobody, asked, answered,
             holders, {})
  BY <1>1, <1>3, <1>4, GoneDrops
<1> QED BY <1>1, <1>5 DEF Inv

\* What comes back
Back(s, t, lv, cl, o, ak, am, h, Y, id, q) ==
  /\ Core(t, lv, cl, o, Nobody, ak, am, h, Y)
  /\ StartsAlone(t, lv, Nobody)
  /\ Runnable(t, {id}) /\ t.queues[id] = q /\ t.jobs = s.jobs

\* The queue of a client that is still there returns.
LEMMA ReturnedIsBack ==
  ASSUME Inv, Returns, NEW am, NEW Y,
         \/ am = answered /\ (driving.id \in Clients => driving.id \in Y)
         \/ /\ driving.id \in Clients
            /\ am = [answered EXCEPT ![driving.id] = @ \o driving.replies]
  PROVE  /\ Back(scheduler, Returned, live, closing, outside, asked, am, holders, Y,
                 driving.id, driving.queue)
         /\ driving.id \in Ids
<1> DEFINE t == Returned
           X == {}
<1>1. driving.id \in live \ closing
  BY DEF Returns
<1>2. Bundle(scheduler, live, closing, outside, driving, asked, answered, holders, X)
      /\ IsScheduler(scheduler)
  BY NowBundle
<1>3. driving.id \in Ids
  BY <1>1, <1>2 DEF Bundle, Control
<1>4. t = [scheduler EXCEPT !.queues = Put(@, driving.id, driving.queue)]
  BY DEF Returned
<1>5. t.jobs = scheduler.jobs
  BY <1>2, <1>4, SetQueues
<1>6. X \subseteq Y /\ driving.id \notin X /\ X \cup {driving.id} = {driving.id}
  OBVIOUS
<1> HIDE DEF t, X
<1>7. /\ Core(t, live, closing, outside, Nobody, asked, am, holders, Y)
      /\ StartsAlone(t, live, Nobody)
      /\ Runnable(t, X \cup {driving.id}) /\ t.queues[driving.id] = driving.queue
  <2>1. Pays(driving, answered, am, X, Y) /\ PutBack(scheduler, t, driving)
    BY <1>4, <1>6 DEF Pays, PutBack
  <2> QED BY ONLY <1>1, <1>2, <1>6, <2>1, ReturnKeeps, SMTT(60)
<1> QED BY <1>3, <1>5, <1>6, <1>7 DEF Back, t

\* What is known once it is back
LEMMA BackIsCore ==
  ASSUME NEW s, NEW t, NEW lv, NEW cl, NEW o, NEW ak, NEW am, NEW h, NEW Y, NEW id, NEW q,
         Back(s, t, lv, cl, o, ak, am, h, Y, id, q)
  PROVE  /\ Core(t, lv, cl, o, Nobody, ak, am, h, Y) /\ StartsAlone(t, lv, Nobody)
         /\ Runnable(t, {id}) /\ t.queues[id] = q /\ t.jobs = s.jobs
         /\ (q.pending = <<>> \/ q.blocked) => Runnable(t, {})
<1>1. /\ Core(t, lv, cl, o, Nobody, ak, am, h, Y) /\ StartsAlone(t, lv, Nobody)
      /\ Runnable(t, {id}) /\ t.queues[id] = q /\ t.jobs = s.jobs
  BY DEF Back
<1>2. (q.pending = <<>> \/ q.blocked) => Runnable(t, {})
  BY ONLY <1>1 DEF Runnable
<1> QED BY <1>1, <1>2

\* What is known of a client that is still there
LEMMA ReturnFacts ==
  ASSUME Inv, Returns
  PROVE  /\ driving.id \in Ids /\ driving.id \in live \ closing /\ driving.id # None
         /\ driving' = Nobody /\ UNCHANGED <<asked, holders>>
         /\ live \subseteq Ids /\ closing \subseteq live \cap Clients
         /\ driving.detach => driving.id \in Clients
<1>1. /\ driving.id \in live \ closing /\ driving.id # None
      /\ driving' = Nobody /\ UNCHANGED <<asked, holders>>
  BY DEF Returns, Stopped, Idle
<1>2. /\ live \subseteq Ids /\ closing \subseteq live \cap Clients
      /\ driving.detach => driving.id \in Clients
  BY NowBundle DEF Control
<1> QED BY <1>1, <1>2

\* What is replied is what the queue has to reply.
LEMMA RepliedIsBack ==
  ASSUME Inv, Returns, Replied
  PROVE  Back(scheduler, Returned, live, closing, outside, asked, answered', holders, {},
              driving.id, driving.queue)
<1> DEFINE am == answered'
<1>1. \/ am = answered /\ (driving.id \in Clients => driving.id \in {})
      \/ /\ driving.id \in Clients
         /\ am = [answered EXCEPT ![driving.id] = @ \o driving.replies]
  BY DEF Replied
<1> HIDE DEF am
<1>2. Back(scheduler, Returned, live, closing, outside, asked, am, holders, {},
           driving.id, driving.queue)
  BY <1>1, ReturnedIsBack
<1> QED BY <1>2 DEF am

\* The replies are sent, and the queue is ready again if it may run.
LEMMA DriveEndsKeeps == Inv /\ DriveEnds => Inv'
<1> SUFFICES ASSUME Inv, DriveEnds PROVE Inv'
  OBVIOUS
<1> DEFINE t == Returned
           u == scheduler'
           c == driving.id
           q == driving.queue
           am == answered'
<1>1. /\ Returns /\ Replied /\ scheduler' = Requeue(Returned)
      /\ UNCHANGED <<live, closing, outside>>
  BY DEF DriveEnds
<1>2. Back(scheduler, t, live, closing, outside, asked, am, holders, {}, c, q)
  BY <1>1, RepliedIsBack
<1>3. /\ q.pending # <<>> /\ ~q.blocked => u = Ready(t, c)
      /\ q.pending = <<>> \/ q.blocked => u = t
  BY <1>1 DEF Requeue, Unfinished
<1>4. c \in Ids /\ driving' = Nobody /\ UNCHANGED <<asked, holders>>
  BY <1>1, ReturnFacts
<1> HIDE DEF t, u, c, q, am
<1>5. /\ Core(t, live, closing, outside, Nobody, asked, am, holders, {})
      /\ StartsAlone(t, live, Nobody) /\ Runnable(t, {c})
      /\ (q.pending = <<>> \/ q.blocked) => Runnable(t, {})
  BY ONLY <1>2, BackIsCore
<1>6. Bundle(u, live, closing, outside, Nobody, asked, am, holders, {})
  <2>1. CASE q.pending # <<>> /\ ~q.blocked
    <3>1. /\ Core(Ready(t, c), live, closing, outside, Nobody, asked, am, holders, {})
          /\ StartsAlone(Ready(t, c), live, Nobody) /\ Runnable(Ready(t, c), {c} \ {c})
      BY ONLY <1>4, <1>5, ReadyKeeps
    <3>2. {c} \ {c} = {}
      OBVIOUS
    <3> QED BY ONLY <1>3, <2>1, <3>1, <3>2, CoreOfBundle
  <2>2. CASE q.pending = <<>> \/ q.blocked
    BY ONLY <1>3, <1>5, <2>2, CoreOfBundle
  <2> QED BY <2>1, <2>2
<1> QED BY <1>1, <1>4, <1>6 DEF Inv, u, am

\* A client that detaches gets its replies, and closes.
LEMMA DriveDetachesKeeps == Inv /\ DriveDetaches => Inv'
<1> SUFFICES ASSUME Inv, DriveDetaches PROVE Inv'
  OBVIOUS
<1> DEFINE t == Returned
           c == driving.id
           q == driving.queue
           am == answered'
           d == Nobody
<1>1. /\ Returns /\ Replied /\ driving.detach
      /\ Disconnect(c, t) \/ Close(c, t)
  BY DEF DriveDetaches
<1>2. Back(scheduler, t, live, closing, outside, asked, am, holders, {}, c, q)
  BY <1>1, RepliedIsBack
<1>3. /\ c \in Ids /\ c # None /\ c \in live /\ c \in Clients /\ driving' = d
      /\ UNCHANGED <<asked, holders>>
  BY <1>1, ReturnFacts
<1>4. ~d.queue.blocked /\ d.id = None /\ d = Nobody
  BY NobodyIsFine DEF NobodyDrives
<1> HIDE DEF t, c, q, am, d
<1>5. /\ Core(t, live, closing, outside, d, asked, am, holders, {})
      /\ StartsAlone(t, live, d) /\ Runnable(t, {c}) /\ t.jobs = scheduler.jobs
  BY ONLY <1>2, <1>4, BackIsCore
<1>6. {} \subseteq {c} /\ {c} \ {c} = {} /\ (c \in {c} => d.id # c)
  BY <1>3, <1>4
<1>7. Core(t, live, closing, outside, d, asked, am, holders, {c})
  BY ONLY <1>5, <1>6, CoreWeakens
<1>8. Bundle(t, live, closing, outside, d, asked, am, holders, {c})
  BY ONLY <1>5, <1>7, CoreOfBundle
<1>9. HooksAreFree(t, live)
  BY <1>5 DEF HooksAreFree, FreeHooks
<1>10. Bundle(scheduler', live', closing', outside', d, asked, am, holders, {c} \ {c})
  <2>1. CASE Disconnect(c, t)
    BY ONLY <1>3, <1>4, <1>6, <1>8, <1>9, <2>1, DisconnectKeeps
  <2>2. CASE Close(c, t)
    BY ONLY <1>3, <1>4, <1>6, <1>8, <1>9, <2>2, CloseKeeps
  <2> QED BY <1>1, <2>1, <2>2
<1> QED BY <1>3, <1>6, <1>10 DEF Inv, am

\* A client that does not take its replies is disconnected.
LEMMA DriveCannotReplyKeeps == Inv /\ DriveCannotReply => Inv'
<1> SUFFICES ASSUME Inv, DriveCannotReply PROVE Inv'
  OBVIOUS
<1> DEFINE t == Returned
           c == driving.id
           q == driving.queue
           d == Nobody
           p == Without(outside, c)
           u == scheduler'
<1>1. /\ Returns /\ c \in Clients /\ outside' = p
      /\ UNCHANGED <<closing, answered>>
  BY DEF DriveCannotReply
<1>2. PICK e \in Events(t) :
        /\ scheduler' = IF driving.detach THEN Lost(e.scheduler, c)
                        ELSE Requeue(Lost(e.scheduler, c))
        /\ live' = (live \ {c}) \cup e.started
  BY DEF DriveCannotReply
<1> DEFINE w == e.scheduler
           H == e.started
           s == Lost(w, c)
           lw == (live \ {c}) \cup H
<1>3. Back(scheduler, t, live, closing, outside, asked, answered, holders, {c}, c, q)
  BY ReturnedIsBack, <1>1
<1>4. /\ c \in Ids /\ c # None /\ c \in live \ closing /\ driving' = d
      /\ UNCHANGED <<asked, holders>>
      /\ live \subseteq Ids /\ closing \subseteq live \cap Clients
  BY <1>1, ReturnFacts
<1>5. u \in {s, Ready(s, c)} /\ live' = lw
  BY <1>2 DEF Requeue
<1>6. ~d.queue.blocked /\ d.id = None /\ d = Nobody
  BY NobodyIsFine DEF NobodyDrives
<1>7. Part(p, outside) /\ DOMAIN p = DOMAIN outside \ {c}
  BY WithoutClient
<1> HIDE DEF t, c, q, d, p, u
<1>8. /\ Core(t, live, closing, outside, d, asked, answered, holders, {c})
      /\ StartsAlone(t, live, d) /\ Runnable(t, {c}) /\ t.jobs = scheduler.jobs
  BY ONLY <1>3, <1>6, BackIsCore
<1>9. Bundle(t, live, closing, outside, d, asked, answered, holders, {c})
  BY ONLY <1>8, CoreOfBundle
<1>10. HooksAreFree(t, live)
  BY <1>8 DEF HooksAreFree, FreeHooks
<1>11. /\ Bundle(w, live \cup H, closing, outside, d, asked, answered, holders, {c})
       /\ H \subseteq Hooks
  BY ONLY <1>2, <1>6, <1>9, <1>10, EventKeeps
<1>12. /\ lw \subseteq live \cup H /\ (live \cup H) \ {c} \subseteq lw
       /\ closing \subseteq lw \cap Clients
       /\ lw \ closing = ((live \cup H) \ closing) \ {c}
  <2>1. c \notin H
    BY <1>1, <1>11, Constants
  <2> HIDE DEF H
  <2> QED BY ONLY <1>4, <2>1
<1>13. /\ d.id = c => ~d.queue.blocked /\ c \in Clients
       /\ c \in {c} => d.id # c
       /\ w.startup = None \/ c # Config
       /\ {c} \ {c} = {}
  BY <1>1, <1>4, <1>6, Constants
<1> HIDE DEF w, H, lw
<1>14. Bundle(Lost(w, c), lw, closing, p, d, asked, answered, holders, {c} \ {c})
  <2> DEFINE lv == live \cup H
  <2>1. /\ Bundle(w, lv, closing, outside, d, asked, answered, holders, {c})
        /\ lw \subseteq lv /\ lv \ {c} \subseteq lw /\ closing \subseteq lw \cap Clients
        /\ lw \ closing = (lv \ closing) \ {c}
    BY <1>11, <1>12
  <2> HIDE DEF lv
  <2> QED BY ONLY <1>7, <1>13, <2>1, DropKeeps, ZenonT(120)
<1>15. Bundle(s, lw, closing, p, d, asked, answered, holders, {})
  BY <1>13, <1>14
<1> HIDE DEF s
<1>16. Bundle(u, lw, closing, p, d, asked, answered, holders, {})
  <2>1. /\ Core(s, lw, closing, p, d, asked, answered, holders, {})
        /\ StartsAlone(s, lw, d) /\ Runnable(s, {})
    BY ONLY <1>15, CoreOfBundle
  <2>2. /\ Core(Ready(s, c), lw, closing, p, d, asked, answered, holders, {})
        /\ StartsAlone(Ready(s, c), lw, d) /\ Runnable(Ready(s, c), {})
    BY ONLY <1>4, <2>1, ReadyKeeps
  <2>3. Bundle(Ready(s, c), lw, closing, p, d, asked, answered, holders, {})
    BY ONLY <2>2, CoreOfBundle
  <2> QED BY <1>5, <1>15, <2>3
<1> QED BY <1>1, <1>4, <1>5, <1>16 DEF Inv, u

\* At the end of the configuration everybody who may run is ready.
LEMMA EverybodyIsReady ==
  ASSUME NEW s, Tables(s), NEW r, r = [s EXCEPT !.startup = None],
         NEW u, u = ReadyAll(r, Ascending(DOMAIN s.queues))
  PROVE  /\ IsScheduler(u) /\ u.queues = s.queues /\ u.channels = s.channels
         /\ u.eventWaiters = s.eventWaiters /\ u.files = s.files /\ u.jobs = s.jobs
         /\ u.ready \in Seq(Ids) /\ u.startup = None
         /\ Runnable(u, {})
<1> DEFINE Q == DOMAIN s.queues
           cs == Ascending(Q)
<1>1. Q \subseteq Ids /\ IsScheduler(s) /\ s.ready \in Seq(Ids)
  BY DEF Tables, PartialFunction
<1>2. IsFiniteSet(Q) /\ Q \subseteq Nat
  BY <1>1, Constants, FS_Subset
<1> HIDE DEF Q
<1>3. cs \in Seq(Q) /\ Range(cs) = Q
  BY <1>2, AscendingSequence
<1>4. cs \in Seq(Ids)
  BY <1>1, <1>3
<1>5. /\ IsScheduler(r) /\ r.startup = None /\ r.ready \in Seq(Ids)
      /\ r.queues = s.queues /\ r.channels = s.channels /\ r.jobs = s.jobs
      /\ r.eventWaiters = s.eventWaiters /\ r.files = s.files
  BY <1>1, SetStartup, SMTT(60)
<1> HIDE DEF cs
<1>6. /\ IsScheduler(u) /\ u.queues = r.queues /\ u.startup = r.startup
      /\ u.channels = r.channels /\ u.eventWaiters = r.eventWaiters
      /\ u.files = r.files /\ u.jobs = r.jobs /\ u.ready \in Seq(Ids)
      /\ \A c \in Range(cs) : r.startup \in {None, c} => c \in Range(u.ready)
  BY <1>4, <1>5, ReadyAllChanges, ZenonT(120) DEF cs, Q
<1>7. Runnable(u, {})
  BY ONLY <1>3, <1>5, <1>6 DEF Runnable, Q
<1> QED BY ONLY <1>5, <1>6, <1>7

\* A hook, or the configuration, has run all its commands.
LEMMA InternalEndsKeeps == Inv /\ InternalEnds => Inv'
<1> SUFFICES ASSUME Inv, InternalEnds PROVE Inv'
  OBVIOUS
<1> DEFINE t == Returned
           c == driving.id
           q == driving.queue
           d == Nobody
           p == Without(outside, c)
           u == scheduler'
           s == Lost(t, c)
           r == [s EXCEPT !.startup = None]
           opened == ReadyAll(r, Ascending(DOMAIN s.queues))
           lw == live \ {c}
           X == {}
<1>1. /\ Returns /\ c \in Internal /\ q.pending = <<>>
      /\ u = IF s.startup = c THEN opened ELSE s
      /\ live' = lw /\ outside' = p /\ UNCHANGED <<closing, answered>>
  BY DEF InternalEnds, Unfinished
<1>2. Back(scheduler, t, live, closing, outside, asked, answered, holders, X, c, q)
  <2>1. c \notin Clients
    BY <1>1, Constants
  <2> QED BY <1>1, <2>1, ReturnedIsBack
<1>3. /\ c \in Ids /\ c # None /\ c \in live \ closing /\ driving' = d
      /\ UNCHANGED <<asked, holders>>
      /\ live \subseteq Ids /\ closing \subseteq live \cap Clients
  BY <1>1, ReturnFacts
<1>4. ~d.queue.blocked /\ d.id = None /\ d = Nobody
  BY NobodyIsFine DEF NobodyDrives
<1>5. Part(p, outside) /\ DOMAIN p = DOMAIN outside \ {c}
  BY WithoutClient
<1>6. /\ lw \subseteq live /\ live \ {c} \subseteq lw /\ closing \subseteq lw \cap Clients
      /\ lw \ closing = (live \ closing) \ {c}
      /\ X \ {c} = X
  BY <1>3
<1>7. /\ d.id = c => ~d.queue.blocked /\ c \in Clients
      /\ c \in X => d.id # c
  BY <1>3, <1>4
<1>8. r = [s EXCEPT !.startup = None] /\ opened = ReadyAll(r, Ascending(DOMAIN s.queues))
      /\ s = Lost(t, c)
  OBVIOUS
<1>9. StartsAlone(scheduler, live, driving)
  BY NowBundle DEF Bundle
<1>10. t.startup = scheduler.startup
  BY NowBundle, SetQueues DEF Returned
<1>11. X = {}
  OBVIOUS
<1> HIDE DEF t, q, d, p, u, s, r, opened, lw, X
<1>12. /\ Core(t, live, closing, outside, d, asked, answered, holders, X)
       /\ (q.pending = <<>> \/ q.blocked) => Runnable(t, X)
  BY ONLY <1>2, <1>4, <1>11, BackIsCore, ZenonT(120)
<1>13. Tables(t) /\ Runnable(t, X)
  BY <1>1, <1>12 DEF Core
<1>14. Core(s, lw, closing, p, d, asked, answered, holders, X \ {c})
  <2> HIDE DEF c
  <2> QED BY ONLY <1>5, <1>6, <1>7, <1>8, <1>12, DropKeepsCore, ZenonT(120)
<1>15. Runnable(s, X \ {c})
  BY <1>8, <1>13, DropKeepsRunnable
<1>16. s.startup = t.startup /\ Tables(s)
  BY <1>8, <1>13, LostChanges
<1>17. s.startup \in {None, Config}
  BY <1>16 DEF Tables
<1>18. s.startup # None => s.startup = c
  BY <1>3, <1>9, <1>10, <1>16, <1>17 DEF StartsAlone
<1>19. Bundle(u, lw, closing, p, d, asked, answered, holders, {})
  <2>1. CASE s.startup = c
    <3>1. u = opened
      BY <1>1, <2>1
    <3>2. /\ IsScheduler(u) /\ u.queues = s.queues /\ u.channels = s.channels
          /\ u.eventWaiters = s.eventWaiters /\ u.files = s.files /\ u.jobs = s.jobs
          /\ u.ready \in Seq(Ids) /\ u.startup = None
          /\ Runnable(u, {})
      BY ONLY <1>8, <1>16, <3>1, EverybodyIsReady
    <3>3. Core(s, lw, closing, p, d, asked, answered, holders, {})
          /\ u.startup \in {None, Config}
      BY <1>6, <1>11, <1>14, <3>2
    <3>4. Core(u, lw, closing, p, d, asked, answered, holders, {})
      BY ONLY <3>2, <3>3, CoreOnReady
    <3>5. StartsAlone(u, lw, d)
      BY <3>2 DEF StartsAlone
    <3> QED BY ONLY <3>2, <3>4, <3>5, CoreOfBundle
  <2>2. CASE s.startup # c
    <3>1. StartsAlone(s, lw, d)
      BY <1>18, <2>2 DEF StartsAlone
    <3>2. u = s
      BY <1>1, <2>2
    <3>3. /\ Core(s, lw, closing, p, d, asked, answered, holders, {})
          /\ Runnable(s, {})
      BY <1>6, <1>11, <1>14, <1>15
    <3> QED BY ONLY <3>1, <3>2, <3>3, CoreOfBundle
  <2> QED BY <2>1, <2>2
<1> QED BY <1>1, <1>3, <1>19 DEF Inv, u

-----------------------------------------------------------------------------
(* Every step keeps the invariant                                          *)

\* The queue of the configuration
LEMMA FirstBatch ==
  LET b == NewBatch(0, <<TopLevel>>)
      q == [pending |-> <<b>>, blocked |-> FALSE]
  IN q \in QueueSet
<1> DEFINE b == NewBatch(0, <<TopLevel>>)
           q == [pending |-> <<b>>, blocked |-> FALSE]
<1>1. b \in BatchSet
  <2>1. <<TopLevel>> \in Seq(CommandType) /\ Len(<<TopLevel>>) <= MaxCommands
    BY Items, Constants
  <2> QED BY <2>1, NewBatches
<1> HIDE DEF b
<1>2. <<b>> \in Batches
  BY <1>1, Constants DEF Batches
<1>3. q \in QueueSet
  BY <1>2 DEF QueueSet
<1> QED BY <1>3 DEF b

\* The invariant holds initially.
LEMMA InitInv == Init => Inv
<1> SUFFICES ASSUME Init PROVE Inv
  OBVIOUS
<1>1. PICK startup \in {None, Config} :
    LET start == {startup} \ {None} IN
    /\ scheduler =
         [queues |-> [c \in start |-> [pending |-> <<NewBatch(0, <<TopLevel>>)>>,
                                       blocked |-> FALSE]],
          ready |-> Ascending(start), startup |-> startup, channels |-> Nothing,
          eventWaiters |-> Nothing, files |-> Nothing, jobs |-> Nothing]
    /\ live = Clients \cup start
    /\ closing = {}
    /\ outside = Nothing
    /\ driving = Nobody
    /\ asked = [c \in Clients |-> 0]
    /\ answered = [c \in Clients |-> <<>>]
    /\ holders = [n \in Channels |-> {}]
  BY DEF Init
<1> DEFINE s == scheduler
           o == outside
           d == driving
           start == {startup} \ {None}
           q == [pending |-> <<NewBatch(0, <<TopLevel>>)>>, blocked |-> FALSE]
           a == Ascending(start)
<1>2. /\ s.queues = [c \in start |-> q] /\ s.ready = a /\ s.startup = startup
      /\ s.channels = Nothing /\ s.eventWaiters = Nothing
      /\ s.files = Nothing /\ s.jobs = Nothing /\ IsScheduler(s)
  BY <1>1 DEF IsScheduler
<1>3. /\ live = Clients \cup start /\ closing = {} /\ o = Nothing /\ d = Nobody
      /\ asked = [c \in Clients |-> 0] /\ answered = [c \in Clients |-> <<>>]
      /\ holders = [n \in Channels |-> {}]
  BY <1>1
<1>4. /\ start \subseteq {Config} /\ (startup # None => startup = Config /\ start = {Config})
      /\ startup \in {None, Config}
  BY <1>1
<1>5. q \in QueueSet /\ ~q.blocked
  BY FirstBatch
<1>6. DOMAIN Nothing = {}
  BY DEF Nothing
<1> HIDE DEF s, o, d, start, q, a
<1>7. a \in Seq(Ids) /\ Range(a) = start
  <2>1. IsFiniteSet(start) /\ start \subseteq Ids /\ start \subseteq Nat
    <3>1. start \subseteq Ids
      BY <1>4, Constants
    <3> QED BY <3>1, Constants, FS_Subset
  <2>2. a \in Seq(start) /\ Range(a) = start
    BY <2>1, AscendingSequence DEF a
  <2>3. start \subseteq Ids
    BY <2>1
  <2> QED BY ONLY <2>2, <2>3
<1>8. DOMAIN s.queues = start /\ \A c \in start : s.queues[c] = q
  BY <1>2
<1>9. Tables(s)
  <2>1. Cardinality(DOMAIN s.channels) <= MaxChannels
    BY <1>2, <1>6, FS_EmptySet, Constants
  <2>2. PartialFunction(s.queues, Ids, QueueSet)
    BY <1>4, <1>5, <1>8, Constants DEF PartialFunction
  <2>3. \A S, T : PartialFunction(Nothing, S, T)
    BY <1>6 DEF PartialFunction
  <2> QED BY ONLY <1>2, <1>4, <1>7, <2>1, <2>2, <2>3 DEF Tables
<1>10. Drives(d) /\ d.id = None /\ ~d.queue.blocked /\ d.detach = FALSE /\ d = Nobody
  BY <1>3, NobodyIsFine DEF NobodyDrives
<1>11. Control(live, closing, o, d, asked, answered, holders)
  <2>1. None \notin Internal
    BY Constants
  <2>2. live \subseteq Ids
    BY <1>3, <1>4, Constants
  <2>3. PartialFunction(o, Ids, [kind : {"pane", "stdin"}, group : Nat, batch : Nat])
    BY <1>3, <1>6 DEF PartialFunction
  <2>4. asked \in [Clients -> 0..RequestBound]
    BY <1>3, Constants
  <2>5. answered \in [Clients -> Seq(Nat)]
    BY <1>3
  <2> QED BY <1>3, <1>10, <2>1, <2>2, <2>3, <2>4, <2>5 DEF Control
<1>12. \A c : Places(s, o, c) = {}
  <2>1. \A c : WaitsAt(s, c) = {} /\ LocksAt(s, c) = {} /\ JobsAt(s, c) = {}
    BY <1>2, <1>6 DEF WaitsAt, LocksAt, JobsAt
  <2> QED BY <1>2, <1>3, <1>6, <2>1 DEF Places
<1>13. \A c : c # None => (Has(s, d, c) <=> c \in start)
  BY <1>8, <1>10 DEF Has
<1>14. \A c \in start : QueueIn(s, d, c) = q
  <2>1. None \notin start
    BY <1>4, Constants
  <2> QED BY <1>8, <1>10, <2>1 DEF QueueIn
<1>15. Listing(s, o, d, live \ closing)
  <2>1. ListsDistinct(s)
    BY <1>2, <1>6 DEF ListsDistinct
  <2>2. d.id \notin DOMAIN s.queues
    BY <1>4, <1>8, <1>10, Constants
  <2>3. DOMAIN s.queues \subseteq live \ closing
    BY <1>3, <1>8
  <2>4. \A c \in Ids : Has(s, d, c) => ~QueueIn(s, d, c).blocked
    BY <1>5, <1>13, <1>14, Constants
  <2> QED BY ONLY <1>10, <1>12, <2>1, <2>2, <2>3, <2>4 DEF Listing
<1>16. Fronts(s, o, d)
  BY <1>2, <1>3, <1>6 DEF Fronts
<1>17. InOrder(s, d, asked, answered, live \ closing, {})
  <2>1. \A c \in Clients : /\ ~Has(s, d, c) /\ d.id # c
                           /\ Len(answered[c]) = 0 /\ asked[c] = 0
    <3> SUFFICES ASSUME NEW c \in Clients
                 PROVE  /\ ~Has(s, d, c) /\ d.id # c
                        /\ Len(answered[c]) = 0 /\ asked[c] = 0
      OBVIOUS
    <3>1. c # None /\ c # Config
      BY Constants
    <3> QED BY <1>3, <1>4, <1>10, <1>13, <3>1
  <2> SUFFICES ASSUME NEW c \in Clients
               PROVE  LET n == Len(answered[c])
                          r == IF d.id = c THEN Len(d.replies) ELSE 0
                          pending == QueueIn(s, d, c).pending
                      IN /\ \A i \in 1..n : answered[c][i] = i
                         /\ d.id = c => \A i \in 1..r : d.replies[i] = n + i
                         /\ Has(s, d, c) =>
                              \A i \in 1..Len(pending) : pending[i].id = n + r + i
                         /\ asked[c] = n + r + IF Has(s, d, c) THEN Len(pending) ELSE 0
    BY DEF InOrder
  <2>2. 1..Len(answered[c]) = {} /\ (IF d.id = c THEN Len(d.replies) ELSE 0) = 0
        /\ (IF Has(s, d, c) THEN Len(QueueIn(s, d, c).pending) ELSE 0) = 0
    BY <2>1
  <2>3. asked[c] = Len(answered[c]) + (IF d.id = c THEN Len(d.replies) ELSE 0)
                     + IF Has(s, d, c) THEN Len(QueueIn(s, d, c).pending) ELSE 0
    <3> DEFINE n == Len(answered[c])
               k == asked[c]
               r == IF d.id = c THEN Len(d.replies) ELSE 0
               m == IF Has(s, d, c) THEN Len(QueueIn(s, d, c).pending) ELSE 0
    <3>1. n = 0 /\ k = 0 /\ r = 0 /\ m = 0
      BY ONLY <2>1, <2>2
    <3> HIDE DEF n, k, r, m
    <3>2. k = n + r + m
      BY ONLY <3>1
    <3> QED BY ONLY <3>2 DEF n, k, r, m
  <2>4. \A i \in 1..Len(answered[c]) : answered[c][i] = i
    BY ONLY <2>2
  <2> QED BY ONLY <2>1, <2>3, <2>4
<1>18. Served(s, holders)
  BY <1>2, <1>3, <1>6 DEF Served
<1>19. StartsAlone(s, live, d)
  <2>1. startup # None => Config \in start
    BY <1>4
  <2>2. startup # None => Range(s.ready) = {Config} /\ Config \in live
    BY <1>2, <1>3, <1>4, <1>7, <2>1
  <2>3. startup # None => Has(s, d, Config)
    BY <1>13, <2>1, Constants
  <2> QED BY ONLY <1>2, <1>10, <2>2, <2>3 DEF StartsAlone
<1>20. Runnable(s, {})
  BY <1>2, <1>7, <1>8 DEF Runnable
<1> QED BY <1>9, <1>11, <1>15, <1>16, <1>17, <1>18, <1>19, <1>20 DEF Inv, Bundle, s, o, d

\* Commands keep it.
LEMMA CommandsKeep == Inv /\ Commands => Inv'
<1> SUFFICES ASSUME Inv, Commands PROVE Inv'
  OBVIOUS
<1>1. CASE BatchEnds \/ RunPlain \/ RunError \/ RunInsert \/ RunDetach \/ RunKick
  BY <1>1, BatchEndsKeeps, RunPlainKeeps, RunErrorKeeps, RunInsertKeeps, RunDetachKeeps,
     RunKickKeeps
<1>2. ASSUME NEW n \in Channels,
             \/ RunWait(n) \/ RunSignal(n) \/ RunLock(n) \/ RunUnlock(n)
             \/ \E who \in Ids : RunWake(n, who)
      PROVE  Inv'
  BY <1>2, RunWaitKeeps, RunSignalKeeps, RunLockKeeps, RunUnlockKeeps, RunWakeKeeps
<1>3. CASE RunAwait \/ (\E who \in Ids : RunRouse(who)) \/ RunFile
  BY <1>3, RunAwaitKeeps, RunRouseKeeps, RunFileKeeps
<1>4. CASE \E background \in BOOLEAN : RunJob(background)
  BY <1>4, RunJobKeeps
<1>5. CASE \E kind \in {"pane", "stdin"} : RunPane(kind)
  BY <1>5, RunPaneKeeps
<1> QED BY <1>1, <1>2, <1>3, <1>4, <1>5 DEF Commands

\* So do the ends of what they wait for,
LEMMA OutsideKeeps == Inv /\ Outside => Inv'
BY ClientGoesKeeps, RequestOfKeeps, HookMonitorTickKeeps, WaitersFlushedKeeps,
   FileCompletesKeeps, PaneEndsKeeps, StdinEndsKeeps DEF Outside

\* the drives,
LEMMA DriveKeeps == Inv /\ Drive => Inv'
BY DriveBeginsKeeps, CommandsKeep, DriveLostKeeps, DriveEndsKeeps, DriveDetachesKeeps,
   DriveCannotReplyKeeps, InternalEndsKeeps DEF Drive

\* and the jobs.
LEMMA JobFinishedKeeps ==
  ASSUME NEW j \in DOMAIN scheduler.jobs PROVE Inv /\ JobFinished(j) => Inv'
BY JobEndsKeeps, BackgroundJobEndsKeeps DEF JobFinished

\* Every step keeps the invariant.
LEMMA StepKeeps == Inv /\ [Next]_vars => Inv'
<1> SUFFICES ASSUME Inv, [Next]_vars PROVE Inv'
  OBVIOUS
<1>1. CASE Next
  BY <1>1, DriveKeeps, OutsideKeeps, JobFinishedKeeps DEF Next
<1>2. CASE UNCHANGED vars
  BY <1>2 DEF Inv, vars
<1> QED BY <1>1, <1>2

\* The inductive invariant: blocked queues are listed once, results belong to
\* the batch in front, numbers have no gap, locks have a holder, what may run is
\* ready.  It is kept by every command, result, request and drive.
THEOREM QueuesAreSound == Spec => []Inv
<1>1. Init => Inv
  BY InitInv
<1>2. Inv /\ [Next]_vars => Inv'
  BY StepKeeps
<1> QED BY <1>1, <1>2, PTL DEF Spec

-----------------------------------------------------------------------------
(* What the invariant implies                                              *)

\* A queue of the invariant is one of TypeOK.
LEMMA QueueIsTyped ==
  ASSUME NEW q \in QueueSet
  PROVE  /\ q \in QueueType /\ Len(q.pending) <= MaxPending
         /\ \A i \in DOMAIN q.pending : Len(q.pending[i].commands) <= MaxCommands
<1>1. /\ q.pending \in Seq(BatchSet) /\ Len(q.pending) <= MaxPending
      /\ q.blocked \in BOOLEAN /\ q = [pending |-> q.pending, blocked |-> q.blocked]
  BY DEF QueueSet, Batches
<1>2. BatchSet \subseteq BatchType
  BY DEF BatchSet
<1>3. q.pending \in Seq(BatchType)
  BY ONLY <1>1, <1>2
<1>4. q \in QueueType
  BY ONLY <1>1, <1>3 DEF QueueType
<1>5. \A i \in DOMAIN q.pending : q.pending[i] \in BatchSet
  BY ONLY <1>1
<1>6. \A i \in DOMAIN q.pending : Len(q.pending[i].commands) <= MaxCommands
  BY ONLY <1>5 DEF BatchSet
<1> QED BY <1>1, <1>4, <1>6

\* The types are part of the invariant.
LEMMA InvTypes == Inv => TypeOK
<1> SUFFICES ASSUME Inv PROVE TypeOK
  OBVIOUS
<1>1. Tables(scheduler) /\ Control(live, closing, outside, driving, asked, answered, holders)
  BY NowBundle
<1>2. /\ PartialFunction(scheduler.queues, Ids, QueueType)
      /\ \A c \in DOMAIN scheduler.queues :
           /\ Len(scheduler.queues[c].pending) <= MaxPending
           /\ \A i \in DOMAIN scheduler.queues[c].pending :
                Len(scheduler.queues[c].pending[i].commands) <= MaxCommands
  <2>1. /\ DOMAIN scheduler.queues \subseteq Ids
        /\ \A c \in DOMAIN scheduler.queues : scheduler.queues[c] \in QueueSet
    BY <1>1 DEF Tables, PartialFunction
  <2> QED BY <2>1, QueueIsTyped DEF PartialFunction
<1>3. driving \in [id : Ids \cup {None}, queue : QueueType, budget : 0..Quantum,
                   replies : Seq(Nat), detach : BOOLEAN]
  <2>1. QueueSet \subseteq QueueType
    BY QueueIsTyped
  <2> QED BY ONLY <1>1, <2>1 DEF Control, Drives
<1> QED BY <1>1, <1>2, <1>3 DEF TypeOK, Tables, Control

\* What may run is ready between two drives.
LEMMA InvRunnable == Inv => RunnableIsReady
BY DEF Inv, Bundle, Runnable, RunnableIsReady

\* HasQueue and Queue are what the invariant speaks of.
LEMMA HasIsHas ==
  ASSUME NEW c, c # None
  PROVE  /\ HasQueue(c) <=> Has(scheduler, driving, c)
         /\ Queue(c) = QueueIn(scheduler, driving, c)
BY DEF HasQueue, Has, Queue, QueueIn

\* Only the configuration runs.
LEMMA InvStartsAlone == Inv => StartupRunsAlone
<1> SUFFICES ASSUME Inv PROVE StartupRunsAlone
  OBVIOUS
<1>1. StartsAlone(scheduler, live, driving)
  BY DEF Inv, Bundle
<1>2. Config # None
  BY Constants
<1> QED BY <1>1, <1>2, HasIsHas DEF StartsAlone, StartupRunsAlone

\* Channels have a holder, and a kept wake-up no waiter.
LEMMA InvServed == Inv => ChannelsAreServed
<1> SUFFICES ASSUME Inv PROVE ChannelsAreServed
  OBVIOUS
<1>1. Served(scheduler, holders)
  BY DEF Inv, Bundle
<1>2. LockHasOneHolder
  <2> SUFFICES ASSUME NEW n \in Channels
               PROVE  Cardinality(holders[n]) =
                        IF n \in DOMAIN scheduler.channels /\ scheduler.channels[n].locked
                        THEN 1 ELSE 0
    BY DEF LockHasOneHolder
  <2>1. CASE n \in DOMAIN scheduler.channels /\ scheduler.channels[n].locked
    <3>1. PICK p : holders[n] = {p}
      BY <1>1, <2>1 DEF Served, OnePlace
    <3>2. Cardinality({p}) = 1
      BY FS_Singleton
    <3> QED BY <2>1, <3>1, <3>2
  <2>2. CASE ~(n \in DOMAIN scheduler.channels /\ scheduler.channels[n].locked)
    BY <1>1, <2>2, FS_EmptySet DEF Served
  <2> QED BY <2>1, <2>2
<1>3. NobodyWaitsInVain
  BY <1>1 DEF Served, NobodyWaitsInVain
<1> QED BY <1>2, <1>3 DEF ChannelsAreServed

\* The place where something that may wake a queue is listed
ListedAt(w) == IF w[1] \in {"waiter", "locker"} THEN <<w[1], w[2][1]>> ELSE w

\* Who may wake c, case by case
LEMMA WakersAre ==
  ASSUME NEW c, NEW w
  PROVE  w \in Wakers(c) <=>
           \/ \E n \in DOMAIN scheduler.channels :
                \E i \in DOMAIN scheduler.channels[n].waiters :
                   scheduler.channels[n].waiters[i] = c /\ w = <<"waiter", <<n, i>>>>
           \/ \E n \in DOMAIN scheduler.channels :
                \E i \in DOMAIN scheduler.channels[n].lockers :
                   scheduler.channels[n].lockers[i] = c /\ w = <<"locker", <<n, i>>>>
           \/ c \in DOMAIN scheduler.eventWaiters /\ w = <<"event", c>>
           \/ c \in DOMAIN scheduler.files /\ w = <<"file", c>>
           \/ c \in DOMAIN outside /\ w = <<"outside", c>>
           \/ \E j \in ForegroundJobs(c) : w = <<"job", j>>
BY DEF Wakers, Occurrences

\* A waker is at a place where c is listed,
LEMMA WakersAreListed ==
  ASSUME NEW c, NEW w \in Wakers(c)
  PROVE  ListedAt(w) \in Places(scheduler, outside, c)
<1>1. ASSUME NEW n \in DOMAIN scheduler.channels,
             NEW i \in DOMAIN scheduler.channels[n].waiters,
             scheduler.channels[n].waiters[i] = c, w = <<"waiter", <<n, i>>>>
      PROVE  ListedAt(w) \in Places(scheduler, outside, c)
  <2>1. n \in WaitsAt(scheduler, c)
    BY <1>1 DEF WaitsAt, Range
  <2>2. ListedAt(w) = <<"waiter", n>>
    BY <1>1 DEF ListedAt
  <2> QED BY ONLY <2>1, <2>2 DEF Places
<1>2. ASSUME NEW n \in DOMAIN scheduler.channels,
             NEW i \in DOMAIN scheduler.channels[n].lockers,
             scheduler.channels[n].lockers[i] = c, w = <<"locker", <<n, i>>>>
      PROVE  ListedAt(w) \in Places(scheduler, outside, c)
  <2>1. n \in LocksAt(scheduler, c)
    BY <1>2 DEF LocksAt, Range
  <2>2. ListedAt(w) = <<"locker", n>>
    BY <1>2 DEF ListedAt
  <2> QED BY ONLY <2>1, <2>2 DEF Places
<1>3. CASE \/ c \in DOMAIN scheduler.eventWaiters /\ w = <<"event", c>>
           \/ c \in DOMAIN scheduler.files /\ w = <<"file", c>>
           \/ c \in DOMAIN outside /\ w = <<"outside", c>>
           \/ \E j \in ForegroundJobs(c) : w = <<"job", j>>
  <2>1. ListedAt(w) = w
    BY <1>3 DEF ListedAt
  <2>2. w \in Places(scheduler, outside, c)
    BY ONLY <1>3 DEF Places, ForegroundJobs, JobsAt
  <2> QED BY <2>1, <2>2
<1> QED BY <1>1, <1>2, <1>3, WakersAre

\* at a place where c is listed there is a waker,
LEMMA PlacesAreWakers ==
  ASSUME NEW c, NEW p \in Places(scheduler, outside, c)
  PROVE  Wakers(c) # {}
<1>1. CASE \E n \in WaitsAt(scheduler, c) : p = <<"waiter", n>>
  <2>1. PICK n \in DOMAIN scheduler.channels : c \in Range(scheduler.channels[n].waiters)
    BY <1>1 DEF WaitsAt
  <2>2. PICK i \in DOMAIN scheduler.channels[n].waiters : scheduler.channels[n].waiters[i] = c
    BY <2>1 DEF Range
  <2>3. <<"waiter", <<n, i>>>> \in Wakers(c)
    BY <2>2, WakersAre
  <2> QED BY <2>3
<1>2. CASE \E n \in LocksAt(scheduler, c) : p = <<"locker", n>>
  <2>1. PICK n \in DOMAIN scheduler.channels : c \in Range(scheduler.channels[n].lockers)
    BY <1>2 DEF LocksAt
  <2>2. PICK i \in DOMAIN scheduler.channels[n].lockers : scheduler.channels[n].lockers[i] = c
    BY <2>1 DEF Range
  <2>3. <<"locker", <<n, i>>>> \in Wakers(c)
    BY <2>2, WakersAre
  <2> QED BY <2>3
<1>3. CASE \/ c \in DOMAIN scheduler.eventWaiters \/ c \in DOMAIN scheduler.files
           \/ c \in DOMAIN outside
  <2>1. \/ <<"event", c>> \in Wakers(c) \/ <<"file", c>> \in Wakers(c)
        \/ <<"outside", c>> \in Wakers(c)
    BY <1>3, WakersAre
  <2> QED BY <2>1
<1>4. CASE \E j \in JobsAt(scheduler, c) : p = <<"job", j>>
  <2>1. PICK j : j \in ForegroundJobs(c)
    BY <1>4 DEF JobsAt, ForegroundJobs
  <2>2. <<"job", j>> \in Wakers(c)
    BY <2>1, WakersAre
  <2> QED BY <2>2
<1>5. \/ \E n \in WaitsAt(scheduler, c) : p = <<"waiter", n>>
      \/ \E n \in LocksAt(scheduler, c) : p = <<"locker", n>>
      \/ c \in DOMAIN scheduler.eventWaiters \/ c \in DOMAIN scheduler.files
      \/ c \in DOMAIN outside
      \/ \E j \in JobsAt(scheduler, c) : p = <<"job", j>>
  BY ONLY p \in Places(scheduler, outside, c) DEF Places
<1> QED BY <1>1, <1>2, <1>3, <1>4, <1>5

\* and not two of them, since nobody is in a list twice.
LEMMA WakersDiffer ==
  ASSUME ListsDistinct(scheduler), NEW c, NEW w \in Wakers(c), NEW v \in Wakers(c),
         ListedAt(w) = ListedAt(v)
  PROVE  w = v
<1>1. \A x \in Wakers(c) :
        /\ x[1] \notin {"waiter", "locker"} => ListedAt(x) = x
        /\ x[1] \in {"waiter", "locker"} => ListedAt(x) = <<x[1], x[2][1]>>
  BY DEF ListedAt
<1>2. \A x \in Wakers(c) :
        /\ x[1] = "waiter" => \E n \in DOMAIN scheduler.channels :
             \E i \in DOMAIN scheduler.channels[n].waiters :
                scheduler.channels[n].waiters[i] = c /\ x = <<"waiter", <<n, i>>>>
        /\ x[1] = "locker" => \E n \in DOMAIN scheduler.channels :
             \E i \in DOMAIN scheduler.channels[n].lockers :
                scheduler.channels[n].lockers[i] = c /\ x = <<"locker", <<n, i>>>>
  BY WakersAre
<1>3. w[1] = v[1]
  <2>1. \A x \in Wakers(c) : ListedAt(x)[1] = x[1]
    BY <1>1
  <2> QED BY <2>1
<1>4. CASE w[1] = "waiter"
  <2>1. PICK n \in DOMAIN scheduler.channels :
          \E i \in DOMAIN scheduler.channels[n].waiters :
             scheduler.channels[n].waiters[i] = c /\ w = <<"waiter", <<n, i>>>>
    BY <1>2, <1>4
  <2>2. PICK m \in DOMAIN scheduler.channels :
          \E i \in DOMAIN scheduler.channels[m].waiters :
             scheduler.channels[m].waiters[i] = c /\ v = <<"waiter", <<m, i>>>>
    BY <1>2, <1>3, <1>4
  <2>3. n = m
    <3>1. PICK i : w = <<"waiter", <<n, i>>>>
      BY <2>1
    <3>2. PICK k : v = <<"waiter", <<m, k>>>>
      BY <2>2
    <3>3. ListedAt(<<"waiter", <<n, i>>>>) = <<"waiter", n>>
      BY DEF ListedAt
    <3>4. ListedAt(<<"waiter", <<m, k>>>>) = <<"waiter", m>>
      BY DEF ListedAt
    <3>5. <<"waiter", n>> = <<"waiter", m>>
      BY <3>1, <3>2, <3>3, <3>4
    <3> QED BY ONLY <3>5
  <2> QED BY <2>1, <2>2, <2>3 DEF ListsDistinct, Distinct
<1>5. CASE w[1] = "locker"
  <2>1. PICK n \in DOMAIN scheduler.channels :
          \E i \in DOMAIN scheduler.channels[n].lockers :
             scheduler.channels[n].lockers[i] = c /\ w = <<"locker", <<n, i>>>>
    BY <1>2, <1>5
  <2>2. PICK m \in DOMAIN scheduler.channels :
          \E i \in DOMAIN scheduler.channels[m].lockers :
             scheduler.channels[m].lockers[i] = c /\ v = <<"locker", <<m, i>>>>
    BY <1>2, <1>3, <1>5, ZenonT(120)
  <2>3. n = m
    <3>1. PICK i : w = <<"locker", <<n, i>>>>
      BY <2>1
    <3>2. PICK k : v = <<"locker", <<m, k>>>>
      BY <2>2
    <3>3. ListedAt(<<"locker", <<n, i>>>>) = <<"locker", n>>
      BY DEF ListedAt
    <3>4. ListedAt(<<"locker", <<m, k>>>>) = <<"locker", m>>
      BY DEF ListedAt
    <3>5. <<"locker", n>> = <<"locker", m>>
      BY <3>1, <3>2, <3>3, <3>4
    <3> QED BY ONLY <3>5
  <2> QED BY <2>1, <2>2, <2>3 DEF ListsDistinct, Distinct
<1>6. CASE w[1] \notin {"waiter", "locker"}
  BY <1>1, <1>3, <1>6
<1> QED BY <1>4, <1>5, <1>6

\* So the wakers can be counted by the places.
LEMMA CountWakers ==
  ASSUME ListsDistinct(scheduler), NEW c
  PROVE  /\ Places(scheduler, outside, c) = {} => Cardinality(Wakers(c)) = 0
         /\ OnePlace(Places(scheduler, outside, c)) => Cardinality(Wakers(c)) = 1
<1> DEFINE P == Places(scheduler, outside, c)
           W == Wakers(c)
<1>1. \A w \in W : ListedAt(w) \in P
  BY WakersAreListed
<1>2. \A p \in P : W # {}
  BY PlacesAreWakers
<1>3. \A w, v \in W : ListedAt(w) = ListedAt(v) => w = v
  BY WakersDiffer
<1> HIDE DEF P, W
<1>4. CASE P = {}
  <2>1. W = {} /\ P # {{}}
    BY <1>1, <1>4
  <2>2. ~OnePlace(P)
    BY <1>4 DEF OnePlace
  <2> QED BY <1>4, <2>1, <2>2, FS_EmptySet DEF P, W
<1>5. ASSUME NEW p, P = {p} PROVE Cardinality(W) = 1 /\ P # {}
  <2>1. PICK w : w \in W
    BY <1>2, <1>5
  <2>2. \A v \in W : v = w
    BY <1>1, <1>3, <1>5, <2>1
  <2>3. W = {w}
    BY <2>1, <2>2
  <2>4. Cardinality({w}) = 1
    BY FS_Singleton
  <2> QED BY <1>5, <2>3, <2>4
<1> QED BY <1>4, <1>5 DEF OnePlace, P, W

\* Listing of the variables as they are
LEMMA NowListed ==
  ASSUME Inv
  PROVE  /\ Listing(scheduler, outside, driving, live \ closing)
         /\ ListsDistinct(scheduler) /\ live \subseteq Ids
BY DEF Inv, Bundle, Listing, Control

\* A blocked queue has one waker, a runnable one none.
LEMMA InvWakers == Inv => BlockedHasOneWaker
<1> SUFFICES ASSUME Inv, NEW c \in live \ closing, HasQueue(c)
             PROVE  Cardinality(Wakers(c)) = IF Queue(c).blocked THEN 1 ELSE 0
  BY DEF BlockedHasOneWaker
<1>1. c \in Ids /\ c # None
  BY NowListed, Constants
<1>2. Has(scheduler, driving, c) /\ Queue(c) = QueueIn(scheduler, driving, c)
  BY <1>1, HasIsHas
<1>3. IF Queue(c).blocked THEN OnePlace(Places(scheduler, outside, c))
      ELSE Places(scheduler, outside, c) = {}
  BY <1>1, <1>2, NowListed DEF Listing
<1>4. ListsDistinct(scheduler)
  BY NowListed
<1> QED BY <1>3, <1>4, CountWakers

\* Who is gone is listed nowhere.
LEMMA InvUnlisted == Inv => GoneIsUnlisted
<1> SUFFICES ASSUME Inv, NEW c \in Ids \ (live \ closing), c # driving.id
             PROVE  c \notin DOMAIN scheduler.queues /\ Wakers(c) = ItsJobs(c)
  BY DEF GoneIsUnlisted
<1>1. c \notin DOMAIN scheduler.queues
  BY NowListed DEF Listing
<1>2. ~Has(scheduler, driving, c)
  BY <1>1 DEF Has
<1>3. Places(scheduler, outside, c) \subseteq {"job"} \X JobsAt(scheduler, c)
  BY <1>2, NowListed DEF Listing
<1>4. \A w \in Wakers(c) : w \in ItsJobs(c)
  <2> SUFFICES ASSUME NEW w \in Wakers(c) PROVE w \in ItsJobs(c)
    OBVIOUS
  <2>1. PICK j \in JobsAt(scheduler, c) : ListedAt(w) = <<"job", j>>
    BY <1>3, WakersAreListed
  <2>2. ListedAt(w)[1] = w[1]
    <3>1. \A l, x : ListedAt(<<l, x>>)[1] = l
      BY DEF ListedAt
    <3>2. \E l, x : w = <<l, x>>
      BY WakersAre
    <3> QED BY <3>1, <3>2
  <2>3. w[1] = "job"
    BY <2>1, <2>2
  <2>4. ListedAt(w) = w
    BY <2>3 DEF ListedAt
  <2> QED BY <2>1, <2>4 DEF ItsJobs, ForegroundJobs, JobsAt
<1>5. \A w \in ItsJobs(c) : w \in Wakers(c)
  BY DEF ItsJobs, Wakers
<1> QED BY <1>1, <1>4, <1>5

\* A result finds its batch in front.
LEMMA InvResults == Inv => ResultsReachTheirBatch
<1> DEFINE InFront(c, batch) ==
        HasQueue(c) => /\ Queue(c).pending # <<>>
                       /\ Head(Queue(c).pending).id = batch
                       /\ Queue(c).blocked
           s == scheduler
<1> SUFFICES ASSUME Inv PROVE ResultsReachTheirBatch
  OBVIOUS
<1>1. Fronts(s, outside, driving) /\ Tables(s)
      /\ Control(live, closing, outside, driving, asked, answered, holders)
  BY NowBundle DEF Bundle
<1>2. ASSUME NEW c \in Ids, NEW batch, AtFront(s, driving, c, batch),
             NEW p \in Places(s, outside, c)
      PROVE  InFront(c, batch)
  <2> SUFFICES ASSUME HasQueue(c)
               PROVE  /\ Queue(c).pending # <<>> /\ Head(Queue(c).pending).id = batch
                      /\ Queue(c).blocked
    OBVIOUS
  <2>1. c # None
    BY Constants
  <2>2. Has(s, driving, c) /\ Queue(c) = QueueIn(s, driving, c)
    BY <2>1, HasIsHas
  <2>3. Queue(c).blocked
    BY <1>2, <2>2, NowListed DEF Listing
  <2>4. Queue(c).pending # <<>> /\ Queue(c).pending[1].id = batch
    BY <1>2, <2>2 DEF AtFront
  <2>5. Head(Queue(c).pending) = Queue(c).pending[1]
    OBVIOUS
  <2> QED BY <2>3, <2>4, <2>5
<1>3. \A j \in DOMAIN s.jobs :
        ~s.jobs[j].background => InFront(s.jobs[j].client, s.jobs[j].batch)
  <2> SUFFICES ASSUME NEW j \in DOMAIN s.jobs, ~s.jobs[j].background
               PROVE  InFront(s.jobs[j].client, s.jobs[j].batch)
    OBVIOUS
  <2>1. s.jobs[j].client \in Ids
    BY <1>1 DEF Tables, PartialFunction
  <2>2. <<"job", j>> \in Places(s, outside, s.jobs[j].client)
    BY DEF Places, JobsAt
  <2>3. AtFront(s, driving, s.jobs[j].client, s.jobs[j].batch)
    BY <1>1 DEF Fronts
  <2> HIDE DEF InFront, s
  <2> QED BY <1>2, <2>1, <2>2, <2>3
<1>4. \A c \in DOMAIN s.files : InFront(c, s.files[c].batch)
  <2> SUFFICES ASSUME NEW c \in DOMAIN s.files PROVE InFront(c, s.files[c].batch)
    OBVIOUS
  <2>1. c \in Ids
    BY <1>1, Constants DEF Tables, PartialFunction
  <2>2. <<"file", c>> \in Places(s, outside, c)
    BY DEF Places
  <2>3. AtFront(s, driving, c, s.files[c].batch)
    BY <1>1 DEF Fronts
  <2> HIDE DEF InFront, s
  <2> QED BY <1>2, <2>1, <2>2, <2>3
<1>5. \A c \in DOMAIN outside : InFront(c, outside[c].batch)
  <2> SUFFICES ASSUME NEW c \in DOMAIN outside PROVE InFront(c, outside[c].batch)
    OBVIOUS
  <2>1. c \in Ids
    BY <1>1 DEF Control, PartialFunction
  <2>2. <<"outside", c>> \in Places(s, outside, c)
    BY DEF Places
  <2>3. AtFront(s, driving, c, outside[c].batch)
    BY <1>1 DEF Fronts
  <2> HIDE DEF InFront, s
  <2> QED BY <1>2, <2>1, <2>2, <2>3
<1> QED BY <1>3, <1>4, <1>5 DEF ResultsReachTheirBatch

\* Two lists of numbers, one after the other
LEMMA Joined ==
  ASSUME NEW a \in Seq(Nat), NEW r \in Seq(Nat)
  PROVE  /\ a \o r \in Seq(Nat) /\ Len(a \o r) = Len(a) + Len(r)
         /\ \A i \in 1..Len(a \o r) :
              (a \o r)[i] = IF i <= Len(a) THEN a[i] ELSE r[i - Len(a)]
<1>1. a \o r \in Seq(Nat) /\ Len(a \o r) = Len(a) + Len(r)
  OBVIOUS
<1>2. \A i \in 1..(Len(a) + Len(r)) :
              (a \o r)[i] = IF i <= Len(a) THEN a[i] ELSE r[i - Len(a)]
  OBVIOUS
<1> DEFINE k == a \o r
<1>3. Len(k) = Len(a) + Len(r) /\ \A i \in 1..(Len(a) + Len(r)) :
              k[i] = IF i <= Len(a) THEN a[i] ELSE r[i - Len(a)]
  BY <1>1, <1>2
<1> HIDE DEF k
<1>4. \A i \in 1..Len(k) : k[i] = IF i <= Len(a) THEN a[i] ELSE r[i - Len(a)]
  BY ONLY <1>3
<1> QED BY <1>1, <1>4 DEF k

\* Three numbered lists in a row
LEMMA Numbered ==
  ASSUME NEW a \in Seq(Nat), NEW r \in Seq(Nat), NEW w \in Seq(Nat),
         \A i \in 1..Len(a) : a[i] = i,
         \A i \in 1..Len(r) : r[i] = Len(a) + i,
         \A i \in 1..Len(w) : w[i] = Len(a) + Len(r) + i
  PROVE  LET known == a \o r \o w IN
         /\ \A i \in DOMAIN known : known[i] = i
         /\ Len(known) = Len(a) + Len(r) + Len(w)
<1> DEFINE k == a \o r
           known == k \o w
<1>1. k \in Seq(Nat) /\ Len(k) = Len(a) + Len(r)
  OBVIOUS
<1>2. \A i \in 1..Len(k) : k[i] = IF i <= Len(a) THEN a[i] ELSE r[i - Len(a)]
  BY ONLY a \in Seq(Nat), r \in Seq(Nat), Joined
<1>3. \A i \in 1..Len(k) : k[i] = i
  <2> SUFFICES ASSUME NEW i \in 1..Len(k) PROVE k[i] = i
    OBVIOUS
  <2> DEFINE m == Len(a)
             n == Len(r)
  <2>1. m \in Nat /\ n \in Nat /\ i \in 1..(m + n)
    BY <1>1
  <2>2. k[i] = IF i <= m THEN a[i] ELSE r[i - m]
    BY <1>2
  <2> HIDE DEF k
  <2>3. CASE i <= m
    BY <2>1, <2>2, <2>3
  <2>4. CASE i > m
    <3>1. i - m \in 1..n
      BY ONLY <2>1, <2>4
    <3>2. r[i - m] = m + (i - m)
      BY <3>1
    <3> QED BY <2>1, <2>2, <2>4, <3>2
  <2> QED BY <2>1, <2>3, <2>4
<1> HIDE DEF k
<1>4. known \in Seq(Nat) /\ Len(known) = Len(k) + Len(w)
      /\ \A i \in 1..Len(known) : known[i] = IF i <= Len(k) THEN k[i] ELSE w[i - Len(k)]
  <2>1. known \in Seq(Nat) /\ Len(known) = Len(k) + Len(w)
    BY ONLY <1>1, w \in Seq(Nat), Joined
  <2>2. \A i \in 1..Len(known) : known[i] = IF i <= Len(k) THEN k[i] ELSE w[i - Len(k)]
    BY ONLY <1>1, w \in Seq(Nat), Joined
  <2> QED BY ONLY <2>1, <2>2
<1>5. \A i \in 1..Len(known) : known[i] = i
  <2> SUFFICES ASSUME NEW i \in 1..Len(known) PROVE known[i] = i
    OBVIOUS
  <2> DEFINE m == Len(k)
             n == Len(w)
  <2>1. m \in Nat /\ n \in Nat /\ i \in 1..(m + n)
    BY <1>1, <1>4
  <2>2. known[i] = IF i <= m THEN k[i] ELSE w[i - m]
    BY <1>4
  <2>3. \A j \in 1..n : w[j] = m + j
    BY <1>1
  <2>4. \A j \in 1..m : k[j] = j
    BY <1>3
  <2> HIDE DEF known, m, n
  <2>5. CASE i <= m
    BY ONLY <2>1, <2>2, <2>4, <2>5
  <2>6. CASE i > m
    <3>1. i - m \in 1..n
      BY ONLY <2>1, <2>6
    <3>2. w[i - m] = m + (i - m)
      BY ONLY <2>3, <3>1
    <3> QED BY ONLY <2>1, <2>2, <2>6, <3>2
  <2> QED BY <2>1, <2>5, <2>6
<1>6. DOMAIN known = 1..Len(known)
  BY <1>4
<1>7. Len(known) = Len(a) + Len(r) + Len(w)
  BY <1>1, <1>4
<1> HIDE DEF known
<1>8. (\A i \in DOMAIN known : known[i] = i) /\ Len(known) = Len(a) + Len(r) + Len(w)
  BY ONLY <1>5, <1>6, <1>7
<1> QED BY <1>8 DEF known, k

\* The ids of the batches of a queue
IdsOf(queue) == [i \in DOMAIN queue |-> queue[i].id]

\* The numbers of a list of batches
LEMMA BatchIds ==
  ASSUME NEW queue \in Seq(BatchType)
  PROVE  /\ IdsOf(queue) \in Seq(Nat) /\ Len(IdsOf(queue)) = Len(queue)
         /\ \A i \in 1..Len(queue) : IdsOf(queue)[i] = queue[i].id
<1>1. \A i \in DOMAIN queue : queue[i].id \in Nat
  <2>1. \A i \in DOMAIN queue : queue[i] \in BatchType
    OBVIOUS
  <2> QED BY <2>1 DEF BatchType
<1>2. DOMAIN queue = 1..Len(queue) /\ Len(queue) \in Nat
  OBVIOUS
<1> DEFINE w == IdsOf(queue)
<1>3. DOMAIN w = 1..Len(queue) /\ \A i \in 1..Len(queue) : w[i] = queue[i].id
  BY <1>2 DEF IdsOf
<1>4. w = [i \in 1..Len(queue) |-> queue[i].id]
  BY <1>2 DEF IdsOf
<1>5. w \in [1..Len(queue) -> Nat]
  BY <1>1, <1>2, <1>4
<1> HIDE DEF w
<1>6. w \in Seq(Nat) /\ Len(w) = Len(queue)
  BY ONLY <1>2, <1>5
<1> QED BY <1>3, <1>6 DEF w

\* The batches of a queue are batches.
LEMMA PendingType ==
  ASSUME Inv, NEW c, HasQueue(c)
  PROVE  Queue(c).pending \in Seq(BatchType)
<1>1. \A q \in QueueSet : q.pending \in Seq(BatchType)
  BY QueueIsTyped DEF QueueType
<1>2. CASE driving.id = c
  BY <1>1, <1>2, NowBundle, DriveFields DEF Control, Queue
<1>3. CASE driving.id # c
  <2>1. c \in DOMAIN scheduler.queues
    BY <1>3 DEF HasQueue
  <2>2. scheduler.queues[c] \in QueueSet
    BY <2>1, NowBundle DEF Tables, PartialFunction
  <2> QED BY <1>1, <1>3, <2>2 DEF Queue
<1> QED BY <1>2, <1>3

\* Replies, the drive and the queue are numbered without a gap.
LEMMA InvInOrder == Inv => RequestsInOrder
<1> SUFFICES ASSUME Inv, NEW c \in Clients
             PROVE
    LET queue == IF HasQueue(c) THEN Queue(c).pending ELSE <<>>
        waiting == [i \in DOMAIN queue |-> queue[i].id]
        leaving == IF driving.id = c THEN driving.replies ELSE <<>>
        known == answered[c] \o leaving \o waiting
    IN /\ \A i \in DOMAIN known : known[i] = i
       /\ c \in live \ closing /\ ~(driving.id = c /\ driving.detach)
            => Len(known) = asked[c]
  BY DEF RequestsInOrder
<1> DEFINE queue == IF HasQueue(c) THEN Queue(c).pending ELSE <<>>
           w == IdsOf(queue)
           r == IF driving.id = c THEN driving.replies ELSE <<>>
           a == answered[c]
           k == asked[c]
<1>1. c # None
  BY Constants
<1>2. queue \in Seq(BatchType)
  <2>1. HasQueue(c) => Queue(c).pending \in Seq(BatchType)
    BY PendingType
  <2>2. <<>> \in Seq(BatchType)
    OBVIOUS
  <2> QED BY ONLY <2>1, <2>2
<1>3. a \in Seq(Nat)
  BY NowBundle DEF Control
<1>4. r \in Seq(Nat)
  <2>1. driving.replies \in Seq(Nat)
    BY NowBundle, DriveFields DEF Control
  <2> QED BY <2>1
<1>5. /\ \A i \in 1..Len(a) : a[i] = i
      /\ driving.id = c =>
           \A i \in 1..Len(driving.replies) : driving.replies[i] = Len(a) + i
      /\ HasQueue(c) =>
           \A i \in 1..Len(Queue(c).pending) : Queue(c).pending[i].id = Len(a) + Len(r) + i
      /\ c \in live \ closing =>
           k = Len(a) + Len(r) + IF HasQueue(c) THEN Len(Queue(c).pending) ELSE 0
  <2> DEFINE q == QueueIn(scheduler, driving, c).pending
             n == IF driving.id = c THEN Len(driving.replies) ELSE 0
  <2>1. /\ \A i \in 1..Len(a) : a[i] = i
        /\ driving.id = c => \A i \in 1..n : driving.replies[i] = Len(a) + i
        /\ Has(scheduler, driving, c) => \A i \in 1..Len(q) : q[i].id = Len(a) + n + i
        /\ c \in live \ closing =>
             k = Len(a) + n + IF Has(scheduler, driving, c) THEN Len(q) ELSE 0
    <3>1. InOrder(scheduler, driving, asked, answered, live \ closing, {})
      BY DEF Inv, Bundle
    <3> QED BY <3>1 DEF InOrder
  <2>2. n = Len(r)
    OBVIOUS
  <2>3. (HasQueue(c) <=> Has(scheduler, driving, c)) /\ q = Queue(c).pending
    BY <1>1, HasIsHas
  <2>4. driving.id = c => r = driving.replies
    OBVIOUS
  <2> HIDE DEF q, n, r, a, k
  <2> QED BY ONLY <2>1, <2>2, <2>3, <2>4
<1>6. \A i \in 1..Len(r) : r[i] = Len(a) + i
  <2>1. CASE driving.id = c
    BY <1>5, <2>1
  <2>2. CASE driving.id # c
    BY <2>2
  <2> QED BY <2>1, <2>2
<1>7. \A i \in 1..Len(queue) : queue[i].id = Len(a) + Len(r) + i
  <2> HIDE DEF a, r
  <2>1. CASE HasQueue(c)
    BY <1>5, <2>1
  <2>2. CASE ~HasQueue(c)
    BY <2>2
  <2> QED BY <2>1, <2>2
<1>8. Len(queue) = IF HasQueue(c) THEN Len(Queue(c).pending) ELSE 0
  OBVIOUS
<1>9. w = [i \in DOMAIN queue |-> queue[i].id]
  BY DEF IdsOf
<1> HIDE DEF queue, r, a, k
<1>10. w \in Seq(Nat) /\ Len(w) = Len(queue) /\ \A i \in 1..Len(queue) : w[i] = queue[i].id
  BY ONLY <1>2, BatchIds
<1> HIDE DEF w
<1>11. \A i \in 1..Len(w) : w[i] = Len(a) + Len(r) + i
  BY ONLY <1>7, <1>10
<1>12. LET known == a \o r \o w IN
         /\ \A i \in DOMAIN known : known[i] = i
         /\ Len(known) = Len(a) + Len(r) + Len(w)
  <2>1. \A i \in 1..Len(a) : a[i] = i
    BY <1>5
  <2> QED BY ONLY <1>3, <1>4, <1>6, <1>10, <1>11, <2>1, Numbered, ZenonT(120)
<1>13. c \in live \ closing => k = Len(a) + Len(r) + Len(w)
  BY ONLY <1>5, <1>8, <1>10
<1>14. LET known == a \o r \o w IN
         /\ \A i \in DOMAIN known : known[i] = i
         /\ c \in live \ closing /\ ~(driving.id = c /\ driving.detach)
              => Len(known) = k
  BY ONLY <1>12, <1>13
<1>15. LET known == a \o r \o [i \in DOMAIN queue |-> queue[i].id] IN
         /\ \A i \in DOMAIN known : known[i] = i
         /\ c \in live \ closing /\ ~(driving.id = c /\ driving.detach)
              => Len(known) = k
  BY ONLY <1>9, <1>14
<1> QED BY ONLY <1>15 DEF queue, r, a, k

\* The tables of the scheduler hold what the code puts there, within the limits
\* of insert_group, enqueue and the channels.
THEOREM TypesHold == Spec => []TypeOK
<1>1. Inv => TypeOK
  BY InvTypes
<1> QED BY <1>1, QueuesAreSound, PTL

\* A queue that is blocked on a channel, an event, a file, a pane or a job is
\* woken by exactly one of them, and a queue that is not blocked by none.
THEOREM BlockedHaveOneWaker == Spec => []BlockedHasOneWaker
<1>1. Inv => BlockedHasOneWaker
  BY InvWakers
<1> QED BY <1>1, QueuesAreSound, PTL

\* A client that was lost is on no list of the scheduler and waits for nothing
\* outside; at most its jobs are still under way.
THEOREM TheGoneAreUnlisted == Spec => []GoneIsUnlisted
<1>1. Inv => GoneIsUnlisted
  BY InvUnlisted
<1> QED BY <1>1, QueuesAreSound, PTL

\* A queue that has something to do and is not blocked is on the ready list, so
\* that no queue is forgotten.
THEOREM TheRunnableAreReady == Spec => []RunnableIsReady
<1>1. Inv => RunnableIsReady
  BY InvRunnable
<1> QED BY <1>1, QueuesAreSound, PTL

\* As long as the configuration is loaded nobody else is ready or driven.
THEOREM ConfigurationRunsAlone == Spec => []StartupRunsAlone
<1>1. Inv => StartupRunsAlone
  BY InvStartsAlone
<1> QED BY <1>1, QueuesAreSound, PTL

\* A job, a file or a pane that ends finds the batch whose command started it in
\* front of its client's queue.
THEOREM ResultsArriveRight == Spec => []ResultsReachTheirBatch
<1>1. Inv => ResultsReachTheirBatch
  BY InvResults
<1> QED BY <1>1, QueuesAreSound, PTL

\* The replies a client got and those still due to it are its requests, in
\* order and each once.
THEOREM RequestsStayInOrder == Spec => []RequestsInOrder
<1>1. Inv => RequestsInOrder
  BY InvInOrder
<1> QED BY <1>1, QueuesAreSound, PTL

\* A channel is locked exactly while somebody holds the lock, a wake-up is kept
\* only while nobody waits, and who queues for a lock queues for one that is held.
THEOREM ChannelsStayServed == Spec => []ChannelsAreServed
<1>1. Inv => ChannelsAreServed
  BY InvServed
<1> QED BY <1>1, QueuesAreSound, PTL

=============================================================================
