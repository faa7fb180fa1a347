------------------------- MODULE DeliveryQueueProofs -------------------------
(***************************************************************************)
(* What every operation of delivery.rs preserves of one client's record:   *)
(* its type and its budgets.  The argument is the one a reviewer of        *)
(* queue_native and flush_native has to make: `pending.bytes -= queued`    *)
(* cannot underflow because the count is exactly the sum over the queue,   *)
(* and moving a message to the channel never costs more than it frees.     *)
(***************************************************************************)
EXTENDS DeliveryQueue, Integers, NaturalsInduction, WellFoundedInduction, TLAPS

\* A message costs the channel no more than it costs a Pending entry.
SoundMessage == {m \in Message : m.bytes <= m.held}

\* f[i] is the space the first i messages of queue q take.
PrefixSums(f, q) ==
  /\ f \in [0..Len(q) -> Nat]
  /\ f[0] = 0
  /\ \A i \in 1..Len(q) : f[i] = f[i - 1] + q[i].held
  /\ \A i, j \in 0..Len(q) : i <= j => f[i] <= f[j]

\* held counts exactly what waits in the queue.
HeldIsSum(s) ==
  \E f \in [0..Len(s.queue) -> Nat] : PrefixSums(f, s.queue) /\ s.held = f[Len(s.queue)]

WithinLimits(s) ==
  /\ Len(s.chan) <= ChannelCap
  /\ Len(s.queue) <= RecordLimit
  /\ s.bytes + s.held <= ByteLimit

GoodRecord(s) ==
  /\ s \in DeliveryRecord
  /\ s.queue \in Seq(SoundMessage)
  /\ HeldIsSum(s)
  /\ WithinLimits(s)

\* An empty queue holds nothing.
LEMMA EmptyHoldsNothing ==
  ASSUME NEW s, GoodRecord(s), s.queue = <<>>
  PROVE  s.held = 0
  BY DEF GoodRecord, HeldIsSum, PrefixSums

\* Any record without a queue is as good as its channel.
LEMMA EmptyQueueGood ==
  ASSUME NEW s \in DeliveryRecord, s.queue = <<>>, s.held = 0,
         Len(s.chan) <= ChannelCap, s.bytes <= ByteLimit
  PROVE  GoodRecord(s)
<1>1. s.queue \in Seq(SoundMessage)
  BY DEF SoundMessage
<1>2. HeldIsSum(s)
  <2> DEFINE f == [i \in 0..0 |-> 0]
  <2>1. f \in [0..Len(s.queue) -> Nat] /\ f[0] = 0
    OBVIOUS
  <2>2. PrefixSums(f, s.queue)
    BY <2>1 DEF PrefixSums
  <2> QED BY <2>1, <2>2 DEF HeldIsSum
<1>3. WithinLimits(s)
  BY DeliveryAssumption DEF WithinLimits, DeliveryRecord
<1> QED BY <1>1, <1>2, <1>3 DEF GoodRecord

\* Two records that share queue, channel and counts are equally good.
LEMMA SameQueueGood ==
  ASSUME NEW s, GoodRecord(s), NEW t \in DeliveryRecord,
         t.queue = s.queue, t.held = s.held,
         Len(t.chan) <= ChannelCap, t.bytes <= s.bytes
  PROVE  GoodRecord(t)
  BY DeliveryAssumption, SMTT(60) DEF GoodRecord, HeldIsSum, WithinLimits, DeliveryRecord

\* The record of a client that is not connected is well typed.
LEMMA AbsentType == Absent \in DeliveryRecord
  BY DEF Absent, DeliveryRecord, ClosingStates

\* ... and within every limit.
LEMMA AbsentGood == GoodRecord(Absent)
  BY AbsentType, EmptyQueueGood, DeliveryAssumption DEF Absent

\* The fields of a good record, for the steps that change only some of them.
LEMMA GoodFields ==
  ASSUME NEW s, GoodRecord(s)
  PROVE  /\ s \in DeliveryRecord
         /\ s.chan \in Seq(Message) /\ s.queue \in Seq(Message)
         /\ s.bytes \in Nat /\ s.held \in Nat /\ s.issued \in Nat
         /\ s.rx \in BOOLEAN /\ s.live \in BOOLEAN /\ s.pending \in BOOLEAN
         /\ Len(s.chan) \in Nat /\ Len(s.queue) \in Nat
         /\ Len(s.chan) <= ChannelCap /\ Len(s.queue) <= RecordLimit
         /\ s.bytes + s.held <= ByteLimit
  BY DEF GoodRecord, DeliveryRecord, WithinLimits

\* Dropping a client leaves only its channel, which was within the limits.
LEMMA DisconnectedGood ==
  ASSUME NEW s, GoodRecord(s)
  PROVE  GoodRecord(Disconnected(s))
<1> DEFINE t == Disconnected(s)
<1>1. t \in DeliveryRecord
  BY GoodFields, AbsentType DEF Disconnected, DeliveryRecord
<1>2. t.queue = <<>> /\ t.held = 0 /\ t.chan = s.chan /\ t.bytes = s.bytes
  BY DEF Disconnected, Absent
<1>3. Len(t.chan) <= ChannelCap /\ t.bytes <= ByteLimit
  BY <1>2, GoodFields, DeliveryAssumption
<1> QED BY <1>1, <1>2, <1>3, EmptyQueueGood

\* Deciding that a snapshot is owed costs nothing.
LEMMA OweSnapshotGood ==
  ASSUME NEW s, GoodRecord(s)
  PROVE  GoodRecord(OweSnapshot(s))
<1> DEFINE t == OweSnapshot(s)
<1>0. s \in DeliveryRecord
  BY GoodFields
<1>1. t \in DeliveryRecord
  BY <1>0 DEF OweSnapshot, DeliveryRecord
<1>2. t.queue = s.queue /\ t.held = s.held /\ t.chan = s.chan /\ t.bytes = s.bytes
  BY <1>0 DEF OweSnapshot, DeliveryRecord
<1>3. Len(t.chan) <= ChannelCap /\ t.bytes <= s.bytes
  BY <1>2, GoodFields
<1> QED BY <1>1, <1>2, <1>3, SameQueueGood

\* A delivery keeps the record's type.
LEMMA DeliveredType ==
  ASSUME NEW s \in DeliveryRecord, NEW m \in Message
  PROVE  Delivered(s, m) \in DeliveryRecord
<1>1. /\ Append(s.chan, m) \in Seq(Message) /\ s.bytes + m.bytes \in Nat
      /\ (s.pending \/ Snapshot(m)) \in BOOLEAN
  BY DEF DeliveryRecord, Message, Snapshot
<1> QED BY <1>1 DEF Delivered, DeliveryRecord

\* What the channel accepts fits what the queue leaves, when the queue is empty.
LEMMA DeliveredGood ==
  ASSUME NEW s, GoodRecord(s), s.queue = <<>>,
         NEW m \in Message, Accepts(s, m)
  PROVE  GoodRecord(Delivered(s, m))
<1> DEFINE t == Delivered(s, m)
<1>1. s.held = 0
  BY EmptyHoldsNothing
<1>2. t \in DeliveryRecord
  BY GoodFields, DeliveredType
<1>3. /\ t.queue = <<>> /\ t.held = 0
      /\ t.chan = Append(s.chan, m) /\ t.bytes = s.bytes + m.bytes
  BY <1>1, GoodFields DEF Delivered, DeliveryRecord
<1>4. Len(t.chan) <= ChannelCap /\ t.bytes <= ByteLimit
  BY <1>3, GoodFields, DeliveryAssumption DEF Accepts, Room, Message
<1> QED BY <1>2, <1>3, <1>4, EmptyQueueGood

\* queue_native either drops the client or leaves it within both limits.
LEMMA QueueNativeGood ==
  ASSUME NEW s, GoodRecord(s), NEW m \in SoundMessage
  PROVE  GoodRecord(QueueNative(s, m))
<1>1. CASE Len(s.queue) >= RecordLimit \/ s.bytes + s.held + m.held > ByteLimit
  BY <1>1, DisconnectedGood DEF QueueNative
<1>2. CASE ~(Len(s.queue) >= RecordLimit \/ s.bytes + s.held + m.held > ByteLimit)
  <2> DEFINE t == [s EXCEPT !.queue = Append(@, m), !.held = @ + m.held]
             n == Len(s.queue)
  <2>1. /\ m \in Message /\ m.held \in Nat /\ s \in DeliveryRecord /\ n \in Nat
        /\ Append(s.queue, m) \in Seq(Message) /\ s.held + m.held \in Nat
    <3>1. s.queue \in Seq(Message) /\ s.held \in Nat /\ s \in DeliveryRecord
      BY GoodFields
    <3> QED BY <3>1 DEF SoundMessage, Message
  <2>2. /\ t \in DeliveryRecord
        /\ t.queue = Append(s.queue, m) /\ t.held = s.held + m.held
        /\ t.chan = s.chan /\ t.bytes = s.bytes
    BY <2>1 DEF DeliveryRecord
  <2>3. Len(t.queue) = n + 1 /\ t.queue \in Seq(SoundMessage)
    BY <2>1, <2>2 DEF GoodRecord
  <2>4. HeldIsSum(t)
    <3>1. PICK f \in [0..n -> Nat] : PrefixSums(f, s.queue) /\ s.held = f[n]
      BY DEF GoodRecord, HeldIsSum
    <3> DEFINE g == [i \in 0..(n + 1) |-> IF i <= n THEN f[i] ELSE f[n] + m.held]
    <3>2. g \in [0..(n + 1) -> Nat] /\ g[0] = 0 /\ g[n + 1] = f[n] + m.held
      BY <2>1, <3>1 DEF PrefixSums
    <3>3. \A i \in 1..(n + 1) : g[i] = g[i - 1] + t.queue[i].held
      <4> SUFFICES ASSUME NEW i \in 1..(n + 1) PROVE g[i] = g[i - 1] + t.queue[i].held
        OBVIOUS
      <4>1. CASE i <= n
        <5>1. t.queue[i] = s.queue[i]
          BY <2>1, <2>2, <4>1 DEF DeliveryRecord
        <5> QED BY <2>1, <3>1, <4>1, <5>1 DEF PrefixSums
      <4>2. CASE i = n + 1
        <5>1. t.queue[i] = m
          BY <2>1, <2>2, <4>2 DEF DeliveryRecord
        <5> QED BY <2>1, <3>1, <4>2, <5>1
      <4> QED BY <2>1, <4>1, <4>2
    <3>4. \A i, j \in 0..(n + 1) : i <= j => g[i] <= g[j]
      <4> SUFFICES ASSUME NEW i \in 0..(n + 1), NEW j \in 0..(n + 1), i <= j
                   PROVE  g[i] <= g[j]
        OBVIOUS
      <4>1. CASE j <= n
        BY <2>1, <3>1, <4>1 DEF PrefixSums
      <4>2. CASE j = n + 1 /\ i <= n
        <5>1. f[i] <= f[n] /\ f[i] \in Nat /\ f[n] \in Nat
          BY <2>1, <3>1, <4>2 DEF PrefixSums
        <5> QED BY <2>1, <4>2, <5>1
      <4>3. CASE j = n + 1 /\ i = n + 1
        BY <2>1, <3>2, <4>3
      <4> QED BY <2>1, <4>1, <4>2, <4>3
    <3>5. PrefixSums(g, t.queue)
      BY <2>3, <3>2, <3>3, <3>4 DEF PrefixSums
    <3>6. t.held = g[Len(t.queue)]
      BY <2>2, <2>3, <3>1, <3>2
    <3>7. g \in [0..Len(t.queue) -> Nat]
      BY <2>3, <3>2
    <3> HIDE DEF g
    <3> QED BY <3>5, <3>6, <3>7 DEF HeldIsSum
  <2>5. WithinLimits(t)
    <3>1. s.bytes \in Nat /\ s.held \in Nat /\ Len(s.chan) <= ChannelCap
      BY GoodFields
    <3>2. s.bytes + (s.held + m.held) <= ByteLimit /\ n + 1 <= RecordLimit
      BY <1>2, <2>1, <3>1, DeliveryAssumption, SMTT(60)
    <3> HIDE DEF t
    <3> QED BY <2>2, <2>3, <3>1, <3>2 DEF WithinLimits
  <2>6. GoodRecord(t)
    BY <2>2, <2>3, <2>4, <2>5 DEF GoodRecord
  <2> QED BY <1>2, <2>6 DEF QueueNative
<1> QED BY <1>1, <1>2

\* Moving the head of the queue to the channel frees at least what it costs.
LEMMA MoveHeadGood ==
  ASSUME NEW s, GoodRecord(s), HeadMoves(s)
  PROVE  GoodRecord(MoveHead(s))
<1> DEFINE m == Head(s.queue)
           n == Len(s.queue)
           u == [s EXCEPT !.queue = Tail(@), !.held = @ - m.held]
           t == MoveHead(s)
<1>1. /\ s \in DeliveryRecord /\ s.queue \in Seq(SoundMessage)
      /\ s.queue # <<>> /\ Accepts(s, m)
  BY DEF GoodRecord, HeadMoves
<1>2. /\ n \in Nat \ {0} /\ m \in SoundMessage /\ m = s.queue[1]
      /\ Tail(s.queue) \in Seq(SoundMessage) /\ Len(Tail(s.queue)) = n - 1
      /\ \A i \in 1..(n - 1) : Tail(s.queue)[i] = s.queue[i + 1]
  BY <1>1
<1>3. m \in Message /\ m.bytes \in Nat /\ m.held \in Nat /\ m.bytes <= m.held
  BY <1>2 DEF SoundMessage, Message
<1>4. PICK f \in [0..n -> Nat] : PrefixSums(f, s.queue) /\ s.held = f[n]
  BY DEF GoodRecord, HeldIsSum
<1>5. f[1] = m.held /\ \A i \in 1..n : f[1] <= f[i] /\ f[i] - f[1] \in Nat
  <2>1. f[0] = 0 /\ f[1] = f[0] + s.queue[1].held
    BY <1>2, <1>4 DEF PrefixSums
  <2>2. \A i \in 1..n : f[1] <= f[i] /\ f[i] \in Nat
    BY <1>2, <1>4 DEF PrefixSums
  <2> QED BY <1>2, <1>3, <2>1, <2>2
<1>6. s.held - m.held \in Nat /\ Tail(s.queue) \in Seq(Message)
  BY <1>2, <1>4, <1>5 DEF SoundMessage
<1>7. u \in DeliveryRecord
  BY <1>1, <1>6 DEF DeliveryRecord
<1>8. t = Delivered(u, m)
  BY DEF MoveHead
<1>9. t \in DeliveryRecord
  BY <1>3, <1>7, <1>8, DeliveredType
<1>10. /\ u.queue = Tail(s.queue) /\ u.held = s.held - m.held
       /\ u.chan = s.chan /\ u.bytes = s.bytes
  BY <1>1 DEF DeliveryRecord
<1>11. /\ t.queue = Tail(s.queue) /\ t.held = s.held - m.held
       /\ t.chan = Append(s.chan, m) /\ t.bytes = s.bytes + m.bytes
  <2> HIDE DEF u
  <2> QED BY <1>7, <1>8, <1>10 DEF Delivered, DeliveryRecord
<1>12. HeldIsSum(t)
  <2> DEFINE g == [i \in 0..(n - 1) |-> f[i + 1] - f[1]]
  <2>1. g \in [0..(n - 1) -> Nat]
    BY <1>2, <1>5
  <2>2. g[0] = 0 /\ g[n - 1] = f[n] - f[1]
    BY <1>2, <1>4, <1>5
  <2>3. \A i \in 1..(n - 1) : g[i] = g[i - 1] + Tail(s.queue)[i].held
    <3> SUFFICES ASSUME NEW i \in 1..(n - 1)
                 PROVE  g[i] = g[i - 1] + Tail(s.queue)[i].held
      OBVIOUS
    <3>1. i \in Nat /\ i + 1 \in 2..n /\ i \in 1..n /\ i \in 0..(n - 1)
          /\ i - 1 \in 0..(n - 1)
      BY <1>2
    <3>2. f[i + 1] = f[i] + s.queue[i + 1].held
      BY <1>2, <1>4, <3>1, SMTT(60) DEF PrefixSums
    <3>3. s.queue[i + 1] \in SoundMessage
      BY <1>1, <1>2, <3>1
    <3>4. s.queue[i + 1].held \in Nat
      BY <3>3 DEF SoundMessage, Message
    <3>5. g[i] = f[i + 1] - f[1] /\ g[i - 1] = f[i] - f[1]
      BY <1>2, <3>1
    <3>6. f[i] \in Nat /\ f[1] \in Nat
      BY <1>2, <1>4, <3>1
    <3> QED BY <1>2, <3>2, <3>4, <3>5, <3>6
  <2>4. \A i, j \in 0..(n - 1) : i <= j => g[i] <= g[j]
    <3> SUFFICES ASSUME NEW i \in 0..(n - 1), NEW j \in 0..(n - 1), i <= j
                 PROVE  g[i] <= g[j]
      OBVIOUS
    <3>1. i + 1 \in 0..n /\ j + 1 \in 0..n /\ i + 1 <= j + 1 /\ 1 \in 0..n
      BY <1>2
    <3>2. f[i + 1] <= f[j + 1] /\ f[i + 1] \in Nat /\ f[j + 1] \in Nat /\ f[1] \in Nat
      BY <1>4, <3>1 DEF PrefixSums
    <3> QED BY <3>2
  <2>5. PrefixSums(g, t.queue)
    BY <1>2, <1>11, <2>1, <2>2, <2>3, <2>4 DEF PrefixSums
  <2>6. t.held = g[Len(t.queue)] /\ g \in [0..Len(t.queue) -> Nat]
    BY <1>2, <1>4, <1>5, <1>11, <2>1, <2>2
  <2> HIDE DEF g
  <2> QED BY <2>5, <2>6 DEF HeldIsSum
<1>13. WithinLimits(t)
  <2>1. s.bytes \in Nat /\ s.held \in Nat /\ s.bytes + s.held <= ByteLimit
        /\ Len(s.chan) \in Nat /\ Len(s.queue) <= RecordLimit
        /\ s.chan \in Seq(Message)
    BY GoodFields
  <2>2. Len(s.chan) < ChannelCap
    BY <1>1 DEF Accepts
  <2>3. s.bytes + m.bytes + (s.held - m.held) <= ByteLimit
    BY <1>3, <2>1, DeliveryAssumption, SMTT(60)
  <2> QED BY <1>2, <1>11, <2>1, <2>2, <2>3, DeliveryAssumption DEF WithinLimits
<1> QED BY <1>2, <1>9, <1>11, <1>12, <1>13 DEF GoodRecord

-----------------------------------------------------------------------------
(* The operations built from these *)

\* deliver and its three outcomes, for a client whose queue is empty.
LEMMA TryDeliverGood ==
  ASSUME NEW s, GoodRecord(s), s.queue = <<>>, NEW m \in SoundMessage
  PROVE  GoodRecord(TryDeliver(s, m))
<1>1. m \in Message
  BY DEF SoundMessage
<1>2. CASE Accepts(s, m)
  BY <1>1, <1>2, DeliveredGood DEF TryDeliver, Hangs, Accepts
<1>3. CASE Hangs(s, m)
  BY <1>3, DisconnectedGood DEF TryDeliver, Hangs, Accepts
<1>4. CASE ~Accepts(s, m) /\ ~Hangs(s, m)
  BY <1>4, OweSnapshotGood, QueueNativeGood DEF TryDeliver
<1> QED BY <1>2, <1>3, <1>4

\* send_native keeps the limits whatever the client owes or has waiting.
LEMMA SendNativeGood ==
  ASSUME NEW s, GoodRecord(s), NEW m \in SoundMessage
  PROVE  GoodRecord(SendNative(s, m))
<1>1. CASE ~s.live \/ Closing(s)
  BY <1>1 DEF SendNative
<1>2. CASE s.live /\ ~Closing(s) /\ HasPending(s) /\ Defers(m)
  BY <1>2, OweSnapshotGood DEF SendNative
<1>3. CASE s.live /\ ~Closing(s) /\ s.queue # <<>> /\ ~Defers(m)
  BY <1>3, QueueNativeGood DEF SendNative
<1>4. CASE /\ s.live /\ ~Closing(s) /\ s.queue = <<>>
           /\ ~(HasPending(s) /\ Defers(m))
  BY <1>4, TryDeliverGood DEF SendNative
<1> QED BY <1>1, <1>2, <1>3, <1>4 DEF HasPending

\* A critical message never takes more room on the channel than in the queue.
LEMMA CriticalSound ==
  ASSUME NEW kind \in CriticalKinds, NEW nth \in Nat, NEW gone \in BOOLEAN
  PROVE  Critical(kind, nth, gone) \in SoundMessage
  BY DEF Critical, SoundMessage, Message, Kinds, Header

\* Replies, effects and lifecycle records keep the limits.
LEMMA SendCriticalGood ==
  ASSUME NEW s, GoodRecord(s), NEW kind \in CriticalKinds, NEW gone \in BOOLEAN
  PROVE  GoodRecord(SendCritical(s, kind, gone))
<1> DEFINE t == [s EXCEPT !.issued = @ + 1]
<1>1. s \in DeliveryRecord /\ s.issued + 1 \in Nat
  BY GoodFields
<1>2. /\ t \in DeliveryRecord /\ t.queue = s.queue /\ t.held = s.held
      /\ t.chan = s.chan /\ t.bytes = s.bytes
  BY <1>1 DEF DeliveryRecord
<1>3. GoodRecord(t)
  <2>1. Len(t.chan) <= ChannelCap /\ t.bytes <= s.bytes
    BY <1>2, GoodFields
  <2> HIDE DEF t
  <2> QED BY <1>2, <2>1, SameQueueGood
<1>4. Critical(kind, s.issued + 1, gone) \in SoundMessage
  BY <1>1, CriticalSound
<1> HIDE DEF t
<1>5. GoodRecord(SendNative(t, Critical(kind, s.issued + 1, gone)))
  BY <1>3, <1>4, SendNativeGood
<1> QED BY <1>5 DEF SendCritical, t

\* Nor does drag metadata.
LEMMA DragSound ==
  ASSUME NEW nth \in Nat, NEW seq \in Nat
  PROVE  /\ DragMessage(nth, seq) \in SoundMessage
         /\ DragMessage(nth, seq).kind = "drag"
         /\ DragMessage(nth, seq).nth = nth /\ DragMessage(nth, seq).seq = seq
         /\ ~DragMessage(nth, seq).gone
  BY DEF DragMessage, SoundMessage, Message, Kinds, CriticalKinds, Header

\* Drag metadata keeps the limits.
LEMMA SendDragGood ==
  ASSUME NEW s, GoodRecord(s), NEW seq \in Nat
  PROVE  GoodRecord(SendDrag(s, seq))
<1> DEFINE t == [s EXCEPT !.issued = @ + 1]
           m == DragMessage(s.issued + 1, seq)
<1>1. s \in DeliveryRecord /\ s.issued + 1 \in Nat
  BY GoodFields
<1>2. /\ t \in DeliveryRecord /\ t.queue = s.queue /\ t.held = s.held
      /\ t.chan = s.chan /\ t.bytes = s.bytes
  BY <1>1 DEF DeliveryRecord
<1>3. GoodRecord(t)
  <2>1. Len(t.chan) <= ChannelCap /\ t.bytes <= s.bytes
    BY <1>2, GoodFields
  <2> HIDE DEF t
  <2> QED BY <1>2, <2>1, SameQueueGood
<1>4. m \in SoundMessage
  BY <1>1, DragSound
<1>5. SendDrag(s, seq) = s \/ SendDrag(s, seq) = SendNative(t, m)
  BY DEF SendDrag
<1> HIDE DEF t, m
<1>6. GoodRecord(SendNative(t, m))
  BY <1>3, <1>4, SendNativeGood
<1> QED BY <1>5, <1>6

\* So does a snapshot, or the Aborted that replaces one too large.
LEMMA SnapshotNowGood ==
  ASSUME NEW s, GoodRecord(s), NEW snap \in SoundMessage, NEW fits \in BOOLEAN
  PROVE  GoodRecord(SnapshotNow(s, snap, fits))
  BY SendNativeGood, SendCriticalGood DEF SnapshotNow, CriticalKinds

\* Bookkeeping of snapshots only: the flags may change at will.
LEMMA FlagsGood ==
  ASSUME NEW s, GoodRecord(s), NEW t \in DeliveryRecord,
         t.queue = s.queue, t.held = s.held, t.chan = s.chan, t.bytes = s.bytes
  PROVE  GoodRecord(t)
<1>1. Len(t.chan) <= ChannelCap /\ t.bytes <= s.bytes
  BY GoodFields
<1> QED BY <1>1, SameQueueGood

\* So does asking for a snapshot, answered now, later or not at all.
LEMMA SendSnapshotGood ==
  ASSUME NEW s, GoodRecord(s), NEW snap \in SoundMessage, NEW fits \in BOOLEAN
  PROVE  GoodRecord(SendSnapshot(s, snap, fits))
<1> DEFINE t == [s EXCEPT !.requested = TRUE]
<1>1. s \in DeliveryRecord
  BY GoodFields
<1>2. /\ t \in DeliveryRecord /\ t.queue = s.queue /\ t.held = s.held
      /\ t.chan = s.chan /\ t.bytes = s.bytes
  BY <1>1 DEF DeliveryRecord
<1>3. GoodRecord(t)
  <2> HIDE DEF t
  <2> QED BY <1>2, FlagsGood
<1>4. CASE s.live /\ s.pending
  BY <1>3, <1>4 DEF SendSnapshot
<1>5. CASE s.live /\ ~s.pending /\ HasPending(s)
  BY <1>5, OweSnapshotGood DEF SendSnapshot
<1>6. CASE s.live /\ ~s.pending /\ ~HasPending(s)
  BY <1>6, SnapshotNowGood DEF SendSnapshot
<1>7. CASE ~s.live
  BY <1>7 DEF SendSnapshot
<1> QED BY <1>4, <1>5, <1>6, <1>7

\* So does the acknowledgement of a snapshot and the answer it releases.
LEMMA SnapshotSentGood ==
  ASSUME NEW s, GoodRecord(s), NEW snap \in SoundMessage, NEW fits \in BOOLEAN
  PROVE  GoodRecord(SnapshotSent(s, snap, fits))
<1> DEFINE t == [s EXCEPT !.pending = FALSE, !.requested = FALSE]
<1>1. s \in DeliveryRecord
  BY GoodFields
<1>2. /\ t \in DeliveryRecord /\ t.queue = s.queue /\ t.held = s.held
      /\ t.chan = s.chan /\ t.bytes = s.bytes
  BY <1>1 DEF DeliveryRecord
<1> HIDE DEF t
<1>3. GoodRecord(t)
  BY <1>2, FlagsGood
<1>4. GoodRecord(SendSnapshot(t, snap, fits))
  BY <1>3, SendSnapshotGood
<1> QED BY <1>3, <1>4 DEF SnapshotSent, t

\* So does freezing the final checkpoint into a queue that owes one.
LEMMA FinalNativeBarrierGood ==
  ASSUME NEW s, GoodRecord(s), NEW snap \in SoundMessage, NEW fits \in BOOLEAN
  PROVE  GoodRecord(FinalNativeBarrier(s, snap, fits))
  BY QueueNativeGood, DisconnectedGood DEF FinalNativeBarrier

\* So does closing a client, at once or after its queue.
LEMMA DisconnectAfterDeliveryGood ==
  ASSUME NEW s, GoodRecord(s)
  PROVE  GoodRecord(DisconnectAfterDelivery(s))
<1> DEFINE t == [s EXCEPT !.closing = "draining", !.needs = FALSE,
                          !.subscribed = FALSE, !.requested = FALSE]
<1>1. s \in DeliveryRecord
  BY GoodFields
<1>2. /\ t \in DeliveryRecord /\ t.queue = s.queue /\ t.held = s.held
      /\ t.chan = s.chan /\ t.bytes = s.bytes
  BY <1>1 DEF DeliveryRecord, ClosingStates
<1>3. GoodRecord(t)
  <2> HIDE DEF t
  <2> QED BY <1>2, FlagsGood
<1> QED BY <1>3, DisconnectedGood DEF DisconnectAfterDelivery

\* So does paying a snapshot debt.
LEMMA RecoverGood ==
  ASSUME NEW s, GoodRecord(s), NEW snap \in SoundMessage, NEW fits \in BOOLEAN
  PROVE  GoodRecord(Recover(s, snap, fits))
<1> DEFINE t == [s EXCEPT !.needs = FALSE, !.queue = <<>>, !.held = 0,
                          !.requested = FALSE]
<1>1. s \in DeliveryRecord /\ <<>> \in Seq(Message) /\ 0 \in Nat
  BY GoodFields
<1>2. /\ t \in DeliveryRecord /\ t.queue = <<>> /\ t.held = 0
      /\ t.chan = s.chan /\ t.bytes = s.bytes
  <2>1. t \in DeliveryRecord
    BY <1>1 DEF DeliveryRecord
  <2> QED BY <1>1, <2>1 DEF DeliveryRecord
<1> HIDE DEF t
<1>3. Len(t.chan) <= ChannelCap /\ t.bytes <= ByteLimit
  BY <1>2, GoodFields, DeliveryAssumption
<1>4. GoodRecord(t)
  BY <1>2, <1>3, EmptyQueueGood
<1>5. GoodRecord(SnapshotNow(t, snap, fits))
  BY <1>4, SnapshotNowGood
<1> QED BY <1>5, DisconnectedGood DEF Recover, t

-----------------------------------------------------------------------------
(***************************************************************************)
(* What the operations of delivery.rs do to the messages under way to one  *)
(* client, for every record and every value of the limits.  Two things are *)
(* followed through each operation:                                        *)
(*                                                                         *)
(*   Steady  the roles of a client and the owner's note of the snapshot it *)
(*           has outstanding: who may be owed what, and that the note      *)
(*           agrees with the channel and the writer;                       *)
(*   Track   what the client's view will show once it has read everything  *)
(*           under way.  Replaying the messages over what it shows now     *)
(*           never goes back, never skips or repeats an output or a        *)
(*           numbered message, and a subscribed client that is owed no     *)
(*           snapshot ends at the engine's present state.                  *)
(*                                                                         *)
(* Track quantifies over the replay (a function on the positions of the    *)
(* sequence) instead of computing it, so no induction over the sequence is *)
(* needed: appending a message extends the function, reading one shifts    *)
(* it, and forgetting the queue restricts it.                              *)
(***************************************************************************)

-----------------------------------------------------------------------------
(* Roles, and the note of the outstanding snapshot *)

\* A channel that still holds a snapshot
HasSnapshot(chan) == \E i \in 1..Len(chan) : Snapshot(chan[i])

\* A channel that holds no second one
OneSnapshot(chan) ==
  \A i, j \in 1..Len(chan) : Snapshot(chan[i]) /\ Snapshot(chan[j]) => i = j

\* A client the owner still sends to: in the session, or on its way out.
Engaged(s) == s.subscribed \/ Closing(s)

\* The roles of a client exclude each other: only a subscriber may be owed a
\* snapshot, and nothing waits for a client that has no role.
Roles(s) ==
  /\ s.subscribed => s.live /\ ~Closing(s)
  /\ Closing(s) => s.live
  /\ s.needs \/ s.requested => s.subscribed
  /\ s.pending \/ s.queue # <<>> => Engaged(s)

\* The owner's note of an outstanding snapshot.  busy: the writer has taken
\* one from the channel and the owner has not learnt of it yet.
Noted(s, busy) ==
  /\ OneSnapshot(s.chan)
  /\ ~(busy /\ HasSnapshot(s.chan))
  /\ s.live /\ s.rx => (s.pending <=> busy \/ HasSnapshot(s.chan))

\* mid: a flush is going to visit this client.
Steady(s, busy, mid) ==
  /\ s \in DeliveryRecord
  /\ Roles(s)
  /\ Noted(s, busy)
  /\ Closing(s) /\ s.queue = <<>> => mid

\* What drive and broadcast check before they send to a client.
Serving(s) == s.live => s.subscribed

\* The records that the operations leave, by name
Queued(s, m) == [s EXCEPT !.queue = Append(@, m), !.held = @ + m.held]
Counted(s)   == [s EXCEPT !.issued = @ + 1]
Requested(s) == [s EXCEPT !.requested = TRUE]
Acked(s)     == [s EXCEPT !.pending = FALSE, !.requested = FALSE]
Cleared(s)   == [s EXCEPT !.needs = FALSE, !.queue = <<>>, !.held = 0,
                          !.requested = FALSE]
Draining(s)  == [s EXCEPT !.closing = "draining", !.needs = FALSE,
                          !.subscribed = FALSE, !.requested = FALSE]

\* A client that enters the session
Subscribed(s) == [s EXCEPT !.subscribed = TRUE]

\* The types of a record's fields
LEMMA RecordTypes ==
  ASSUME NEW s \in DeliveryRecord
  PROVE  /\ s.live \in BOOLEAN /\ s.subscribed \in BOOLEAN /\ s.rx \in BOOLEAN
         /\ s.needs \in BOOLEAN /\ s.pending \in BOOLEAN /\ s.requested \in BOOLEAN
         /\ s.chan \in Seq(Message) /\ s.queue \in Seq(Message)
         /\ s.bytes \in Nat /\ s.held \in Nat /\ s.issued \in Nat
         /\ s.closing \in ClosingStates
  BY DEF DeliveryRecord

\* What disconnect keeps of a record.
LEMMA DisconnectedFields ==
  ASSUME NEW s \in DeliveryRecord, NEW t, t = Disconnected(s)
  PROVE  /\ t \in DeliveryRecord
         /\ ~t.live /\ ~t.subscribed /\ ~t.needs /\ ~t.pending /\ ~t.requested
         /\ t.queue = <<>> /\ t.closing = "no" /\ ~Closing(t)
         /\ t.chan = s.chan /\ t.rx = s.rx /\ t.issued = s.issued
<1>1. t \in DeliveryRecord
  BY AbsentType DEF Disconnected, DeliveryRecord
<1> QED BY <1>1 DEF Disconnected, Absent, Closing

\* What a delivery changes of a record.
LEMMA DeliveredFields ==
  ASSUME NEW s \in DeliveryRecord, NEW m \in Message, NEW t, t = Delivered(s, m)
  PROVE  /\ t \in DeliveryRecord
         /\ t.chan = Append(s.chan, m) /\ t.pending = (s.pending \/ Snapshot(m))
         /\ t.live = s.live /\ t.subscribed = s.subscribed /\ t.rx = s.rx
         /\ t.queue = s.queue /\ t.needs = s.needs /\ t.closing = s.closing
         /\ t.requested = s.requested /\ t.issued = s.issued
         /\ (Closing(t) <=> Closing(s)) /\ (Engaged(t) <=> Engaged(s))
<1>1. t \in DeliveryRecord
  BY DeliveredType
<1>2. /\ t.chan = Append(s.chan, m) /\ t.pending = (s.pending \/ Snapshot(m))
      /\ t.live = s.live /\ t.subscribed = s.subscribed /\ t.rx = s.rx
      /\ t.queue = s.queue /\ t.needs = s.needs /\ t.closing = s.closing
      /\ t.requested = s.requested /\ t.issued = s.issued
  BY DEF Delivered, DeliveryRecord
<1> QED BY <1>1, <1>2 DEF Closing, Engaged

\* What waiting in the Pending entry changes of a record.
LEMMA QueuedFields ==
  ASSUME NEW s \in DeliveryRecord, NEW m \in Message, NEW t, t = Queued(s, m)
  PROVE  /\ t \in DeliveryRecord
         /\ t.queue = Append(s.queue, m) /\ t.queue # <<>>
         /\ t.live = s.live /\ t.subscribed = s.subscribed /\ t.rx = s.rx
         /\ t.chan = s.chan /\ t.needs = s.needs /\ t.closing = s.closing
         /\ t.pending = s.pending
         /\ t.requested = s.requested /\ t.issued = s.issued
         /\ (Closing(t) <=> Closing(s)) /\ (Engaged(t) <=> Engaged(s))
<1>1. /\ Append(s.queue, m) \in Seq(Message) /\ Append(s.queue, m) # <<>>
      /\ s.held + m.held \in Nat
  <2>1. m.held \in Nat
    BY DEF Message
  <2>2. s.queue \in Seq(Message) /\ s.held \in Nat
    BY RecordTypes
  <2>3. Append(s.queue, m) \in Seq(Message) /\ Append(s.queue, m) # <<>>
    BY <2>2
  <2> QED BY <2>1, <2>2, <2>3
<1>2. /\ t \in DeliveryRecord
      /\ t.queue = Append(s.queue, m)
      /\ t.live = s.live /\ t.subscribed = s.subscribed /\ t.rx = s.rx
      /\ t.chan = s.chan /\ t.needs = s.needs /\ t.closing = s.closing
      /\ t.pending = s.pending
      /\ t.requested = s.requested /\ t.issued = s.issued
  BY <1>1 DEF Queued, DeliveryRecord
<1> QED BY <1>1, <1>2 DEF Closing, Engaged

\* What the debt of a snapshot changes of a record.
LEMMA OwedFields ==
  ASSUME NEW s \in DeliveryRecord, NEW t, t = OweSnapshot(s)
  PROVE  /\ t \in DeliveryRecord
         /\ t.needs
         /\ t.live = s.live /\ t.subscribed = s.subscribed /\ t.rx = s.rx
         /\ t.chan = s.chan /\ t.queue = s.queue /\ t.closing = s.closing
         /\ t.pending = s.pending
         /\ t.requested = s.requested /\ t.issued = s.issued
         /\ (Closing(t) <=> Closing(s)) /\ (Engaged(t) <=> Engaged(s))
  BY DEF OweSnapshot, DeliveryRecord, Closing, Engaged

\* What numbering a message changes of a record.
LEMMA CountedFields ==
  ASSUME NEW s \in DeliveryRecord, NEW t, t = Counted(s)
  PROVE  /\ t \in DeliveryRecord
         /\ t.issued = s.issued + 1
         /\ t.live = s.live /\ t.subscribed = s.subscribed /\ t.rx = s.rx
         /\ t.chan = s.chan /\ t.queue = s.queue /\ t.closing = s.closing
         /\ t.pending = s.pending /\ t.needs = s.needs
         /\ t.requested = s.requested
         /\ (Closing(t) <=> Closing(s)) /\ (Engaged(t) <=> Engaged(s))
<1>1. s.issued + 1 \in Nat
  BY RecordTypes
<1>2. /\ t \in DeliveryRecord
      /\ t.issued = s.issued + 1
      /\ t.live = s.live /\ t.subscribed = s.subscribed /\ t.rx = s.rx
      /\ t.chan = s.chan /\ t.queue = s.queue /\ t.closing = s.closing
      /\ t.pending = s.pending /\ t.needs = s.needs
      /\ t.requested = s.requested
  BY <1>1 DEF Counted, DeliveryRecord
<1> QED BY <1>2 DEF Closing, Engaged

\* What an answer put off changes of a record.
LEMMA RequestedFields ==
  ASSUME NEW s \in DeliveryRecord, NEW t, t = Requested(s)
  PROVE  /\ t \in DeliveryRecord
         /\ t.requested
         /\ t.live = s.live /\ t.subscribed = s.subscribed /\ t.rx = s.rx
         /\ t.chan = s.chan /\ t.queue = s.queue /\ t.closing = s.closing
         /\ t.pending = s.pending /\ t.needs = s.needs
         /\ t.issued = s.issued
         /\ (Closing(t) <=> Closing(s)) /\ (Engaged(t) <=> Engaged(s))
  BY DEF Requested, DeliveryRecord, Closing, Engaged

\* What an acknowledgement changes of a record.
LEMMA AckedFields ==
  ASSUME NEW s \in DeliveryRecord, NEW t, t = Acked(s)
  PROVE  /\ t \in DeliveryRecord
         /\ ~t.requested /\ ~t.pending
         /\ t.live = s.live /\ t.subscribed = s.subscribed /\ t.rx = s.rx
         /\ t.chan = s.chan /\ t.queue = s.queue /\ t.closing = s.closing
         /\ t.needs = s.needs /\ t.issued = s.issued
         /\ (Closing(t) <=> Closing(s)) /\ (Engaged(t) <=> Engaged(s))
  BY DEF Acked, DeliveryRecord, Closing, Engaged

\* What paying a debt changes of a record.
LEMMA ClearedFields ==
  ASSUME NEW s \in DeliveryRecord, NEW t, t = Cleared(s)
  PROVE  /\ t \in DeliveryRecord
         /\ ~t.requested /\ ~t.needs /\ t.queue = <<>>
         /\ t.live = s.live /\ t.subscribed = s.subscribed /\ t.rx = s.rx
         /\ t.chan = s.chan /\ t.closing = s.closing
         /\ t.pending = s.pending /\ t.issued = s.issued
         /\ (Closing(t) <=> Closing(s)) /\ (Engaged(t) <=> Engaged(s))
<1>1. <<>> \in Seq(Message)
  OBVIOUS
<1> QED BY <1>1 DEF Cleared, DeliveryRecord, Closing, Engaged

\* What remains of a client that only finishes its queue.
LEMMA DrainingFields ==
  ASSUME NEW s \in DeliveryRecord, NEW t, t = Draining(s)
  PROVE  /\ t \in DeliveryRecord
         /\ ~t.requested /\ ~t.needs /\ ~t.subscribed
         /\ Closing(t) /\ Engaged(t)
         /\ t.live = s.live /\ t.rx = s.rx
         /\ t.chan = s.chan /\ t.queue = s.queue
         /\ t.pending = s.pending /\ t.issued = s.issued
  BY DEF Draining, DeliveryRecord, Closing, Engaged, ClosingStates

\* What subscribing changes of a record.
LEMMA SubscribedFields ==
  ASSUME NEW s \in DeliveryRecord, NEW t, t = Subscribed(s)
  PROVE  /\ t \in DeliveryRecord
         /\ t.subscribed /\ Engaged(t)
         /\ t.live = s.live /\ t.rx = s.rx
         /\ t.chan = s.chan /\ t.queue = s.queue /\ t.closing = s.closing
         /\ t.needs = s.needs /\ t.requested = s.requested
         /\ t.pending = s.pending /\ t.issued = s.issued
         /\ (Closing(t) <=> Closing(s))
  BY DEF Subscribed, DeliveryRecord, Closing, Engaged

\* What ten seconds change of a closing client.
LEMMA ExpiredFields ==
  ASSUME NEW s \in DeliveryRecord, NEW t, t = [s EXCEPT !.closing = "expired"]
  PROVE  /\ t \in DeliveryRecord
         /\ Closing(t) /\ Engaged(t)
         /\ t.live = s.live /\ t.subscribed = s.subscribed /\ t.rx = s.rx
         /\ t.chan = s.chan /\ t.queue = s.queue
         /\ t.needs = s.needs /\ t.requested = s.requested
         /\ t.pending = s.pending /\ t.issued = s.issued
  BY DEF DeliveryRecord, Closing, Engaged, ClosingStates

\* What one step of flush_native changes of a record.
LEMMA MovedFields ==
  ASSUME NEW s, GoodRecord(s), HeadMoves(s), NEW t, t = MoveHead(s)
  PROVE  /\ t \in DeliveryRecord
         /\ s.queue # <<>> /\ Head(s.queue) \in Message
         /\ (Snapshot(Head(s.queue)) => ~s.pending) /\ s.rx
         /\ t.chan = Append(s.chan, Head(s.queue)) /\ t.queue = Tail(s.queue)
         /\ t.pending = (s.pending \/ Snapshot(Head(s.queue)))
         /\ t.live = s.live /\ t.subscribed = s.subscribed /\ t.rx = s.rx
         /\ t.needs = s.needs /\ t.closing = s.closing
         /\ t.requested = s.requested /\ t.issued = s.issued
         /\ (Closing(t) <=> Closing(s)) /\ (Engaged(t) <=> Engaged(s))
<1> DEFINE m == Head(s.queue)
           u == [s EXCEPT !.queue = Tail(@), !.held = @ - m.held]
<1>1. s \in DeliveryRecord /\ s.queue # <<>> /\ Accepts(s, m) /\ t \in DeliveryRecord
  BY GoodFields, MoveHeadGood DEF HeadMoves, GoodRecord
<1>2. m \in Message /\ (Snapshot(m) => ~s.pending) /\ s.rx
  BY <1>1 DEF DeliveryRecord, HeadMoves, HeadBlocked, Accepts
<1>3. /\ u.queue = Tail(s.queue) /\ u.chan = s.chan /\ u.pending = s.pending
      /\ u.live = s.live /\ u.subscribed = s.subscribed /\ u.rx = s.rx
      /\ u.needs = s.needs /\ u.closing = s.closing
      /\ u.requested = s.requested /\ u.issued = s.issued
      /\ DOMAIN u = DOMAIN s
  BY <1>1 DEF DeliveryRecord
<1>4. t = Delivered(u, m)
  BY DEF MoveHead
<1> HIDE DEF u
<1>5. DOMAIN u = {"live", "subscribed", "chan", "rx", "bytes", "queue", "held", "needs",
                  "closing", "pending", "requested", "issued"}
  BY <1>1, <1>3 DEF DeliveryRecord
<1>6. /\ t.chan = Append(u.chan, m) /\ t.queue = u.queue
      /\ t.pending = (u.pending \/ Snapshot(m))
      /\ t.live = u.live /\ t.subscribed = u.subscribed /\ t.rx = u.rx
      /\ t.needs = u.needs /\ t.closing = u.closing
      /\ t.requested = u.requested /\ t.issued = u.issued
  BY <1>4, <1>5 DEF Delivered
<1> QED BY <1>1, <1>2, <1>3, <1>6 DEF Closing, Engaged


-----------------------------------------------------------------------------

\* A Steady record has its type.
LEMMA RecordFacts ==
  ASSUME NEW s, NEW busy, NEW mid, Steady(s, busy, mid)
  PROVE  /\ s \in DeliveryRecord /\ s.chan \in Seq(Message) /\ s.queue \in Seq(Message)
         /\ Len(s.chan) \in Nat
  BY DEF Steady, DeliveryRecord

\* A snapshot may join a channel that holds none.
LEMMA NotedAppend ==
  ASSUME NEW chan \in Seq(Message), NEW m \in Message, OneSnapshot(chan),
         Snapshot(m) => ~HasSnapshot(chan)
  PROVE  /\ OneSnapshot(Append(chan, m))
         /\ HasSnapshot(Append(chan, m)) <=> HasSnapshot(chan) \/ Snapshot(m)
<1> DEFINE n == Len(chan)
           p == Append(chan, m)
<1>1. /\ n \in Nat /\ Len(p) = n + 1 /\ p[n + 1] = m
      /\ \A i \in 1..n : p[i] = chan[i]
  OBVIOUS
<1> HIDE DEF p, n
<1>2. OneSnapshot(chan) <=> \A i, j \in 1..n : Snapshot(chan[i]) /\ Snapshot(chan[j]) => i = j
  BY DEF OneSnapshot, n
<1>3. HasSnapshot(chan) <=> \E i \in 1..n : Snapshot(chan[i])
  BY DEF HasSnapshot, n
<1>4. OneSnapshot(p)
  <2> SUFFICES ASSUME NEW i \in 1..(n + 1), NEW j \in 1..(n + 1),
                      Snapshot(p[i]), Snapshot(p[j])
               PROVE  i = j
    BY <1>1 DEF OneSnapshot
  <2>1. (i \in 1..n \/ i = n + 1) /\ (j \in 1..n \/ j = n + 1)
    BY <1>1
  <2> QED BY <1>1, <1>2, <1>3, <2>1
<1>5. HasSnapshot(p) <=> HasSnapshot(chan) \/ Snapshot(m)
  <2>1. HasSnapshot(p) <=> \E i \in 1..(n + 1) : Snapshot(p[i])
    BY <1>1 DEF HasSnapshot
  <2>2. (n + 1) \in 1..(n + 1) /\ 1..n \subseteq 1..(n + 1)
        /\ \A i \in 1..(n + 1) : i \in 1..n \/ i = n + 1
    BY <1>1
  <2> QED BY <1>1, <1>3, <2>1, <2>2
<1> QED BY <1>4, <1>5 DEF p

\* Taking the head off a channel takes its snapshot, or none.
LEMMA NotedTail ==
  ASSUME NEW chan \in Seq(Message), chan # <<>>, OneSnapshot(chan)
  PROVE  /\ OneSnapshot(Tail(chan))
         /\ HasSnapshot(Tail(chan)) => HasSnapshot(chan)
         /\ ~(HasSnapshot(Tail(chan)) /\ Snapshot(Head(chan)))
         /\ HasSnapshot(chan) => HasSnapshot(Tail(chan)) \/ Snapshot(Head(chan))
<1> DEFINE n == Len(chan)
           p == Tail(chan)
<1>1. /\ n \in Nat \ {0} /\ Len(p) = n - 1 /\ Head(chan) = chan[1]
      /\ \A i \in 1..(n - 1) : p[i] = chan[i + 1]
  OBVIOUS
<1> HIDE DEF p, n
<1>2. \A i, j \in 1..n : Snapshot(chan[i]) /\ Snapshot(chan[j]) => i = j
  BY DEF OneSnapshot, n
<1>3. HasSnapshot(chan) <=> \E i \in 1..n : Snapshot(chan[i])
  BY DEF HasSnapshot, n
<1>4. HasSnapshot(p) <=> \E i \in 1..(n - 1) : Snapshot(chan[i + 1])
  BY <1>1 DEF HasSnapshot
<1>5. OneSnapshot(p)
  <2> SUFFICES ASSUME NEW i \in 1..(n - 1), NEW j \in 1..(n - 1),
                      Snapshot(p[i]), Snapshot(p[j])
               PROVE  i = j
    BY <1>1 DEF OneSnapshot
  <2>1. i + 1 \in 1..n /\ j + 1 \in 1..n
    BY <1>1
  <2>2. i + 1 = j + 1
    BY <1>1, <1>2, <2>1
  <2> QED BY <2>2
<1>6. HasSnapshot(p) => HasSnapshot(chan)
  <2> SUFFICES ASSUME NEW i \in 1..(n - 1), Snapshot(chan[i + 1]) PROVE HasSnapshot(chan)
    BY <1>4
  <2>1. i + 1 \in 1..n
    BY <1>1
  <2> QED BY <1>3, <2>1
<1>7. ~(HasSnapshot(p) /\ Snapshot(Head(chan)))
  <2> SUFFICES ASSUME NEW i \in 1..(n - 1), Snapshot(chan[i + 1]), Snapshot(chan[1])
               PROVE  FALSE
    BY <1>1, <1>4
  <2>1. i + 1 \in 1..n /\ 1 \in 1..n /\ i + 1 # 1
    BY <1>1
  <2> QED BY <1>2, <2>1
<1>8. HasSnapshot(chan) => HasSnapshot(p) \/ Snapshot(Head(chan))
  <2> SUFFICES ASSUME NEW i \in 1..n, Snapshot(chan[i]), i # 1 PROVE HasSnapshot(p)
    BY <1>1, <1>3
  <2>1. i - 1 \in 1..(n - 1) /\ (i - 1) + 1 = i
    BY <1>1
  <2> QED BY <1>4, <2>1
<1> QED BY <1>5, <1>6, <1>7, <1>8 DEF p

\* An empty channel holds no snapshot.
LEMMA EmptyNoted == OneSnapshot(<<>>) /\ ~HasSnapshot(<<>>)
  BY DEF OneSnapshot, HasSnapshot

\* disconnect leaves a client without any role.
LEMMA SteadyDisconnected ==
  ASSUME NEW s, NEW busy \in BOOLEAN, NEW mid \in BOOLEAN, Steady(s, busy, mid)
  PROVE  Steady(Disconnected(s), busy, FALSE) /\ ~Disconnected(s).live
<1> DEFINE t == Disconnected(s)
<1>1. s \in DeliveryRecord /\ Noted(s, busy)
  BY DEF Steady
<1> HIDE DEF t
<1>2. /\ t \in DeliveryRecord
      /\ ~t.live /\ ~t.subscribed /\ ~t.needs /\ ~t.pending /\ ~t.requested
      /\ t.queue = <<>> /\ ~Closing(t) /\ t.chan = s.chan
  BY <1>1, DisconnectedFields DEF t
<1>3. Steady(t, busy, FALSE)
  BY <1>1, <1>2 DEF Steady, Roles, Noted, Engaged
<1> QED BY <1>2, <1>3 DEF t

\* A snapshot goes out only when the last one has been acknowledged.
LEMMA SteadyDelivered ==
  ASSUME NEW s, NEW busy \in BOOLEAN, NEW mid \in BOOLEAN, Steady(s, busy, mid),
         NEW m \in Message, Engaged(s), s.rx, Snapshot(m) => ~s.pending
  PROVE  Steady(Delivered(s, m), busy, mid)
<1> DEFINE t == Delivered(s, m)
<1>1. s \in DeliveryRecord /\ Noted(s, busy) /\ Roles(s) /\ s.chan \in Seq(Message)
      /\ s.live /\ (Closing(s) /\ s.queue = <<>> => mid)
  BY RecordFacts DEF Steady, Roles, Engaged
<1> HIDE DEF t
<1>2. /\ t \in DeliveryRecord
      /\ t.chan = Append(s.chan, m) /\ t.pending = (s.pending \/ Snapshot(m))
      /\ t.live = s.live /\ t.subscribed = s.subscribed /\ t.rx = s.rx
      /\ t.queue = s.queue /\ t.needs = s.needs /\ t.closing = s.closing
      /\ t.requested = s.requested /\ t.issued = s.issued
      /\ (Closing(t) <=> Closing(s)) /\ (Engaged(t) <=> Engaged(s))
  <2>1. s \in DeliveryRecord /\ m \in Message /\ t = Delivered(s, m)
    BY <1>1 DEF t
  <2> QED BY ONLY <2>1, DeliveredFields
<1>3. Snapshot(m) => ~HasSnapshot(s.chan) /\ ~busy
  BY <1>1 DEF Noted
<1>4. OneSnapshot(t.chan) /\ (HasSnapshot(t.chan) <=> HasSnapshot(s.chan) \/ Snapshot(m))
  BY <1>1, <1>2, <1>3, NotedAppend DEF Noted
<1>5. Noted(t, busy)
  BY <1>1, <1>2, <1>3, <1>4 DEF Noted
<1>6. Roles(t)
  BY <1>1, <1>2 DEF Roles
<1> QED BY <1>1, <1>2, <1>5, <1>6 DEF Steady, t

\* Messages wait only for a client with a role.
LEMMA SteadyQueued ==
  ASSUME NEW s, NEW busy \in BOOLEAN, NEW mid \in BOOLEAN, Steady(s, busy, mid),
         NEW m \in Message, Engaged(s)
  PROVE  Steady(Queued(s, m), busy, mid)
<1> DEFINE t == Queued(s, m)
<1>1. s \in DeliveryRecord /\ Noted(s, busy) /\ Roles(s)
  BY DEF Steady
<1> HIDE DEF t
<1>2. /\ t \in DeliveryRecord
      /\ t.queue # <<>>
      /\ t.live = s.live /\ t.subscribed = s.subscribed /\ t.rx = s.rx
      /\ t.chan = s.chan /\ t.needs = s.needs
      /\ t.pending = s.pending /\ t.requested = s.requested
      /\ (Closing(t) <=> Closing(s)) /\ (Engaged(t) <=> Engaged(s))
  BY <1>1, QueuedFields DEF t
<1> QED BY <1>1, <1>2 DEF Steady, Roles, Noted, t

\* Only a subscriber is owed a snapshot.
LEMMA SteadyOwed ==
  ASSUME NEW s, NEW busy \in BOOLEAN, NEW mid \in BOOLEAN, Steady(s, busy, mid),
         s.subscribed
  PROVE  Steady(OweSnapshot(s), busy, mid)
<1> DEFINE t == OweSnapshot(s)
<1>1. s \in DeliveryRecord /\ Noted(s, busy) /\ Roles(s)
      /\ (Closing(s) /\ s.queue = <<>> => mid)
  BY DEF Steady
<1> HIDE DEF t
<1>2. /\ t \in DeliveryRecord
      /\ t.live = s.live /\ t.subscribed = s.subscribed /\ t.rx = s.rx
      /\ t.chan = s.chan /\ t.queue = s.queue
      /\ t.pending = s.pending /\ t.requested = s.requested
      /\ (Closing(t) <=> Closing(s)) /\ (Engaged(t) <=> Engaged(s))
  BY <1>1, OwedFields DEF t
<1> QED BY <1>1, <1>2 DEF Steady, Roles, Noted, t

\* What send_native does, case by case.
LEMMA SendNativeCases ==
  ASSUME NEW s \in DeliveryRecord, NEW m \in Message
  PROVE  \/ (~s.live \/ Closing(s)) /\ SendNative(s, m) = s
         \/ s.live /\ ~Closing(s) /\ SendNative(s, m) = Disconnected(s)
         \/ s.live /\ ~Closing(s) /\ Defers(m) /\ SendNative(s, m) = OweSnapshot(s)
         \/ /\ s.live /\ ~Closing(s) /\ s.queue = <<>> /\ s.rx /\ (Defers(m) => ~s.needs)
            /\ SendNative(s, m) = Delivered(s, m)
         \/ s.live /\ ~Closing(s) /\ ~Defers(m) /\ SendNative(s, m) = Queued(s, m)
<1>1. QueueNative(s, m) = Disconnected(s) \/ QueueNative(s, m) = Queued(s, m)
  BY DEF QueueNative, Queued
<1>2. \/ Accepts(s, m) /\ TryDeliver(s, m) = Delivered(s, m)
      \/ TryDeliver(s, m) = Disconnected(s)
      \/ Defers(m) /\ TryDeliver(s, m) = OweSnapshot(s)
      \/ ~Defers(m) /\ TryDeliver(s, m) = QueueNative(s, m)
  BY DEF TryDeliver, Accepts, Hangs
<1>3. Accepts(s, m) => s.rx
  BY DEF Accepts
<1>4. CASE ~s.live \/ Closing(s)
  BY <1>4 DEF SendNative
<1>5. CASE s.live /\ ~Closing(s) /\ HasPending(s) /\ Defers(m)
  BY <1>5 DEF SendNative
<1>6. CASE s.live /\ ~Closing(s) /\ s.queue # <<>> /\ ~Defers(m)
  BY <1>1, <1>6 DEF SendNative
<1>7. CASE s.live /\ ~Closing(s) /\ s.queue = <<>> /\ (Defers(m) => ~s.needs)
  <2>1. SendNative(s, m) = TryDeliver(s, m)
    BY <1>7 DEF SendNative, HasPending
  <2> QED BY <1>1, <1>2, <1>3, <1>7, <2>1
<1> QED BY <1>4, <1>5, <1>6, <1>7 DEF HasPending

\* send_native, of a client that is Serving.
LEMMA SteadySend ==
  ASSUME NEW s, NEW busy \in BOOLEAN, NEW mid \in BOOLEAN, Steady(s, busy, mid),
         NEW m \in Message, Serving(s), Snapshot(m) => ~s.pending
  PROVE  /\ Steady(SendNative(s, m), busy, mid) /\ Serving(SendNative(s, m))
         /\ (Snapshot(m) \/ SendNative(s, m).pending = s.pending
              \/ ~SendNative(s, m).live)
<1> DEFINE t == SendNative(s, m)
<1>1. s \in DeliveryRecord /\ Roles(s)
  BY DEF Steady
<1>2. CASE t = s
  BY <1>2
<1>3. CASE t = Disconnected(s)
  BY <1>3, SteadyDisconnected DEF Serving, Steady
<1>4. CASE s.live /\ t = OweSnapshot(s)
  <2>1. s.subscribed
    BY <1>4 DEF Serving
  <2>2. Steady(OweSnapshot(s), busy, mid)
    BY <2>1, SteadyOwed
  <2> QED BY <1>1, <1>4, <2>1, <2>2, OwedFields DEF Serving
<1>5. CASE s.live /\ s.rx /\ t = Delivered(s, m)
  <2>1. s.subscribed /\ Engaged(s)
    BY <1>5 DEF Serving, Engaged
  <2>2. Steady(Delivered(s, m), busy, mid)
    BY <1>5, <2>1, SteadyDelivered
  <2>3. Delivered(s, m).subscribed = s.subscribed
        /\ Delivered(s, m).pending = (s.pending \/ Snapshot(m))
    BY <1>1, DeliveredFields
  <2> QED BY <1>1, <1>5, <2>1, <2>2, <2>3, RecordTypes DEF Serving
<1>6. CASE s.live /\ t = Queued(s, m)
  <2>1. s.subscribed /\ Engaged(s)
    BY <1>6 DEF Serving, Engaged
  <2>2. Steady(Queued(s, m), busy, mid)
    BY <2>1, SteadyQueued
  <2> QED BY <1>1, <1>6, <2>1, <2>2, QueuedFields DEF Serving
<1> QED BY <1>1, <1>2, <1>3, <1>4, <1>5, <1>6, SendNativeCases

\* Replies and lifecycle records are messages, and wait when they must.
LEMMA CriticalMessage ==
  ASSUME NEW kind \in CriticalKinds, NEW nth \in Nat, NEW gone \in BOOLEAN
  PROVE  /\ Critical(kind, nth, gone) \in Message
         /\ ~Snapshot(Critical(kind, nth, gone)) /\ ~Defers(Critical(kind, nth, gone))
<1>1. Critical(kind, nth, gone) \in Message
  BY CriticalSound DEF SoundMessage
<1>2. Critical(kind, nth, gone).kind = kind
  BY DEF Critical
<1> QED BY <1>1, <1>2 DEF Snapshot, Defers, Replayable, CriticalKinds, DeltaKinds

\* A reply, effect or lifecycle record
LEMMA SteadyCritical ==
  ASSUME NEW s, NEW busy \in BOOLEAN, NEW mid \in BOOLEAN, Steady(s, busy, mid),
         NEW kind \in CriticalKinds, NEW gone \in BOOLEAN, Serving(s)
  PROVE  /\ Steady(SendCritical(s, kind, gone), busy, mid)
         /\ Serving(SendCritical(s, kind, gone))
         /\ SendCritical(s, kind, gone).pending = s.pending
              \/ ~SendCritical(s, kind, gone).live
<1> DEFINE u == Counted(s)
           m == Critical(kind, s.issued + 1, gone)
<1>1. s \in DeliveryRecord /\ s.issued + 1 \in Nat
  BY RecordTypes DEF Steady
<1>2. m \in Message /\ ~Snapshot(m)
  BY <1>1, CriticalMessage
<1> HIDE DEF u
<1>3. Steady(u, busy, mid) /\ Serving(u) /\ u.pending = s.pending
  <2>1. /\ u \in DeliveryRecord
        /\ u.live = s.live /\ u.subscribed = s.subscribed /\ u.rx = s.rx
        /\ u.chan = s.chan /\ u.queue = s.queue
        /\ u.pending = s.pending /\ u.needs = s.needs
        /\ u.requested = s.requested
        /\ (Closing(u) <=> Closing(s)) /\ (Engaged(u) <=> Engaged(s))
    BY <1>1, CountedFields DEF u
  <2> QED BY <2>1 DEF Steady, Roles, Noted, Serving
<1> HIDE DEF m
<1>4. Steady(SendNative(u, m), busy, mid) /\ Serving(SendNative(u, m))
      /\ (SendNative(u, m).pending = u.pending \/ ~SendNative(u, m).live)
  BY <1>2, <1>3, SteadySend
<1>5. SendCritical(s, kind, gone) = s \/ SendCritical(s, kind, gone) = SendNative(u, m)
  BY DEF SendCritical, u, m, Counted
<1> QED BY <1>3, <1>4, <1>5

\* Drag metadata waits like a reply.
LEMMA DragMessages ==
  ASSUME NEW nth \in Nat, NEW seq \in Nat
  PROVE  /\ DragMessage(nth, seq) \in Message
         /\ ~Snapshot(DragMessage(nth, seq)) /\ ~Defers(DragMessage(nth, seq))
<1>1. DragMessage(nth, seq) \in Message
  BY DragSound DEF SoundMessage
<1>2. DragMessage(nth, seq).kind = "drag"
  BY DragSound
<1> QED BY <1>1, <1>2 DEF Snapshot, Defers, Replayable, DeltaKinds

\* The message of drag metadata
LEMMA SteadyDrag ==
  ASSUME NEW s, NEW busy \in BOOLEAN, NEW mid \in BOOLEAN, Steady(s, busy, mid),
         NEW seq \in Nat, Serving(s)
  PROVE  Steady(SendDrag(s, seq), busy, mid) /\ Serving(SendDrag(s, seq))
<1> DEFINE u == Counted(s)
           m == DragMessage(s.issued + 1, seq)
<1>1. s \in DeliveryRecord /\ s.issued + 1 \in Nat
  BY RecordTypes DEF Steady
<1>2. m \in Message /\ ~Snapshot(m)
  BY <1>1, DragMessages
<1> HIDE DEF u
<1>3. Steady(u, busy, mid) /\ Serving(u)
  <2>1. /\ u \in DeliveryRecord
        /\ u.live = s.live /\ u.subscribed = s.subscribed /\ u.rx = s.rx
        /\ u.chan = s.chan /\ u.queue = s.queue
        /\ u.pending = s.pending /\ u.needs = s.needs
        /\ u.requested = s.requested
        /\ (Closing(u) <=> Closing(s)) /\ (Engaged(u) <=> Engaged(s))
    BY <1>1, CountedFields DEF u
  <2> QED BY <2>1 DEF Steady, Roles, Noted, Serving
<1> HIDE DEF m
<1>4. Steady(SendNative(u, m), busy, mid) /\ Serving(SendNative(u, m))
  BY <1>2, <1>3, SteadySend
<1>5. SendDrag(s, seq) = s \/ SendDrag(s, seq) = SendNative(u, m)
  BY DEF SendDrag, u, m, Counted
<1> QED BY <1>4, <1>5

\* A snapshot, or the record that it was too large
LEMMA SteadySnapshotNow ==
  ASSUME NEW s, NEW busy \in BOOLEAN, NEW mid \in BOOLEAN, Steady(s, busy, mid),
         NEW snap \in Message, NEW fits \in BOOLEAN, Serving(s), ~s.pending
  PROVE  /\ Steady(SnapshotNow(s, snap, fits), busy, mid)
         /\ Serving(SnapshotNow(s, snap, fits))
  BY SteadySend, SteadyCritical DEF SnapshotNow, CriticalKinds

\* send_snapshot defers what it may not send at once.
LEMMA SteadySnapshot ==
  ASSUME NEW s, NEW busy \in BOOLEAN, NEW mid \in BOOLEAN, Steady(s, busy, mid),
         NEW snap \in Message, NEW fits \in BOOLEAN, Serving(s)
  PROVE  Steady(SendSnapshot(s, snap, fits), busy, mid)
<1>1. s \in DeliveryRecord /\ Roles(s)
  BY DEF Steady
<1>2. CASE ~s.live
  BY <1>2 DEF SendSnapshot
<1>3. CASE s.live /\ s.pending
  <2> DEFINE t == Requested(s)
  <2>1. SendSnapshot(s, snap, fits) = t
    BY <1>3 DEF SendSnapshot, Requested
  <2> HIDE DEF t
  <2>2. /\ t \in DeliveryRecord
        /\ t.live = s.live /\ t.subscribed = s.subscribed /\ t.rx = s.rx
        /\ t.chan = s.chan /\ t.queue = s.queue
        /\ t.pending = s.pending /\ t.needs = s.needs
        /\ (Closing(t) <=> Closing(s)) /\ (Engaged(t) <=> Engaged(s))
    BY <1>1, RequestedFields DEF t
  <2>3. Steady(t, busy, mid)
    BY <1>3, <2>2 DEF Steady, Roles, Noted, Serving
  <2> QED BY <2>1, <2>3
<1>4. CASE s.live /\ ~s.pending /\ HasPending(s)
  <2>1. Steady(OweSnapshot(s), busy, mid)
    BY <1>4, SteadyOwed DEF Serving
  <2> QED BY <1>4, <2>1 DEF SendSnapshot
<1>5. CASE s.live /\ ~s.pending /\ ~HasPending(s)
  BY <1>5, SteadySnapshotNow DEF SendSnapshot
<1> QED BY <1>2, <1>3, <1>4, <1>5

\* SnapshotSent clears the note exactly when the writer has reported.
LEMMA SteadySent ==
  ASSUME NEW s, NEW mid \in BOOLEAN, Steady(s, TRUE, mid),
         NEW snap \in Message, NEW fits \in BOOLEAN
  PROVE  Steady(SnapshotSent(s, snap, fits), FALSE, mid)
<1> DEFINE u == Acked(s)
<1>1. s \in DeliveryRecord
  BY DEF Steady
<1> HIDE DEF u
<1>2. /\ u \in DeliveryRecord
      /\ ~u.requested /\ ~u.pending
      /\ u.live = s.live /\ u.subscribed = s.subscribed /\ u.rx = s.rx
      /\ u.chan = s.chan /\ u.queue = s.queue
      /\ u.needs = s.needs
      /\ (Closing(u) <=> Closing(s)) /\ (Engaged(u) <=> Engaged(s))
  BY <1>1, AckedFields DEF u
<1>3. Steady(u, FALSE, mid)
  BY <1>2 DEF Steady, Roles, Noted
<1>4. s.requested => Steady(SendSnapshot(u, snap, fits), FALSE, mid)
  <2>1. s.requested => Serving(u)
    BY <1>2 DEF Steady, Roles, Serving
  <2> QED BY <1>3, <2>1, SteadySnapshot
<1>5. SnapshotSent(s, snap, fits) = IF s.requested THEN SendSnapshot(u, snap, fits) ELSE u
  BY DEF SnapshotSent, u, Acked
<1> QED BY <1>3, <1>4, <1>5

\* The frozen checkpoint waits behind the snapshot that is under way.
LEMMA SteadyBarrier ==
  ASSUME NEW s, NEW busy \in BOOLEAN, NEW mid \in BOOLEAN, Steady(s, busy, mid),
         NEW snap \in Message, NEW fits \in BOOLEAN
  PROVE  /\ Steady(FinalNativeBarrier(s, snap, fits), busy, mid)
         /\ s.subscribed => Serving(FinalNativeBarrier(s, snap, fits))
<1> DEFINE t == FinalNativeBarrier(s, snap, fits)
<1>1. s \in DeliveryRecord
  BY DEF Steady
<1>2. \/ t = s
      \/ t = Disconnected(s)
      \/ s.needs /\ t = Queued(s, snap)
  BY DEF FinalNativeBarrier, QueueNative, Queued
<1>3. CASE t = s
  BY <1>3 DEF Serving
<1>4. CASE t = Disconnected(s)
  BY <1>4, SteadyDisconnected DEF Serving, Steady
<1>5. CASE s.needs /\ t = Queued(s, snap)
  <2>1. s.subscribed /\ Engaged(s)
    BY <1>5 DEF Steady, Roles, Engaged
  <2>2. Steady(Queued(s, snap), busy, mid)
    BY <2>1, SteadyQueued
  <2> QED BY <1>1, <1>5, <2>1, <2>2, QueuedFields DEF Serving
<1> QED BY <1>2, <1>3, <1>4, <1>5

\* A client on its way out has lost its other roles.
LEMMA SteadyAfterDelivery ==
  ASSUME NEW s, NEW busy \in BOOLEAN, NEW mid \in BOOLEAN, Steady(s, busy, mid)
  PROVE  Steady(DisconnectAfterDelivery(s), busy, mid)
<1> DEFINE t == Draining(s)
<1>1. s \in DeliveryRecord
  BY DEF Steady
<1> HIDE DEF t
<1>2. /\ t \in DeliveryRecord
      /\ ~t.requested /\ ~t.needs /\ ~t.subscribed
      /\ Closing(t) /\ Engaged(t)
      /\ t.live = s.live /\ t.rx = s.rx
      /\ t.chan = s.chan /\ t.queue = s.queue
      /\ t.pending = s.pending
  BY <1>1, DrainingFields DEF t
<1>3. s.queue # <<>> => Steady(t, busy, mid)
  BY <1>2 DEF Steady, Roles, Noted, Engaged
<1>4. DisconnectAfterDelivery(s) = IF s.queue # <<>> THEN t ELSE Disconnected(s)
  BY DEF DisconnectAfterDelivery, t, Draining
<1> QED BY <1>3, <1>4, SteadyDisconnected DEF Steady

\* flush_native moves a snapshot only if none is outstanding.
LEMMA SteadyMoved ==
  ASSUME NEW s, NEW busy \in BOOLEAN, Steady(s, busy, TRUE), GoodRecord(s), HeadMoves(s)
  PROVE  Steady(MoveHead(s), busy, TRUE)
<1> DEFINE t == MoveHead(s)
           m == Head(s.queue)
<1>1. s \in DeliveryRecord /\ Noted(s, busy) /\ Roles(s) /\ s.chan \in Seq(Message)
  BY RecordFacts DEF Steady
<1> HIDE DEF t, m
<1>2. /\ t \in DeliveryRecord
      /\ s.queue # <<>> /\ m \in Message
      /\ (Snapshot(m) => ~s.pending) /\ s.rx
      /\ t.chan = Append(s.chan, m)
      /\ t.pending = (s.pending \/ Snapshot(m))
      /\ t.live = s.live /\ t.subscribed = s.subscribed /\ t.rx = s.rx
      /\ t.needs = s.needs
      /\ t.requested = s.requested
      /\ (Closing(t) <=> Closing(s)) /\ (Engaged(t) <=> Engaged(s))
  BY MovedFields DEF t, m
<1>3. s.live /\ Engaged(s)
  BY <1>1, <1>2 DEF Roles, Engaged
<1>4. Snapshot(m) => ~HasSnapshot(s.chan) /\ ~busy
  BY <1>1, <1>2, <1>3 DEF Noted
<1>5. OneSnapshot(t.chan) /\ (HasSnapshot(t.chan) <=> HasSnapshot(s.chan) \/ Snapshot(m))
  BY <1>1, <1>2, <1>4, NotedAppend DEF Noted
<1>6. Noted(t, busy)
  BY <1>1, <1>2, <1>4, <1>5 DEF Noted
<1>7. Roles(t)
  BY <1>1, <1>2, <1>3 DEF Roles
<1> QED BY <1>2, <1>6, <1>7 DEF Steady, t

\* A debt is paid only when the last snapshot has been acknowledged.
LEMMA SteadyRecover ==
  ASSUME NEW s, NEW busy \in BOOLEAN, NEW mid \in BOOLEAN, Steady(s, busy, mid),
         NEW snap \in Message, NEW fits \in BOOLEAN, s.needs, ~s.pending
  PROVE  Steady(Recover(s, snap, fits), busy, mid)
<1> DEFINE u == Cleared(s)
<1>1. s \in DeliveryRecord /\ s.subscribed /\ s.live /\ ~Closing(s)
  BY DEF Steady, Roles
<1> HIDE DEF u
<1>2. /\ u \in DeliveryRecord
      /\ ~u.requested /\ ~u.needs /\ u.queue = <<>>
      /\ u.live = s.live /\ u.subscribed = s.subscribed /\ u.rx = s.rx
      /\ u.chan = s.chan /\ u.pending = s.pending
      /\ (Closing(u) <=> Closing(s)) /\ (Engaged(u) <=> Engaged(s))
  BY <1>1, ClearedFields DEF u
<1>3. Steady(u, busy, mid) /\ Serving(u) /\ ~u.pending
  BY <1>1, <1>2 DEF Steady, Roles, Noted, Serving
<1>4. Steady(SnapshotNow(u, snap, fits), busy, mid)
  BY <1>3, SteadySnapshotNow
<1>5. Steady(Disconnected(SnapshotNow(u, snap, fits)), busy, FALSE)
  BY <1>4, SteadyDisconnected
<1>6. \/ Recover(s, snap, fits) = SnapshotNow(u, snap, fits)
      \/ Recover(s, snap, fits) = Disconnected(SnapshotNow(u, snap, fits))
  BY DEF Recover, u, Cleared
<1> QED BY <1>4, <1>5, <1>6 DEF Steady

-----------------------------------------------------------------------------
(* What a view shows, and replaying messages over it *)

\* What matters of a view: the critical messages it received, the last output
\* its terminal was given, its sequence, that of the last drag metadata, whether
\* it is torn, and the pane as it shows it.  "over" is a view that has read its
\* last message.
Shown ==
  [crit : Nat, n : Nat, seq : Nat, drag : Nat, torn : BOOLEAN,
   mode : {"unseen", "open", "closed", "over"}]

\* The terminal of a removed pane (r) after its last output (o in all), unless
\* the view is torn
Final(a, o, r) == (a.torn \/ a.n = o) /\ r

\* A view shows no more than the pane produced, and closes the pane only on
\* its final terminal.
Fine(a, o, r) == a.n <= o /\ (a.mode = "closed" => Final(a, o, r))

\* The terminal stays as it is.
Still(a, b) == b.n = a.n /\ b.seq = a.seq /\ b.drag = a.drag /\ b.torn = a.torn

\* Critical messages are numbered without gap or repetition.
Counts(a, m, b) ==
  IF m.kind \in CriticalKinds
  THEN b.crit = a.crit + 1 /\ m.nth = b.crit
  ELSE b.crit = a.crit

\* An output is the next one, to a terminal that is there; a torn one goes on
\* with any later output.
ShowsOutput(a, m, b) ==
  /\ m.kind = "output" /\ a.mode = "open"
  /\ IF a.torn THEN m.nth > a.n ELSE m.nth = a.n + 1
  /\ m.seq > a.seq
  /\ b.mode = "open" /\ b.n = m.nth /\ b.seq = m.seq
  /\ b.drag = a.drag /\ b.torn = a.torn

\* An output is dropped only when drag metadata has overtaken it, and the view
\* is torn then.
DropsOutput(a, m, b, o) ==
  /\ m.kind = "output" /\ a.mode = "open"
  /\ m.nth > a.n /\ m.nth <= o
  /\ m.seq <= a.seq /\ m.seq <= a.drag
  /\ b = [a EXCEPT !.torn = TRUE]

\* A checkpoint brings the view forward and makes it whole, or tells it that
\* the pane is gone.
ShowsSnapshot(a, m, b) ==
  /\ m.kind = "snapshot" /\ m.seq >= a.seq /\ b.seq = m.seq /\ b.drag = a.drag
  /\ IF m.gone
     THEN /\ b.n = a.n /\ b.torn = a.torn
          /\ b.mode = IF a.mode = "unseen" THEN "unseen" ELSE "closed"
     ELSE /\ a.mode # "closed" /\ m.nth >= a.n
          /\ b.n = m.nth /\ b.mode = "open" /\ ~b.torn

\* Drag metadata takes the view to a later sequence.
ShowsDrag(a, m, b) ==
  /\ m.kind = "drag" /\ m.seq > a.seq
  /\ b.seq = m.seq /\ b.drag = m.seq
  /\ b.n = a.n /\ b.torn = a.torn /\ b.mode = a.mode

\* A view leaves.  If its session was destroyed with the pane it is on the
\* final terminal.
ShowsEnd(a, m, b, o, r) ==
  /\ m.kind \in {"aborted", "final"} /\ Still(a, b) /\ b.mode = "over"
  /\ m.gone /\ a.mode = "open" => Final(a, o, r)

\* One message read by the view a makes it b.
Step(a, m, b, o, r) ==
  /\ Counts(a, m, b)
  /\ \/ a.mode = "over" /\ Still(a, b) /\ b.mode = "over"
     \/ /\ a.mode # "over"
        /\ \/ m.kind \in {"changed", "critical"} /\ Still(a, b) /\ b.mode = a.mode
           \/ ShowsOutput(a, m, b)
           \/ DropsOutput(a, m, b, o)
           \/ ShowsSnapshot(a, m, b)
           \/ ShowsDrag(a, m, b)
           \/ ShowsEnd(a, m, b, o, r)

\* f[i] is the view after the first i messages of p.
Replays(f, p, o, r) ==
  /\ f \in [0..Len(p) -> Shown]
  /\ \A i \in 0..Len(p) : Fine(f[i], o, r)
  /\ \A i \in 1..Len(p) : Step(f[i - 1], p[i], f[i], o, r)
  /\ \A i, j \in 0..Len(p) : i <= j => f[i].crit <= f[j].crit /\ f[i].seq <= f[j].seq

\* Reading all of p leads the view from a to z.
Path(p, a, z, o, r) ==
  \E f \in [0..Len(p) -> Shown] : Replays(f, p, o, r) /\ f[0] = a /\ f[Len(p)] = z

\* The types of what a view shows
LEMMA ShownTypes ==
  ASSUME NEW a \in Shown
  PROVE  a.crit \in Nat /\ a.n \in Nat /\ a.seq \in Nat
         /\ a.drag \in Nat /\ a.torn \in BOOLEAN
         /\ a.mode \in {"unseen", "open", "closed", "over"}
  BY DEF Shown

\* The types of a message's fields
LEMMA MessageTypes ==
  ASSUME NEW m \in Message
  PROVE  m.kind \in Kinds /\ m.seq \in Nat /\ m.nth \in Nat /\ m.gone \in BOOLEAN
  BY DEF Message

\* No message takes a view back.
LEMMA StepRises ==
  ASSUME NEW a \in Shown, NEW b \in Shown, NEW m \in Message, NEW o, NEW r,
         Step(a, m, b, o, r)
  PROVE  a.crit <= b.crit /\ a.seq <= b.seq
<1>1. a.crit <= b.crit
  BY ShownTypes DEF Step, Counts
<1>2. a.seq <= b.seq
  <2>1. a.seq \in Nat /\ m.seq \in Nat /\ b.seq \in Nat
    BY ShownTypes, MessageTypes
  <2>2. b.seq = a.seq \/ (b.seq = m.seq /\ m.seq >= a.seq)
    <3>1. DropsOutput(a, m, b, o) => b.seq = a.seq
      BY DEF DropsOutput, Shown
    <3> QED BY <2>1, <3>1 DEF Step, Still, ShowsOutput, ShowsSnapshot, ShowsDrag, ShowsEnd
  <2> QED BY <2>1, <2>2
<1> QED BY <1>1, <1>2

\* Nothing to read
LEMMA PathEmpty ==
  ASSUME NEW a \in Shown, NEW o, NEW r, Fine(a, o, r)
  PROVE  Path(<<>>, a, a, o, r)
<1> DEFINE f == [i \in 0..0 |-> a]
<1>1. Len(<<>>) = 0 /\ f \in [0..0 -> Shown] /\ f[0] = a
  OBVIOUS
<1>2. a.crit <= a.crit /\ a.seq <= a.seq
  BY ShownTypes
<1> HIDE DEF f
<1>3. Replays(f, <<>>, o, r)
  BY <1>1, <1>2 DEF Replays
<1> QED BY <1>1, <1>3 DEF Path

\* One more message at the end
LEMMA PathAppend ==
  ASSUME NEW p \in Seq(Message), NEW m \in Message, NEW a, NEW z, NEW b \in Shown,
         NEW o, NEW r, Path(p, a, z, o, r), Step(z, m, b, o, r), Fine(b, o, r)
  PROVE  Path(Append(p, m), a, b, o, r)
<1> DEFINE n == Len(p)
           q == Append(p, m)
<1>1. /\ n \in Nat /\ Len(q) = n + 1 /\ q[n + 1] = m
      /\ \A i \in 1..n : q[i] = p[i]
  OBVIOUS
<1>2. PICK f \in [0..n -> Shown] : Replays(f, p, o, r) /\ f[0] = a /\ f[n] = z
  BY DEF Path
<1> DEFINE g == [i \in 0..(n + 1) |-> IF i <= n THEN f[i] ELSE b]
<1>3. /\ g \in [0..(n + 1) -> Shown] /\ g[n + 1] = b
      /\ \A i \in 0..n : g[i] = f[i]
  BY <1>1
<1>4. \A i \in 0..(n + 1) : i \in 0..n \/ i = n + 1
  BY <1>1
<1>5. z \in Shown /\ z.crit <= b.crit /\ z.seq <= b.seq
  <2>1. z \in Shown
    BY <1>1, <1>2
  <2> QED BY <2>1, StepRises
<1>6. 0 \in 0..n /\ n \in 0..n
  BY <1>1
<1> HIDE DEF n, q, g
<1>7. \A i \in 0..n : Fine(f[i], o, r)
  BY <1>2 DEF Replays, n
<1>8. \A i \in 1..n : Step(f[i - 1], p[i], f[i], o, r)
  BY <1>2 DEF Replays, n
<1>9. \A i, j \in 0..n : i <= j => f[i].crit <= f[j].crit /\ f[i].seq <= f[j].seq
  BY <1>2 DEF Replays, n
<1>10. \A i \in 0..(n + 1) : Fine(g[i], o, r)
  BY <1>3, <1>4, <1>7
<1>11. ASSUME NEW i \in 1..(n + 1) PROVE Step(g[i - 1], q[i], g[i], o, r)
  <2>1. CASE i \in 1..n
    <3>1. i - 1 \in 0..n /\ i \in 0..n
      BY <1>1, <2>1
    <3>2. Step(f[i - 1], p[i], f[i], o, r)
      BY <1>8, <2>1
    <3> QED BY <1>1, <1>3, <2>1, <3>1, <3>2
  <2>2. CASE i = n + 1
    <3>1. i - 1 = n
      BY <1>1, <2>2
    <3> QED BY <1>1, <1>2, <1>3, <1>6, <2>2, <3>1
  <2>3. i \in 1..n \/ i = n + 1
    BY <1>1
  <2> QED BY <2>1, <2>2, <2>3
<1>12. ASSUME NEW i \in 0..(n + 1), NEW j \in 0..(n + 1), i <= j
       PROVE  g[i].crit <= g[j].crit /\ g[i].seq <= g[j].seq
  <2>1. CASE j \in 0..n
    <3>1. i \in 0..n
      BY <1>1, <1>12, <2>1
    <3> QED BY <1>3, <1>9, <1>12, <2>1, <3>1
  <2>2. CASE j = n + 1 /\ i \in 0..n
    <3>1. f[i].crit <= z.crit /\ f[i].seq <= z.seq
      <4>1. i <= n
        BY <1>1, <2>2
      <4> QED BY <1>2, <1>6, <1>9, <2>2, <4>1
    <3>2. f[i] \in Shown
      BY <1>2, <2>2
    <3> QED BY <1>3, <1>5, <2>2, <3>1, <3>2, ShownTypes, SMTT(60)
  <2>3. CASE j = n + 1 /\ i = n + 1
    BY <1>3, <2>3, ShownTypes
  <2> QED BY <1>4, <2>1, <2>2, <2>3
<1>13. Replays(g, q, o, r)
  BY <1>1, <1>3, <1>10, <1>11, <1>12 DEF Replays
<1>14. g[0] = a /\ g[Len(q)] = b
  BY <1>1, <1>2, <1>3, <1>6
<1>15. g \in [0..Len(q) -> Shown]
  BY <1>1, <1>3
<1>16. Path(q, a, b, o, r)
  BY <1>13, <1>14, <1>15 DEF Path
<1> QED BY <1>16 DEF q

\* Reading the first message
LEMMA PathTail ==
  ASSUME NEW p \in Seq(Message), p # <<>>, NEW a, NEW z, NEW o, NEW r,
         Path(p, a, z, o, r)
  PROVE  \E b \in Shown : /\ a \in Shown /\ Fine(a, o, r) /\ Fine(b, o, r)
                          /\ Step(a, Head(p), b, o, r) /\ Path(Tail(p), b, z, o, r)
<1> DEFINE n == Len(p)
           q == Tail(p)
<1>1. /\ n \in Nat \ {0} /\ Len(q) = n - 1 /\ Head(p) = p[1]
      /\ \A i \in 1..(n - 1) : q[i] = p[i + 1]
  OBVIOUS
<1>2. PICK f \in [0..n -> Shown] : Replays(f, p, o, r) /\ f[0] = a /\ f[n] = z
  BY DEF Path
<1> DEFINE g == [i \in 0..(n - 1) |-> f[i + 1]]
<1>3. \A i \in 0..(n - 1) : i + 1 \in 0..n
  BY <1>1
<1>4. g \in [0..(n - 1) -> Shown] /\ \A i \in 0..(n - 1) : g[i] = f[i + 1]
  BY <1>2, <1>3
<1>5. 0 \in 0..n /\ 1 \in 0..n /\ 1 \in 1..n /\ 0 \in 0..(n - 1) /\ n - 1 \in 0..(n - 1)
      /\ (n - 1) + 1 = n /\ 0 + 1 = 1 /\ 1 - 1 = 0
  BY <1>1
<1> HIDE DEF n, q, g
<1>6. \A i \in 0..n : Fine(f[i], o, r)
  BY <1>2 DEF Replays, n
<1>7. \A i \in 1..n : Step(f[i - 1], p[i], f[i], o, r)
  BY <1>2 DEF Replays, n
<1>8. \A i, j \in 0..n : i <= j => f[i].crit <= f[j].crit /\ f[i].seq <= f[j].seq
  BY <1>2 DEF Replays, n
<1>9. \A i \in 0..(n - 1) : Fine(g[i], o, r)
  BY <1>3, <1>4, <1>6
<1>10. ASSUME NEW i \in 1..(n - 1) PROVE Step(g[i - 1], q[i], g[i], o, r)
  <2>1. i + 1 \in 1..n /\ (i + 1) - 1 = i /\ i - 1 \in 0..(n - 1) /\ i \in 0..(n - 1)
        /\ (i - 1) + 1 = i
    BY <1>1
  <2>2. Step(f[(i + 1) - 1], p[i + 1], f[i + 1], o, r)
    BY <1>7, <2>1
  <2>3. g[i - 1] = f[i] /\ g[i] = f[i + 1] /\ q[i] = p[i + 1]
    BY <1>1, <1>4, <2>1
  <2> QED BY <2>1, <2>2, <2>3
<1>11. ASSUME NEW i \in 0..(n - 1), NEW j \in 0..(n - 1), i <= j
       PROVE  g[i].crit <= g[j].crit /\ g[i].seq <= g[j].seq
  <2>1. i + 1 \in 0..n /\ j + 1 \in 0..n /\ i + 1 <= j + 1
    BY <1>1, <1>11
  <2> QED BY <1>4, <1>8, <2>1
<1>12. Replays(g, q, o, r)
  BY <1>1, <1>4, <1>9, <1>10, <1>11 DEF Replays
<1>13. g[0] = f[1] /\ g[Len(q)] = z /\ g \in [0..Len(q) -> Shown] /\ f[1] \in Shown
  BY <1>1, <1>2, <1>4, <1>5
<1>14. Path(q, f[1], z, o, r)
  BY <1>12, <1>13 DEF Path
<1>15. /\ a \in Shown /\ Fine(a, o, r) /\ Fine(f[1], o, r)
       /\ Step(a, Head(p), f[1], o, r)
  BY <1>1, <1>2, <1>5, <1>6, <1>7
<1> QED BY <1>13, <1>14, <1>15 DEF q

\* Forgetting the end of what is under way
LEMMA PathPrefix ==
  ASSUME NEW p \in Seq(Message), NEW q \in Seq(Message), Len(q) <= Len(p),
         \A i \in 1..Len(q) : q[i] = p[i],
         NEW a, NEW z, NEW o, NEW r, Path(p, a, z, o, r)
  PROVE  \E y \in Shown : Path(q, a, y, o, r) /\ y.crit <= z.crit /\ y.seq <= z.seq
<1> DEFINE n == Len(p)
           k == Len(q)
<1>1. n \in Nat /\ k \in Nat /\ k <= n
  OBVIOUS
<1>2. PICK f \in [0..n -> Shown] : Replays(f, p, o, r) /\ f[0] = a /\ f[n] = z
  BY DEF Path
<1> DEFINE g == [i \in 0..k |-> f[i]]
<1>3. /\ \A i \in 0..k : i \in 0..n
      /\ \A i \in 1..k : i \in 1..n /\ i - 1 \in 0..k /\ i \in 0..k
      /\ 0 \in 0..k /\ k \in 0..k /\ n \in 0..n
  BY <1>1
<1>4. g \in [0..k -> Shown] /\ \A i \in 0..k : g[i] = f[i]
  BY <1>2, <1>3
<1>5. \A i \in 1..k : q[i] = p[i]
  OBVIOUS
<1> HIDE DEF n, k, g
<1>6. \A i \in 0..n : Fine(f[i], o, r)
  BY <1>2 DEF Replays, n
<1>7. \A i \in 1..n : Step(f[i - 1], p[i], f[i], o, r)
  BY <1>2 DEF Replays, n
<1>8. \A i, j \in 0..n : i <= j => f[i].crit <= f[j].crit /\ f[i].seq <= f[j].seq
  BY <1>2 DEF Replays, n
<1>9. \A i \in 0..k : Fine(g[i], o, r)
  BY <1>3, <1>4, <1>6
<1>10. ASSUME NEW i \in 1..k PROVE Step(g[i - 1], q[i], g[i], o, r)
  BY <1>3, <1>4, <1>5, <1>7
<1>11. \A i, j \in 0..k : i <= j => g[i].crit <= g[j].crit /\ g[i].seq <= g[j].seq
  BY <1>3, <1>4, <1>8
<1>12. Replays(g, q, o, r)
  BY <1>4, <1>9, <1>10, <1>11 DEF Replays, k
<1>13. g[0] = a /\ g[k] \in Shown /\ g[k].crit <= z.crit /\ g[k].seq <= z.seq
  BY <1>1, <1>2, <1>3, <1>4, <1>8
<1>14. Path(q, a, g[k], o, r)
  BY <1>4, <1>12, <1>13 DEF Path, k
<1> QED BY <1>13, <1>14

\* What a view shows stays true while the pane goes on, and when it goes away.
LEMMA PathLater ==
  ASSUME NEW p \in Seq(Message), NEW a, NEW z, NEW o \in Nat, NEW r \in BOOLEAN,
         Path(p, a, z, o, r), NEW oo \in Nat, NEW rr \in BOOLEAN,
         o <= oo, r => rr /\ oo = o
  PROVE  Path(p, a, z, oo, rr)
<1>1. PICK f \in [0..Len(p) -> Shown] : Replays(f, p, o, r) /\ f[0] = a /\ f[Len(p)] = z
  BY DEF Path
<1>2. ASSUME NEW b \in Shown PROVE Final(b, o, r) => Final(b, oo, rr)
  BY DEF Final
<1>3. ASSUME NEW b \in Shown, Fine(b, o, r) PROVE Fine(b, oo, rr)
  <2>1. b.n \in Nat /\ b.n <= o
    BY <1>3, ShownTypes DEF Fine
  <2> QED BY <1>2, <1>3, <2>1 DEF Fine
<1>4. ASSUME NEW b \in Shown, NEW c \in Shown, NEW m \in Message, Step(b, m, c, o, r)
      PROVE  Step(b, m, c, oo, rr)
  <2>1. DropsOutput(b, m, c, o) => DropsOutput(b, m, c, oo)
    BY MessageTypes DEF DropsOutput
  <2>2. ShowsEnd(b, m, c, o, r) => ShowsEnd(b, m, c, oo, rr)
    BY <1>2 DEF ShowsEnd
  <2> QED BY <1>4, <2>1, <2>2 DEF Step
<1>5. Len(p) \in Nat /\ \A i \in 1..Len(p) : p[i] \in Message
  OBVIOUS
<1>6. \A i \in 0..Len(p) : f[i] \in Shown /\ Fine(f[i], o, r)
  BY <1>1 DEF Replays
<1>7. \A i \in 1..Len(p) : i - 1 \in 0..Len(p) /\ i \in 0..Len(p)
  BY <1>5
<1>8. \A i \in 1..Len(p) : Step(f[i - 1], p[i], f[i], oo, rr)
  BY <1>1, <1>4, <1>5, <1>6, <1>7 DEF Replays
<1>9. \A i \in 0..Len(p) : Fine(f[i], oo, rr)
  BY <1>3, <1>6
<1>10. Replays(f, p, oo, rr)
  BY <1>1, <1>8, <1>9 DEF Replays
<1> QED BY <1>1, <1>10 DEF Path

\* Both ends of a path are sound, and the path does not go back.
LEMMA PathEnds ==
  ASSUME NEW p \in Seq(Message), NEW a, NEW z, NEW o, NEW r, Path(p, a, z, o, r)
  PROVE  a \in Shown /\ z \in Shown /\ Fine(a, o, r) /\ Fine(z, o, r)
         /\ a.crit <= z.crit /\ a.seq <= z.seq
<1>1. PICK f \in [0..Len(p) -> Shown] : Replays(f, p, o, r) /\ f[0] = a /\ f[Len(p)] = z
  BY DEF Path
<1>2. 0 \in 0..Len(p) /\ Len(p) \in 0..Len(p) /\ 0 <= Len(p)
  OBVIOUS
<1>3. f[0] \in Shown /\ f[Len(p)] \in Shown
  BY <1>1, <1>2
<1> QED BY <1>1, <1>2, <1>3 DEF Replays

-----------------------------------------------------------------------------
(* The messages under way to one view *)

\* Everything between the owner and the view, in the order it will be read
Under(w, s) == w \o s.chan \o s.queue

\* z is the state of the engine after o outputs, r: with the pane removed.
Current(z, o, r) ==
  \/ z.mode = "over"
  \/ z.mode = "unseen" /\ r
  \/ z.mode \in {"open", "closed"} /\ (z.torn \/ z.n = o)

\* What the owner knows of the view after it has read everything (q is the
\* engine's sequence): all messages it numbered will have arrived, a
\* subscriber owed nothing is current, and a client outside the session has
\* not seen the pane.  While a request is being answered (full = FALSE) the
\* subscriber may be missing its first checkpoint.
Ends(s, z, o, q, r, full) ==
  /\ z.seq <= q /\ z.crit <= s.issued
  /\ s.live => z.crit = s.issued
  /\ s.subscribed /\ (r \/ (~s.needs /\ (full \/ s.pending))) => Current(z, o, r)
  /\ s.live /\ ~Engaged(s) => z.mode = "unseen"

\* The view a of the client with record s and w on its wire
Track(w, s, a, o, q, r, full) ==
  \E z \in Shown : Path(Under(w, s), a, z, o, r) /\ Ends(s, z, o, q, r, full)

\* Sequences with the same elements are equal.
LEMMA SameSequence ==
  ASSUME NEW p \in Seq(Message), NEW q \in Seq(Message), Len(p) = Len(q),
         \A i \in 1..Len(p) : p[i] = q[i]
  PROVE  p = q
  OBVIOUS

\* Elements of three sequences in a row
LEMMA UnderParts ==
  ASSUME NEW w \in Seq(Message), NEW x \in Seq(Message), NEW y \in Seq(Message)
  PROVE  /\ w \o x \o y \in Seq(Message)
         /\ Len(w) \in Nat /\ Len(x) \in Nat /\ Len(y) \in Nat
         /\ Len(w \o x \o y) = Len(w) + Len(x) + Len(y)
         /\ \A i \in 1..(Len(w) + Len(x) + Len(y)) :
              (w \o x \o y)[i] = IF i <= Len(w) THEN w[i]
                                 ELSE IF i <= Len(w) + Len(x) THEN x[i - Len(w)]
                                 ELSE y[i - Len(w) - Len(x)]
<1>1. w \o x \in Seq(Message) /\ Len(w \o x) = Len(w) + Len(x)
      /\ Len(w) \in Nat /\ Len(x) \in Nat /\ Len(y) \in Nat
  OBVIOUS
<1>2. \A i \in 1..(Len(w) + Len(x)) : (w \o x)[i] = IF i <= Len(w) THEN w[i] ELSE x[i - Len(w)]
  OBVIOUS
<1> DEFINE u == w \o x
<1> HIDE DEF u
<1>3. /\ u \o y \in Seq(Message) /\ Len(u \o y) = Len(u) + Len(y)
      /\ \A i \in 1..(Len(u) + Len(y)) : (u \o y)[i] = IF i <= Len(u) THEN u[i] ELSE y[i - Len(u)]
  BY <1>1 DEF u
<1>4. Len(u) = Len(w) + Len(x)
  BY <1>1 DEF u
<1>5. \A i \in 1..(Len(w) + Len(x)) : u[i] = IF i <= Len(w) THEN w[i] ELSE x[i - Len(w)]
  BY <1>2 DEF u
<1>6. ASSUME NEW i \in 1..(Len(w) + Len(x) + Len(y))
      PROVE  (u \o y)[i] = IF i <= Len(w) THEN w[i]
                                 ELSE IF i <= Len(w) + Len(x) THEN x[i - Len(w)]
                                 ELSE y[i - Len(w) - Len(x)]
  <2>1. CASE i <= Len(w) + Len(x)
    <3>1. (u \o y)[i] = u[i] /\ i \in 1..(Len(w) + Len(x))
      BY <1>1, <1>3, <1>4, <2>1
    <3> QED BY <1>1, <1>5, <2>1, <3>1
  <2>2. CASE i > Len(w) + Len(x)
    <3>1. (u \o y)[i] = y[i - Len(u)]
      BY <1>1, <1>3, <1>4, <2>2
    <3>2. ~(i <= Len(w)) /\ ~(i <= Len(w) + Len(x))
      BY <1>1, <2>2
    <3>3. i - Len(u) = i - Len(w) - Len(x)
      BY <1>1, <1>4
    <3>4. y[i - Len(u)] = y[i - Len(w) - Len(x)]
      BY <3>3, Zenon
    <3> QED BY <3>1, <3>2, <3>4
  <2>3. i <= Len(w) + Len(x) \/ i > Len(w) + Len(x)
    BY <1>1
  <2> QED BY ONLY <2>1, <2>2, <2>3, Zenon
<1>7. u \o y \in Seq(Message) /\ Len(u \o y) = Len(w) + Len(x) + Len(y)
  BY <1>1, <1>3, <1>4
<1> QED BY <1>1, <1>6, <1>7 DEF u

\* p is w, then x, then y.
InThree(p, w, x, y) ==
  /\ Len(p) = Len(w) + Len(x) + Len(y)
  /\ \A i \in 1..Len(w) : p[i] = w[i]
  /\ \A i \in 1..Len(x) : p[Len(w) + i] = x[i]
  /\ \A i \in 1..Len(y) : p[Len(w) + Len(x) + i] = y[i]

\* Any two ways to cut the same sequence in three
LEMMA ThreeParts ==
  ASSUME NEW w \in Seq(Message), NEW x \in Seq(Message), NEW y \in Seq(Message),
         NEW p \in Seq(Message), InThree(p, w, x, y)
  PROVE  p = w \o x \o y
<1>0. /\ Len(p) = Len(w) + Len(x) + Len(y)
      /\ \A i \in 1..Len(w) : p[i] = w[i]
      /\ \A i \in 1..Len(x) : p[Len(w) + i] = x[i]
      /\ \A i \in 1..Len(y) : p[Len(w) + Len(x) + i] = y[i]
  BY DEF InThree
<1> DEFINE u == w \o x \o y
<1>1. /\ u \in Seq(Message)
      /\ Len(w) \in Nat /\ Len(x) \in Nat /\ Len(y) \in Nat
      /\ Len(u) = Len(w) + Len(x) + Len(y)
      /\ \A i \in 1..(Len(w) + Len(x) + Len(y)) :
              u[i] = IF i <= Len(w) THEN w[i]
                                 ELSE IF i <= Len(w) + Len(x) THEN x[i - Len(w)]
                                 ELSE y[i - Len(w) - Len(x)]
  BY UnderParts
<1> HIDE DEF u
<1>2. ASSUME NEW i \in 1..Len(p) PROVE p[i] = u[i]
  <2>1. CASE i <= Len(w)
    BY <1>0, <1>1, <2>1, SMTT(60)
  <2>2. CASE i > Len(w) /\ i <= Len(w) + Len(x)
    <3>1. i - Len(w) \in 1..Len(x) /\ Len(w) + (i - Len(w)) = i
      BY <1>1, <2>2
    <3>2. p[i] = x[i - Len(w)]
      BY <1>0, <3>1
    <3> QED BY <1>1, <2>2, <3>2
  <2>3. CASE i > Len(w) + Len(x)
    <3>1. i - Len(w) - Len(x) \in 1..Len(y) /\ Len(w) + Len(x) + (i - Len(w) - Len(x)) = i
          /\ ~(i <= Len(w))
      BY <1>0, <1>1, <2>3
    <3>2. p[i] = y[i - Len(w) - Len(x)]
      BY <1>0, <3>1
    <3> QED BY <1>1, <2>3, <3>1, <3>2
  <2> QED BY <1>0, <1>1, <2>1, <2>2, <2>3
<1>3. Len(p) = Len(u)
  BY <1>0, <1>1
<1>4. p = u
  BY <1>1, <1>2, <1>3, SameSequence
<1> QED BY <1>4 DEF u

\* What is under way is a sequence of messages.
LEMMA UnderType ==
  ASSUME NEW w \in Seq(Message), NEW s \in DeliveryRecord
  PROVE  Under(w, s) \in Seq(Message)
  BY RecordTypes, UnderParts DEF Under

\* A message sent, to the channel or to the queue, is read last.
LEMMA UnderAppend ==
  ASSUME NEW w \in Seq(Message), NEW s \in DeliveryRecord, NEW t \in DeliveryRecord,
         NEW m \in Message,
         \/ s.queue = <<>> /\ t.queue = <<>> /\ t.chan = Append(s.chan, m)
         \/ t.chan = s.chan /\ t.queue = Append(s.queue, m)
  PROVE  Under(w, t) = Append(Under(w, s), m)
<1> DEFINE x == s.chan
           y == s.queue
           p == Append(w \o x \o y, m)
<1>1. x \in Seq(Message) /\ y \in Seq(Message)
      /\ t.chan \in Seq(Message) /\ t.queue \in Seq(Message)
  BY RecordTypes
<1> HIDE DEF x, y
<1>2. /\ w \o x \o y \in Seq(Message)
      /\ Len(w) \in Nat /\ Len(x) \in Nat /\ Len(y) \in Nat
      /\ Len(w \o x \o y) = Len(w) + Len(x) + Len(y)
      /\ \A i \in 1..(Len(w) + Len(x) + Len(y)) :
           (w \o x \o y)[i] = IF i <= Len(w) THEN w[i]
                              ELSE IF i <= Len(w) + Len(x) THEN x[i - Len(w)]
                              ELSE y[i - Len(w) - Len(x)]
  BY <1>1, UnderParts
<1>3. /\ p \in Seq(Message) /\ Len(p) = Len(w) + Len(x) + Len(y) + 1
      /\ p[Len(w) + Len(x) + Len(y) + 1] = m
      /\ \A i \in 1..(Len(w) + Len(x) + Len(y)) : p[i] = (w \o x \o y)[i]
  <2> DEFINE u == w \o x \o y
  <2> HIDE DEF u
  <2>1. u \in Seq(Message) /\ Len(u) = Len(w) + Len(x) + Len(y)
    BY <1>2 DEF u
  <2>2. /\ Append(u, m) \in Seq(Message) /\ Len(Append(u, m)) = Len(u) + 1
        /\ Append(u, m)[Len(u) + 1] = m
        /\ \A i \in 1..Len(u) : Append(u, m)[i] = u[i]
    BY <2>1
  <2> QED BY <2>1, <2>2 DEF u
<1> HIDE DEF p
<1>4. CASE y = <<>> /\ t.queue = <<>> /\ t.chan = Append(x, m)
  <2> DEFINE xx == Append(x, m)
  <2>1. xx \in Seq(Message) /\ Len(xx) = Len(x) + 1 /\ xx[Len(x) + 1] = m
        /\ \A i \in 1..Len(x) : xx[i] = x[i]
    BY <1>1
  <2> HIDE DEF xx
  <2>2. Len(y) = 0
    BY <1>4
  <2>3. Len(p) = Len(w) + Len(xx) + Len(y)
    BY <1>2, <1>3, <2>1, <2>2
  <2>4. \A i \in 1..Len(w) : p[i] = w[i]
    BY <1>2, <1>3, SMTT(60)
  <2>5. \A i \in 1..Len(xx) : p[Len(w) + i] = xx[i]
    <3> SUFFICES ASSUME NEW i \in 1..Len(xx) PROVE p[Len(w) + i] = xx[i]
      OBVIOUS
    <3>1. CASE i \in 1..Len(x)
      <4>1. Len(w) + i \in 1..(Len(w) + Len(x) + Len(y)) /\ Len(w) + i <= Len(w) + Len(x)
            /\ ~(Len(w) + i <= Len(w)) /\ (Len(w) + i) - Len(w) = i
        BY <1>2, <3>1
      <4> QED BY <1>2, <1>3, <2>1, <3>1, <4>1
    <3>2. CASE i = Len(x) + 1
      <4>1. Len(w) + i = Len(w) + Len(x) + Len(y) + 1
        BY <1>2, <2>2, <3>2
      <4> QED BY <1>3, <2>1, <3>2, <4>1
    <3> QED BY <1>2, <2>1, <3>1, <3>2
  <2>6. \A i \in 1..Len(y) : p[Len(w) + Len(xx) + i] = y[i]
    BY <2>2
  <2>7. p = w \o xx \o y
    <3>1. InThree(p, w, xx, y)
      BY ONLY <2>3, <2>4, <2>5, <2>6 DEF InThree
    <3> QED BY <1>1, <1>3, <2>1, <3>1, ThreeParts
  <2> QED BY <1>4, <2>7 DEF Under, p, x, y, xx
<1>5. CASE t.chan = x /\ t.queue = Append(y, m)
  <2> DEFINE yy == Append(y, m)
  <2>1. yy \in Seq(Message) /\ Len(yy) = Len(y) + 1 /\ yy[Len(y) + 1] = m
        /\ \A i \in 1..Len(y) : yy[i] = y[i]
    BY <1>1
  <2> HIDE DEF yy
  <2>3. Len(p) = Len(w) + Len(x) + Len(yy)
    BY <1>2, <1>3, <2>1
  <2>4. \A i \in 1..Len(w) : p[i] = w[i]
    BY <1>2, <1>3
  <2>5. \A i \in 1..Len(x) : p[Len(w) + i] = x[i]
    <3> SUFFICES ASSUME NEW i \in 1..Len(x) PROVE p[Len(w) + i] = x[i]
      OBVIOUS
    <3>1. Len(w) + i \in 1..(Len(w) + Len(x) + Len(y)) /\ Len(w) + i <= Len(w) + Len(x)
          /\ ~(Len(w) + i <= Len(w)) /\ (Len(w) + i) - Len(w) = i
      BY <1>2
    <3> QED BY <1>2, <1>3, <3>1
  <2>6. \A i \in 1..Len(yy) : p[Len(w) + Len(x) + i] = yy[i]
    <3> SUFFICES ASSUME NEW i \in 1..Len(yy) PROVE p[Len(w) + Len(x) + i] = yy[i]
      OBVIOUS
    <3>1. CASE i \in 1..Len(y)
      <4>1. Len(w) + Len(x) + i \in 1..(Len(w) + Len(x) + Len(y))
            /\ ~(Len(w) + Len(x) + i <= Len(w) + Len(x))
            /\ ~(Len(w) + Len(x) + i <= Len(w)) /\ (Len(w) + Len(x) + i) - Len(w) - Len(x) = i
        BY <1>2, <3>1
      <4> QED BY <1>2, <1>3, <2>1, <3>1, <4>1
    <3>2. CASE i = Len(y) + 1
      <4>1. Len(w) + Len(x) + i = Len(w) + Len(x) + Len(y) + 1
        BY <1>2, <3>2
      <4> QED BY <1>3, <2>1, <3>2, <4>1
    <3> QED BY <1>2, <2>1, <3>1, <3>2
  <2>7. p = w \o x \o yy
    <3>1. InThree(p, w, x, yy)
      BY ONLY <2>3, <2>4, <2>5, <2>6 DEF InThree
    <3> QED BY <1>1, <1>3, <2>1, <3>1, ThreeParts
  <2> QED BY <1>5, <2>7 DEF Under, p, x, y, yy
<1> QED BY <1>4, <1>5 DEF x, y


\* Elements of a sequence without its head
LEMMA HeadTail ==
  ASSUME NEW y \in Seq(Message), y # <<>>
  PROVE  /\ Head(y) = y[1] /\ Head(y) \in Message /\ Tail(y) \in Seq(Message)
         /\ Len(y) \in Nat \ {0} /\ Len(Tail(y)) = Len(y) - 1
         /\ \A i \in 1..Len(Tail(y)) : Tail(y)[i] = y[i + 1]
  OBVIOUS

\* Elements of a sequence with one more
LEMMA AppendParts ==
  ASSUME NEW x \in Seq(Message), NEW m \in Message
  PROVE  /\ Append(x, m) \in Seq(Message) /\ Len(x) \in Nat
         /\ Len(Append(x, m)) = Len(x) + 1
         /\ Append(x, m)[Len(x) + 1] = m
         /\ \A i \in 1..Len(x) : Append(x, m)[i] = x[i]
  OBVIOUS

\* flush_native does not change what is under way.
LEMMA UnderMoved ==
  ASSUME NEW w \in Seq(Message), NEW x \in Seq(Message), NEW y \in Seq(Message), y # <<>>
  PROVE  w \o Append(x, Head(y)) \o Tail(y) = w \o x \o y
<1> DEFINE p == w \o x \o y
           m == Head(y)
           xx == Append(x, m)
           yy == Tail(y)
<1>1. /\ m = y[1] /\ m \in Message /\ yy \in Seq(Message)
      /\ Len(y) \in Nat \ {0} /\ Len(yy) = Len(y) - 1
      /\ \A i \in 1..Len(yy) : yy[i] = y[i + 1]
  BY HeadTail
<1>2. /\ xx \in Seq(Message) /\ Len(x) \in Nat /\ Len(xx) = Len(x) + 1
      /\ xx[Len(x) + 1] = m /\ \A i \in 1..Len(x) : xx[i] = x[i]
  <2> HIDE DEF m
  <2> QED BY <1>1, AppendParts
<1>3. /\ p \in Seq(Message)
      /\ Len(w) \in Nat
      /\ Len(p) = Len(w) + Len(x) + Len(y)
      /\ \A i \in 1..(Len(w) + Len(x) + Len(y)) :
           p[i] = IF i <= Len(w) THEN w[i]
                              ELSE IF i <= Len(w) + Len(x) THEN x[i - Len(w)]
                              ELSE y[i - Len(w) - Len(x)]
  BY UnderParts
<1> HIDE DEF p, m, xx, yy
<1>4. Len(p) = Len(w) + Len(xx) + Len(yy)
  BY <1>1, <1>2, <1>3
<1>5. \A i \in 1..Len(w) : p[i] = w[i]
  BY <1>1, <1>2, <1>3
<1>6. \A i \in 1..Len(xx) : p[Len(w) + i] = xx[i]
  <2> SUFFICES ASSUME NEW i \in 1..Len(xx) PROVE p[Len(w) + i] = xx[i]
    OBVIOUS
  <2>1. /\ Len(w) + i \in 1..(Len(w) + Len(x) + Len(y)) /\ ~(Len(w) + i <= Len(w))
        /\ (Len(w) + i) - Len(w) = i
    BY <1>1, <1>2, <1>3
  <2>2. CASE i \in 1..Len(x)
    <3>1. Len(w) + i <= Len(w) + Len(x)
      BY <1>1, <1>2, <1>3, <2>2
    <3> QED BY <1>2, <1>3, <2>1, <2>2, <3>1
  <2>3. CASE i = Len(x) + 1
    <3>1. ~(Len(w) + i <= Len(w) + Len(x)) /\ (Len(w) + i) - Len(w) - Len(x) = 1
      BY <1>1, <1>2, <1>3, <2>3
    <3> QED BY <1>1, <1>2, <1>3, <2>1, <2>3, <3>1
  <2> QED BY <1>2, <2>2, <2>3
<1>7. \A i \in 1..Len(yy) : p[Len(w) + Len(xx) + i] = yy[i]
  <2> SUFFICES ASSUME NEW i \in 1..Len(yy) PROVE p[Len(w) + Len(xx) + i] = yy[i]
    OBVIOUS
  <2> DEFINE j == Len(w) + Len(xx) + i
  <2>1. /\ j \in 1..(Len(w) + Len(x) + Len(y)) /\ ~(j <= Len(w))
        /\ ~(j <= Len(w) + Len(x)) /\ j - Len(w) - Len(x) = i + 1
    BY <1>1, <1>2, <1>3
  <2> HIDE DEF j
  <2>2. p[j] = y[i + 1]
    BY <1>3, <2>1
  <2> QED BY <1>1, <2>2 DEF j
<1>8. p = w \o xx \o yy
  <2>1. InThree(p, w, xx, yy)
    BY ONLY <1>4, <1>5, <1>6, <1>7 DEF InThree
  <2> QED BY <1>1, <1>2, <1>3, <2>1, ThreeParts
<1> QED BY <1>8 DEF p, m, xx, yy

\* Nor does the writer.
LEMMA UnderTaken ==
  ASSUME NEW w \in Seq(Message), NEW x \in Seq(Message), NEW y \in Seq(Message), x # <<>>
  PROVE  Append(w, Head(x)) \o Tail(x) \o y = w \o x \o y
<1> DEFINE p == w \o x \o y
           m == Head(x)
           ww == Append(w, m)
           xx == Tail(x)
<1>1. /\ m = x[1] /\ m \in Message /\ xx \in Seq(Message)
      /\ Len(x) \in Nat \ {0} /\ Len(xx) = Len(x) - 1
      /\ \A i \in 1..Len(xx) : xx[i] = x[i + 1]
  BY HeadTail
<1>2. /\ ww \in Seq(Message) /\ Len(w) \in Nat /\ Len(ww) = Len(w) + 1
      /\ ww[Len(w) + 1] = m /\ \A i \in 1..Len(w) : ww[i] = w[i]
  <2> HIDE DEF m
  <2> QED BY <1>1, AppendParts
<1>3. /\ p \in Seq(Message)
      /\ Len(y) \in Nat
      /\ Len(p) = Len(w) + Len(x) + Len(y)
      /\ \A i \in 1..(Len(w) + Len(x) + Len(y)) :
           p[i] = IF i <= Len(w) THEN w[i]
                              ELSE IF i <= Len(w) + Len(x) THEN x[i - Len(w)]
                              ELSE y[i - Len(w) - Len(x)]
  BY UnderParts
<1> HIDE DEF p, m, ww, xx
<1>4. Len(p) = Len(ww) + Len(xx) + Len(y)
  BY <1>1, <1>2, <1>3
<1>5. \A i \in 1..Len(ww) : p[i] = ww[i]
  <2> SUFFICES ASSUME NEW i \in 1..Len(ww) PROVE p[i] = ww[i]
    OBVIOUS
  <2>1. i \in 1..(Len(w) + Len(x) + Len(y))
    BY <1>1, <1>2, <1>3
  <2>2. CASE i \in 1..Len(w)
    BY <1>2, <1>3, <2>1, <2>2
  <2>3. CASE i = Len(w) + 1
    <3>1. ~(i <= Len(w)) /\ i <= Len(w) + Len(x) /\ i - Len(w) = 1
      BY <1>1, <1>2, <1>3, <2>3
    <3> QED BY <1>1, <1>2, <1>3, <2>1, <2>3, <3>1
  <2> QED BY <1>2, <2>2, <2>3
<1>6. \A i \in 1..Len(xx) : p[Len(ww) + i] = xx[i]
  <2> SUFFICES ASSUME NEW i \in 1..Len(xx) PROVE p[Len(ww) + i] = xx[i]
    OBVIOUS
  <2> DEFINE j == Len(ww) + i
  <2>1. /\ j \in 1..(Len(w) + Len(x) + Len(y)) /\ ~(j <= Len(w))
        /\ j <= Len(w) + Len(x) /\ j - Len(w) = i + 1
    BY <1>1, <1>2, <1>3
  <2> HIDE DEF j
  <2>2. p[j] = x[i + 1]
    BY <1>3, <2>1
  <2> QED BY <1>1, <2>2 DEF j
<1>7. \A i \in 1..Len(y) : p[Len(ww) + Len(xx) + i] = y[i]
  <2> SUFFICES ASSUME NEW i \in 1..Len(y) PROVE p[Len(ww) + Len(xx) + i] = y[i]
    OBVIOUS
  <2> DEFINE j == Len(ww) + Len(xx) + i
  <2>1. /\ j \in 1..(Len(w) + Len(x) + Len(y)) /\ ~(j <= Len(w))
        /\ ~(j <= Len(w) + Len(x)) /\ j - Len(w) - Len(x) = i
    BY <1>1, <1>2, <1>3
  <2> HIDE DEF j
  <2>2. p[j] = y[i]
    BY <1>3, <2>1, Zenon
  <2> QED BY <2>2 DEF j
<1>8. p = ww \o xx \o y
  <2>1. p \in Seq(Message) /\ ww \in Seq(Message) /\ xx \in Seq(Message) /\ y \in Seq(Message)
    BY <1>1, <1>2, <1>3
  <2>2. InThree(p, ww, xx, y)
    BY ONLY <1>4, <1>5, <1>6, <1>7 DEF InThree
  <2> QED BY ONLY <2>1, <2>2, ThreeParts
<1> QED BY <1>8 DEF p, m, ww, xx

\* The view reads the head of its wire.
LEMMA UnderRead ==
  ASSUME NEW w \in Seq(Message), NEW x \in Seq(Message), NEW y \in Seq(Message), w # <<>>
  PROVE  /\ w \o x \o y # <<>>
         /\ Head(w \o x \o y) = Head(w)
         /\ Tail(w \o x \o y) = Tail(w) \o x \o y
<1> DEFINE u == w \o x \o y
           p == Tail(u)
           ww == Tail(w)
<1>1. /\ Head(w) = w[1] /\ ww \in Seq(Message)
      /\ Len(w) \in Nat \ {0} /\ Len(ww) = Len(w) - 1
      /\ \A i \in 1..Len(ww) : ww[i] = w[i + 1]
  BY HeadTail
<1>2. /\ u \in Seq(Message)
      /\ Len(y) \in Nat /\ Len(x) \in Nat
      /\ Len(u) = Len(w) + Len(x) + Len(y)
      /\ \A i \in 1..(Len(w) + Len(x) + Len(y)) :
           u[i] = IF i <= Len(w) THEN w[i]
                              ELSE IF i <= Len(w) + Len(x) THEN x[i - Len(w)]
                              ELSE y[i - Len(w) - Len(x)]
  BY UnderParts
<1> HIDE DEF u, ww
<1>3. u # <<>>
  <2>1. Len(u) # 0
    BY <1>1, <1>2
  <2> QED BY <2>1
<1>4. /\ Head(u) = u[1] /\ p \in Seq(Message) /\ Len(p) = Len(u) - 1
      /\ \A i \in 1..Len(p) : p[i] = u[i + 1]
  BY <1>2, <1>3, HeadTail
<1> HIDE DEF p
<1>5. Head(u) = Head(w)
  <2>1. 1 \in 1..(Len(w) + Len(x) + Len(y)) /\ 1 <= Len(w)
    BY <1>1, <1>2
  <2> QED BY <1>1, <1>2, <1>4, <2>1
<1>6. Len(p) = Len(ww) + Len(x) + Len(y)
  BY <1>1, <1>2, <1>4
<1>7. \A i \in 1..Len(ww) : p[i] = ww[i]
  <2> SUFFICES ASSUME NEW i \in 1..Len(ww) PROVE p[i] = ww[i]
    OBVIOUS
  <2>1. i + 1 \in 1..(Len(w) + Len(x) + Len(y)) /\ i + 1 <= Len(w) /\ i \in 1..Len(p)
    BY <1>1, <1>2, <1>6
  <2> QED BY <1>1, <1>2, <1>4, <2>1
<1>8. \A i \in 1..Len(x) : p[Len(ww) + i] = x[i]
  <2> SUFFICES ASSUME NEW i \in 1..Len(x) PROVE p[Len(ww) + i] = x[i]
    OBVIOUS
  <2> DEFINE j == Len(ww) + i
  <2>1. /\ j + 1 \in 1..(Len(w) + Len(x) + Len(y)) /\ ~(j + 1 <= Len(w)) /\ j \in 1..Len(p)
        /\ j + 1 <= Len(w) + Len(x) /\ (j + 1) - Len(w) = i
    BY <1>1, <1>2, <1>6
  <2> HIDE DEF j
  <2>2. p[j] = u[j + 1] /\ u[j + 1] = x[i]
    BY <1>2, <1>4, <2>1
  <2> QED BY <2>2 DEF j
<1>9. \A i \in 1..Len(y) : p[Len(ww) + Len(x) + i] = y[i]
  <2> SUFFICES ASSUME NEW i \in 1..Len(y) PROVE p[Len(ww) + Len(x) + i] = y[i]
    OBVIOUS
  <2> DEFINE j == Len(ww) + Len(x) + i
  <2>1. /\ j + 1 \in 1..(Len(w) + Len(x) + Len(y)) /\ ~(j + 1 <= Len(w)) /\ j \in 1..Len(p)
        /\ ~(j + 1 <= Len(w) + Len(x)) /\ (j + 1) - Len(w) - Len(x) = i
    BY <1>1, <1>2, <1>6
  <2> HIDE DEF j
  <2>2. p[j] = u[j + 1]
    BY <1>4, <2>1
  <2>3. u[j + 1] = y[i]
    BY <1>2, <2>1, Zenon
  <2> QED BY <2>2, <2>3 DEF j
<1>10. p = ww \o x \o y
  <2>1. p \in Seq(Message) /\ ww \in Seq(Message) /\ x \in Seq(Message) /\ y \in Seq(Message)
    BY <1>1, <1>4
  <2>2. InThree(p, ww, x, y)
    BY ONLY <1>6, <1>7, <1>8, <1>9 DEF InThree
  <2> QED BY ONLY <2>1, <2>2, ThreeParts
<1> QED BY <1>3, <1>5, <1>10 DEF p, u, ww

\* Dropping the queue forgets the end of what is under way.
LEMMA UnderPrefix ==
  ASSUME NEW w \in Seq(Message), NEW s \in DeliveryRecord, NEW t \in DeliveryRecord,
         t.chan = s.chan, t.queue = <<>>
  PROVE  /\ Len(Under(w, t)) <= Len(Under(w, s))
         /\ \A i \in 1..Len(Under(w, t)) : Under(w, t)[i] = Under(w, s)[i]
<1> DEFINE x == s.chan
           y == s.queue
<1>1. x \in Seq(Message) /\ y \in Seq(Message) /\ <<>> \in Seq(Message) /\ Len(<<>>) = 0
  BY RecordTypes
<1> HIDE DEF x, y
<1> DEFINE e == <<>>
<1>2. e \in Seq(Message) /\ Len(e) = 0
  BY <1>1
<1> HIDE DEF e
<1>3. /\ Len(w) \in Nat /\ Len(x) \in Nat /\ Len(y) \in Nat
      /\ Len(w \o x \o y) = Len(w) + Len(x) + Len(y)
      /\ \A i \in 1..(Len(w) + Len(x) + Len(y)) :
           (w \o x \o y)[i] = IF i <= Len(w) THEN w[i]
                              ELSE IF i <= Len(w) + Len(x) THEN x[i - Len(w)]
                              ELSE y[i - Len(w) - Len(x)]
  BY <1>1, UnderParts
<1>4. /\ Len(w \o x \o e) = Len(w) + Len(x) + Len(e)
      /\ \A i \in 1..(Len(w) + Len(x) + Len(e)) :
           (w \o x \o e)[i] = IF i <= Len(w) THEN w[i]
                              ELSE IF i <= Len(w) + Len(x) THEN x[i - Len(w)]
                              ELSE e[i - Len(w) - Len(x)]
  BY <1>1, <1>2, UnderParts
<1>5. Under(w, s) = w \o x \o y /\ Under(w, t) = w \o x \o e
  BY DEF Under, x, y, e
<1>6. Len(Under(w, t)) = Len(w) + Len(x)
  BY <1>2, <1>3, <1>4, <1>5
<1>7. ASSUME NEW i \in 1..(Len(w) + Len(x)) PROVE Under(w, t)[i] = Under(w, s)[i]
  <2>1. /\ i \in 1..(Len(w) + Len(x) + Len(e)) /\ i \in 1..(Len(w) + Len(x) + Len(y))
        /\ i <= Len(w) + Len(x)
    BY <1>2, <1>3
  <2> QED BY <1>3, <1>4, <1>5, <2>1
<1> QED BY <1>3, <1>5, <1>6, <1>7

-----------------------------------------------------------------------------
(* A message sent lands at the end of the replay *)

\* Reading m after z makes the view b, which is what the owner expects.
Lands(s, m, z, b, o, q, r, full) ==
  /\ b \in Shown /\ Step(z, m, b, o, r) /\ Fine(b, o, r)
  /\ b.seq <= q /\ b.crit = s.issued
  /\ r \/ (~s.needs /\ (full \/ s.pending)) => Current(b, o, r)

\* The end of a client that has a role
LEMMA EndsLive ==
  ASSUME NEW s, NEW b, NEW o, NEW q, NEW r, NEW full, NEW i \in Nat,
         s.issued = i, b.seq <= q, b.crit = i, Engaged(s),
         r \/ (~s.needs /\ (full \/ s.pending)) => Current(b, o, r)
  PROVE  Ends(s, b, o, q, r, full)
  BY DEF Ends

\* The end of a client the owner dropped
LEMMA EndsGone ==
  ASSUME NEW s, NEW b, NEW o, NEW q, NEW r, NEW full,
         b.seq <= q, b.crit <= s.issued, ~s.live, ~s.subscribed
  PROVE  Ends(s, b, o, q, r, full)
  BY DEF Ends

\* A client dropped stays on the path as far as its messages go.
LEMMA TrackDisconnected ==
  ASSUME NEW w \in Seq(Message), NEW s \in DeliveryRecord, NEW a, NEW o, NEW q \in Nat,
         NEW r, NEW full, Track(w, s, a, o, q, r, full),
         NEW qq \in Nat, NEW ff, q <= qq
  PROVE  Track(w, Disconnected(s), a, o, qq, r, ff)
<1> DEFINE t == Disconnected(s)
<1> HIDE DEF t
<1>1. /\ t \in DeliveryRecord /\ ~t.live /\ ~t.subscribed /\ t.queue = <<>>
      /\ t.chan = s.chan /\ t.issued = s.issued
  BY DisconnectedFields DEF t
<1>2. PICK z \in Shown : Path(Under(w, s), a, z, o, r) /\ Ends(s, z, o, q, r, full)
  BY DEF Track
<1>3. /\ Len(Under(w, t)) <= Len(Under(w, s))
      /\ \A i \in 1..Len(Under(w, t)) : Under(w, t)[i] = Under(w, s)[i]
  BY <1>1, UnderPrefix
<1>4. Under(w, s) \in Seq(Message) /\ Under(w, t) \in Seq(Message)
  BY <1>1, UnderType
<1>5. PICK y \in Shown : Path(Under(w, t), a, y, o, r) /\ y.crit <= z.crit /\ y.seq <= z.seq
  BY <1>2, <1>3, <1>4, PathPrefix
<1>6. y.seq <= qq /\ y.crit <= t.issued
  <2>1. /\ y.seq \in Nat /\ y.crit \in Nat /\ z.seq \in Nat /\ z.crit \in Nat
        /\ s.issued \in Nat
    BY ShownTypes, RecordTypes
  <2>2. z.seq <= q /\ z.crit <= s.issued
    BY <1>2 DEF Ends
  <2> QED BY <1>1, <1>5, <2>1, <2>2
<1>7. Ends(t, y, o, qq, r, ff)
  BY <1>1, <1>6, EndsGone
<1> QED BY <1>5, <1>7 DEF Track, t

\* send_native, for a message that keeps the view on its path.  A message that
\* may not be dropped lands, unless the client is.
LEMMA TrackSendTo ==
  ASSUME NEW w \in Seq(Message), NEW s \in DeliveryRecord, NEW m \in Message,
         NEW a, NEW z \in Shown, NEW o, NEW q \in Nat, NEW r, NEW full,
         Path(Under(w, s), a, z, o, r), z.seq <= q, z.crit <= s.issued,
         Roles(s), Serving(s), full \/ ~Snapshot(m),
         Defers(m) /\ s.live => z.crit = s.issued /\ (r => Current(z, o, r)),
         s.live /\ (Defers(m) => ~s.needs) => \E b : Lands(s, m, z, b, o, q, r, full)
  PROVE  \E y \in Shown :
           /\ Path(Under(w, SendNative(s, m)), a, y, o, r)
           /\ Ends(SendNative(s, m), y, o, q, r, full)
           /\ Defers(m) \/ ~SendNative(s, m).live \/ Lands(s, m, z, y, o, q, r, full)
<1> DEFINE t == SendNative(s, m)
<1>0. s.issued \in Nat /\ z.crit \in Nat /\ z.seq \in Nat
  BY RecordTypes, ShownTypes
<1>1. CASE t = s /\ (~s.live \/ Closing(s))
  <2>1. ~s.live /\ ~s.subscribed
    BY <1>1 DEF Roles, Serving
  <2>2. Ends(s, z, o, q, r, full)
    BY <2>1, EndsGone
  <2> QED BY <1>1, <2>1, <2>2
<1>2. CASE t = Disconnected(s)
  <2> DEFINE u == Disconnected(s)
  <2> HIDE DEF u
  <2>1. /\ u \in DeliveryRecord /\ ~u.live /\ ~u.subscribed /\ u.queue = <<>>
        /\ u.chan = s.chan /\ u.issued = s.issued
    BY DisconnectedFields DEF u
  <2>2. /\ Len(Under(w, u)) <= Len(Under(w, s))
        /\ \A i \in 1..Len(Under(w, u)) : Under(w, u)[i] = Under(w, s)[i]
    BY <2>1, UnderPrefix
  <2>3. Under(w, s) \in Seq(Message) /\ Under(w, u) \in Seq(Message)
    BY <2>1, UnderType
  <2>4. PICK y \in Shown : Path(Under(w, u), a, y, o, r) /\ y.crit <= z.crit /\ y.seq <= z.seq
    BY <2>2, <2>3, PathPrefix
  <2>5. y.seq <= q /\ y.crit <= u.issued
    BY <1>0, <2>1, <2>4, ShownTypes
  <2>6. Ends(u, y, o, q, r, full)
    BY <2>1, <2>5, EndsGone
  <2> QED BY <1>2, <2>1, <2>4, <2>6 DEF u
<1>3. CASE s.live /\ ~Closing(s) /\ Defers(m) /\ t = OweSnapshot(s)
  <2> DEFINE u == OweSnapshot(s)
  <2> HIDE DEF u
  <2>1. /\ u \in DeliveryRecord /\ u.needs
        /\ u.chan = s.chan /\ u.queue = s.queue /\ u.issued = s.issued
        /\ (Engaged(u) <=> Engaged(s))
    BY OwedFields DEF u
  <2>2. Engaged(u)
    BY <1>3, <2>1 DEF Serving, Engaged
  <2>3. Ends(u, z, o, q, r, full)
    BY <1>0, <1>3, <2>1, <2>2, EndsLive
  <2>4. Under(w, u) = Under(w, s)
    BY <2>1 DEF Under
  <2> QED BY <1>3, <2>3, <2>4 DEF u
<1>4. CASE s.live /\ ~Closing(s) /\ s.queue = <<>> /\ (Defers(m) => ~s.needs)
           /\ t = Delivered(s, m)
  <2> DEFINE u == Delivered(s, m)
  <2> HIDE DEF u
  <2>1. /\ u \in DeliveryRecord
        /\ u.chan = Append(s.chan, m) /\ u.pending = (s.pending \/ Snapshot(m))
        /\ u.queue = s.queue /\ u.needs = s.needs /\ u.issued = s.issued
        /\ (Engaged(u) <=> Engaged(s))
    BY DeliveredFields DEF u
  <2>2. PICK b : Lands(s, m, z, b, o, q, r, full)
    BY <1>4
  <2>3. Under(w, u) = Append(Under(w, s), m)
    BY <1>4, <2>1, UnderAppend
  <2>4. Path(Under(w, u), a, b, o, r)
    BY <2>2, <2>3, UnderType, PathAppend DEF Lands
  <2>5. Engaged(u)
    BY <1>4, <2>1 DEF Serving, Engaged
  <2>6. r \/ (~u.needs /\ (full \/ u.pending)) => Current(b, o, r)
    BY <2>1, <2>2 DEF Lands
  <2>7. Ends(u, b, o, q, r, full)
    BY <1>0, <2>1, <2>2, <2>5, <2>6, EndsLive DEF Lands
  <2>8. b \in Shown
    BY <2>2 DEF Lands
  <2> QED BY <1>4, <2>2, <2>4, <2>7, <2>8 DEF u
<1>5. CASE s.live /\ ~Closing(s) /\ ~Defers(m) /\ t = Queued(s, m)
  <2> DEFINE u == Queued(s, m)
  <2> HIDE DEF u
  <2>1. /\ u \in DeliveryRecord
        /\ u.queue = Append(s.queue, m) /\ u.pending = s.pending
        /\ u.chan = s.chan /\ u.needs = s.needs /\ u.issued = s.issued
        /\ (Engaged(u) <=> Engaged(s))
    BY QueuedFields DEF u
  <2>2. PICK b : Lands(s, m, z, b, o, q, r, full)
    BY <1>5
  <2>3. Under(w, u) = Append(Under(w, s), m)
    BY <2>1, UnderAppend
  <2>4. Path(Under(w, u), a, b, o, r)
    BY <2>2, <2>3, UnderType, PathAppend DEF Lands
  <2>5. Engaged(u)
    BY <1>5, <2>1 DEF Serving, Engaged
  <2>6. r \/ (~u.needs /\ (full \/ u.pending)) => Current(b, o, r)
    BY <2>1, <2>2 DEF Lands
  <2>7. Ends(u, b, o, q, r, full)
    BY <1>0, <2>1, <2>2, <2>5, <2>6, EndsLive DEF Lands
  <2>8. b \in Shown
    BY <2>2 DEF Lands
  <2> QED BY <1>5, <2>2, <2>4, <2>7, <2>8 DEF u
<1> QED BY <1>1, <1>2, <1>3, <1>4, <1>5, SendNativeCases

\* So the view stays on its path.
LEMMA TrackSend ==
  ASSUME NEW w \in Seq(Message), NEW s \in DeliveryRecord, NEW m \in Message,
         NEW a, NEW z \in Shown, NEW o, NEW q \in Nat, NEW r, NEW full,
         Path(Under(w, s), a, z, o, r), z.seq <= q, z.crit <= s.issued,
         Roles(s), Serving(s), full \/ ~Snapshot(m),
         Defers(m) /\ s.live => z.crit = s.issued /\ (r => Current(z, o, r)),
         s.live /\ (Defers(m) => ~s.needs) => \E b : Lands(s, m, z, b, o, q, r, full)
  PROVE  Track(w, SendNative(s, m), a, o, q, r, full)
  BY TrackSendTo DEF Track

\* A checkpoint of the engine as it is
IsCheckpoint(m, o, q, r) ==
  m.kind = "snapshot" /\ m.seq = q /\ m.nth = o /\ m.gone = r

\* A view that read one message
Moved(z, cr, n, q, mode) ==
  [crit |-> cr, n |-> n, seq |-> q, drag |-> z.drag, torn |-> z.torn, mode |-> mode]

\* Its fields
LEMMA MovedShown ==
  ASSUME NEW cr \in Nat, NEW n \in Nat, NEW q \in Nat,
         NEW mode \in {"unseen", "open", "closed", "over"}, NEW z \in Shown,
         NEW b, b = Moved(z, cr, n, q, mode)
  PROVE  b \in Shown /\ b.crit = cr /\ b.n = n /\ b.seq = q /\ b.mode = mode
         /\ b.drag = z.drag /\ b.torn = z.torn
  BY DEF Moved, Shown

\* A view restored from a checkpoint
Restored(z, n, q) ==
  [crit |-> z.crit, n |-> n, seq |-> q, drag |-> z.drag, torn |-> FALSE, mode |-> "open"]

\* Its fields
LEMMA RestoredShown ==
  ASSUME NEW n \in Nat, NEW q \in Nat, NEW z \in Shown, NEW b, b = Restored(z, n, q)
  PROVE  b \in Shown /\ b.crit = z.crit /\ b.n = n /\ b.seq = q /\ b.mode = "open"
         /\ b.drag = z.drag /\ ~b.torn
  BY DEF Restored, Shown

\* A checkpoint makes any view current.
LEMMA LandsSnapshot ==
  ASSUME NEW s \in DeliveryRecord, NEW m \in Message, NEW o \in Nat, NEW q \in Nat,
         NEW r \in BOOLEAN, IsCheckpoint(m, o, q, r), NEW z \in Shown, Fine(z, o, r),
         z.seq <= q, z.crit = s.issued, r => Current(z, o, r)
  PROVE  \E b : Lands(s, m, z, b, o, q, r, TRUE) /\ Current(b, o, r)
<1>0. /\ z.crit \in Nat /\ z.n \in Nat /\ z.seq \in Nat /\ z.n <= o
      /\ z.mode \in {"unseen", "open", "closed", "over"}
      /\ m.kind = "snapshot" /\ m.kind \notin CriticalKinds
      /\ m.seq = q /\ m.nth = o /\ m.gone = r
  BY ShownTypes DEF IsCheckpoint, CriticalKinds, Fine
<1>1. CASE z.mode = "over"
  <2>1. Step(z, m, z, o, r)
    BY <1>0, <1>1 DEF Step, Counts, Still
  <2> QED BY <1>1, <2>1 DEF Lands, Current
<1>2. CASE z.mode # "over" /\ r
  <2> DEFINE mode == IF z.mode = "unseen" THEN "unseen" ELSE "closed"
             b == Moved(z, z.crit, z.n, q, mode)
  <2>1. mode \in {"unseen", "open", "closed", "over"}
    OBVIOUS
  <2> HIDE DEF b
  <2>2. b \in Shown /\ b.crit = z.crit /\ b.n = z.n /\ b.seq = q /\ b.mode = mode
        /\ b.drag = z.drag /\ b.torn = z.torn
    BY <1>0, <2>1, MovedShown DEF b
  <2>3. b.mode = "closed" => b.torn \/ b.n = o
    BY <1>0, <1>2, <2>2 DEF Current
  <2>4. Fine(b, o, r) /\ Current(b, o, r)
    BY <1>0, <1>2, <2>2, <2>3 DEF Fine, Final, Current
  <2>5. ShowsSnapshot(z, m, b)
    BY <1>0, <1>2, <2>2 DEF ShowsSnapshot
  <2>6. Step(z, m, b, o, r)
    BY <1>0, <1>2, <2>2, <2>5 DEF Step, Counts
  <2>7. b.seq <= q
    BY <1>0, <2>2
  <2> QED BY <2>2, <2>4, <2>6, <2>7 DEF Lands
<1>3. CASE z.mode # "over" /\ ~r
  <2> DEFINE b == Restored(z, o, q)
  <2> HIDE DEF b
  <2>2. b \in Shown /\ b.crit = z.crit /\ b.n = o /\ b.seq = q /\ b.mode = "open"
        /\ b.drag = z.drag /\ ~b.torn
    BY <1>0, RestoredShown DEF b
  <2>3. z.mode # "closed"
    BY <1>3 DEF Fine, Final
  <2>4. Fine(b, o, r) /\ Current(b, o, r)
    BY <2>2 DEF Fine, Final, Current
  <2>5. ShowsSnapshot(z, m, b)
    BY <1>0, <1>3, <2>2, <2>3 DEF ShowsSnapshot
  <2>6. Step(z, m, b, o, r)
    BY <1>0, <1>3, <2>2, <2>5 DEF Step, Counts
  <2>7. b.seq <= q
    BY <1>0, <2>2
  <2> QED BY <2>2, <2>4, <2>6, <2>7 DEF Lands
<1> QED BY <1>1, <1>2, <1>3

\* An output makes a current view current.
LEMMA LandsOutput ==
  ASSUME NEW s \in DeliveryRecord, NEW m \in Message, NEW o \in Nat, NEW q \in Nat,
         m.kind = "output", m.nth = o + 1, m.seq = q + 1, NEW z \in Shown,
         Fine(z, o, FALSE), z.seq <= q, z.crit = s.issued, Current(z, o, FALSE)
  PROVE  \E b : Lands(s, m, z, b, o + 1, q + 1, FALSE, TRUE)
<1>0. /\ z.crit \in Nat /\ z.n \in Nat /\ z.seq \in Nat /\ z.n <= o
      /\ z.mode \in {"unseen", "open", "closed", "over"}
      /\ m.kind \notin CriticalKinds /\ o + 1 \in Nat /\ q + 1 \in Nat
      /\ z.seq <= q + 1 /\ z.n <= o + 1 /\ z.seq < q + 1
  BY ShownTypes DEF CriticalKinds, Fine
<1>1. CASE z.mode = "over"
  <2>1. Step(z, m, z, o + 1, FALSE)
    BY <1>0, <1>1 DEF Step, Counts, Still
  <2>2. Fine(z, o + 1, FALSE)
    BY <1>0, <1>1 DEF Fine
  <2> QED BY <1>0, <1>1, <2>1, <2>2 DEF Lands, Current
<1>2. CASE z.mode # "over"
  <2> DEFINE b == Moved(z, z.crit, o + 1, q + 1, "open")
  <2> HIDE DEF b
  <2>1. z.mode = "open" /\ (z.torn \/ z.n = o)
    BY <1>0, <1>2 DEF Current, Fine, Final
  <2>2. b \in Shown /\ b.crit = z.crit /\ b.n = o + 1 /\ b.seq = q + 1 /\ b.mode = "open"
        /\ b.drag = z.drag /\ b.torn = z.torn
    BY <1>0, MovedShown DEF b
  <2>4. Fine(b, o + 1, FALSE) /\ Current(b, o + 1, FALSE)
    BY <1>0, <2>2 DEF Fine, Final, Current
  <2>5. ShowsOutput(z, m, b)
    BY <1>0, <2>1, <2>2 DEF ShowsOutput
  <2>6. Step(z, m, b, o + 1, FALSE)
    BY <1>0, <1>2, <2>2, <2>5 DEF Step, Counts
  <2>7. b.seq <= q + 1
    BY <1>0, <2>2
  <2> QED BY <2>2, <2>4, <2>6, <2>7 DEF Lands
<1> QED BY <1>1, <1>2

\* A Changed notice leaves the view as it is.
LEMMA LandsChanged ==
  ASSUME NEW s \in DeliveryRecord, NEW m \in Message, NEW o, NEW q, NEW r,
         m.kind = "changed", NEW z \in Shown, Fine(z, o, r), z.seq <= q,
         z.crit = s.issued, r \/ ~s.needs => Current(z, o, r)
  PROVE  \E b : Lands(s, m, z, b, o, q, r, TRUE)
<1>1. m.kind \notin CriticalKinds
  BY DEF CriticalKinds
<1>2. Step(z, m, z, o, r)
  BY <1>1 DEF Step, Counts, Still
<1> QED BY <1>2 DEF Lands

\* The message m carries the number after those z has counted.
Numbered(s, m, z) == m.nth = s.issued /\ z.crit + 1 = s.issued

\* A reply or effect leaves the terminal as it is.
LEMMA LandsCritical ==
  ASSUME NEW s \in DeliveryRecord, NEW m \in Message, NEW o, NEW q, NEW r, NEW full,
         m.kind = "critical", NEW z \in Shown, Fine(z, o, r),
         z.seq <= q, Numbered(s, m, z),
         r \/ (~s.needs /\ (full \/ s.pending)) => Current(z, o, r)
  PROVE  \E b : Lands(s, m, z, b, o, q, r, full)
<1> DEFINE b == Moved(z, z.crit + 1, z.n, z.seq, z.mode)
<1> HIDE DEF b
<1>1. /\ z.crit + 1 \in Nat /\ z.n \in Nat /\ z.seq \in Nat
      /\ z.mode \in {"unseen", "open", "closed", "over"}
  BY ShownTypes
<1>2. b \in Shown /\ b.crit = z.crit + 1 /\ b.n = z.n /\ b.seq = z.seq /\ b.mode = z.mode
      /\ b.drag = z.drag /\ b.torn = z.torn
  BY <1>1, MovedShown, SMTT(60) DEF b
<1>3. m.kind \in CriticalKinds
  BY DEF CriticalKinds
<1>4. Step(z, m, b, o, r)
  BY <1>2, <1>3 DEF Step, Counts, Still, Numbered
<1>5. Fine(b, o, r) /\ (Current(z, o, r) => Current(b, o, r))
  BY <1>2 DEF Fine, Final, Current
<1> QED BY <1>2, <1>4, <1>5 DEF Lands, Numbered

\* The messages a view ends on
EndKinds == {"aborted", "final"}

\* A view that ends with its pane is on the final terminal.
LEMMA LandsEnd ==
  ASSUME NEW s \in DeliveryRecord, NEW m \in Message, NEW o, NEW q, NEW r, NEW full,
         m.kind \in EndKinds, NEW z \in Shown,
         Fine(z, o, r), z.seq <= q, Numbered(s, m, z),
         m.gone => r /\ Current(z, o, r)
  PROVE  \E b : Lands(s, m, z, b, o, q, r, full)
<1> DEFINE b == Moved(z, z.crit + 1, z.n, z.seq, "over")
<1> HIDE DEF b
<1>1. z.crit + 1 \in Nat /\ z.n \in Nat /\ z.seq \in Nat
  BY ShownTypes
<1>2. b \in Shown /\ b.crit = z.crit + 1 /\ b.n = z.n /\ b.seq = z.seq /\ b.mode = "over"
      /\ b.drag = z.drag /\ b.torn = z.torn
  BY <1>1, MovedShown DEF b
<1>3. m.kind \in CriticalKinds
  BY DEF CriticalKinds, EndKinds
<1>4. m.gone /\ z.mode = "open" => Final(z, o, r)
  BY DEF Current, Final
<1>5. Step(z, m, b, o, r)
  BY <1>2, <1>3, <1>4 DEF Step, Counts, Still, Numbered, ShowsEnd, EndKinds
<1>6. Fine(b, o, r) /\ Current(b, o, r)
  BY <1>2 DEF Fine, Final, Current
<1> QED BY <1>2, <1>5, <1>6 DEF Lands, Numbered

\* A view that read drag metadata of sequence q
Dragged(z, q) ==
  [crit |-> z.crit + 1, n |-> z.n, seq |-> q, drag |-> q, torn |-> z.torn, mode |-> z.mode]

\* Drag metadata leaves the terminal as it is and takes the view to its
\* sequence, which is later than everything sent before.
LEMMA LandsDrag ==
  ASSUME NEW s \in DeliveryRecord, NEW m \in Message, NEW o, NEW q, NEW r, NEW full,
         m.kind = "drag", m.seq = q, NEW z \in Shown, Fine(z, o, r),
         z.seq < q, Numbered(s, m, z),
         r \/ (~s.needs /\ (full \/ s.pending)) => Current(z, o, r)
  PROVE  \E b : Lands(s, m, z, b, o, q, r, full)
<1>1. m.kind \in CriticalKinds /\ q \in Nat
  BY MessageTypes DEF CriticalKinds
<1>2. z.crit + 1 \in Nat /\ z.n \in Nat /\ z.seq \in Nat
  BY ShownTypes
<1>3. CASE z.mode = "over"
  <2> DEFINE b == Moved(z, z.crit + 1, z.n, z.seq, "over")
  <2> HIDE DEF b
  <2>1. b \in Shown /\ b.crit = z.crit + 1 /\ b.n = z.n /\ b.seq = z.seq /\ b.mode = "over"
        /\ b.drag = z.drag /\ b.torn = z.torn
    BY <1>2, MovedShown DEF b
  <2>2. Step(z, m, b, o, r)
    BY <1>1, <1>3, <2>1 DEF Step, Counts, Still, Numbered
  <2>3. Fine(b, o, r) /\ Current(b, o, r) /\ b.seq <= q
    BY <1>1, <1>2, <2>1 DEF Fine, Current
  <2> QED BY <2>1, <2>2, <2>3 DEF Lands, Numbered
<1>4. CASE z.mode # "over"
  <2> DEFINE b == Dragged(z, q)
  <2>1. b \in Shown /\ b.crit = z.crit + 1 /\ b.n = z.n /\ b.seq = q /\ b.mode = z.mode
        /\ b.drag = q /\ b.torn = z.torn
    BY <1>1, <1>2 DEF Dragged, Shown
  <2> HIDE DEF b
  <2>2. ShowsDrag(z, m, b)
    BY <1>2, <2>1 DEF ShowsDrag
  <2>3. Step(z, m, b, o, r)
    BY <1>1, <1>4, <2>1, <2>2 DEF Step, Counts, Numbered
  <2>4. Fine(b, o, r) /\ (Current(z, o, r) => Current(b, o, r)) /\ b.seq <= q
    BY <1>1, <2>1 DEF Fine, Final, Current
  <2> QED BY <2>1, <2>3, <2>4 DEF Lands, Numbered
<1> QED BY <1>3, <1>4

\* An output that drag metadata has overtaken tears a view that was current.
LEMMA LandsOvertaken ==
  ASSUME NEW s \in DeliveryRecord, NEW m \in Message, NEW o \in Nat, NEW q \in Nat,
         m.kind = "output", m.nth = o + 1, NEW z \in Shown,
         Fine(z, o, FALSE), z.seq <= q, z.crit = s.issued, Current(z, o, FALSE),
         z.mode = "over" \/ (m.seq <= z.seq /\ m.seq <= z.drag)
  PROVE  \E b : Lands(s, m, z, b, o + 1, q, FALSE, TRUE)
<1>0. /\ z.crit \in Nat /\ z.n \in Nat /\ z.seq \in Nat /\ z.n <= o
      /\ z.mode \in {"unseen", "open", "closed", "over"}
      /\ m.kind \notin CriticalKinds /\ o + 1 \in Nat /\ z.n <= o + 1
  BY ShownTypes DEF CriticalKinds, Fine
<1>1. CASE z.mode = "over"
  <2>1. Step(z, m, z, o + 1, FALSE)
    BY <1>0, <1>1 DEF Step, Counts, Still
  <2>2. Fine(z, o + 1, FALSE)
    BY <1>0, <1>1 DEF Fine
  <2> QED BY <1>0, <1>1, <2>1, <2>2 DEF Lands, Current
<1>2. CASE z.mode # "over"
  <2> DEFINE b == [z EXCEPT !.torn = TRUE]
  <2>1. z.mode = "open"
    BY <1>0, <1>2 DEF Current, Fine, Final
  <2>2. b \in Shown /\ b.crit = z.crit /\ b.n = z.n /\ b.seq = z.seq /\ b.mode = "open"
        /\ b.torn = TRUE
    BY <2>1 DEF Shown
  <2>3. DropsOutput(z, m, b, o + 1)
    BY <1>0, <1>2, <2>1 DEF DropsOutput
  <2> HIDE DEF b
  <2>4. Fine(b, o + 1, FALSE) /\ Current(b, o + 1, FALSE)
    BY <1>0, <2>2 DEF Fine, Final, Current
  <2>5. Step(z, m, b, o + 1, FALSE)
    BY <1>0, <1>2, <2>2, <2>3 DEF Step, Counts
  <2> QED BY <2>2, <2>4, <2>5 DEF Lands
<1> QED BY <1>1, <1>2

\* What Track says of the end of the path
LEMMA TrackFacts ==
  ASSUME NEW w \in Seq(Message), NEW s \in DeliveryRecord, NEW a, NEW o, NEW q, NEW r, NEW full,
         Track(w, s, a, o, q, r, full)
  PROVE  \E z \in Shown :
           /\ Path(Under(w, s), a, z, o, r) /\ Ends(s, z, o, q, r, full)
           /\ Fine(z, o, r) /\ z.seq <= q /\ z.crit <= s.issued
           /\ s.live => z.crit = s.issued
           /\ s.subscribed /\ (r \/ (~s.needs /\ (full \/ s.pending))) => Current(z, o, r)
<1>1. PICK z \in Shown : Path(Under(w, s), a, z, o, r) /\ Ends(s, z, o, q, r, full)
  BY DEF Track
<1>2. Fine(z, o, r)
  BY <1>1, UnderType, PathEnds
<1> QED BY <1>1, <1>2 DEF Ends

\* Only the obligations of subscribed clients change with the pane.
LEMMA TrackLater ==
  ASSUME NEW w \in Seq(Message), NEW s \in DeliveryRecord, NEW a,
         NEW o \in Nat, NEW q \in Nat, NEW r \in BOOLEAN, NEW full,
         NEW oo \in Nat, NEW qq \in Nat, NEW rr \in BOOLEAN, NEW ff,
         Track(w, s, a, o, q, r, full), ~s.subscribed,
         o <= oo, q <= qq, r => rr /\ oo = o
  PROVE  Track(w, s, a, oo, qq, rr, ff)
<1>1. PICK z \in Shown : Path(Under(w, s), a, z, o, r) /\ Ends(s, z, o, q, r, full)
  BY DEF Track
<1>2. Path(Under(w, s), a, z, oo, rr)
  BY <1>1, UnderType, PathLater
<1>3. z.seq <= qq
  BY <1>1, ShownTypes DEF Ends
<1>4. Ends(s, z, oo, qq, rr, ff)
  BY <1>1, <1>3 DEF Ends
<1> QED BY <1>2, <1>4 DEF Track

\* A change that tells the views nothing new of the pane
LEMMA TrackTick ==
  ASSUME NEW w, NEW s, NEW a, NEW o, NEW q \in Nat, NEW r, NEW full, NEW qq \in Nat,
         Track(w, s, a, o, q, r, full), q <= qq
  PROVE  Track(w, s, a, o, qq, r, full)
<1>1. PICK z \in Shown : Path(Under(w, s), a, z, o, r) /\ Ends(s, z, o, q, r, full)
  BY DEF Track
<1>2. z.seq <= qq
  BY <1>1, ShownTypes DEF Ends
<1>3. Ends(s, z, o, qq, r, full)
  BY <1>1, <1>2 DEF Ends
<1> QED BY <1>1, <1>3 DEF Track

\* Sending a checkpoint pays every debt.
LEMMA TrackSnap ==
  ASSUME NEW w \in Seq(Message), NEW s \in DeliveryRecord, NEW m \in Message, NEW a,
         NEW o \in Nat, NEW q \in Nat, NEW r \in BOOLEAN, NEW full,
         Track(w, s, a, o, q, r, full), Roles(s), Serving(s), IsCheckpoint(m, o, q, r)
  PROVE  Track(w, SendNative(s, m), a, o, q, r, TRUE)
<1>1. PICK z \in Shown :
           /\ Path(Under(w, s), a, z, o, r)
           /\ Fine(z, o, r) /\ z.seq <= q /\ z.crit <= s.issued
           /\ s.live => z.crit = s.issued
           /\ s.subscribed /\ r => Current(z, o, r)
  BY TrackFacts
<1>2. s.live => z.crit = s.issued /\ (r => Current(z, o, r))
  BY <1>1 DEF Serving
<1>3. s.live => \E b : Lands(s, m, z, b, o, q, r, TRUE)
  BY <1>1, <1>2, LandsSnapshot
<1> DEFINE ff == TRUE
<1>4. s.live /\ (Defers(m) => ~s.needs) => \E b : Lands(s, m, z, b, o, q, r, ff)
  BY <1>3
<1>5. (Defers(m) /\ s.live => z.crit = s.issued /\ (r => Current(z, o, r))) /\ (ff \/ ~Snapshot(m))
  BY <1>2
<1> HIDE DEF ff
<1>6. Track(w, SendNative(s, m), a, o, q, r, ff)
  BY <1>1, <1>4, <1>5, TrackSend
<1> QED BY <1>6 DEF ff

\* A PaneOutput reaches every current view, or becomes a debt.
LEMMA TrackOutput ==
  ASSUME NEW w \in Seq(Message), NEW s \in DeliveryRecord, NEW m \in Message, NEW a,
         NEW o \in Nat, NEW q \in Nat,
         Track(w, s, a, o, q, FALSE, TRUE), Roles(s), Serving(s),
         m.kind = "output", m.nth = o + 1, m.seq = q + 1
  PROVE  Track(w, SendNative(s, m), a, o + 1, q + 1, FALSE, TRUE)
<1> DEFINE r == FALSE
           ff == TRUE
           oo == o + 1
           qq == q + 1
<1>0. oo \in Nat /\ qq \in Nat /\ r \in BOOLEAN /\ o <= oo /\ ~r
  OBVIOUS
<1>1. PICK z \in Shown :
           /\ Path(Under(w, s), a, z, o, r)
           /\ Fine(z, o, r) /\ z.seq <= q /\ z.crit <= s.issued
           /\ s.live => z.crit = s.issued
           /\ s.subscribed /\ (r \/ (~s.needs /\ (ff \/ s.pending))) => Current(z, o, r)
  <2> HIDE DEF r, ff
  <2>1. Track(w, s, a, o, q, r, ff)
    BY DEF r, ff
  <2> QED BY <2>1, TrackFacts
<1>2. s.live /\ ~s.needs => \E b : Lands(s, m, z, b, oo, qq, r, ff)
  BY <1>1, LandsOutput DEF Serving
<1>3. Path(Under(w, s), a, z, oo, r)
  <2>1. Under(w, s) \in Seq(Message)
    BY UnderType
  <2> HIDE DEF r, ff, oo, qq
  <2> QED BY <1>0, <1>1, <2>1, PathLater
<1>4. z.seq <= qq
  BY <1>1, ShownTypes
<1>5. Defers(m)
  BY DEF Defers, Replayable, DeltaKinds
<1>6. ff \/ ~Snapshot(m)
  OBVIOUS
<1> HIDE DEF r, ff, oo, qq
<1>7. Track(w, SendNative(s, m), a, oo, qq, r, ff)
  BY <1>0, <1>1, <1>2, <1>3, <1>4, <1>5, <1>6, TrackSend
<1> QED BY <1>7 DEF r, ff, oo, qq

\* A Changed notice goes out, or becomes a debt.
LEMMA TrackChanged ==
  ASSUME NEW w \in Seq(Message), NEW s \in DeliveryRecord, NEW m \in Message, NEW a,
         NEW o \in Nat, NEW q \in Nat, NEW r \in BOOLEAN,
         Track(w, s, a, o, q, r, TRUE), Roles(s), Serving(s), m.kind = "changed"
  PROVE  Track(w, SendNative(s, m), a, o, q, r, TRUE)
<1> DEFINE ff == TRUE
<1>1. PICK z \in Shown :
           /\ Path(Under(w, s), a, z, o, r)
           /\ Fine(z, o, r) /\ z.seq <= q /\ z.crit <= s.issued
           /\ s.live => z.crit = s.issued
           /\ s.subscribed /\ (r \/ (~s.needs /\ (ff \/ s.pending))) => Current(z, o, r)
  <2> HIDE DEF ff
  <2>1. Track(w, s, a, o, q, r, ff)
    BY DEF ff
  <2> QED BY <2>1, TrackFacts
<1>2. s.live /\ ~s.needs => \E b : Lands(s, m, z, b, o, q, r, ff)
  BY <1>1, LandsChanged DEF Serving
<1>3. Defers(m) /\ (s.live => z.crit = s.issued /\ (r => Current(z, o, r)))
  BY <1>1 DEF Defers, Replayable, DeltaKinds, Serving
<1>4. ff \/ ~Snapshot(m)
  OBVIOUS
<1> HIDE DEF ff
<1>5. Track(w, SendNative(s, m), a, o, q, r, ff)
  BY <1>1, <1>2, <1>3, <1>4, TrackSend
<1> QED BY <1>5 DEF ff

\* A numbered message goes out, or waits in its place.
LEMMA TrackCritical ==
  ASSUME NEW w \in Seq(Message), NEW s \in DeliveryRecord, NEW a,
         NEW o \in Nat, NEW q \in Nat, NEW r \in BOOLEAN, NEW full,
         Track(w, s, a, o, q, r, full), Roles(s), Serving(s),
         NEW kind \in CriticalKinds \ {"drag"}, NEW gone \in BOOLEAN,
         gone => r /\ kind # "critical",
         NEW ff, ff => full \/ kind # "critical"
  PROVE  Track(w, SendCritical(s, kind, gone), a, o, q, r, ff)
<1>1. PICK z \in Shown :
           /\ Path(Under(w, s), a, z, o, r)
           /\ Fine(z, o, r) /\ z.seq <= q /\ z.crit <= s.issued
           /\ s.live => z.crit = s.issued
           /\ s.subscribed /\ (r \/ (~s.needs /\ (full \/ s.pending))) => Current(z, o, r)
  BY TrackFacts
<1>0. s.issued \in Nat /\ z.crit \in Nat /\ s.issued + 1 \in Nat
  BY RecordTypes, ShownTypes
<1>2. CASE ~(s.live /\ ~Closing(s))
  <2>1. ~s.live /\ ~s.subscribed
    BY <1>2 DEF Roles, Serving
  <2>2. Ends(s, z, o, q, r, ff)
    BY <1>1, <2>1, EndsGone
  <2> QED BY <1>1, <1>2, <2>2 DEF Track, SendCritical
<1>3. CASE s.live /\ ~Closing(s)
  <2> DEFINE u == Counted(s)
             m == Critical(kind, s.issued + 1, gone)
  <2>1. SendCritical(s, kind, gone) = SendNative(u, m)
    BY <1>3 DEF SendCritical, Counted
  <2>2. m \in Message /\ ~Snapshot(m) /\ ~Defers(m)
    BY <1>0, CriticalMessage
  <2>3. m.kind = kind /\ m.nth = s.issued + 1 /\ m.gone = gone
    BY DEF Critical
  <2> HIDE DEF u, m
  <2>4. /\ u \in DeliveryRecord
        /\ u.issued = s.issued + 1
        /\ u.live = s.live /\ u.subscribed = s.subscribed
        /\ u.chan = s.chan /\ u.queue = s.queue
        /\ u.pending = s.pending /\ u.needs = s.needs
        /\ u.requested = s.requested
        /\ (Closing(u) <=> Closing(s)) /\ (Engaged(u) <=> Engaged(s))
    BY CountedFields DEF u
  <2>5. Roles(u) /\ Serving(u) /\ Under(w, u) = Under(w, s)
    BY <2>4 DEF Roles, Serving, Under
  <2>6. s.subscribed /\ z.crit + 1 = u.issued /\ z.crit <= u.issued
    BY <1>0, <1>1, <1>3, <2>4 DEF Serving
  <2>9. Numbered(u, m, z)
    BY <2>3, <2>4, <2>6 DEF Numbered
  <2>7. \E b : Lands(u, m, z, b, o, q, r, ff)
    <3>1. CASE kind = "critical"
      <4>1. r \/ (~u.needs /\ (ff \/ u.pending)) => Current(z, o, r)
        BY <1>1, <2>4, <2>6, <3>1
      <4>2. m.kind = "critical"
        BY <2>3, <3>1
      <4> QED BY <1>1, <2>2, <2>4, <2>9, <4>1, <4>2, LandsCritical
    <3>2. CASE kind \in EndKinds
      <4>1. m.gone => r /\ Current(z, o, r)
        BY <1>1, <2>3, <2>6
      <4>2. m.kind \in EndKinds
        BY <2>3, <3>2
      <4> QED BY <1>1, <2>2, <2>4, <2>9, <4>1, <4>2, LandsEnd
    <3> QED BY <3>1, <3>2 DEF CriticalKinds, EndKinds
  <2>8. Track(w, SendNative(u, m), a, o, q, r, ff)
    BY <1>1, <2>2, <2>4, <2>5, <2>6, <2>7, TrackSend
  <2> QED BY <2>1, <2>8
<1> QED BY <1>2, <1>3

-----------------------------------------------------------------------------
(* The operations of delivery.rs *)

\* send_native keeps the type of a record.
LEMMA RecordSend ==
  ASSUME NEW s \in DeliveryRecord, NEW m \in Message
  PROVE  SendNative(s, m) \in DeliveryRecord
<1>1. Disconnected(s) \in DeliveryRecord
  BY DisconnectedFields
<1>2. OweSnapshot(s) \in DeliveryRecord
  BY OwedFields
<1>3. Delivered(s, m) \in DeliveryRecord
  BY DeliveredFields
<1>4. Queued(s, m) \in DeliveryRecord
  BY QueuedFields
<1> QED BY <1>1, <1>2, <1>3, <1>4, SendNativeCases

\* So does a numbered message.
LEMMA RecordCritical ==
  ASSUME NEW s \in DeliveryRecord, NEW kind \in CriticalKinds, NEW gone \in BOOLEAN
  PROVE  SendCritical(s, kind, gone) \in DeliveryRecord
<1> DEFINE v == Counted(s)
           n == Critical(kind, s.issued + 1, gone)
<1>1. s.issued + 1 \in Nat
  BY RecordTypes
<1>2. n \in Message
  BY <1>1, CriticalMessage
<1>3. v \in DeliveryRecord
  BY CountedFields
<1>4. SendCritical(s, kind, gone) = s \/ SendCritical(s, kind, gone) = SendNative(v, n)
  BY DEF SendCritical, Counted
<1> HIDE DEF v, n
<1>5. SendNative(v, n) \in DeliveryRecord
  BY <1>2, <1>3, RecordSend
<1> QED BY <1>4, <1>5

\* And drag metadata
LEMMA RecordDrag ==
  ASSUME NEW s \in DeliveryRecord, NEW seq \in Nat
  PROVE  SendDrag(s, seq) \in DeliveryRecord
<1> DEFINE v == Counted(s)
           n == DragMessage(s.issued + 1, seq)
<1>1. s.issued + 1 \in Nat
  BY RecordTypes
<1>2. n \in Message
  BY <1>1, DragMessages
<1>3. v \in DeliveryRecord
  BY CountedFields
<1>4. SendDrag(s, seq) = s \/ SendDrag(s, seq) = SendNative(v, n)
  BY DEF SendDrag, Counted
<1> HIDE DEF v, n
<1>5. SendNative(v, n) \in DeliveryRecord
  BY <1>2, <1>3, RecordSend
<1> QED BY <1>4, <1>5

\* Drag metadata of a later sequence goes out, or waits in its place; a client
\* that is kept will have read it.
LEMMA TrackDragTo ==
  ASSUME NEW w \in Seq(Message), NEW s \in DeliveryRecord, NEW a,
         NEW o \in Nat, NEW q \in Nat, NEW r \in BOOLEAN, NEW full, NEW qq \in Nat,
         Track(w, s, a, o, q, r, full), Roles(s), Serving(s), q < qq
  PROVE  \E y \in Shown :
           /\ Path(Under(w, SendDrag(s, qq)), a, y, o, r)
           /\ Ends(SendDrag(s, qq), y, o, qq, r, full)
           /\ SendDrag(s, qq).live => y.mode = "over" \/ (y.seq = qq /\ y.drag = qq)
<1>1. PICK z \in Shown :
           /\ Path(Under(w, s), a, z, o, r)
           /\ Fine(z, o, r) /\ z.seq <= q /\ z.crit <= s.issued
           /\ s.live => z.crit = s.issued
           /\ s.subscribed /\ (r \/ (~s.needs /\ (full \/ s.pending))) => Current(z, o, r)
  BY TrackFacts
<1>0. s.issued \in Nat /\ z.crit \in Nat /\ s.issued + 1 \in Nat /\ z.seq < qq /\ z.seq <= qq
  BY <1>1, RecordTypes, ShownTypes
<1>2. CASE ~(s.live /\ ~Closing(s))
  <2>1. ~s.live /\ ~s.subscribed
    BY <1>2 DEF Roles, Serving
  <2>2. Ends(s, z, o, qq, r, full)
    BY <1>0, <1>1, <2>1, EndsGone
  <2> QED BY <1>1, <1>2, <2>1, <2>2 DEF SendDrag
<1>3. CASE s.live /\ ~Closing(s)
  <2> DEFINE u == Counted(s)
             m == DragMessage(s.issued + 1, qq)
  <2>1. SendDrag(s, qq) = SendNative(u, m)
    BY <1>3 DEF SendDrag, Counted
  <2>2. m \in Message /\ ~Snapshot(m) /\ ~Defers(m)
    BY <1>0, DragMessages
  <2>3. m.kind = "drag" /\ m.nth = s.issued + 1 /\ m.seq = qq
    BY <1>0, DragSound
  <2> HIDE DEF u, m
  <2>4. /\ u \in DeliveryRecord
        /\ u.issued = s.issued + 1
        /\ u.live = s.live /\ u.subscribed = s.subscribed
        /\ u.chan = s.chan /\ u.queue = s.queue
        /\ u.pending = s.pending /\ u.needs = s.needs
        /\ u.requested = s.requested
        /\ (Closing(u) <=> Closing(s)) /\ (Engaged(u) <=> Engaged(s))
    BY CountedFields DEF u
  <2>5. Roles(u) /\ Serving(u) /\ Under(w, u) = Under(w, s)
    BY <2>4 DEF Roles, Serving, Under
  <2>6. s.subscribed /\ z.crit + 1 = u.issued /\ z.crit <= u.issued
    BY <1>0, <1>1, <1>3, <2>4 DEF Serving
  <2>7. Numbered(u, m, z)
    BY <2>3, <2>4, <2>6 DEF Numbered
  <2>8. r \/ (~u.needs /\ (full \/ u.pending)) => Current(z, o, r)
    BY <1>1, <2>4, <2>6
  <2>9. \E b : Lands(u, m, z, b, o, qq, r, full)
    BY <1>0, <1>1, <2>2, <2>3, <2>4, <2>7, <2>8, LandsDrag
  <2>10. PICK y \in Shown :
           /\ Path(Under(w, SendNative(u, m)), a, y, o, r)
           /\ Ends(SendNative(u, m), y, o, qq, r, full)
           /\ Defers(m) \/ ~SendNative(u, m).live \/ Lands(u, m, z, y, o, qq, r, full)
    BY <1>0, <1>1, <2>2, <2>4, <2>5, <2>6, <2>9, TrackSendTo
  <2>11. ASSUME Lands(u, m, z, y, o, qq, r, full)
         PROVE  y.mode = "over" \/ (y.seq = qq /\ y.drag = qq)
    BY <2>3, <2>11 DEF Lands, Step, ShowsOutput, DropsOutput, ShowsSnapshot, ShowsDrag, ShowsEnd
  <2> QED BY <2>1, <2>2, <2>10, <2>11
<1> QED BY <1>2, <1>3

\* So the view stays on its path.
LEMMA TrackDrag ==
  ASSUME NEW w \in Seq(Message), NEW s \in DeliveryRecord, NEW a,
         NEW o \in Nat, NEW q \in Nat, NEW r \in BOOLEAN, NEW full, NEW qq \in Nat,
         Track(w, s, a, o, q, r, full), Roles(s), Serving(s), q < qq
  PROVE  Track(w, SendDrag(s, qq), a, o, qq, r, full)
<1>1. \E y \in Shown :
        /\ Path(Under(w, SendDrag(s, qq)), a, y, o, r)
        /\ Ends(SendDrag(s, qq), y, o, qq, r, full)
  BY TrackDragTo
<1> QED BY <1>1 DEF Track

\* An output behind the drag metadata that has overtaken it: the view is torn,
\* or owed a checkpoint.
LEMMA TrackOvertaken ==
  ASSUME NEW w \in Seq(Message), NEW s \in DeliveryRecord, NEW m \in Message, NEW a,
         NEW o \in Nat, NEW q \in Nat,
         Track(w, s, a, o, q, FALSE, TRUE), Roles(s), Serving(s),
         m.kind = "output", m.nth = o + 1, m.seq = q + 1,
         Roles(SendDrag(s, q + 2)), Serving(SendDrag(s, q + 2))
  PROVE  Track(w, SendNative(SendDrag(s, q + 2), m), a, o + 1, q + 2, FALSE, TRUE)
<1> DEFINE r == FALSE
           ff == TRUE
           oo == o + 1
           qq == q + 2
           t == SendDrag(s, qq)
<1>0. oo \in Nat /\ qq \in Nat /\ r \in BOOLEAN /\ o <= oo /\ ~r /\ q < qq /\ q + 1 <= qq
  OBVIOUS
<1>1. t \in DeliveryRecord /\ Roles(t) /\ Serving(t)
  BY <1>0, RecordDrag
<1>2. PICK y \in Shown :
           /\ Path(Under(w, t), a, y, o, r)
           /\ Ends(t, y, o, qq, r, ff)
           /\ t.live => y.mode = "over" \/ (y.seq = qq /\ y.drag = qq)
  <2>1. Track(w, s, a, o, q, r, ff)
    OBVIOUS
  <2> HIDE DEF r, ff, qq
  <2> QED BY <1>0, <2>1, TrackDragTo DEF t
<1> HIDE DEF t
<1>3. y.seq <= qq /\ y.crit <= t.issued /\ (t.live => y.crit = t.issued)
      /\ (t.subscribed /\ ~t.needs => Current(y, o, FALSE))
  BY <1>2 DEF Ends
<1>4. Fine(y, o, FALSE)
  BY <1>1, <1>2, UnderType, PathEnds
<1>5. t.live /\ ~t.needs => \E b : Lands(t, m, y, b, oo, qq, r, ff)
  <2>1. ASSUME t.live, ~t.needs PROVE \E b : Lands(t, m, y, b, o + 1, qq, FALSE, TRUE)
    <3>1. Current(y, o, FALSE) /\ y.crit = t.issued
      BY <1>1, <1>3, <2>1 DEF Serving
    <3>2. y.mode = "over" \/ (m.seq <= y.seq /\ m.seq <= y.drag)
      BY <1>0, <1>2, <2>1
    <3> HIDE DEF qq
    <3> QED BY <1>0, <1>1, <1>3, <1>4, <3>1, <3>2, LandsOvertaken
  <2> QED BY <2>1
<1>6. Path(Under(w, t), a, y, oo, r)
  <2>1. Under(w, t) \in Seq(Message)
    BY <1>1, UnderType
  <2> HIDE DEF r, oo
  <2> QED BY <1>0, <1>2, <2>1, PathLater
<1>7. Defers(m) /\ (ff \/ ~Snapshot(m))
  BY DEF Defers, Replayable, DeltaKinds
<1> HIDE DEF r, ff, oo, qq
<1>8. Track(w, SendNative(t, m), a, oo, qq, r, ff)
  BY <1>0, <1>1, <1>2, <1>3, <1>5, <1>6, <1>7, TrackSend
<1> QED BY <1>8 DEF r, ff, oo, qq, t

\* disconnect
LEMMA TrackDropped ==
  ASSUME NEW w \in Seq(Message), NEW s \in DeliveryRecord, NEW a, NEW o, NEW q \in Nat,
         NEW r, NEW full, Track(w, s, a, o, q, r, full)
  PROVE  Track(w, Disconnected(s), a, o, q, r, TRUE)
<1> DEFINE ff == TRUE
<1> HIDE DEF ff
<1>1. q <= q
  OBVIOUS
<1>2. Track(w, Disconnected(s), a, o, q, r, ff)
  BY <1>1, TrackDisconnected
<1> QED BY <1>2 DEF ff

\* A snapshot, or the record that it was too large
LEMMA TrackSnapshotNow ==
  ASSUME NEW w \in Seq(Message), NEW s \in DeliveryRecord, NEW m \in Message, NEW a,
         NEW o \in Nat, NEW q \in Nat, NEW r \in BOOLEAN, NEW full, NEW fits \in BOOLEAN,
         Track(w, s, a, o, q, r, full), Roles(s), Serving(s), IsCheckpoint(m, o, q, r)
  PROVE  Track(w, SnapshotNow(s, m, fits), a, o, q, r, TRUE)
<1>1. Track(w, SendNative(s, m), a, o, q, r, TRUE)
  BY TrackSnap
<1> DEFINE kind == "aborted"
           gone == FALSE
           ff == TRUE
<1>2. /\ kind \in CriticalKinds \ {"drag"} /\ gone \in BOOLEAN
      /\ (gone => r /\ kind # "critical")
      /\ (ff => full \/ kind # "critical")
  BY DEF CriticalKinds
<1> HIDE DEF kind, gone, ff
<1>3. Track(w, SendCritical(s, kind, gone), a, o, q, r, ff)
  BY <1>2, TrackCritical
<1> QED BY <1>1, <1>3 DEF SnapshotNow, kind, gone, ff

\* The fields that no view depends on
LEMMA TrackSame ==
  ASSUME NEW w, NEW s, NEW t, NEW a, NEW o, NEW q, NEW r, NEW full, NEW ff,
         Track(w, s, a, o, q, r, full),
         t.chan = s.chan, t.queue = s.queue, t.issued = s.issued, t.live = s.live,
         t.subscribed = s.subscribed, Engaged(t) <=> Engaged(s),
         ~t.needs /\ (ff \/ t.pending) => ~s.needs /\ (full \/ s.pending)
  PROVE  Track(w, t, a, o, q, r, ff)
<1>1. PICK z \in Shown : Path(Under(w, s), a, z, o, r) /\ Ends(s, z, o, q, r, full)
  BY DEF Track
<1>2. Under(w, t) = Under(w, s)
  BY DEF Under
<1>3. Ends(t, z, o, q, r, ff)
  BY <1>1 DEF Ends
<1> QED BY <1>1, <1>2, <1>3 DEF Track

\* send_snapshot: the view is current, or still owed what it asked for.
LEMMA TrackSendSnapshot ==
  ASSUME NEW w \in Seq(Message), NEW s \in DeliveryRecord, NEW m \in Message, NEW a,
         NEW o \in Nat, NEW q \in Nat, NEW r \in BOOLEAN, NEW full, NEW fits \in BOOLEAN,
         Track(w, s, a, o, q, r, full), Roles(s), Serving(s), IsCheckpoint(m, o, q, r)
  PROVE  Track(w, SendSnapshot(s, m, fits), a, o, q, r, TRUE)
<1> DEFINE ff == TRUE
<1>1. CASE ~s.live
  <2>1. ~s.subscribed
    BY <1>1 DEF Roles
  <2>2. Track(w, s, a, o, q, r, ff)
    <3> HIDE DEF ff
    <3>1. o <= o /\ q <= q /\ (r => r /\ o = o)
      OBVIOUS
    <3> QED BY <2>1, <3>1, TrackLater
  <2> QED BY <1>1, <2>2 DEF SendSnapshot
<1>2. CASE s.live /\ s.pending
  <2> DEFINE t == Requested(s)
  <2>1. SendSnapshot(s, m, fits) = t
    BY <1>2 DEF SendSnapshot, Requested
  <2> HIDE DEF t
  <2>2. /\ t \in DeliveryRecord
        /\ t.live = s.live /\ t.subscribed = s.subscribed
        /\ t.chan = s.chan /\ t.queue = s.queue /\ t.issued = s.issued
        /\ t.pending = s.pending /\ t.needs = s.needs
        /\ (Engaged(t) <=> Engaged(s))
    BY RequestedFields DEF t
  <2>3. ~t.needs /\ (ff \/ t.pending) => ~s.needs /\ (full \/ s.pending)
    BY <1>2, <2>2
  <2> HIDE DEF ff
  <2>4. Track(w, t, a, o, q, r, ff)
    BY <2>2, <2>3, TrackSame
  <2> QED BY <2>1, <2>4 DEF ff
<1>3. CASE s.live /\ ~s.pending /\ HasPending(s)
  <2> DEFINE t == OweSnapshot(s)
  <2>1. SendSnapshot(s, m, fits) = t
    BY <1>3 DEF SendSnapshot, Serving, Roles
  <2> HIDE DEF t
  <2>2. /\ t \in DeliveryRecord
        /\ t.live = s.live /\ t.subscribed = s.subscribed
        /\ t.chan = s.chan /\ t.queue = s.queue /\ t.issued = s.issued
        /\ t.needs
        /\ (Engaged(t) <=> Engaged(s))
    BY OwedFields DEF t
  <2>3. ~t.needs /\ (ff \/ t.pending) => ~s.needs /\ (full \/ s.pending)
    BY <2>2
  <2> HIDE DEF ff
  <2>4. Track(w, t, a, o, q, r, ff)
    BY <2>2, <2>3, TrackSame
  <2> QED BY <2>1, <2>4 DEF ff
<1>4. CASE s.live /\ ~s.pending /\ ~HasPending(s)
  <2>1. SendSnapshot(s, m, fits) = SnapshotNow(s, m, fits)
    BY <1>4 DEF SendSnapshot
  <2>2. Track(w, SnapshotNow(s, m, fits), a, o, q, r, TRUE)
    BY TrackSnapshotNow
  <2> QED BY <2>1, <2>2
<1> QED BY <1>1, <1>2, <1>3, <1>4

\* SnapshotSent
LEMMA TrackSent ==
  ASSUME NEW w \in Seq(Message), NEW s \in DeliveryRecord, NEW m \in Message, NEW a,
         NEW o \in Nat, NEW q \in Nat, NEW r \in BOOLEAN, NEW fits \in BOOLEAN,
         Track(w, s, a, o, q, r, TRUE), Roles(s), IsCheckpoint(m, o, q, r)
  PROVE  Track(w, SnapshotSent(s, m, fits), a, o, q, r, TRUE)
<1> DEFINE u == Acked(s)
           ff == TRUE
<1> HIDE DEF u
<1>1. /\ u \in DeliveryRecord
      /\ ~u.requested /\ ~u.pending
      /\ u.live = s.live /\ u.subscribed = s.subscribed
      /\ u.chan = s.chan /\ u.queue = s.queue /\ u.issued = s.issued
      /\ u.needs = s.needs
      /\ (Closing(u) <=> Closing(s)) /\ (Engaged(u) <=> Engaged(s))
  BY AckedFields DEF u
<1>2. ~u.needs /\ (ff \/ u.pending) => ~s.needs /\ (ff \/ s.pending)
  BY <1>1
<1>3. Track(w, u, a, o, q, r, TRUE)
  <2> HIDE DEF ff
  <2>1. Track(w, s, a, o, q, r, ff)
    BY DEF ff
  <2>2. Track(w, u, a, o, q, r, ff)
    BY <1>1, <1>2, <2>1, TrackSame
  <2> QED BY <2>2 DEF ff
<1>4. Roles(u)
  BY <1>1 DEF Roles
<1>5. s.requested => Track(w, SendSnapshot(u, m, fits), a, o, q, r, TRUE)
  <2>1. s.requested => Serving(u)
    BY <1>1 DEF Roles, Serving
  <2> QED BY <1>1, <1>3, <1>4, <2>1, TrackSendSnapshot
<1>6. SnapshotSent(s, m, fits) = IF s.requested THEN SendSnapshot(u, m, fits) ELSE u
  BY DEF SnapshotSent, u, Acked
<1> QED BY <1>3, <1>5, <1>6

\* disconnect_after_native_delivery
LEMMA TrackAfterDelivery ==
  ASSUME NEW w \in Seq(Message), NEW s \in DeliveryRecord, NEW a,
         NEW o \in Nat, NEW q \in Nat, NEW r \in BOOLEAN, NEW full,
         Track(w, s, a, o, q, r, full)
  PROVE  Track(w, DisconnectAfterDelivery(s), a, o, q, r, TRUE)
<1> DEFINE t == Draining(s)
<1> HIDE DEF t
<1>1. /\ t \in DeliveryRecord
      /\ ~t.subscribed /\ Engaged(t)
      /\ t.live = s.live /\ t.chan = s.chan /\ t.queue = s.queue /\ t.issued = s.issued
  BY DrainingFields DEF t
<1>2. PICK z \in Shown : Path(Under(w, s), a, z, o, r) /\ Ends(s, z, o, q, r, full)
  BY DEF Track
<1>3. Under(w, t) = Under(w, s)
  BY <1>1 DEF Under
<1>4. Ends(t, z, o, q, r, TRUE)
  BY <1>1, <1>2 DEF Ends
<1>5. Track(w, t, a, o, q, r, TRUE)
  BY <1>2, <1>3, <1>4 DEF Track
<1>6. Track(w, Disconnected(s), a, o, q, r, TRUE)
  BY TrackDropped
<1>7. DisconnectAfterDelivery(s) = IF s.queue # <<>> THEN t ELSE Disconnected(s)
  BY DEF DisconnectAfterDelivery, t, Draining
<1> QED BY <1>5, <1>6, <1>7

\* One step of flush_native
LEMMA TrackMoved ==
  ASSUME NEW w \in Seq(Message), NEW s, GoodRecord(s), HeadMoves(s), NEW a,
         NEW o, NEW q, NEW r, Track(w, s, a, o, q, r, TRUE)
  PROVE  Track(w, MoveHead(s), a, o, q, r, TRUE)
<1> DEFINE t == MoveHead(s)
<1> HIDE DEF t
<1>1. /\ t \in DeliveryRecord
      /\ s.queue # <<>>
      /\ t.chan = Append(s.chan, Head(s.queue)) /\ t.queue = Tail(s.queue)
      /\ t.live = s.live /\ t.subscribed = s.subscribed
      /\ t.needs = s.needs /\ t.issued = s.issued
      /\ (Engaged(t) <=> Engaged(s))
  BY MovedFields DEF t
<1>2. s \in DeliveryRecord
  BY GoodFields DEF GoodRecord
<1>3. s.chan \in Seq(Message) /\ s.queue \in Seq(Message)
  BY <1>2, RecordTypes
<1>4. Under(w, t) = Under(w, s)
  <2>1. w \o Append(s.chan, Head(s.queue)) \o Tail(s.queue) = w \o s.chan \o s.queue
    BY <1>1, <1>3, UnderMoved
  <2> QED BY <1>1, <2>1 DEF Under
<1>5. PICK z \in Shown : Path(Under(w, s), a, z, o, r) /\ Ends(s, z, o, q, r, TRUE)
  BY DEF Track
<1>6. Ends(t, z, o, q, r, TRUE)
  BY <1>1, <1>5 DEF Ends
<1>7. Track(w, t, a, o, q, r, TRUE)
  BY <1>4, <1>5, <1>6 DEF Track
<1> QED BY <1>7 DEF t

\* The debt is paid with a checkpoint of the engine as it is now, not as it
\* was when the debt arose.
LEMMA TrackRecover ==
  ASSUME NEW w \in Seq(Message), NEW s \in DeliveryRecord, NEW m \in Message, NEW a,
         NEW o \in Nat, NEW q \in Nat, NEW r \in BOOLEAN, NEW fits \in BOOLEAN,
         Track(w, s, a, o, q, r, TRUE), Roles(s), IsCheckpoint(m, o, q, r),
         s.needs, ~s.pending, s.queue = <<>>
  PROVE  Track(w, Recover(s, m, fits), a, o, q, r, TRUE)
<1> DEFINE u == Cleared(s)
           ff == FALSE
           full == TRUE
<1> HIDE DEF u
<1>1. /\ u \in DeliveryRecord
      /\ ~u.requested /\ ~u.needs /\ u.queue = <<>>
      /\ u.live = s.live /\ u.subscribed = s.subscribed
      /\ u.chan = s.chan /\ u.pending = s.pending /\ u.issued = s.issued
      /\ (Closing(u) <=> Closing(s)) /\ (Engaged(u) <=> Engaged(s))
  BY ClearedFields DEF u
<1>2. ~u.needs /\ (ff \/ u.pending) => ~s.needs /\ (full \/ s.pending)
  BY <1>1
<1>3. Track(w, u, a, o, q, r, ff)
  <2>1. Track(w, s, a, o, q, r, full)
    OBVIOUS
  <2>2. u.queue = s.queue
    BY <1>1
  <2> HIDE DEF ff, full
  <2> QED BY <1>1, <1>2, <2>1, <2>2, TrackSame
<1>4. Roles(u) /\ Serving(u)
  BY <1>1 DEF Roles, Serving
<1> HIDE DEF ff
<1>5. Track(w, SnapshotNow(u, m, fits), a, o, q, r, TRUE)
  BY <1>1, <1>3, <1>4, TrackSnapshotNow
<1>6. SnapshotNow(u, m, fits) \in DeliveryRecord
  <2>1. "aborted" \in CriticalKinds /\ FALSE \in BOOLEAN
    BY DEF CriticalKinds
  <2>2. SendNative(u, m) \in DeliveryRecord
    BY <1>1, RecordSend
  <2>3. SendCritical(u, "aborted", FALSE) \in DeliveryRecord
    BY <1>1, <2>1, RecordCritical
  <2> QED BY <2>2, <2>3 DEF SnapshotNow
<1>7. Track(w, Disconnected(SnapshotNow(u, m, fits)), a, o, q, r, TRUE)
  <2> DEFINE v == SnapshotNow(u, m, fits)
  <2> HIDE DEF v
  <2>1. v \in DeliveryRecord /\ Track(w, v, a, o, q, r, TRUE)
    BY <1>5, <1>6 DEF v
  <2>2. Track(w, Disconnected(v), a, o, q, r, TRUE)
    BY <2>1, TrackDropped
  <2> QED BY <2>2 DEF v
<1>8. \/ Recover(s, m, fits) = SnapshotNow(u, m, fits)
      \/ Recover(s, m, fits) = Disconnected(SnapshotNow(u, m, fits))
  BY DEF Recover, u, Cleared
<1> QED BY <1>5, <1>7, <1>8

\* A client outside the session sees nothing of a pane that goes away.
LEMMA TrackRemoved ==
  ASSUME NEW w \in Seq(Message), NEW s \in DeliveryRecord, NEW a,
         NEW o \in Nat, NEW q \in Nat, NEW qq \in Nat,
         Track(w, s, a, o, q, FALSE, TRUE), ~s.subscribed, q <= qq
  PROVE  Track(w, s, a, o, qq, TRUE, TRUE)
<1>1. PICK z \in Shown : Path(Under(w, s), a, z, o, FALSE) /\ Ends(s, z, o, q, FALSE, TRUE)
  BY DEF Track
<1> DEFINE r == FALSE
           rr == TRUE
<1>0. r \in BOOLEAN /\ rr \in BOOLEAN /\ ~r /\ rr /\ o <= o /\ (r => rr /\ o = o)
  OBVIOUS
<1>2. Path(Under(w, s), a, z, o, rr)
  <2> HIDE DEF r, rr
  <2>1. Path(Under(w, s), a, z, o, r)
    BY <1>1 DEF r
  <2> QED BY <1>0, <2>1, UnderType, PathLater
<1>3. z.seq <= qq
  BY <1>1, ShownTypes DEF Ends
<1>4. Ends(s, z, o, qq, TRUE, TRUE)
  BY <1>1, <1>3 DEF Ends
<1> QED BY <1>2, <1>4 DEF Track

\* A client outside the session sees nothing of a pane that goes on.
LEMMA TrackGrows ==
  ASSUME NEW w \in Seq(Message), NEW s \in DeliveryRecord, NEW a,
         NEW o \in Nat, NEW q \in Nat,
         Track(w, s, a, o, q, FALSE, TRUE), ~s.subscribed, NEW qq \in Nat, q <= qq
  PROVE  Track(w, s, a, o + 1, qq, FALSE, TRUE)
<1>1. PICK z \in Shown : Path(Under(w, s), a, z, o, FALSE) /\ Ends(s, z, o, q, FALSE, TRUE)
  BY DEF Track
<1> DEFINE r == FALSE
           oo == o + 1
<1>0. r \in BOOLEAN /\ oo \in Nat /\ o <= oo /\ (r => r /\ oo = o)
  OBVIOUS
<1>2. Path(Under(w, s), a, z, oo, r)
  <2> HIDE DEF r, oo
  <2>1. Path(Under(w, s), a, z, o, r)
    BY <1>1 DEF r
  <2> QED BY <1>0, <2>1, UnderType, PathLater
<1>3. z.seq <= qq
  BY <1>1, ShownTypes DEF Ends
<1>4. Ends(s, z, o + 1, qq, FALSE, TRUE)
  BY <1>1, <1>3 DEF Ends
<1> QED BY <1>2, <1>4 DEF Track

\* The frozen checkpoint brings every subscribed view to the end of the pane.
LEMMA TrackBarrier ==
  ASSUME NEW w \in Seq(Message), NEW s \in DeliveryRecord, NEW m \in Message, NEW a,
         NEW o \in Nat, NEW q \in Nat, NEW qq \in Nat, NEW fits \in BOOLEAN,
         Track(w, s, a, o, q, FALSE, TRUE), Roles(s), IsCheckpoint(m, o, q, FALSE),
         q <= qq
  PROVE  Track(w, FinalNativeBarrier(s, m, fits), a, o, qq, TRUE, TRUE)
<1> DEFINE r == FALSE
           rr == TRUE
           t == FinalNativeBarrier(s, m, fits)
<1>0. r \in BOOLEAN /\ rr \in BOOLEAN /\ ~r /\ rr /\ o <= o /\ (r => rr /\ o = o)
  OBVIOUS
<1>1. PICK z \in Shown :
           /\ Path(Under(w, s), a, z, o, r)
           /\ Fine(z, o, r) /\ z.seq <= q /\ z.crit <= s.issued
           /\ s.live => z.crit = s.issued
           /\ s.subscribed /\ (r \/ (~s.needs /\ (rr \/ s.pending))) => Current(z, o, r)
           /\ Ends(s, z, o, q, r, rr)
  <2>1. Track(w, s, a, o, q, r, rr)
    OBVIOUS
  <2> HIDE DEF r, rr
  <2> QED BY <2>1, TrackFacts
<1>2. z.seq <= qq
  BY <1>1, ShownTypes
<1>3. \A b : Current(b, o, r) => Current(b, o, rr)
  BY DEF Current
<1>4. Path(Under(w, s), a, z, o, rr)
  <2> HIDE DEF r, rr
  <2> QED BY <1>0, <1>1, UnderType, PathLater
<1>5. CASE ~(s.needs /\ ~Closing(s))
  <2>1. t = s
    BY <1>5 DEF FinalNativeBarrier
  <2>2. s.subscribed => Current(z, o, rr)
    BY <1>1, <1>3, <1>5 DEF Roles
  <2>3. Ends(s, z, o, qq, rr, rr)
    BY <1>1, <1>2, <2>2 DEF Ends
  <2> QED BY <1>4, <2>1, <2>3 DEF Track
<1>6. Track(w, Disconnected(s), a, o, qq, rr, rr)
  <2>1. Track(w, Disconnected(s), a, o, q, FALSE, TRUE)
    BY TrackDropped
  <2>2. Disconnected(s) \in DeliveryRecord /\ ~Disconnected(s).subscribed
    BY DisconnectedFields
  <2> QED BY <2>1, <2>2, TrackRemoved
<1>7. CASE s.needs /\ ~Closing(s) /\ t = Queued(s, m)
  <2>0. s.live /\ Engaged(s)
    BY <1>7 DEF Roles, Engaged
  <2>1. PICK b : Lands(s, m, z, b, o, q, r, rr) /\ Current(b, o, r)
    <3>1. z.crit = s.issued /\ (r => Current(z, o, r)) /\ IsCheckpoint(m, o, q, r)
      BY <1>1, <2>0
    <3>2. \E b : Lands(s, m, z, b, o, q, r, TRUE) /\ Current(b, o, r)
      <4> HIDE DEF r, rr
      <4> QED BY <1>0, <1>1, <3>1, LandsSnapshot, ZenonT(120)
    <3> QED BY <3>2
  <2> DEFINE u == Queued(s, m)
  <2> HIDE DEF u
  <2>2. /\ u \in DeliveryRecord
        /\ u.queue = Append(s.queue, m)
        /\ u.chan = s.chan /\ u.issued = s.issued
        /\ (Engaged(u) <=> Engaged(s))
    BY QueuedFields DEF u
  <2>3. Under(w, u) = Append(Under(w, s), m)
    BY <2>2, UnderAppend
  <2>4. Path(Under(w, u), a, b, o, r)
    <3> HIDE DEF r, rr
    <3>1. b \in Shown /\ Step(z, m, b, o, r) /\ Fine(b, o, r)
      BY <2>1 DEF Lands
    <3> QED BY <1>1, <2>3, <3>1, UnderType, PathAppend
  <2>5. Path(Under(w, u), a, b, o, rr)
    <3> HIDE DEF r, rr
    <3> QED BY <1>0, <2>2, <2>4, UnderType, PathLater
  <2>6. b.seq <= qq /\ b.crit = u.issued /\ b \in Shown
    BY <2>1, <2>2, ShownTypes DEF Lands
  <2>7. Ends(u, b, o, qq, rr, rr)
    <3>1. Engaged(u) /\ Current(b, o, rr) /\ u.issued \in Nat
      BY <1>3, <2>0, <2>1, <2>2, RecordTypes
    <3> HIDE DEF r, rr
    <3> QED BY <2>6, <3>1, EndsLive
  <2>8. Track(w, u, a, o, qq, rr, rr)
    BY <2>5, <2>6, <2>7 DEF Track
  <2> QED BY <1>7, <2>8 DEF u
<1>8. t = Disconnected(s) \/ t = s \/ t = Queued(s, m)
  BY DEF FinalNativeBarrier, QueueNative, Queued
<1>9. s.needs /\ ~Closing(s) => t = Disconnected(s) \/ t = Queued(s, m)
  BY DEF FinalNativeBarrier, QueueNative, Queued
<1> QED BY <1>5, <1>6, <1>7, <1>9

-----------------------------------------------------------------------------

\* Every set of numbers has a least one.
LEMMA LeastOf ==
  ASSUME NEW S, S \subseteq Nat, S # {}
  PROVE  \E x \in S : \A y \in S : x <= y
<1>1. PICK x \in S : \A y \in S : <<y, x>> \notin OpToRel(<, Nat)
  BY NatLessThanWellFounded, WFMin
<1>2. \A y \in S : ~ (y < x)
  BY <1>1, Zenon DEF OpToRel
<1>3. \A y \in S : x <= y
  BY <1>2, SMT
<1> QED BY <1>3

\* The messages the owner numbers
TakesNumber(m) == m.kind \in CriticalKinds

\* The critical messages on a path are numbered without gap or repetition.
LEMMA PathCriticals ==
  ASSUME NEW p \in Seq(Message), NEW a \in Shown, NEW z \in Shown, NEW o, NEW r,
         Path(p, a, z, o, r)
  PROVE  /\ \A i, j \in 1..Len(p) :
              TakesNumber(p[i]) /\ TakesNumber(p[j]) /\ i < j => p[i].nth < p[j].nth
         /\ \A i \in 1..Len(p) : TakesNumber(p[i]) => p[i].nth \in (a.crit + 1)..z.crit
         /\ \A k \in (a.crit + 1)..z.crit :
              \E i \in 1..Len(p) : TakesNumber(p[i]) /\ p[i].nth = k
<1> DEFINE n == Len(p)
<1>1. n \in Nat
  OBVIOUS
<1>2. PICK f \in [0..n -> Shown] : Replays(f, p, o, r) /\ f[0] = a /\ f[n] = z
  BY DEF Path
<1>3. \A i \in 1..n : Counts(f[i - 1], p[i], f[i])
  BY <1>2 DEF Replays, Step
<1>4. \A i, j \in 0..n : i <= j => f[i].crit <= f[j].crit
  BY <1>2 DEF Replays
<1> HIDE DEF n
<1>5. \A i \in 0..n : f[i] \in Shown /\ f[i].crit \in Nat
  BY <1>2, ShownTypes
<1>6. \A i \in 1..n : i \in 0..n /\ i - 1 \in 0..n /\ 0 <= i - 1 /\ i <= n /\ 0 <= i
  BY <1>1
<1>7. 0 \in 0..n /\ n \in 0..n
  BY <1>1
<1>8. ASSUME NEW i \in 1..n, TakesNumber(p[i])
      PROVE  p[i].nth = f[i].crit /\ f[i].crit = f[i - 1].crit + 1
  BY <1>3, <1>8 DEF Counts, TakesNumber
<1>9. ASSUME NEW i \in 1..n, NEW j \in 1..n, TakesNumber(p[i]), TakesNumber(p[j]), i < j
      PROVE  p[i].nth < p[j].nth
  <2>1. p[i].nth = f[i].crit /\ p[j].nth = f[j].crit /\ f[j].crit = f[j - 1].crit + 1
    BY <1>8, <1>9
  <2>2. i <= j - 1
    BY <1>1, <1>9
  <2>3. f[i].crit <= f[j - 1].crit
    BY <1>4, <1>6, <2>2
  <2>4. f[i].crit \in Nat /\ f[j - 1].crit \in Nat
    BY <1>5, <1>6
  <2> QED BY <2>1, <2>3, <2>4
<1>10. ASSUME NEW i \in 1..n, TakesNumber(p[i]) PROVE p[i].nth \in (a.crit + 1)..z.crit
  <2>1. p[i].nth = f[i].crit /\ f[i].crit = f[i - 1].crit + 1
    BY <1>8, <1>10
  <2>2. a.crit <= f[i - 1].crit /\ f[i].crit <= z.crit
    BY <1>2, <1>4, <1>6, <1>7
  <2>3. f[i].crit \in Nat /\ f[i - 1].crit \in Nat /\ a.crit \in Nat /\ z.crit \in Nat
    BY <1>5, <1>6, ShownTypes
  <2> QED BY <2>1, <2>2, <2>3, SMTT(60)
<1>11. ASSUME NEW k \in (a.crit + 1)..z.crit
       PROVE  \E i \in 1..n : TakesNumber(p[i]) /\ p[i].nth = k
  <2>0. a.crit \in Nat /\ z.crit \in Nat
    BY ShownTypes
  <2>00. k \in Nat /\ a.crit < k /\ k <= z.crit
    BY <2>0
  <2> DEFINE S == {i \in 0..n : f[i].crit >= k}
  <2>1. S \subseteq Nat /\ n \in S
    BY <1>2, <1>7, <2>00
  <2>2. PICK i \in S : \A y \in S : i <= y
    BY <2>1, LeastOf
  <2>3. i \in 0..n /\ f[i].crit >= k
    BY <2>2
  <2>4. i # 0
    BY <1>2, <2>0, <2>00, <2>3
  <2>5. i \in 1..n
    BY <1>1, <2>3, <2>4
  <2>6. f[i - 1].crit < k
    <3>1. i - 1 \notin S
      BY <1>1, <2>2, <2>5
    <3> QED BY <1>5, <1>6, <2>00, <2>5, <3>1
  <2>7. Counts(f[i - 1], p[i], f[i])
    BY <1>3, <2>5
  <2>8. f[i].crit \in Nat /\ f[i - 1].crit \in Nat
    BY <1>5, <1>6, <2>5
  <2>9. TakesNumber(p[i])
    BY <2>00, <2>3, <2>6, <2>7, <2>8 DEF Counts, TakesNumber
  <2>10. p[i].nth = k
    BY <1>8, <2>00, <2>3, <2>5, <2>6, <2>8, <2>9, SMTT(60)
  <2> QED BY <2>5, <2>9, <2>10
<1> QED BY <1>9, <1>10, <1>11 DEF n
=============================================================================
