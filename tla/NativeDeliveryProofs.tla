------------------------ MODULE NativeDeliveryProofs ------------------------
(***************************************************************************)
(* Proofs about NativeDelivery, for every number of clients and every      *)
(* value of the limits: its type and its budgets, then that it shows every *)
(* view a true history of its pane.                                        *)
(*                                                                         *)
(* The invariant of the first part is TypeOK together with GoodRecord      *)
(* (DeliveryQueueProofs) of every client.  That of the second has two      *)
(* layers.  RolesInv keeps every record Steady: its roles exclude each     *)
(* other and the owner's note of an outstanding snapshot is exact, also    *)
(* while a flush stands between two clients.  FollowInv says that every    *)
(* view is on its Track: replaying what is under way (wire, channel,       *)
(* queue) over what the view shows leads, through states the pane went     *)
(* through, to the engine's present state, or the owner still owes the     *)
(* client a snapshot.  Each action is one operation of                     *)
(* DeliveryQueueProofs, or a message that moves along the pipeline.        *)
(***************************************************************************)
EXTENDS NativeDelivery, DeliveryQueueProofs, FiniteSetTheorems

AllGood(f) ==
  /\ f \in [Clients -> DeliveryRecord]
  /\ \A c \in Clients : GoodRecord(f[c])

\* Everything but the delivery records.
RestOK ==
  /\ engine \in Engine
  /\ flush \in Flush
  /\ cursor \in Nat
  /\ writer \in [Clients -> {"idle", "acking", "gone"}]
  /\ wire \in [Clients -> Seq(Message)]
  /\ sentAcks \in SUBSET Clients
  /\ peer \in [Clients -> {"away", "open", "closed"}]
  /\ asked \in [Clients -> Nat]
  /\ view \in [Clients -> View]

IInv == AllGood(d) /\ RestOK

-----------------------------------------------------------------------------
(* What the owner sends *)

\* A PaneOutput takes the same room on the channel and in the queue.
LEMMA OutputSound ==
  ASSUME NEW e \in Engine, NEW size \in Nat
  PROVE  OutputMessage(e, size) \in SoundMessage
  BY DEF OutputMessage, Engine, SoundMessage, Message, Kinds, DeltaKinds, Header

\* A Changed notice takes the same room on the channel and in the queue.
LEMMA ChangedSound ==
  ASSUME NEW e \in Engine
  PROVE  ChangedMessage(e) \in SoundMessage
  BY DEF ChangedMessage, Engine, SoundMessage, Message, Kinds, DeltaKinds, Header

\* A checkpoint takes at least as much room in the queue as on the channel.
LEMMA CheckpointSound ==
  ASSUME NEW e \in Engine
  PROVE  /\ Checkpoint(e) \in SoundMessage
         /\ Fits(e) \in BOOLEAN /\ FitsBarrier(e) \in BOOLEAN
  BY DEF Checkpoint, Fits, FitsBarrier, Engine, SoundMessage, Message, Kinds, Header

\* A broadcast keeps every client's record within the limits.
LEMMA BroadcastGood ==
  ASSUME NEW f, AllGood(f), NEW m \in SoundMessage
  PROVE  AllGood(Broadcast(f, m))
<1>1. \A c \in Clients : GoodRecord(SendNative(f[c], m)) /\ GoodRecord(f[c])
  BY SendNativeGood DEF AllGood
<1>2. \A c \in Clients : GoodRecord(Broadcast(f, m)[c])
  BY <1>1 DEF Broadcast
<1> QED BY <1>2 DEF AllGood, Broadcast, GoodRecord

\* So does drag metadata.
LEMMA PublishGood ==
  ASSUME NEW f, AllGood(f), NEW these, NEW seq \in Nat
  PROVE  AllGood(PublishDrag(f, these, seq))
<1>1. \A c \in Clients : GoodRecord(SendDrag(f[c], seq)) /\ GoodRecord(f[c])
  BY SendDragGood DEF AllGood
<1>2. \A c \in Clients : GoodRecord(PublishDrag(f, these, seq)[c])
  BY <1>1 DEF PublishDrag
<1> QED BY <1>2 DEF AllGood, PublishDrag, GoodRecord

\* One client's record changes.
LEMMA UpdateGood ==
  ASSUME AllGood(d), NEW c \in Clients, NEW r, GoodRecord(r),
         d' = [d EXCEPT ![c] = r]
  PROVE  AllGood(d')
<1>1. \A b \in Clients : d'[b] = IF b = c THEN r ELSE d[b]
  BY DEF AllGood
<1>2. d' \in [Clients -> DeliveryRecord]
  BY DEF AllGood, GoodRecord
<1> QED BY <1>1, <1>2 DEF AllGood

\* Taking a message out of the channel.
LEMMA TakeHeadGood ==
  ASSUME NEW s, GoodRecord(s), s.chan # <<>>
  PROVE  GoodRecord(TakeHead(s)) /\ Head(s.chan) \in Message
<1> DEFINE freed == Head(s.chan).bytes
           t == TakeHead(s)
<1>1. /\ s \in DeliveryRecord /\ s.bytes \in Nat /\ s.chan \in Seq(Message)
      /\ Len(s.chan) \in Nat /\ Len(s.chan) <= ChannelCap
  BY GoodFields
<1>2. Head(s.chan) \in Message /\ Tail(s.chan) \in Seq(Message)
      /\ Len(Tail(s.chan)) = Len(s.chan) - 1
  BY <1>1
<1>3. freed \in Nat
  BY <1>2 DEF Message
<1>4. (IF s.bytes > freed THEN s.bytes - freed ELSE 0) \in 0..s.bytes
  BY <1>1, <1>3
<1>5. /\ t \in DeliveryRecord /\ t.queue = s.queue /\ t.held = s.held
      /\ t.chan = Tail(s.chan)
      /\ t.bytes = IF s.bytes > freed THEN s.bytes - freed ELSE 0
  <2> DEFINE left == IF s.bytes > freed THEN s.bytes - freed ELSE 0
  <2>1. t = [s EXCEPT !.chan = Tail(s.chan), !.bytes = left]
    BY DEF TakeHead
  <2>2. left \in Nat
    BY <1>1, <1>4
  <2> HIDE DEF left
  <2>3. t \in DeliveryRecord
    BY <1>1, <1>2, <2>1, <2>2 DEF DeliveryRecord
  <2>4. t.queue = s.queue /\ t.held = s.held /\ t.chan = Tail(s.chan) /\ t.bytes = left
    BY <1>1, <2>1 DEF DeliveryRecord
  <2> QED BY <2>3, <2>4 DEF left
<1>6. Len(t.chan) <= ChannelCap /\ t.bytes <= s.bytes
  BY <1>1, <1>2, <1>4, <1>5, DeliveryAssumption
<1> QED BY <1>2, <1>5, <1>6, SameQueueGood

-----------------------------------------------------------------------------
(* The view *)

\* The fields of an engine, for the steps that read only some of them.
LEMMA EngineFields ==
  ASSUME NEW e \in Engine
  PROVE  e.seq \in Nat /\ e.outs \in Nat /\ e.changedAt \in Nat /\ e.weight \in Nat
         /\ e.pane \in {"running", "dead", "removed"}
  BY DEF Engine

\* Whatever a view reads, it stays a view.
LEMMA ApplyType ==
  ASSUME NEW v \in View, NEW m \in Message
  PROVE  Apply(v, m) \in View
<1>1. m.kind \in Kinds /\ m.seq \in Nat /\ m.nth \in Nat /\ m.gone \in BOOLEAN
  BY DEF Message
<1>2. Prefix(m.nth) \in Seq(Nat) /\ Append(v.shown, m.nth) \in Seq(Nat)
  BY <1>1 DEF Prefix, View
<1>3. Refresh(v) \in View
  BY DEF Refresh, View
<1>4. ApplyOutput(v, m) \in View
  <2>1. [v EXCEPT !.seq = m.seq, !.shown = Append(@, m.nth)] \in View
    BY <1>1, <1>2 DEF View
  <2>2. Refresh([v EXCEPT !.seq = m.seq]) \in View
    BY <1>1 DEF View, Refresh
  <2>3. v.seq \in Nat
    BY DEF View
  <2>4. CASE m.seq <= v.seq
    <3> DEFINE torn == v.torn \/ m.seq <= v.drag
    <3>1. torn \in BOOLEAN
      OBVIOUS
    <3>2. ApplyOutput(v, m) = [v EXCEPT !.torn = torn]
      BY <1>1, <2>3, <2>4 DEF ApplyOutput
    <3> HIDE DEF torn
    <3> QED BY <3>1, <3>2 DEF View
  <2>5. CASE m.seq > v.seq /\ v.pane = "open"
    BY <1>1, <2>1, <2>3, <2>5 DEF ApplyOutput
  <2>6. CASE m.seq > v.seq /\ v.pane # "open"
    BY <1>1, <2>2, <2>3, <2>6 DEF ApplyOutput
  <2> QED BY <1>1, <2>3, <2>4, <2>5, <2>6
<1>5. ApplySnapshot(v, m) \in View
  <2> DEFINE r == [v EXCEPT !.seq = m.seq, !.base = m.seq, !.refresh = FALSE]
  <2>1. r \in View
    BY <1>1 DEF View
  <2>2. [r EXCEPT !.pane = "open", !.torn = FALSE, !.shown = Prefix(m.nth)] \in View
    <3> HIDE DEF r
    <3> QED BY <1>2, <2>1 DEF View
  <2>3. [r EXCEPT !.pane = "closed"] \in View
    <3> HIDE DEF r
    <3> QED BY <2>1 DEF View
  <2> QED BY <1>1, <2>1, <2>2, <2>3 DEF ApplySnapshot
<1>6. CASE m.kind \in {"critical", "aborted", "final"}
  BY <1>1, <1>6 DEF Apply, View
<1>10. ApplyDrag(v, m) \in View
  <2> DEFINE read  == [v EXCEPT !.crit = m.nth]
             moved == [read EXCEPT !.seq = m.seq, !.drag = m.seq]
  <2>1. read \in View
    BY <1>1 DEF View
  <2>2. moved \in View
    <3> HIDE DEF read
    <3> QED BY <1>1, <2>1 DEF View
  <2>3. Refresh(moved) \in View
    <3> HIDE DEF moved
    <3> QED BY <2>2 DEF Refresh, View
  <2>4. v.seq \in Nat /\ (m.seq <= v.seq \/ m.seq > v.seq)
    BY <1>1 DEF View
  <2>5. CASE m.seq <= v.seq
    BY <1>1, <2>1, <2>4, <2>5 DEF ApplyDrag
  <2>6. CASE m.seq > v.seq /\ v.pane = "open"
    BY <1>1, <2>2, <2>4, <2>6 DEF ApplyDrag
  <2>7. CASE m.seq > v.seq /\ v.pane # "open"
    BY <1>1, <2>3, <2>4, <2>7 DEF ApplyDrag
  <2> QED BY <2>4, <2>5, <2>6, <2>7
<1>11. CASE m.kind = "drag"
  BY <1>10, <1>11 DEF Apply
<1>7. CASE m.kind = "output"
  BY <1>4, <1>7 DEF Apply
<1>8. CASE m.kind = "changed"
  BY <1>3, <1>8 DEF Apply
<1>9. CASE m.kind = "snapshot"
  BY <1>5, <1>9 DEF Apply
<1> QED BY <1>1, <1>6, <1>7, <1>8, <1>9, <1>11 DEF Kinds, DeltaKinds, CriticalKinds

-----------------------------------------------------------------------------
(* pane_output, step by step *)

\* The engine after one output
Produced(e) == e.seq = engine.seq + 1 /\ e.outs = engine.outs + 1 /\ e.pane = engine.pane

\* What one step of pane_output does, in these terms.  last is the sequence
\* after the metadata of the release, if there was one.
OutputIs(e, size, ahead, behind, graphics, drag, last) ==
  /\ Produced(e)
  /\ \/ ahead = {} /\ behind = {} /\ last = e.seq
     \/ behind = Clients \ ahead /\ last = e.seq + 1
  /\ d' = IF drag
          THEN PublishDrag(Told(d, e, size, ahead, behind, graphics), Clients, last + 1)
          ELSE Told(d, e, size, ahead, behind, graphics)
  /\ engine' \in Engine /\ engine'.outs = e.outs /\ engine'.pane = e.pane
  /\ engine'.seq = IF drag THEN last + 1 ELSE last
  /\ Idle /\ engine.pane = "running"
  /\ UNCHANGED <<flush, cursor, transportVars, viewVars>>

\* pane_output sends one output, perhaps a Changed notice and the metadata of a
\* release, and then perhaps that of a change.
LEMMA OutputSteps ==
  ASSUME engine \in Engine, Output
  PROVE  \E e \in Engine, size \in Nat, ahead \in SUBSET Clients, behind \in SUBSET Clients,
            graphics \in BOOLEAN, drag \in BOOLEAN, last \in Nat :
           OutputIs(e, size, ahead, behind, graphics, drag, last)
<1>1. PICK size \in OutputSizes, weight \in SnapshotSizes, graphics \in BOOLEAN,
           drag \in BOOLEAN :
        \/ SendOutput(AfterOutput(weight, graphics), size, {}, {}, graphics, drag)
        \/ \E holder \in Clients :
             SendOutput(AfterOutput(weight, graphics), size, {c \in Clients : c > holder},
                        Clients \ {c \in Clients : c > holder}, graphics, drag)
  BY DEF Output, Lost
<1> DEFINE e == AfterOutput(weight, graphics)
<1>2. PICK ahead \in SUBSET Clients, behind \in SUBSET Clients :
        /\ SendOutput(e, size, ahead, behind, graphics, drag)
        /\ \/ ahead = {} /\ behind = {}
           \/ behind = Clients \ ahead /\ Clients # {}
  <2>1. CASE SendOutput(e, size, {}, {}, graphics, drag)
    <3> HIDE DEF e
    <3>1. {} \in SUBSET Clients
      OBVIOUS
    <3> QED BY <2>1, <3>1
  <2>2. ASSUME NEW holder \in Clients,
               SendOutput(e, size, {c \in Clients : c > holder},
                          Clients \ {c \in Clients : c > holder}, graphics, drag)
        PROVE  \E s1 \in SUBSET Clients, s2 \in SUBSET Clients :
                 /\ SendOutput(e, size, s1, s2, graphics, drag)
                 /\ \/ s1 = {} /\ s2 = {}
                    \/ s2 = Clients \ s1 /\ Clients # {}
    <3> DEFINE S == {c \in Clients : c > holder}
    <3>1. S \in SUBSET Clients /\ Clients \ S \in SUBSET Clients /\ Clients # {}
      OBVIOUS
    <3>2. SendOutput(e, size, S, Clients \ S, graphics, drag)
      BY <2>2
    <3> HIDE DEF S, e
    <3> QED BY <3>1, <3>2
  <2> HIDE DEF e
  <2> QED BY <1>1, <2>1, <2>2 DEF e
<1> DEFINE told == Told(d, e, size, ahead, behind, graphics)
           last == IF ahead \union behind = {} THEN e.seq ELSE e.seq + 1
           to == IF drag THEN last + 1 ELSE last
<1>3. e \in Engine /\ Produced(e) /\ size \in Nat
  <2> DEFINE at == IF graphics THEN engine.seq + 1 ELSE engine.changedAt
  <2>1. engine.seq + 1 \in Nat /\ engine.outs + 1 \in Nat /\ weight \in Nat
        /\ size \in Nat /\ at \in Nat
    BY EngineFields, NativeAssumption
  <2>2. e = [engine EXCEPT !.seq = engine.seq + 1, !.outs = engine.outs + 1,
                           !.weight = weight, !.changedAt = at]
    BY DEF AfterOutput, Engine
  <2> HIDE DEF at, e
  <2> QED BY <2>1, <2>2 DEF Engine, Produced
<1> HIDE DEF e, told
<1>4. /\ engine' = [e EXCEPT !.seq = to]
      /\ d' = IF drag THEN PublishDrag(told, Clients, last + 1) ELSE told
      /\ Idle /\ UNCHANGED <<flush, cursor, transportVars, viewVars>>
      /\ engine.pane = "running"
  BY <1>2 DEF SendOutput, told
<1>5. e.seq \in Nat /\ last \in Nat /\ to \in Nat
  BY <1>3, EngineFields
<1>6. \/ ahead = {} /\ behind = {} /\ last = e.seq
      \/ behind = Clients \ ahead /\ last = e.seq + 1
  BY <1>2
<1>7. to = IF drag THEN last + 1 ELSE last
  OBVIOUS
<1> HIDE DEF last, to
<1>8. engine' \in Engine /\ engine'.outs = e.outs /\ engine'.pane = e.pane
      /\ engine'.seq = to
  BY <1>3, <1>4, <1>5 DEF Engine
<1>9. OutputIs(e, size, ahead, behind, graphics, drag, last)
  BY <1>3, <1>4, <1>6, <1>7, <1>8 DEF OutputIs, told
<1> QED BY <1>3, <1>5, <1>9

-----------------------------------------------------------------------------
(* Inductiveness *)

\* The initial states satisfy the inductive invariant.
LEMMA InitIInv == Init => IInv
<1> SUFFICES ASSUME Init PROVE IInv
  OBVIOUS
<1>1. AllGood(d)
  BY AbsentType, AbsentGood DEF Init, AllGood
<1>2. NewView \in View
  BY DEF NewView, View
<1>3. engine \in Engine
  BY NativeAssumption DEF Init, FreshEngine, Engine
<1>4. flush \in Flush
  BY DEF Init, NotFlushing, Flush
<1> QED BY <1>1, <1>2, <1>3, <1>4 DEF Init, IInv, RestOK

\* Every step, one case per action, preserves the inductive invariant.
LEMMA NextIInv == IInv /\ [Next]_vars => IInv'
<1> SUFFICES ASSUME IInv, [Next]_vars PROVE IInv'
  OBVIOUS
<1> USE DEF ownerVars, transportVars, viewVars
<1>0. /\ AllGood(d) /\ RestOK
      /\ engine \in Engine /\ d \in [Clients -> DeliveryRecord]
      /\ Checkpoint(engine) \in SoundMessage
      /\ Fits(engine) \in BOOLEAN /\ FitsBarrier(engine) \in BOOLEAN
  BY CheckpointSound DEF IInv, RestOK, AllGood
<1>1. CASE Output
  <2> PICK e \in Engine, size \in Nat, ahead \in SUBSET Clients, behind \in SUBSET Clients,
           graphics \in BOOLEAN, drag \in BOOLEAN, last \in Nat :
        OutputIs(e, size, ahead, behind, graphics, drag, last)
    BY <1>0, <1>1, OutputSteps
  <2>2. e.seq + 1 \in Nat /\ last + 1 \in Nat
    BY EngineFields
  <2>3. AllGood(Fed(d, e, size, ahead))
    BY <1>0, <2>2, PublishGood, OutputSound, BroadcastGood DEF Fed
  <2>4. AllGood(Announced(d, e, size, ahead, graphics))
    BY <2>3, ChangedSound, BroadcastGood DEF Announced
  <2>5. AllGood(Told(d, e, size, ahead, behind, graphics))
    BY <2>2, <2>4, PublishGood DEF Told
  <2>6. AllGood(d')
    BY <2>2, <2>5, PublishGood DEF OutputIs
  <2> QED BY <1>0, <2>6 DEF IInv, RestOK, OutputIs
<1>2. CASE Change
  <2> PICK weight \in SnapshotSizes :
        LET e == [engine EXCEPT !.seq = @ + 1, !.changedAt = engine.seq + 1,
                                !.weight = weight]
        IN /\ engine' = e
           /\ d' = Broadcast(d, ChangedMessage(e))
           /\ UNCHANGED <<flush, cursor, transportVars, viewVars>>
    BY <1>2 DEF Change
  <2> DEFINE e == [engine EXCEPT !.seq = @ + 1, !.changedAt = engine.seq + 1,
                                !.weight = weight]
  <2>1. e \in Engine
    <3>1. engine.seq + 1 \in Nat /\ weight \in Nat
      BY <1>0, EngineFields, NativeAssumption
    <3> QED BY <1>0, <3>1 DEF Engine
  <2> HIDE DEF e
  <2>2. AllGood(Broadcast(d, ChangedMessage(e)))
    BY <1>0, <2>1, ChangedSound, BroadcastGood
  <2>3. AllGood(d') /\ engine' \in Engine
    BY <2>1, <2>2 DEF e
  <2> QED BY <1>0, <2>3 DEF IInv, RestOK
<1>3. CASE PaneExit
  <2> PICK remain \in BOOLEAN, dead \in SUBSET {c \in Clients : d[c].subscribed} :
        LET e == [engine EXCEPT !.seq = @ + 1, !.changedAt = engine.seq + 1,
                            !.pane = IF remain THEN "dead" ELSE "removed"]
            Barrier(s) == IF remain THEN s
                          ELSE FinalNativeBarrier(s, Checkpoint(engine),
                                                  FitsBarrier(engine))
            Destroyed(s) == DisconnectAfterDelivery(SendCritical(s, "final", TRUE))
            left == [c \in Clients |-> IF c \in dead THEN Destroyed(Barrier(d[c]))
                                       ELSE Barrier(d[c])]
        IN /\ engine' = e
           /\ d' = Broadcast(left, ChangedMessage(e))
           /\ UNCHANGED <<flush, cursor, transportVars, viewVars>>
    BY <1>3 DEF PaneExit
  <2> DEFINE e == [engine EXCEPT !.seq = @ + 1, !.changedAt = engine.seq + 1,
                            !.pane = IF remain THEN "dead" ELSE "removed"]
             Barrier(s) == IF remain THEN s
                           ELSE FinalNativeBarrier(s, Checkpoint(engine),
                                                   FitsBarrier(engine))
             Destroyed(s) == DisconnectAfterDelivery(SendCritical(s, "final", TRUE))
             left == [c \in Clients |-> IF c \in dead THEN Destroyed(Barrier(d[c]))
                                        ELSE Barrier(d[c])]
  <2>1. e \in Engine
    <3> DEFINE to == IF remain THEN "dead" ELSE "removed"
    <3>1. engine.seq + 1 \in Nat /\ to \in {"running", "dead", "removed"}
      BY <1>0, EngineFields
    <3>2. e = [engine EXCEPT !.seq = engine.seq + 1, !.changedAt = engine.seq + 1,
                             !.pane = to]
      BY <1>0 DEF Engine
    <3> HIDE DEF to, e
    <3> QED BY <1>0, <3>1, <3>2 DEF Engine
  <2>2. \A c \in Clients : GoodRecord(Barrier(d[c]))
    BY <1>0, FinalNativeBarrierGood DEF AllGood
  <2>3. \A c \in Clients : GoodRecord(Destroyed(Barrier(d[c])))
    <3> SUFFICES ASSUME NEW c \in Clients PROVE GoodRecord(Destroyed(Barrier(d[c])))
      OBVIOUS
    <3>1. GoodRecord(Barrier(d[c]))
      BY <2>2
    <3> HIDE DEF Barrier
    <3>2. GoodRecord(SendCritical(Barrier(d[c]), "final", TRUE))
      BY <3>1, SendCriticalGood DEF CriticalKinds
    <3> QED BY <3>2, DisconnectAfterDeliveryGood
  <2>4. AllGood(left)
    <3> HIDE DEF Barrier, Destroyed
    <3>1. \A c \in Clients : GoodRecord(left[c])
      BY <2>2, <2>3
    <3> QED BY <3>1 DEF AllGood, GoodRecord
  <2> HIDE DEF e, left
  <2>5. AllGood(Broadcast(left, ChangedMessage(e)))
    BY <2>1, <2>4, ChangedSound, BroadcastGood
  <2>6. AllGood(d') /\ engine' \in Engine
    BY <2>1, <2>5 DEF e, left
  <2> QED BY <1>0, <2>6 DEF IInv, RestOK
<1>4. ASSUME NEW c \in Clients, Connect(c) PROVE IInv'
  <2> DEFINE r == [d[c] EXCEPT !.live = TRUE]
  <2>1. GoodRecord(d[c]) /\ d[c] \in DeliveryRecord
    BY <1>0 DEF AllGood
  <2>2. /\ r \in DeliveryRecord /\ r.queue = d[c].queue /\ r.held = d[c].held
        /\ r.chan = d[c].chan /\ r.bytes = d[c].bytes
    BY <2>1 DEF DeliveryRecord
  <2>3. d' = [d EXCEPT ![c] = r]
    BY <1>0, <1>4 DEF Connect
  <2> HIDE DEF r
  <2>4. GoodRecord(r)
    BY <2>1, <2>2, FlagsGood
  <2>5. AllGood(d')
    BY <1>0, <2>3, <2>4, UpdateGood
  <2> QED BY <1>0, <1>4, <2>5 DEF IInv, RestOK, Connect
<1>5. ASSUME NEW c \in Clients, HandleRequest(c) PROVE IInv'
  <2> DEFINE subscribed == [d[c] EXCEPT !.subscribed = TRUE]
             replied == SendCritical(subscribed, "critical", FALSE)
             r == IF d[c].live /\ ~Closing(d[c])
                  THEN SendSnapshot(replied, Checkpoint(engine), Fits(engine))
                  ELSE d[c]
  <2>1. GoodRecord(d[c]) /\ d[c] \in DeliveryRecord
    BY <1>0 DEF AllGood
  <2>2. /\ subscribed \in DeliveryRecord /\ subscribed.queue = d[c].queue
        /\ subscribed.held = d[c].held /\ subscribed.chan = d[c].chan
        /\ subscribed.bytes = d[c].bytes
    BY <2>1 DEF DeliveryRecord
  <2>3. d' = [d EXCEPT ![c] = r]
    BY <1>0, <1>5 DEF HandleRequest
  <2> HIDE DEF subscribed
  <2>4. GoodRecord(replied)
    BY <2>1, <2>2, FlagsGood, SendCriticalGood DEF CriticalKinds
  <2>5. GoodRecord(r)
    BY <1>0, <2>1, <2>4, SendSnapshotGood
  <2>6. AllGood(d')
    BY <1>0, <2>3, <2>5, UpdateGood
  <2> QED BY <1>0, <1>5, <2>6 DEF IInv, RestOK, HandleRequest
<1>6. ASSUME NEW c \in Clients, HostEffect(c) PROVE IInv'
  <2>1. GoodRecord(SendCritical(d[c], "critical", FALSE))
    BY <1>0, SendCriticalGood DEF AllGood, CriticalKinds
  <2>2. AllGood(d')
    BY <1>0, <1>6, <2>1, UpdateGood DEF HostEffect
  <2> QED BY <1>0, <1>6, <2>2 DEF IInv, RestOK, HostEffect
<1>7. ASSUME NEW c \in Clients, Detach(c) PROVE IInv'
  <2>1. GoodRecord(DisconnectAfterDelivery(SendCritical(d[c], "final", FALSE)))
    BY <1>0, SendCriticalGood, DisconnectAfterDeliveryGood DEF AllGood, CriticalKinds
  <2>2. AllGood(d')
    BY <1>0, <1>7, <2>1, UpdateGood DEF Detach
  <2> QED BY <1>0, <1>7, <2>2 DEF IInv, RestOK, Detach
<1>8. ASSUME NEW c \in Clients, HandleSnapshotSent(c) PROVE IInv'
  <2>1. GoodRecord(SnapshotSent(d[c], Checkpoint(engine), Fits(engine)))
    BY <1>0, SnapshotSentGood DEF AllGood
  <2>2. AllGood(d')
    BY <1>0, <1>8, <2>1, UpdateGood DEF HandleSnapshotSent
  <2> QED BY <1>0, <1>8, <2>2 DEF IInv, RestOK, HandleSnapshotSent
<1>9. ASSUME NEW c \in Clients, HandleDisconnect(c) PROVE IInv'
  <2>1. GoodRecord(Disconnected(d[c]))
    BY <1>0, DisconnectedGood DEF AllGood
  <2>2. AllGood(d')
    BY <1>0, <1>9, <2>1, UpdateGood DEF HandleDisconnect
  <2> QED BY <1>0, <1>9, <2>2 DEF IInv, RestOK, HandleDisconnect
<1>10. ASSUME NEW c \in Clients, CloseTimeout(c) PROVE IInv'
  <2> DEFINE r == [d[c] EXCEPT !.closing = "expired"]
  <2>1. GoodRecord(d[c]) /\ d[c] \in DeliveryRecord
    BY <1>0 DEF AllGood
  <2>2. /\ r \in DeliveryRecord /\ r.queue = d[c].queue /\ r.held = d[c].held
        /\ r.chan = d[c].chan /\ r.bytes = d[c].bytes
    BY <2>1 DEF DeliveryRecord, ClosingStates
  <2>3. d' = [d EXCEPT ![c] = r]
    BY <1>0, <1>10 DEF CloseTimeout
  <2> HIDE DEF r
  <2>4. AllGood(d')
    BY <1>0, <2>1, <2>2, <2>3, FlagsGood, UpdateGood
  <2> QED BY <1>0, <1>10, <2>4 DEF IInv, RestOK, CloseTimeout
<1>11. CASE FlushBegin
  <2>1. flush' \in Flush
    BY <1>11 DEF FlushBegin, Flush
  <2> QED BY <1>0, <1>11, <2>1 DEF IInv, RestOK, FlushBegin, AllGood
<1>12. ASSUME NEW c \in Clients, NEW r, GoodRecord(r), NEW ready \in BOOLEAN,
              FlushNext(c, r, ready)
       PROVE  IInv'
  <2>1. AllGood(d')
    BY <1>0, <1>12, UpdateGood DEF FlushNext
  <2>2. flush' \in Flush
    BY <1>0, <1>12 DEF FlushNext, RestOK, Flush
  <2> QED BY <1>0, <1>12, <2>1, <2>2 DEF IInv, RestOK, FlushNext
<1>13. CASE FlushClient
  <2> PICK c \in Clients :
        FlushExpired(c) \/ FlushMove(c) \/ FlushHangs(c) \/ FlushStop(c)
    BY <1>13 DEF FlushClient
  <2>1. GoodRecord(d[c]) /\ GoodRecord(Disconnected(d[c]))
    BY <1>0, DisconnectedGood DEF AllGood
  <2>2. CASE FlushExpired(c)
    BY <1>12, <2>1, <2>2 DEF FlushExpired
  <2>3. CASE FlushHangs(c)
    BY <1>12, <2>1, <2>3 DEF FlushHangs
  <2>4. CASE FlushStop(c)
    <3>1. SnapshotReady(d[c]) \in BOOLEAN
      BY <2>1, GoodFields DEF SnapshotReady, DeliveryRecord
    <3> QED BY <1>12, <2>1, <2>4, <3>1 DEF FlushStop
  <2>5. CASE FlushMove(c)
    <3>1. AllGood(d')
      BY <1>0, <2>1, <2>5, MoveHeadGood, UpdateGood DEF FlushMove
    <3>2. flush \in Flush /\ flush.moved + 1 \in Nat
      BY <1>0 DEF RestOK, Flush
    <3>3. flush' \in Flush
      BY <2>5, <3>2 DEF FlushMove, Flush
    <3> QED BY <1>0, <2>5, <3>1, <3>3 DEF IInv, RestOK, FlushMove
  <2> QED BY <2>2, <2>3, <2>4, <2>5
<1>14. CASE FlushEnd
  <2>1. flush' \in Flush
    BY <1>14 DEF FlushEnd, Flush, NotFlushing
  <2>2. CASE UNCHANGED <<d, cursor>>
    BY <1>0, <1>14, <2>1, <2>2 DEF IInv, RestOK, FlushEnd, AllGood
  <2>3. ASSUME NEW c \in Clients, cursor' = c,
               d' = [d EXCEPT ![c] = Recover(@, Checkpoint(engine), Fits(engine))]
        PROVE  IInv'
    <3>1. GoodRecord(Recover(d[c], Checkpoint(engine), Fits(engine)))
      BY <1>0, RecoverGood DEF AllGood
    <3>2. AllGood(d')
      BY <1>0, <2>3, <3>1, UpdateGood
    <3>3. cursor' \in Nat
      BY <2>3, NativeAssumption
    <3> QED BY <1>0, <1>14, <2>1, <3>2, <3>3 DEF IInv, RestOK, FlushEnd
  <2> QED BY <1>14, <2>2, <2>3 DEF FlushEnd
<1>15. ASSUME NEW c \in Clients, Take(c) PROVE IInv'
  <2>1. /\ GoodRecord(TakeHead(d[c])) /\ Head(d[c].chan) \in Message
    BY <1>0, <1>15, TakeHeadGood DEF AllGood, Take
  <2>2. AllGood(d')
    BY <1>0, <1>15, <2>1, UpdateGood DEF Take
  <2>3. wire' \in [Clients -> Seq(Message)]
    BY <1>0, <1>15, <2>1 DEF Take, RestOK
  <2>4. writer' \in [Clients -> {"idle", "acking", "gone"}] /\ sentAcks' \in SUBSET Clients
    BY <1>0, <1>15 DEF Take, RestOK
  <2> QED BY <1>0, <1>15, <2>2, <2>3, <2>4 DEF IInv, RestOK, Take
<1>16. ASSUME NEW c \in Clients, Acknowledge(c) PROVE IInv'
  BY <1>0, <1>16 DEF IInv, RestOK, Acknowledge, AllGood
<1>17. ASSUME NEW c \in Clients, WriteFails(c) PROVE IInv'
  <2> DEFINE s == IF d[c].chan = <<>> THEN d[c] ELSE TakeHead(d[c])
             r == [s EXCEPT !.chan = <<>>, !.rx = FALSE]
  <2>1. GoodRecord(s)
    BY <1>0, TakeHeadGood DEF AllGood
  <2>2. d' = [d EXCEPT ![c] = r]
    BY <1>0, <1>17 DEF WriteFails
  <2> HIDE DEF s
  <2>3. s \in DeliveryRecord /\ <<>> \in Seq(Message)
    BY <2>1, GoodFields
  <2>4. /\ r \in DeliveryRecord /\ r.queue = s.queue /\ r.held = s.held
        /\ r.chan = <<>> /\ r.bytes = s.bytes
    BY <2>3 DEF DeliveryRecord
  <2> HIDE DEF r
  <2>5. Len(r.chan) <= ChannelCap /\ r.bytes <= s.bytes
    BY <2>1, <2>4, GoodFields, DeliveryAssumption
  <2>6. GoodRecord(r)
    BY <2>1, <2>4, <2>5, SameQueueGood
  <2>7. AllGood(d')
    BY <1>0, <2>2, <2>6, UpdateGood
  <2> QED BY <1>0, <1>17, <2>7 DEF IInv, RestOK, WriteFails
<1>18. ASSUME NEW c \in Clients, WriterEnds(c) PROVE IInv'
  BY <1>0, <1>18 DEF IInv, RestOK, WriterEnds, AllGood
<1>19. ASSUME NEW c \in Clients, Receive(c) PROVE IInv'
  <2> DEFINE m == Head(wire[c])
             v == Apply(view[c], m)
  <2>1. wire[c] \in Seq(Message) /\ wire[c] # <<>> /\ view[c] \in View
        /\ asked[c] \in Nat
    BY <1>0, <1>19 DEF RestOK, Receive
  <2>2. m \in Message /\ Tail(wire[c]) \in Seq(Message)
    BY <2>1
  <2>3. v \in View
    BY <2>1, <2>2, ApplyType
  <2>4. view' = [view EXCEPT ![c] = v]
    BY <1>19 DEF Receive
  <2>5. wire' = [wire EXCEPT ![c] = <<>>] \/ wire' = [wire EXCEPT ![c] = Tail(@)]
    BY <1>19 DEF Receive
  <2>6. /\ asked' \in [Clients -> Nat]
        /\ peer' \in [Clients -> {"away", "open", "closed"}]
    BY <1>0, <1>19, <2>1 DEF Receive, RestOK
  <2> HIDE DEF v, m
  <2>7. view' \in [Clients -> View]
    BY <1>0, <2>3, <2>4 DEF RestOK
  <2>8. wire' \in [Clients -> Seq(Message)]
    <3>1. <<>> \in Seq(Message) /\ wire \in [Clients -> Seq(Message)]
      BY <1>0 DEF RestOK
    <3> QED BY <2>2, <2>5, <3>1
  <2> QED BY <1>0, <1>19, <2>6, <2>7, <2>8 DEF IInv, RestOK, Receive, AllGood
<1>20. ASSUME NEW c \in Clients, ReceiveEnd(c) \/ PeerCloses(c) PROVE IInv'
  <2>1. view[c] \in View
    BY <1>0 DEF RestOK
  <2>2. [view[c] EXCEPT !.status = "failed"] \in View
    BY <2>1 DEF View
  <2>3. view' = [view EXCEPT ![c] = [view[c] EXCEPT !.status = "failed"]]
    BY <1>0, <1>20 DEF RestOK, ReceiveEnd, PeerCloses
  <2>4. view' \in [Clients -> View]
    BY <1>0, <2>2, <2>3 DEF RestOK
  <2>5. wire' \in [Clients -> Seq(Message)]
    <3>1. <<>> \in Seq(Message) /\ wire \in [Clients -> Seq(Message)]
      BY <1>0 DEF RestOK
    <3>2. wire' = wire \/ wire' = [wire EXCEPT ![c] = <<>>]
      BY <1>20 DEF ReceiveEnd, PeerCloses, transportVars
    <3> QED BY <3>1, <3>2
  <2>6. peer' \in [Clients -> {"away", "open", "closed"}]
    BY <1>0, <1>20 DEF RestOK, ReceiveEnd, PeerCloses
  <2> QED BY <1>0, <1>20, <2>4, <2>5, <2>6
          DEF IInv, RestOK, ReceiveEnd, PeerCloses, AllGood
<1>21. CASE UNCHANGED vars
  BY <1>0, <1>21 DEF IInv, RestOK, AllGood, vars
<1>22. CASE InputFails
  <2> PICK remain \in BOOLEAN :
        LET Failed(s) == Disconnected(SendCritical(s, "aborted", FALSE))
        IN /\ engine' = [engine EXCEPT !.seq = @ + 1, !.changedAt = engine.seq + 1,
                                !.pane = IF remain THEN "dead" ELSE "removed"]
           /\ d' = [c \in Clients |-> IF d[c].subscribed THEN Failed(d[c]) ELSE d[c]]
           /\ UNCHANGED <<flush, cursor, transportVars, viewVars>>
    BY <1>22 DEF InputFails
  <2> DEFINE Failed(s) == Disconnected(SendCritical(s, "aborted", FALSE))
             to == IF remain THEN "dead" ELSE "removed"
  <2>1. engine' \in Engine
    <3>1. engine.seq + 1 \in Nat /\ to \in {"running", "dead", "removed"}
      BY <1>0, EngineFields
    <3>2. engine' = [engine EXCEPT !.seq = engine.seq + 1, !.changedAt = engine.seq + 1,
                                   !.pane = to]
      BY <1>0 DEF Engine
    <3> HIDE DEF to
    <3> QED BY <1>0, <3>1, <3>2 DEF Engine
  <2>2. \A c \in Clients : GoodRecord(Failed(d[c]))
    BY <1>0, SendCriticalGood, DisconnectedGood DEF AllGood, CriticalKinds
  <2>3. AllGood(d')
    <3>1. d' = [c \in Clients |-> IF d[c].subscribed THEN Failed(d[c]) ELSE d[c]]
      OBVIOUS
    <3> HIDE DEF Failed
    <3> QED BY <1>0, <2>2, <3>1 DEF AllGood, GoodRecord
  <2> QED BY <1>0, <2>1, <2>3 DEF IInv, RestOK
<1>23. CASE DragChanges
  <2>1. engine.seq + 1 \in Nat
    BY <1>0, EngineFields
  <2>2. engine' \in Engine
    BY <1>0, <1>23, <2>1 DEF DragChanges, Engine
  <2>3. AllGood(d')
    BY <1>0, <1>23, <2>1, PublishGood DEF DragChanges
  <2> QED BY <1>0, <1>23, <2>2, <2>3 DEF IInv, RestOK, DragChanges
<1> QED
  BY <1>1, <1>2, <1>3, <1>4, <1>5, <1>6, <1>7, <1>8, <1>9, <1>10, <1>11, <1>13,
     <1>14, <1>15, <1>16, <1>17, <1>18, <1>19, <1>20, <1>21, <1>22, <1>23
     DEF Next, Owner, Transport, Peers, FlushNative

\* The inductive invariant holds in every reachable state.
LEMMA SpecIInv == Spec => []IInv
  BY InitIInv, NextIInv, PTL DEF Spec

-----------------------------------------------------------------------------
\* Every variable keeps its type, and none of the subtractions on byte counts
\* leaves the naturals, for any number of clients and any limits.
THEOREM TypeCorrect == Spec => []TypeOK
<1>1. IInv => TypeOK
  BY DEF IInv, AllGood, RestOK, TypeOK
<1> QED BY <1>1, SpecIInv, PTL

\* The channel and the Pending entry of every client stay within the three
\* limits of delivery.rs, whatever the interleaving of sends, flushes, frozen
\* checkpoints and writers.
THEOREM BudgetsHold == Spec => []WithinBudget
<1>1. IInv => WithinBudget
  BY GoodFields DEF IInv, AllGood, WithinBudget
<1> QED BY <1>1, SpecIInv, PTL

-----------------------------------------------------------------------------
(* Roles and notes, in every state *)

\* The writer of c took a snapshot and the owner has not handled its note.
Busy(c) == writer[c] = "acking" \/ c \in sentAcks

\* A flush is going to visit c.
Visiting(c) == flush.on /\ c \in flush.todo

\* Every record is Steady.
AllSteady == \A c \in Clients : Steady(d[c], Busy(c), Visiting(c))

\* A writer has at most one note under way.
OneNote == \A c \in Clients : ~(writer[c] = "acking" /\ c \in sentAcks)

\* What the loop over the clients has found out is still so at its end, unless
\* the client has been lost meanwhile.
FlushOK ==
  /\ ~flush.on => flush.todo = {} /\ flush.ready = {}
  /\ \A c \in flush.ready :
       /\ c \notin flush.todo /\ peer[c] # "away"
       /\ d[c].queue = <<>>
       /\ d[c].live => d[c].needs /\ ~d[c].pending

\* Nothing is known of a client that has not connected.
AwayOK ==
  \A c \in Clients :
    peer[c] = "away" => d[c] = Absent /\ writer[c] = "idle" /\ c \notin sentAcks

\* The invariant of the first layer
RolesInv == IInv /\ AllSteady /\ OneNote /\ FlushOK /\ AwayOK

\* The record of nobody
LEMMA AbsentInert ==
  /\ ~Absent.live /\ ~Absent.subscribed /\ ~Absent.needs /\ ~Absent.requested
  /\ ~Closing(Absent) /\ Absent.queue = <<>> /\ Absent.chan = <<>> /\ ~Absent.pending
  /\ Absent.issued = 0 /\ Absent.rx
  BY DEF Absent, Closing

\* The record of nobody is Steady.
LEMMA AbsentSteady == Steady(Absent, FALSE, FALSE)
  BY AbsentInert, AbsentType, EmptyNoted DEF Steady, Roles, Noted, Engaged

\* A broadcast does not reach a client that has not connected.
LEMMA BroadcastAbsent ==
  ASSUME NEW f, NEW m, NEW c \in Clients, f[c] = Absent
  PROVE  Broadcast(f, m)[c] = Absent
  BY AbsentInert DEF Broadcast

\* A broadcast reaches subscribers only, and they are Serving.
LEMMA BroadcastSteady ==
  ASSUME NEW f, NEW m \in Message, ~Snapshot(m), NEW c \in Clients, NEW busy \in BOOLEAN,
         NEW mid \in BOOLEAN, Steady(f[c], busy, mid)
  PROVE  Steady(Broadcast(f, m)[c], busy, mid)
<1>1. Broadcast(f, m)[c] = IF f[c].subscribed THEN SendNative(f[c], m) ELSE f[c]
  BY DEF Broadcast
<1>2. f[c].subscribed => Serving(f[c])
  BY DEF Serving
<1>3. f[c].subscribed => Steady(SendNative(f[c], m), busy, mid)
  BY <1>2, SteadySend
<1> QED BY <1>1, <1>3

\* Nor does drag metadata.
LEMMA PublishAbsent ==
  ASSUME NEW f, NEW these, NEW seq, NEW c \in Clients, f[c] = Absent
  PROVE  PublishDrag(f, these, seq)[c] = Absent
  BY AbsentInert DEF PublishDrag

\* Drag metadata reaches subscribers only.
LEMMA PublishSteady ==
  ASSUME NEW f, NEW these, NEW seq \in Nat, NEW c \in Clients, NEW busy \in BOOLEAN,
         NEW mid \in BOOLEAN, Steady(f[c], busy, mid)
  PROVE  Steady(PublishDrag(f, these, seq)[c], busy, mid)
<1>1. PublishDrag(f, these, seq)[c]
        = IF c \in these /\ f[c].subscribed THEN SendDrag(f[c], seq) ELSE f[c]
  BY DEF PublishDrag
<1>2. f[c].subscribed => Serving(f[c])
  BY DEF Serving
<1>3. f[c].subscribed => Steady(SendDrag(f[c], seq), busy, mid)
  BY <1>2, SteadyDrag
<1> QED BY <1>1, <1>3

\* Metadata that goes out at once leaves the debts of its client as they are.
LEMMA DragKeepsDebt ==
  ASSUME NEW s \in DeliveryRecord, NEW seq \in Nat, SendDrag(s, seq).live,
         SendDrag(s, seq).queue = <<>>
  PROVE  s.live /\ SendDrag(s, seq).needs = s.needs /\ SendDrag(s, seq).pending = s.pending
<1> DEFINE u == Counted(s)
           m == DragMessage(s.issued + 1, seq)
<1>1. SendDrag(s, seq) = s \/ SendDrag(s, seq) = SendNative(u, m)
  BY DEF SendDrag, Counted
<1>2. s.issued + 1 \in Nat
  BY RecordTypes
<1>3. m \in Message /\ ~Snapshot(m) /\ ~Defers(m)
  BY <1>2, DragMessages
<1> HIDE DEF u, m
<1>4. u \in DeliveryRecord /\ u.live = s.live /\ u.needs = s.needs /\ u.pending = s.pending
  BY CountedFields DEF u
<1>5. CASE SendNative(u, m) = u
  BY <1>1, <1>4, <1>5
<1>6. CASE SendNative(u, m) = Disconnected(u)
  BY <1>1, <1>4, <1>6, DisconnectedFields
<1>7. CASE SendNative(u, m) = Delivered(u, m)
  <2>1. Delivered(u, m).needs = u.needs /\ Delivered(u, m).live = u.live
        /\ Delivered(u, m).pending = (u.pending \/ Snapshot(m))
    BY <1>3, <1>4, DeliveredFields
  <2>2. u.pending \in BOOLEAN
    BY <1>4, RecordTypes
  <2>3. Delivered(u, m).pending = u.pending
    BY <1>3, <2>1, <2>2
  <2> QED BY <1>1, <1>4, <1>7, <2>1, <2>3
<1>8. CASE SendNative(u, m) = Queued(u, m)
  BY <1>1, <1>4, <1>8, <1>3, QueuedFields
<1> QED BY <1>3, <1>4, <1>5, <1>6, <1>7, <1>8, SendNativeCases

\* An owner handler between flushes
LEMMA HandlerKeeps ==
  ASSUME RolesInv, IInv', Idle, UNCHANGED <<flush, writer, sentAcks, peer>>,
         \A c \in Clients :
           /\ Steady(d'[c], Busy(c), FALSE)
           /\ d[c] = Absent => d'[c] = Absent
  PROVE  RolesInv'
<1>1. ~flush.on /\ flush.todo = {} /\ flush.ready = {}
  BY DEF RolesInv, FlushOK, Idle
<1>2. \A c \in Clients : (Busy(c)' <=> Busy(c)) /\ ~Visiting(c) /\ ~Visiting(c)'
  BY <1>1 DEF Busy, Visiting
<1>3. AllSteady'
  <2> SUFFICES ASSUME NEW c \in Clients PROVE Steady(d[c], Busy(c), Visiting(c))'
    BY DEF AllSteady
  <2>2. Steady(d'[c], Busy(c), FALSE)
    OBVIOUS
  <2> QED BY <1>2, <2>2 DEF Steady, Noted
<1>4. OneNote' /\ FlushOK' /\ AwayOK'
  BY <1>1 DEF RolesInv, OneNote, FlushOK, AwayOK
<1> QED BY <1>3, <1>4 DEF RolesInv

\* The types that the proofs of the actions need
LEMMA RolesTypes ==
  ASSUME RolesInv
  PROVE  /\ d \in [Clients -> DeliveryRecord] /\ engine \in Engine
         /\ \A c \in Clients :
              /\ Busy(c) \in BOOLEAN /\ Visiting(c) \in BOOLEAN
              /\ GoodRecord(d[c]) /\ d[c] \in DeliveryRecord
              /\ Steady(d[c], Busy(c), Visiting(c))
              /\ peer[c] = "away" => d[c] = Absent
         /\ Checkpoint(engine) \in Message
         /\ Fits(engine) \in BOOLEAN /\ FitsBarrier(engine) \in BOOLEAN
<1>1. d \in [Clients -> DeliveryRecord] /\ engine \in Engine /\ flush \in Flush
  BY DEF RolesInv, IInv, AllGood, RestOK
<1>2. Checkpoint(engine) \in Message /\ Fits(engine) \in BOOLEAN /\ FitsBarrier(engine) \in BOOLEAN
  BY <1>1, CheckpointSound DEF SoundMessage
<1>3. \A c \in Clients : Visiting(c) \in BOOLEAN
  BY <1>1 DEF Visiting, Flush
<1> QED BY <1>1, <1>2, <1>3 DEF RolesInv, IInv, AllGood, AllSteady, AwayOK, Busy

\* Between flushes no record may be left half flushed.
LEMMA IdleSteady ==
  ASSUME RolesInv, Idle, NEW c \in Clients
  PROVE  Steady(d[c], Busy(c), FALSE) /\ Busy(c) \in BOOLEAN
<1>1. Visiting(c) = FALSE
  BY DEF Visiting, Idle
<1> QED BY <1>1, RolesTypes

\* One client's record is replaced between flushes.
LEMMA ClientKeeps ==
  ASSUME RolesInv, IInv', Idle, UNCHANGED <<flush, writer, sentAcks, peer>>,
         NEW c \in Clients, NEW r, d' = [d EXCEPT ![c] = r],
         d[c] = Absent => r = Absent,
         Steady(r, Busy(c), FALSE)
  PROVE  RolesInv'
<1>1. \A b \in Clients : d'[b] = IF b = c THEN r ELSE d[b]
  BY RolesTypes
<1> QED BY <1>1, IdleSteady, HandlerKeeps

\* The initial states satisfy the invariant of the first layer.
LEMMA RolesInit == Init => RolesInv
<1> SUFFICES ASSUME Init PROVE RolesInv
  OBVIOUS
<1>1. \A c \in Clients : d[c] = Absent /\ ~Busy(c) /\ ~Visiting(c) /\ writer[c] = "idle"
  BY DEF Init, Busy, Visiting, NotFlushing
<1>2. AllSteady
  BY <1>1, AbsentSteady DEF AllSteady, Steady, Noted
<1>3. OneNote /\ FlushOK /\ AwayOK
  BY <1>1 DEF Init, OneNote, FlushOK, AwayOK, NotFlushing
<1> QED BY <1>2, <1>3, InitIInv DEF RolesInv

\* A PaneOutput is a message with the numbers of the engine after it.
LEMMA OutputMessages ==
  ASSUME NEW e \in Engine, NEW size \in Nat
  PROVE  /\ OutputMessage(e, size) \in Message /\ ~Snapshot(OutputMessage(e, size))
         /\ OutputMessage(e, size).kind = "output"
         /\ OutputMessage(e, size).seq = e.seq /\ OutputMessage(e, size).nth = e.outs
<1>1. OutputMessage(e, size) \in Message
  BY OutputSound DEF SoundMessage
<1> QED BY <1>1 DEF OutputMessage, Snapshot

\* A Changed notice is a message.
LEMMA ChangedMessages ==
  ASSUME NEW e \in Engine
  PROVE  /\ ChangedMessage(e) \in Message /\ ~Snapshot(ChangedMessage(e))
         /\ ChangedMessage(e).kind = "changed"
<1>1. ChangedMessage(e) \in Message
  BY ChangedSound DEF SoundMessage
<1> QED BY <1>1 DEF ChangedMessage, Snapshot

\* The engine a handler leaves
LEMMA EngineStays ==
  ASSUME IInv'
  PROVE  engine' \in Engine
  BY DEF IInv, RestOK

\* pane_output.
LEMMA RolesOutput == ASSUME RolesInv, IInv', Output PROVE RolesInv'
<1> PICK e \in Engine, size \in Nat, ahead \in SUBSET Clients, behind \in SUBSET Clients,
         graphics \in BOOLEAN, drag \in BOOLEAN, last \in Nat :
      OutputIs(e, size, ahead, behind, graphics, drag, last)
  BY RolesTypes, OutputSteps
<1> DEFINE out  == OutputMessage(e, size)
           note == ChangedMessage(e)
           f0   == PublishDrag(d, ahead, e.seq + 1)
           f1   == Fed(d, e, size, ahead)
           f2   == Announced(d, e, size, ahead, graphics)
           f3   == Told(d, e, size, ahead, behind, graphics)
<1>1. /\ out \in Message /\ ~Snapshot(out) /\ note \in Message /\ ~Snapshot(note)
      /\ e.seq + 1 \in Nat /\ last + 1 \in Nat
  BY OutputMessages, ChangedMessages, EngineFields
<1>2. UNCHANGED <<flush, writer, sentAcks, peer>> /\ Idle
  BY DEF OutputIs, transportVars, viewVars
<1>3. f1 = Broadcast(f0, out) /\ (f2 = f1 \/ f2 = Broadcast(f1, note))
      /\ f3 = PublishDrag(f2, behind, e.seq + 1)
      /\ (d' = f3 \/ d' = PublishDrag(f3, Clients, last + 1))
  BY DEF OutputIs, Told, Announced, Fed
<1> HIDE DEF out, note, f0, f1, f2, f3
<1>4. ASSUME NEW c \in Clients
      PROVE  Steady(d'[c], Busy(c), FALSE) /\ (d[c] = Absent => d'[c] = Absent)
  <2>1. Steady(d[c], Busy(c), FALSE) /\ Busy(c) \in BOOLEAN
    BY <1>2, IdleSteady
  <2>2. Steady(f0[c], Busy(c), FALSE) /\ (d[c] = Absent => f0[c] = Absent)
    BY <1>1, <2>1, PublishSteady, PublishAbsent DEF f0
  <2>3. Steady(f1[c], Busy(c), FALSE) /\ (f0[c] = Absent => f1[c] = Absent)
    BY <1>1, <1>3, <2>1, <2>2, BroadcastSteady, BroadcastAbsent
  <2>4. Steady(f2[c], Busy(c), FALSE) /\ (f1[c] = Absent => f2[c] = Absent)
    BY <1>1, <1>3, <2>1, <2>3, BroadcastSteady, BroadcastAbsent
  <2>5. Steady(f3[c], Busy(c), FALSE) /\ (f2[c] = Absent => f3[c] = Absent)
    BY <1>1, <1>3, <2>1, <2>4, PublishSteady, PublishAbsent
  <2>6. Steady(PublishDrag(f3, Clients, last + 1)[c], Busy(c), FALSE)
        /\ (f3[c] = Absent => PublishDrag(f3, Clients, last + 1)[c] = Absent)
    BY <1>1, <2>1, <2>5, PublishSteady, PublishAbsent
  <2> QED BY <1>3, <2>2, <2>3, <2>4, <2>5, <2>6
<1> QED BY <1>2, <1>4, HandlerKeeps

\* Drag metadata, between two handlers or between two clients of a flush.
LEMMA RolesDragChanges == ASSUME RolesInv, IInv', DragChanges PROVE RolesInv'
<1> DEFINE q == engine.seq + 1
<1>1. /\ d' = PublishDrag(d, Clients, q) /\ q \in Nat
      /\ UNCHANGED <<flush, writer, sentAcks, peer>>
      /\ \A c \in flush.ready : d'[c].queue = <<>>
  BY RolesTypes, EngineFields DEF DragChanges, transportVars, viewVars
<1> HIDE DEF q
<1>2. \A c \in Clients : (Busy(c)' <=> Busy(c)) /\ (Visiting(c)' <=> Visiting(c))
  BY <1>1 DEF Busy, Visiting
<1>3. ASSUME NEW c \in Clients
      PROVE  Steady(d'[c], Busy(c), Visiting(c)) /\ (d[c] = Absent => d'[c] = Absent)
  BY <1>1, RolesTypes, PublishSteady, PublishAbsent
<1>4. AllSteady'
  <2> SUFFICES ASSUME NEW c \in Clients PROVE Steady(d'[c], Busy(c)', Visiting(c)')
    BY DEF AllSteady
  <2> QED BY <1>2, <1>3 DEF Steady, Noted
<1>5. ASSUME NEW c \in flush.ready, d'[c].live PROVE d'[c].needs /\ ~d'[c].pending
  <2>1. c \in Clients /\ d[c] \in DeliveryRecord /\ (d[c].live => d[c].needs /\ ~d[c].pending)
    BY RolesTypes DEF RolesInv, IInv, RestOK, Flush, FlushOK
  <2>2. d'[c] = IF d[c].subscribed THEN SendDrag(d[c], q) ELSE d[c]
    BY <1>1, <2>1 DEF PublishDrag
  <2>3. d'[c].queue = <<>>
    BY <1>1
  <2> QED BY <1>1, <1>5, <2>1, <2>2, <2>3, DragKeepsDebt
<1>6. OneNote' /\ AwayOK'
  BY <1>1, <1>3 DEF RolesInv, OneNote, AwayOK
<1>7. FlushOK'
  BY <1>1, <1>5 DEF RolesInv, FlushOK
<1> QED BY <1>4, <1>6, <1>7 DEF RolesInv

\* A command that changed the graph.
LEMMA RolesChange == ASSUME RolesInv, IInv', Change PROVE RolesInv'
<1> DEFINE note == ChangedMessage(engine')
<1>1. /\ Idle /\ d' = Broadcast(d, note)
      /\ UNCHANGED <<flush, cursor, transportVars, viewVars>>
  BY DEF Change
<1>2. UNCHANGED <<flush, writer, sentAcks, peer>>
  BY <1>1 DEF transportVars, viewVars
<1>3. note \in Message /\ ~Snapshot(note)
  BY EngineStays, ChangedMessages
<1> HIDE DEF note
<1>4. ASSUME NEW c \in Clients
      PROVE  Steady(d'[c], Busy(c), FALSE) /\ (d[c] = Absent => d'[c] = Absent)
  BY <1>1, <1>3, IdleSteady, BroadcastSteady, BroadcastAbsent
<1> QED BY <1>1, <1>2, <1>4, HandlerKeeps

\* What the end of a pane leaves of one record before the last broadcast:
\* with a frozen checkpoint, and with the end of the session
Frozen(s, e) == FinalNativeBarrier(s, Checkpoint(e), FitsBarrier(e))
Ended(s)     == DisconnectAfterDelivery(SendCritical(s, "final", TRUE))

\* Exit follows the frozen checkpoint and the client only drains.
LEMMA EndedSteady ==
  ASSUME NEW s, NEW busy \in BOOLEAN, Steady(s, busy, FALSE), Serving(s)
  PROVE  Steady(Ended(s), busy, FALSE)
<1>1. Steady(SendCritical(s, "final", TRUE), busy, FALSE)
  BY SteadyCritical DEF CriticalKinds
<1> QED BY <1>1, SteadyAfterDelivery DEF Ended

\* finish_process.
LEMMA RolesPaneExit == ASSUME RolesInv, IInv', PaneExit PROVE RolesInv'
<1> PICK remain \in BOOLEAN, dead \in SUBSET {c \in Clients : d[c].subscribed} :
      LET Barrier(s) == IF remain THEN s ELSE Frozen(s, engine)
          left == [c \in Clients |-> IF c \in dead THEN Ended(Barrier(d[c]))
                                     ELSE Barrier(d[c])]
      IN /\ Idle
         /\ d' = Broadcast(left, ChangedMessage(engine'))
         /\ UNCHANGED <<flush, cursor, transportVars, viewVars>>
  BY DEF PaneExit, Frozen, Ended
<1> DEFINE note == ChangedMessage(engine')
           Barrier(s) == IF remain THEN s ELSE Frozen(s, engine)
           left == [c \in Clients |-> IF c \in dead THEN Ended(Barrier(d[c]))
                                      ELSE Barrier(d[c])]
<1>1. /\ Idle /\ d' = Broadcast(left, note)
  OBVIOUS
<1>2. UNCHANGED <<flush, writer, sentAcks, peer>>
  BY DEF transportVars, viewVars
<1>3. note \in Message /\ ~Snapshot(note)
  BY EngineStays, ChangedMessages
<1>4. \A c \in Clients : left[c] = IF c \in dead THEN Ended(Barrier(d[c])) ELSE Barrier(d[c])
  OBVIOUS
<1>5. ASSUME NEW c \in Clients
      PROVE  /\ Steady(Barrier(d[c]), Busy(c), FALSE)
             /\ c \in dead => Serving(Barrier(d[c]))
             /\ d[c] = Absent => Barrier(d[c]) = Absent /\ c \notin dead
  <2>1. Steady(d[c], Busy(c), FALSE) /\ Busy(c) \in BOOLEAN
    BY IdleSteady
  <2>2. c \in dead => d[c].subscribed
    OBVIOUS
  <2>3. /\ Steady(Frozen(d[c], engine), Busy(c), FALSE)
        /\ d[c].subscribed => Serving(Frozen(d[c], engine))
    BY <2>1, RolesTypes, SteadyBarrier DEF Frozen
  <2>4. d[c] = Absent => Frozen(d[c], engine) = Absent
    BY AbsentInert DEF Frozen, FinalNativeBarrier
  <2> QED BY <2>1, <2>2, <2>3, <2>4, AbsentInert DEF Serving
<1> HIDE DEF note, left, Barrier
<1>6. ASSUME NEW c \in Clients
      PROVE  Steady(d'[c], Busy(c), FALSE) /\ (d[c] = Absent => d'[c] = Absent)
  <2>1. Busy(c) \in BOOLEAN
    BY IdleSteady
  <2>2. Steady(left[c], Busy(c), FALSE) /\ (d[c] = Absent => left[c] = Absent)
    BY <1>4, <1>5, <2>1, EndedSteady
  <2>3. Steady(Broadcast(left, note)[c], Busy(c), FALSE)
    BY <1>3, <2>1, <2>2, BroadcastSteady
  <2>4. left[c] = Absent => Broadcast(left, note)[c] = Absent
    BY BroadcastAbsent
  <2> QED BY <1>1, <2>2, <2>3, <2>4
<1> QED BY <1>1, <1>2, <1>6, HandlerKeeps

\* input_failed.
LEMMA RolesInputFails == ASSUME RolesInv, IInv', InputFails PROVE RolesInv'
<1> DEFINE Failed(s) == Disconnected(SendCritical(s, "aborted", FALSE))
<1>1. /\ Idle
      /\ d' = [c \in Clients |-> IF d[c].subscribed THEN Failed(d[c]) ELSE d[c]]
      /\ UNCHANGED <<flush, cursor, transportVars, viewVars>>
  BY DEF InputFails
<1>2. UNCHANGED <<flush, writer, sentAcks, peer>>
  BY <1>1 DEF transportVars, viewVars
<1>3. ASSUME NEW c \in Clients
      PROVE  Steady(d'[c], Busy(c), FALSE) /\ (d[c] = Absent => d'[c] = Absent)
  <2>1. Steady(d[c], Busy(c), FALSE) /\ Busy(c) \in BOOLEAN
    BY <1>1, IdleSteady
  <2>2. d[c].subscribed => Steady(SendCritical(d[c], "aborted", FALSE), Busy(c), FALSE)
    BY <2>1, SteadyCritical DEF CriticalKinds, Serving
  <2>3. d[c].subscribed => Steady(Failed(d[c]), Busy(c), FALSE)
    BY <2>1, <2>2, SteadyDisconnected
  <2>4. d'[c] = IF d[c].subscribed THEN Failed(d[c]) ELSE d[c]
    BY <1>1
  <2> HIDE DEF Failed
  <2> QED BY <2>1, <2>3, <2>4, AbsentInert
<1> QED BY <1>1, <1>2, <1>3, HandlerKeeps

\* Event::Connect.
LEMMA RolesConnect == ASSUME RolesInv, IInv', NEW c \in Clients, Connect(c) PROVE RolesInv'
<1> DEFINE r == [d[c] EXCEPT !.live = TRUE]
<1>1. d[c] = Absent /\ writer[c] = "idle" /\ c \notin sentAcks
  BY DEF Connect, RolesInv, AwayOK
<1>2. d' = [d EXCEPT ![c] = r] /\ \A b \in Clients : d'[b] = IF b = c THEN r ELSE d[b]
  BY RolesTypes DEF Connect
<1>3. /\ r \in DeliveryRecord /\ r.live /\ ~r.subscribed /\ ~r.needs /\ ~r.requested
      /\ ~Closing(r) /\ r.queue = <<>> /\ r.chan = <<>> /\ ~r.pending
  <2>1. r = [Absent EXCEPT !.live = TRUE] /\ Absent \in DeliveryRecord
    BY <1>1, AbsentType
  <2>2. /\ r \in DeliveryRecord /\ r.live /\ r.subscribed = Absent.subscribed
        /\ r.needs = Absent.needs /\ r.requested = Absent.requested
        /\ r.closing = Absent.closing /\ r.queue = Absent.queue
        /\ r.chan = Absent.chan /\ r.pending = Absent.pending
    BY <2>1 DEF DeliveryRecord
  <2> QED BY <2>2, AbsentInert DEF Closing
<1> HIDE DEF r
<1>4. Steady(r, FALSE, FALSE)
  BY <1>3, EmptyNoted DEF Steady, Roles, Noted, Engaged
<1>5. UNCHANGED <<flush, writer, sentAcks>> /\ peer' = [peer EXCEPT ![c] = "open"] /\ Idle
  BY DEF Connect, transportVars
<1>6. \A b \in Clients : (Busy(b)' <=> Busy(b)) /\ (Visiting(b)' <=> Visiting(b))
                          /\ ~Busy(c) /\ ~Visiting(c)
  BY <1>1, <1>5 DEF Busy, Visiting, Idle
<1>7. AllSteady'
  <2> SUFFICES ASSUME NEW b \in Clients PROVE Steady(d'[b], Busy(b)', Visiting(b)')
    BY DEF AllSteady
  <2>1. CASE b = c
    BY <1>2, <1>4, <1>6, <2>1 DEF Steady, Noted
  <2>2. CASE b # c
    <3>1. Steady(d[b], Busy(b), Visiting(b)) /\ d'[b] = d[b]
      BY <1>2, <2>2, RolesTypes
    <3> QED BY <1>6, <3>1 DEF Steady, Noted
  <2> QED BY <2>1, <2>2
<1>8. OneNote'
  BY <1>5 DEF RolesInv, OneNote
<1>9. FlushOK'
  BY <1>5 DEF RolesInv, FlushOK, Idle
<1>10. AwayOK'
  <2>1. \A b \in Clients : peer'[b] = "away" => peer[b] = "away" /\ b # c
    BY <1>5 DEF RolesInv, IInv, RestOK
  <2> QED BY <1>2, <1>5, <2>1 DEF RolesInv, AwayOK
<1> QED BY <1>7, <1>8, <1>9, <1>10 DEF RolesInv

\* request and drive, of a subscribing command.
LEMMA RolesHandleRequest == ASSUME RolesInv, IInv', NEW c \in Clients, HandleRequest(c) PROVE RolesInv'
<1> DEFINE u == Subscribed(d[c])
           v == SendCritical(u, "critical", FALSE)
           r == IF d[c].live /\ ~Closing(d[c])
                THEN SendSnapshot(v, Checkpoint(engine), Fits(engine))
                ELSE d[c]
<1>1. /\ Idle /\ d' = [d EXCEPT ![c] = r]
      /\ UNCHANGED <<flush, writer, sentAcks, peer>>
  BY RolesTypes DEF HandleRequest, Subscribed, transportVars
<1>2. /\ Steady(d[c], Busy(c), FALSE) /\ Busy(c) \in BOOLEAN /\ d[c] \in DeliveryRecord
      /\ Checkpoint(engine) \in Message /\ Fits(engine) \in BOOLEAN
  BY <1>1, IdleSteady, RolesTypes
<1>3. d[c] = Absent => r = Absent
  BY AbsentInert
<1>4. CASE d[c].live /\ ~Closing(d[c])
  <2> HIDE DEF u
  <2>1. /\ u \in DeliveryRecord
        /\ u.subscribed /\ Engaged(u)
        /\ u.live = d[c].live /\ u.rx = d[c].rx
        /\ u.chan = d[c].chan /\ u.queue = d[c].queue
        /\ u.needs = d[c].needs /\ u.requested = d[c].requested
        /\ u.pending = d[c].pending
        /\ (Closing(u) <=> Closing(d[c]))
    BY <1>2, SubscribedFields DEF u
  <2>2. Steady(u, Busy(c), FALSE) /\ Serving(u)
    BY <1>2, <1>4, <2>1 DEF Steady, Roles, Noted, Serving
  <2>3. Steady(v, Busy(c), FALSE) /\ Serving(v)
    BY <1>2, <2>2, SteadyCritical DEF CriticalKinds
  <2> HIDE DEF v
  <2>4. Steady(r, Busy(c), FALSE)
    BY <1>2, <1>4, <2>3, SteadySnapshot
  <2> HIDE DEF r
  <2> QED BY <1>1, <1>3, <2>4, ClientKeeps
<1>5. CASE ~(d[c].live /\ ~Closing(d[c]))
  <2>1. Steady(r, Busy(c), FALSE)
    BY <1>2, <1>5
  <2> HIDE DEF r
  <2> QED BY <1>1, <1>3, <2>1, ClientKeeps
<1> QED BY <1>4, <1>5

\* dispatch_host_to.
LEMMA RolesHostEffect == ASSUME RolesInv, IInv', NEW c \in Clients, HostEffect(c) PROVE RolesInv'
<1> DEFINE r == SendCritical(d[c], "critical", FALSE)
<1>1. /\ Idle /\ d' = [d EXCEPT ![c] = r] /\ d[c].subscribed
      /\ UNCHANGED <<flush, writer, sentAcks, peer>>
  BY RolesTypes DEF HostEffect, transportVars, viewVars
<1>2. Steady(r, Busy(c), FALSE)
  BY <1>1, IdleSteady, SteadyCritical DEF CriticalKinds, Serving
<1> HIDE DEF r
<1> QED BY <1>1, <1>2, AbsentInert, ClientKeeps

\* detach_client.
LEMMA RolesDetach == ASSUME RolesInv, IInv', NEW c \in Clients, Detach(c) PROVE RolesInv'
<1> DEFINE v == SendCritical(d[c], "final", FALSE)
           r == DisconnectAfterDelivery(v)
<1>1. /\ Idle /\ d' = [d EXCEPT ![c] = r] /\ d[c].subscribed
      /\ UNCHANGED <<flush, writer, sentAcks, peer>>
  BY RolesTypes DEF Detach, transportVars, viewVars
<1>2. Steady(v, Busy(c), FALSE) /\ Busy(c) \in BOOLEAN
  BY <1>1, IdleSteady, SteadyCritical DEF CriticalKinds, Serving
<1> HIDE DEF v
<1>3. Steady(r, Busy(c), FALSE)
  BY <1>2, SteadyAfterDelivery
<1> HIDE DEF r
<1> QED BY <1>1, <1>3, AbsentInert, ClientKeeps

\* Event::Disconnect.
LEMMA RolesDisconnect == ASSUME RolesInv, IInv', NEW c \in Clients, HandleDisconnect(c) PROVE RolesInv'
<1> DEFINE r == Disconnected(d[c])
<1>1. /\ Idle /\ d' = [d EXCEPT ![c] = r] /\ d[c].live
      /\ UNCHANGED <<flush, writer, sentAcks, peer>>
  BY RolesTypes DEF HandleDisconnect, transportVars, viewVars
<1>2. Steady(r, Busy(c), FALSE)
  BY <1>1, IdleSteady, SteadyDisconnected
<1> HIDE DEF r
<1> QED BY <1>1, <1>2, AbsentInert, ClientKeeps

\* Event::SnapshotSent.
LEMMA RolesSnapshotSent == ASSUME RolesInv, IInv', NEW c \in Clients, HandleSnapshotSent(c) PROVE RolesInv'
<1> DEFINE r == SnapshotSent(d[c], Checkpoint(engine), Fits(engine))
<1>1. /\ Idle /\ d' = [d EXCEPT ![c] = r] /\ c \in sentAcks
      /\ sentAcks' = sentAcks \ {c}
      /\ UNCHANGED <<flush, writer, peer>>
  BY RolesTypes DEF HandleSnapshotSent, viewVars
<1>2. Steady(d[c], TRUE, FALSE) /\ writer[c] # "acking"
  <2>1. Busy(c) = TRUE
    BY <1>1 DEF Busy
  <2> QED BY <1>1, <2>1, IdleSteady DEF RolesInv, OneNote
<1>3. Steady(r, FALSE, FALSE)
  BY <1>2, RolesTypes, SteadySent
<1> HIDE DEF r
<1>4. \A b \in Clients : d'[b] = IF b = c THEN r ELSE d[b]
  BY <1>1, RolesTypes
<1>5. AllSteady'
  <2> SUFFICES ASSUME NEW b \in Clients PROVE Steady(d'[b], Busy(b)', Visiting(b)')
    BY DEF AllSteady
  <2>1. CASE b = c
    <3>1. ~Busy(c)'
      BY <1>1, <1>2 DEF Busy
    <3>2. Steady(d'[b], FALSE, FALSE)
      BY <1>3, <1>4, <2>1
    <3> QED BY <2>1, <3>1, <3>2 DEF Steady, Noted
  <2>2. CASE b # c
    <3>1. Steady(d[b], Busy(b), Visiting(b)) /\ d'[b] = d[b]
      BY <1>4, <2>2, RolesTypes
    <3>2. (Busy(b)' <=> Busy(b)) /\ (Visiting(b)' <=> Visiting(b))
      BY <1>1, <2>2 DEF Busy, Visiting
    <3> QED BY <3>1, <3>2 DEF Steady, Noted
  <2> QED BY <2>1, <2>2
<1>6. OneNote'
  BY <1>1 DEF RolesInv, OneNote
<1>7. FlushOK'
  BY <1>1 DEF RolesInv, FlushOK, Idle
<1>8. AwayOK'
  BY <1>1, <1>4 DEF RolesInv, AwayOK
<1> QED BY <1>5, <1>6, <1>7, <1>8 DEF RolesInv

\* A step of the flush or of a writer that replaces one record
LEMMA RecordKeeps ==
  ASSUME RolesInv, IInv', NEW c \in Clients, NEW r, d' = [d EXCEPT ![c] = r],
         peer' = peer, peer[c] # "away" \/ (r = d[c] /\ UNCHANGED <<writer, sentAcks>>),
         Steady(r, Busy(c)', Visiting(c)'),
         \A b \in Clients \ {c} :
           /\ Busy(b)' <=> Busy(b)
           /\ Visiting(b)' <=> Visiting(b)
           /\ writer'[b] = writer[b] /\ (b \in sentAcks' <=> b \in sentAcks),
         OneNote', FlushOK'
  PROVE  RolesInv'
<1>1. \A b \in Clients : d'[b] = IF b = c THEN r ELSE d[b]
  BY RolesTypes
<1>2. AllSteady'
  <2> SUFFICES ASSUME NEW b \in Clients PROVE Steady(d'[b], Busy(b)', Visiting(b)')
    BY DEF AllSteady
  <2>1. CASE b = c
    BY <1>1, <2>1
  <2>2. CASE b # c
    <3>1. Steady(d[b], Busy(b), Visiting(b)) /\ d'[b] = d[b]
      BY <1>1, <2>2, RolesTypes
    <3>2. (Busy(b)' <=> Busy(b)) /\ (Visiting(b)' <=> Visiting(b))
      BY <2>2
    <3> QED BY <3>1, <3>2 DEF Steady, Noted
  <2> QED BY <2>1, <2>2
<1>3. AwayOK'
  BY <1>1 DEF RolesInv, AwayOK
<1> QED BY <1>2, <1>3 DEF RolesInv

\* A client with anything to flush is connected.
LEMMA NotAway ==
  ASSUME RolesInv, NEW c \in Clients,
         d[c].live \/ Closing(d[c]) \/ HasPending(d[c]) \/ d[c].chan # <<>>
  PROVE  peer[c] # "away"
  BY AbsentInert DEF RolesInv, AwayOK, HasPending

\* Ten seconds pass for a closing client.
LEMMA RolesTimeout == ASSUME RolesInv, IInv', NEW c \in Clients, CloseTimeout(c) PROVE RolesInv'
<1> DEFINE r == [d[c] EXCEPT !.closing = "expired"]
<1>1. /\ d' = [d EXCEPT ![c] = r] /\ Closing(d[c])
      /\ UNCHANGED <<flush, writer, sentAcks, peer>>
  BY RolesTypes DEF CloseTimeout, transportVars, viewVars, Closing
<1>2. Steady(d[c], Busy(c), Visiting(c)) /\ d[c] \in DeliveryRecord
  BY RolesTypes
<1> HIDE DEF r
<1>3. /\ r \in DeliveryRecord
      /\ Closing(r) /\ Engaged(r)
      /\ r.live = d[c].live /\ r.subscribed = d[c].subscribed /\ r.rx = d[c].rx
      /\ r.chan = d[c].chan /\ r.queue = d[c].queue
      /\ r.needs = d[c].needs /\ r.requested = d[c].requested
      /\ r.pending = d[c].pending
  BY <1>2, ExpiredFields DEF r
<1>4. Steady(r, Busy(c), Visiting(c))
  BY <1>1, <1>2, <1>3 DEF Steady, Roles, Noted
<1>5. \A b \in Clients : d'[b] = IF b = c THEN r ELSE d[b]
  BY <1>1, RolesTypes
<1>6. \A b \in Clients : (Busy(b)' <=> Busy(b)) /\ (Visiting(b)' <=> Visiting(b))
  BY <1>1 DEF Busy, Visiting
<1>7. OneNote'
  BY <1>1 DEF RolesInv, OneNote
<1>8. FlushOK'
  BY <1>1, <1>3, <1>5 DEF RolesInv, FlushOK
<1>9. Steady(r, Busy(c)', Visiting(c)')
  BY <1>4, <1>6 DEF Steady, Noted
<1> QED BY <1>1, <1>6, <1>7, <1>8, <1>9, NotAway, RecordKeeps

\* flush_native finds the clients that lag.
LEMMA RolesFlushBegin == ASSUME RolesInv, IInv', FlushBegin PROVE RolesInv'
<1> DEFINE lagging == {c \in Clients : HasPending(d[c])}
<1>1. /\ ~flush.on
      /\ flush' = [on |-> TRUE, todo |-> lagging, ready |-> {}, moved |-> 0]
      /\ UNCHANGED <<d, writer, sentAcks, peer>>
  BY DEF FlushBegin, transportVars, viewVars, Idle
<1>2. flush'.on /\ flush'.todo = lagging /\ flush'.ready = {}
  BY <1>1
<1>3. AllSteady'
  <2> SUFFICES ASSUME NEW c \in Clients PROVE Steady(d'[c], Busy(c)', Visiting(c)')
    BY DEF AllSteady
  <2>1. Steady(d[c], Busy(c), FALSE)
    BY <1>1, IdleSteady DEF Idle
  <2>2. (Busy(c)' <=> Busy(c)) /\ d'[c] = d[c]
    BY <1>1 DEF Busy
  <2> QED BY <2>1, <2>2 DEF Steady, Noted
<1>4. OneNote' /\ AwayOK'
  BY <1>1 DEF RolesInv, OneNote, AwayOK
<1>5. FlushOK'
  BY <1>2 DEF FlushOK
<1> QED BY <1>3, <1>4, <1>5 DEF RolesInv

\* flush_native leaves one client.
LEMMA RolesFlushNext ==
  ASSUME RolesInv, IInv', NEW c \in Clients, flush.on, c \in flush.todo,
         NEW r, NEW ready \in BOOLEAN,
         FlushNext(c, r, ready), Steady(r, Busy(c), FALSE),
         ready => r.needs /\ r.queue = <<>> /\ ~r.pending /\ peer[c] # "away",
         peer[c] # "away" \/ r = d[c]
  PROVE  RolesInv'
<1>1. /\ d' = [d EXCEPT ![c] = r]
      /\ UNCHANGED <<writer, sentAcks, peer>>
      /\ flush.todo \in SUBSET Clients /\ flush.ready \in SUBSET Clients
  BY DEF FlushNext, transportVars, viewVars, RolesInv, IInv, RestOK, Flush
<1>2. /\ flush'.todo = flush.todo \ {c} /\ flush'.on = flush.on
      /\ flush'.ready = IF ready THEN flush.ready \union {c} ELSE flush.ready
  BY DEF FlushNext, RolesInv, IInv, RestOK, Flush
<1>3. \A b \in Clients : d'[b] = IF b = c THEN r ELSE d[b]
  BY <1>1, RolesTypes
<1>4. \A b \in Clients : Busy(b)' <=> Busy(b)
  BY <1>1 DEF Busy
<1>5. ~Visiting(c)' /\ \A b \in Clients \ {c} : Visiting(b)' <=> Visiting(b)
  BY <1>2 DEF Visiting
<1>6. OneNote'
  BY <1>1 DEF RolesInv, OneNote
<1>7. FlushOK'
  <2>1. c \notin flush.ready
    BY DEF RolesInv, FlushOK
  <2>2. \A b \in flush'.ready : IF b = c THEN ready ELSE b \in flush.ready
    BY <1>2, <2>1
  <2>3. \A b \in flush'.ready :
          /\ b \notin flush'.todo /\ peer'[b] # "away"
          /\ d'[b].queue = <<>>
          /\ d'[b].live => d'[b].needs /\ ~d'[b].pending
    BY <1>1, <1>2, <1>3, <2>2 DEF RolesInv, FlushOK
  <2> QED BY <1>2, <2>3 DEF FlushOK
<1>8. Steady(r, Busy(c)', Visiting(c)')
  BY <1>4, <1>5 DEF Steady, Noted
<1> QED BY <1>1, <1>4, <1>5, <1>6, <1>7, <1>8, RecordKeeps

\* flush_native moves one message.
LEMMA RolesFlushMove ==
  ASSUME RolesInv, IInv', NEW c \in Clients, flush.on, c \in flush.todo, FlushMove(c)
  PROVE  RolesInv'
<1> DEFINE r == MoveHead(d[c])
<1>1. /\ d' = [d EXCEPT ![c] = r]
      /\ UNCHANGED <<writer, sentAcks, peer>>
      /\ HeadMoves(d[c])
  BY RolesTypes DEF FlushMove, transportVars, viewVars
<1>2. flush'.todo = flush.todo /\ flush'.on = flush.on /\ flush'.ready = flush.ready
  BY DEF FlushMove, RolesInv, IInv, RestOK, Flush
<1>3. Steady(d[c], Busy(c), TRUE) /\ Busy(c) \in BOOLEAN /\ GoodRecord(d[c])
  <2>1. Visiting(c) = TRUE
    BY DEF Visiting
  <2> QED BY <2>1, RolesTypes
<1>4. Steady(r, Busy(c), TRUE)
  BY <1>1, <1>3, SteadyMoved
<1> HIDE DEF r
<1>5. \A b \in Clients : d'[b] = IF b = c THEN r ELSE d[b]
  BY <1>1, RolesTypes
<1>6. \A b \in Clients : (Busy(b)' <=> Busy(b)) /\ (Visiting(b)' <=> Visiting(b))
  BY <1>1, <1>2 DEF Busy, Visiting
<1>7. OneNote'
  BY <1>1 DEF RolesInv, OneNote
<1>8. FlushOK'
  <2>1. c \notin flush.ready
    BY DEF RolesInv, FlushOK
  <2>2. flush.ready \in SUBSET Clients
    BY DEF RolesInv, IInv, RestOK, Flush
  <2> QED BY <1>1, <1>2, <1>5, <2>1, <2>2 DEF RolesInv, FlushOK
<1>9. Visiting(c)' /\ (Busy(c)' <=> Busy(c))
  BY <1>2, <1>6 DEF Visiting
<1>10. Steady(r, Busy(c)', Visiting(c)')
  BY <1>4, <1>9 DEF Steady, Noted
<1>11. peer[c] # "away"
  BY <1>1, NotAway DEF HasPending, HeadMoves
<1> QED BY <1>1, <1>6, <1>7, <1>8, <1>10, <1>11, RecordKeeps

\* flush_native, at one client.
LEMMA RolesFlushClient == ASSUME RolesInv, IInv', FlushClient PROVE RolesInv'
<1> PICK c \in Clients :
      /\ flush.on /\ First(c, flush.todo)
      /\ FlushExpired(c) \/ FlushMove(c) \/ FlushHangs(c) \/ FlushStop(c)
  BY DEF FlushClient
<1>1. flush.on /\ c \in flush.todo
  BY DEF First
<1>2. Steady(d[c], Busy(c), Visiting(c)) /\ Busy(c) \in BOOLEAN /\ Visiting(c) \in BOOLEAN
      /\ d[c] \in DeliveryRecord
  BY RolesTypes
<1>3. Steady(Disconnected(d[c]), Busy(c), FALSE)
  BY <1>2, SteadyDisconnected
<1>4. CASE FlushExpired(c)
  <2>1. FlushNext(c, Disconnected(d[c]), FALSE) /\ Closing(d[c])
    BY <1>4 DEF FlushExpired, Closing
  <2> QED BY <1>1, <1>3, <2>1, NotAway, RolesFlushNext
<1>5. CASE FlushMove(c)
  BY <1>1, <1>5, RolesFlushMove
<1>6. CASE FlushHangs(c)
  <2>1. FlushNext(c, Disconnected(d[c]), FALSE) /\ HasPending(d[c])
    BY <1>6 DEF FlushHangs, HeadHangs, HasPending
  <2> QED BY <1>1, <1>3, <2>1, NotAway, RolesFlushNext
<1>7. CASE FlushStop(c)
  <2>1. CASE Closing(d[c]) /\ d[c].queue = <<>>
    <3>1. FlushNext(c, Disconnected(d[c]), FALSE)
      BY <1>7, <2>1 DEF FlushStop
    <3> QED BY <1>1, <1>3, <2>1, <3>1, NotAway, RolesFlushNext
  <2>2. CASE ~(Closing(d[c]) /\ d[c].queue = <<>>)
    <3> DEFINE ready == SnapshotReady(d[c])
    <3>1. FlushNext(c, d[c], ready)
      BY <1>7, <2>2 DEF FlushStop
    <3>2. Steady(d[c], Busy(c), FALSE)
      BY <1>2, <2>2 DEF Steady
    <3>3. ready \in BOOLEAN /\ (ready => d[c].needs /\ d[c].queue = <<>> /\ ~d[c].pending
                                          /\ peer[c] # "away")
      BY <1>2, RecordTypes, NotAway DEF SnapshotReady
    <3> HIDE DEF ready
    <3> QED BY <1>1, <3>1, <3>2, <3>3, RolesFlushNext
  <2> QED BY <2>1, <2>2
<1> QED BY <1>4, <1>5, <1>6, <1>7

\* A client lost since the flush found it ready is not paid.
LEMMA RecoverGone ==
  ASSUME NEW s, NEW busy \in BOOLEAN, NEW mid \in BOOLEAN, Steady(s, busy, mid), ~s.live,
         NEW snap, NEW fits \in BOOLEAN
  PROVE  Recover(s, snap, fits) = Cleared(s) /\ Steady(Cleared(s), busy, mid)
<1> DEFINE u == Cleared(s)
<1>1. s \in DeliveryRecord /\ Roles(s) /\ Noted(s, busy)
  BY DEF Steady
<1>2. /\ u \in DeliveryRecord
      /\ ~u.requested /\ ~u.needs /\ u.queue = <<>>
      /\ u.live = s.live /\ u.subscribed = s.subscribed /\ u.rx = s.rx
      /\ u.chan = s.chan /\ u.pending = s.pending
      /\ (Closing(u) <=> Closing(s)) /\ (Engaged(u) <=> Engaged(s))
  BY <1>1, ClearedFields
<1> HIDE DEF u
<1>3. SnapshotNow(u, snap, fits) = u
  BY <1>2 DEF SnapshotNow, SendNative, SendCritical
<1>4. Recover(s, snap, fits) = u
  BY <1>2, <1>3 DEF Recover, u, Cleared
<1>5. Steady(u, busy, mid)
  BY <1>1, <1>2 DEF Steady, Roles, Noted, Engaged
<1> QED BY <1>4, <1>5 DEF u

\* flush_native pays one debt.
LEMMA RolesFlushEnd == ASSUME RolesInv, IInv', FlushEnd PROVE RolesInv'
<1>1. /\ flush.on /\ flush.todo = {} /\ flush' = NotFlushing
      /\ UNCHANGED <<writer, sentAcks, peer>>
  BY DEF FlushEnd, transportVars, viewVars
<1>2. ~flush'.on /\ flush'.todo = {} /\ flush'.ready = {}
  BY <1>1 DEF NotFlushing
<1>3. \A b \in Clients : /\ Visiting(b) = FALSE /\ Visiting(b)' = FALSE
                          /\ (Busy(b)' <=> Busy(b)) /\ Busy(b)' \in BOOLEAN
  BY <1>1, <1>2 DEF Visiting, Busy
<1>4. OneNote' /\ FlushOK'
  BY <1>1, <1>2 DEF RolesInv, OneNote, FlushOK
<1>5. CASE UNCHANGED <<d, cursor>>
  <2>1. AllSteady'
    <3> SUFFICES ASSUME NEW b \in Clients PROVE Steady(d'[b], Busy(b)', Visiting(b)')
      BY DEF AllSteady
    <3>1. Steady(d[b], Busy(b), FALSE)
      BY <1>3, RolesTypes
    <3> QED BY <1>3, <1>5, <3>1 DEF Steady, Noted
  <2>2. AwayOK'
    BY <1>1, <1>5 DEF RolesInv, AwayOK
  <2> QED BY <1>4, <2>1, <2>2 DEF RolesInv
<1>6. ASSUME NEW c \in Clients, First(c, Turn(flush.ready)),
             d' = [d EXCEPT ![c] = Recover(@, Checkpoint(engine), Fits(engine))]
      PROVE  RolesInv'
  <2> DEFINE r == Recover(d[c], Checkpoint(engine), Fits(engine))
  <2>1. d' = [d EXCEPT ![c] = r]
    BY <1>6, RolesTypes
  <2>2. c \in flush.ready
    BY <1>6 DEF First, Turn
  <2>3. peer[c] # "away" /\ d[c].queue = <<>> /\ (d[c].live => d[c].needs /\ ~d[c].pending)
    BY <2>2 DEF RolesInv, FlushOK
  <2>4. Steady(d[c], Busy(c), FALSE) /\ Busy(c) \in BOOLEAN
        /\ Checkpoint(engine) \in Message /\ Fits(engine) \in BOOLEAN
    BY <1>3, RolesTypes
  <2>5. Steady(r, Busy(c), FALSE)
    <3>1. CASE d[c].live
      BY <2>3, <2>4, <3>1, SteadyRecover
    <3>2. CASE ~d[c].live
      BY <2>3, <2>4, <3>2, RecoverGone
    <3> QED BY <3>1, <3>2
  <2> HIDE DEF r
  <2>6. Steady(r, Busy(c)', Visiting(c)')
    BY <1>3, <2>5 DEF Steady, Noted
  <2> QED BY <1>1, <1>3, <1>4, <2>1, <2>3, <2>6, RecordKeeps
<1> QED BY <1>5, <1>6 DEF FlushEnd

-----------------------------------------------------------------------------
(* Writers *)

\* What a writer changes of a record.
LEMMA TakenFields ==
  ASSUME NEW s, GoodRecord(s), s.chan # <<>>, NEW t, t = TakeHead(s)
  PROVE  /\ t \in DeliveryRecord
         /\ t.chan = Tail(s.chan)
         /\ t.live = s.live /\ t.subscribed = s.subscribed /\ t.rx = s.rx
         /\ t.queue = s.queue /\ t.needs = s.needs /\ t.closing = s.closing
         /\ t.pending = s.pending
         /\ t.requested = s.requested /\ t.issued = s.issued
         /\ (Closing(t) <=> Closing(s)) /\ (Engaged(t) <=> Engaged(s))
<1>1. s \in DeliveryRecord /\ t \in DeliveryRecord
  BY TakeHeadGood DEF GoodRecord
<1>2. /\ t.chan = Tail(s.chan)
      /\ t.live = s.live /\ t.subscribed = s.subscribed /\ t.rx = s.rx
      /\ t.queue = s.queue /\ t.needs = s.needs /\ t.closing = s.closing
      /\ t.pending = s.pending
      /\ t.requested = s.requested /\ t.issued = s.issued
  BY <1>1 DEF TakeHead, DeliveryRecord
<1> QED BY <1>1, <1>2 DEF Closing, Engaged

\* The note of the snapshot a writer takes is the only one.
LEMMA SteadyTaken ==
  ASSUME NEW s, NEW busy \in BOOLEAN, NEW mid \in BOOLEAN, Steady(s, busy, mid),
         GoodRecord(s), s.chan # <<>>
  PROVE  /\ Steady(TakeHead(s), busy \/ Snapshot(Head(s.chan)), mid)
         /\ Snapshot(Head(s.chan)) => ~busy
<1> DEFINE t == TakeHead(s)
           m == Head(s.chan)
<1>1. s \in DeliveryRecord /\ s.chan \in Seq(Message) /\ Noted(s, busy)
  BY RecordFacts DEF Steady
<1>2. /\ OneSnapshot(Tail(s.chan))
      /\ HasSnapshot(Tail(s.chan)) => HasSnapshot(s.chan)
      /\ ~(HasSnapshot(Tail(s.chan)) /\ Snapshot(m))
      /\ HasSnapshot(s.chan) => HasSnapshot(Tail(s.chan)) \/ Snapshot(m)
  BY <1>1, NotedTail DEF Noted
<1>3. Snapshot(m) => HasSnapshot(s.chan)
  <2>1. 1 \in 1..Len(s.chan) /\ m = s.chan[1]
    BY <1>1
  <2> QED BY <2>1 DEF HasSnapshot
<1> HIDE DEF t, m
<1>4. /\ t \in DeliveryRecord
      /\ t.chan = Tail(s.chan)
      /\ t.live = s.live /\ t.subscribed = s.subscribed /\ t.rx = s.rx
      /\ t.queue = s.queue /\ t.needs = s.needs
      /\ t.pending = s.pending
      /\ t.requested = s.requested
      /\ (Closing(t) <=> Closing(s)) /\ (Engaged(t) <=> Engaged(s))
  BY TakenFields DEF t
<1>5. Snapshot(m) => ~busy
  BY <1>1, <1>3 DEF Noted
<1>6. Noted(t, busy \/ Snapshot(m))
  BY <1>1, <1>2, <1>3, <1>4, <1>5 DEF Noted
<1>7. Steady(t, busy \/ Snapshot(m), mid)
  BY <1>4, <1>6 DEF Steady, Roles
<1> QED BY <1>5, <1>7 DEF t, m

\* A writer takes a message.
LEMMA RolesTake == ASSUME RolesInv, IInv', NEW c \in Clients, Take(c) PROVE RolesInv'
<1> DEFINE m == Head(d[c].chan)
           r == TakeHead(d[c])
<1>1. /\ d' = [d EXCEPT ![c] = r] /\ d[c].chan # <<>>
      /\ writer[c] = "idle" /\ peer[c] = "open"
      /\ UNCHANGED <<flush, peer>>
  BY RolesTypes DEF Take, viewVars
<1>2. \/ ~Snapshot(m) /\ UNCHANGED <<writer, sentAcks>>
      \/ Snapshot(m) /\ sentAcks' = sentAcks \union {c} /\ UNCHANGED writer
      \/ Snapshot(m) /\ writer' = [writer EXCEPT ![c] = "acking"] /\ UNCHANGED sentAcks
  BY DEF Take
<1>3. writer \in [Clients -> {"idle", "acking", "gone"}]
  BY DEF RolesInv, IInv, RestOK
<1>4. /\ Steady(d[c], Busy(c), Visiting(c)) /\ Busy(c) \in BOOLEAN /\ Visiting(c) \in BOOLEAN
      /\ GoodRecord(d[c])
  BY RolesTypes
<1>5. Steady(r, Busy(c) \/ Snapshot(m), Visiting(c)) /\ (Snapshot(m) => ~Busy(c))
  BY <1>1, <1>4, SteadyTaken
<1> HIDE DEF r, m
<1>6. Busy(c)' <=> Busy(c) \/ Snapshot(m)
  BY <1>1, <1>2, <1>3 DEF Busy
<1>7. \A b \in Clients \ {c} : (Busy(b)' <=> Busy(b)) /\ writer'[b] = writer[b]
                                /\ (b \in sentAcks' <=> b \in sentAcks)
  BY <1>2, <1>3 DEF Busy
<1>8. \A b \in Clients : Visiting(b)' <=> Visiting(b)
  BY <1>1 DEF Visiting
<1>9. Steady(r, Busy(c)', Visiting(c)')
  BY <1>5, <1>6, <1>8 DEF Steady, Noted
<1>10. OneNote'
  <2>1. ~(writer'[c] = "acking" /\ c \in sentAcks')
    BY <1>1, <1>2, <1>3, <1>5 DEF RolesInv, OneNote, Busy
  <2> QED BY <1>7, <2>1 DEF RolesInv, OneNote
<1>11. FlushOK'
  <2>1. \A b \in Clients : d'[b] = IF b = c THEN r ELSE d[b]
    BY <1>1, RolesTypes
  <2>2. r.needs = d[c].needs /\ r.queue = d[c].queue /\ r.pending = d[c].pending
        /\ r.live = d[c].live
    BY <1>1, <1>4, TakenFields DEF r
  <2>3. flush.ready \in SUBSET Clients
    BY DEF RolesInv, IInv, RestOK, Flush
  <2> QED BY <1>1, <2>1, <2>2, <2>3 DEF RolesInv, FlushOK
<1> QED BY <1>1, <1>7, <1>8, <1>9, <1>10, <1>11, RecordKeeps

\* A writer reports a snapshot.
LEMMA RolesAcknowledge == ASSUME RolesInv, IInv', NEW c \in Clients, Acknowledge(c) PROVE RolesInv'
<1>1. /\ UNCHANGED <<d, flush, peer>> /\ writer[c] = "acking"
      /\ writer' = [writer EXCEPT ![c] = "idle"] /\ sentAcks' = sentAcks \union {c}
  BY DEF Acknowledge, ownerVars, viewVars
<1>2. writer \in [Clients -> {"idle", "acking", "gone"}]
  BY DEF RolesInv, IInv, RestOK
<1>3. \A b \in Clients : (Busy(b)' <=> Busy(b)) /\ (Visiting(b)' <=> Visiting(b))
  BY <1>1, <1>2 DEF Busy, Visiting
<1>4. AllSteady'
  <2> SUFFICES ASSUME NEW b \in Clients PROVE Steady(d'[b], Busy(b)', Visiting(b)')
    BY DEF AllSteady
  <2>1. Steady(d[b], Busy(b), Visiting(b)) /\ d'[b] = d[b]
    BY <1>1, RolesTypes
  <2> QED BY <1>3, <2>1 DEF Steady, Noted
<1>5. OneNote'
  BY <1>1, <1>2 DEF RolesInv, OneNote
<1>6. FlushOK'
  BY <1>1 DEF RolesInv, FlushOK
<1>7. AwayOK'
  BY <1>1, <1>2 DEF RolesInv, AwayOK
<1> QED BY <1>4, <1>5, <1>6, <1>7 DEF RolesInv

\* A writer finds its peer gone.
LEMMA RolesWriteFails == ASSUME RolesInv, IInv', NEW c \in Clients, WriteFails(c) PROVE RolesInv'
<1> DEFINE s == IF d[c].chan = <<>> THEN d[c] ELSE TakeHead(d[c])
           r == [s EXCEPT !.chan = <<>>, !.rx = FALSE]
<1>1. /\ d' = [d EXCEPT ![c] = r]
      /\ writer[c] = "idle" /\ peer[c] = "closed"
      /\ writer' = [writer EXCEPT ![c] = "gone"]
      /\ UNCHANGED <<flush, peer, sentAcks>>
  BY RolesTypes DEF WriteFails, viewVars
<1>2. Steady(d[c], Busy(c), Visiting(c)) /\ GoodRecord(d[c]) /\ d[c] \in DeliveryRecord
  BY RolesTypes
<1>3. /\ s \in DeliveryRecord
      /\ s.live = d[c].live /\ s.subscribed = d[c].subscribed
      /\ s.queue = d[c].queue /\ s.needs = d[c].needs
      /\ s.closing = d[c].closing
      /\ s.pending = d[c].pending
      /\ s.requested = d[c].requested
  BY <1>2, TakenFields
<1> HIDE DEF s
<1>4. /\ r \in DeliveryRecord
      /\ r.chan = <<>> /\ ~r.rx
      /\ r.live = s.live /\ r.subscribed = s.subscribed
      /\ r.queue = s.queue /\ r.needs = s.needs
      /\ r.closing = s.closing
      /\ r.pending = s.pending
      /\ r.requested = s.requested
  <2>1. <<>> \in Seq(Message)
    OBVIOUS
  <2> QED BY <1>3, <2>1 DEF DeliveryRecord
<1> HIDE DEF r
<1>5. Steady(r, Busy(c)', Visiting(c)')
  <2>1. (Visiting(c)' <=> Visiting(c))
    BY <1>1 DEF Visiting
  <2>2. Noted(r, Busy(c)')
    BY <1>4, EmptyNoted DEF Noted
  <2> QED BY <1>2, <1>3, <1>4, <2>1, <2>2 DEF Steady, Roles, Engaged, Closing
<1>6. writer \in [Clients -> {"idle", "acking", "gone"}]
  BY DEF RolesInv, IInv, RestOK
<1>7. \A b \in Clients \ {c} : (Busy(b)' <=> Busy(b)) /\ (Visiting(b)' <=> Visiting(b))
                                /\ writer'[b] = writer[b]
                                /\ (b \in sentAcks' <=> b \in sentAcks)
  BY <1>1, <1>6 DEF Busy, Visiting
<1>8. OneNote'
  BY <1>1, <1>6 DEF RolesInv, OneNote
<1>9. FlushOK'
  <2>1. \A b \in Clients : d'[b] = IF b = c THEN r ELSE d[b]
    BY <1>1, RolesTypes
  <2>2. flush.ready \in SUBSET Clients
    BY DEF RolesInv, IInv, RestOK, Flush
  <2> QED BY <1>1, <1>3, <1>4, <2>1, <2>2 DEF RolesInv, FlushOK
<1> QED BY <1>1, <1>5, <1>7, <1>8, <1>9, RecordKeeps

\* Steps that touch neither records nor acknowledgements
LEMMA OthersKeep ==
  ASSUME RolesInv, IInv', UNCHANGED <<d, flush, sentAcks>>,
         \A b \in Clients :
           /\ writer'[b] = "acking" <=> writer[b] = "acking"
           /\ peer'[b] = "away" => peer[b] = "away" /\ writer'[b] = writer[b]
  PROVE  RolesInv'
<1>1. \A b \in Clients : (Busy(b)' <=> Busy(b)) /\ (Visiting(b)' <=> Visiting(b))
  BY DEF Busy, Visiting
<1>2. AllSteady'
  <2> SUFFICES ASSUME NEW b \in Clients PROVE Steady(d'[b], Busy(b)', Visiting(b)')
    BY DEF AllSteady
  <2>1. Steady(d[b], Busy(b), Visiting(b)) /\ d'[b] = d[b]
    BY RolesTypes
  <2> QED BY <1>1, <2>1 DEF Steady, Noted
<1>3. OneNote' /\ AwayOK'
  BY DEF RolesInv, OneNote, AwayOK
<1>4. FlushOK'
  <2>1. \A b \in flush.ready : b \in Clients /\ peer'[b] # "away"
    BY DEF RolesInv, IInv, RestOK, Flush, FlushOK
  <2> QED BY <2>1 DEF RolesInv, FlushOK
<1> QED BY <1>2, <1>3, <1>4 DEF RolesInv

\* Readers, ends of connections and ends of writers
LEMMA RolesOthers ==
  ASSUME RolesInv, IInv', NEW c \in Clients,
         WriterEnds(c) \/ Receive(c) \/ ReceiveEnd(c) \/ PeerCloses(c)
  PROVE  RolesInv'
<1>1. writer \in [Clients -> {"idle", "acking", "gone"}]
      /\ peer \in [Clients -> {"away", "open", "closed"}]
  BY DEF RolesInv, IInv, RestOK
<1>2. CASE WriterEnds(c)
  BY <1>1, <1>2, OthersKeep DEF WriterEnds, ownerVars, viewVars
<1>3. CASE Receive(c) \/ ReceiveEnd(c) \/ PeerCloses(c)
  <2>1. UNCHANGED <<d, flush, sentAcks, writer>>
    BY <1>3 DEF Receive, ReceiveEnd, PeerCloses, ownerVars, transportVars
  <2>2. \A b \in Clients : peer'[b] = "away" => peer[b] = "away"
    BY <1>1, <1>3 DEF Receive, ReceiveEnd, PeerCloses
  <2> QED BY <2>1, <2>2, OthersKeep
<1> QED BY <1>2, <1>3

\* A step of nothing modelled
LEMMA RolesStutter == ASSUME RolesInv, IInv', UNCHANGED vars PROVE RolesInv'
  BY OthersKeep DEF vars

\* The first layer is inductive.
LEMMA RolesNext == RolesInv /\ [Next]_vars => RolesInv'
<1> SUFFICES ASSUME RolesInv, [Next]_vars PROVE RolesInv'
  OBVIOUS
<1>1. IInv'
  BY NextIInv DEF RolesInv
<1> QED
  BY <1>1, RolesOutput, RolesChange, RolesDragChanges, RolesPaneExit, RolesInputFails, RolesFlushBegin, RolesFlushClient,
     RolesFlushEnd, RolesConnect, RolesHandleRequest, RolesHostEffect, RolesDetach, RolesSnapshotSent,
     RolesDisconnect, RolesTimeout, RolesTake, RolesAcknowledge, RolesWriteFails, RolesOthers, RolesStutter
     DEF Next, Owner, Transport, Peers, FlushNative

\* The first layer always holds.
LEMMA RolesAlways == Spec => []RolesInv
  BY RolesInit, RolesNext, PTL DEF Spec

-----------------------------------------------------------------------------

\* A client on its way out gets no broadcasts, owes no snapshot, answers no
\* request for one, and stays only while final messages or its flush remain
\* (disconnect_after_native_delivery).
THEOREM ClosingStaysInert == Spec => []ClosingIsInert
<1>1. RolesInv => ClosingIsInert
  <2> SUFFICES ASSUME RolesInv, NEW c \in Clients, Closing(d[c])
               PROVE  /\ d[c].live
                      /\ ~d[c].subscribed /\ ~d[c].needs /\ ~d[c].requested
                      /\ d[c].queue = <<>> => flush.on /\ c \in flush.todo
    BY DEF ClosingIsInert
  <2>1. Steady(d[c], Busy(c), Visiting(c))
    BY RolesTypes
  <2> QED BY <2>1 DEF Steady, Roles, Visiting
<1> QED BY <1>1, RolesAlways, PTL

\* Counting the snapshots in a channel
LEMMA FewSnapshots ==
  ASSUME NEW chan \in Seq(Message), OneSnapshot(chan)
  PROVE  Cardinality(SnapshotsIn(chan)) = IF HasSnapshot(chan) THEN 1 ELSE 0
<1>1. SnapshotsIn(chan) = {i \in 1..Len(chan) : Snapshot(chan[i])}
  BY DEF SnapshotsIn
<1>2. CASE HasSnapshot(chan)
  <2>1. PICK i \in 1..Len(chan) : Snapshot(chan[i])
    BY <1>2 DEF HasSnapshot
  <2>2. SnapshotsIn(chan) = {i}
    BY <1>1, <2>1 DEF OneSnapshot
  <2> QED BY <1>2, <2>2, FS_Singleton
<1>3. CASE ~HasSnapshot(chan)
  <2>1. SnapshotsIn(chan) = {}
    BY <1>1, <1>3 DEF HasSnapshot
  <2> QED BY <1>3, <2>1, FS_EmptySet
<1> QED BY <1>2, <1>3

\* At most one snapshot of a client is held outside the byte budget, and the
\* owner's note of it is neither lost nor stale while the writer lives
\* (snapshots_pending, message_bytes).
THEOREM OneSnapshotUnderWay == Spec => []OneSnapshotOutstanding
<1>1. RolesInv => OneSnapshotOutstanding
  <2> SUFFICES ASSUME RolesInv, NEW c \in Clients
               PROVE  /\ Outstanding(c) <= 1
                      /\ d[c].live /\ d[c].rx => (d[c].pending <=> Outstanding(c) = 1)
    BY DEF OneSnapshotOutstanding
  <2>1. Noted(d[c], Busy(c)) /\ d[c].chan \in Seq(Message)
    BY RolesTypes, RecordFacts DEF Steady
  <2>2. ~(writer[c] = "acking" /\ c \in sentAcks)
    BY DEF RolesInv, OneNote
  <2>3. Cardinality(SnapshotsIn(d[c].chan)) = IF HasSnapshot(d[c].chan) THEN 1 ELSE 0
    BY <2>1, FewSnapshots DEF Noted
  <2>4. Outstanding(c) = IF HasSnapshot(d[c].chan) \/ Busy(c) THEN 1 ELSE 0
    BY <2>1, <2>2, <2>3 DEF Noted, Outstanding, Busy
  <2> QED BY <2>1, <2>4 DEF Noted
<1> QED BY <1>1, RolesAlways, PTL

-----------------------------------------------------------------------------
(* What the views replay *)

\* The pane is no longer in the model.
Removed == engine.pane = "removed"

\* The last output a terminal was given
Latest(outputs) == IF outputs = <<>> THEN 0 ELSE outputs[Len(outputs)]

\* What a view shows, as replays describe it
Seen(v) == [crit |-> v.crit, n |-> Latest(v.shown), seq |-> v.seq,
            drag |-> v.drag, torn |-> v.torn, mode |-> v.pane]

\* c's view is on its path.
Follows(c) ==
  Track(wire[c], d[c], Seen(view[c]), engine.outs, engine.seq, Removed, TRUE)

\* Every view that still reads
AllFollow == \A c \in Clients : peer[c] # "closed" => view[c].status = "open" /\ Follows(c)

\* A view before it connects
Fresh == \A c \in Clients : peer[c] = "away" => wire[c] = <<>> /\ view[c] = NewView

\* What a view shows, also after it ended, is a state the pane went through,
\* and if it closed the pane its final one.  A torn view shows no output that
\* the pane has not produced.
Honest(v, o, r) ==
  /\ v.torn \/ v.shown = Prefix(Len(v.shown))
  /\ Latest(v.shown) <= o
  /\ v.pane = "closed" \/ (v.pane = "open" /\ v.status = "destroyed")
     => (v.torn \/ Len(v.shown) = o) /\ r

\* Every view, also one that ended
AllHonest == \A c \in Clients : Honest(view[c], engine.outs, Removed)

\* The second layer
FollowInv == AllFollow /\ Fresh /\ AllHonest

\* Both layers
ReplayInv == RolesInv /\ FollowInv

\* The last output is a number,
LEMMA LatestNat ==
  ASSUME NEW s \in Seq(Nat)
  PROVE  Latest(s) \in Nat
<1>1. s # <<>> => Len(s) \in 1..Len(s)
  OBVIOUS
<1> QED BY <1>1 DEF Latest

\* and the one appended.
LEMMA LatestAppend ==
  ASSUME NEW s \in Seq(Nat), NEW x \in Nat
  PROVE  Latest(Append(s, x)) = x
<1> DEFINE t == Append(s, x)
<1>1. t # <<>> /\ t[Len(t)] = x
  OBVIOUS
<1> HIDE DEF t
<1> QED BY <1>1 DEF Latest, t

\* The types that the proofs about replays need
LEMMA ReplayTypes ==
  ASSUME RolesInv
  PROVE  /\ engine.outs \in Nat /\ engine.seq \in Nat /\ Removed \in BOOLEAN
         /\ engine \in Engine
         /\ IsCheckpoint(Checkpoint(engine), engine.outs, engine.seq, Removed)
         /\ \A c \in Clients :
              /\ wire[c] \in Seq(Message) /\ view[c] \in View /\ view[c].shown \in Seq(Nat)
              /\ d[c] \in DeliveryRecord /\ Roles(d[c])
<1>1. engine \in Engine /\ wire \in [Clients -> Seq(Message)] /\ view \in [Clients -> View]
  BY DEF RolesInv, IInv, RestOK
<1>2. \A c \in Clients : d[c] \in DeliveryRecord /\ Roles(d[c])
  BY RolesTypes DEF Steady
<1>3. engine.outs \in Nat /\ engine.seq \in Nat
  BY <1>1 DEF Engine
<1>4. IsCheckpoint(Checkpoint(engine), engine.outs, engine.seq, Removed)
  BY DEF IsCheckpoint, Checkpoint, Removed
<1>5. \A c \in Clients : wire[c] \in Seq(Message) /\ view[c] \in View /\ view[c].shown \in Seq(Nat)
  BY <1>1 DEF View
<1> QED BY <1>1, <1>2, <1>3, <1>4, <1>5 DEF Removed

\* A step of the owner that leaves the views alone
LEMMA OwnerFollows ==
  ASSUME ReplayInv, RolesInv', UNCHANGED <<wire, view, peer>>,
         engine.outs <= engine'.outs,
         Removed => Removed' /\ engine'.outs = engine.outs,
         \A c \in Clients : peer[c] # "closed" =>
           Track(wire[c], d'[c], Seen(view[c]), engine'.outs, engine'.seq, Removed', TRUE)
  PROVE  FollowInv'
<1>1. AllFollow'
  BY DEF ReplayInv, FollowInv, AllFollow, Follows
<1>2. Fresh'
  BY DEF ReplayInv, FollowInv, Fresh
<1>3. AllHonest'
  <2> SUFFICES ASSUME NEW c \in Clients PROVE Honest(view[c], engine'.outs, Removed')
    BY DEF AllHonest
  <2>1. Honest(view[c], engine.outs, Removed)
    BY DEF ReplayInv, FollowInv, AllHonest
  <2>2. Latest(view[c].shown) \in Nat /\ engine.outs \in Nat /\ engine'.outs \in Nat
    <3>1. view[c].shown \in Seq(Nat) /\ engine.outs \in Nat
      BY ReplayTypes DEF ReplayInv
    <3>2. engine'.outs \in Nat
      BY EngineStays DEF RolesInv, Engine
    <3> QED BY <3>1, <3>2, LatestNat
  <2> QED BY <2>1, <2>2 DEF Honest
<1> QED BY <1>1, <1>2, <1>3 DEF FollowInv

\* A broadcast output reaches subscribers; others see nothing of it.
LEMMA BroadcastOutput ==
  ASSUME NEW f, NEW c \in Clients, f[c] \in DeliveryRecord, Roles(f[c]),
         NEW w \in Seq(Message), NEW m \in Message, NEW a, NEW o \in Nat, NEW q \in Nat,
         m.kind = "output", m.nth = o + 1, m.seq = q + 1,
         Track(w, f[c], a, o, q, FALSE, TRUE)
  PROVE  Track(w, Broadcast(f, m)[c], a, o + 1, q + 1, FALSE, TRUE)
<1>1. Broadcast(f, m)[c] = IF f[c].subscribed THEN SendNative(f[c], m) ELSE f[c]
  BY DEF Broadcast
<1>2. f[c].subscribed => Serving(f[c])
  BY DEF Serving
<1>3. f[c].subscribed => Track(w, SendNative(f[c], m), a, o + 1, q + 1, FALSE, TRUE)
  BY <1>2, TrackOutput
<1>4. ~f[c].subscribed => Track(w, f[c], a, o + 1, q + 1, FALSE, TRUE)
  <2>1. q + 1 \in Nat /\ q <= q + 1
    OBVIOUS
  <2> QED BY <2>1, TrackGrows
<1> QED BY <1>1, <1>3, <1>4

\* So does drag metadata.
LEMMA PublishTracks ==
  ASSUME NEW f, NEW these, NEW c \in Clients, f[c] \in DeliveryRecord, Roles(f[c]),
         NEW w \in Seq(Message), NEW a, NEW o \in Nat, NEW q \in Nat, NEW qq \in Nat,
         NEW r \in BOOLEAN, q < qq, Track(w, f[c], a, o, q, r, TRUE)
  PROVE  Track(w, PublishDrag(f, these, qq)[c], a, o, qq, r, TRUE)
<1> DEFINE full == TRUE
<1>1. PublishDrag(f, these, qq)[c]
        = IF c \in these /\ f[c].subscribed THEN SendDrag(f[c], qq) ELSE f[c]
  BY DEF PublishDrag
<1>2. f[c].subscribed => Serving(f[c])
  BY DEF Serving
<1>3. Track(w, f[c], a, o, q, r, full) /\ q <= qq
  <2>1. q <= qq
    OBVIOUS
  <2> QED BY <2>1
<1> HIDE DEF full
<1>4. f[c].subscribed => Track(w, SendDrag(f[c], qq), a, o, qq, r, full)
  BY <1>2, <1>3, TrackDrag
<1>5. Track(w, f[c], a, o, qq, r, full)
  BY <1>3, TrackTick
<1> QED BY <1>1, <1>4, <1>5 DEF full

\* Metadata ahead of the output: the sequence is then that of the metadata.
LEMMA OvertakenTracks ==
  ASSUME NEW f, NEW these, NEW c \in Clients, c \in these, NEW busy \in BOOLEAN,
         Steady(f[c], busy, FALSE),
         NEW w \in Seq(Message), NEW m \in Message, NEW a, NEW o \in Nat, NEW q \in Nat,
         m.kind = "output", m.nth = o + 1, m.seq = q + 1,
         Track(w, f[c], a, o, q, FALSE, TRUE)
  PROVE  Track(w, Broadcast(PublishDrag(f, these, q + 2), m)[c], a, o + 1, q + 2, FALSE, TRUE)
<1> DEFINE g == PublishDrag(f, these, q + 2)
           s == f[c]
           t == SendDrag(s, q + 2)
<1>1. /\ g[c] = IF s.subscribed THEN t ELSE s
      /\ Broadcast(g, m)[c] = IF g[c].subscribed THEN SendNative(g[c], m) ELSE g[c]
  BY DEF PublishDrag, Broadcast
<1>2. q + 2 \in Nat /\ q <= q + 2 /\ q < q + 2 /\ q + 2 <= q + 2
  OBVIOUS
<1>3. s \in DeliveryRecord /\ Roles(s) /\ (s.subscribed => Serving(s))
  BY DEF Steady, Serving
<1>4. s.subscribed => /\ t \in DeliveryRecord /\ Roles(t) /\ Serving(t)
  <2>1. s.subscribed => Steady(t, busy, FALSE) /\ Serving(t)
    BY <1>2, <1>3, SteadyDrag
  <2> QED BY <2>1 DEF Steady
<1> HIDE DEF g, s, t
<1>5. CASE ~s.subscribed
  <2>1. Track(w, s, a, o + 1, q + 2, FALSE, TRUE)
    BY <1>2, <1>3, <1>5, TrackGrows DEF s
  <2> QED BY <1>1, <1>5, <2>1 DEF g
<1>6. CASE s.subscribed /\ t.subscribed
  <2>1. Track(w, SendNative(SendDrag(s, q + 2), m), a, o + 1, q + 2, FALSE, TRUE)
    BY <1>3, <1>4, <1>6, TrackOvertaken DEF s, t
  <2> QED BY <1>1, <1>6, <2>1 DEF g, t
<1>7. CASE s.subscribed /\ ~t.subscribed
  <2> DEFINE r == FALSE
             full == TRUE
             qq == q + 2
  <2>1. Track(w, s, a, o, q, r, full) /\ r \in BOOLEAN /\ qq \in Nat /\ q < qq /\ qq <= qq
    BY <1>2 DEF s
  <2> HIDE DEF r, full, qq
  <2>2. Track(w, SendDrag(s, qq), a, o, qq, r, full)
    BY <1>3, <1>7, <2>1, TrackDrag
  <2>3. Track(w, t, a, o, qq, FALSE, TRUE)
    BY <2>2 DEF t, r, full, qq
  <2>4. Track(w, t, a, o + 1, qq, FALSE, TRUE)
    BY <1>4, <1>7, <2>1, <2>3, TrackGrows
  <2> QED BY <1>1, <1>7, <2>4 DEF g, qq
<1> QED BY <1>5, <1>6, <1>7

\* A broadcast notice does too.
LEMMA BroadcastChanged ==
  ASSUME NEW f, NEW c \in Clients, f[c] \in DeliveryRecord, Roles(f[c]),
         NEW w \in Seq(Message), NEW m \in Message, NEW a, NEW o \in Nat, NEW q \in Nat,
         NEW r \in BOOLEAN, m.kind = "changed", Track(w, f[c], a, o, q, r, TRUE)
  PROVE  Track(w, Broadcast(f, m)[c], a, o, q, r, TRUE)
<1>1. Broadcast(f, m)[c] = IF f[c].subscribed THEN SendNative(f[c], m) ELSE f[c]
  BY DEF Broadcast
<1>2. f[c].subscribed => Serving(f[c])
  BY DEF Serving
<1>3. f[c].subscribed => Track(w, SendNative(f[c], m), a, o, q, r, TRUE)
  BY <1>2, TrackChanged
<1> QED BY <1>1, <1>3

\* pane_output.
LEMMA FollowOutput == ASSUME ReplayInv, RolesInv', Output PROVE FollowInv'
<1>0. RolesInv
  BY DEF ReplayInv
<1> PICK e \in Engine, size \in Nat, ahead \in SUBSET Clients, behind \in SUBSET Clients,
         graphics \in BOOLEAN, drag \in BOOLEAN, last \in Nat :
      OutputIs(e, size, ahead, behind, graphics, drag, last)
  BY <1>0, RolesTypes, OutputSteps
<1> DEFINE out  == OutputMessage(e, size)
           note == ChangedMessage(e)
           f0   == PublishDrag(d, ahead, e.seq + 1)
           f1   == Fed(d, e, size, ahead)
           f2   == Announced(d, e, size, ahead, graphics)
           f3   == Told(d, e, size, ahead, behind, graphics)
           o    == engine.outs
           q    == engine.seq
<1>1. UNCHANGED <<wire, view, peer>> /\ Idle
  BY DEF OutputIs, transportVars, viewVars
<1>2. o \in Nat /\ q \in Nat
  BY <1>0, ReplayTypes
<1>3. e.seq = q + 1 /\ e.outs = o + 1 /\ e.seq + 1 = q + 2
  BY <1>2 DEF OutputIs, Produced
<1>4. /\ out \in Message /\ ~Snapshot(out)
      /\ out.kind = "output" /\ out.seq = q + 1 /\ out.nth = o + 1
      /\ note \in Message /\ ~Snapshot(note) /\ note.kind = "changed"
  BY <1>3, OutputMessages, ChangedMessages
<1>5. /\ f0 = PublishDrag(d, ahead, q + 2) /\ f1 = Broadcast(f0, out)
      /\ f2 = f1 \/ f2 = Broadcast(f1, note)
      /\ f3 = PublishDrag(f2, behind, q + 2)
  BY <1>3 DEF Told, Announced, Fed
<1>6. /\ d' = IF drag THEN PublishDrag(f3, Clients, last + 1) ELSE f3
      /\ engine'.seq = IF drag THEN last + 1 ELSE last
      /\ engine'.outs = o + 1
      /\ \/ ahead = {} /\ behind = {} /\ last = q + 1
         \/ behind = Clients \ ahead /\ last = q + 2
  BY <1>3 DEF OutputIs
<1>7. Removed = FALSE /\ Removed' = FALSE
  BY DEF OutputIs, Produced, Removed
<1>8. o + 1 \in Nat /\ q + 1 \in Nat /\ q + 2 \in Nat /\ last + 1 \in Nat
      /\ q + 1 < q + 2 /\ last < last + 1 /\ q + 1 # q + 2
  BY <1>2
<1> HIDE DEF out, note, f0, f1, f2, f3, o, q
<1>9. ASSUME NEW c \in Clients, peer[c] # "closed"
      PROVE  Track(wire[c], d'[c], Seen(view[c]), engine'.outs, engine'.seq, Removed', TRUE)
  <2> DEFINE a == Seen(view[c])
             w == wire[c]
  <2>1. Track(w, d[c], a, o, q, FALSE, TRUE) /\ w \in Seq(Message)
    <3>1. Track(wire[c], d[c], Seen(view[c]), engine.outs, engine.seq, Removed, TRUE)
      BY <1>9 DEF ReplayInv, FollowInv, AllFollow, Follows
    <3> QED BY <1>0, <1>7, <3>1, ReplayTypes DEF o, q
  <2>2. Steady(d[c], Busy(c), FALSE) /\ Busy(c) \in BOOLEAN
    BY <1>0, <1>1, IdleSteady
  <2>3. Steady(f0[c], Busy(c), FALSE)
    BY <1>5, <1>8, <2>2, PublishSteady
  <2>4. Steady(f1[c], Busy(c), FALSE)
    BY <1>4, <1>5, <2>2, <2>3, BroadcastSteady
  <2>5. Steady(f2[c], Busy(c), FALSE)
    BY <1>4, <1>5, <2>2, <2>4, BroadcastSteady
  <2>6. Steady(f3[c], Busy(c), FALSE)
    BY <1>5, <1>8, <2>2, <2>5, PublishSteady
  <2>7. /\ d[c] \in DeliveryRecord /\ Roles(d[c])
        /\ f0[c] \in DeliveryRecord /\ Roles(f0[c])
        /\ f1[c] \in DeliveryRecord /\ Roles(f1[c])
        /\ f2[c] \in DeliveryRecord /\ Roles(f2[c])
        /\ f3[c] \in DeliveryRecord /\ Roles(f3[c])
    BY <2>2, <2>3, <2>4, <2>5, <2>6 DEF Steady
  <2> HIDE DEF a, w
  <2>8. c \notin ahead => Track(w, f1[c], a, o + 1, q + 1, FALSE, TRUE)
    <3> SUFFICES ASSUME c \notin ahead
                 PROVE  Track(w, f1[c], a, o + 1, q + 1, FALSE, TRUE)
      OBVIOUS
    <3>1. f0[c] = d[c]
      BY <1>5 DEF PublishDrag
    <3> QED BY <1>2, <1>4, <1>5, <2>1, <2>7, <3>1, BroadcastOutput
  <2>9. c \in ahead => Track(w, f1[c], a, o + 1, q + 2, FALSE, TRUE)
    BY <1>2, <1>4, <1>5, <2>1, <2>2, OvertakenTracks
  <2>10. PICK p \in Nat : /\ Track(w, f1[c], a, o + 1, p, FALSE, TRUE)
                          /\ p = IF c \in ahead THEN q + 2 ELSE q + 1
    BY <1>8, <2>8, <2>9
  <2>11. Track(w, f2[c], a, o + 1, p, FALSE, TRUE)
    <3> DEFINE r == FALSE
    <3>1. r \in BOOLEAN /\ Track(w, f1[c], a, o + 1, p, r, TRUE)
      BY <2>10
    <3> HIDE DEF r
    <3>2. Track(w, Broadcast(f1, note)[c], a, o + 1, p, r, TRUE)
      BY <1>4, <1>8, <2>1, <2>7, <3>1, BroadcastChanged
    <3> QED BY <1>5, <3>1, <3>2 DEF r
  <2>12. Track(w, f3[c], a, o + 1, last, FALSE, TRUE)
    <3>1. CASE c \in behind
      <4>1. p = q + 1 /\ last = q + 2
        BY <1>6, <2>10, <3>1
      <4> DEFINE r == FALSE
      <4>2. r \in BOOLEAN /\ Track(w, f2[c], a, o + 1, q + 1, r, TRUE)
        BY <2>11, <4>1
      <4> HIDE DEF r
      <4>3. Track(w, PublishDrag(f2, behind, q + 2)[c], a, o + 1, q + 2, r, TRUE)
        BY <1>8, <2>1, <2>7, <4>2, PublishTracks, ZenonT(60)
      <4> QED BY <1>5, <4>1, <4>3 DEF r
    <3>2. CASE c \notin behind
      <4>1. f3[c] = f2[c]
        BY <1>5, <3>2 DEF PublishDrag
      <4>2. p = last
        BY <1>6, <2>10, <3>2
      <4> QED BY <2>11, <4>1, <4>2
    <3> QED BY <3>1, <3>2
  <2>13. Track(w, PublishDrag(f3, Clients, last + 1)[c], a, o + 1, last + 1, FALSE, TRUE)
    <3> DEFINE r == FALSE
    <3>1. r \in BOOLEAN /\ Track(w, f3[c], a, o + 1, last, r, TRUE)
      BY <2>12
    <3> HIDE DEF r
    <3>2. Track(w, PublishDrag(f3, Clients, last + 1)[c], a, o + 1, last + 1, r, TRUE)
      BY <1>8, <2>1, <2>7, <3>1, PublishTracks, ZenonT(60)
    <3> QED BY <3>2 DEF r
  <2>14. Track(w, d'[c], a, o + 1, engine'.seq, FALSE, TRUE)
    BY <1>6, <2>12, <2>13
  <2> QED BY <1>6, <1>7, <2>14 DEF a, w
<1>10. engine.outs <= engine'.outs /\ (Removed => Removed' /\ engine'.outs = engine.outs)
  BY <1>2, <1>6, <1>7 DEF o
<1> QED BY <1>1, <1>9, <1>10, OwnerFollows

\* What FollowInv says of one client
LEMMA FollowsOf ==
  ASSUME ReplayInv, NEW c \in Clients, peer[c] # "closed"
  PROVE  /\ Track(wire[c], d[c], Seen(view[c]), engine.outs, engine.seq, Removed, TRUE)
         /\ wire[c] \in Seq(Message) /\ d[c] \in DeliveryRecord /\ Roles(d[c])
         /\ engine.outs \in Nat /\ engine.seq \in Nat /\ Removed \in BOOLEAN
         /\ IsCheckpoint(Checkpoint(engine), engine.outs, engine.seq, Removed)
         /\ Checkpoint(engine) \in Message
         /\ Fits(engine) \in BOOLEAN /\ FitsBarrier(engine) \in BOOLEAN
         /\ view[c].status = "open"
  BY ReplayTypes, RolesTypes DEF ReplayInv, FollowInv, AllFollow, Follows

\* Drag metadata, between two handlers or between two clients of a flush.
LEMMA FollowDragChanges == ASSUME ReplayInv, RolesInv', DragChanges PROVE FollowInv'
<1>0. RolesInv
  BY DEF ReplayInv
<1> DEFINE qq == engine.seq + 1
<1>1. d' = PublishDrag(d, Clients, qq) /\ UNCHANGED <<wire, view, peer>>
  BY DEF DragChanges, transportVars, viewVars
<1>2. engine'.outs = engine.outs /\ engine'.seq = qq /\ Removed' = Removed
  BY <1>0, ReplayTypes DEF DragChanges, Engine, Removed
<1>3. engine.outs \in Nat /\ engine.seq \in Nat /\ Removed \in BOOLEAN
      /\ qq \in Nat /\ engine.seq < qq
  BY <1>0, ReplayTypes
<1> HIDE DEF qq
<1>4. ASSUME NEW c \in Clients, peer[c] # "closed"
      PROVE  Track(wire[c], d'[c], Seen(view[c]), engine'.outs, engine'.seq, Removed', TRUE)
  <2>1. Track(wire[c], PublishDrag(d, Clients, qq)[c], Seen(view[c]), engine.outs, qq,
              Removed, TRUE)
    BY <1>3, <1>4, FollowsOf, PublishTracks
  <2> QED BY <1>1, <1>2, <2>1
<1>5. engine.outs <= engine'.outs /\ (Removed => Removed' /\ engine'.outs = engine.outs)
  BY <1>2, <1>3
<1> QED BY <1>1, <1>4, <1>5, OwnerFollows

\* A command that changed the graph.
LEMMA FollowChange == ASSUME ReplayInv, RolesInv', Change PROVE FollowInv'
<1> DEFINE note == ChangedMessage(engine')
<1> PICK weight \in SnapshotSizes :
      /\ Idle
      /\ engine' = [engine EXCEPT !.seq = @ + 1, !.changedAt = engine.seq + 1,
                                  !.weight = weight]
      /\ d' = Broadcast(d, note)
      /\ UNCHANGED <<flush, cursor, transportVars, viewVars>>
  BY DEF Change
<1>0. RolesInv /\ IInv'
  BY DEF ReplayInv, RolesInv
<1>1. UNCHANGED <<wire, view, peer>>
  BY DEF transportVars, viewVars
<1>2. engine'.outs = engine.outs /\ engine'.seq = engine.seq + 1 /\ (Removed' <=> Removed)
  BY <1>0, ReplayTypes DEF Engine, Removed
<1>3. engine.outs \in Nat /\ engine.seq \in Nat /\ Removed \in BOOLEAN
  BY <1>0, ReplayTypes
<1>4. note \in Message /\ note.kind = "changed"
  BY <1>0, EngineStays, ChangedMessages
<1>5. Removed' = Removed
  BY <1>2 DEF Removed
<1> HIDE DEF note
<1>6. ASSUME NEW c \in Clients, peer[c] # "closed"
      PROVE  Track(wire[c], d'[c], Seen(view[c]), engine'.outs, engine'.seq, Removed', TRUE)
  <2> DEFINE a == Seen(view[c])
             q == engine.seq + 1
             full == TRUE
  <2>1. /\ Track(wire[c], d[c], a, engine.outs, engine.seq, Removed, full)
        /\ wire[c] \in Seq(Message) /\ d[c] \in DeliveryRecord /\ Roles(d[c])
    BY <1>6, FollowsOf
  <2>2. q \in Nat /\ engine.seq <= q
    BY <1>3
  <2> HIDE DEF a, q, full
  <2>3. Track(wire[c], d[c], a, engine.outs, q, Removed, full)
    BY <1>3, <2>1, <2>2, TrackTick
  <2>4. Track(wire[c], d[c], a, engine.outs, q, Removed, TRUE)
    BY <2>3 DEF full
  <2>5. Track(wire[c], Broadcast(d, note)[c], a, engine.outs, q, Removed, TRUE)
    BY <1>3, <1>4, <2>1, <2>2, <2>4, BroadcastChanged
  <2> QED BY <1>2, <1>5, <2>5 DEF a, q
<1>7. engine.outs <= engine'.outs /\ (Removed => Removed' /\ engine'.outs = engine.outs)
  BY <1>2, <1>3
<1> QED BY <1>1, <1>6, <1>7, OwnerFollows

\* A client whose session dies with its pane
LEMMA EndedTracks ==
  ASSUME NEW w \in Seq(Message), NEW s \in DeliveryRecord, NEW a, NEW o \in Nat, NEW q \in Nat,
         Track(w, s, a, o, q, TRUE, TRUE), Roles(s), Serving(s)
  PROVE  Track(w, Ended(s), a, o, q, TRUE, TRUE)
<1> DEFINE r == TRUE
           full == TRUE
           gone == TRUE
           kind == "final"
           v == SendCritical(s, kind, gone)
<1>1. /\ kind \in CriticalKinds \ {"drag"} /\ gone \in BOOLEAN /\ r \in BOOLEAN
      /\ (gone => r /\ kind # "critical") /\ (full => full \/ kind # "critical")
      /\ Track(w, s, a, o, q, r, full)
  BY DEF CriticalKinds
<1> HIDE DEF r, full, gone, kind
<1>2. Track(w, v, a, o, q, r, full)
  BY <1>1, TrackCritical
<1>3. v \in DeliveryRecord
  BY <1>1, RecordCritical
<1> HIDE DEF v
<1>4. Track(w, DisconnectAfterDelivery(v), a, o, q, r, TRUE)
  BY <1>1, <1>2, <1>3, TrackAfterDelivery
<1> QED BY <1>4 DEF Ended, v, r, gone, kind

\* finish_process.
LEMMA FollowPaneExit == ASSUME ReplayInv, RolesInv', PaneExit PROVE FollowInv'
<1> PICK remain \in BOOLEAN, dead \in SUBSET {c \in Clients : d[c].subscribed} :
      LET Barrier(s) == IF remain THEN s ELSE Frozen(s, engine)
          left == [c \in Clients |-> IF c \in dead THEN Ended(Barrier(d[c]))
                                     ELSE Barrier(d[c])]
      IN /\ Idle /\ engine.pane = "running" /\ (remain => dead = {})
         /\ engine' = [engine EXCEPT !.seq = @ + 1, !.changedAt = engine.seq + 1,
                            !.pane = IF remain THEN "dead" ELSE "removed"]
         /\ d' = Broadcast(left, ChangedMessage(engine'))
         /\ UNCHANGED <<flush, cursor, transportVars, viewVars>>
  BY DEF PaneExit, Frozen, Ended
<1> DEFINE note == ChangedMessage(engine')
           Barrier(s) == IF remain THEN s ELSE Frozen(s, engine)
           left == [c \in Clients |-> IF c \in dead THEN Ended(Barrier(d[c]))
                                      ELSE Barrier(d[c])]
           e == engine
           rr == ~remain
<1>0. RolesInv /\ IInv'
  BY DEF ReplayInv, RolesInv
<1>1. Idle /\ d' = Broadcast(left, note)
  OBVIOUS
<1>2. UNCHANGED <<wire, view, peer>>
  BY DEF transportVars, viewVars
<1>3. /\ engine'.outs = engine.outs /\ engine'.seq = engine.seq + 1
      /\ engine'.pane = IF remain THEN "dead" ELSE "removed"
  BY <1>0, ReplayTypes DEF Engine
<1>4. engine.outs \in Nat /\ engine.seq \in Nat /\ engine.seq + 1 \in Nat
      /\ engine.seq <= engine.seq + 1
  BY <1>0, ReplayTypes
<1>5. Removed = FALSE /\ Removed' = rr /\ rr \in BOOLEAN
  BY <1>3 DEF Removed
<1>6. note \in Message /\ ~Snapshot(note) /\ note.kind = "changed"
  BY <1>0, EngineStays, ChangedMessages
<1>7. \A c \in Clients : left[c] = IF c \in dead THEN Ended(Barrier(d[c])) ELSE Barrier(d[c])
  OBVIOUS
<1>8. \A c \in Clients : c \in dead => ~remain /\ d[c].subscribed
  OBVIOUS
<1>9. \A c \in Clients : Barrier(d[c]) = IF remain THEN d[c] ELSE Frozen(d[c], engine)
  OBVIOUS
<1> HIDE DEF note, left, Barrier, rr
<1>10. ASSUME NEW c \in Clients, peer[c] # "closed"
       PROVE  Track(wire[c], d'[c], Seen(view[c]), engine'.outs, engine'.seq, Removed', TRUE)
  <2> DEFINE a == Seen(view[c])
             q == engine.seq + 1
             w == wire[c]
             o == engine.outs
             b == Barrier(d[c])
  <2>1. /\ Track(w, d[c], a, o, engine.seq, FALSE, TRUE)
        /\ w \in Seq(Message) /\ d[c] \in DeliveryRecord /\ Roles(d[c])
        /\ IsCheckpoint(Checkpoint(engine), o, engine.seq, FALSE)
        /\ Checkpoint(engine) \in Message /\ FitsBarrier(engine) \in BOOLEAN
    BY <1>5, <1>10, FollowsOf
  <2>2. Steady(d[c], Busy(c), FALSE) /\ Busy(c) \in BOOLEAN
    BY <1>0, <1>1, IdleSteady
  <2>3. /\ Steady(Frozen(d[c], engine), Busy(c), FALSE)
        /\ d[c].subscribed => Serving(Frozen(d[c], engine))
    BY <2>1, <2>2, SteadyBarrier DEF Frozen
  <2>4. Steady(b, Busy(c), FALSE) /\ (c \in dead => Serving(b))
    BY <1>8, <1>9, <2>2, <2>3
  <2>5. q \in Nat /\ engine.seq <= q /\ o \in Nat /\ engine.seq \in Nat
    BY <1>4
  <2>6. b \in DeliveryRecord /\ Roles(b)
    BY <2>4 DEF Steady
  <2>7. remain => Track(w, b, a, o, q, FALSE, TRUE)
    <3> DEFINE r == FALSE
               full == TRUE
    <3>1. Track(w, d[c], a, o, engine.seq, r, full)
      BY <2>1
    <3> HIDE DEF r, full, a, q, w, o
    <3>2. Track(w, d[c], a, o, q, r, full)
      BY <2>5, <3>1, TrackTick
    <3> QED BY <1>9, <3>2 DEF r, full
  <2>8. ~remain => Track(w, b, a, o, q, TRUE, TRUE)
    <3> HIDE DEF a, q, w, o
    <3>1. Track(w, Frozen(d[c], engine), a, o, q, TRUE, TRUE)
      BY <2>1, <2>5, TrackBarrier DEF Frozen
    <3> QED BY <1>9, <3>1
  <2> HIDE DEF a, q, w, o, b
  <2>9. ~remain /\ c \in dead => Track(w, Ended(b), a, o, q, TRUE, TRUE)
    BY <2>1, <2>4, <2>5, <2>6, <2>8, EndedTracks
  <2>10. Track(w, left[c], a, o, q, rr, TRUE)
    BY <1>7, <1>8, <2>7, <2>8, <2>9 DEF rr, b
  <2>11. left[c] \in DeliveryRecord /\ Roles(left[c])
    <3>1. c \in dead => Steady(Ended(b), Busy(c), FALSE)
      BY <2>2, <2>4, EndedSteady
    <3>2. c \in dead => Ended(b) \in DeliveryRecord /\ Roles(Ended(b))
      BY <3>1 DEF Steady
    <3>3. left[c] = IF c \in dead THEN Ended(b) ELSE b
      BY <1>7 DEF b
    <3> QED BY <2>6, <3>2, <3>3
  <2>12. Track(w, Broadcast(left, note)[c], a, o, q, rr, TRUE)
    BY ONLY <1>5, <1>6, <2>1, <2>5, <2>10, <2>11, BroadcastChanged
  <2> QED BY <1>1, <1>3, <1>5, <2>12 DEF a, q, w, o
<1>11. engine.outs <= engine'.outs /\ (Removed => Removed' /\ engine'.outs = engine.outs)
  BY <1>3, <1>4, <1>5
<1> QED BY <1>2, <1>10, <1>11, OwnerFollows

\* A client told that the input failed, and dropped
LEMMA FailedTracks ==
  ASSUME NEW w \in Seq(Message), NEW s \in DeliveryRecord, NEW a, NEW o \in Nat, NEW q \in Nat,
         Track(w, s, a, o, q, FALSE, TRUE), Roles(s), Serving(s)
  PROVE  /\ Track(w, Disconnected(SendCritical(s, "aborted", FALSE)), a, o, q, FALSE, TRUE)
         /\ Disconnected(SendCritical(s, "aborted", FALSE)) \in DeliveryRecord
         /\ ~Disconnected(SendCritical(s, "aborted", FALSE)).subscribed
<1> DEFINE r == FALSE
           full == TRUE
           gone == FALSE
           kind == "aborted"
           v == SendCritical(s, kind, gone)
<1>1. /\ kind \in CriticalKinds \ {"drag"} /\ gone \in BOOLEAN /\ r \in BOOLEAN
      /\ (gone => r /\ kind # "critical") /\ (full => full \/ kind # "critical")
      /\ Track(w, s, a, o, q, r, full)
  BY DEF CriticalKinds
<1> HIDE DEF r, full, gone, kind
<1>2. Track(w, v, a, o, q, r, full)
  BY <1>1, TrackCritical
<1>3. v \in DeliveryRecord
  BY <1>1, RecordCritical
<1> HIDE DEF v
<1>4. Track(w, Disconnected(v), a, o, q, r, TRUE)
  BY <1>2, <1>3, TrackDropped
<1>5. Disconnected(v) \in DeliveryRecord /\ ~Disconnected(v).subscribed
  BY <1>3, DisconnectedFields
<1> QED BY <1>4, <1>5 DEF v, r, gone, kind

\* input_failed.
LEMMA FollowInputFails == ASSUME ReplayInv, RolesInv', InputFails PROVE FollowInv'
<1> DEFINE Failed(s) == Disconnected(SendCritical(s, "aborted", FALSE))
<1> PICK remain \in BOOLEAN :
      /\ Idle /\ engine.pane = "running"
      /\ engine' = [engine EXCEPT !.seq = @ + 1, !.changedAt = engine.seq + 1,
                                  !.pane = IF remain THEN "dead" ELSE "removed"]
      /\ d' = [c \in Clients |-> IF d[c].subscribed THEN Failed(d[c]) ELSE d[c]]
      /\ UNCHANGED <<flush, cursor, transportVars, viewVars>>
  BY DEF InputFails
<1>0. RolesInv /\ IInv'
  BY DEF ReplayInv, RolesInv
<1>1. UNCHANGED <<wire, view, peer>>
  BY DEF transportVars, viewVars
<1>2. /\ engine'.outs = engine.outs /\ engine'.seq = engine.seq + 1
      /\ engine'.pane = IF remain THEN "dead" ELSE "removed"
  BY <1>0, ReplayTypes DEF Engine
<1>3. engine.outs \in Nat /\ engine.seq \in Nat /\ engine.seq + 1 \in Nat
      /\ engine.seq <= engine.seq + 1
  BY <1>0, ReplayTypes
<1>4. Removed = FALSE /\ Removed' = ~remain
  BY <1>2 DEF Removed
<1>5. \A c \in Clients : d'[c] = IF d[c].subscribed THEN Failed(d[c]) ELSE d[c]
  OBVIOUS
<1>6. ASSUME NEW c \in Clients, peer[c] # "closed"
      PROVE  Track(wire[c], d'[c], Seen(view[c]), engine'.outs, engine'.seq, Removed', TRUE)
  <2> DEFINE a == Seen(view[c])
             q == engine.seq
             qq == engine.seq + 1
             w == wire[c]
             o == engine.outs
             s == d'[c]
  <2>1. /\ Track(w, d[c], a, o, q, FALSE, TRUE)
        /\ w \in Seq(Message) /\ d[c] \in DeliveryRecord /\ Roles(d[c])
    BY <1>4, <1>6, FollowsOf
  <2>2. q \in Nat /\ qq \in Nat /\ q <= qq /\ o \in Nat
    BY <1>3
  <2> HIDE DEF a, q, qq, w, o
  <2>3. d[c].subscribed => /\ Track(w, Failed(d[c]), a, o, q, FALSE, TRUE)
                           /\ Failed(d[c]) \in DeliveryRecord
                           /\ ~Failed(d[c]).subscribed
    BY <2>1, <2>2, FailedTracks DEF Serving
  <2> HIDE DEF Failed
  <2>4. Track(w, s, a, o, q, FALSE, TRUE) /\ s \in DeliveryRecord /\ ~s.subscribed
    BY <1>5, <2>1, <2>3
  <2> HIDE DEF s
  <2>5. Track(w, s, a, o, qq, TRUE, TRUE)
    BY <2>1, <2>2, <2>4, TrackRemoved
  <2>6. Track(w, s, a, o, qq, FALSE, TRUE)
    <3> DEFINE r == FALSE
               full == TRUE
    <3>1. Track(w, s, a, o, q, r, full)
      BY <2>4
    <3> HIDE DEF r, full
    <3>2. Track(w, s, a, o, qq, r, full)
      BY <2>2, <3>1, TrackTick
    <3> QED BY <3>2 DEF r, full
  <2> QED BY <1>2, <1>4, <2>5, <2>6 DEF a, q, qq, w, o, s
<1>7. engine.outs <= engine'.outs /\ (Removed => Removed' /\ engine'.outs = engine.outs)
  BY <1>2, <1>3, <1>4
<1> QED BY <1>1, <1>6, <1>7, OwnerFollows

\* A step of the owner that replaces one record
LEMMA ClientFollows ==
  ASSUME ReplayInv, RolesInv', UNCHANGED <<engine, wire, view, peer>>,
         NEW c \in Clients, NEW r, d' = [d EXCEPT ![c] = r],
         peer[c] # "closed" =>
           Track(wire[c], r, Seen(view[c]), engine.outs, engine.seq, Removed, TRUE)
  PROVE  FollowInv'
<1>1. \A b \in Clients : d'[b] = IF b = c THEN r ELSE d[b]
  BY RolesTypes DEF ReplayInv
<1>2. engine'.outs = engine.outs /\ engine'.seq = engine.seq /\ Removed' = Removed
  BY DEF Removed
<1>3. ASSUME NEW b \in Clients, peer[b] # "closed"
      PROVE  Track(wire[b], d'[b], Seen(view[b]), engine'.outs, engine'.seq, Removed', TRUE)
  <2>1. CASE b = c
    BY <1>1, <1>2, <1>3, <2>1
  <2>2. CASE b # c
    BY <1>1, <1>2, <1>3, <2>2, FollowsOf
  <2> QED BY <2>1, <2>2
<1>4. engine.outs <= engine'.outs /\ (Removed => Removed' /\ engine'.outs = engine.outs)
  <2>1. engine.outs \in Nat
    BY ReplayTypes DEF ReplayInv
  <2> QED BY <1>2, <2>1
<1> QED BY <1>3, <1>4, OwnerFollows

\* A client that enters the session has not seen the pane: nothing is
\* promised until its first checkpoint.
LEMMA SubscribeTracks ==
  ASSUME NEW w, NEW s \in DeliveryRecord, NEW a, NEW o, NEW q, NEW r \in BOOLEAN,
         Track(w, s, a, o, q, r, TRUE), Roles(s), s.live, ~Closing(s)
  PROVE  Track(w, Subscribed(s), a, o, q, r, FALSE)
<1> DEFINE u == Subscribed(s)
<1> HIDE DEF u
<1>1. /\ u.subscribed /\ Engaged(u)
      /\ u.live = s.live /\ u.chan = s.chan /\ u.queue = s.queue
      /\ u.needs = s.needs /\ u.pending = s.pending /\ u.issued = s.issued
  BY SubscribedFields DEF u
<1>2. PICK z \in Shown : Path(Under(w, s), a, z, o, r) /\ Ends(s, z, o, q, r, TRUE)
  BY DEF Track
<1>3. Under(w, u) = Under(w, s)
  BY <1>1 DEF Under
<1>4. CASE s.subscribed
  BY <1>1, <1>2, <1>3, <1>4 DEF Track, Ends, u
<1>5. CASE ~s.subscribed
  <2>1. ~Engaged(s) /\ ~s.pending /\ z.mode = "unseen"
    BY <1>2, <1>5 DEF Roles, Engaged, Ends
  <2>2. r => Current(z, o, r)
    BY <2>1 DEF Current
  <2>3. Ends(u, z, o, q, r, FALSE)
    BY <1>1, <1>2, <2>1, <2>2 DEF Ends
  <2> QED BY <1>2, <1>3, <2>3 DEF Track, u
<1> QED BY <1>4, <1>5

\* A reply or a host effect
LEMMA ReplyTracks ==
  ASSUME NEW w \in Seq(Message), NEW s \in DeliveryRecord, NEW a, NEW o \in Nat, NEW q \in Nat,
         NEW r \in BOOLEAN, NEW full, Track(w, s, a, o, q, r, full), Roles(s), Serving(s)
  PROVE  Track(w, SendCritical(s, "critical", FALSE), a, o, q, r, full)
<1> DEFINE gone == FALSE
           kind == "critical"
<1>1. /\ kind \in CriticalKinds \ {"drag"} /\ gone \in BOOLEAN
      /\ (gone => r /\ kind # "critical") /\ (full => full \/ kind # "critical")
  BY DEF CriticalKinds
<1> HIDE DEF gone, kind
<1>2. Track(w, SendCritical(s, kind, gone), a, o, q, r, full)
  BY <1>1, TrackCritical
<1> QED BY <1>2 DEF gone, kind

\* A client that detaches
LEMMA LeaveTracks ==
  ASSUME NEW w \in Seq(Message), NEW s \in DeliveryRecord, NEW a, NEW o \in Nat, NEW q \in Nat,
         NEW r \in BOOLEAN, Track(w, s, a, o, q, r, TRUE), Roles(s), Serving(s)
  PROVE  Track(w, DisconnectAfterDelivery(SendCritical(s, "final", FALSE)), a, o, q, r, TRUE)
<1> DEFINE gone == FALSE
           kind == "final"
           full == TRUE
           v == SendCritical(s, kind, gone)
<1>1. /\ kind \in CriticalKinds \ {"drag"} /\ gone \in BOOLEAN
      /\ (gone => r /\ kind # "critical") /\ (full => full \/ kind # "critical")
      /\ Track(w, s, a, o, q, r, full)
  BY DEF CriticalKinds
<1> HIDE DEF gone, kind, full
<1>2. Track(w, v, a, o, q, r, full)
  BY <1>1, TrackCritical
<1>3. v \in DeliveryRecord
  BY <1>1, RecordCritical
<1> HIDE DEF v
<1>4. Track(w, DisconnectAfterDelivery(v), a, o, q, r, TRUE)
  BY <1>2, <1>3, TrackAfterDelivery
<1> QED BY <1>4 DEF v, gone, kind

\* request and drive, of a subscribing command.
LEMMA FollowHandleRequest ==
  ASSUME ReplayInv, RolesInv', NEW c \in Clients, HandleRequest(c) PROVE FollowInv'
<1> DEFINE u == Subscribed(d[c])
           v == SendCritical(u, "critical", FALSE)
           r == IF d[c].live /\ ~Closing(d[c])
                THEN SendSnapshot(v, Checkpoint(engine), Fits(engine))
                ELSE d[c]
           w == wire[c]
           a == Seen(view[c])
           o == engine.outs
           q == engine.seq
<1>0. RolesInv
  BY DEF ReplayInv
<1>1. /\ Idle /\ d' = [d EXCEPT ![c] = r] /\ UNCHANGED <<engine, wire, view, peer>>
  BY <1>0, RolesTypes DEF HandleRequest, Subscribed, transportVars
<1>2. ASSUME peer[c] # "closed" PROVE Track(w, r, a, o, q, Removed, TRUE)
  <2>1. /\ Track(w, d[c], a, o, q, Removed, TRUE)
        /\ w \in Seq(Message) /\ d[c] \in DeliveryRecord /\ Roles(d[c])
        /\ o \in Nat /\ q \in Nat /\ Removed \in BOOLEAN
        /\ IsCheckpoint(Checkpoint(engine), o, q, Removed)
        /\ Checkpoint(engine) \in Message /\ Fits(engine) \in BOOLEAN
    BY <1>2, FollowsOf
  <2>2. CASE ~(d[c].live /\ ~Closing(d[c]))
    BY <2>1, <2>2
  <2>3. CASE d[c].live /\ ~Closing(d[c])
    <3> HIDE DEF w, a, o, q, u
    <3> DEFINE full == FALSE
    <3>1. Steady(d[c], Busy(c), FALSE) /\ Busy(c) \in BOOLEAN
      BY <1>0, <1>1, IdleSteady
    <3>2. /\ u \in DeliveryRecord
          /\ u.subscribed /\ Engaged(u)
          /\ u.live = d[c].live /\ u.rx = d[c].rx
          /\ u.chan = d[c].chan /\ u.queue = d[c].queue
          /\ u.needs = d[c].needs /\ u.requested = d[c].requested
          /\ u.pending = d[c].pending
          /\ (Closing(u) <=> Closing(d[c]))
      BY <2>1, SubscribedFields DEF u
    <3>3. Steady(u, Busy(c), FALSE) /\ Serving(u)
      BY <2>3, <3>1, <3>2 DEF Steady, Roles, Noted, Serving
    <3>4. Steady(v, Busy(c), FALSE) /\ Serving(v)
      BY <3>1, <3>3, SteadyCritical DEF CriticalKinds
    <3>5. Track(w, u, a, o, q, Removed, full)
      BY <2>1, <2>3, SubscribeTracks DEF u
    <3> HIDE DEF full
    <3>6. Track(w, v, a, o, q, Removed, full)
      BY <2>1, <3>2, <3>3, <3>5, ReplyTracks DEF Steady
    <3> HIDE DEF v
    <3>7. v \in DeliveryRecord /\ Roles(v)
      BY <3>4 DEF Steady
    <3>8. Track(w, SendSnapshot(v, Checkpoint(engine), Fits(engine)), a, o, q, Removed, TRUE)
      BY <2>1, <3>4, <3>6, <3>7, TrackSendSnapshot
    <3> QED BY <2>3, <3>8
  <2> QED BY <2>2, <2>3
<1> HIDE DEF r
<1> QED BY <1>1, <1>2, ClientFollows

\* dispatch_host_to.
LEMMA FollowHostEffect == ASSUME ReplayInv, RolesInv', NEW c \in Clients, HostEffect(c) PROVE FollowInv'
<1> DEFINE r == SendCritical(d[c], "critical", FALSE)
<1>0. RolesInv
  BY DEF ReplayInv
<1>1. /\ d' = [d EXCEPT ![c] = r] /\ d[c].subscribed
      /\ UNCHANGED <<engine, wire, view, peer>>
  BY <1>0, RolesTypes DEF HostEffect, transportVars, viewVars
<1>2. ASSUME peer[c] # "closed"
      PROVE  Track(wire[c], r, Seen(view[c]), engine.outs, engine.seq, Removed, TRUE)
  <2> DEFINE full == TRUE
  <2>1. Track(wire[c], d[c], Seen(view[c]), engine.outs, engine.seq, Removed, full)
    BY <1>2, FollowsOf
  <2> HIDE DEF full
  <2>2. Track(wire[c], r, Seen(view[c]), engine.outs, engine.seq, Removed, full)
    BY <1>1, <1>2, <2>1, FollowsOf, ReplyTracks DEF Serving
  <2> QED BY <2>2 DEF full
<1> HIDE DEF r
<1> QED BY <1>1, <1>2, ClientFollows

\* detach_client.
LEMMA FollowDetach == ASSUME ReplayInv, RolesInv', NEW c \in Clients, Detach(c) PROVE FollowInv'
<1> DEFINE r == DisconnectAfterDelivery(SendCritical(d[c], "final", FALSE))
<1>0. RolesInv
  BY DEF ReplayInv
<1>1. /\ d' = [d EXCEPT ![c] = r] /\ d[c].subscribed
      /\ UNCHANGED <<engine, wire, view, peer>>
  BY <1>0, RolesTypes DEF Detach, transportVars, viewVars
<1>2. ASSUME peer[c] # "closed"
      PROVE  Track(wire[c], r, Seen(view[c]), engine.outs, engine.seq, Removed, TRUE)
  BY <1>1, <1>2, FollowsOf, LeaveTracks DEF Serving
<1> HIDE DEF r
<1> QED BY <1>1, <1>2, ClientFollows

\* Event::SnapshotSent.
LEMMA FollowSnapshotSent ==
  ASSUME ReplayInv, RolesInv', NEW c \in Clients, HandleSnapshotSent(c) PROVE FollowInv'
<1> DEFINE r == SnapshotSent(d[c], Checkpoint(engine), Fits(engine))
<1>0. RolesInv
  BY DEF ReplayInv
<1>1. /\ d' = [d EXCEPT ![c] = r]
      /\ UNCHANGED <<engine, wire, view, peer>>
  BY <1>0, RolesTypes DEF HandleSnapshotSent, viewVars
<1>2. ASSUME peer[c] # "closed"
      PROVE  Track(wire[c], r, Seen(view[c]), engine.outs, engine.seq, Removed, TRUE)
  BY <1>2, FollowsOf, TrackSent, ZenonT(120)
<1> HIDE DEF r
<1> QED BY <1>1, <1>2, ClientFollows

\* Event::Disconnect.
LEMMA FollowDisconnect ==
  ASSUME ReplayInv, RolesInv', NEW c \in Clients, HandleDisconnect(c) PROVE FollowInv'
<1> DEFINE r == Disconnected(d[c])
<1>0. RolesInv
  BY DEF ReplayInv
<1>1. /\ d' = [d EXCEPT ![c] = r] /\ peer[c] = "closed"
      /\ UNCHANGED <<engine, wire, view, peer>>
  BY <1>0, RolesTypes DEF HandleDisconnect, transportVars, viewVars
<1> HIDE DEF r
<1> QED BY <1>1, ClientFollows

\* Ten seconds pass for a closing client.
LEMMA FollowTimeout == ASSUME ReplayInv, RolesInv', NEW c \in Clients, CloseTimeout(c) PROVE FollowInv'
<1> DEFINE r == [d[c] EXCEPT !.closing = "expired"]
<1>0. RolesInv
  BY DEF ReplayInv
<1>1. /\ d' = [d EXCEPT ![c] = r] /\ Closing(d[c])
      /\ UNCHANGED <<engine, wire, view, peer>>
  BY <1>0, RolesTypes DEF CloseTimeout, transportVars, viewVars, Closing
<1> HIDE DEF r
<1>2. ASSUME peer[c] # "closed"
      PROVE  Track(wire[c], r, Seen(view[c]), engine.outs, engine.seq, Removed, TRUE)
  <2> DEFINE full == TRUE
  <2>1. /\ Track(wire[c], d[c], Seen(view[c]), engine.outs, engine.seq, Removed, full)
        /\ d[c] \in DeliveryRecord
    BY <1>2, FollowsOf
  <2>2. /\ Engaged(r) /\ Engaged(d[c])
        /\ r.live = d[c].live /\ r.subscribed = d[c].subscribed
        /\ r.chan = d[c].chan /\ r.queue = d[c].queue
        /\ r.needs = d[c].needs
        /\ r.pending = d[c].pending
    BY <1>1, <2>1, ExpiredFields DEF r, Engaged
  <2>3. r.issued = d[c].issued
    BY <2>1 DEF r, DeliveryRecord
  <2> HIDE DEF full
  <2>4. Track(wire[c], r, Seen(view[c]), engine.outs, engine.seq, Removed, full)
    BY <2>1, <2>2, <2>3, TrackSame
  <2> QED BY <2>4 DEF full
<1> QED BY <1>1, <1>2, ClientFollows

\* The same record again
LEMMA SameFollows ==
  ASSUME ReplayInv, RolesInv', UNCHANGED <<engine, d, wire, view, peer>>
  PROVE  FollowInv'
  BY DEF ReplayInv, FollowInv, AllFollow, Fresh, AllHonest, Follows, Removed

\* flush_native, at one client.
LEMMA FollowFlushClient == ASSUME ReplayInv, RolesInv', FlushClient PROVE FollowInv'
<1> PICK c \in Clients :
      FlushExpired(c) \/ FlushMove(c) \/ FlushHangs(c) \/ FlushStop(c)
  BY DEF FlushClient
<1>0. RolesInv
  BY DEF ReplayInv
<1>1. UNCHANGED <<engine, wire, view, peer>>
  BY DEF FlushExpired, FlushMove, FlushHangs, FlushStop, FlushNext, transportVars, viewVars
<1>2. \/ d' = [d EXCEPT ![c] = Disconnected(d[c])]
      \/ d' = [d EXCEPT ![c] = MoveHead(d[c])] /\ HeadMoves(d[c])
      \/ d' = [d EXCEPT ![c] = d[c]]
  BY <1>0, RolesTypes DEF FlushExpired, FlushMove, FlushHangs, FlushStop, FlushNext
<1>3. CASE d' = [d EXCEPT ![c] = Disconnected(d[c])]
  <2>1. ASSUME peer[c] # "closed"
        PROVE  Track(wire[c], Disconnected(d[c]), Seen(view[c]), engine.outs, engine.seq,
                     Removed, TRUE)
    <3> DEFINE full == TRUE
    <3>1. Track(wire[c], d[c], Seen(view[c]), engine.outs, engine.seq, Removed, full)
      BY <2>1, FollowsOf
    <3> HIDE DEF full
    <3> QED BY <2>1, <3>1, FollowsOf, TrackDropped
  <2> QED BY <1>1, <1>3, <2>1, ClientFollows
<1>4. CASE d' = [d EXCEPT ![c] = MoveHead(d[c])] /\ HeadMoves(d[c])
  <2>1. ASSUME peer[c] # "closed"
        PROVE  Track(wire[c], MoveHead(d[c]), Seen(view[c]), engine.outs, engine.seq,
                     Removed, TRUE)
    BY <1>0, <1>4, <2>1, RolesTypes, FollowsOf, TrackMoved
  <2> QED BY <1>1, <1>4, <2>1, ClientFollows
<1>5. CASE d' = [d EXCEPT ![c] = d[c]]
  BY <1>1, <1>5, FollowsOf, ClientFollows
<1> QED BY <1>2, <1>3, <1>4, <1>5

\* flush_native pays one debt.
LEMMA FollowFlushEnd == ASSUME ReplayInv, RolesInv', FlushEnd PROVE FollowInv'
<1>0. RolesInv
  BY DEF ReplayInv
<1>1. UNCHANGED <<engine, wire, view, peer>>
  BY DEF FlushEnd, transportVars, viewVars
<1>2. CASE UNCHANGED <<d, cursor>>
  BY <1>1, <1>2, SameFollows
<1>3. ASSUME NEW c \in Clients, First(c, Turn(flush.ready)),
             d' = [d EXCEPT ![c] = Recover(@, Checkpoint(engine), Fits(engine))]
      PROVE  FollowInv'
  <2> DEFINE r == Recover(d[c], Checkpoint(engine), Fits(engine))
  <2>1. d' = [d EXCEPT ![c] = r]
    BY <1>0, <1>3, RolesTypes
  <2>2. c \in flush.ready
    BY <1>3 DEF First, Turn
  <2>3. d[c].queue = <<>> /\ (d[c].live => d[c].needs /\ ~d[c].pending)
    BY <1>0, <2>2 DEF RolesInv, FlushOK
  <2>4. ASSUME peer[c] # "closed"
        PROVE  Track(wire[c], r, Seen(view[c]), engine.outs, engine.seq, Removed, TRUE)
    <3>1. /\ Track(wire[c], d[c], Seen(view[c]), engine.outs, engine.seq, Removed, TRUE)
          /\ wire[c] \in Seq(Message) /\ d[c] \in DeliveryRecord /\ Roles(d[c])
          /\ engine.outs \in Nat /\ engine.seq \in Nat /\ Removed \in BOOLEAN
          /\ IsCheckpoint(Checkpoint(engine), engine.outs, engine.seq, Removed)
          /\ Checkpoint(engine) \in Message /\ Fits(engine) \in BOOLEAN
      BY <2>4, FollowsOf
    <3>2. CASE d[c].live
      BY ONLY <2>3, <3>1, <3>2, TrackRecover
    <3>3. CASE ~d[c].live
      <4> DEFINE t == Cleared(d[c])
                 full == TRUE
      <4>1. Steady(d[c], Busy(c), Visiting(c)) /\ Busy(c) \in BOOLEAN /\ Visiting(c) \in BOOLEAN
        BY <1>0, RolesTypes
      <4>2. r = t
        BY <3>1, <3>3, <4>1, RecoverGone
      <4>3. ~d[c].needs
        BY <3>1, <3>3 DEF Roles
      <4>4. /\ t.queue = d[c].queue /\ t.chan = d[c].chan /\ t.issued = d[c].issued
            /\ t.live = d[c].live /\ t.subscribed = d[c].subscribed
            /\ (Engaged(t) <=> Engaged(d[c]))
        BY <2>3, <3>1, ClearedFields
      <4>5. Track(wire[c], d[c], Seen(view[c]), engine.outs, engine.seq, Removed, full) /\ full
        BY <3>1
      <4> HIDE DEF t, full
      <4>6. Track(wire[c], t, Seen(view[c]), engine.outs, engine.seq, Removed, full)
        BY <4>3, <4>4, <4>5, TrackSame
      <4> QED BY <4>2, <4>6 DEF full
    <3> QED BY <3>2, <3>3
  <2> HIDE DEF r
  <2> QED BY <1>1, <2>1, <2>4, ClientFollows
<1> QED BY <1>2, <1>3 DEF FlushEnd

-----------------------------------------------------------------------------
(* The views *)

\* The history of n outputs, and of one more
LEMMA PrefixFacts ==
  ASSUME NEW n \in Nat
  PROVE  /\ Prefix(n) \in Seq(Nat) /\ Len(Prefix(n)) = n
         /\ Append(Prefix(n), n + 1) = Prefix(n + 1)
         /\ Latest(Prefix(n)) = n
<1>1. Prefix(n) \in Seq(Nat) /\ Len(Prefix(n)) = n /\ \A i \in 1..n : Prefix(n)[i] = i
  BY DEF Prefix
<1>2. /\ Prefix(n + 1) \in Seq(Nat) /\ Len(Prefix(n + 1)) = n + 1
      /\ \A i \in 1..(n + 1) : Prefix(n + 1)[i] = i
  BY DEF Prefix
<1> DEFINE x == Prefix(n)
           y == Prefix(n + 1)
<1> HIDE DEF x, y
<1>3. /\ x \in Seq(Nat) /\ Len(x) = n /\ \A i \in 1..n : x[i] = i
      /\ y \in Seq(Nat) /\ Len(y) = n + 1 /\ \A i \in 1..(n + 1) : y[i] = i
  BY <1>1, <1>2 DEF x, y
<1>4. Append(x, n + 1) = y
  BY <1>3
<1>5. Latest(x) = n
  <2>1. n = 0 => x = <<>>
    BY <1>3
  <2>2. n # 0 => x # <<>> /\ n \in 1..n
    BY <1>3
  <2> QED BY <1>3, <2>1, <2>2 DEF Latest
<1> QED BY <1>1, <1>4, <1>5 DEF x, y

\* What a view shows has the type of replays.
LEMMA SeenFields ==
  ASSUME NEW v \in View, NEW a, a = Seen(v)
  PROVE  /\ a \in Shown
         /\ a.crit = v.crit /\ a.n = Latest(v.shown) /\ a.seq = v.seq /\ a.mode = v.pane
         /\ a.drag = v.drag /\ a.torn = v.torn
         /\ a.mode # "over"
<1>1. v.crit \in Nat /\ v.seq \in Nat /\ v.drag \in Nat /\ v.torn \in BOOLEAN
      /\ v.shown \in Seq(Nat) /\ v.pane \in {"unseen", "open", "closed"}
  BY DEF View
<1>2. Latest(v.shown) \in Nat
  BY <1>1, LatestNat
<1> QED BY <1>1, <1>2 DEF Seen, Shown

\* Fields that agree
LEMMA SeenIs ==
  ASSUME NEW v, NEW b \in Shown,
         v.crit = b.crit, Latest(v.shown) = b.n, v.seq = b.seq, v.pane = b.mode,
         v.drag = b.drag, v.torn = b.torn
  PROVE  Seen(v) = b
  BY DEF Seen, Shown

\* A view that was v is u: it stays as it is, follows the pane, misses an
\* output, or goes on torn.
Moves(v, u, o) ==
  \/ u.shown = v.shown /\ u.torn = v.torn
  \/ /\ ~u.torn
     /\ \E n \in Nat : Latest(v.shown) <= n /\ n <= o /\ u.shown = Prefix(n)
  \/ u.torn /\ u.shown = v.shown /\ Latest(v.shown) < o
  \/ /\ v.torn /\ u.torn
     /\ \E n \in Nat : Latest(v.shown) < n /\ n <= o /\ u.shown = Append(v.shown, n)

\* The next output on a terminal that is there
LEMMA ShowsNext ==
  ASSUME NEW v \in View, NEW m \in Message, NEW b \in Shown, NEW o \in Nat, NEW r,
         v.status = "open", Honest(v, o, r), b.n <= o,
         ShowsOutput(Seen(v), m, b), b.crit = v.crit, NEW u, u = Apply(v, m)
  PROVE  Seen(u) = b /\ Honest(u, o, r) /\ Moves(v, u, o)
<1> DEFINE a == Seen(v)
           n == Latest(v.shown)
           k == Len(v.shown)
<1>1. /\ a.n = n /\ a.seq = v.seq /\ a.mode = v.pane
      /\ a.drag = v.drag /\ a.torn = v.torn
  BY SeenFields
<1>2. /\ v.seq \in Nat /\ v.torn \in BOOLEAN /\ v.shown \in Seq(Nat)
      /\ m.seq \in Nat /\ m.nth \in Nat /\ n \in Nat /\ k \in Nat
  BY MessageTypes, LatestNat DEF View
<1>3. ~v.torn => v.shown = Prefix(k) /\ k = n
  BY <1>2, PrefixFacts DEF Honest
<1> HIDE DEF a, n, k
<1>4. /\ m.kind = "output" /\ v.pane = "open" /\ m.seq > v.seq
      /\ v.torn => m.nth > n
      /\ ~v.torn => m.nth = n + 1
      /\ b.mode = "open" /\ b.n = m.nth /\ b.seq = m.seq
      /\ b.drag = v.drag /\ b.torn = v.torn
  BY <1>1 DEF ShowsOutput, a
<1>5. u = [v EXCEPT !.seq = m.seq, !.shown = Append(v.shown, m.nth)]
  <2>1. ~(m.seq <= v.seq)
    BY <1>2, <1>4
  <2>2. Apply(v, m) = ApplyOutput(v, m)
    BY <1>4 DEF Apply
  <2> QED BY <1>4, <2>1, <2>2 DEF ApplyOutput
<1>6. /\ u.seq = m.seq /\ u.shown = Append(v.shown, m.nth) /\ u.crit = v.crit
      /\ u.pane = v.pane /\ u.status = v.status /\ u.drag = v.drag /\ u.torn = v.torn
  BY <1>5 DEF View
<1>7. Latest(u.shown) = m.nth
  BY <1>2, <1>6, LatestAppend
<1>8. Seen(u) = b
  BY <1>4, <1>6, <1>7, SeenIs
<1>9. ~v.torn => u.shown = Prefix(m.nth) /\ Len(u.shown) = m.nth
  <2>1. n + 1 \in Nat
    BY <1>2
  <2>2. Append(Prefix(n), n + 1) = Prefix(n + 1) /\ Len(Prefix(n + 1)) = n + 1
    BY <1>2, <2>1, PrefixFacts
  <2> QED BY <1>3, <1>4, <1>6, <2>2
<1>10. Honest(u, o, r)
  BY <1>4, <1>6, <1>7, <1>9 DEF Honest
<1>11. Moves(v, u, o)
  <2>1. CASE v.torn
    BY <1>2, <1>4, <1>6, <2>1 DEF Moves, n
  <2>2. CASE ~v.torn
    <3>1. n <= m.nth /\ m.nth <= o
      BY <1>2, <1>4, <2>2
    <3>2. ~u.torn
      BY <1>6, <2>2
    <3> QED BY <1>2, <1>9, <2>2, <3>1, <3>2 DEF Moves, n
  <2> QED BY <2>1, <2>2
<1> QED BY <1>8, <1>10, <1>11

\* An output that metadata has overtaken
LEMMA DropsLate ==
  ASSUME NEW v \in View, NEW m \in Message, NEW b \in Shown, NEW o \in Nat, NEW r,
         v.status = "open", Honest(v, o, r), DropsOutput(Seen(v), m, b, o),
         NEW u, u = Apply(v, m)
  PROVE  Seen(u) = b /\ Honest(u, o, r) /\ Moves(v, u, o)
<1> DEFINE a == Seen(v)
<1>1. /\ a \in Shown /\ a.crit = v.crit /\ a.n = Latest(v.shown) /\ a.seq = v.seq
      /\ a.mode = v.pane /\ a.drag = v.drag /\ a.torn = v.torn
  BY SeenFields
<1>2. Latest(v.shown) \in Nat /\ m.nth \in Nat
  BY MessageTypes, LatestNat DEF View
<1> HIDE DEF a
<1>3. /\ m.kind = "output" /\ v.pane = "open" /\ m.nth > Latest(v.shown) /\ m.nth <= o
      /\ m.seq <= v.seq /\ m.seq <= v.drag
  BY <1>1 DEF DropsOutput, a
<1>4. /\ b.crit = a.crit /\ b.n = a.n /\ b.seq = a.seq /\ b.drag = a.drag
      /\ b.mode = a.mode /\ b.torn
  <2>1. b = [a EXCEPT !.torn = TRUE]
    BY DEF DropsOutput, a
  <2> QED BY <1>1, <2>1 DEF Shown
<1> DEFINE late == v.torn \/ m.seq <= v.drag
<1>5. u = [v EXCEPT !.torn = late] /\ late
  <2>1. Apply(v, m) = ApplyOutput(v, m)
    BY <1>3 DEF Apply
  <2>2. ApplyOutput(v, m) = [v EXCEPT !.torn = late]
    <3>1. m.seq <= v.seq
      BY <1>3
    <3>2. ApplyOutput(v, m) = [v EXCEPT !.torn = v.torn \/ m.seq <= v.drag]
      <4>1. m.seq \in Nat /\ v.seq \in Nat
        BY MessageTypes DEF View
      <4>2. ~(m.seq > v.seq)
        BY <3>1, <4>1
      <4> QED BY <3>1, <4>2, Zenon DEF ApplyOutput
    <3> QED BY <3>2
  <2>3. late
    BY <1>3
  <2> HIDE DEF late
  <2> QED BY <2>1, <2>2, <2>3
<1> HIDE DEF late
<1>6. /\ u.seq = v.seq /\ u.shown = v.shown /\ u.crit = v.crit
      /\ u.pane = v.pane /\ u.status = v.status /\ u.drag = v.drag
  BY <1>5 DEF View
<1>7. u.torn /\ u.torn = b.torn
  <2>1. b.torn \in BOOLEAN /\ late \in BOOLEAN
    BY ShownTypes, <1>5 DEF late, View
  <2>2. u.torn = late
    BY <1>5 DEF View
  <2> QED BY <1>4, <1>5, <2>1, <2>2
<1>8. Seen(u) = b
  BY <1>1, <1>4, <1>6, <1>7, SeenIs
<1>9. Honest(u, o, r)
  <2>1. u.pane = "open" /\ u.status = "open"
    BY <1>3, <1>6
  <2> QED BY <1>6, <1>7, <2>1 DEF Honest
<1>10. Moves(v, u, o)
  <2>1. Latest(v.shown) < o
    BY <1>2, <1>3
  <2> QED BY <1>6, <1>7, <2>1 DEF Moves
<1> QED BY <1>8, <1>9, <1>10

\* What a view shows after a message is what the replay says, and it moves as
\* AttachedView allows.
LEMMA ViewReplays ==
  ASSUME NEW v \in View, NEW m \in Message, NEW b \in Shown, NEW o \in Nat, NEW r,
         v.status = "open", Honest(v, o, r), Fine(b, o, r),
         Step(Seen(v), m, b, o, r), NEW u, u = Apply(v, m)
  PROVE  /\ u.status = "open" => Seen(u) = b
         /\ Honest(u, o, r)
         /\ Moves(v, u, o)
<1> DEFINE a == Seen(v)
           n == Latest(v.shown)
           k == Len(v.shown)
<1>1. /\ a \in Shown
      /\ a.crit = v.crit /\ a.n = n /\ a.seq = v.seq /\ a.mode = v.pane
      /\ a.drag = v.drag /\ a.torn = v.torn
      /\ a.mode # "over"
  BY SeenFields
<1>2. /\ v.shown \in Seq(Nat) /\ n \in Nat /\ k \in Nat
      /\ v.pane \in {"unseen", "open", "closed"} /\ v.seq \in Nat /\ v.crit \in Nat
      /\ v.torn \in BOOLEAN /\ v.drag \in Nat
  BY LatestNat DEF View
<1>3. /\ ~v.torn => v.shown = Prefix(k) /\ k = n
      /\ n <= o
      /\ v.pane = "closed" => (v.torn \/ k = o) /\ r
  BY <1>2, PrefixFacts DEF Honest
<1>4. m.kind \in Kinds /\ m.seq \in Nat /\ m.nth \in Nat /\ m.gone \in BOOLEAN
  BY MessageTypes
<1>5. /\ b.crit \in Nat /\ b.n \in Nat /\ b.seq \in Nat
      /\ b.n <= o /\ (b.mode = "closed" => (b.torn \/ b.n = o) /\ r)
  BY ShownTypes DEF Fine, Final
<1> HIDE DEF a, n, k
<1>6. Step(a, m, b, o, r)
  BY DEF a
<1>7. CASE m.kind = "output"
  <2>1. b.crit = v.crit /\ (ShowsOutput(a, m, b) \/ DropsOutput(a, m, b, o))
    BY <1>1, <1>6, <1>7
       DEF Step, Counts, ShowsSnapshot, ShowsDrag, ShowsEnd, DropsOutput, CriticalKinds
  <2>2. CASE ShowsOutput(a, m, b)
    BY <1>5, <2>1, <2>2, ShowsNext DEF a
  <2>3. CASE DropsOutput(a, m, b, o)
    BY <2>3, DropsLate DEF a
  <2> QED BY <2>1, <2>2, <2>3
<1>8. CASE m.kind = "snapshot" /\ ~m.gone
  <2>1. ShowsSnapshot(a, m, b) /\ b.crit = a.crit
    BY <1>1, <1>6, <1>8
       DEF Step, Counts, ShowsOutput, DropsOutput, ShowsDrag, ShowsEnd, CriticalKinds
  <2>2. /\ m.seq >= v.seq /\ b.seq = m.seq /\ b.drag = v.drag
        /\ m.nth >= n /\ b.n = m.nth /\ b.mode = "open" /\ ~b.torn
    BY <1>1, <1>8, <2>1 DEF ShowsSnapshot
  <2> DEFINE x == [v EXCEPT !.seq = m.seq, !.base = m.seq, !.refresh = FALSE]
  <2>3. u = [x EXCEPT !.pane = "open", !.torn = FALSE, !.shown = Prefix(m.nth)]
    <3>1. ~(m.seq < v.seq)
      BY <1>2, <1>4, <2>2
    <3>2. Apply(v, m) = ApplySnapshot(v, m)
      BY <1>8 DEF Apply
    <3> QED BY <1>8, <3>1, <3>2 DEF ApplySnapshot
  <2>4. /\ u.seq = m.seq /\ u.shown = Prefix(m.nth) /\ u.crit = v.crit /\ u.drag = v.drag
        /\ u.pane = "open" /\ u.status = v.status /\ u.torn = FALSE
    BY <2>3 DEF View
  <2>5. Len(u.shown) = m.nth /\ Latest(u.shown) = m.nth /\ u.shown = Prefix(Len(u.shown))
    BY <1>4, <2>4, PrefixFacts
  <2>6. b.torn = FALSE
    BY <2>2, ShownTypes
  <2>7. Seen(u) = b
    <3>1. /\ u.crit = b.crit /\ Latest(u.shown) = b.n /\ u.seq = b.seq
          /\ u.pane = b.mode /\ u.drag = b.drag
      BY <1>1, <2>1, <2>2, <2>4, <2>5
    <3>2. u.torn = b.torn
      BY <2>4, <2>6
    <3> QED BY <3>1, <3>2, SeenIs
  <2>8. Honest(u, o, r)
    <3>1. Latest(u.shown) <= o /\ u.pane = "open" /\ u.status = "open"
      BY <1>5, <2>2, <2>4, <2>5
    <3> QED BY <2>5, <3>1 DEF Honest
  <2>9. Moves(v, u, o)
    BY <1>2, <1>4, <1>5, <2>2, <2>4 DEF Moves, n
  <2> QED BY <2>7, <2>8, <2>9
<1>9. CASE m.kind = "snapshot" /\ m.gone
  <2>1. ShowsSnapshot(a, m, b) /\ b.crit = a.crit
    BY <1>1, <1>6, <1>9
       DEF Step, Counts, ShowsOutput, DropsOutput, ShowsDrag, ShowsEnd, CriticalKinds
  <2>2. /\ m.seq >= v.seq /\ b.seq = m.seq /\ b.drag = v.drag
        /\ b.n = n /\ b.torn = v.torn
        /\ b.mode = IF v.pane = "unseen" THEN "unseen" ELSE "closed"
    BY <1>1, <1>9, <2>1 DEF ShowsSnapshot
  <2> DEFINE x == [v EXCEPT !.seq = m.seq, !.base = m.seq, !.refresh = FALSE]
  <2>3. u = IF v.pane = "unseen" THEN x ELSE [x EXCEPT !.pane = "closed"]
    <3>1. ~(m.seq < v.seq)
      BY <1>2, <1>4, <2>2
    <3>2. Apply(v, m) = ApplySnapshot(v, m)
      BY <1>9 DEF Apply
    <3> QED BY <1>9, <3>1, <3>2 DEF ApplySnapshot
  <2>4. /\ u.seq = m.seq /\ u.shown = v.shown /\ u.crit = v.crit /\ u.drag = v.drag
        /\ u.torn = v.torn /\ u.status = v.status
        /\ u.pane = IF v.pane = "unseen" THEN "unseen" ELSE "closed"
    BY <2>3 DEF View
  <2>5. Seen(u) = b
    BY <1>1, <2>1, <2>2, <2>4, SeenIs DEF n
  <2>6. Honest(u, o, r)
    BY <1>3, <1>5, <2>2, <2>4 DEF Honest, n, k
  <2> QED BY <2>4, <2>5, <2>6 DEF Moves
<1>10. CASE m.kind \in {"changed", "critical"}
  <2>1. /\ b.n = a.n /\ b.seq = a.seq /\ b.mode = a.mode
        /\ b.drag = a.drag /\ b.torn = a.torn
        /\ b.crit = IF m.kind = "critical" THEN m.nth ELSE a.crit
    BY <1>1, <1>6, <1>10
       DEF Step, Counts, Still, ShowsOutput, DropsOutput, ShowsSnapshot, ShowsDrag, ShowsEnd,
           CriticalKinds
  <2>2. u = IF m.kind = "critical" THEN [v EXCEPT !.crit = m.nth]
            ELSE [v EXCEPT !.refresh = TRUE]
    BY <1>10 DEF Apply, Refresh
  <2>3. /\ u.seq = v.seq /\ u.shown = v.shown /\ u.drag = v.drag /\ u.torn = v.torn
        /\ u.pane = v.pane /\ u.status = v.status
        /\ u.crit = IF m.kind = "critical" THEN m.nth ELSE v.crit
    BY <2>2 DEF View
  <2>4. Seen(u) = b
    BY <1>1, <2>1, <2>3, SeenIs DEF n
  <2>5. Honest(u, o, r)
    BY <2>3 DEF Honest
  <2> QED BY <2>3, <2>4, <2>5 DEF Moves
<1>11. CASE m.kind = "drag"
  <2>1. ShowsDrag(a, m, b) /\ b.crit = m.nth
    BY <1>1, <1>6, <1>11
       DEF Step, Counts, ShowsOutput, DropsOutput, ShowsSnapshot, ShowsEnd, CriticalKinds
  <2>2. /\ m.seq > v.seq /\ b.seq = m.seq /\ b.drag = m.seq
        /\ b.n = n /\ b.torn = v.torn /\ b.mode = v.pane
    BY <1>1, <2>1 DEF ShowsDrag
  <2> DEFINE y == [v EXCEPT !.crit = m.nth]
             x == [y EXCEPT !.seq = m.seq, !.drag = m.seq]
  <2>3. u = IF v.pane = "open" THEN x ELSE [x EXCEPT !.refresh = TRUE]
    <3>1. ~(m.seq <= v.seq)
      BY <1>2, <1>4, <2>2
    <3>2. Apply(v, m) = ApplyDrag(v, m)
      BY <1>11 DEF Apply
    <3> QED BY <2>2, <3>1, <3>2 DEF ApplyDrag, Refresh
  <2>4. /\ u.seq = m.seq /\ u.shown = v.shown /\ u.crit = m.nth /\ u.drag = m.seq
        /\ u.torn = v.torn /\ u.status = v.status /\ u.pane = v.pane
    BY <2>3 DEF View
  <2>5. Seen(u) = b
    BY <2>1, <2>2, <2>4, SeenIs DEF n
  <2>6. Honest(u, o, r)
    BY <2>4 DEF Honest
  <2> QED BY <2>4, <2>5, <2>6 DEF Moves
<1>12. CASE m.kind = "aborted"
  <2>1. u = [v EXCEPT !.crit = m.nth, !.status = "failed"]
    BY <1>12 DEF Apply
  <2>2. u.shown = v.shown /\ u.pane = v.pane /\ u.status = "failed" /\ u.torn = v.torn
    BY <2>1 DEF View
  <2> QED BY <1>3, <2>2 DEF Honest, Moves, n, k
<1>13. CASE m.kind = "final"
  <2>1. m.gone /\ a.mode = "open" => (a.torn \/ a.n = o) /\ r
    BY <1>1, <1>6, <1>13
       DEF Step, ShowsOutput, DropsOutput, ShowsSnapshot, ShowsDrag, ShowsEnd, Final
  <2>2. u = [v EXCEPT !.crit = m.nth,
                      !.status = IF m.gone THEN "destroyed" ELSE "detached"]
    BY <1>13 DEF Apply
  <2>3. /\ u.shown = v.shown /\ u.pane = v.pane /\ u.torn = v.torn
        /\ u.status = IF m.gone THEN "destroyed" ELSE "detached"
    BY <2>2 DEF View
  <2>4. Honest(u, o, r)
    BY <1>1, <1>3, <2>1, <2>3 DEF Honest, n, k
  <2> QED BY <1>4, <2>3, <2>4 DEF Moves
<1> QED BY <1>4, <1>7, <1>8, <1>9, <1>10, <1>11, <1>12, <1>13
        DEF Kinds, DeltaKinds, CriticalKinds

\* The view of a client that sees nothing yet
LEMMA FreshTracks ==
  ASSUME NEW s, NEW o \in Nat, NEW q \in Nat, NEW r \in BOOLEAN,
         s.chan = <<>>, s.queue = <<>>, s.issued = 0, ~s.subscribed
  PROVE  Track(<<>>, s, Seen(NewView), o, q, r, TRUE)
<1> DEFINE a == Seen(NewView)
<1>1. a.crit = 0 /\ a.n = 0 /\ a.seq = 0 /\ a.mode = "unseen" /\ a \in Shown
  BY DEF Seen, NewView, Shown, Latest
<1> HIDE DEF a
<1>2. Fine(a, o, r)
  BY <1>1 DEF Fine
<1>3. Path(<<>>, a, a, o, r)
  BY <1>1, <1>2, PathEmpty
<1>4. Under(<<>>, s) = <<>>
  BY DEF Under
<1>5. Ends(s, a, o, q, r, TRUE)
  BY <1>1 DEF Ends
<1> QED BY <1>1, <1>3, <1>4, <1>5 DEF Track, a

\* A step of one client's writer or view
LEMMA OneFollows ==
  ASSUME ReplayInv, UNCHANGED engine, NEW c \in Clients,
         \A b \in Clients \ {c} :
           d'[b] = d[b] /\ wire'[b] = wire[b] /\ view'[b] = view[b] /\ peer'[b] = peer[b],
         peer'[c] # "closed" =>
           /\ view'[c].status = "open"
           /\ Track(wire'[c], d'[c], Seen(view'[c]), engine.outs, engine.seq, Removed, TRUE),
         peer'[c] = "away" => wire'[c] = <<>> /\ view'[c] = NewView,
         Honest(view'[c], engine.outs, Removed)
  PROVE  FollowInv'
<1>1. engine'.outs = engine.outs /\ engine'.seq = engine.seq /\ Removed' = Removed
  BY DEF Removed
<1>2. ASSUME NEW b \in Clients, peer'[b] # "closed"
      PROVE  /\ view'[b].status = "open"
             /\ Track(wire'[b], d'[b], Seen(view'[b]), engine'.outs, engine'.seq, Removed', TRUE)
  <2>1. CASE b = c
    BY <1>1, <1>2, <2>1
  <2>2. CASE b # c
    <3>1. peer[b] # "closed"
      BY <1>2, <2>2
    <3>2. /\ view[b].status = "open"
          /\ Track(wire[b], d[b], Seen(view[b]), engine.outs, engine.seq, Removed, TRUE)
      BY <3>1, FollowsOf
    <3> QED BY <1>1, <2>2, <3>2
  <2> QED BY <2>1, <2>2
<1>3. AllFollow'
  <2> SUFFICES ASSUME NEW b \in Clients, peer'[b] # "closed"
               PROVE  view'[b].status = "open" /\ Follows(b)'
    BY DEF AllFollow
  <2>1. /\ view'[b].status = "open"
        /\ Track(wire'[b], d'[b], Seen(view'[b]), engine'.outs, engine'.seq, Removed', TRUE)
    BY <1>2
  <2> QED BY <2>1 DEF Follows, Seen
<1>4. Fresh'
  BY DEF ReplayInv, FollowInv, Fresh
<1>5. AllHonest'
  <2> SUFFICES ASSUME NEW b \in Clients PROVE Honest(view'[b], engine'.outs, Removed')
    BY DEF AllHonest, Honest
  <2>1. CASE b = c
    BY <1>1, <2>1
  <2>2. CASE b # c
    BY <1>1, <2>2 DEF ReplayInv, FollowInv, AllHonest
  <2> QED BY <2>1, <2>2
<1> QED BY <1>3, <1>4, <1>5 DEF FollowInv

\* What FollowInv says of one view
LEMMA HonestOf ==
  ASSUME ReplayInv, NEW c \in Clients
  PROVE  /\ Honest(view[c], engine.outs, Removed) /\ view[c] \in View
         /\ peer[c] = "away" => wire[c] = <<>> /\ view[c] = NewView
  BY ReplayTypes DEF ReplayInv, FollowInv, AllHonest, Fresh

\* Event::Connect.
LEMMA FollowConnect == ASSUME ReplayInv, RolesInv', NEW c \in Clients, Connect(c) PROVE FollowInv'
<1> DEFINE s == [d[c] EXCEPT !.live = TRUE]
<1>0. RolesInv
  BY DEF ReplayInv
<1>1. /\ d[c] = Absent /\ peer[c] = "away" /\ wire[c] = <<>> /\ view[c] = NewView
      /\ UNCHANGED <<engine, wire, view>>
  BY <1>0, RolesTypes, HonestOf DEF Connect, transportVars
<1>2. /\ d' = [d EXCEPT ![c] = s] /\ peer' = [peer EXCEPT ![c] = "open"]
      /\ peer \in [Clients -> {"away", "open", "closed"}]
  BY <1>0, RolesTypes DEF Connect, RolesInv, IInv, RestOK
<1>3. s.chan = <<>> /\ s.queue = <<>> /\ s.issued = 0 /\ ~s.subscribed
  BY <1>1 DEF Absent
<1> HIDE DEF s
<1>4. /\ d'[c] = s /\ peer'[c] = "open"
      /\ \A b \in Clients \ {c} : d'[b] = d[b] /\ peer'[b] = peer[b]
  <2>1. d \in [Clients -> DeliveryRecord]
    BY <1>0, RolesTypes
  <2> QED BY <1>2, <2>1
<1>5. engine.outs \in Nat /\ engine.seq \in Nat /\ Removed \in BOOLEAN
  BY <1>0, ReplayTypes
<1>6. Track(<<>>, s, Seen(NewView), engine.outs, engine.seq, Removed, TRUE)
  BY <1>3, <1>5, FreshTracks
<1>7. view'[c].status = "open"
  BY <1>1 DEF NewView
<1>8. Track(wire'[c], d'[c], Seen(view'[c]), engine.outs, engine.seq, Removed, TRUE)
  BY <1>1, <1>4, <1>6
<1>9. \A b \in Clients \ {c} :
        d'[b] = d[b] /\ wire'[b] = wire[b] /\ view'[b] = view[b] /\ peer'[b] = peer[b]
  BY <1>1, <1>4
<1>10. Honest(view'[c], engine.outs, Removed)
  BY <1>1, HonestOf
<1> QED BY <1>1, <1>4, <1>7, <1>8, <1>9, <1>10, OneFollows

\* The message taken moves from one end of the channel to the wire.
LEMMA TrackTaken ==
  ASSUME NEW w \in Seq(Message), NEW s, GoodRecord(s), s.chan # <<>>, NEW a, NEW o, NEW q,
         NEW r, Track(w, s, a, o, q, r, TRUE)
  PROVE  Track(Append(w, Head(s.chan)), TakeHead(s), a, o, q, r, TRUE)
<1> DEFINE t == TakeHead(s)
<1>1. s \in DeliveryRecord /\ s.chan \in Seq(Message) /\ s.queue \in Seq(Message)
  BY RecordTypes DEF GoodRecord
<1> HIDE DEF t
<1>2. /\ t.chan = Tail(s.chan) /\ t.queue = s.queue
      /\ t.live = s.live /\ t.subscribed = s.subscribed
      /\ t.needs = s.needs /\ t.pending = s.pending /\ t.issued = s.issued
      /\ (Engaged(t) <=> Engaged(s))
  BY TakenFields DEF t
<1>3. Under(Append(w, Head(s.chan)), t) = Under(w, s)
  <2>1. Append(w, Head(s.chan)) \o Tail(s.chan) \o s.queue = w \o s.chan \o s.queue
    BY <1>1, UnderTaken
  <2> QED BY <1>2, <2>1 DEF Under
<1>4. PICK z \in Shown : Path(Under(w, s), a, z, o, r) /\ Ends(s, z, o, q, r, TRUE)
  BY DEF Track
<1>5. Ends(t, z, o, q, r, TRUE)
  BY <1>2, <1>4 DEF Ends
<1>6. Track(Append(w, Head(s.chan)), t, a, o, q, r, TRUE)
  BY <1>3, <1>4, <1>5 DEF Track
<1> QED BY <1>6 DEF t

\* A writer takes a message.
LEMMA FollowTake == ASSUME ReplayInv, RolesInv', NEW c \in Clients, Take(c) PROVE FollowInv'
<1> DEFINE m == Head(d[c].chan)
           s == TakeHead(d[c])
<1>0. RolesInv /\ wire \in [Clients -> Seq(Message)]
  BY DEF ReplayInv, RolesInv, IInv, RestOK
<1>1. /\ d' = [d EXCEPT ![c] = s] /\ wire' = [wire EXCEPT ![c] = Append(wire[c], m)]
      /\ d[c].chan # <<>> /\ peer[c] = "open" /\ UNCHANGED <<engine, view, peer>>
  BY <1>0, RolesTypes DEF Take, viewVars
<1> HIDE DEF m, s
<1>2. /\ d'[c] = s /\ wire'[c] = Append(wire[c], m)
      /\ \A b \in Clients \ {c} : d'[b] = d[b] /\ wire'[b] = wire[b]
  <2>1. d \in [Clients -> DeliveryRecord]
    BY <1>0, RolesTypes
  <2> QED BY <1>0, <1>1, <2>1
<1>3. Track(wire[c], d[c], Seen(view[c]), engine.outs, engine.seq, Removed, TRUE)
      /\ view[c].status = "open"
  BY <1>1, FollowsOf
<1>4. GoodRecord(d[c]) /\ wire[c] \in Seq(Message)
  BY <1>0, RolesTypes
<1>5. Track(Append(wire[c], m), s, Seen(view[c]), engine.outs, engine.seq, Removed, TRUE)
  BY <1>1, <1>3, <1>4, TrackTaken DEF m, s
<1>6. Track(wire'[c], d'[c], Seen(view'[c]), engine.outs, engine.seq, Removed, TRUE)
      /\ view'[c].status = "open"
  BY <1>1, <1>2, <1>3, <1>5
<1>7. \A b \in Clients \ {c} :
        d'[b] = d[b] /\ wire'[b] = wire[b] /\ view'[b] = view[b] /\ peer'[b] = peer[b]
  BY <1>1, <1>2
<1>8. Honest(view'[c], engine.outs, Removed) /\ peer'[c] = "open"
  BY <1>1, HonestOf
<1> QED BY <1>1, <1>6, <1>7, <1>8, OneFollows

\* A writer finds its peer gone.
LEMMA FollowWriteFails == ASSUME ReplayInv, RolesInv', NEW c \in Clients, WriteFails(c) PROVE FollowInv'
<1>1. /\ peer[c] = "closed" /\ UNCHANGED <<engine, wire, view, peer>>
      /\ \A b \in Clients \ {c} : d'[b] = d[b]
  BY RolesTypes DEF ReplayInv, WriteFails, viewVars
<1> QED BY <1>1, HonestOf, OneFollows

\* A view that ends without having been told why
LEMMA LostHonest ==
  ASSUME NEW v \in View, NEW o, NEW r, Honest(v, o, r)
  PROVE  Honest([v EXCEPT !.status = "failed"], o, r)
  BY DEF Honest, View

\* A connection ends early.
LEMMA FollowLost ==
  ASSUME ReplayInv, RolesInv', NEW c \in Clients, ReceiveEnd(c) \/ PeerCloses(c) PROVE FollowInv'
<1>0. /\ wire \in [Clients -> Seq(Message)] /\ view \in [Clients -> View]
      /\ peer \in [Clients -> {"away", "open", "closed"}]
  BY DEF ReplayInv, RolesInv, IInv, RestOK
<1>1. /\ UNCHANGED <<engine, d>> /\ peer' = [peer EXCEPT ![c] = "closed"]
      /\ view' = [view EXCEPT ![c] = [view[c] EXCEPT !.status = "failed"]]
      /\ wire' = wire \/ wire' = [wire EXCEPT ![c] = <<>>]
  BY <1>0 DEF ReceiveEnd, PeerCloses, ownerVars, transportVars
<1>2. /\ peer'[c] = "closed" /\ view'[c] = [view[c] EXCEPT !.status = "failed"]
      /\ \A b \in Clients \ {c} :
           wire'[b] = wire[b] /\ view'[b] = view[b] /\ peer'[b] = peer[b]
  BY <1>0, <1>1
<1>3. Honest(view'[c], engine.outs, Removed)
  BY <1>2, HonestOf, LostHonest
<1> QED BY <1>1, <1>2, <1>3, OneFollows

\* What a view makes of the message it reads
LEMMA ReceiveShows ==
  ASSUME ReplayInv, NEW c \in Clients, Receive(c), NEW u, u = Apply(view[c], Head(wire[c]))
  PROVE  /\ u.status = "open" =>
              Track(Tail(wire[c]), d[c], Seen(u), engine.outs, engine.seq, Removed, TRUE)
         /\ Honest(u, engine.outs, Removed)
         /\ Moves(view[c], u, engine.outs)
<1> DEFINE w == wire[c]
           m == Head(w)
           v == view[c]
           s == d[c]
           o == engine.outs
           p == Under(w, s)
<1>1. peer[c] = "open" /\ w # <<>>
  BY DEF Receive
<1>3. /\ Track(w, s, Seen(v), o, engine.seq, Removed, TRUE)
      /\ w \in Seq(Message) /\ s \in DeliveryRecord
      /\ o \in Nat /\ v.status = "open" /\ Removed \in BOOLEAN
  BY <1>1, FollowsOf
<1>4. v \in View /\ Honest(v, o, Removed)
  BY HonestOf
<1>5. PICK z \in Shown :
        Path(p, Seen(v), z, o, Removed) /\ Ends(s, z, o, engine.seq, Removed, TRUE)
  BY <1>3 DEF Track
<1>6. p \in Seq(Message) /\ p # <<>> /\ Head(p) = m /\ Tail(p) = Under(Tail(w), s)
  <2>1. s.chan \in Seq(Message) /\ s.queue \in Seq(Message)
    BY <1>3, RecordTypes
  <2> DEFINE x == s.chan
             y == s.queue
  <2>2. p \in Seq(Message) /\ p = w \o x \o y /\ Under(Tail(w), s) = Tail(w) \o x \o y
    BY <1>3, UnderType DEF Under
  <2>3. x \in Seq(Message) /\ y \in Seq(Message) /\ w # <<>> /\ w \in Seq(Message)
    BY <1>1, <1>3, <2>1
  <2> HIDE DEF x, y, w, p
  <2>4. /\ w \o x \o y # <<>>
        /\ Head(w \o x \o y) = Head(w)
        /\ Tail(w \o x \o y) = Tail(w) \o x \o y
    BY ONLY <2>3, UnderRead, ZenonT(120)
  <2> QED BY <2>2, <2>4
<1>7. m \in Message
  BY <1>1, <1>3, HeadTail
<1> HIDE DEF w, m, v, s, o, p
<1>8. PICK b \in Shown : /\ Fine(b, o, Removed) /\ Step(Seen(v), m, b, o, Removed)
                          /\ Path(Tail(p), b, z, o, Removed)
  BY <1>5, <1>6, PathTail
<1>9. /\ u.status = "open" => Seen(u) = b
      /\ Honest(u, o, Removed) /\ Moves(v, u, o)
  BY <1>3, <1>4, <1>7, <1>8, ViewReplays DEF m, v, w
<1>10. u.status = "open" => Track(Tail(w), s, Seen(u), o, engine.seq, Removed, TRUE)
  BY <1>5, <1>6, <1>8, <1>9 DEF Track
<1> QED BY <1>9, <1>10 DEF w, v, s, o

\* A view reads a message.
LEMMA FollowReceive == ASSUME ReplayInv, RolesInv', NEW c \in Clients, Receive(c) PROVE FollowInv'
<1> DEFINE w == wire[c]
           u == Apply(view[c], Head(w))
           ended == u.status # "open"
<1>0. /\ wire \in [Clients -> Seq(Message)] /\ view \in [Clients -> View]
      /\ peer \in [Clients -> {"away", "open", "closed"}]
  BY DEF ReplayInv, RolesInv, IInv, RestOK
<1>1. /\ UNCHANGED <<engine, d>> /\ peer[c] = "open" /\ w # <<>>
      /\ view' = [view EXCEPT ![c] = u]
      /\ peer' = [peer EXCEPT ![c] = IF ended THEN "closed" ELSE @]
      /\ wire' = [wire EXCEPT ![c] = IF ended THEN <<>> ELSE Tail(@)]
  BY DEF Receive, ownerVars
<1>2. /\ view'[c] = u /\ peer'[c] = (IF ended THEN "closed" ELSE "open")
      /\ wire'[c] = (IF ended THEN <<>> ELSE Tail(w))
      /\ \A b \in Clients \ {c} :
           wire'[b] = wire[b] /\ view'[b] = view[b] /\ peer'[b] = peer[b]
  BY <1>0, <1>1
<1>3. /\ ~ended => Track(Tail(w), d[c], Seen(u), engine.outs, engine.seq, Removed, TRUE)
      /\ Honest(u, engine.outs, Removed)
  BY ReceiveShows
<1> HIDE DEF w, u
<1>4. peer'[c] # "closed" =>
           /\ view'[c].status = "open"
           /\ Track(wire'[c], d'[c], Seen(view'[c]), engine.outs, engine.seq, Removed, TRUE)
  BY <1>1, <1>2, <1>3
<1>5. Honest(view'[c], engine.outs, Removed)
  BY <1>2, <1>3
<1>6. peer'[c] # "away"
  BY <1>2
<1> QED BY <1>1, <1>2, <1>4, <1>5, <1>6, OneFollows

\* Steps that no view notices.
LEMMA FollowQuiet ==
  ASSUME ReplayInv, RolesInv',
         \/ FlushBegin \/ UNCHANGED vars
         \/ \E c \in Clients : Acknowledge(c) \/ WriterEnds(c)
  PROVE  FollowInv'
<1>1. UNCHANGED <<engine, d, wire, view, peer>>
  BY DEF FlushBegin, Acknowledge, WriterEnds, vars, ownerVars, transportVars, viewVars
<1> QED BY <1>1, SameFollows

\* A view that has not connected follows.
LEMMA FollowInit == Init => FollowInv
<1> SUFFICES ASSUME Init PROVE FollowInv
  OBVIOUS
<1>1. PICK weight \in SnapshotSizes : engine = FreshEngine(weight)
  BY DEF Init
<1>2. engine.outs = 0 /\ engine.seq = 0 /\ Removed = FALSE
  BY <1>1 DEF FreshEngine, Removed
<1>3. \A c \in Clients : /\ d[c] = Absent /\ wire[c] = <<>> /\ view[c] = NewView
                          /\ peer[c] = "away"
  BY DEF Init
<1>4. Absent.chan = <<>> /\ Absent.queue = <<>> /\ Absent.issued = 0 /\ ~Absent.subscribed
  BY DEF Absent
<1>5. engine.outs \in Nat /\ engine.seq \in Nat /\ Removed \in BOOLEAN
  BY <1>2 DEF Removed
<1>6. Track(<<>>, Absent, Seen(NewView), engine.outs, engine.seq, Removed, TRUE)
  BY <1>4, <1>5, FreshTracks
<1>7. AllFollow
  <2>1. NewView.status = "open"
    BY DEF NewView
  <2> QED BY <1>3, <1>6, <2>1 DEF AllFollow, Follows
<1>8. Fresh
  BY <1>3 DEF Fresh
<1>9. NewView.shown = Prefix(Len(NewView.shown)) /\ Latest(NewView.shown) = 0
      /\ NewView.pane = "unseen"
  BY DEF NewView, Prefix, Latest
<1>10. AllHonest
  BY <1>2, <1>3, <1>9 DEF AllHonest, Honest
<1> QED BY <1>7, <1>8, <1>10 DEF FollowInv

\* Both layers together are inductive.
LEMMA ReplayNext == ReplayInv /\ [Next]_vars => ReplayInv'
<1> SUFFICES ASSUME ReplayInv, [Next]_vars PROVE ReplayInv'
  OBVIOUS
<1>1. RolesInv'
  BY RolesNext DEF ReplayInv
<1>2. FollowInv'
  BY <1>1, FollowOutput, FollowDragChanges, FollowChange, FollowPaneExit, FollowInputFails, FollowFlushClient, FollowFlushEnd, FollowConnect,
     FollowHandleRequest, FollowHostEffect, FollowDetach, FollowSnapshotSent, FollowDisconnect, FollowTimeout, FollowTake,
     FollowWriteFails, FollowLost, FollowReceive, FollowQuiet
     DEF Next, Owner, Transport, Peers, FlushNative
<1> QED BY <1>1, <1>2 DEF ReplayInv

\* Both layers always hold.
LEMMA ReplayAlways == Spec => []ReplayInv
<1>1. Init => ReplayInv
  BY RolesInit, FollowInit DEF ReplayInv
<1> QED BY <1>1, ReplayNext, PTL DEF Spec

-----------------------------------------------------------------------------

\* A view that saw the pane shows its final terminal before the pane or the
\* session disappears from it, whatever deltas the server dropped on the way
\* (final_native_barrier).  The exception is a torn view: it dropped an output
\* itself, one that drag metadata had overtaken, and no checkpoint has reached
\* it since.
THEOREM FinalIsShown == Spec => []FinalTerminalIsShown
<1>1. ReplayInv => FinalTerminalIsShown
  BY DEF ReplayInv, FollowInv, AllHonest, Honest, FinalTerminalIsShown
<1> QED BY <1>1, ReplayAlways, PTL

\* Replies, host effects and lifecycle records reach a connected view exactly
\* once and in the order the owner issued them (send_native, queue_native).
THEOREM CriticalsArriveInOrder == Spec => []CriticalsExactlyOnceInOrder
<1>1. ASSUME ReplayInv PROVE CriticalsExactlyOnceInOrder
  <2> SUFFICES ASSUME NEW c \in Clients, peer[c] = "open"
               PROVE  LET p     == Pipeline(c)
                          under == {i \in DOMAIN p : IsCritical(p[i])}
                      IN  /\ \A i, j \in under : i < j => p[i].nth < p[j].nth
                          /\ \E last \in view[c].crit..d[c].issued :
                               /\ {p[i].nth : i \in under} = (view[c].crit + 1)..last
                               /\ d[c].live => last = d[c].issued
    BY DEF CriticalsExactlyOnceInOrder
  <2> DEFINE p == Pipeline(c)
             a == Seen(view[c])
             under == {i \in DOMAIN p : IsCritical(p[i])}
  <2>1. /\ Track(wire[c], d[c], a, engine.outs, engine.seq, Removed, TRUE)
        /\ wire[c] \in Seq(Message) /\ d[c] \in DeliveryRecord
    BY <1>1, FollowsOf
  <2>2. p = Under(wire[c], d[c]) /\ p \in Seq(Message)
    BY <2>1, UnderType DEF Pipeline, Under
  <2>3. PICK z \in Shown : /\ Path(p, a, z, engine.outs, Removed)
                            /\ Ends(d[c], z, engine.outs, engine.seq, Removed, TRUE)
    BY <2>1, <2>2 DEF Track
  <2>4. /\ a \in Shown /\ a.crit <= z.crit /\ z.crit <= d[c].issued
        /\ (d[c].live => z.crit = d[c].issued)
    BY <2>2, <2>3, PathEnds DEF Ends
  <2>5. a.crit = view[c].crit /\ a.crit \in Nat /\ z.crit \in Nat /\ d[c].issued \in Nat
    BY <2>1, <2>3, <2>4, ShownTypes, RecordTypes DEF Seen
  <2> DEFINE n == Len(p)
             f == a.crit
             l == z.crit
  <2>6. DOMAIN p = 1..n
    BY <2>2
  <2>7. \A i \in 1..n : IsCritical(p[i]) <=> TakesNumber(p[i])
    BY DEF IsCritical, TakesNumber
  <2>8. /\ \A i, j \in 1..n : TakesNumber(p[i]) /\ TakesNumber(p[j]) /\ i < j => p[i].nth < p[j].nth
        /\ \A i \in 1..n : TakesNumber(p[i]) => p[i].nth \in (f + 1)..l
        /\ \A k \in (f + 1)..l : \E i \in 1..n : TakesNumber(p[i]) /\ p[i].nth = k
    BY <2>2, <2>3, <2>4, PathCriticals
  <2> HIDE DEF p, a, n, f, l
  <2>9. under = {i \in 1..n : TakesNumber(p[i])}
    BY <2>6, <2>7
  <2> HIDE DEF under
  <2>10. \A i, j \in under : i < j => p[i].nth < p[j].nth
    BY <2>8, <2>9
  <2>11. {p[i].nth : i \in under} = (f + 1)..l
    BY <2>8, <2>9
  <2>12. l \in view[c].crit..d[c].issued /\ f = view[c].crit /\ (d[c].live => l = d[c].issued)
    BY <2>4, <2>5 DEF f, l
  <2> QED BY <2>10, <2>11, <2>12 DEF p, under
<1> QED BY <1>1, ReplayAlways, PTL

-----------------------------------------------------------------------------

\* Both modules mean the same history.
LEMMA HistoryIsPrefix == ASSUME NEW n PROVE Promise!History(n) = Prefix(n)
  BY DEF Promise!History, Prefix

\* And the same last output.
LEMMA LatestIsLatest == ASSUME NEW s PROVE Promise!Latest(s) = Latest(s)
  BY DEF Promise!Latest, Latest

\* A view whose terminal has not changed
SameTerminal(v, u) == u.shown = v.shown /\ u.torn = v.torn

\* A step moves one view, or none.
LEMMA OneViewMoves ==
  ASSUME ReplayInv, [Next]_vars
  PROVE  \/ engine'.outs = engine.outs + 1 /\ UNCHANGED view
         \/ engine'.outs = engine.outs
            /\ \A c \in Clients : SameTerminal(view[c], view'[c])
         \/ engine'.outs = engine.outs
            /\ \E c \in Clients : /\ Moves(view[c], view'[c], engine.outs)
                                  /\ \A b \in Clients \ {c} : SameTerminal(view[b], view'[b])
<1> USE DEF transportVars, ownerVars, viewVars
<1>0. /\ engine \in Engine /\ view \in [Clients -> View]
  BY DEF ReplayInv, RolesInv, IInv, RestOK
<1>1. CASE Output
  <2>1. PICK e \in Engine, size \in Nat, ahead \in SUBSET Clients, behind \in SUBSET Clients,
             graphics \in BOOLEAN, drag \in BOOLEAN, last \in Nat :
          OutputIs(e, size, ahead, behind, graphics, drag, last)
    BY <1>0, <1>1, OutputSteps
  <2>2. engine'.outs = engine.outs + 1 /\ UNCHANGED view
    BY <2>1 DEF OutputIs, Produced
  <2> QED BY <2>2
<1>2. CASE Change \/ PaneExit \/ InputFails \/ DragChanges
  <2>1. engine'.outs = engine.outs
    BY <1>0, <1>2, ZenonT(120) DEF Change, PaneExit, InputFails, DragChanges, Engine
  <2>2. UNCHANGED view
    BY <1>2 DEF Change, PaneExit, InputFails, DragChanges
  <2> QED BY <2>1, <2>2, SMTT(60) DEF SameTerminal
<1>3. CASE UNCHANGED <<engine, view>>
  BY <1>3 DEF SameTerminal
<1>4. ASSUME NEW c \in Clients, ReceiveEnd(c) \/ PeerCloses(c)
      PROVE  engine' = engine /\ \A b \in Clients : SameTerminal(view[b], view'[b])
  <2>1. /\ engine' = engine
        /\ view' = [view EXCEPT ![c] = [view[c] EXCEPT !.status = "failed"]]
    BY <1>0, <1>4 DEF ReceiveEnd, PeerCloses
  <2>2. /\ [view[c] EXCEPT !.status = "failed"].shown = view[c].shown
        /\ [view[c] EXCEPT !.status = "failed"].torn = view[c].torn
    BY <1>0 DEF View
  <2> QED BY <1>0, <2>1, <2>2 DEF SameTerminal
<1>5. ASSUME NEW c \in Clients, Receive(c)
      PROVE  /\ engine' = engine /\ Moves(view[c], view'[c], engine.outs)
             /\ \A b \in Clients \ {c} : SameTerminal(view[b], view'[b])
  <2> DEFINE u == Apply(view[c], Head(wire[c]))
  <2>1. engine' = engine /\ view' = [view EXCEPT ![c] = u]
    BY <1>5 DEF Receive
  <2>2. u = Apply(view[c], Head(wire[c]))
    OBVIOUS
  <2> HIDE DEF u
  <2>4. Moves(view[c], u, engine.outs)
    BY <1>5, <2>2, ReceiveShows
  <2>3. view'[c] = u /\ \A b \in Clients \ {c} : view'[b] = view[b]
    BY <1>0, <2>1
  <2> QED BY <2>1, <2>3, <2>4 DEF SameTerminal
<1>6. ASSUME FlushNative PROVE UNCHANGED <<engine, view>>
  BY <1>6 DEF FlushNative, FlushBegin, FlushClient, FlushEnd, FlushExpired, FlushMove,
              FlushHangs, FlushStop, FlushNext
<1>7. ASSUME NEW c \in Clients,
             \/ Connect(c) \/ HandleRequest(c) \/ HostEffect(c) \/ Detach(c)
             \/ HandleSnapshotSent(c) \/ HandleDisconnect(c) \/ CloseTimeout(c)
             \/ Take(c) \/ Acknowledge(c) \/ WriteFails(c) \/ WriterEnds(c)
      PROVE  UNCHANGED <<engine, view>>
  BY <1>7 DEF Connect, HandleRequest, HostEffect, Detach, HandleSnapshotSent,
              HandleDisconnect, CloseTimeout, Take, Acknowledge, WriteFails, WriterEnds
<1>8. ASSUME UNCHANGED vars PROVE UNCHANGED <<engine, view>>
  BY <1>8 DEF vars
<1> QED BY <1>1, <1>2, <1>3, <1>4, <1>5, <1>6, <1>7, <1>8 DEF Next, Owner, Transport, Peers

\* Every step is a step of AttachedView, or none.
LEMMA PromiseStep ==
  ASSUME ReplayInv, ReplayInv', [Next]_vars
  PROVE  [Promise!PromiseNext]_(Promise!promiseVars)
<1> DEFINE shown == [c \in Clients |-> view[c].shown]
           torn  == [c \in Clients |-> view[c].torn]
<1>1. /\ shown' = [c \in Clients |-> view'[c].shown]
      /\ torn' = [c \in Clients |-> view'[c].torn]
  OBVIOUS
<1>2. CASE engine'.outs = engine.outs + 1 /\ UNCHANGED view
  <2>1. Promise!Produce
    BY <1>2 DEF Promise!Produce
  <2> QED BY <2>1 DEF Promise!PromiseNext
<1>3. CASE engine'.outs = engine.outs /\ \A c \in Clients : SameTerminal(view[c], view'[c])
  <2>1. shown' = shown /\ torn' = torn
    BY <1>3 DEF SameTerminal
  <2> QED BY <1>3, <2>1 DEF Promise!promiseVars
<1>4. ASSUME engine'.outs = engine.outs, NEW c \in Clients,
             Moves(view[c], view'[c], engine.outs),
             \A b \in Clients \ {c} : SameTerminal(view[b], view'[b])
      PROVE  [Promise!PromiseNext]_(Promise!promiseVars)
  <2> DEFINE v == view[c]
             u == view'[c]
             o == engine.outs
  <2>1. v.shown \in Seq(Nat) /\ o \in Nat /\ v.torn \in BOOLEAN /\ u.torn \in BOOLEAN
    <3>1. view \in [Clients -> View] /\ view' \in [Clients -> View] /\ engine \in Engine
      BY DEF ReplayInv, RolesInv, IInv, RestOK
    <3> QED BY <3>1 DEF View, Engine
  <2>2. Latest(v.shown) \in Nat /\ Promise!Latest(shown[c]) = Latest(v.shown)
    BY <2>1, LatestNat, LatestIsLatest
  <2>3. /\ shown' = [shown EXCEPT ![c] = u.shown]
        /\ torn' = [torn EXCEPT ![c] = u.torn]
        /\ shown[c] = v.shown /\ torn[c] = v.torn
    BY <1>1, <1>4 DEF SameTerminal
  <2>4. CASE u.shown = v.shown /\ u.torn = v.torn
    <3>1. \A b \in Clients : SameTerminal(view[b], view'[b])
      BY <1>4, <2>4 DEF SameTerminal
    <3> QED BY <1>3, <1>4, <3>1
  <2>5. ASSUME ~u.torn, NEW n \in Nat, Latest(v.shown) <= n, n <= o, u.shown = Prefix(n)
        PROVE  Promise!Follow(c)
    <3>1. n \in Promise!Latest(shown[c])..o
      BY <2>1, <2>2, <2>5
    <3>2. /\ shown' = [shown EXCEPT ![c] = Promise!History(n)]
          /\ torn' = [torn EXCEPT ![c] = FALSE]
      <4>1. u.torn = FALSE
        BY <2>1, <2>5
      <4> QED BY <2>3, <2>5, <4>1, HistoryIsPrefix
    <3> QED BY <1>4, <3>1, <3>2 DEF Promise!Follow
  <2>6. ASSUME u.torn, u.shown = v.shown, Latest(v.shown) < o
        PROVE  Promise!Miss(c)
    <3>1. shown' = shown
      BY <2>3, <2>6
    <3>2. torn' = [torn EXCEPT ![c] = TRUE]
      <4>1. u.torn = TRUE
        BY <2>1, <2>6
      <4> QED BY <2>3, <4>1
    <3> QED BY <1>4, <2>2, <2>6, <3>1, <3>2 DEF Promise!Miss
  <2>7. ASSUME v.torn, u.torn, NEW n \in Nat, Latest(v.shown) < n, n <= o,
               u.shown = Append(v.shown, n)
        PROVE  Promise!GoOn(c)
    <3>1. n \in (Promise!Latest(shown[c]) + 1)..o
      BY <2>1, <2>2, <2>7
    <3>2. shown' = [shown EXCEPT ![c] = Append(@, n)]
      BY <2>3, <2>7
    <3>3. torn' = torn
      <4>1. u.torn = v.torn
        BY <2>1, <2>7
      <4> QED BY <2>3, <4>1
    <3> QED BY <1>4, <2>3, <2>7, <3>1, <3>2, <3>3 DEF Promise!GoOn
  <2> QED BY <1>4, <2>4, <2>5, <2>6, <2>7 DEF Moves, Promise!PromiseNext
<1> QED BY <1>2, <1>3, <1>4, OneViewMoves

\* The initial states are those of AttachedView.
LEMMA PromiseStart == Init => Promise!PromiseInit
<1> SUFFICES ASSUME Init PROVE Promise!PromiseInit
  OBVIOUS
<1>1. engine.outs = 0
  BY DEF Init, FreshEngine
<1>2. \A c \in Clients : view[c].shown = <<>> /\ view[c].torn = FALSE
  BY DEF Init, NewView
<1> QED BY <1>1, <1>2 DEF Promise!PromiseInit

\* The delivery machinery implements AttachedView: every terminal a view ever
\* shows is one the pane went through, in the order it did, unless the view is
\* torn.  Only an output that drag metadata has overtaken tears a view, and
\* the next checkpoint makes it whole; torn or not, it never goes back.
THEOREM ShowsHistory == Spec => ShowsRealHistory
<1>1. ReplayInv /\ ReplayInv' /\ [Next]_vars => [Promise!PromiseNext]_(Promise!promiseVars)
  BY PromiseStep
<1> QED BY <1>1, PromiseStart, ReplayAlways, PTL DEF Spec, ShowsRealHistory, Promise!PromiseSpec
=============================================================================
