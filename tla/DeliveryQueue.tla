--------------------------- MODULE DeliveryQueue ---------------------------
(***************************************************************************)
(* The delivery record the owner keeps for one native client, and what     *)
(* each operation of tmuxx-runtime/src/delivery.rs does to it.             *)
(*                                                                         *)
(* Every native client has a bounded channel to its writer thread, an      *)
(* atomic count of the bytes in that channel (delivery_bytes) and, once    *)
(* the channel refuses something, a Pending entry.  A refused delta is     *)
(* forgotten and owed as one snapshot (needs); anything else waits in the  *)
(* entry's FIFO (queue).  The operators here are pure: a record and a      *)
(* message in, the new record out.                                         *)
(***************************************************************************)
EXTENDS Naturals, Sequences

CONSTANTS
  ChannelCap,   \* sync_channel capacity between the owner and a writer
  RecordLimit,  \* RECORD_LIMIT: messages one Pending entry may hold
  ByteLimit     \* BYTE_LIMIT: bytes one client may have outstanding

ASSUME DeliveryAssumption ==
  /\ ChannelCap \in Nat \ {0}
  /\ RecordLimit \in Nat \ {0}
  /\ ByteLimit \in Nat \ {0}

-----------------------------------------------------------------------------
(* Messages *)

DeltaKinds    == {"output", "changed"}
CriticalKinds == {"critical", "drag", "aborted", "final"}
Kinds         == DeltaKinds \union CriticalKinds \union {"snapshot"}

\* seq is the engine sequence a view compares (deltas, snapshots and drag
\* metadata).  nth counts: outputs for "output" (its own number) and "snapshot"
\* (how many it contains), messages of the critical kinds for those.  gone says
\* that the pane no longer exists ("snapshot") or that the session was destroyed
\* ("final").  held is the space a message takes in a Pending entry.
\* "aborted" stands for the records that make a view fail: SnapshotAborted and
\* the Exit of a failed pane.
Message ==
  [kind : Kinds, seq : Nat, nth : Nat, bytes : Nat, held : Nat, gone : BOOLEAN]

\* Replies, effects and the like cost one unit: the fixed 128 bytes.
Header == 1

Critical(kind, nth, gone) ==
  [kind |-> kind, seq |-> 0, nth |-> nth,
   bytes |-> Header, held |-> Header, gone |-> gone]

DragMessage(nth, seq) ==
  [kind |-> "drag", seq |-> seq, nth |-> nth,
   bytes |-> Header, held |-> Header, gone |-> FALSE]

Replayable(m) == m.kind \in DeltaKinds
Snapshot(m)   == m.kind = "snapshot"

-----------------------------------------------------------------------------
(* The record of one client *)

ClosingStates == {"no", "draining", "expired"}

DeliveryRecord ==
  [live      : BOOLEAN,         \* the client is in Host::clients
   subscribed: BOOLEAN,         \* Client::subscribed
   chan      : Seq(Message),    \* the bounded channel
   rx        : BOOLEAN,         \* the channel's receiver still exists
   bytes     : Nat,             \* Client::delivery_bytes
   queue     : Seq(Message),    \* Pending::messages
   held      : Nat,             \* Pending::bytes
   needs     : BOOLEAN,         \* Pending::needs_snapshot
   closing   : ClosingStates,   \* Pending::closing; expired after ten seconds
   pending   : BOOLEAN,         \* in snapshots_pending
   requested : BOOLEAN,         \* in snapshots_requested
   issued    : Nat]             \* critical messages accepted so far (history)

Absent ==
  [live |-> FALSE, subscribed |-> FALSE, chan |-> <<>>, rx |-> TRUE,
   bytes |-> 0, queue |-> <<>>, held |-> 0, needs |-> FALSE,
   closing |-> "no", pending |-> FALSE, requested |-> FALSE, issued |-> 0]

\* An entry of native_delivery exists exactly while it owes something.
HasPending(s) == s.needs \/ s.queue # <<>>
Closing(s)    == s.closing # "no"

\* disconnect: the sender and all the owner's bookkeeping are dropped; what is
\* in the channel, and its count, are still the writer's to drain.
Disconnected(s) ==
  [Absent EXCEPT !.chan = s.chan, !.bytes = s.bytes, !.rx = s.rx,
                 !.issued = s.issued]

-----------------------------------------------------------------------------
(* deliver: the byte budget is tested before the channel is tried. *)

Room(s, m)     == s.bytes + m.bytes <= ByteLimit
Accepts(s, m)  == Room(s, m) /\ s.rx /\ Len(s.chan) < ChannelCap
Hangs(s, m)    == Room(s, m) /\ ~s.rx

Delivered(s, m) ==
  [s EXCEPT !.chan    = Append(@, m),
            !.bytes   = @ + m.bytes,
            !.pending = @ \/ Snapshot(m)]

\* Mutants: the bytes already waiting are not counted; the record limit is off
\* by one; a message is counted at its size on the wire, not its size here.
QueueNativeUncounted(s, m) ==
  IF Len(s.queue) >= RecordLimit \/ s.bytes + m.held > ByteLimit
  THEN Disconnected(s)
  ELSE [s EXCEPT !.queue = Append(@, m), !.held = @ + m.held]

QueueNativeOffByOne(s, m) ==
  IF Len(s.queue) > RecordLimit \/ s.bytes + s.held + m.held > ByteLimit
  THEN Disconnected(s)
  ELSE [s EXCEPT !.queue = Append(@, m), !.held = @ + m.held]

QueueNativeWireSize(s, m) ==
  IF Len(s.queue) >= RecordLimit \/ s.bytes + s.held + m.bytes > ByteLimit
  THEN Disconnected(s)
  ELSE [s EXCEPT !.queue = Append(@, m), !.held = @ + m.bytes]

\* queue_native: a client that lets its critical messages pile up is dropped.
QueueNative(s, m) ==
  IF \/ Len(s.queue) >= RecordLimit
     \/ s.bytes + s.held + m.held > ByteLimit
  THEN Disconnected(s)
  ELSE [s EXCEPT !.queue = Append(@, m), !.held = @ + m.held]

\* A delta or snapshot that cannot go out now becomes a debt of one snapshot.
OweSnapshot(s) == [s EXCEPT !.needs = TRUE]

Defers(m) == Replayable(m) \/ Snapshot(m)

TryDeliver(s, m) ==
  CASE Accepts(s, m) -> Delivered(s, m)
    [] Hangs(s, m)   -> Disconnected(s)
    [] OTHER         -> IF Defers(m) THEN OweSnapshot(s) ELSE QueueNative(s, m)

\* Mutants: a delta is tried although a snapshot is owed or waits; a critical
\* message is tried although earlier ones wait.
SendNativeThroughGap(s, m) ==
  CASE ~s.live \/ Closing(s)                         -> s
    [] /\ s.live /\ ~Closing(s)
       /\ s.queue # <<>> /\ ~Defers(m)               -> QueueNative(s, m)
    [] OTHER                                         -> TryDeliver(s, m)

SendNativeOvertaking(s, m) ==
  CASE ~s.live \/ Closing(s)                         -> s
    [] s.live /\ ~Closing(s) /\ HasPending(s) /\ Defers(m) -> OweSnapshot(s)
    [] OTHER                                         -> TryDeliver(s, m)

SendNative(s, m) ==
  CASE ~s.live \/ Closing(s)            -> s
    [] /\ s.live /\ ~Closing(s)
       /\ HasPending(s) /\ Defers(m)    -> OweSnapshot(s)
    [] /\ s.live /\ ~Closing(s)
       /\ s.queue # <<>> /\ ~Defers(m)  -> QueueNative(s, m)
    [] OTHER                            -> TryDeliver(s, m)

\* Replies, host effects and lifecycle records are numbered as the owner
\* accepts them, so that loss and reordering show.
SendCritical(s, kind, gone) ==
  IF s.live /\ ~Closing(s)
  THEN SendNative([s EXCEPT !.issued = @ + 1],
                  Critical(kind, s.issued + 1, gone))
  ELSE s

\* Drag metadata (ServerMessage::Control) is one of these, and has a sequence.
SendDrag(s, seq) ==
  IF s.live /\ ~Closing(s)
  THEN SendNative([s EXCEPT !.issued = @ + 1], DragMessage(s.issued + 1, seq))
  ELSE s

-----------------------------------------------------------------------------
(* Snapshots.  snap is the checkpoint of the engine at this moment and fits *)
(* says whether its encoding is within snapshot_limit.                      *)

SnapshotNow(s, snap, fits) ==
  IF fits THEN SendNative(s, snap) ELSE SendCritical(s, "aborted", FALSE)

SendSnapshot(s, snap, fits) ==
  CASE ~s.live                                     -> s
    [] s.live /\ s.pending                         -> [s EXCEPT !.requested = TRUE]
    [] s.live /\ ~s.pending /\ HasPending(s)       ->
         IF Closing(s) THEN s ELSE OweSnapshot(s)
    [] s.live /\ ~s.pending /\ ~HasPending(s)      -> SnapshotNow(s, snap, fits)

\* Mutant: what was asked while the snapshot was on its way is forgotten.
SnapshotSentForgetting(s, snap, fits) ==
  [s EXCEPT !.pending = FALSE, !.requested = FALSE]

\* SnapshotSent: the writer has flushed the outstanding snapshot.
SnapshotSent(s, snap, fits) ==
  LET acked == [s EXCEPT !.pending = FALSE, !.requested = FALSE]
  IN  IF s.requested THEN SendSnapshot(acked, snap, fits) ELSE acked

\* Mutants: no barrier; a checkpoint that does not fit is skipped instead.
NoBarrier(s, snap, fits) == s

BarrierSkipped(s, snap, fits) ==
  IF s.needs /\ ~Closing(s) /\ fits THEN QueueNative(s, snap) ELSE s

\* final_native_barrier: the frozen checkpoint joins the FIFO of a client that
\* owes one; one too large to wait there costs the client its connection.
FinalNativeBarrier(s, snap, fits) ==
  IF s.needs /\ ~Closing(s)
  THEN IF fits THEN QueueNative(s, snap) ELSE Disconnected(s)
  ELSE s

\* Mutant: the debt of a client that only finishes its queue is kept.
DisconnectStillOwing(s) ==
  IF s.queue # <<>>
  THEN [s EXCEPT !.closing = "draining", !.subscribed = FALSE, !.requested = FALSE]
  ELSE Disconnected(s)

\* disconnect_after_native_delivery
DisconnectAfterDelivery(s) ==
  IF s.queue # <<>>
  THEN [s EXCEPT !.closing = "draining", !.needs = FALSE,
                 !.subscribed = FALSE, !.requested = FALSE]
  ELSE Disconnected(s)

-----------------------------------------------------------------------------
(* flush_native, for one client *)

\* A second snapshot waits until the first is acknowledged.
HeadBlocked(s) == Snapshot(Head(s.queue)) /\ s.pending

HeadMoves(s) == s.queue # <<>> /\ ~HeadBlocked(s) /\ Accepts(s, Head(s.queue))
HeadHangs(s) == s.queue # <<>> /\ ~HeadBlocked(s) /\ Hangs(s, Head(s.queue))

MoveHead(s) ==
  LET m == Head(s.queue)
  IN  Delivered([s EXCEPT !.queue = Tail(@), !.held = @ - m.held], m)

\* Mutant: the acknowledgement of the last snapshot is not awaited.
SnapshotReadyUnacknowledged(s) ==
  s.live /\ s.queue = <<>> /\ s.needs /\ s.bytes = 0

\* The debt may be paid once everything sent before it has left the channel.
SnapshotReady(s) ==
  s.live /\ s.queue = <<>> /\ s.needs /\ ~s.pending /\ s.bytes = 0

\* Pay it: the entry goes, and a checkpoint the limit rejects ends the client.
Recover(s, snap, fits) ==
  LET cleared == [s EXCEPT !.needs = FALSE, !.queue = <<>>, !.held = 0,
                           !.requested = FALSE]
      sent    == SnapshotNow(cleared, snap, fits)
  IN  IF ~sent.pending /\ sent.live /\ ~HasPending(sent)
      THEN Disconnected(sent) ELSE sent
=============================================================================
