--------------------------- MODULE NativeDelivery ---------------------------
(***************************************************************************)
(* The owner of a tmuxx server feeding its native views: the engine whose  *)
(* output and structure change, the delivery record of every client, the   *)
(* writer thread (or in-process receiver) that drains each channel, and    *)
(* the view at the far end (Connection of crates/rustty/src/tmuxx.rs) that *)
(* replays deltas over checkpoints.                                        *)
(*                                                                         *)
(* The owner is one thread: its handlers are atomic with respect to each   *)
(* other.  The writers and the views run concurrently with it, which is    *)
(* why flush_native, a loop over clients and messages, is cut at every     *)
(* delivery: a writer may drain the channel between two of them.           *)
(***************************************************************************)
EXTENDS DeliveryQueue, FiniteSets

CONSTANTS
  Clients,         \* ids in the order BTreeMap visits them
  LocalClients,    \* the clients attached in process (LocalClient)
  WireCap,         \* messages between a writer and its view
  FlushQuantum,    \* messages one turn moves for one client (64)
  OutputSizes,     \* possible sizes of one PaneOutput
  SnapshotSizes,   \* possible encoded sizes of a checkpoint
  SnapshotLimit,   \* snapshot_limit
  MaxSequence,     \* bound on the engine sequence
  MaxCritical      \* bound on the host effects sent to one client

ASSUME NativeAssumption ==
  /\ Clients \subseteq Nat \ {0}
  /\ IsFiniteSet(Clients)
  /\ LocalClients \subseteq Clients
  /\ WireCap \in Nat \ {0}
  /\ FlushQuantum \in Nat \ {0}
  /\ OutputSizes \subseteq Nat \ {0}
  /\ SnapshotSizes \subseteq Nat \ {0}
  /\ SnapshotLimit \in Nat
  /\ MaxSequence \in Nat
  /\ MaxCritical \in Nat

VARIABLES
  engine,       \* the server's state, as far as views show it
  d,            \* d[c]: the delivery record of client c
  flush,        \* the flush_native loop
  cursor,       \* native_recovery_cursor
  writer,       \* writer[c]: the thread draining c's channel
  wire,         \* wire[c]: written, not yet read by the view
  sentAcks,     \* SnapshotSent events on their way to the owner
  peer,         \* peer[c]: the far end of the connection
  asked,        \* asked[c]: subscribing requests on their way to the owner
  view          \* view[c]: what the far end shows

vars == <<engine, d, flush, cursor, writer, wire, sentAcks, peer, asked, view>>

ownerVars     == <<engine, d, flush, cursor>>
transportVars == <<writer, wire, sentAcks>>
viewVars      == <<peer, asked, view>>

-----------------------------------------------------------------------------
(* State *)

\* outs counts PTY outputs fed to the pane, changedAt is the sequence of the
\* last structural change, weight the encoded size of a checkpoint.
Engine ==
  [seq : Nat, outs : Nat, changedAt : Nat,
   pane : {"running", "dead", "removed"}, weight : Nat]

\* shown is the sequence of outputs the view's terminal has been given.
View ==
  [seq     : Nat,           \* Model::sequence
   base    : Nat,           \* sequence of the last checkpoint restored
   shown   : Seq(Nat),
   drag    : Nat,           \* sequence of the last drag metadata applied (history)
   torn    : BOOLEAN,       \* it dropped an output that metadata overtook, and
                            \* has restored no checkpoint since (history)
   pane    : {"unseen", "open", "closed"},
   refresh : BOOLEAN,       \* Model::refresh_pending
   status  : {"open", "detached", "destroyed", "failed"},
   crit    : Nat]           \* critical messages received (history)

Flush ==
  [on : BOOLEAN, todo : SUBSET Clients, ready : SUBSET Clients, moved : Nat]

NotFlushing == [on |-> FALSE, todo |-> {}, ready |-> {}, moved |-> 0]
NewView     == [seq |-> 0, base |-> 0, shown |-> <<>>, drag |-> 0,
                torn |-> FALSE, pane |-> "unseen", refresh |-> FALSE,
                status |-> "open", crit |-> 0]

\* Every variable keeps its type; the counts of bytes and of owed requests, in
\* particular, never go below zero.
TypeOK ==
  /\ engine \in Engine
  /\ d \in [Clients -> DeliveryRecord]
  /\ flush \in Flush
  /\ cursor \in Nat
  /\ writer \in [Clients -> {"idle", "acking", "gone"}]
  /\ wire \in [Clients -> Seq(Message)]
  /\ sentAcks \in SUBSET Clients
  /\ peer \in [Clients -> {"away", "open", "closed"}]
  /\ asked \in [Clients -> Nat]
  /\ view \in [Clients -> View]

FreshEngine(weight) ==
  [seq |-> 0, outs |-> 0, changedAt |-> 0, pane |-> "running", weight |-> weight]

Init ==
  /\ \E weight \in SnapshotSizes :
       weight <= SnapshotLimit /\ engine = FreshEngine(weight)
  /\ d        = [c \in Clients |-> Absent]
  /\ flush    = NotFlushing
  /\ cursor   = 0
  /\ writer   = [c \in Clients |-> "idle"]
  /\ wire     = [c \in Clients |-> <<>>]
  /\ sentAcks = {}
  /\ peer     = [c \in Clients |-> "away"]
  /\ asked    = [c \in Clients |-> 0]
  /\ view     = [c \in Clients |-> NewView]

-----------------------------------------------------------------------------
(* What the owner sends *)

OutputMessage(e, size) ==
  [kind |-> "output", seq |-> e.seq, nth |-> e.outs,
   bytes |-> Header + size, held |-> Header + size, gone |-> FALSE]

ChangedMessage(e) ==
  [kind |-> "changed", seq |-> e.seq, nth |-> 0,
   bytes |-> Header, held |-> Header, gone |-> FALSE]

\* A snapshot costs its header in the channel, where only one may be, and its
\* encoded size while it waits in a Pending entry.
Checkpoint(e) ==
  [kind |-> "snapshot", seq |-> e.seq, nth |-> e.outs,
   bytes |-> Header, held |-> Header + e.weight, gone |-> e.pane = "removed"]

Fits(e) == e.weight <= SnapshotLimit

\* A frozen checkpoint must also fit the client's byte budget.
FitsBarrier(e) == Fits(e) /\ e.weight <= ByteLimit

\* broadcast
Broadcast(f, m) ==
  [c \in Clients |-> IF f[c].subscribed THEN SendNative(f[c], m) ELSE f[c]]

\* publish_drag_if_changed, for the views in these: a sequence of its own
PublishDrag(f, these, seq) ==
  [c \in Clients |-> IF c \in these /\ f[c].subscribed THEN SendDrag(f[c], seq)
                     ELSE f[c]]

\* The owner runs one handler at a time; only flush_native spans several steps.
Idle == ~flush.on

-----------------------------------------------------------------------------
(* Owner handlers: the engine moves *)

\* The clients a broadcast of m disconnects: their writers have ended.
Lost(m) == {c \in Clients : d[c].subscribed /\ ~SendNative(d[c], m).live}

\* The engine fed one output
AfterOutput(weight, graphics) ==
  [engine EXCEPT !.seq = @ + 1, !.outs = @ + 1, !.weight = weight,
                 !.changedAt = IF graphics THEN engine.seq + 1 ELSE @]

\* The bytes go to every view in turn.  A view that is lost on the way may hold
\* the drag over the pane: disconnecting it releases the drag, and that metadata
\* overtakes the output of the views ahead of the loop (DragProjection).
Fed(f, e, size, ahead) ==
  Broadcast(PublishDrag(f, ahead, e.seq + 1), OutputMessage(e, size))

\* A change of graphics is announced behind the bytes.
Announced(f, e, size, ahead, graphics) ==
  IF graphics THEN Broadcast(Fed(f, e, size, ahead), ChangedMessage(e))
  ELSE Fed(f, e, size, ahead)

\* The views behind have their output when the drag is released.
Told(f, e, size, ahead, behind, graphics) ==
  PublishDrag(Announced(f, e, size, ahead, graphics), behind, e.seq + 1)

\* pane_output: feed the terminal, send the bytes, then the metadata of a drag
\* that the output itself changed.
SendOutput(e, size, ahead, behind, graphics, drag) ==
  LET told == Told(d, e, size, ahead, behind, graphics)
      last == IF ahead \union behind = {} THEN e.seq ELSE e.seq + 1
  IN /\ Idle
     /\ engine.pane = "running"
     /\ engine.seq < MaxSequence
     /\ engine' = [e EXCEPT !.seq = IF drag THEN last + 1 ELSE last]
     /\ d' = IF drag THEN PublishDrag(told, Clients, last + 1) ELSE told
     /\ UNCHANGED <<flush, cursor, transportVars, viewVars>>

\* With or without a release; the client that held the drag is one it loses.
Output ==
  \E size \in OutputSizes, weight \in SnapshotSizes,
     graphics \in BOOLEAN, drag \in BOOLEAN :
    LET e == AfterOutput(weight, graphics)
    IN  \/ SendOutput(e, size, {}, {}, graphics, drag)
        \/ \E holder \in Lost(OutputMessage(e, size)) :
             LET ahead == {c \in Clients : c > holder}
             IN  SendOutput(e, size, ahead, Clients \ ahead, graphics, drag)

\* Drag metadata published by any other handler: apply_drag, a view that hides
\* or leaves the pane or is disconnected (also by flush_native, between two
\* clients), a pane that ends.  Which of them, and whether there is a drag to
\* speak of, is DragProjection's; here there may be one at any moment.
\* Bound: the drags released during one flush fit the channel of a client that
\* the flush has found drained (the code's hold hundreds of messages).
DragChanges ==
  /\ flush.moved = 0
  /\ engine.pane # "removed"
  /\ engine.seq < MaxSequence
  /\ engine' = [engine EXCEPT !.seq = @ + 1]
  /\ d' = PublishDrag(d, Clients, engine.seq + 1)
  /\ \A c \in flush.ready : d'[c].queue = <<>>
  /\ UNCHANGED <<flush, cursor, transportVars, viewVars>>

\* The tail of drive for a command of any other client that changed the graph.
Change ==
  \E weight \in SnapshotSizes :
    LET e == [engine EXCEPT !.seq = @ + 1, !.changedAt = engine.seq + 1,
                            !.weight = weight]
    IN /\ Idle
       /\ engine.seq < MaxSequence
       /\ engine' = e
       /\ d' = Broadcast(d, ChangedMessage(e))
       /\ UNCHANGED <<flush, cursor, transportVars, viewVars>>

\* finish_process: the pane's process has ended and its output is drained.
\* Unless remain-on-exit keeps the pane, clients with a gap first get the
\* final terminal; clients whose session dies with the pane get Exit; every
\* remaining view is told that the graph changed.
PaneExit ==
  \E remain \in BOOLEAN, dead \in SUBSET {c \in Clients : d[c].subscribed} :
    LET e == [engine EXCEPT !.seq = @ + 1, !.changedAt = engine.seq + 1,
                            !.pane = IF remain THEN "dead" ELSE "removed"]
        Barrier(s) == IF remain THEN s
                      ELSE FinalNativeBarrier(s, Checkpoint(engine), FitsBarrier(engine))
        Destroyed(s) == DisconnectAfterDelivery(SendCritical(s, "final", TRUE))
        left == [c \in Clients |-> IF c \in dead THEN Destroyed(Barrier(d[c]))
                                   ELSE Barrier(d[c])]
    IN /\ Idle
       /\ engine.pane = "running"
       /\ engine.seq < MaxSequence
       /\ remain => dead = {}
       /\ engine' = e
       /\ d' = Broadcast(left, ChangedMessage(e))
       /\ UNCHANGED <<flush, cursor, transportVars, viewVars>>

\* input_failed: the pane cannot take its input.  Its process ends, and every
\* view is told why by an Exit and dropped, to reconnect from a checkpoint.
InputFails ==
  \E remain \in BOOLEAN :
    LET Failed(s) == Disconnected(SendCritical(s, "aborted", FALSE))
    IN /\ Idle
       /\ engine.pane = "running"
       /\ engine.seq < MaxSequence
       /\ engine' = [engine EXCEPT !.seq = @ + 1, !.changedAt = engine.seq + 1,
                                   !.pane = IF remain THEN "dead" ELSE "removed"]
       /\ d' = [c \in Clients |-> IF d[c].subscribed THEN Failed(d[c]) ELSE d[c]]
       /\ UNCHANGED <<flush, cursor, transportVars, viewVars>>

-----------------------------------------------------------------------------
(* Owner handlers: one client's events *)

\* Event::Connect, and the view's first request, which subscribes.
Connect(c) ==
  /\ Idle
  /\ peer[c] = "away"
  /\ peer' = [peer EXCEPT ![c] = "open"]
  /\ d' = [d EXCEPT ![c].live = TRUE]
  /\ asked' = [asked EXCEPT ![c] = 1]
  /\ UNCHANGED <<engine, flush, cursor, transportVars, view>>

\* request and drive: a subscribing command is answered with its Reply and
\* then a snapshot; a closed or closing client's requests are ignored.
HandleRequest(c) ==
  LET subscribed == [d[c] EXCEPT !.subscribed = TRUE]
      replied    == SendCritical(subscribed, "critical", FALSE)
  IN /\ Idle
     /\ asked[c] > 0
     /\ asked' = [asked EXCEPT ![c] = @ - 1]
     /\ d' = [d EXCEPT ![c] =
                IF @.live /\ ~Closing(@)
                THEN SendSnapshot(replied, Checkpoint(engine), Fits(engine))
                ELSE @]
     /\ UNCHANGED <<engine, flush, cursor, transportVars, peer, view>>

\* dispatch_host_to: an action for this view alone, never replayed or dropped.
HostEffect(c) ==
  /\ Idle
  /\ d[c].subscribed
  /\ d[c].issued < MaxCritical
  /\ d' = [d EXCEPT ![c] = SendCritical(@, "critical", FALSE)]
  /\ UNCHANGED <<engine, flush, cursor, transportVars, viewVars>>

\* detach_client
Detach(c) ==
  /\ Idle
  /\ d[c].subscribed
  /\ d' = [d EXCEPT ![c] =
             DisconnectAfterDelivery(SendCritical(@, "final", FALSE))]
  /\ UNCHANGED <<engine, flush, cursor, transportVars, viewVars>>

\* Event::SnapshotSent
HandleSnapshotSent(c) ==
  /\ Idle
  /\ c \in sentAcks
  /\ sentAcks' = sentAcks \ {c}
  /\ d' = [d EXCEPT ![c] = SnapshotSent(@, Checkpoint(engine), Fits(engine))]
  /\ UNCHANGED <<engine, flush, cursor, writer, wire, viewVars>>

\* Event::Disconnect: the reader thread saw the peer go.
HandleDisconnect(c) ==
  /\ Idle
  /\ peer[c] = "closed"
  /\ d[c].live
  /\ d' = [d EXCEPT ![c] = Disconnected(@)]
  /\ UNCHANGED <<engine, flush, cursor, transportVars, viewVars>>

\* Ten seconds pass for a closing client.
CloseTimeout(c) ==
  /\ d[c].closing = "draining"
  /\ d' = [d EXCEPT ![c].closing = "expired"]
  /\ UNCHANGED <<engine, flush, cursor, transportVars, viewVars>>

-----------------------------------------------------------------------------
(* flush_native *)

\* The client a BTreeMap visits first.
First(c, S) == c \in S /\ \A o \in S : c <= o

FlushBegin ==
  LET lagging == {c \in Clients : HasPending(d[c])}
  IN /\ Idle
     /\ lagging # {}
     /\ flush' = [on |-> TRUE, todo |-> lagging, ready |-> {}, moved |-> 0]
     /\ UNCHANGED <<engine, d, cursor, transportVars, viewVars>>

\* The loop leaves client c with record s.
FlushNext(c, s, ready) ==
  /\ d' = [d EXCEPT ![c] = s]
  /\ flush' = [flush EXCEPT !.todo = @ \ {c}, !.moved = 0,
                            !.ready = IF ready THEN @ \union {c} ELSE @]
  /\ UNCHANGED <<engine, cursor, transportVars, viewVars>>

\* Mutant: time runs out only for a client that has nothing left to read.
FlushExpiredDrained(c) ==
  /\ flush.moved = 0
  /\ d[c].closing = "expired" /\ d[c].queue = <<>>
  /\ FlushNext(c, Disconnected(d[c]), FALSE)

FlushExpired(c) ==
  /\ flush.moved = 0
  /\ d[c].closing = "expired"
  /\ FlushNext(c, Disconnected(d[c]), FALSE)

FlushMove(c) ==
  /\ flush.moved = 0 => d[c].closing # "expired"
  /\ flush.moved < FlushQuantum
  /\ HeadMoves(d[c])
  /\ d' = [d EXCEPT ![c] = MoveHead(@)]
  /\ flush' = [flush EXCEPT !.moved = @ + 1]
  /\ UNCHANGED <<engine, cursor, transportVars, viewVars>>

FlushHangs(c) ==
  /\ flush.moved = 0 => d[c].closing # "expired"
  /\ flush.moved < FlushQuantum
  /\ HeadHangs(d[c])
  /\ FlushNext(c, Disconnected(d[c]), FALSE)

FlushStop(c) ==
  /\ flush.moved = 0 => d[c].closing # "expired"
  /\ \/ flush.moved = FlushQuantum
     \/ ~HeadMoves(d[c]) /\ ~HeadHangs(d[c])
  /\ IF Closing(d[c]) /\ d[c].queue = <<>>
     THEN FlushNext(c, Disconnected(d[c]), FALSE)
     ELSE FlushNext(c, d[c], SnapshotReady(d[c]))

\* Every client visited: one ready client, the next after the cursor or else
\* the first, is paid its checkpoint.
\* Mutant: the rotation does not start again from the first client.
TurnNoWrap(ready) == {c \in ready : c > cursor}

Turn(ready) ==
  LET later == {c \in ready : c > cursor}
  IN  IF later # {} THEN later ELSE ready

FlushEnd ==
  /\ flush.on /\ flush.todo = {}
  /\ flush' = NotFlushing
  /\ \/ flush.ready = {} /\ UNCHANGED <<d, cursor>>
     \/ \E c \in Clients :
          /\ First(c, Turn(flush.ready))
          /\ cursor' = c
          /\ d' = [d EXCEPT ![c] = Recover(@, Checkpoint(engine), Fits(engine))]
  /\ UNCHANGED <<engine, transportVars, viewVars>>

FlushClient ==
  \E c \in Clients :
    /\ flush.on /\ First(c, flush.todo)
    /\ FlushExpired(c) \/ FlushMove(c) \/ FlushHangs(c) \/ FlushStop(c)

FlushNative == FlushBegin \/ FlushClient \/ FlushEnd

-----------------------------------------------------------------------------
(* The writer thread of serve_connection, and LocalClient::received *)

\* Taking a message out of the channel frees its bytes before it is written.
TakeHead(s) ==
  LET freed == Head(s.chan).bytes
  IN  [s EXCEPT !.chan = Tail(@), !.bytes = IF @ > freed THEN @ - freed ELSE 0]

\* A socket writer reports a snapshot only after writing it, in a step of its
\* own; an in-process receiver reports it before its caller applies it.
Take(c) ==
  LET m == Head(d[c].chan)
  IN /\ writer[c] = "idle"
     /\ peer[c] = "open"
     /\ d[c].chan # <<>>
     /\ Len(wire[c]) < IF c \in LocalClients THEN 1 ELSE WireCap
     /\ d' = [d EXCEPT ![c] = TakeHead(@)]
     /\ wire' = [wire EXCEPT ![c] = Append(@, m)]
     /\ IF ~Snapshot(m) THEN UNCHANGED <<writer, sentAcks>>
        ELSE IF c \in LocalClients
        THEN sentAcks' = sentAcks \union {c} /\ UNCHANGED writer
        ELSE writer' = [writer EXCEPT ![c] = "acking"] /\ UNCHANGED sentAcks
     /\ UNCHANGED <<engine, flush, cursor, viewVars>>

Acknowledge(c) ==
  /\ writer[c] = "acking"
  /\ writer' = [writer EXCEPT ![c] = "idle"]
  /\ sentAcks' = sentAcks \union {c}
  /\ UNCHANGED <<ownerVars, wire, viewVars>>

\* The peer is gone: the write fails, the thread ends and the channel closes.
\* The bytes of what was still in it stay counted.
WriteFails(c) ==
  /\ writer[c] = "idle"
  /\ peer[c] = "closed"
  /\ d[c].chan # <<>> \/ c \in LocalClients
  /\ writer' = [writer EXCEPT ![c] = "gone"]
  /\ d' = [d EXCEPT ![c] =
             [(IF @.chan = <<>> THEN @ ELSE TakeHead(@)) EXCEPT
                !.chan = <<>>, !.rx = FALSE]]
  /\ UNCHANGED <<engine, flush, cursor, wire, sentAcks, viewVars>>

\* The owner dropped the sender and the channel is empty: shut the socket.
WriterEnds(c) ==
  /\ writer[c] = "idle"
  /\ peer[c] # "away"
  /\ ~d[c].live /\ d[c].chan = <<>>
  /\ writer' = [writer EXCEPT ![c] = "gone"]
  /\ UNCHANGED <<ownerVars, wire, sentAcks, viewVars>>

-----------------------------------------------------------------------------
(* The view: apply of crates/rustty/src/tmuxx.rs *)

\* request_refresh: one subscribing request at a time.
Refresh(v) == [v EXCEPT !.refresh = TRUE]

\* The outputs a terminal restored from a checkpoint of n outputs contains.
Prefix(n) == [i \in 1..n |-> i]

\* A stale output is dropped, and nothing asked for in its place.
ApplyOutput(v, m) ==
  CASE m.seq <= v.seq                     ->
         [v EXCEPT !.torn = @ \/ m.seq <= v.drag]
    [] m.seq > v.seq /\ v.pane = "open"   ->
         [v EXCEPT !.seq = m.seq, !.shown = Append(@, m.nth)]
    [] m.seq > v.seq /\ v.pane # "open"   ->
         Refresh([v EXCEPT !.seq = m.seq])

\* A checkpoint older than the view is dropped, and asked for again if owed.
ApplySnapshot(v, m) ==
  IF m.seq < v.seq THEN v
  ELSE LET restored == [v EXCEPT !.seq = m.seq, !.base = m.seq, !.refresh = FALSE]
       IN  CASE ~m.gone -> [restored EXCEPT !.pane = "open", !.torn = FALSE,
                                            !.shown = Prefix(m.nth)]
             [] m.gone /\ v.pane = "unseen" -> restored
             [] m.gone /\ v.pane # "unseen" -> [restored EXCEPT !.pane = "closed"]

\* Drag metadata shares the sequence of the outputs.
ApplyDrag(v, m) ==
  LET read  == [v EXCEPT !.crit = m.nth]
      moved == [read EXCEPT !.seq = m.seq, !.drag = m.seq]
  IN  CASE m.seq <= v.seq                   -> read
        [] m.seq > v.seq /\ v.pane = "open" -> moved
        [] m.seq > v.seq /\ v.pane # "open" -> Refresh(moved)

Apply(v, m) ==
  CASE m.kind = "output"   -> ApplyOutput(v, m)
    [] m.kind = "changed"  -> Refresh(v)
    [] m.kind = "snapshot" -> ApplySnapshot(v, m)
    [] m.kind = "drag"     -> ApplyDrag(v, m)
    [] m.kind = "critical" -> [v EXCEPT !.crit = m.nth]
    [] m.kind = "aborted"  -> [v EXCEPT !.crit = m.nth, !.status = "failed"]
    [] m.kind = "final"    ->
         [v EXCEPT !.crit = m.nth,
                   !.status = IF m.gone THEN "destroyed" ELSE "detached"]

\* The view reads one message.  A refresh it now owes goes out at once; a view
\* that failed or was told to stop closes the connection.
Receive(c) ==
  LET m       == Head(wire[c])
      v       == Apply(view[c], m)
      renewed == Snapshot(m) /\ m.seq < view[c].seq /\ view[c].refresh
      asks    == (v.refresh /\ ~view[c].refresh) \/ renewed
      ended   == v.status # "open"
  IN /\ peer[c] = "open"
     /\ wire[c] # <<>>
     /\ view' = [view EXCEPT ![c] = v]
     /\ asked' = [asked EXCEPT ![c] = IF asks THEN @ + 1 ELSE @]
     /\ peer' = [peer EXCEPT ![c] = IF ended THEN "closed" ELSE @]
     /\ wire' = [wire EXCEPT ![c] = IF ended THEN <<>> ELSE Tail(@)]
     /\ UNCHANGED <<ownerVars, writer, sentAcks>>

\* The stream ends without an Exit or Detached.
ReceiveEnd(c) ==
  /\ peer[c] = "open"
  /\ writer[c] = "gone" /\ wire[c] = <<>>
  /\ peer' = [peer EXCEPT ![c] = "closed"]
  /\ view' = [view EXCEPT ![c].status = "failed"]
  /\ UNCHANGED <<ownerVars, transportVars, asked>>

\* The far end quits or crashes.
PeerCloses(c) ==
  /\ peer[c] = "open"
  /\ peer' = [peer EXCEPT ![c] = "closed"]
  /\ view' = [view EXCEPT ![c].status = "failed"]
  /\ wire' = [wire EXCEPT ![c] = <<>>]
  /\ UNCHANGED <<ownerVars, writer, sentAcks, asked>>

-----------------------------------------------------------------------------
(* Specification *)

Owner ==
  \/ Output \/ Change \/ PaneExit \/ InputFails \/ DragChanges
  \/ FlushNative
  \/ \E c \in Clients :
       \/ Connect(c) \/ HandleRequest(c) \/ HostEffect(c) \/ Detach(c)
       \/ HandleSnapshotSent(c) \/ HandleDisconnect(c) \/ CloseTimeout(c)

Transport ==
  \E c \in Clients : Take(c) \/ Acknowledge(c) \/ WriteFails(c) \/ WriterEnds(c)

Peers ==
  \E c \in Clients : Receive(c) \/ ReceiveEnd(c) \/ PeerCloses(c)

Next == Owner \/ Transport \/ Peers

Spec == Init /\ [][Next]_vars

\* Each turn of the owner's loop flushes and then takes one event from a FIFO
\* queue, so an event is handled although flushing interrupts again and again:
\* strong fairness for events, weak for the flush.  Socket writers are threads
\* of their own; the views in Readers keep reading; ten seconds do pass.
\* Nothing makes the engine, a user or any other peer act.
Fairness(Readers) ==
  /\ WF_vars(FlushNative)
  /\ \A c \in Clients :
       /\ SF_vars(HandleRequest(c))
       /\ SF_vars(HandleSnapshotSent(c))
       /\ SF_vars(HandleDisconnect(c))
       /\ WF_vars(CloseTimeout(c))
       /\ WF_vars(Take(c)) /\ WF_vars(Acknowledge(c))
       /\ WF_vars(WriteFails(c)) /\ WF_vars(WriterEnds(c))
  /\ \A c \in Readers : WF_vars(Receive(c)) /\ WF_vars(ReceiveEnd(c))

-----------------------------------------------------------------------------
(* Safety *)

SnapshotsIn(s) == {i \in DOMAIN s : Snapshot(s[i])}

\* Snapshots between the owner and the owner's learning that they are written.
Outstanding(c) ==
  Cardinality(SnapshotsIn(d[c].chan))
    + (IF writer[c] = "acking" THEN 1 ELSE 0)
    + (IF c \in sentAcks THEN 1 ELSE 0)

\* At most one snapshot of a client is held outside the byte budget at a time,
\* and the owner's note of it is never lost while the writer lives: a stale
\* note would stop every later recovery, a missing one would let a second
\* snapshot through (message_bytes: "Exactly one bounded immutable snapshot is
\* retained separately per client").
OneSnapshotOutstanding ==
  \A c \in Clients :
    /\ Outstanding(c) <= 1
    /\ d[c].live /\ d[c].rx => (d[c].pending <=> Outstanding(c) = 1)

\* A client's channel and Pending entry together stay within the budgets,
\* whatever mixture of direct sends, queued messages and flushes led there.
WithinBudget ==
  \A c \in Clients :
    /\ Len(d[c].chan) <= ChannelCap
    /\ Len(d[c].queue) <= RecordLimit
    /\ d[c].bytes + d[c].held <= ByteLimit

\* A client on its way out has left every role but the transport: it gets no
\* broadcasts, owes no snapshot and answers no request for one, and it is only
\* kept while final messages remain or its flush is under way.
ClosingIsInert ==
  \A c \in Clients :
    Closing(d[c]) =>
      /\ d[c].live
      /\ ~d[c].subscribed /\ ~d[c].needs /\ ~d[c].requested
      /\ d[c].queue = <<>> => flush.on /\ c \in flush.todo

IsCritical(m) == m.kind \in CriticalKinds

Pipeline(c) == wire[c] \o d[c].chan \o d[c].queue

\* Replies, host effects and lifecycle records reach a connected view exactly
\* once and in the order the owner issued them, although they overtake and
\* outlive the deltas around them: what is under way is always the unbroken
\* run from the last one received to the last one issued.
CriticalsExactlyOnceInOrder ==
  \A c \in Clients : peer[c] = "open" =>
    LET p     == Pipeline(c)
        under == {i \in DOMAIN p : IsCritical(p[i])}
    IN  /\ \A i, j \in under : i < j => p[i].nth < p[j].nth
        /\ \E last \in view[c].crit..d[c].issued :
             /\ {p[i].nth : i \in under} = (view[c].crit + 1)..last
             /\ d[c].live => last = d[c].issued

\* A view that saw the pane shows its final terminal before the pane or the
\* session disappears from it, even when output was dropped on the way.  Not so
\* a torn view: the server knows of no gap, and freezes no checkpoint for it.
FinalTerminalIsShown ==
  \A c \in Clients :
    \/ view[c].pane = "closed"
    \/ view[c].pane = "open" /\ view[c].status = "destroyed"
    => view[c].torn \/ Len(view[c].shown) = engine.outs

Promise ==
  INSTANCE AttachedView WITH
    Views <- Clients, produced <- engine.outs,
    shown <- [c \in Clients |-> view[c].shown],
    torn <- [c \in Clients |-> view[c].torn]

\* The delivery machinery implements the promise of AttachedView: through
\* refused deltas, deferred and frozen checkpoints and acknowledgements, every
\* terminal shown is a state the pane went through, and none goes back.  The
\* exception is an output that drag metadata has overtaken, and no other: the
\* view drops it and is torn until its next checkpoint.
ShowsRealHistory == Promise!PromiseSpec

-----------------------------------------------------------------------------
(* Liveness *)

Attached(c) == peer[c] = "open" /\ d[c].live /\ d[c].subscribed

CaughtUp(c) ==
  /\ view[c].base >= engine.changedAt
  /\ view[c].pane = "open" => view[c].torn \/ Len(view[c].shown) = engine.outs

\* Once the engine rests, an attached view that keeps reading shows exactly the
\* engine's state, whatever it missed and whatever other clients do, with no
\* further output to wake it ("recovers a final idle tail without new PTY
\* bytes").  A torn view catches up with the graph, but not with the terminal:
\* nothing makes it ask for a checkpoint.
ViewsCatchUp(Readers) == \A c \in Readers : <>[](Attached(c) => CaughtUp(c))

\* A closing client is let go, even one that never reads.
ClosingEnds == \A c \in Clients : Closing(d[c]) ~> ~d[c].live
=============================================================================
