# tmuxx: models, checks and proofs

This directory holds TLA+ specifications of the part of Rustty that is hardest
to test: the **tmuxx** multiplexer server, the native views attached to it, and
the client that shows the sessions of a stock tmux. It says what the server's
parts are, which of them are modelled, what TLC checks, what TLAPS proves, and
what is left. Paths are relative to the repository; `runtime/` stands for
`tmuxx/crates/tmuxx-runtime/src/`.

## 1. The system

Rustty is a terminal emulator in Rust (`crates/`). Its windows can show panes
of a **tmuxx server** (`tmuxx/crates/`), a reimplementation of the parts of
tmux that native windows and external commands need. A server is hosted inside
the application or as a daemon of its own; GUI views, command-line clients and
control-mode clients attach to it over a socket or in process, leave, crash
and come back while the panes live on.

### Components, their state and operations

| Component | State | Operations | What makes it correct |
|---|---|---|---|
| Owner loop (`runtime/lib.rs`) | one thread, one event queue, every table below | `run`: one turn of timers and flushes, then one event | a handler never leaves tables that contradict each other; no event stops the owner |
| Native delivery (`runtime/delivery.rs`) | per client: channel to a writer, `delivery_bytes`, `Pending` (FIFO, bytes, debt of a snapshot, closing), `snapshots_pending`, `snapshots_requested` | `send_native`, `queue_native`, `flush_native`, `defer_native_snapshot`, `final_native_barrier`, `disconnect_after_native_delivery` | no gap is replayed over, nothing critical is lost or reordered, bounded memory, everybody recovers, closing ends |
| Writers and in-process clients (`runtime/lib.rs`) | a thread per socket; `LocalClient` | drain the channel, free bytes, acknowledge snapshots | accounting matches the channel; the acknowledgement follows the write |
| Attached view (`crates/rustty/src/tmuxx.rs`) | `Model`: sequence, panes, `refresh_pending` | `apply` per message, `request_refresh` | shows states the pane went through, in their order, asks again when it must |
| Drag and drop (`runtime/drag.rs`, `rustty-vt/src/dnd.rs`) | `Bindings` (active, latest), the application's drop target | `apply_drag`, `publish_drag_if_changed`, `release_drag`, `prune_drags` | one valid holder per pane, ended offers stay ended, metadata follows output |
| GUI view state (`runtime/view_state.rs`) | visibility and focus per client and pane | `view_state`, `release_view_state`, `disconnect_view_states` | a view that is hidden or gone holds nothing |
| Command queues (`runtime/scheduler.rs`) | per client: batches, blocked; ready list, wait channels, jobs, startup | `request`, `drive`, `wait_command`, `lost` | a runnable queue is ready, a blocked one has a waker, replies in order, locks have holders |
| Pane processes and pipes (`runtime/process.rs`, `lib.rs`) | process per pane with generation, eof, status; pipe with byte count | output, end of file, exit, pipe drained | stale generations are ignored; a pane closes once, after its last output |
| Host actions and leases (`runtime/lib.rs`) | pending actions with deadline, leases per pane | elect, answer, expire, deny, release | exactly one answer to the application; ephemeral panes close with their last lease |
| Control clients (`runtime/control.rs`) | queue with ages, paused panes, closing | enqueue, flush, pause, detach | output order, pause instead of loss, bounded memory |
| Client of a stock tmux (`tmuxx-client`, `crates/rustty/src/tmuxx/system.rs`) | job queue, scan, revision, captures; graph, screens and outcomes of a connection | `feed`, `queue`, `bootstrap`, `finish`; `apply`, `recover_discovery` | the picture is the server's once it has settled, screens have no gaps, requests have one true outcome |
| Snapshots on the wire (`tmuxx-protocol`) | assembler | start, chunk, end, abort | never a partial checkpoint |
| Engine (`tmuxx-core`) | sessions, windows, panes, options, sequence | commands | graph invariants |
| Endpoint (`runtime/lib.rs`, `unix_ipc.rs`), watchdogs, Windows hosting, layout, formats, command parsing, CLI, terminal emulation, rendering, application | | | see `PROJECT.json` |

### How they interact

Reader threads, writer threads, PTY threads and in-process callers talk to the
owner only through its event queue; the owner talks to a client only through
that client's bounded channel. The two shared variables are the channel and
`delivery_bytes`, which writer and owner both change. Everything else is
called inside the owner's thread, but **not as a tree of leaves**: `send` to a
client whose writer has ended calls `disconnect`, which calls
`disconnect_host`, which releases drags and view states, which sends again,
and may fail a report to an application, which disconnects every subscribed
client (`input_failed`). It also releases leases, which closes panes, and
answers applications for the client that is gone. Code that runs a loop of sends therefore sees the
tables it collected its loop from change under it.

A stock tmux shares nothing with the client but two ordered byte streams. What
the client knows it has read, and what it has read may already be over.

### Where it is hard

1. Deltas dropped under back pressure are owed as one checkpoint, which must
   enter the same ordered stream as replies and lifecycle records, against
   writers that drain, acknowledge and die at their own pace.
2. Final messages of a pane or a session that ends while views lag.
3. Recursion of sends and disconnects in the owner.
4. Blocking commands: queues taken out of their map while driven, waiters,
   locks, clients lost between being woken and running.
5. Process end: output, exit and the pipe's last write in any order, with stale
   events of earlier lives, and counters that two threads change.
6. Timeouts that race answers (host actions, closing clients), and answers that
   meet the end of the process that asked.
7. Output that may be dropped in the same queue as replies that may not.
8. Discovery of a server that changes while it is being read.

`PROJECT.json` lists each hazard at the line where it bites, with the
properties that cover it.

## 2. Modules

| Module | Models | Composes |
|---|---|---|
| `DeliveryQueue` | one client's delivery record and every operation of `delivery.rs` on it, as pure operators | |
| `NativeDelivery` | owner, engine, all records, `flush_native`, writers, wires, views | `DeliveryQueue`; implements `AttachedView` |
| `AttachedView` | the promise to a user: what is shown is a past state of the pane, and never goes back; a view that misses an output is torn until a checkpoint makes it whole | |
| `MCNativeDelivery` | the instances of `NativeDelivery` and its fair specifications | `NativeDelivery` |
| `DeliveryQueueProofs` | what each operation preserves of a record, and what it does to the messages under way to a client | `DeliveryQueue` |
| `NativeDeliveryProofs` | types and budgets, then order, loss and recovery by an invariant of two layers: seven theorems, the last the refinement of `AttachedView` | `NativeDelivery`, `DeliveryQueueProofs` |
| `DragProjection` | drag bindings, drop targets, view states, and the recursion of sends and disconnects | |
| `MCDragProjection` | an initial state with everything registered | `DragProjection` |
| `DragProjectionProofs` | its inductive invariant over the call stack and four theorems | `DragProjection` |
| `Lists` | the walk over an ordered map and the `retain` that two components share | |
| `ListProofs` | what these return, and the least-element argument | `Lists` |
| `CommandQueues` | the scheduler: requests, batches, `drive`, and everything a queue may wait for | `Lists` |
| `MCCommandQueues` | two scopes for safety, all actions and fairness for liveness | `CommandQueues` |
| `CommandQueuesProofs` | its inductive invariant, from the helpers of the scheduler up to the handlers, and nine theorems | `CommandQueues`, `ListProofs` |
| `PaneProcess` | processes behind panes, pipe-pane, their threads, and the owner's event channel | |
| `MCPaneProcess` | three scopes with fairness | `PaneProcess` |
| `PaneProcessProofs` | its two inductive invariants, the second on what a process wrote and where it is, and six theorems | `PaneProcess` |
| `PaneIds` | the panes that `ControlDelivery` and `HostActions` have in common | |
| `ControlDelivery` | one control-mode client: queue, channel, flags, ageing, detach | `PaneIds`, `Lists` |
| `ControlDeliveryProofs` | its inductive invariant, from one message to the loop of `flush_control` up to the events, and six theorems | `ControlDelivery`, `ListProofs` |
| `HostState` | what the owner keeps of host actions and leases, and three properties of it | `PaneIds` |
| `HostActions` | the handlers of clipboard reads, notifications and pane leases, and the recursion of disconnects | `HostState`, `Lists` |
| `HostActionsProofs` | its inductive invariant, which holds in the midst of a handler, and five theorems | `HostActions`, `ListProofs` |
| `SystemClient` | the client of a stock tmux, its connection and the server as far as the code relies on it | |
| `MCClients` | seven scopes of these three, which share no state, in one run | `ControlDelivery`, `HostActions`, `SystemClient` |

### NativeDelivery and the code

* **State.** `d[c]` is a record with the client's entry in `clients`, its
  channel and byte counter, its `Pending` entry (an entry exists exactly when
  `HasPending`) and its membership in the two snapshot sets. `engine` keeps
  what a view can tell apart: the sequence, the number of outputs of one pane,
  whether that pane runs, is dead or removed, the sequence of the last
  structural change and the encoded size a checkpoint would have now.
* **Messages** are records: two replayable kinds, snapshots, and critical ones
  numbered in the order the owner issues them. One of these, the metadata of a
  drag, has an engine sequence as well. `bytes` is `message_bytes`,
  `held` what the message costs in the `Pending` queue; they differ only for
  snapshots, which cost their header on the channel and their encoded size
  when frozen. One unit stands for the fixed 128 bytes.
* **Owner handlers** are atomic steps, since one thread runs them, and all need
  `Idle`. `flush_native` is the exception: it is cut at each delivery
  (`FlushBegin`, one step per message or per client, `FlushEnd`), because what
  it decides depends on bytes the writers free meanwhile. The rotation over
  ready clients is `Turn`.
* **Writers** take a message, free its bytes, write it, and acknowledge a
  snapshot in a step of its own. A local client acknowledges on receipt,
  before its caller applies the message. A failed write ends the thread;
  bytes of what was in the channel stay counted.
* **Drags.** `publish_drag_if_changed` takes a sequence and sends metadata to
  every view: as a step of its own for whatever handler does it (`DragChanges`),
  at the end of `pane_output` when the output itself changed the drag, and in
  the middle of its loop when a send finds a client gone that held the drag
  (`SendOutput`): the views behind that client then get the metadata before the
  output it follows. Whether there is a drag, and who may hold it, is
  `DragProjection`'s subject; here there may be one at any moment.
* **The view** follows `apply`: deltas, checkpoints and drag metadata by
  sequence, a refresh request when the structure changed or a pane is unknown,
  and failure on an abort or an unexpected end. Metadata advances the view's
  sequence, so that an output it has overtaken is dropped as stale, and nothing
  is asked for in its place: the disagreement `drag_projection` of section 6. Two
  history fields keep account of it: `drag`, the last metadata's sequence, and
  `torn`, which such an output sets and the next checkpoint clears. Nothing else
  sets `torn`: an output that is stale for another reason is one the view has.

What the abstraction leaves out: one pane and one session stand for the graph,
so a checkpoint either has the pane or not; `Selection` is a replayable delta
like `Changed`, and the sequence does not wrap. A subscribing request is one
step, with its reply and snapshot, and every request subscribes. What a
disconnect does to *other* clients (a lease ends, a size changes) appears as
the later `Change` or `PaneExit` it causes, not within the same step; the
recursion itself is `DragProjection`'s subject; the release of a drag within
`pane_output` is the exception, as above. `DragChanges` may come in the midst of
a flush, but not so often that the metadata finds the channel full that the
flush has found drained (`flush.ready`): the code's channels hold hundreds of
messages. Every view is taken to have `host_effects`. Events of different clients
may overtake each other in the owner's queue, which allows more orders than
the FIFO does. `InputFails` sends Exit and disconnects in one step.

### DragProjection and the code

* **State.** `active`, `latest` and `states` are the owner's maps; `target[p]`
  is the terminal's `kitty_dnd` as far as revisions, registration, offer and
  drop go. `stack` is the owner's call stack: an `output`, `drag` or
  `announce` frame is a loop of sends, a `leave` frame is a client's view
  states being released, a `close` frame is `input_failed`'s loop. A step
  runs the top frame by one send.
* `severed` clients have lost their writer and are found out by the next send
  or by their Disconnect event, whichever comes first.
* A view is updated when its message is sent: delivery is FIFO
  (`NativeDelivery`), so that is what the view shows once it has read it. Sends
  that fail otherwise are `NativeDelivery`'s subject.

Left out: the caps of 16,384 entries; MIME types, positions and chunked data
(a `Move` that changes neither offer nor types leaves the model's state as it
is); a drag command whose input is not accepted changes nothing. `PaneEnds` is
the exit of a pane kept by `remain-on-exit`; panes are persistent, so leases
and `release_ephemeral` do not occur. The commander of `Announce` is not one
of the views.

### CommandQueues and the code

* **State.** `scheduler` is the struct of that name: the queues, the ready
  list, the startup queue, wait channels, event waiters, client files and
  jobs; `outside` joins `pane_waiters` and `stdin_streams`. `driving` holds the
  locals of `drive`: the queue it has taken out of the table, what is left of
  the quantum, the replies it has gathered, and whether the client detaches.
  `asked`, `answered` and `holders` are history.
* **drive** is cut at each command, since `unblock` and `lost` do not find the
  driven queue. Nothing else happens meanwhile: every other action needs
  `Idle`, except what commands cause. `DriveLost`, `DriveEnds`,
  `DriveDetaches`, `DriveCannotReply` and `InternalEnds` are its ends.
* **Commands** have no content until they run: `Runs(kind)` picks what the
  next one does. What is kept is what the scheduler keeps with it: its group,
  its nesting, and `no_hooks`. `wait_command` is translated branch by branch;
  its errors, like those of every other command, are `RunError`.
* **Events** are `queue_event`: each listed waiter may not match, be told, or
  fail in its filter, and a hook may start an internal queue. They accompany
  disconnects, plain commands and the monitors' tick.
* **Loops.** The scheduler's loops (`flush_waiters`, `signal_hook_event`, the
  end of the configuration) walk their table in ascending order; each is a
  function from the number of turns to the table so far (`UnblockAll`,
  `ReadyAll`, `SignalEvent`), and what `retain` leaves of a list is `Kept` (`Lists`).
* **Identifiers.** Client ids are not reused, in the code or the model; the ids
  of internal queues are, in the model only, once no job refers to them.

Left out: byte limits beside the counts; chunks of standard input (only how
reading ends); a source or a branch inserts one command, which is enough to
reach each limit; several panes (a pane ends for each of its waiters); background
commands and closing of control-mode clients; management clients. The nesting
limits 64 and 50 are one bound, `MaxDepth`. A pane that a command kills while
`drive` runs ends afterwards.

### PaneProcess and the code

* **State.** `slot[p]` is what the owner keeps for a pane: its life in the
  engine, its `Process` (`gen`, `eof`, `exited`), its `PipeProcess` and whether
  a command waits for it. `work[g]` is the child of generation `g` with its
  reader, writer and reaper thread, the channel to the writer and the byte
  counter beside it, which owner and writer both change. `events` is the bounded
  channel on which all threads meet the owner; a thread with something to say
  waits for room in it.
* **Owner.** Handlers are compositions of operators on the owner's view
  `[slot, retired, work]` of one pane (`ClosePipe`, `DropProcess`,
  `FinishProcess`, `PaneOutput`, ...), in the order of the calls, and `Commit`
  writes the result back. Commands are spawn, respawn, kill and `pipe-pane`,
  each of which may fail to start its child.
* **Threads** read until their child closes its end, write one chunk at a time
  and lower the counter after the write, and report once.

Left out: names, environment and layout of a pane; input of more than one chunk
at a time; what other panes do (they share only `retired`, the limit on it, and
the event channel).

### ControlDelivery, HostActions and the code

* **ControlDelivery.** `ctl` is the `ControlClient`: panes that are off or
  paused, the flags, `pending` with its ages and its cost. `chan` and `bytes`
  are shared with the writer. An age is one of three: young, older than
  `pause_after`, older than `MAX_AGE`. `FlushOne` is one turn of the loop of
  `flush_control` and `Flush` a function from turns to states, with enough turns
  to end it; a handler is one step that runs it to its end.
  `refresh-client` is there twice, as the client's own command and as that of
  another client, since only the second sends before it has its reply.
* **Flags** of one command are the last of each kind it names, `no-output` and
  `pause-after`, set or removed (`Flags`). A command that names `no-output` in
  either form drops all output that is queued (`Dropped`), also if nothing
  changes by it: the code's `retain` stands behind both branches
  (`runtime/control.rs:240`). Whether the client is told of its flags is free
  (`told`), since they are compared with a text that has other flags in it and
  that is as old as the last command that ran to its end. A command with `-f`
  and `-A` is two steps here. `refresh_control` may put an empty record in
  place of that of a client it has just lost (566); the model keeps none.
* **HostActions.** In `HostState`, `panes` has a pane's process, leases, views and the state of
  the channel to the process; `actions` is `host_actions`. The operators work on
  the owner's view with a list `todo` of calls not yet made, because a send to a
  client whose writer has ended disconnects it, which denies its requests,
  releases its leases, closes panes and sends again. `Turn` makes the first of
  them and puts those it makes before the rest; `Run` makes turns, a function as
  above, and a handler is one step that leaves none. A clipboard read, a
  notification that wants reports and one that does not are the three kinds of
  request; a process is replaced, ends, falls behind or loses its writer.

Left out: subscriptions, sizes and texts of a control client; writes to the
clipboard, which nobody answers; closing and querying of notifications.

### SystemClient and the code

* **State.** `cl` is `SystemClient` with the `State` it maintains, `app` what
  `manage` keeps of the connection and shows the user. `srv` is the server, `up`
  and `down` are the streams, `srv.owed` is news the server has not yet written.
* **Revisions** are compared and never otherwise used, so a job and a scan have
  a flag `fresh` in their place, which any move of the revision takes away.
* **Actions.** `Feed` is `feed` for one record and all that `manage` does with
  its events; `Queue`, `Refresh`, `Resume`, `TooLate` are the user and the timer.
  A write is handed to the transport in a step of its own (`Flush`), which may
  find it closed.
* **The server** is external. The code relies on this of it: a command group and
  its barrier, written at once, run together; pane ids are not used again;
  output, replies and pauses come in the order they happen. Notices of windows
  and names may lag behind replies. Everything else it does is free.
* **Time**: a quiet interval may be over, and a deadline may pass, at any turn.

Left out: several sessions with a connection each, windows linked to several
sessions, geometry and the cursor check of a capture, direct input and its
buffers, the limit of 128 queued requests. Every window has one pane.

## 3. Runs

A run may explore several **scopes**: restrictions on what may happen, chosen in
the initial state, so that each question has a small state space of its own. A
behaviour of a scope is a behaviour of the module without it.

| Run | Module | Scopes and bounds | Shows |
|---|---|---|---|
| `delivery` | `MCNativeDelivery` | views behind a socket, channel 2, queue 2 records and 4 units, wire 1, quantum 2. `long`: one view, 3 sequences, no drag, checkpoints of one unit. `sizes`: one view, 2 sequences, drag metadata, checkpoints of 1, 3 and 5 units where 4 are allowed. `pair`: a view that reads on, behind a holder of the drag that has crashed, 3 sequences | types, one snapshot outstanding, budgets, closing clients inert, critical messages exactly once in order, the final terminal is shown, and refinement of `AttachedView` (`ShowsRealHistory`) |
| `delivery_progress` | `MCNativeDelivery` | 2 sequences, quantum 1. `alone`: one reading view. `together`: a reading view beside one in process that never reads and may crash while it holds a drag | `ReadersCatchUp`, `ClosingEnds` |
| `drag_panes` | `MCDragProjection` | 2 views, 2 offers. `panes`: two panes, registered and visible, sequence from 4 to 6. `bindings`: one pane from nothing, sequence below 6 | types, valid holders, no abandoned hover, ended offers stay ended |
| `queues` | `MCCommandQueues` | quantum 2, 2 requests pending, 1 job, 1 channel. `channels`: 3 clients and 2 names. `work`: 1 client, the configuration and a hook's queue, every other way to wait and every way to go | one waker per blocked queue, runnable queues ready, nobody gone listed, startup alone, results reach their batch, requests in order, channels served |
| `queues_liveness` | `MCCommandQueues` | 2 clients, quantum 1, jobs, a channel, panes | `RequestsAreAnswered` |
| `pane_process` | `MCPaneProcess` | 1 pane, 3 generations (the fourth stays unused), one chunk per child, event channel 1, budgets 2, 1 retired pipe. `output`: three children and pipes for output. `input`: keys and a pipe that types. `both`: two children, pipes both ways, a waiting command | types, panes match processes, a screen is of one process, final output shown, exact counters, pipe children bounded, `DrainedPipeFinishes` |
| `clients` | `MCClients` | seven scopes, below | types, and four properties of a control client, three of host actions and three of the client of a stock tmux |
| `drag_projection`, `drag_announce`, `drag_hidden` | `DragProjection` | 2 views, 1 pane, sequence below 5 | three counterexamples, section 6 |
| `pane_forgotten` | `PaneProcess` | 1 pane, 3 generations | a counterexample, section 6 |
| `control_flags` | `ControlDelivery` | 1 pane, 2 messages | a counterexample, section 6 |

The scopes of `clients`:

| Scope | Part | What happens |
|---|---|---|
| `alone` | control client | one pane, every command and flag (while all output is off, no pane is turned off by itself and no age pauses), three messages, or two and detach or loss |
| `beside` | control client | two panes with an output each; the first is turned off, paused and refused by a channel of one |
| `asking` | host actions | two clients, one of which may go; two requests of one pane, whose process falls behind, ends and is replaced |
| `leasing` | host actions | two panes leased by two clients, one `remain-on-exit`, one request |
| `graph` | stock tmux | a window comes and goes, the name changes, a new pane puts out once |
| `screen` | stock tmux | one pane puts out twice and is paused twice, with one request or refresh |
| `link` | stock tmux | two requests, a new window, a new name, over a connection that may break or be ended |

What some properties say in full:

* `ShowsRealHistory`, `FinalTerminalIsShown`, `ReadersCatchUp`: a view that has
  lost an output to overtaking metadata is torn, and the three say so. The first
  lets it go on with the next output, and calls nothing else torn; the others
  exempt its terminal, not its graph. A checkpoint ends the exemption.
* `OutputIsWhole`: no output is missing of a pane the client hears, counted from
  where it began to hear it, or from the last command that named `no-output` or
  `!no-output`.
* `ChannelsAreServed`: a channel is locked exactly as long as one client holds
  it, nobody queues for a lock that is free, and nobody waits on a channel that
  was signalled.
* `PanesMatchProcesses`: a pane that is alive in the engine has a process, one
  that is not has none, and one that is gone has no pipe and no waiter.
* `NotesInOrder`: replies and notifications come once, in order, up to the last
  one accepted, and *detached* comes after all of them.
* `RepliesExactlyOnce`: a process gets at most one final answer to a request, at
  most one "untracked" before it, and for a notification the one that was
  accepted. It does not say that the answer to a clipboard read reaches the
  process that asked: only notifications are guarded by generation.
* `QuietMeansCurrent`: with nothing on its way, nothing asked for and nothing
  given up, windows, panes, name and every screen that is not paused are the
  server's.

**Why the bounds are enough.** A channel and a queue of two are the smallest
where a message can be behind, in front of and between others, with one in
the wire and one with the writer; byte limits are set so that the record
limit, the channel and the byte limit each bind first somewhere. Three
sequences allow a delta that is shown, one that is dropped and one after the
recovery, or an exit instead. Two clients are the smallest number for the
rotation, and for metadata that overtakes output: one holds the drag and goes,
the other hears of it first. Otherwise the invariants of delivery concern one
client at a time (clients share only `engine`, the flush loop and its cursor), so
that one suffices in `long` and `sizes`. Two views are one that goes and one
that hears of it, two panes are two drags of the same view, six sequence steps allow register, drag, end,
re-register and drag again. Three clients are a holder of a lock, the first
and the second that wait for it; in `work` the configuration and the hook's
queue are the other two, which end, disconnect and wake the client; a quantum
below the commands of two requests makes both ends of `drive` happen; one place
for channels and jobs makes their limits bind. Three generations are a process,
the pipe it owes output to, and a child that replaces either; an event channel
of one makes every thread wait for room; one retired pipe makes the limit bind.
A channel of one for the control client is full after one message, so that
output ages, is dropped and is paused behind a note. A handler of `HostActions` makes as
many calls as it must, at most `MaxCalls`: 18 are enough for every handler of
these scopes, as 24 and 30 take the same steps to the same states. Two requests and two
clients are the elected one and the one elected after it went, one pending and
one over the limit. Two panes and two names of a stock server are one that was
listed and one that was not. `CHECK_DEADLOCK FALSE` everywhere, since the system
may stop: bounds are reached, or all clients are gone and the panes have exited.

**Fairness.** *Delivery* (`Fairness(Readers)`): every turn of `run` flushes and
then takes one event from a FIFO queue, so a queued event is handled although a
flush may start again and again in between: strong fairness for the events, weak
for the flush. Writers are threads of their own; ten seconds pass; the views in
`Readers` keep reading. Nothing makes the engine produce, users act or other
peers read, so recovery cannot lean on new output, as the comment on
`flush_native` promises. *Command queues*: the owner drives whenever a queue is
ready, as each turn of `run` does, and a job ends, since its thread always
reports: its event waits in the FIFO while queues are driven, hence strong
fairness. That a command ends is part of weak fairness of `Drive`: no command
blocks the owner. Panes, signals, unlocks and other clients' requests are
nobody's duty; `RequestsAreAnswered` excepts who waits for them. *Pane
processes*: the owner takes its events, and a pipe's writer thread never stays
in a write for ever, as the write fails when the child is gone; nothing is
assumed of children, commands and reapers, and `DrainedPipeFinishes` needs no
more.

`ControlDelivery`, `HostActions` and `SystemClient` have no liveness run. A
control client's queue moves when the owner's timer finds room, which depends on
the client alone; an unanswered host action ends by its deadline, which is a
single step; and a stock tmux that keeps changing may keep the client
discovering, which the code bounds by giving up. `QuietMeansCurrent` is the
safety half of that: nothing that has stopped is out of date.

Each property has a mutant of the code, an operator beside the definition it
replaces, that the run refutes (`PROJECT.json`, "mutants").

## 4. Proofs

### Delivery

For every set of clients, every capacity and every message size:

* `TypeCorrect`: `Spec => []TypeOK`;
* `BudgetsHold`: `Spec => []WithinBudget`;
* `ClosingStaysInert`: `Spec => []ClosingIsInert`;
* `OneSnapshotUnderWay`: `Spec => []OneSnapshotOutstanding`;
* `CriticalsArriveInOrder`: `Spec => []CriticalsExactlyOnceInOrder`;
* `FinalIsShown`: `Spec => []FinalTerminalIsShown`, of views that are not torn;
* `ShowsHistory`: `Spec => ShowsRealHistory`, the refinement of `AttachedView`,
  which says when a view may be torn and what it may do then.

That is every safety property the run `delivery` checks.  The assumptions are
those named in the modules: capacities are positive naturals, sizes are
naturals, the clients are a finite set of positive ids.

**Types and budgets** (first half of `NativeDeliveryProofs`).
Neither is inductive alone. `TypeOK` contains `held \in Nat`, and
`FlushMove` subtracts a message's cost from `held`: the subtraction is safe
only because `held` is *exactly* the sum of the costs in the queue. And the
budget survives a move from the queue to the channel only because a message
never costs more on the channel than in the queue. The inductive invariant is

    IInv == AllGood(d) /\ RestOK
    GoodRecord(s): typed /\ queued messages have bytes <= held
                   /\ held is the sum over the queue /\ within the limits

The sum is stated by a witness, the function of its prefix sums
(`PrefixSums`), which needs no recursion: appending extends the function,
taking the head shifts it and subtracts, and monotony gives `held >= head`.
`DeliveryQueueProofs` shows operation by operation that a good record stays
good (`QueueNativeGood` and `MoveHeadGood` carry the argument);
`NativeDeliveryProofs` lifts this to broadcasts and to one case per action.

**Roles and notes** (`RolesInv`). `ClosingIsInert` and
`OneSnapshotOutstanding` say too little about a record to be inductive, least
of all between two steps of a flush. `Steady` says of each record that
its roles exclude each other (only a subscriber is owed a snapshot, nothing is
queued for a client without a role) and that the owner's note of an outstanding
snapshot agrees with the channel and with the writer, who may have taken it out
and not reported it yet (`Busy`); a closing record with an empty queue is
tolerated while the flush is going to visit it (`Visiting`). `FlushOK` says that
what the loop found out about the clients it calls ready is still so when it
comes to them, unless one has been lost meanwhile: a drag released in between
may find its writer gone.

**Replays** (`FollowInv`). The remaining three speak of what a view *will* show
when it has read what is under way. So the second layer follows each view to the
end of its wire, channel and queue: `Track` says that replaying these messages
over what the view shows now is a path on which no numbered message is missing
or repeated, sequence and outputs never fall, each output is the next one unless
the view is torn, and an output is dropped (`DropsOutput`) only behind metadata
that is later than itself; and that it ends
(`Ends`) at the engine's present state, unless the owner still owes the client a
snapshot. The replay is not computed, which would need recursion and an
induction over the sequence; it is a function on the positions of the sequence,
and `Path` says that one exists. Sending extends it (`PathAppend`), reading
shifts it (`PathTail`), dropping the queue restricts it (`PathPrefix`), and moving
a message from queue to channel or wire leaves it alone (`UnderMoved`,
`UnderTaken`). The heart of the argument: a delta is dropped only against a debt, and while
the debt stands nothing replayable is sent, so that the path cannot jump; critical
messages that go on meanwhile do not touch the terminal, though metadata moves
the sequence on; an output that is sent behind metadata that has overtaken it
extends the path by a step that tears (`TrackOvertaken`, `OvertakenTracks`), and a
torn path may skip; and the checkpoint that
pays the debt is of the engine as it is *then* (`TrackSendSnapshot`,
`TrackRecover`). When the pane goes away,
`TrackBarrier` covers the last checkpoint that is frozen before the graph
changes. `PathCriticals` reads the numbering off a path: strictly increasing
as values of the replay's counter, and without gap since the replay takes
every value between its ends (the least position that reaches a value). For
`ShowsHistory`, `Honest` adds that the terminal of a view that is not torn is a
prefix of the pane's history, and what a view does with a message (`Moves`) is a
`Follow`, `Miss` or `GoOn` of `AttachedView`, an `Output` its `Produce`; everything
else stutters.

`DeliveryQueueProofs` holds, for both layers, what concerns one record, operation
by operation; `NativeDeliveryProofs` has one lemma per action and layer.

### Drag and drop

`DragProjectionProofs` proves, for any views, panes and offers, and any depth of
the owner's call stack:

* `DragTypes`: `Spec => []TypeOK`;
* `HoldersStand`: `Spec => []HolderIsValid`;
* `NobodyHoversAlone`: `Spec => []HoverHasHolder`;
* `OffersEndOnce`: `Spec => []EndedStaysEnded`.

The second and third are claims about the states between handlers. While a
handler runs, a binding may outlive its client, its process or its target,
and the code relies on a call further down the stack to end it. The invariant
names that call: a dead client's binding needs a `leave` frame that still has the
pane on its list; a connected client whose pane's process has gone, a `close`
frame that will disconnect it; a target changed under a binding, an
`output` frame that remembers the earlier revision. A step may pop a frame or
shorten its list only if it does what the frame was kept for. `Carries` is
what a stack must keep, `Moves` and `Eases` what a step has to show. No frame
is looked up by its position, so the depth of the recursion needs no induction:
the stack is read as a set of frames. `EndedOK` keeps an ended offer at or below the
client's tombstone and a held one equal to it and not ended.

### Pane processes

`PaneProcessProofs` proves, for every finite set of panes, every number of
generations and every capacity (`ProcessAssumption`):

* `TypesHold`: `Spec => []TypeOK`;
* `CountersAreExact`: `Spec => []CounterExact`;
* `TablesAgree`: `Spec => []PanesMatchProcesses`;
* `ScreensAreOfOneProcess`: `Spec => []ScreenIsOfOneProcess`;
* `PipesAreBounded`: `Spec => []PipeChildrenBounded`;
* `FinalOutputIsShown`: `Spec => []FinalOutputShown`.

The first four follow from one invariant, `Inv`:

* `Children`: every child is `Counted`, that is, what is queued and being written
  never exceeds its counter, equals it while anybody reads the counter, and the
  counter is within its budget; and generations from `next` on are unused.
  The inequality is what keeps the counter of a *cancelled* pipe from going
  below zero, where the equality is lost.
* `Refers`: what a pane refers to is a child of the right kind, and its screen
  holds output of one generation, the pane's own if it has one.
* `Settled`: a pane is alive exactly when it has a process, and one that is gone
  has nothing.
* `Signed`: an event names a child of its pane.

A handler is a composition of operators that break `Settled` half way through
(a pane may have lost its process and not be dead yet). So each operator has a
lemma that it keeps `Linked`, which is `Inv` for one pane without `Settled`, and
says what it does to the fields `Settled` speaks of; a handler's last operator
re-establishes it. Panes share the table of children. `CommitKeeps` shows
once that a handler of one pane leaves the others intact, because it only ever
gives new generations a child and never changes the kind or pane of another
(`Kept`).

`PipesAreBounded` adds `InvPipes`, a bound on the retired pipes plus the panes
that have one. Every operator either leaves a pane's pipe or moves it
to the retired ones (`Piped`), which keeps the sum; only `PipeOn` raises it, and
it tests the retired ones first; and since a pipe that was there is retired by
that same handler, it is exactly this test, with one place per pane on top, that
the bound counts.

`Inv` says nothing of what is in the event channel, so `FinalOutputIsShown` adds
`InvTrace`:

* `Follows`: for the process of a pane, the chunks shown and those that wait in
  the channel (`Waiting`, the positions of its output, which may stand between
  the events of any other children) are together the chunks it made; when the
  owner has noted the end of the output (`eof`) the reader has ended and nothing
  waits; when it has noted the exit the reaper has reported. A process a pane
  still has is not finished.
* `Reported`: what an event still under way says of its child is so, and no
  output follows the end of the output.
* `Complete`, the property itself, for every child there ever was.

`Follows` is what makes it inductive: `finish_process` runs on a view of the
pane in which both notes are set, and concludes from it that what is shown is
all. The channel's end moves with an append and its beginning with a take; the
take shifts `Waiting` by one place, so that its size is compared by a bijection
and no induction over the channel is needed. The owner's operators are covered
as before by a relation (`Traced`: the children are alike, and the pane keeps its
process with its notes or drops both), and `CommitTraces` shows that the other
panes keep theirs, because a generation belongs to one pane. The theorem holds
for every `EventCap`, where the run has a channel of one event, in which nothing
waits behind anything.

### Command queues

`CommandQueuesProofs` proves, for every finite set of clients, hooks and
channels, every quantum and every limit (`QueueAssumption`):

* `TypesHold`: `Spec => []TypeOK`;
* `BlockedHaveOneWaker`: `Spec => []BlockedHasOneWaker`;
* `TheGoneAreUnlisted`: `Spec => []GoneIsUnlisted`;
* `TheRunnableAreReady`: `Spec => []RunnableIsReady`;
* `ConfigurationRunsAlone`: `Spec => []StartupRunsAlone`;
* `ResultsArriveRight`: `Spec => []ResultsReachTheirBatch`;
* `RequestsStayInOrder`: `Spec => []RequestsInOrder`;
* `ChannelsStayServed`: `Spec => []ChannelsAreServed`.

That is every safety property the run `queues` checks, and all follow from one
invariant, `Inv` (`QueuesAreSound`). They are not inductive on their own: that a
waker finds its queue needs that nobody is listed twice, that a result
meets its batch needs that a blocked queue does not move, that numbers have no
gap needs that only the driven queue answers. `Inv` is the conjunction, as
predicates of a table and the locals of `drive`, of

* `Tables` and `Control`, the types and limits; in particular a queue being
  driven is not in the table, and `drive` holds nobody when the owner is idle;
* `Listing`: `Places` is the set of the tables that name a queue. A blocked
  queue has one place, another one none, and who has no queue at most jobs, and
  not even these while it is a client. No list of a channel names anybody twice.
* `Fronts`: what is under way for a queue (job, file, pane) carries the number
  of the batch in front of it;
* `InOrder`: replies sent, replies gathered by `drive` and batches queued are
  numbered 1, 2, 3, ... up to the requests accepted;
* `Served`: a channel is locked exactly while it has one holder, keeps a
  wake-up only without waiters, and lockers only behind a lock;
* `StartsAlone`: until the configuration is read, nobody else is ready or
  driven, and its queue is there;
* `Runnable`: what may run is on the ready list.

`Cardinality(Wakers(c)) = 1` of the property is about positions in lists, and
`Places` about tables: `CountWakers` gets from one to the other, since a
queue is in each list once.

A handler is a composition of helpers, and the invariant does not hold between
them. So every lemma is about a table `s` and what a helper makes of it, not about
the variables, and a set `X` names the queues whose numbers do not add up or which
are not on the ready list at that point; `Core` is what is left when the ready
list is disregarded altogether. The lemmas that carry the argument:

* `WakeKeeps`: whatever wakes queues (`Wakes`: they leave their only place, get
  unblocked and ready; hooks may begin) keeps the invariant. Results, signals,
  hand-overs, forced wake-ups and flushes are instances: `OneWakes`, `TellKeeps`,
  `ChannelWakes`, `OutsideEnds`. A result also changes the batch in front, but
  not its number (`Refronts`).
* `WaitKeeps`: a command that waits enters the driven queue in one place where it
  was not (`DrivenIsUnlisted`) with the number of its batch (`Lists`), and blocks it.
* `DropKeeps`: `Lost` takes a client out of every table but the jobs; what it
  held of a lock stays with it, as in the code.
* `MoveKeeps`, `ReturnKeeps`: a reply takes the number of the batch it answers,
  and giving the queue back moves the replies from `drive` to the client, or
  leaves the client in suspense when it is about to be lost.
* `GrowKeeps`: a request gets the next number.

The loops are functions from turns to tables; a property of the last table is
shown by the least turn at which it would fail (`LeastOf`), and that a set of ids
can be walked in order at all (`EnumerationExists`) in the same way by the least
size of a set that cannot. This takes the place of induction.

### Control-mode clients

`ControlDeliveryProofs` proves, for every finite set of panes, every capacity of
the channel, every budget and any number of outputs and notes
(`ControlAssumption`):

* `TypesHold`: `Spec => []TypeOK`;
* `CountersStayExact`: `Spec => []CountersExact`;
* `NotesStayInOrder`: `Spec => []NotesInOrder`;
* `OutputStaysWhole`: `Spec => []OutputIsWhole`;
* `PausesAreTold`: `Spec => []PauseIsTold`.

That is every property the run `clients` checks of this component, and all follow
from `IInv` (`TheQueueIsSound`). Beside the types (`Typed`) and the bounds of what
has been read (`Read`) it is `Sound`, a conjunction about what is on its way to the
client, the channel and then the queue (`Way`):

* `Counted`: the counters are exact, and the *number* of messages in queue and
  channel is within the budget. This is where the bound of `CountersExact` comes
  from: a message costs one more in the channel than it was admitted for, when
  its client takes extended output, and the channel has `ChannelCap` places.
* `Ordered`: the notes not yet read are on their way, once each and in order, and
  none follows a `Detached`. This is claimed of a client that is gone as well,
  as long as a `Detached` waits in its channel: that it will have read everything
  (`NotesInOrder`) is decided when the message enters the channel.
* `Parted`: a `Detached` is on its way only when the client is to go.
* `Hears`: outputs of a pane are in order, and of a pane the client hears none is
  missing since it began to hear it, or a flag last dropped what was queued.
* `Queues`: output is queued only of panes the client hears. So what `Discard`
  drops is output of a pane that is to be silent, or that is heard anew from here.
* `Speaks`: what is on its way pauses a pane only if the client believes it runs
  and the other way round, no output follows a pause, and at its end the client
  believes what is so.

Without `Queues` none of the rest is inductive (a pane that is turned on again
would have a gap behind its old output), and `Ordered` needs `Parted`.

The handlers are functions of the owner's side `o`, so the claims are predicates
of `o` and of an account `e` of what the client has read and what was made for
it. Half way through a handler a pane may be paused of which the client hears
only with the next message: `D` is the set of these panes, in whose case `Speaks`
claims the opposite. Each operation keeps `Sound(o, D, C, e)`:

* a message joins the queue (`EnqueueNote`, `EnqueueMark`, `EnqueueOutput`,
  `EnqueueDetached`), moves to the channel, escaped or not (`MoveKeeps`), ends
  the client (`PartKeeps`, `ExpelledKeeps`) or goes back to the front (`RefusedIsSame`);
* `Discard` leaves out output of some panes and nothing else (`ThinWay`), which
  every claim survives (`Thinned`), except the completeness of these panes; late
  output is dropped against a pause that is queued in the same turn
  (`PauseLateKeeps`);
* so one turn of the loop keeps it (`FlushOneKeeps`), and therefore all turns
  do (`TurnsKeep`, by the least turn that would not);
* `refresh-client` leaves its pane in `D`, and the message that tells of it takes
  it out (`RefreshedKeeps`, `SendMarkKeeps`), whether it is sent alone or after a
  reply (`RefreshOtherKeeps`, `RefreshOwnKeeps`);
* a flag that drops all output starts the account of every pane anew
  (`FlaggedKeeps`, `CommitFromKeeps`), and the client may be told of its flags
  before the command's result or by another's command (`RetoldCommit`);
* the client reads the head of the channel (`ReadsKeeps`): what it believes moves
  with it.

The cost of the channel is a recursive function of the list. `TotalSums` shows
that a list has such a sum at all, and `TotalAppend` and `TotalTail` how it changes.
The theorems hold for every `ChannelCap` and `ByteLimit`, where the run has a channel of
one message and a budget of four. `IInv` was checked with TLC before it was proved.

### Host actions

`HostActionsProofs` proves, for every finite set of clients and panes, every
limit, any number of requests and processes, and any number of calls of a
handler (`HostAssumption`):

* `TypesHold`: `Spec => []TypeOK`;
* `NothingWaits`: `Spec => []NothingWaitsForTheGone`;
* `RepliesOnce`: `Spec => []RepliesExactlyOnce`;
* `EphemeralStaysLeased`: `Spec => []EphemeralIsLeased`.

That is every property the run `clients` checks of this component, and all follow from `IInv`
(`AlwaysHeld`). The properties are about the states between handlers. Within one,
a client has been taken out of `known` while its requests, views and leases are
still there, and each call that puts one of them right may send, find another
client gone and begin the same for it. So the invariant is `Good(o, T, x)`, about
what the owner has at hand (`o`), the calls it has still to make (`T`) and
what no call changes (`x`: the next request, who asked, what was accepted):

* `Denied`: a pending request of a client that is gone is finished, or there is a
  call left that denies it, one that denies all of its client's, or its process
  has gone and nobody waits for it;
* `Vacated`: a lease or a view of a client that is gone has a call left that
  gives it back;
* `Leased`: a pane that is not persistent has a lease, or a call left that will
  close it;
* `Replied`, `Fits`: what was written to a process for a request, followed by
  what is queued behind it, is one of the few sequences allowed, and of a
  notification every part of it went to the process that asked;
* `Honoured`: an accepted final reply is written or queued as long as the process
  lives that waits for it;
* `Within`: the limits on requests and notifications.

Each call keeps `Good`: it does what it was left for, so that it may leave `T`,
and adds to `T` the calls for what it breaks. The claims about `T` only say that
some call is *in* it, so the order of the calls and the depth of the recursion
play no part. A handler makes its calls turn by turn, a function of the
number of turns, and a property of all of them is shown by the least turn that
would lose it (`TurnHolds`, `RunHolds`). When none is left, `Good` with an empty `T` is the
properties. A handler that needs more than `MaxCalls` calls is not taken, and
since the theorems hold for every `MaxCalls`, none is left out.

### Only model-checked

* Liveness (`ReadersCatchUp`, `ClosingEnds`, `DrainedPipeFinishes`,
  `RequestsAreAnswered`): out of the prover's reach.
* The safety properties of `SystemClient`, which folds over sequences
  (`FoldLeft` is recursive, and what a fold computes cannot be proved by induction
  here).

## 5. Plan

Done, in this order: `NativeDelivery` with `AttachedView`, `DragProjection`,
`CommandQueues`, `PaneProcess`, `ControlDelivery`, `HostActions`,
`SystemClient`; the theorems of section 4.

`SnapshotTransfer`, once planned, is dropped. A checkpoint's chunks have one
writer and one reader on an ordered stream, the assembler is made anew with
every connection, and tests cover each refusal: the sequences it refuses cannot
come from the writer, so a model would hold by its shape. That the writer may be
cut off or abort half way is in `NativeDelivery`.

Next: size ownership and the choice of a client's next session, GUI
reconnection, endpoint ownership, then the engine's graph and layouts as pure
operators.

Theorems next: `SystemClient`, after its folds are restated by functions of
turns, as the loops of `HostActions` and `ControlDelivery` are. What it needs
then is an invariant that relates the streams in both directions, the jobs under
way and the news the server still owes to what the client believes.

## 6. Disagreements between code and its documents

The first three and the last come from the recursion of section 1, or from its
error path.

* **Metadata before output** (`drag_projection`). `pane_output` sends to
  clients in turn; when an earlier one turns out to be gone while it holds a
  drag, the release takes the next sequence and reaches a later client before
  that client's output, which the view then drops as stale. The comment at
  `runtime/process.rs:437` says metadata never outruns the output. What it costs
  the view is in `NativeDelivery`: its terminal has a gap until the next
  structural change makes it ask for a checkpoint, and if the pane closes before
  that, its last output is never shown. The server owes the view nothing, as its
  message was delivered. The theorems on views except exactly this case.
* **Owner panic** (`drag_announce`). `drive` indexes `self.clients[&target]`
  with ids it collected before it began to send; a send may disconnect a later
  recipient. `tmuxx/ARCHITECTURE.md:192`: "View detaches; daemon continues".
  `runtime/lifecycle.rs:100` has the same form.
* **Hidden holder** (`drag_hidden`). `view_state` stores the hidden state and
  returns before releasing the drag when the report to the application fails.
  `runtime/drag.rs:61`: a drag "requires a visible registered GUI view".
* **Forgotten pane** (`pane_forgotten`). `finish_process` waits for a pipe that
  still holds output, and that pipe's events call it again. Turning `pipe-pane`
  off or replacing it meanwhile drops the pipe without that call, and nothing is
  left to finish the process. `tmuxx/conformance/compatibility-versions.md:23`:
  "Process completion closes pipe-pane and clears pipe PID".
* **Owner panic** (`control_flags`). `refresh-client -t <other> -f <flag>` sends
  the other client its new flags, may lose it by that, and unwraps its entry at
  `runtime/control.rs:658`. `tmuxx/ARCHITECTURE.md:192` again.

Met on the way, and not disagreements with any document: `refresh-client -f
'!no-output'` drops the output that is queued for a client which hears its panes,
and does not tell it (`runtime/control.rs:240`); `SystemClient` would
forget a user's request whose reply is too long if that reply were fed together
with its barrier, which `manage` never does; two lists that contradict each
other while no notice of a change has come yet end the connection; output
between a capture's reply and its barrier would not be shown, which is why
the model, like the code, relies on the two arriving as one.

## 7. Not modelled

The map covers a small part of the repository's lines, because most of it
is a terminal emulator, a renderer, a font stack, a desktop application and its
smoke tests: sequential code over large data, for which the repository has
conformance, differential and pixel tests, and about which a model of a few states
says nothing. What is concurrent, ordered or can be cut off is in the multiplexer
and its clients, which is where the modules are.

Of those, these are left out, each with its reason in `PROJECT.json`:

* the engine's graph of sessions, windows and panes, and the layout trees:
  large, sequential, covered by conformance tests; the size a window follows and
  the next session of a client depend on it;
* options, formats, targets, command parsing: text;
* snapshot records and wire records: section 5;
* endpoint, handshake, Unix IPC, process watchdogs, Windows hosting: their
  behaviour is the operating system's;
* watchers of an idle server, persistent snapshots, files and messages of commands;
* of modelled parts, what section 2 lists as left out.
