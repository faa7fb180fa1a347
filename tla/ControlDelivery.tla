-------------------------- MODULE ControlDelivery --------------------------
(***************************************************************************)
(* A control-mode client (tmuxx-runtime/src/control.rs): the queue between *)
(* the owner and its channel, with output that the client may turn off,    *)
(* that pauses a pane or costs the connection when it grows old, and with  *)
(* replies and notifications that may not be lost or overtaken.            *)
(*                                                                         *)
(* Every command is answered by itself, as for the clients of the command  *)
(* line and of the Unix socket (Event::ControlRequest).  Other clients act *)
(* on this one by refresh-client -t.                                       *)
(***************************************************************************)
EXTENDS PaneIds, Lists, SequencesExt

CONSTANTS
  ChannelCap,   \* capacity of the channel to the client
  ByteLimit,    \* BYTE_LIMIT, in messages
  MaxOutput,    \* bound on the outputs of each pane
  MaxNotes      \* bound on the messages that may not be lost

ASSUME ControlAssumption ==
  /\ IsFiniteSet(Panes)
  /\ ChannelCap \in Nat \ {0}
  /\ ByteLimit \in Nat /\ MaxOutput \in Nat /\ MaxNotes \in Nat

VARIABLES
  live,    \* the client is in Host::clients
  ctl,     \* its ControlClient
  chan,    \* the channel to it
  bytes,   \* delivery_bytes, the cost of what is in the channel
  peer,    \* "open" while the client holds its end of the channel
  made,    \* outputs of each pane, until the client is told to go
  since,   \* outputs of each pane before the client last began to hear it, or
           \* had what was queued of it dropped
  sent,    \* messages accepted that may not be lost
  view,    \* what the client has read (told: that it is detached)
  owner    \* "running", or "panicked"

vars == <<live, ctl, chan, bytes, peer, made, since, sent, view, owner>>

Message ==
  [kind : {"output", "note", "pause", "continue", "detached", "exit"},
   pane : Panes \union {0}, n : Nat, extended : BOOLEAN]

M(kind, p, n) == [kind |-> kind, pane |-> p, n |-> n, extended |-> FALSE]

\* ControlClient.  aging: pause_after is set; muted: no-output.  pending holds
\* messages with their age: 1 is older than pause_after, 2 than MAX_AGE too.
NewControl ==
  [off |-> {}, paused |-> {}, aging |-> FALSE, muted |-> FALSE,
   pending |-> <<>>, cost |-> 0, closing |-> FALSE]

Init ==
  /\ live = TRUE /\ ctl = NewControl /\ chan = <<>> /\ bytes = 0
  /\ peer = "open" /\ owner = "running"
  /\ made = [p \in Panes |-> 0] /\ since = made /\ sent = 0
  /\ view = [read |-> 0, paused |-> {}, last |-> made, told |-> FALSE]

-----------------------------------------------------------------------------
(* The owner's side, as operators on o = [live, ctl, chan, bytes].          *)

\* message_bytes: one unit, until %extended-output escapes what it carries.
Cost(m) == IF m.extended THEN 2 ELSE 1

Now == [live |-> live, ctl |-> ctl, chan |-> chan, bytes |-> bytes]

Audible(c, p) == ~c.muted /\ p \notin c.off \union c.paused

\* The places of the queue that do not hold output of these panes
Others(list, panes) ==
  {i \in DOMAIN list : ~(list[i].m.kind = "output" /\ list[i].m.pane \in panes)}

\* Mutant: the cost of what is dropped stays counted.
DiscardCounted(c, panes) == [c EXCEPT !.pending = Kept(@, Others(@, panes))]

\* Output that is queued is dropped, and its cost with it.
Discard(c, panes) ==
  LET kept == Kept(c.pending, Others(c.pending, panes))
  IN  [c EXCEPT !.pending = kept, !.cost = Len(kept)]

Enqueue(c, m) ==
  [c EXCEPT !.pending = Append(@, [m |-> m, age |-> 0]), !.cost = @ + Cost(m)]

\* Mutant: what was kept for the client stays behind.
GoneHalf(o) == [o EXCEPT !.live = FALSE]

\* disconnect
Gone(o) == [o EXCEPT !.live = FALSE, !.ctl = NewControl]

HasRoom(o) == peer = "open" /\ Len(o.chan) < ChannelCap

Put(o, m) == [o EXCEPT !.chan = Append(@, m), !.bytes = @ + Cost(m)]

\* Exit is sent, if it fits, uncounted.
Expelled(o) ==
  Gone(IF HasRoom(o) THEN [o EXCEPT !.chan = Append(@, M("exit", 0, 0))] ELSE o)

Late(c, q) == q.m.kind = "output" /\ q.age >= (IF c.aging THEN 1 ELSE 2)

\* Mutant: a pane whose output grew old is paused and its client not told.
PauseLateUntold(c, p) == Discard([c EXCEPT !.paused = @ \union {p}], {p})

PauseLate(c, p) ==
  Enqueue(Discard([c EXCEPT !.paused = @ \union {p}], {p}), M("pause", p, 0))

\* Mutant: what a full channel refuses goes to the end of the queue.
RequeueBehind(c, q) == Append(c.pending, q)

Requeue(c, q) == <<q>> \o c.pending

\* One turn of the loop of flush_control; rest: it goes on.
FlushOne(f) ==
  IF ~f.rest \/ ~f.o.live \/ f.o.ctl.pending = <<>> THEN f
  ELSE LET q == Head(f.o.ctl.pending)
           m == [q.m EXCEPT !.extended = f.o.ctl.aging /\ q.m.kind = "output"]
           o == [f.o EXCEPT !.ctl.pending = Tail(@), !.ctl.cost = @ - Cost(q.m)]
       IN  CASE Late(o.ctl, q) /\ o.ctl.aging ->
                  [f EXCEPT !.o = [o EXCEPT !.ctl = PauseLate(@, q.m.pane)]]
             [] (Late(o.ctl, q) /\ ~o.ctl.aging) \/ peer = "gone" ->
                  [f EXCEPT !.o = Expelled(o)]
             [] ~Late(o.ctl, q) /\ peer = "open" /\ ~HasRoom(o) ->
                  [rest |-> FALSE,
                   o |-> [o EXCEPT !.ctl.pending = Requeue(o.ctl, q),
                                   !.ctl.cost = @ + Cost(q.m)]]
             [] OTHER ->
                  [f EXCEPT !.o = IF m.kind = "detached" THEN Gone(Put(o, m))
                                  ELSE Put(o, m)]

\* A turn of the loop removes a message, or all output of a pane for one: as
\* many turns as there are messages and panes end it.
Flush(o) ==
  LET turns == Len(o.ctl.pending) + Cardinality(Panes)
      after[i \in 0 .. turns] ==
        IF i = 0 THEN [o |-> o, rest |-> TRUE] ELSE FlushOne(after[i - 1])
  IN  after[turns].o

\* Mutant: a client that is told to go is not sent first what is queued.
SendControlParting(o, m) ==
  IF ~o.live \/ (o.ctl.closing /\ m.kind # "detached") THEN o
  ELSE IF m.kind = "detached" /\ HasRoom(o) THEN Gone(Put(o, m))
  ELSE Flush([o EXCEPT !.ctl = Enqueue(@, m)])

SendControl(o, m) ==
  IF \/ ~o.live
     \/ o.ctl.closing /\ m.kind # "detached"
     \/ m.kind = "output" /\ ~Audible(o.ctl, m.pane)
  THEN o
  ELSE IF Cost(m) + o.ctl.cost + o.bytes > ByteLimit THEN Expelled(o)
  ELSE Flush([o EXCEPT !.ctl = Enqueue(@, m)])

SendAll(o, messages) ==
  LET after[i \in 0 .. Len(messages)] ==
        IF i = 0 THEN o ELSE SendControl(after[i - 1], messages[i])
  IN  after[Len(messages)]

\* Writes back the owner's side.  The client hears a pane anew from here when
\* it did not before, or when what was queued of it has been dropped (history).
CommitFrom(result, outputs, dropped) ==
  \E o \in {result} :
    /\ live' = o.live /\ ctl' = o.ctl /\ chan' = o.chan /\ bytes' = o.bytes
    /\ made' = outputs
    /\ since' = [p \in Panes |->
                   IF p \in dropped \/ (Audible(o.ctl, p) /\ ~Audible(ctl, p))
                   THEN outputs[p] ELSE since[p]]
    /\ UNCHANGED <<peer, view>>

Commit(result, outputs) == CommitFrom(result, outputs, {})

-----------------------------------------------------------------------------
(* Events of the owner *)

\* pane_output
Output(p) ==
  /\ live /\ made[p] < MaxOutput
  /\ Commit(SendControl(Now, M("output", p, made[p] + 1)),
            IF ctl.closing THEN made ELSE [made EXCEPT ![p] = @ + 1])
  /\ UNCHANGED <<sent, owner>>

\* A reply or a notification, and what a command adds to it
Note(n) == M("note", 0, n)

Accepting == live /\ ~ctl.closing

Notify ==
  /\ Accepting /\ sent < MaxNotes
  /\ Commit(SendControl(Now, Note(sent + 1)), made)
  /\ sent' = sent + 1
  /\ UNCHANGED owner

\* reset_control_pane: another process has the pane.
Reset(p) ==
  /\ live
  /\ ctl' = Discard(ctl, {p})
  /\ since' = [since EXCEPT ![p] = made[p]]
  /\ UNCHANGED <<live, chan, bytes, peer, made, sent, view, owner>>

\* refresh-client -A: the new state of the client, and what it is told
Changes == {"on", "off", "pause", "continue"}

\* Mutant: output of a pane that is on already is dropped as well.
HasEffectAlways(c, change, p) ==
  CASE change = "continue" -> p \in c.paused
    [] change = "pause"    -> p \notin c.paused
    [] OTHER               -> TRUE

HasEffect(c, change, p) ==
  CASE change = "on"       -> p \in c.off
    [] change = "off"      -> TRUE
    [] change = "pause"    -> p \notin c.paused
    [] change = "continue" -> p \in c.paused

Refreshed(c, change, p) ==
  IF ~HasEffect(c, change, p) THEN c
  ELSE Discard(CASE change = "on"       -> [c EXCEPT !.off = @ \ {p}]
                 [] change = "off"      -> [c EXCEPT !.off = @ \union {p}]
                 [] change = "pause"    -> [c EXCEPT !.paused = @ \union {p}]
                 [] change = "continue" -> [c EXCEPT !.paused = @ \ {p}], {p})

Told(c, change, p) ==
  IF change \in {"pause", "continue"} /\ HasEffect(c, change, p)
  THEN <<M(change, p, 0)>> ELSE <<>>

\* By the client itself: what it is told follows the result of the command
\* (control_command_result, control_after_reply).
RefreshOwn(change, p) ==
  /\ Accepting /\ sent < MaxNotes
  /\ Commit(SendAll([Now EXCEPT !.ctl = Refreshed(@, change, p)],
                    <<Note(sent + 1)>> \o Told(ctl, change, p)), made)
  /\ sent' = sent + 1
  /\ UNCHANGED owner

\* By another client: it is told at once.
RefreshOther(change, p) ==
  /\ live
  /\ Commit(SendAll([Now EXCEPT !.ctl = Refreshed(@, change, p)],
                    Told(ctl, change, p)), made)
  /\ UNCHANGED <<sent, owner>>

\* refresh-client -f, of the flags that matter here: the last of each kind that
\* a command names
Flags == [output : {"none", "no-output", "!no-output"},
          age : {"none", "pause-after", "!pause-after"}]

\* Output of these panes is dropped: of all of them, whether output is turned off
\* or on, and was so before.
Dropped(flags) == IF flags.output = "none" THEN {} ELSE Panes

Switched(c, flags) ==
  [c EXCEPT !.muted = IF flags.output = "none" THEN @ ELSE flags.output = "no-output",
            !.aging = IF flags.age = "none" THEN @ ELSE flags.age = "pause-after"]

\* Mutant: every flag drops what is queued.
FlaggedDrops(c, flags) == Discard(Switched(c, flags), Panes)

Flagged(c, flags) ==
  IF Dropped(flags) = {} THEN Switched(c, flags)
  ELSE Discard(Switched(c, flags), Dropped(flags))

\* ClientFlags is sent, before the result of the command, when the flags are not
\* the ones on record (told): these and others, as they were when a command
\* last ran to its end.  If the client is lost by it, refresh_control keeps an
\* empty record of a client that is gone, which is none here.
FlagOwn(flags, told) ==
  LET notes == IF told THEN <<Note(sent + 1), Note(sent + 2)>> ELSE <<Note(sent + 1)>>
  IN  /\ Accepting /\ sent + Len(notes) <= MaxNotes
      /\ CommitFrom(SendAll([Now EXCEPT !.ctl = Flagged(@, flags)], notes), made,
                    Dropped(flags))
      /\ sent' = sent + Len(notes)
      /\ UNCHANGED owner

\* By another client.  refresh_control looks the target up again after it has
\* sent the flags, and unwraps.
FlagOther(flags, told) ==
  /\ live /\ (told => sent < MaxNotes)
  /\ LET t == [Now EXCEPT !.ctl = Flagged(@, flags)]
         o == IF told THEN SendControl(t, Note(sent + 1)) ELSE t
     IN  /\ CommitFrom(o, made, Dropped(flags))
         /\ owner' = IF o.live THEN owner ELSE "panicked"
  /\ sent' = IF told /\ ~ctl.closing THEN sent + 1 ELSE sent

\* detach_client
Detach ==
  /\ Accepting
  /\ Commit(SendControl([Now EXCEPT !.ctl.closing = TRUE], M("detached", 0, 0)), made)
  /\ UNCHANGED <<sent, owner>>

\* control_tick
Tick ==
  /\ live
  /\ Commit(Flush(Now), made)
  /\ UNCHANGED <<sent, owner>>

\* A client that is closing has ten seconds.
Expire ==
  /\ live /\ ctl.closing
  /\ Commit(Gone(Now), made)
  /\ UNCHANGED <<sent, owner>>

\* Event::Disconnect
HandleDisconnect ==
  /\ live /\ peer = "gone"
  /\ Commit(Gone(Now), made)
  /\ UNCHANGED <<sent, owner>>

-----------------------------------------------------------------------------
(* Time and the client *)

Older(q) == [q EXCEPT !.age = IF @ = 2 THEN 2 ELSE @ + 1]

\* Everything in the queue grows older.
Age ==
  /\ ctl.pending # <<>>
  /\ ctl' = [ctl EXCEPT !.pending = [i \in DOMAIN @ |-> Older(@[i])]]
  /\ UNCHANGED <<live, chan, bytes, peer, made, since, sent, view, owner>>

Seen(v, m) ==
  CASE m.kind = "output"   -> [v EXCEPT !.last[m.pane] = m.n]
    [] m.kind = "note"     -> [v EXCEPT !.read = m.n]
    [] m.kind = "pause"    -> [v EXCEPT !.paused = @ \union {m.pane}]
    [] m.kind = "continue" -> [v EXCEPT !.paused = @ \ {m.pane}]
    [] m.kind = "detached" -> [v EXCEPT !.told = TRUE]
    [] OTHER               -> v

\* Exit and Detached end the client.
Receive ==
  /\ peer = "open" /\ chan # <<>>
  /\ LET m == Head(chan)
     IN  /\ view' = Seen(view, m)
         /\ bytes' = IF m.kind = "exit" THEN bytes ELSE bytes - Cost(m)
         /\ peer' = IF m.kind \in {"exit", "detached"} THEN "gone" ELSE peer
  /\ chan' = Tail(chan)
  /\ UNCHANGED <<live, ctl, made, since, sent, owner>>

Leave ==
  /\ peer = "open" /\ peer' = "gone"
  /\ UNCHANGED <<live, ctl, chan, bytes, made, since, sent, view, owner>>

Next ==
  /\ owner = "running"
  /\ \/ \E p \in Panes : \/ Output(p) \/ Reset(p)
                         \/ \E change \in Changes :
                              RefreshOwn(change, p) \/ RefreshOther(change, p)
     \/ \E flags \in Flags, told \in BOOLEAN :
          FlagOwn(flags, told) \/ FlagOther(flags, told)
     \/ Notify \/ Detach \/ Tick \/ Expire \/ HandleDisconnect
     \/ Age \/ Receive \/ Leave

Spec == Init /\ [][Next]_vars

-----------------------------------------------------------------------------
(* Properties *)

\* Everything on its way to the client, in order
Transit == chan \o [i \in DOMAIN ctl.pending |-> ctl.pending[i].m]

Listening == live /\ peer = "open"

\* Every variable holds what its declaration says, and of a client that is gone
\* no more is kept than an empty record (disconnect, refresh_control).
TypeOK ==
  /\ live \in BOOLEAN /\ peer \in {"open", "gone"} /\ owner \in {"running", "panicked"}
  /\ ctl.off \subseteq Panes /\ ctl.paused \subseteq Panes
  /\ ctl.aging \in BOOLEAN /\ ctl.muted \in BOOLEAN /\ ctl.closing \in BOOLEAN
  /\ \A q \in ToSet(ctl.pending) : q.m \in Message /\ q.age \in 0 .. 2
  /\ chan \in Seq(Message) /\ Len(chan) <= ChannelCap
  /\ made \in [Panes -> 0 .. MaxOutput] /\ since \in [Panes -> 0 .. MaxOutput]
  /\ sent \in 0 .. MaxNotes
  /\ ~live => ctl = NewControl

\* What is counted of the messages in the channel
Paid(m) == IF m.kind = "exit" THEN 0 ELSE Cost(m)

Total(list) ==
  LET sum[i \in 0 .. Len(list)] ==
        IF i = 0 THEN 0 ELSE sum[i - 1] + Paid(list[i])
  IN  sum[Len(list)]

\* The two counters are the cost of what they count, through every discard,
\* refusal and conversion, and together stay within the budget but for what
\* escaping adds to the messages in the channel (send_control, flush_control).
CountersExact ==
  /\ live => ctl.cost = Len(ctl.pending)
  /\ bytes = Total(chan)
  /\ live => ctl.cost + bytes <= ByteLimit + ChannelCap

\* The messages of list at the places I have the numbers S, in order.
Numbered(list, I, S) ==
  /\ {list[i].n : i \in I} = S
  /\ \A i, j \in I : i < j => list[i].n < list[j].n

\* Replies and notifications reach the client once, and in order, whatever is
\* discarded around them; and a client that is told it was detached has read
\* every one of them, although new ones were refused from the moment it was
\* to go.
NotesInOrder ==
  /\ Listening =>
       Numbered(Transit, {i \in DOMAIN Transit : Transit[i].kind = "note"},
                view.read + 1 .. sent)
  /\ view.told => view.read = sent

\* A pane the client hears loses no output: from the moment it began to hear
\* it, or output was last turned off or on by a flag, every output has been read
\* or is on its way, in order.  Output that is queued when a command names
\* no-output or !no-output is dropped, also of a client that hears it and goes
\* on doing so (ControlClient::flags); neither other flags, nor commands for
\* other panes, nor pauses, nor a full channel cost a pane output.
OutputIsWhole ==
  Listening =>
    \A p \in Panes : Audible(ctl, p) =>
      LET from == IF view.last[p] > since[p] THEN view.last[p] ELSE since[p]
          outputs == {i \in DOMAIN Transit : /\ Transit[i].kind = "output"
                                             /\ Transit[i].pane = p
                                             /\ Transit[i].n > from}
      IN  Numbered(Transit, outputs, from + 1 .. made[p])

\* The first i messages of list that say whether pane p is paused
Marks(list, p, i) ==
  {j \in DOMAIN list : /\ j <= i /\ list[j].pane = p
                       /\ list[j].kind \in {"pause", "continue"}}

\* Who believed the panes in told paused believes it of p after i messages.
Believes(list, told, p, i) ==
  LET marks == Marks(list, p, i)
  IN  IF marks = {} THEN p \in told
      ELSE \E j \in marks : list[j].kind = "pause" /\ \A k \in marks : k <= j

\* When it has read what is on its way the client believes paused what is
\* paused, and until then it never gets output of a pane it believes paused,
\* nor is told twice.  Not for a client that is closing: it is told no more.
PauseIsTold ==
  Listening /\ ~ctl.closing =>
    \A p \in Panes :
      /\ \A i \in DOMAIN Transit : Transit[i].pane = p =>
           /\ Transit[i].kind \in {"output", "pause"}
                => ~Believes(Transit, view.paused, p, i - 1)
           /\ Transit[i].kind = "continue"
                => Believes(Transit, view.paused, p, i - 1)
      /\ Believes(Transit, view.paused, p, Len(Transit)) <=> p \in ctl.paused

-----------------------------------------------------------------------------
(* What does not hold *)

\* One client that goes leaves the server running.  Not so when another client
\* changes its flags before the owner has heard that it is gone.
DaemonContinues == owner = "running"
=============================================================================
