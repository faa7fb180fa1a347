----------------------- MODULE ControlDeliveryProofs -----------------------
(***************************************************************************)
(* Proofs about ControlDelivery, for any panes, any capacity of the        *)
(* channel and any budget.                                                 *)
(*                                                                         *)
(* The handlers are functions of the owner's side o, so the claims are     *)
(* operators of o as well, and of an account e of what the client has read *)
(* and what was made and sent for it: what is on its way (Way: the channel *)
(* and then the queue) holds the notes the client lacks (Ordered), the     *)
(* outputs it lacks of each pane it hears (Hears), and the truth about     *)
(* what is paused (Speaks); what tells it to go comes last (Parted); and   *)
(* the counters are right (Counted).                                       *)
(*                                                                         *)
(* Half way through a handler a pane may be paused already of which the    *)
(* client is told by the next message: D is the set of these panes.  Each  *)
(* operation keeps Sound(o, D, C, e): a message joins the queue            *)
(* (Enqueued), moves on (Moved), is left out of it (Thinned), and the loop *)
(* of flush_control is a function of its turns (Turns), so that a claim    *)
(* that survives a turn survives them all.                                 *)
(***************************************************************************)
EXTENDS ControlDelivery, ListProofs

-----------------------------------------------------------------------------
(* The inductive invariant                                                 *)

\* The places of the notes, and of the outputs of a pane, in a list of messages
NotesIn(T) == {i \in DOMAIN T : T[i].kind = "note"}
OutputsOf(T, p) == {i \in DOMAIN T : T[i].kind = "output" /\ T[i].pane = p}

\* Outputs of p are in order, after the one read last and not after the last made.
Heard(T, p, last, made_p) ==
  /\ \A i \in OutputsOf(T, p) : last < T[i].n /\ T[i].n <= made_p
  /\ \A i, j \in OutputsOf(T, p) : i < j => T[i].n < T[j].n

\* From since on none is missing.
Whole(T, p, last, since_p, made_p) ==
  \A n \in Nat : since_p < n /\ n <= made_p /\ last < n
                   => \E i \in OutputsOf(T, p) : T[i].n = n

\* The client is told of each pause and each end of one, once, and in the end
\* what K says of p.
Voice(T, told, p, K) ==
  /\ \A i \in DOMAIN T : T[i].pane = p =>
       /\ T[i].kind \in {"output", "pause"} => ~Believes(T, told, p, i - 1)
       /\ T[i].kind = "continue" => Believes(T, told, p, i - 1)
  /\ Believes(T, told, p, Len(T)) <=> K

\* Nothing a client must read follows what tells it that it is detached.
NotesFirst(T) ==
  \A i, j \in DOMAIN T : T[i].kind = "detached" /\ T[j].kind = "note" => j < i

\* What is sent to the client, what may be queued for it, and the owner's side
Text == {m \in Message : m.kind \in {"output", "pause", "continue"} => m.pane \in Panes}
Fresh == {m \in Text : ~m.extended /\ m.kind # "exit"}
Queued == [m : Fresh, age : 0..2]
Control == [off : SUBSET Panes, paused : SUBSET Panes, aging : BOOLEAN, muted : BOOLEAN,
            pending : Seq(Queued), cost : Int, closing : BOOLEAN]
Side == [live : BOOLEAN, ctl : Control, chan : Seq(Text), bytes : Int]

\* What the claims relate it to: what the client has read and believes, and
\* what was made and sent
Account == [read : Nat, told : SUBSET Panes, last : [Panes -> Nat],
            made : [Panes -> Nat], since : [Panes -> Nat], sent : Nat]

\* What is on its way to the client, in order
Texts(list) == [i \in DOMAIN list |-> list[i].m]
Way(o) == o.chan \o Texts(o.ctl.pending)

\* No message of these kinds is in T.
Without(T, kinds) == \A i \in DOMAIN T : T[i].kind \notin kinds

\* The claims on o, one by one.  C: the client is to go; D: panes whose state
\* has changed and of which the client will be told next.

\* The counters are exact, the queue leaves room in the budget for the channel,
\* and nothing that ends a client has been sent to one that is here.
Counted(o) ==
  /\ o.bytes = Total(o.chan) /\ Len(o.chan) <= ChannelCap
  /\ ~o.live => o.ctl = NewControl
  /\ o.live => /\ o.ctl.cost = Len(o.ctl.pending)
               /\ o.ctl.cost + Len(o.chan) <= ByteLimit
               /\ Without(o.chan, {"exit", "detached"})

\* The notes the client has not read are on their way, in order, as long as it
\* is here or is going to read that it is detached.
Ordered(o, e) ==
  o.live \/ ~Without(o.chan, {"detached"})
    => Numbered(Way(o), NotesIn(Way(o)), e.read + 1 .. e.sent) /\ NotesFirst(Way(o))

\* What tells the client to go is on its way only if it is to go.
Parted(o, C) ==
  /\ Without(Way(o), {"detached"}) \/ C
  /\ o.live => o.ctl.closing = C

\* Outputs are in order, and those of a pane the client hears are all there.
Hears(o, e) ==
  o.live => \A p \in Panes :
              /\ Heard(Way(o), p, e.last[p], e.made[p])
              /\ Audible(o.ctl, p) => Whole(Way(o), p, e.last[p], e.since[p], e.made[p])

\* Output is queued only of panes the client hears.
Queues(o, D) ==
  \A i \in DOMAIN o.ctl.pending :
    o.ctl.pending[i].m.kind = "output" => /\ Audible(o.ctl, o.ctl.pending[i].m.pane)
                                          /\ o.ctl.pending[i].m.pane \notin D

\* The client is told what is paused; of the panes in D it still believes the
\* opposite.
Speaks(o, e, D, C) ==
  o.live /\ ~C => \A p \in Panes : Voice(Way(o), e.told, p, (p \in o.ctl.paused) # (p \in D))

Sound(o, D, C, e) ==
  /\ Counted(o) /\ Ordered(o, e) /\ Parted(o, C)
  /\ Hears(o, e) /\ Queues(o, D) /\ Speaks(o, e, D, C)

\* The account of the state; a client that is gone is to go
TheAccount == [read |-> view.read, told |-> view.paused, last |-> view.last,
               made |-> made, since |-> since, sent |-> sent]

Going == ~live \/ ctl.closing

\* The types of the variables
Typed ==
  /\ Now \in Side /\ TheAccount \in Account
  /\ peer \in {"open", "gone"} /\ owner \in {"running", "panicked"}
  /\ made \in [Panes -> 0..MaxOutput] /\ since \in [Panes -> 0..MaxOutput]
  /\ sent \in 0..MaxNotes
  /\ view \in [read : Nat, paused : SUBSET Panes, last : [Panes -> Nat], told : BOOLEAN]

\* What the client has read is not more than there was.
Read ==
  /\ live \/ ~Without(chan, {"detached"}) => view.read <= sent
  /\ live => \A p \in Panes : view.last[p] <= made[p]
  /\ view.told => ~live /\ peer = "gone" /\ view.read = sent

IInv == Typed /\ Read /\ Sound(Now, {}, Going, TheAccount)

-----------------------------------------------------------------------------
(* The same list, and a list without some output                           *)

\* The same messages, whether escaped or not
SameText(T, U) ==
  /\ Len(U) = Len(T)
  /\ \A i \in 1..Len(T) :
       U[i].kind = T[i].kind /\ U[i].pane = T[i].pane /\ U[i].n = T[i].n

\* U is T without some output of the panes in D.
Thinned(T, U, D) ==
  \E at \in [1..Len(U) -> 1..Len(T)] :
    /\ \A k \in 1..Len(U) : U[k] = T[at[k]]
    /\ \A j, k \in 1..Len(U) : j < k => at[j] < at[k]
    /\ \A i \in 1..Len(T) : \/ T[i].kind = "output" /\ T[i].pane \in D
                            \/ \E k \in 1..Len(U) : at[k] = i

\* What a message is
LEMMA MessageFields ==
  ASSUME NEW m \in Message
  PROVE  /\ m.kind \in {"output", "note", "pause", "continue", "detached", "exit"}
         /\ m.n \in Nat /\ m.extended \in BOOLEAN /\ m.pane \in Panes \union {0}
BY DEF Message

\* Escaping changes nothing of what a list says: of its notes,
LEMMA SameNotes ==
  ASSUME NEW T \in Seq(Message), NEW U \in Seq(Message), SameText(T, U), NEW S,
         Numbered(T, NotesIn(T), S)
  PROVE  Numbered(U, NotesIn(U), S)
<1>1. NotesIn(U) = NotesIn(T) /\ \A i \in NotesIn(T) : U[i].n = T[i].n
  BY DEF SameText, NotesIn
<1> QED BY <1>1 DEF Numbered

\* of its outputs,
LEMMA SameHeard ==
  ASSUME NEW T \in Seq(Message), NEW U \in Seq(Message), SameText(T, U), NEW p,
         NEW l, NEW m, NEW s
  PROVE  /\ Heard(T, p, l, m) => Heard(U, p, l, m)
         /\ Whole(T, p, l, s, m) => Whole(U, p, l, s, m)
<1>1. OutputsOf(U, p) = OutputsOf(T, p) /\ \A i \in OutputsOf(T, p) : U[i].n = T[i].n
  BY DEF SameText, OutputsOf
<1>2. Heard(T, p, l, m) => Heard(U, p, l, m)
  BY <1>1 DEF Heard
<1>3. Whole(T, p, l, s, m) => Whole(U, p, l, s, m)
  BY <1>1 DEF Whole
<1> QED BY <1>2, <1>3

\* of the pauses,
LEMMA SameVoice ==
  ASSUME NEW T \in Seq(Message), NEW U \in Seq(Message), SameText(T, U), NEW p,
         NEW told, NEW K, Voice(T, told, p, K)
  PROVE  Voice(U, told, p, K)
<1>1. DOMAIN U = DOMAIN T /\ Len(U) = Len(T)
      /\ \A i \in DOMAIN T : U[i].kind = T[i].kind /\ U[i].pane = T[i].pane
  BY DEF SameText
<1>2. \A i : Marks(U, p, i) = Marks(T, p, i)
  BY <1>1 DEF Marks
<1>3. \A i : \A j \in Marks(T, p, i) : U[j].kind = T[j].kind
  BY <1>1 DEF Marks
<1>4. \A i : Believes(U, told, p, i) <=> Believes(T, told, p, i)
  BY <1>2, <1>3 DEF Believes
<1> QED BY <1>1, <1>4 DEF Voice

\* and of what comes last.
LEMMA SameNotesFirst ==
  ASSUME NEW T \in Seq(Message), NEW U \in Seq(Message), SameText(T, U), NotesFirst(T)
  PROVE  NotesFirst(U)
BY DEF SameText, NotesFirst
\* Nor does leaving out output of the panes in D: of the notes,
LEMMA ThinnedNotes ==
  ASSUME NEW T \in Seq(Message), NEW U \in Seq(Message), NEW D, Thinned(T, U, D), NEW S,
         Numbered(T, NotesIn(T), S)
  PROVE  Numbered(U, NotesIn(U), S)
<1>1. PICK at \in [1..Len(U) -> 1..Len(T)] :
    /\ \A k \in 1..Len(U) : U[k] = T[at[k]]
    /\ \A j, k \in 1..Len(U) : j < k => at[j] < at[k]
    /\ \A i \in 1..Len(T) : \/ T[i].kind = "output" /\ T[i].pane \in D
                            \/ \E k \in 1..Len(U) : at[k] = i
  BY DEF Thinned
<1>2. \A k \in NotesIn(U) : k \in 1..Len(U) /\ at[k] \in NotesIn(T) /\ U[k].n = T[at[k]].n
  BY <1>1 DEF NotesIn
<1>3. \A i \in NotesIn(T) : \E k \in NotesIn(U) : at[k] = i
  BY <1>1 DEF NotesIn
<1>4. {U[k].n : k \in NotesIn(U)} = {T[i].n : i \in NotesIn(T)}
  BY <1>2, <1>3
<1>5. ASSUME NEW j \in NotesIn(U), NEW k \in NotesIn(U), j < k PROVE U[j].n < U[k].n
  <2>1. at[j] < at[k]
    BY <1>1, <1>2, <1>5
  <2> QED BY <1>2, <2>1 DEF Numbered
<1> QED BY <1>4, <1>5 DEF Numbered

\* of the outputs of other panes,
LEMMA ThinnedHeard ==
  ASSUME NEW T \in Seq(Message), NEW U \in Seq(Message), NEW D, Thinned(T, U, D), NEW p,
         NEW l, NEW m, NEW s
  PROVE  /\ Heard(T, p, l, m) => Heard(U, p, l, m)
         /\ p \notin D /\ Whole(T, p, l, s, m) => Whole(U, p, l, s, m)
<1>1. PICK at \in [1..Len(U) -> 1..Len(T)] :
    /\ \A k \in 1..Len(U) : U[k] = T[at[k]]
    /\ \A j, k \in 1..Len(U) : j < k => at[j] < at[k]
    /\ \A i \in 1..Len(T) : \/ T[i].kind = "output" /\ T[i].pane \in D
                            \/ \E k \in 1..Len(U) : at[k] = i
  BY DEF Thinned
<1>2. \A k \in OutputsOf(U, p) : k \in 1..Len(U) /\ at[k] \in OutputsOf(T, p) /\ U[k].n = T[at[k]].n
  BY <1>1 DEF OutputsOf
<1>3. ASSUME p \notin D, NEW i \in OutputsOf(T, p) PROVE \E k \in OutputsOf(U, p) : at[k] = i
  <2>1. i \in 1..Len(T) /\ T[i].kind = "output" /\ T[i].pane = p
    BY DEF OutputsOf
  <2>2. PICK k \in 1..Len(U) : at[k] = i
    BY <1>1, <1>3, <2>1
  <2>3. U[k] = T[i] /\ k \in DOMAIN U
    BY <1>1, <2>2
  <2> QED BY <2>1, <2>2, <2>3 DEF OutputsOf
<1>4. ASSUME Heard(T, p, l, m) PROVE Heard(U, p, l, m)
  <2>1. ASSUME NEW j \in OutputsOf(U, p), NEW k \in OutputsOf(U, p), j < k PROVE U[j].n < U[k].n
    <3>1. at[j] < at[k]
      BY <1>1, <1>2, <2>1
    <3> QED BY <1>2, <1>4, <3>1 DEF Heard
  <2>2. \A i \in OutputsOf(U, p) : l < U[i].n /\ U[i].n <= m
    BY <1>2, <1>4 DEF Heard
  <2> QED BY <2>1, <2>2 DEF Heard
<1>5. ASSUME p \notin D, Whole(T, p, l, s, m) PROVE Whole(U, p, l, s, m)
  BY <1>2, <1>3, <1>5 DEF Whole
<1> QED BY <1>4, <1>5

\* of the pauses,
LEMMA ThinnedVoice ==
  ASSUME NEW T \in Seq(Message), NEW U \in Seq(Message), NEW D, Thinned(T, U, D), NEW p,
         NEW told, NEW K, Voice(T, told, p, K)
  PROVE  Voice(U, told, p, K)
<1>1. PICK at \in [1..Len(U) -> 1..Len(T)] :
    /\ \A k \in 1..Len(U) : U[k] = T[at[k]]
    /\ \A j, k \in 1..Len(U) : j < k => at[j] < at[k]
    /\ \A i \in 1..Len(T) : \/ T[i].kind = "output" /\ T[i].pane \in D
                            \/ \E k \in 1..Len(U) : at[k] = i
  BY DEF Thinned
<1> DEFINE markT == {j \in DOMAIN T : T[j].pane = p /\ T[j].kind \in {"pause", "continue"}}
           markU == {j \in DOMAIN U : U[j].pane = p /\ U[j].kind \in {"pause", "continue"}}
<1>2. \A k \in markU : k \in 1..Len(U) /\ at[k] \in markT /\ U[k].kind = T[at[k]].kind
  BY <1>1
<1>3. \A i \in markT : \E k \in markU : at[k] = i
  BY <1>1, SMTT(60)
<1>4. Len(U) \in Nat /\ Len(T) \in Nat /\ markU \subseteq Int /\ markT \subseteq Int
      /\ \A k \in 1..Len(U) : at[k] \in 1..Len(T)
  BY <1>1, SMTT(60)
<1>5. /\ \A i : Marks(T, p, i) = {j \in markT : j <= i}
      /\ \A i : Marks(U, p, i) = {j \in markU : j <= i}
  BY DEF Marks
<1> HIDE DEF markT, markU
<1>6. ASSUME NEW i \in Int, NEW k \in Int,
             \A j \in markU : j <= k <=> at[j] <= i
      PROVE  Believes(U, told, p, k) <=> Believes(T, told, p, i)
  <2>1. \A j \in Marks(U, p, k) : at[j] \in Marks(T, p, i) /\ U[j].kind = T[at[j]].kind
    BY <1>2, <1>5, <1>6
  <2>2. \A x \in Marks(T, p, i) : \E j \in Marks(U, p, k) : at[j] = x
    BY <1>3, <1>5, <1>6
  <2>3. Marks(U, p, k) = {} <=> Marks(T, p, i) = {}
    BY <2>1, <2>2
  <2>4. \A j, x \in Marks(U, p, k) : x <= j <=> at[x] <= at[j]
    <3>1. ASSUME NEW j \in markU, NEW x \in markU PROVE x <= j <=> at[x] <= at[j]
      <4>1. j \in 1..Len(U) /\ x \in 1..Len(U) /\ at[j] \in Int /\ at[x] \in Int
        BY <1>2, <1>4
      <4> QED BY <1>1, <4>1
    <3> QED BY <3>1, <1>5
  <2>5. (\E j \in Marks(U, p, k) : U[j].kind = "pause" /\ \A x \in Marks(U, p, k) : x <= j)
        <=> (\E j \in Marks(T, p, i) : T[j].kind = "pause" /\ \A x \in Marks(T, p, i) : x <= j)
    BY <2>1, <2>2, <2>4, SMTT(60)
  <2> QED BY <2>3, <2>5 DEF Believes
<1>7. Believes(U, told, p, Len(U)) <=> Believes(T, told, p, Len(T))
  <2>1. ASSUME NEW j \in markU PROVE j <= Len(U) <=> at[j] <= Len(T)
    <3>1. j \in 1..Len(U) /\ at[j] \in 1..Len(T)
      BY <1>2, <1>4
    <3> QED BY <1>4, <3>1
  <2>2. Len(U) \in Int /\ Len(T) \in Int
    BY <1>4
  <2> QED BY <1>6, <2>1, <2>2
<1>8. ASSUME NEW k \in DOMAIN U
      PROVE  Believes(U, told, p, k - 1) <=> Believes(T, told, p, at[k] - 1)
  <2>1. k \in 1..Len(U) /\ at[k] \in 1..Len(T)
    BY <1>1
  <2>2. ASSUME NEW j \in markU PROVE j <= k - 1 <=> at[j] <= at[k] - 1
    <3>1. j \in 1..Len(U) /\ at[j] \in Int
      BY <1>2, <1>4
    <3> QED BY <1>1, <2>1, <3>1
  <2> DEFINE x == at[k] - 1
             y == k - 1
  <2>3. x \in Int /\ y \in Int
    BY <2>1
  <2>4. \A j \in markU : j <= y <=> at[j] <= x
    BY <2>2
  <2> HIDE DEF x, y
  <2>5. Believes(U, told, p, y) <=> Believes(T, told, p, x)
    BY <1>6, <2>3, <2>4
  <2> QED BY <2>5 DEF x, y
<1>9. ASSUME NEW k \in DOMAIN U, U[k].pane = p
      PROVE  /\ U[k].kind \in {"output", "pause"} => ~Believes(U, told, p, k - 1)
             /\ U[k].kind = "continue" => Believes(U, told, p, k - 1)
  <2>1. at[k] \in DOMAIN T /\ U[k] = T[at[k]]
    BY <1>1
  <2> QED BY <1>8, <1>9, <2>1 DEF Voice
<1> QED BY <1>7, <1>9 DEF Voice

\* and of what comes last.
LEMMA ThinnedNotesFirst ==
  ASSUME NEW T \in Seq(Message), NEW U \in Seq(Message), NEW D, Thinned(T, U, D), NotesFirst(T)
  PROVE  NotesFirst(U)
<1>1. PICK at \in [1..Len(U) -> 1..Len(T)] :
    /\ \A k \in 1..Len(U) : U[k] = T[at[k]]
    /\ \A j, k \in 1..Len(U) : j < k => at[j] < at[k]
    /\ \A i \in 1..Len(T) : \/ T[i].kind = "output" /\ T[i].pane \in D
                            \/ \E k \in 1..Len(U) : at[k] = i
  BY DEF Thinned
<1> SUFFICES ASSUME NEW i \in 1..Len(U), NEW j \in 1..Len(U),
                    U[i].kind = "detached", U[j].kind = "note"
             PROVE  j < i
  BY DEF NotesFirst
<1>2. at[j] < at[i]
  <2>1. at[i] \in DOMAIN T /\ at[j] \in DOMAIN T /\ T[at[i]] = U[i] /\ T[at[j]] = U[j]
    BY <1>1, SMTT(60)
  <2>2. T[at[i]].kind = "detached" /\ T[at[j]].kind = "note"
    BY <2>1
  <2> QED BY <2>1, <2>2 DEF NotesFirst
<1>3. i # j
  OBVIOUS
<1>4. ~ (i < j)
  BY <1>1, <1>2
<1> QED BY <1>3, <1>4

-----------------------------------------------------------------------------
(* What is counted of a list (message_bytes)                               *)

\* The sums that Total takes
Sums(list, f) ==
  /\ f[0] = 0
  /\ \A i \in 1..Len(list) : f[i] = f[i - 1] + Paid(list[i])

\* The sums exist, and Total is the last one.
LEMMA TotalSums ==
  ASSUME NEW list, Len(list) \in Nat
  PROVE  \E f : Sums(list, f) /\ Total(list) = f[Len(list)]
<1> DEFINE Trace(f, n) == f = [i \in 0..n |-> IF i = 0 THEN 0 ELSE f[i - 1] + Paid(list[i])]
           Bad == {n \in Nat : ~ \E f : Trace(f, n)}
<1>1. Bad = {}
  <2>1. SUFFICES ASSUME Bad # {} PROVE FALSE
    OBVIOUS
  <2>2. PICK n \in Bad : \A m \in Bad : n <= m
    <3>1. Bad \subseteq Nat
      OBVIOUS
    <3> HIDE DEF Bad
    <3> QED BY <2>1, <3>1, LeastOf
  <2>3. n \in Nat /\ ~ \E f : Trace(f, n)
    OBVIOUS
  <2>4. CASE n = 0
    <3>1. Trace([i \in 0..0 |-> 0], 0)
      OBVIOUS
    <3> QED BY <2>3, <2>4, <3>1
  <2>5. CASE n # 0
    <3>1. n - 1 \in Nat /\ n - 1 \notin Bad
      <4> HIDE DEF Bad
      <4> QED BY <2>2, <2>3, <2>5
    <3>2. PICK f : Trace(f, n - 1)
      BY <3>1
    <3> HIDE DEF Bad
    <3> DEFINE g == [i \in 0..n |-> IF i = n THEN f[n - 1] + Paid(list[n]) ELSE f[i]]
    <3>3. \A i \in 0..n : g[i] = IF i = n THEN f[n - 1] + Paid(list[n]) ELSE f[i]
      OBVIOUS
    <3>4. \A i \in 0..(n - 1) : f[i] = IF i = 0 THEN 0 ELSE f[i - 1] + Paid(list[i])
      BY <3>2
    <3>5. g = [i \in 0..n |-> g[i]]
      OBVIOUS
    <3> HIDE DEF g
    <3>6. ASSUME NEW i \in 0..n PROVE g[i] = IF i = 0 THEN 0 ELSE g[i - 1] + Paid(list[i])
      <4>1. CASE i = n
        <5>1. g[n - 1] = f[n - 1]
          BY <3>3, <2>3, <2>5
        <5> QED BY <3>3, <4>1, <5>1, <2>3, <2>5
      <4>2. CASE i # n
        <5>1. i \in 0..(n - 1) /\ g[i] = f[i]
          BY <3>3, <4>2, <2>3
        <5>2. i # 0 => g[i - 1] = f[i - 1]
          BY <3>3, <5>1, <2>3
        <5> QED BY <3>4, <5>1, <5>2
      <4> QED BY <4>1, <4>2
    <3>7. Trace(g, n)
      BY <3>5, <3>6
    <3> QED BY <2>3, <3>7
  <2> QED BY <2>4, <2>5
<1> DEFINE sum == CHOOSE f : Trace(f, Len(list))
<1>2. Trace(sum, Len(list))
  <2>1. \E f : Trace(f, Len(list))
    BY <1>1
  <2> HIDE DEF Trace
  <2> QED BY <2>1
<1>3. Total(list) = sum[Len(list)]
  BY DEF Total
<1> HIDE DEF sum
<1>4. Sums(list, sum)
  BY <1>2 DEF Sums
<1> QED BY <1>3, <1>4

\* What one message costs
LEMMA PaidBounds ==
  ASSUME NEW m \in Message
  PROVE  Paid(m) \in Nat /\ Paid(m) <= 2 /\ (m.kind # "exit" => Paid(m) >= 1)
         /\ (m.kind # "exit" => Paid(m) = Cost(m))
BY DEF Paid, Cost

\* Each sum is a number between the messages that are paid and twice as much.
LEMMA SumBounds ==
  ASSUME NEW list \in Seq(Message), NEW f, Sums(list, f)
  PROVE  \A i \in 0..Len(list) :
           /\ f[i] \in Nat /\ f[i] <= 2 * i
           /\ (\A j \in DOMAIN list : list[j].kind # "exit") => i <= f[i]
<1> DEFINE Fine(i) == /\ f[i] \in Nat /\ f[i] <= 2 * i
                      /\ (\A j \in DOMAIN list : list[j].kind # "exit") => i <= f[i]
           Bad == {i \in 0..Len(list) : ~ Fine(i)}
<1>1. SUFFICES ASSUME Bad # {} PROVE FALSE
  OBVIOUS
<1>2. PICK n \in Bad : \A m \in Bad : n <= m
  <2>1. Bad \subseteq Nat
    OBVIOUS
  <2> HIDE DEF Bad
  <2> QED BY <1>1, <2>1, LeastOf
<1>3. n \in 0..Len(list) /\ ~ Fine(n) /\ Len(list) \in Nat
  OBVIOUS
<1>4. CASE n = 0
  <2>1. f[0] = 0
    BY DEF Sums
  <2> QED BY <1>3, <1>4, <2>1
<1>5. CASE n # 0
  <2>1. n \in 1..Len(list) /\ n - 1 \in 0..Len(list) /\ n - 1 \notin Bad
    <3> HIDE DEF Bad
    <3> QED BY <1>2, <1>3, <1>5
  <2>2. Fine(n - 1)
    BY <2>1
  <2>3. f[n] = f[n - 1] + Paid(list[n])
    BY <2>1 DEF Sums
  <2>4. list[n] \in Message /\ n \in DOMAIN list
    BY <2>1
  <2>5. Paid(list[n]) \in Nat /\ Paid(list[n]) <= 2
        /\ (list[n].kind # "exit" => Paid(list[n]) >= 1)
    BY <2>4, PaidBounds
  <2> HIDE DEF Bad
  <2>6. f[n] \in Nat /\ f[n] <= 2 * n
    BY <2>1, <2>2, <2>3, <2>5, SMTT(60)
  <2>7. (\A j \in DOMAIN list : list[j].kind # "exit") => n <= f[n]
    BY <2>1, <2>2, <2>3, <2>4, <2>5
  <2> QED BY <1>3, <2>6, <2>7
<1> QED BY <1>4, <1>5

\* The total is a number between the messages that are paid and twice as much.
LEMMA TotalBounds ==
  ASSUME NEW list \in Seq(Message)
  PROVE  /\ Total(list) \in Nat /\ Total(list) <= 2 * Len(list)
         /\ (\A j \in DOMAIN list : list[j].kind # "exit") => Len(list) <= Total(list)
<1>1. Len(list) \in Nat /\ Len(list) \in 0..Len(list)
  OBVIOUS
<1>2. PICK f : Sums(list, f) /\ Total(list) = f[Len(list)]
  BY <1>1, TotalSums
<1> QED BY <1>1, <1>2, SumBounds

\* Nothing costs nothing.
LEMMA TotalEmpty == Total(<<>>) = 0
<1>1. Len(<<>>) = 0
  OBVIOUS
<1>2. PICK f : Sums(<<>>, f) /\ Total(<<>>) = f[0]
  BY <1>1, TotalSums
<1> QED BY <1>2 DEF Sums

\* What one message more adds to the total
LEMMA TotalAppend ==
  ASSUME NEW list \in Seq(Message), NEW m \in Message
  PROVE  Total(Append(list, m)) = Total(list) + Paid(m)
<1> DEFINE more == Append(list, m)
           n == Len(list)
<1>1. n \in Nat /\ Len(more) = n + 1 /\ more[n + 1] = m /\ \A i \in 1..n : more[i] = list[i]
  OBVIOUS
<1>2. PICK f : Sums(list, f) /\ Total(list) = f[n]
  BY <1>1, TotalSums
<1>3. PICK g : Sums(more, g) /\ Total(more) = g[n + 1]
  <2> HIDE DEF more
  <2>1. Len(more) \in Nat
    BY <1>1
  <2>2. PICK g : Sums(more, g) /\ Total(more) = g[Len(more)]
    BY <2>1, TotalSums
  <2> QED BY <1>1, <2>2
<1> HIDE DEF more, n
<1> DEFINE Bad == {i \in 0..n : f[i] # g[i]}
<1>4. Bad = {}
  <2>1. SUFFICES ASSUME Bad # {} PROVE FALSE
    OBVIOUS
  <2>2. PICK k \in Bad : \A j \in Bad : k <= j
    <3>1. Bad \subseteq Nat
      BY <1>1
    <3> HIDE DEF Bad
    <3> QED BY <2>1, <3>1, LeastOf
  <2>3. k \in 0..n /\ f[k] # g[k]
    OBVIOUS
  <2>4. k # 0
    BY <1>2, <1>3, <2>3 DEF Sums
  <2>5. k \in 1..n /\ k - 1 \in 0..n /\ k - 1 \notin Bad
    <3> HIDE DEF Bad
    <3> QED BY <1>1, <2>2, <2>3, <2>4
  <2>6. f[k - 1] = g[k - 1]
    BY <2>5
  <2>7. f[k] = f[k - 1] + Paid(list[k])
    BY <1>2, <2>5 DEF Sums, n
  <2>8. g[k] = g[k - 1] + Paid(more[k]) /\ more[k] = list[k]
    BY <1>1, <1>3, <2>5 DEF Sums
  <2> QED BY <2>3, <2>6, <2>7, <2>8
<1>5. f[n] = g[n]
  BY <1>1, <1>4
<1>6. g[n + 1] = g[n] + Paid(m)
  <2>1. n + 1 \in 1..Len(more) /\ (n + 1) - 1 = n
    BY <1>1
  <2>2. g[n + 1] = g[(n + 1) - 1] + Paid(more[n + 1])
    BY <1>3, <2>1 DEF Sums
  <2> QED BY <1>1, <2>1, <2>2
<1> QED BY <1>2, <1>3, <1>5, <1>6 DEF more

\* What the total loses with the first message
LEMMA TotalTail ==
  ASSUME NEW list \in Seq(Message), list # <<>>
  PROVE  Total(Tail(list)) = Total(list) - Paid(Head(list))
<1> DEFINE less == Tail(list)
           n == Len(less)
           first == Paid(list[1])
<1>1. n \in Nat /\ Len(list) = n + 1 /\ \A i \in 1..n : less[i] = list[i + 1]
  OBVIOUS
<1>2. PICK g : Sums(list, g) /\ Total(list) = g[n + 1]
  BY <1>1, TotalSums
<1>3. PICK f : Sums(less, f) /\ Total(less) = f[n]
  BY <1>1, TotalSums
<1>4. \A i \in 0..n : f[i] \in Int
  <2>1. less \in Seq(Message)
    OBVIOUS
  <2>2. \A i \in 0..Len(less) : f[i] \in Nat
    <3> HIDE DEF less
    <3> QED BY <1>3, <2>1, SumBounds
  <2> QED BY <2>2
<1>5. \A i \in 0..(n + 1) : g[i] \in Int
  BY <1>1, <1>2, SumBounds
<1>6. first \in Int
  BY PaidBounds
<1> HIDE DEF less, n, first
<1>7. g[1] = first
  <2>1. 1 \in 1..Len(list) /\ 1 - 1 = 0
    BY <1>1
  <2>2. g[1] = g[1 - 1] + Paid(list[1]) /\ g[0] = 0
    BY <1>2, <2>1 DEF Sums
  <2> QED BY <1>6, <2>1, <2>2 DEF first
<1> DEFINE Bad == {i \in 0..n : g[i + 1] # f[i] + first}
<1>8. Bad = {}
  <2>1. SUFFICES ASSUME Bad # {} PROVE FALSE
    OBVIOUS
  <2>2. PICK k \in Bad : \A j \in Bad : k <= j
    <3>1. Bad \subseteq Nat
      BY <1>1
    <3> HIDE DEF Bad
    <3> QED BY <2>1, <3>1, LeastOf
  <2>3. k \in 0..n /\ g[k + 1] # f[k] + first
    OBVIOUS
  <2>4. k # 0
    <3>1. f[0] = 0
      BY <1>3 DEF Sums
    <3> QED BY <1>6, <1>7, <2>3, <3>1
  <2>5. k \in 1..n /\ k - 1 \in 0..n /\ k - 1 \notin Bad
    <3> HIDE DEF Bad
    <3> QED BY <1>1, <2>2, <2>3, <2>4
  <2>6. g[k] = f[k - 1] + first
    <3>1. g[(k - 1) + 1] = f[k - 1] + first /\ (k - 1) + 1 = k
      BY <2>5
    <3> QED BY <3>1
  <2>7. f[k] = f[k - 1] + Paid(less[k])
    BY <1>3, <2>5 DEF Sums, n
  <2>8. g[k + 1] = g[k] + Paid(less[k])
    <3>1. k + 1 \in 1..Len(list) /\ (k + 1) - 1 = k
      BY <1>1, <2>5
    <3>2. g[k + 1] = g[(k + 1) - 1] + Paid(list[k + 1])
      BY <1>2, <3>1 DEF Sums
    <3> QED BY <1>1, <2>5, <3>1, <3>2
  <2>9. Paid(less[k]) \in Int
    <3>1. less[k] \in Message
      BY <2>5 DEF less, n
    <3> QED BY <3>1, PaidBounds
  <2> HIDE DEF Bad
  <2>10. f[k - 1] \in Int
    BY <1>4, <2>5
  <2> QED BY <1>6, <2>3, <2>6, <2>7, <2>8, <2>9, <2>10
<1>9. g[n + 1] = f[n] + first
  BY <1>1, <1>8
<1>10. f[n] \in Int
  BY <1>1, <1>4
<1>11. Head(list) = list[1]
  OBVIOUS
<1> QED BY <1>2, <1>3, <1>6, <1>9, <1>10, <1>11 DEF less, first

-----------------------------------------------------------------------------
(* A message at the end of a list                                          *)

\* T with m behind it
LEMMA AppendPlaces ==
  ASSUME NEW T \in Seq(Message), NEW m \in Message
  PROVE  /\ Append(T, m) \in Seq(Message) /\ Len(T) \in Nat
         /\ Len(Append(T, m)) = Len(T) + 1
         /\ DOMAIN Append(T, m) = 1..(Len(T) + 1) /\ DOMAIN T = 1..Len(T)
         /\ Append(T, m)[Len(T) + 1] = m
         /\ \A i \in 1..Len(T) : Append(T, m)[i] = T[i]
OBVIOUS

\* What is not a note adds none,
LEMMA AppendNotes ==
  ASSUME NEW T \in Seq(Message), NEW m \in Message, m.kind # "note", NEW S,
         Numbered(T, NotesIn(T), S)
  PROVE  Numbered(Append(T, m), NotesIn(Append(T, m)), S)
<1> DEFINE U == Append(T, m)
<1>1. /\ U \in Seq(Message) /\ Len(T) \in Nat
      /\ DOMAIN U = 1..(Len(T) + 1) /\ DOMAIN T = 1..Len(T)
      /\ U[Len(T) + 1] = m
      /\ \A i \in 1..Len(T) : U[i] = T[i]
  BY AppendPlaces
<1> HIDE DEF U
<1>2. NotesIn(U) = NotesIn(T) /\ \A i \in NotesIn(T) : U[i].n = T[i].n
  BY <1>1 DEF NotesIn
<1>3. Numbered(U, NotesIn(U), S)
  BY <1>2 DEF Numbered
<1> QED BY <1>3 DEF U

\* and the note that comes next takes the next number.
LEMMA AppendNote ==
  ASSUME NEW T \in Seq(Message), NEW m \in Message, m.kind = "note",
         NEW r \in Nat, NEW n \in Nat, r <= n, m.n = n + 1,
         Numbered(T, NotesIn(T), r + 1 .. n)
  PROVE  Numbered(Append(T, m), NotesIn(Append(T, m)), r + 1 .. n + 1)
<1> DEFINE U == Append(T, m)
           k == Len(T) + 1
<1>1. /\ U \in Seq(Message) /\ Len(T) \in Nat
      /\ DOMAIN U = 1..k /\ DOMAIN T = 1..Len(T)
      /\ U[k] = m
      /\ \A i \in 1..Len(T) : U[i] = T[i]
  BY AppendPlaces
<1>2. k \in Nat /\ k >= 1 /\ \A i \in 1..Len(T) : i < k /\ i \in 1..k
  BY <1>1
<1>3. \A i \in 1..k : i \in 1..Len(T) \/ i = k
  BY <1>1
<1> HIDE DEF U, k
<1>4. NotesIn(U) = NotesIn(T) \union {k} /\ \A i \in NotesIn(T) : U[i].n = T[i].n /\ i < k
  <2>1. k \in 1..k /\ \A i \in 1..Len(T) : i \in 1..k
    BY <1>2
  <2> QED BY <1>1, <1>2, <1>3, <2>1 DEF NotesIn
<1>5. {U[i].n : i \in NotesIn(U)} = {T[i].n : i \in NotesIn(T)} \union {n + 1}
  BY <1>1, <1>4
<1>6. {T[i].n : i \in NotesIn(T)} = r + 1 .. n
  BY DEF Numbered
<1>7. {U[i].n : i \in NotesIn(U)} = r + 1 .. n + 1
  <2>1. (r + 1 .. n) \union {n + 1} = r + 1 .. n + 1
    OBVIOUS
  <2> QED BY ONLY <1>5, <1>6, <2>1
<1>8. \A i \in NotesIn(T) : T[i].n < n + 1
  BY <1>6
<1>9. ASSUME NEW i \in NotesIn(U), NEW j \in NotesIn(U), i < j PROVE U[i].n < U[j].n
  <2>1. i \in NotesIn(T)
    <3>1. i # k
      <4>1. j \in Nat /\ j <= k
        BY <1>1, <1>2 DEF NotesIn
      <4> QED BY <1>2, <1>9, <4>1
    <3> QED BY <1>4, <3>1
  <2>2. CASE j = k
    BY <1>1, <1>4, <1>8, <2>1, <2>2
  <2>3. CASE j # k
    <3>1. j \in NotesIn(T)
      BY <1>4, <2>3
    <3> QED BY <1>4, <1>9, <2>1, <3>1 DEF Numbered
  <2> QED BY <2>2, <2>3
<1>10. Numbered(U, NotesIn(U), r + 1 .. n + 1)
  BY <1>7, <1>9 DEF Numbered
<1> QED BY <1>10 DEF U

\* A note may follow as long as the client has not been told to go.
LEMMA AppendNotesFirst ==
  ASSUME NEW T \in Seq(Message), NEW m \in Message, NotesFirst(T),
         m.kind # "note" \/ \A i \in DOMAIN T : T[i].kind # "detached"
  PROVE  NotesFirst(Append(T, m))
<1> DEFINE U == Append(T, m)
           k == Len(T) + 1
<1>1. /\ U \in Seq(Message) /\ Len(T) \in Nat
      /\ DOMAIN U = 1..k /\ DOMAIN T = 1..Len(T)
      /\ U[k] = m
      /\ \A i \in 1..Len(T) : U[i] = T[i]
  BY AppendPlaces
<1>2. k \in Nat /\ k >= 1 /\ \A i \in 1..Len(T) : i < k /\ i \in 1..k
  BY <1>1
<1>3. \A i \in 1..k : i \in 1..Len(T) \/ i = k
  BY <1>1
<1> HIDE DEF U, k
<1>4. ASSUME NEW i \in DOMAIN U, NEW j \in DOMAIN U, U[i].kind = "detached", U[j].kind = "note"
      PROVE  j < i
  <2>1. CASE i = k
    <3>1. j # k
      BY <1>1, <1>4, <2>1
    <3> QED BY <1>1, <1>2, <1>3, <2>1, <3>1
  <2>2. CASE i # k
    <3>1. i \in DOMAIN T /\ T[i].kind = "detached"
      BY <1>1, <1>3, <1>4, <2>2
    <3>2. j \in DOMAIN T
      BY <1>1, <1>3, <1>4, <3>1
    <3>3. T[j].kind = "note"
      BY <1>1, <1>4, <3>2
    <3> QED BY <3>1, <3>2, <3>3 DEF NotesFirst
  <2> QED BY <2>1, <2>2
<1>5. NotesFirst(U)
  BY <1>4 DEF NotesFirst
<1> QED BY <1>5 DEF U

\* What is not output of p leaves what p says alone,
LEMMA AppendHeard ==
  ASSUME NEW T \in Seq(Message), NEW m \in Message, NEW p,
         m.kind # "output" \/ m.pane # p, NEW l, NEW d, NEW s
  PROVE  /\ Heard(T, p, l, d) => Heard(Append(T, m), p, l, d)
         /\ Whole(T, p, l, s, d) => Whole(Append(T, m), p, l, s, d)
<1> DEFINE U == Append(T, m)
<1>1. /\ U \in Seq(Message) /\ Len(T) \in Nat
      /\ DOMAIN U = 1..(Len(T) + 1) /\ DOMAIN T = 1..Len(T)
      /\ U[Len(T) + 1] = m
      /\ \A i \in 1..Len(T) : U[i] = T[i]
  BY AppendPlaces
<1> HIDE DEF U
<1>2. OutputsOf(U, p) = OutputsOf(T, p) /\ \A i \in OutputsOf(T, p) : U[i].n = T[i].n
  BY <1>1 DEF OutputsOf
<1>3. Heard(T, p, l, d) => Heard(U, p, l, d)
  BY <1>2 DEF Heard
<1>4. Whole(T, p, l, s, d) => Whole(U, p, l, s, d)
  BY <1>2 DEF Whole
<1> QED BY <1>3, <1>4 DEF U

\* and its next output continues it.
LEMMA AppendOutput ==
  ASSUME NEW T \in Seq(Message), NEW m \in Message, NEW p, m.kind = "output", m.pane = p,
         NEW l \in Nat, NEW d \in Nat, NEW s \in Nat, l <= d, m.n = d + 1,
         Heard(T, p, l, d), Whole(T, p, l, s, d)
  PROVE  Heard(Append(T, m), p, l, d + 1) /\ Whole(Append(T, m), p, l, s, d + 1)
<1> DEFINE U == Append(T, m)
           k == Len(T) + 1
<1>1. /\ U \in Seq(Message) /\ Len(T) \in Nat
      /\ DOMAIN U = 1..k /\ DOMAIN T = 1..Len(T)
      /\ U[k] = m
      /\ \A i \in 1..Len(T) : U[i] = T[i]
  BY AppendPlaces
<1>2. k \in Nat /\ k >= 1 /\ \A i \in 1..Len(T) : i < k /\ i \in 1..k
  BY <1>1
<1>3. \A i \in 1..k : i \in 1..Len(T) \/ i = k
  BY <1>1
<1> HIDE DEF U, k
<1>4. OutputsOf(U, p) = OutputsOf(T, p) \union {k}
      /\ \A i \in OutputsOf(T, p) : U[i].n = T[i].n /\ i < k /\ T[i].n \in Nat
  <2>1. k \in 1..k /\ \A i \in 1..Len(T) : i \in 1..k
    BY <1>2
  <2>2. OutputsOf(U, p) = OutputsOf(T, p) \union {k}
    BY <1>1, <1>2, <1>3, <2>1 DEF OutputsOf
  <2>3. ASSUME NEW i \in OutputsOf(T, p) PROVE U[i].n = T[i].n /\ i < k /\ T[i].n \in Nat
    <3>1. i \in 1..Len(T) /\ T[i] \in Message
      BY DEF OutputsOf
    <3>2. T[i].n \in Nat
      BY <3>1, MessageFields
    <3> QED BY <1>1, <1>2, <3>1, <3>2
  <2> QED BY <2>2, <2>3
<1>5. ASSUME NEW i \in OutputsOf(U, p) PROVE l < U[i].n /\ U[i].n <= d + 1
  BY <1>1, <1>4, SMTT(60) DEF Heard
<1>6. ASSUME NEW i \in OutputsOf(U, p), NEW j \in OutputsOf(U, p), i < j PROVE U[i].n < U[j].n
  <2>1. i \in OutputsOf(T, p)
    <3>1. i # k
      <4>1. j \in Nat /\ j <= k
        BY <1>1, <1>2 DEF OutputsOf
      <4> QED BY <1>2, <1>6, <4>1
    <3> QED BY <1>4, <3>1
  <2>2. CASE j = k
    BY <1>1, <1>4, <2>1, <2>2 DEF Heard
  <2>3. CASE j # k
    <3>1. j \in OutputsOf(T, p)
      BY <1>4, <2>3
    <3> QED BY <1>4, <1>6, <2>1, <3>1 DEF Heard
  <2> QED BY <2>2, <2>3
<1>7. ASSUME NEW n \in Nat, s < n, n <= d + 1, l < n
      PROVE  \E i \in OutputsOf(U, p) : U[i].n = n
  <2>1. CASE n = d + 1
    BY <1>1, <1>4, <2>1
  <2>2. CASE n # d + 1
    <3>1. n <= d
      BY <1>7, <2>2
    <3>2. \E i \in OutputsOf(T, p) : T[i].n = n
      BY <1>7, <3>1 DEF Whole
    <3> QED BY <1>4, <3>2
  <2> QED BY <2>1, <2>2
<1>8. Heard(U, p, l, d + 1) /\ Whole(U, p, l, s, d + 1)
  BY <1>5, <1>6, <1>7 DEF Heard, Whole
<1> QED BY <1>8 DEF U

\* More may have been made than is heard.
LEMMA HeardOfMore ==
  ASSUME NEW T \in Seq(Message), NEW p, NEW l, NEW d \in Nat, Heard(T, p, l, d)
  PROVE  Heard(T, p, l, d + 1)
<1>1. ASSUME NEW i \in OutputsOf(T, p) PROVE T[i].n <= d + 1
  <2>1. T[i] \in Message
    BY DEF OutputsOf
  <2>2. T[i].n \in Nat
    BY <2>1, MessageFields
  <2> QED BY <2>2 DEF Heard
<1> QED BY <1>1 DEF Heard

\* What the client believes of a pane before the last message,
LEMMA AppendBelieves ==
  ASSUME NEW T \in Seq(Message), NEW m \in Message, NEW p, NEW told
  PROVE  \A i \in Int : i <= Len(T)
                        => (Believes(Append(T, m), told, p, i) <=> Believes(T, told, p, i))
<1> DEFINE U == Append(T, m)
<1>1. /\ U \in Seq(Message) /\ Len(T) \in Nat
      /\ DOMAIN U = 1..(Len(T) + 1) /\ DOMAIN T = 1..Len(T)
      /\ U[Len(T) + 1] = m
      /\ \A i \in 1..Len(T) : U[i] = T[i]
  BY AppendPlaces
<1> HIDE DEF U
<1>2. ASSUME NEW i \in Int, i <= Len(T) PROVE Believes(U, told, p, i) <=> Believes(T, told, p, i)
  <2>1. Marks(U, p, i) = Marks(T, p, i) /\ \A j \in Marks(T, p, i) : U[j] = T[j]
    BY <1>1, <1>2 DEF Marks
  <2> QED BY <2>1 DEF Believes
<1> QED BY <1>2 DEF U

\* and after it
LEMMA AppendBelief ==
  ASSUME NEW T \in Seq(Message), NEW m \in Message, NEW p, NEW told
  PROVE  LET U == Append(T, m) IN
           Believes(U, told, p, Len(U)) <=>
             IF m.pane = p /\ m.kind \in {"pause", "continue"} THEN m.kind = "pause"
             ELSE Believes(T, told, p, Len(T))
<1> DEFINE U == Append(T, m)
           k == Len(T) + 1
<1>1. /\ U \in Seq(Message) /\ Len(T) \in Nat
      /\ DOMAIN U = 1..k /\ DOMAIN T = 1..Len(T) /\ Len(U) = k
      /\ U[k] = m
      /\ \A i \in 1..Len(T) : U[i] = T[i]
  BY AppendPlaces
<1>2. k \in Nat /\ k >= 1 /\ \A i \in 1..Len(T) : i < k /\ i \in 1..k
  BY <1>1
<1>3. \A i \in 1..k : i \in 1..Len(T) \/ i = k
  BY <1>1
<1>4. k \in 1..k /\ k <= k /\ \A i \in 1..Len(T) : i \in 1..k /\ i <= k /\ i <= Len(T) /\ ~ (k <= i)
  BY <1>1, <1>2
<1> HIDE DEF U, k
<1>5. CASE m.pane = p /\ m.kind \in {"pause", "continue"}
  <2>1. k \in Marks(U, p, k) /\ \A j \in Marks(U, p, k) : j <= k
    BY <1>1, <1>4, <1>5 DEF Marks
  <2>2. \A j \in Marks(U, p, k) : j # k => ~ (k <= j)
    BY <1>1, <1>3, <1>4 DEF Marks
  <2>3. Believes(U, told, p, k) <=> U[k].kind = "pause"
    BY <2>1, <2>2 DEF Believes
  <2> QED BY <1>1, <1>5, <2>3 DEF U
<1>6. CASE ~ (m.pane = p /\ m.kind \in {"pause", "continue"})
  <2>1. Marks(U, p, k) = Marks(T, p, Len(T)) /\ \A j \in Marks(T, p, Len(T)) : U[j] = T[j]
    BY <1>1, <1>3, <1>4, <1>6 DEF Marks
  <2>2. Believes(U, told, p, k) <=> Believes(T, told, p, Len(T))
    BY <2>1 DEF Believes
  <2> QED BY <1>1, <1>6, <2>2 DEF U
<1> QED BY <1>5, <1>6

\* What the client is told of a pane, with one message more
LEMMA AppendVoice ==
  ASSUME NEW T \in Seq(Message), NEW m \in Message, NEW p, NEW told, NEW K \in BOOLEAN,
         NEW L \in BOOLEAN, Voice(T, told, p, K),
         m.pane = p => /\ m.kind = "output" => ~K
                       /\ m.kind = "pause" => ~K /\ L
                       /\ m.kind = "continue" => K /\ ~L,
         ~ (m.pane = p /\ m.kind \in {"pause", "continue"}) => L = K
  PROVE  Voice(Append(T, m), told, p, L)
<1> DEFINE U == Append(T, m)
<1>1. /\ U \in Seq(Message) /\ Len(T) \in Nat
      /\ DOMAIN U = 1..(Len(T) + 1) /\ DOMAIN T = 1..Len(T) /\ Len(U) = Len(T) + 1
      /\ U[Len(T) + 1] = m
      /\ \A i \in 1..Len(T) : U[i] = T[i]
  BY AppendPlaces
<1>2. \A i \in Int : i <= Len(T) => (Believes(U, told, p, i) <=> Believes(T, told, p, i))
  BY AppendBelieves
<1>3. Believes(T, told, p, Len(T)) <=> K
  BY DEF Voice
<1>4. Believes(U, told, p, Len(U)) <=> L
  <2>1. Believes(U, told, p, Len(U)) <=>
             IF m.pane = p /\ m.kind \in {"pause", "continue"} THEN m.kind = "pause"
             ELSE Believes(T, told, p, Len(T))
    BY AppendBelief
  <2> HIDE DEF U
  <2> QED BY <1>3, <2>1
<1> HIDE DEF U
<1>5. ASSUME NEW i \in DOMAIN U, U[i].pane = p
      PROVE  /\ U[i].kind \in {"output", "pause"} => ~Believes(U, told, p, i - 1)
             /\ U[i].kind = "continue" => Believes(U, told, p, i - 1)
  <2>1. i \in Int /\ i - 1 \in Int /\ i - 1 <= Len(T)
    BY <1>1
  <2>2. Believes(U, told, p, i - 1) <=> Believes(T, told, p, i - 1)
    BY <1>2, <2>1
  <2>3. CASE i \in 1..Len(T)
    BY <1>1, <1>5, <2>2, <2>3 DEF Voice
  <2>4. CASE i = Len(T) + 1
    <3>1. i - 1 = Len(T) /\ U[i] = m
      BY <1>1, <2>4
    <3>2. Believes(U, told, p, i - 1) <=> K
      BY <1>3, <2>2, <3>1
    <3> QED BY <1>5, <3>1, <3>2
  <2> QED BY <1>1, <2>3, <2>4
<1>6. Voice(U, told, p, L)
  BY <1>4, <1>5 DEF Voice
<1> QED BY <1>6 DEF U

-----------------------------------------------------------------------------
(* A list without its first message                                        *)

\* T without its first message
LEMMA TailPlaces ==
  ASSUME NEW T \in Seq(Message), T # <<>>
  PROVE  /\ Tail(T) \in Seq(Message) /\ Len(Tail(T)) \in Nat
         /\ Len(T) = Len(Tail(T)) + 1
         /\ DOMAIN T = 1..(Len(Tail(T)) + 1) /\ DOMAIN Tail(T) = 1..Len(Tail(T))
         /\ Head(T) = T[1] /\ Head(T) \in Message
         /\ \A i \in 1..Len(Tail(T)) : Tail(T)[i] = T[i + 1]
OBVIOUS

\* The notes that are left after a message that is none,
LEMMA TailNotes ==
  ASSUME NEW T \in Seq(Message), T # <<>>, Head(T).kind # "note", NEW S,
         Numbered(T, NotesIn(T), S)
  PROVE  Numbered(Tail(T), NotesIn(Tail(T)), S)
<1> DEFINE U == Tail(T)
           k == Len(U)
<1>1. /\ k \in Nat /\ DOMAIN T = 1..(k + 1) /\ DOMAIN U = 1..k
      /\ T[1].kind # "note" /\ \A i \in 1..k : U[i] = T[i + 1]
  BY TailPlaces
<1> HIDE DEF U, k
<1>2. \A i \in NotesIn(U) : i \in Nat /\ i + 1 \in NotesIn(T) /\ U[i].n = T[i + 1].n
  <2> SUFFICES ASSUME NEW i \in NotesIn(U)
               PROVE i \in Nat /\ i + 1 \in NotesIn(T) /\ U[i].n = T[i + 1].n
    OBVIOUS
  <2>1. i \in 1..k /\ U[i].kind = "note" /\ i + 1 \in 1..(k + 1) /\ U[i] = T[i + 1]
    BY <1>1 DEF NotesIn
  <2> QED BY <1>1, <2>1 DEF NotesIn
<1>3. \A i \in NotesIn(T) : \E j \in NotesIn(U) : i = j + 1
  <2> SUFFICES ASSUME NEW i \in NotesIn(T) PROVE i - 1 \in NotesIn(U) /\ i = (i - 1) + 1
    OBVIOUS
  <2>1. i \in 1..(k + 1) /\ T[i].kind = "note" /\ i # 1
    BY <1>1 DEF NotesIn
  <2>2. i - 1 \in 1..k /\ i = (i - 1) + 1
    BY <1>1, <2>1
  <2>3. U[i - 1] = T[(i - 1) + 1]
    BY <1>1, <2>2
  <2>4. U[i - 1].kind = "note"
    BY <2>1, <2>2, <2>3
  <2> QED BY <1>1, <2>2, <2>4 DEF NotesIn
<1>4. {U[i].n : i \in NotesIn(U)} = {T[i].n : i \in NotesIn(T)}
  BY <1>2, <1>3
<1>5. ASSUME NEW i \in NotesIn(U), NEW j \in NotesIn(U), i < j PROVE U[i].n < U[j].n
  <2>1. i + 1 < j + 1
    BY <1>2, <1>5
  <2> QED BY <1>2, <2>1 DEF Numbered
<1>6. Numbered(U, NotesIn(U), S)
  BY <1>4, <1>5 DEF Numbered
<1> QED BY <1>6 DEF U

\* and after one that is: it was the next to be read.
LEMMA TailNote ==
  ASSUME NEW T \in Seq(Message), T # <<>>, Head(T).kind = "note",
         NEW r \in Nat, NEW n \in Nat,
         Numbered(T, NotesIn(T), r + 1 .. n)
  PROVE  /\ Head(T).n = r + 1 /\ r + 1 <= n
         /\ Numbered(Tail(T), NotesIn(Tail(T)), Head(T).n + 1 .. n)
<1> DEFINE U == Tail(T)
           k == Len(U)
<1>1. /\ k \in Nat /\ DOMAIN T = 1..(k + 1) /\ DOMAIN U = 1..k
      /\ T[1].kind = "note" /\ \A i \in 1..k : U[i] = T[i + 1]
      /\ T[1] = Head(T)
  BY TailPlaces
<1> HIDE DEF U, k
<1>2. 1 \in NotesIn(T)
  BY <1>1 DEF NotesIn
<1>3. \A i \in NotesIn(U) : i \in Nat /\ i + 1 \in NotesIn(T) /\ U[i].n = T[i + 1].n
  <2> SUFFICES ASSUME NEW i \in NotesIn(U)
               PROVE i \in Nat /\ i + 1 \in NotesIn(T) /\ U[i].n = T[i + 1].n
    OBVIOUS
  <2>1. i \in 1..k /\ U[i].kind = "note" /\ i + 1 \in 1..(k + 1) /\ U[i] = T[i + 1]
    BY <1>1 DEF NotesIn
  <2> QED BY <1>1, <2>1 DEF NotesIn
<1>4. \A i \in NotesIn(T) : i = 1 \/ (1 < i /\ \E j \in NotesIn(U) : i = j + 1)
  <2> SUFFICES ASSUME NEW i \in NotesIn(T), i # 1
               PROVE 1 < i /\ i - 1 \in NotesIn(U) /\ i = (i - 1) + 1
    OBVIOUS
  <2>1. i \in 1..(k + 1) /\ T[i].kind = "note" /\ i # 1
    BY <1>1 DEF NotesIn
  <2>2. i - 1 \in 1..k /\ i = (i - 1) + 1 /\ 1 < i
    BY <1>1, <2>1
  <2>3. U[i - 1] = T[(i - 1) + 1]
    BY <1>1, <2>2
  <2>4. U[i - 1].kind = "note"
    BY <2>1, <2>2, <2>3
  <2> QED BY <1>1, <2>2, <2>4 DEF NotesIn
<1>5. {T[i].n : i \in NotesIn(T)} = r + 1 .. n
  BY DEF Numbered
<1>6. \A i \in NotesIn(T) : i = 1 \/ T[1].n < T[i].n
  BY <1>2, <1>4 DEF Numbered
<1>7. T[1].n \in r + 1 .. n
  BY <1>2, <1>5
<1>8. T[1].n = r + 1 /\ r + 1 <= n
  <2>1. r + 1 \in r + 1 .. n
    BY <1>7
  <2>2. PICK i \in NotesIn(T) : T[i].n = r + 1
    BY <1>5, <2>1
  <2>3. i = 1
    BY <1>6, <1>7, <2>2
  <2> QED BY <1>7, <2>2, <2>3
<1>9. {U[i].n : i \in NotesIn(U)} = (r + 1) + 1 .. n
  <2>1. ASSUME NEW i \in NotesIn(U) PROVE U[i].n \in (r + 1) + 1 .. n
    <3>1. i + 1 \in NotesIn(T) /\ U[i].n = T[i + 1].n /\ i + 1 # 1
      <4>1. i \in NotesIn(U) => i \in 1..k
        BY <1>1 DEF NotesIn
      <4> QED BY <1>1, <1>3, <4>1
    <3>2. T[i + 1].n \in r + 1 .. n /\ T[1].n < T[i + 1].n
      BY <1>5, <1>6, <3>1
    <3> QED BY <1>8, <3>1, <3>2
  <2>2. ASSUME NEW x \in (r + 1) + 1 .. n PROVE \E i \in NotesIn(U) : U[i].n = x
    <3>1. x \in Int /\ x \in r + 1 .. n /\ x # r + 1
      BY SMT
    <3>2. PICK i \in NotesIn(T) : T[i].n = x
      BY <1>5, <3>1
    <3>3. i # 1
      BY <1>8, <3>1, <3>2
    <3>4. PICK j \in NotesIn(U) : i = j + 1
      BY <1>4, <3>3
    <3> QED BY <1>3, <3>2, <3>4
  <2> QED BY <2>1, <2>2
<1>10. ASSUME NEW i \in NotesIn(U), NEW j \in NotesIn(U), i < j PROVE U[i].n < U[j].n
  <2>1. i + 1 < j + 1
    BY <1>3, <1>10
  <2> QED BY <1>3, <2>1 DEF Numbered
<1>11. Numbered(U, NotesIn(U), (r + 1) + 1 .. n)
  BY <1>9, <1>10 DEF Numbered
<1> QED BY <1>1, <1>8, <1>11 DEF U

\* When what tells the client to go is first, no note is left.
LEMMA TailNotesFirst ==
  ASSUME NEW T \in Seq(Message), T # <<>>, NotesFirst(T)
  PROVE  /\ NotesFirst(Tail(T))
         /\ Head(T).kind = "detached" => NotesIn(T) = {}
<1> DEFINE U == Tail(T)
           k == Len(U)
<1>1. /\ k \in Nat /\ DOMAIN T = 1..(k + 1) /\ DOMAIN U = 1..k
      /\ T[1] = Head(T) /\ \A i \in 1..k : U[i] = T[i + 1]
  BY TailPlaces
<1> HIDE DEF U, k
<1>2. ASSUME NEW i \in DOMAIN U, NEW j \in DOMAIN U, U[i].kind = "detached", U[j].kind = "note"
      PROVE  j < i
  <2>1. i \in 1..k /\ j \in 1..k /\ i + 1 \in DOMAIN T /\ j + 1 \in DOMAIN T
        /\ U[i] = T[i + 1] /\ U[j] = T[j + 1]
    BY <1>1
  <2>2. j + 1 < i + 1
    BY <1>2, <2>1 DEF NotesFirst
  <2> QED BY <1>1, <2>1, <2>2
<1>3. NotesFirst(U)
  BY <1>2 DEF NotesFirst
<1>4. ASSUME Head(T).kind = "detached", NEW j \in NotesIn(T) PROVE FALSE
  <2>1. j \in 1..(k + 1) /\ 1 \in DOMAIN T /\ T[j].kind = "note" /\ T[1].kind = "detached"
    BY <1>1, <1>4 DEF NotesIn
  <2>2. j < 1
    BY <1>1, <2>1 DEF NotesFirst
  <2> QED BY <1>1, <2>1, <2>2
<1> QED BY <1>3, <1>4 DEF U

\* U is T without its first message.
IsRest(U, T) == U = Tail(T)

\* The outputs of p that are left
LEMMA TailOutputs ==
  ASSUME NEW T \in Seq(Message), T # <<>>, NEW p, NEW U, IsRest(U, T)
  PROVE  /\ \A i \in OutputsOf(U, p) :
              /\ i \in Nat /\ i + 1 \in OutputsOf(T, p) /\ 1 < i + 1
              /\ U[i].n = T[i + 1].n
         /\ \A i \in OutputsOf(T, p) : i = 1 \/ \E j \in OutputsOf(U, p) : i = j + 1
         /\ 1 \in OutputsOf(T, p) <=> Head(T).kind = "output" /\ Head(T).pane = p
         /\ Head(T) = T[1]
<1> DEFINE k == Len(U)
<1>1. /\ k \in Nat /\ DOMAIN T = 1..(k + 1) /\ DOMAIN U = 1..k
      /\ T[1] = Head(T) /\ \A i \in 1..k : U[i] = T[i + 1]
  BY TailPlaces DEF IsRest
<1> HIDE DEF k
<1>2. ASSUME NEW i \in OutputsOf(U, p)
      PROVE  i \in Nat /\ i + 1 \in OutputsOf(T, p) /\ 1 < i + 1 /\ U[i].n = T[i + 1].n
  <2>1. i \in 1..k /\ U[i].kind = "output" /\ U[i].pane = p
    BY <1>1 DEF OutputsOf
  <2>2. i + 1 \in 1..(k + 1) /\ U[i] = T[i + 1] /\ i \in Nat /\ 1 < i + 1
    BY <1>1, <2>1
  <2> QED BY <1>1, <2>1, <2>2 DEF OutputsOf
<1>3. ASSUME NEW i \in OutputsOf(T, p), i # 1 PROVE i - 1 \in OutputsOf(U, p) /\ i = (i - 1) + 1
  <2>1. i \in 1..(k + 1) /\ T[i].kind = "output" /\ T[i].pane = p
    BY <1>1 DEF OutputsOf
  <2>2. i - 1 \in 1..k /\ i = (i - 1) + 1
    BY <1>1, <1>3, <2>1
  <2>3. U[i - 1] = T[(i - 1) + 1]
    BY <1>1, <2>2
  <2>4. U[i - 1].kind = "output" /\ U[i - 1].pane = p
    BY <2>1, <2>2, <2>3
  <2> QED BY <1>1, <2>2, <2>4 DEF OutputsOf
<1>4. 1 \in OutputsOf(T, p) <=> Head(T).kind = "output" /\ Head(T).pane = p
  BY <1>1 DEF OutputsOf
<1> QED BY <1>1, <1>2, <1>3, <1>4

\* Hearing goes on with another message,
LEMMA TailHeard ==
  ASSUME NEW T \in Seq(Message), T # <<>>, NEW p, ~ (Head(T).kind = "output" /\ Head(T).pane = p),
         NEW l, NEW d, NEW s
  PROVE  /\ Heard(T, p, l, d) => Heard(Tail(T), p, l, d)
         /\ Whole(T, p, l, s, d) => Whole(Tail(T), p, l, s, d)
<1> DEFINE U == Tail(T)
<1>0. IsRest(U, T)
  BY DEF IsRest
<1> HIDE DEF U
<1>1. /\ \A i \in OutputsOf(U, p) : i \in Nat /\ i + 1 \in OutputsOf(T, p) /\ U[i].n = T[i + 1].n
      /\ \A i \in OutputsOf(T, p) : \E j \in OutputsOf(U, p) : i = j + 1
  BY <1>0, TailOutputs, SMTT(60)
<1>2. ASSUME Heard(T, p, l, d) PROVE Heard(U, p, l, d)
  <2>1. ASSUME NEW i \in OutputsOf(U, p), NEW j \in OutputsOf(U, p), i < j PROVE U[i].n < U[j].n
    <3>1. i + 1 < j + 1
      BY <1>1, <2>1
    <3> QED BY <1>1, <1>2, <3>1 DEF Heard
  <2>2. \A i \in OutputsOf(U, p) : l < U[i].n /\ U[i].n <= d
    BY <1>1, <1>2 DEF Heard
  <2> QED BY <2>1, <2>2 DEF Heard
<1>3. ASSUME Whole(T, p, l, s, d) PROVE Whole(U, p, l, s, d)
  <2> SUFFICES ASSUME NEW n \in Nat, s < n, n <= d, l < n
               PROVE  \E i \in OutputsOf(U, p) : U[i].n = n
    BY DEF Whole
  <2>1. PICK i \in OutputsOf(T, p) : T[i].n = n
    BY <1>3 DEF Whole
  <2> QED BY <1>1, <2>1
<1> QED BY <1>2, <1>3 DEF U

\* and with the next output of the pane.
LEMMA TailOutput ==
  ASSUME NEW T \in Seq(Message), T # <<>>, NEW p, Head(T).kind = "output", Head(T).pane = p,
         NEW l \in Nat, NEW d \in Nat, NEW s \in Nat, Heard(T, p, l, d)
  PROVE  /\ l < Head(T).n /\ Head(T).n <= d
         /\ Heard(Tail(T), p, Head(T).n, d)
         /\ Whole(T, p, l, s, d) => Whole(Tail(T), p, Head(T).n, s, d)
<1> DEFINE U == Tail(T)
           h == Head(T).n
<1>0. IsRest(U, T)
  BY DEF IsRest
<1> HIDE DEF U
<1>1. /\ \A i \in OutputsOf(U, p) : i \in Nat /\ i + 1 \in OutputsOf(T, p) /\ 1 < i + 1
                                    /\ U[i].n = T[i + 1].n
      /\ \A i \in OutputsOf(T, p) : i = 1 \/ \E j \in OutputsOf(U, p) : i = j + 1
      /\ 1 \in OutputsOf(T, p) /\ h = T[1].n
  BY <1>0, TailOutputs, SMTT(60)
<1>2. h \in Nat
  <2>1. Head(T) \in Message
    BY TailPlaces
  <2> QED BY <2>1, MessageFields
<1> HIDE DEF h
<1>3. l < h /\ h <= d
  BY <1>1 DEF Heard
<1>4. Heard(U, p, h, d)
  <2>1. ASSUME NEW i \in OutputsOf(U, p), NEW j \in OutputsOf(U, p), i < j PROVE U[i].n < U[j].n
    <3>1. i + 1 < j + 1
      BY <1>1, <2>1
    <3> QED BY <1>1, <3>1 DEF Heard
  <2>2. \A i \in OutputsOf(U, p) : h < U[i].n /\ U[i].n <= d
    BY <1>1 DEF Heard
  <2> QED BY <2>1, <2>2 DEF Heard
<1>5. ASSUME Whole(T, p, l, s, d) PROVE Whole(U, p, h, s, d)
  <2> SUFFICES ASSUME NEW n \in Nat, s < n, n <= d, h < n
               PROVE  \E i \in OutputsOf(U, p) : U[i].n = n
    BY DEF Whole
  <2>1. l < n
    BY <1>2, <1>3
  <2>2. PICK i \in OutputsOf(T, p) : T[i].n = n
    BY <1>5, <2>1 DEF Whole
  <2>3. i # 1
    BY <1>1, <1>2, <2>2
  <2> QED BY <1>1, <2>2, <2>3
<1> QED BY <1>3, <1>4, <1>5 DEF U, h

\* What the client believes once it has read the first message
LEMMA TailBelieves ==
  ASSUME NEW T \in Seq(Message), T # <<>>, NEW p, NEW told, NEW heard,
         p \in heard <=> IF Head(T).pane = p /\ Head(T).kind \in {"pause", "continue"}
                         THEN Head(T).kind = "pause" ELSE p \in told
  PROVE  \A i \in Nat : Believes(Tail(T), heard, p, i) <=> Believes(T, told, p, i + 1)
<1> DEFINE U == Tail(T)
           k == Len(U)
<1>1. /\ k \in Nat /\ DOMAIN T = 1..(k + 1) /\ DOMAIN U = 1..k
      /\ T[1] = Head(T) /\ \A i \in 1..k : U[i] = T[i + 1]
  BY TailPlaces
<1> HIDE DEF U, k
<1> SUFFICES ASSUME NEW i \in Nat
             PROVE  Believes(U, heard, p, i) <=> Believes(T, told, p, i + 1)
  BY DEF U
<1> DEFINE before == Marks(T, p, i + 1)
           left == Marks(U, p, i)
<1>2. ASSUME NEW j \in left
      PROVE  j \in Nat /\ 1 <= j /\ j + 1 \in before /\ U[j].kind = T[j + 1].kind
  <2>1. j \in 1..k /\ j <= i /\ U[j].pane = p /\ U[j].kind \in {"pause", "continue"}
    BY <1>1 DEF Marks
  <2>2. j + 1 \in 1..(k + 1) /\ j + 1 <= i + 1 /\ U[j] = T[j + 1] /\ j \in Nat /\ 1 <= j
    BY <1>1, <2>1
  <2> QED BY <1>1, <2>1, <2>2 DEF Marks
<1>3. ASSUME NEW j \in before, j # 1 PROVE j - 1 \in left /\ j = (j - 1) + 1
  <2>1. j \in 1..(k + 1) /\ j <= i + 1 /\ T[j].pane = p /\ T[j].kind \in {"pause", "continue"}
    BY <1>1 DEF Marks
  <2>2. j - 1 \in 1..k /\ j - 1 <= i /\ j = (j - 1) + 1
    BY <1>1, <1>3, <2>1
  <2>3. U[j - 1] = T[(j - 1) + 1]
    BY <1>1, <2>2
  <2>4. U[j - 1].pane = p /\ U[j - 1].kind \in {"pause", "continue"}
    BY <2>1, <2>2, <2>3
  <2> QED BY <1>1, <2>2, <2>4 DEF Marks
<1>4. 1 \in before <=> Head(T).pane = p /\ Head(T).kind \in {"pause", "continue"}
  BY <1>1 DEF Marks
<1>5. \A j \in before : j \in Nat /\ 1 <= j
  BY <1>1 DEF Marks
<1> HIDE DEF before, left
<1>6. CASE left = {}
  <2>1. \A j \in before : j = 1
    BY <1>3, <1>6
  <2>2. Believes(T, told, p, i + 1) <=> p \in heard
    BY <1>1, <1>4, <2>1 DEF Believes, before
  <2> QED BY <1>6, <2>2 DEF Believes, left
<1>7. CASE left # {}
  <2>1. before # {}
    BY <1>2, <1>7
  <2>2. ASSUME NEW j \in left, U[j].kind = "pause", \A x \in left : x <= j
        PROVE  \E y \in before : T[y].kind = "pause" /\ \A x \in before : x <= y
    <3>1. j + 1 \in before /\ T[j + 1].kind = "pause" /\ j \in Nat /\ 1 <= j
      BY <1>2, <2>2
    <3>2. ASSUME NEW x \in before PROVE x <= j + 1
      <4>1. CASE x = 1
        BY <3>1, <4>1
      <4>2. CASE x # 1
        <5>1. x - 1 \in left /\ x \in Nat
          BY <1>3, <1>5, <4>2
        <5>2. x - 1 <= j
          BY <2>2, <5>1
        <5> QED BY <3>1, <5>1, <5>2
      <4> QED BY <4>1, <4>2
    <3> QED BY <3>1, <3>2
  <2>3. ASSUME NEW y \in before, T[y].kind = "pause", \A x \in before : x <= y
        PROVE  \E j \in left : U[j].kind = "pause" /\ \A x \in left : x <= j
    <3>1. y # 1
      <4>1. PICK j \in left : TRUE
        BY <1>7
      <4>2. j + 1 \in before /\ j \in Nat /\ 1 <= j
        BY <1>2
      <4>3. j + 1 <= y
        BY <2>3, <4>2
      <4> QED BY <4>2, <4>3
    <3>2. PICK j \in left : y = j + 1
      BY <1>3, <3>1
    <3>3. U[j].kind = "pause" /\ j \in Nat
      BY <1>2, <2>3, <3>2
    <3>4. ASSUME NEW x \in left PROVE x <= j
      <4>1. x + 1 \in before /\ x \in Nat
        BY <1>2
      <4>2. x + 1 <= j + 1
        BY <2>3, <3>2, <4>1
      <4> QED BY <3>3, <4>1, <4>2
    <3> QED BY <3>3, <3>4
  <2> QED BY <1>7, <2>1, <2>2, <2>3 DEF Believes, before, left
<1> QED BY <1>6, <1>7

\* The client that has read the first message is told of the rest as before.
LEMMA TailVoice ==
  ASSUME NEW T \in Seq(Message), T # <<>>, NEW p, NEW told, NEW heard, NEW K,
         p \in heard <=> IF Head(T).pane = p /\ Head(T).kind \in {"pause", "continue"}
                         THEN Head(T).kind = "pause" ELSE p \in told,
         Voice(T, told, p, K)
  PROVE  Voice(Tail(T), heard, p, K)
<1> DEFINE U == Tail(T)
           k == Len(U)
<1>1. /\ k \in Nat /\ DOMAIN T = 1..(k + 1) /\ DOMAIN U = 1..k /\ Len(T) = k + 1
      /\ \A i \in 1..k : U[i] = T[i + 1]
  BY TailPlaces
<1>2. \A i \in Nat : Believes(U, heard, p, i) <=> Believes(T, told, p, i + 1)
  BY TailBelieves
<1> HIDE DEF U
<1>3. Believes(U, heard, p, Len(U)) <=> K
  <2>1. Believes(U, heard, p, k) <=> Believes(T, told, p, k + 1)
    BY <1>1, <1>2
  <2> QED BY <1>1, <2>1 DEF Voice
<1>4. ASSUME NEW i \in DOMAIN U, U[i].pane = p
      PROVE  /\ U[i].kind \in {"output", "pause"} => ~Believes(U, heard, p, i - 1)
             /\ U[i].kind = "continue" => Believes(U, heard, p, i - 1)
  <2>1. i \in 1..k /\ i - 1 \in Nat /\ (i - 1) + 1 = i /\ i + 1 \in DOMAIN T /\ (i + 1) - 1 = i
        /\ U[i] = T[i + 1]
    BY <1>1
  <2>2. Believes(U, heard, p, i - 1) <=> Believes(T, told, p, (i - 1) + 1)
    BY <1>2, <2>1
  <2>3. /\ T[i + 1].kind \in {"output", "pause"} => ~Believes(T, told, p, (i + 1) - 1)
        /\ T[i + 1].kind = "continue" => Believes(T, told, p, (i + 1) - 1)
    BY <1>4, <2>1 DEF Voice
  <2>4. Believes(U, heard, p, i - 1) <=> Believes(T, told, p, (i + 1) - 1)
    BY <2>1, <2>2
  <2> QED BY <2>1, <2>3, <2>4
<1>5. Voice(U, heard, p, K)
  BY <1>3, <1>4 DEF Voice
<1> QED BY <1>5 DEF U

-----------------------------------------------------------------------------
(* Types, and what is on its way                                           *)

Quieter(o, before, D) ==
  o.live => /\ before.live
            /\ \A p \in Panes : Audible(o.ctl, p) => Audible(before.ctl, p)
            /\ \A p \in D : (p \in o.ctl.paused) = (p \in before.ctl.paused)

\* A message that may be queued
LEMMA FreshMessages ==
  ASSUME NEW m \in Fresh
  PROVE  /\ m \in Message /\ m \in Text /\ m.kind # "exit" /\ m.extended = FALSE
         /\ m.kind \in {"output", "note", "pause", "continue", "detached"}
         /\ m.kind \in {"output", "pause", "continue"} => m.pane \in Panes
         /\ m.n \in Nat /\ Cost(m) = 1 /\ Paid(m) = 1
<1>1. m \in Message /\ m \in Text /\ m.kind # "exit" /\ ~m.extended
  BY DEF Fresh, Text
<1>2. m.extended = FALSE
  BY <1>1, MessageFields
<1> QED BY <1>1, <1>2, MessageFields DEF Text, Cost, Paid

\* The fields of a ControlClient
LEMMA ControlFields ==
  ASSUME NEW c \in Control
  PROVE  /\ c.off \subseteq Panes /\ c.paused \subseteq Panes
         /\ c.aging \in BOOLEAN /\ c.muted \in BOOLEAN /\ c.closing \in BOOLEAN
         /\ c.pending \in Seq(Queued) /\ c.cost \in Int
BY DEF Control

\* The fields of the owner's side
LEMMA SideFields ==
  ASSUME NEW o \in Side
  PROVE  /\ o.live \in BOOLEAN /\ o.ctl \in Control /\ o.chan \in Seq(Text) /\ o.bytes \in Int
         /\ o.ctl.pending \in Seq(Queued) /\ o.ctl.cost \in Int
         /\ o.ctl.closing \in BOOLEAN /\ o.ctl.paused \subseteq Panes
         /\ o.chan \in Seq(Message)
<1>1. /\ o.live \in BOOLEAN /\ o.ctl \in Control /\ o.chan \in Seq(Text) /\ o.bytes \in Int
  BY DEF Side
<1>2. Text \subseteq Message
  BY DEF Text
<1>3. o.chan \in Seq(Message)
  BY <1>1, <1>2
<1> QED BY <1>1, <1>3, ControlFields

\* A new ControlClient
LEMMA NewControlType ==
  /\ NewControl \in Control /\ NewControl.pending = <<>> /\ NewControl.cost = 0
  /\ NewControl.closing = FALSE /\ NewControl.paused = {} /\ NewControl.off = {}
  /\ NewControl.muted = FALSE /\ NewControl.aging = FALSE
BY DEF NewControl, Control

\* The messages of a queue, place by place
LEMMA TextsPlaces ==
  ASSUME NEW list \in Seq(Queued)
  PROVE  /\ Texts(list) \in Seq(Fresh) /\ Texts(list) \in Seq(Text) /\ Texts(list) \in Seq(Message)
         /\ Len(Texts(list)) = Len(list)
         /\ \A i \in 1..Len(list) : Texts(list)[i] = list[i].m /\ list[i].m \in Fresh
                                    /\ list[i].age \in 0..2
<1>1. Len(list) \in Nat /\ DOMAIN list = 1..Len(list)
  OBVIOUS
<1>2. \A i \in 1..Len(list) : list[i].m \in Fresh /\ list[i].age \in 0..2
  <2>1. \A i \in 1..Len(list) : list[i] \in Queued
    OBVIOUS
  <2> QED BY <2>1 DEF Queued
<1>3. Texts(list) = [i \in 1..Len(list) |-> list[i].m]
  BY <1>1 DEF Texts
<1>4. Texts(list) \in Seq(Fresh) /\ Len(Texts(list)) = Len(list)
  BY <1>1, <1>2, <1>3
<1>5. Fresh \subseteq Text /\ Fresh \subseteq Message
  BY DEF Fresh, Text
<1>6. Texts(list) \in Seq(Text) /\ Texts(list) \in Seq(Message)
  BY <1>4, <1>5
<1> QED BY <1>2, <1>3, <1>4, <1>6

\* What is on its way to the client, place by place
LEMMA WayPlaces ==
  ASSUME NEW o \in Side
  PROVE  /\ Way(o) \in Seq(Message) /\ Way(o) \in Seq(Text)
         /\ Len(o.chan) \in Nat /\ Len(o.ctl.pending) \in Nat
         /\ Len(Way(o)) = Len(o.chan) + Len(o.ctl.pending)
         /\ DOMAIN Way(o) = 1..(Len(o.chan) + Len(o.ctl.pending))
         /\ \A i \in 1..Len(o.chan) : Way(o)[i] = o.chan[i]
         /\ \A i \in 1..Len(o.ctl.pending) :
              Way(o)[Len(o.chan) + i] = o.ctl.pending[i].m /\ o.ctl.pending[i].m \in Fresh
<1> DEFINE c == o.chan
           q == o.ctl.pending
           t == Texts(q)
<1>1. c \in Seq(Text) /\ q \in Seq(Queued)
  BY SideFields
<1>2. /\ t \in Seq(Text) /\ Len(t) = Len(q)
      /\ \A i \in 1..Len(q) : t[i] = q[i].m /\ q[i].m \in Fresh
  BY <1>1, TextsPlaces
<1>3. Way(o) = c \o t
  BY DEF Way
<1> HIDE DEF c, q, t
<1>4. /\ c \o t \in Seq(Text) /\ Len(c \o t) = Len(c) + Len(t)
      /\ Len(c) \in Nat /\ Len(t) \in Nat
      /\ \A i \in 1..Len(c) : (c \o t)[i] = c[i]
      /\ \A i \in 1..Len(t) : (c \o t)[Len(c) + i] = t[i]
  BY <1>1, <1>2, SMTT(60)
<1>5. c \o t \in Seq(Message) /\ DOMAIN (c \o t) = 1..(Len(c) + Len(t))
  <2>1. Text \subseteq Message
    BY DEF Text
  <2> QED BY <1>4, <2>1
<1> QED BY <1>2, <1>3, <1>4, <1>5 DEF c, q

\* The parts of the owner's side, with one changed
LEMMA SetControl ==
  ASSUME NEW o \in Side, NEW x \in Control
  PROVE  LET t == [o EXCEPT !.ctl = x] IN
         t \in Side /\ t.ctl = x /\ t.live = o.live /\ t.chan = o.chan /\ t.bytes = o.bytes
BY DEF Side

\* The same, with another channel
LEMMA SetChannel ==
  ASSUME NEW o \in Side, NEW x \in Seq(Text)
  PROVE  LET t == [o EXCEPT !.chan = x] IN
         t \in Side /\ t.chan = x /\ t.live = o.live /\ t.ctl = o.ctl /\ t.bytes = o.bytes
BY DEF Side

\* disconnect, field by field
LEMMA GoneFields ==
  ASSUME NEW o \in Side
  PROVE  LET t == Gone(o) IN
         t \in Side /\ t.live = FALSE /\ t.ctl = NewControl /\ t.chan = o.chan /\ t.bytes = o.bytes
BY NewControlType DEF Gone, Side

\* A message in the channel, field by field
LEMMA PutFields ==
  ASSUME NEW o \in Side, NEW m \in Text
  PROVE  LET t == Put(o, m) IN
         /\ t \in Side /\ t.chan = Append(o.chan, m) /\ t.bytes = o.bytes + Cost(m)
         /\ t.live = o.live /\ t.ctl = o.ctl
<1>1. Cost(m) \in Int /\ o.bytes \in Int /\ o.chan \in Seq(Text)
  BY SideFields DEF Cost
<1>2. Append(o.chan, m) \in Seq(Text) /\ o.bytes + Cost(m) \in Int
  BY <1>1
<1> QED BY <1>2 DEF Put, Side

\* Two sequences that agree place by place are the same.
LEMMA SameSequence ==
  ASSUME NEW S, NEW T \in Seq(S), NEW U \in Seq(S), Len(T) = Len(U),
         \A i \in 1..Len(T) : T[i] = U[i]
  PROVE  T = U
OBVIOUS

\* A client that is gone leaves nothing behind it to claim.
LEMMA GoneIsSound ==
  ASSUME NEW o \in Side, ~o.live, o.ctl = NewControl, o.bytes = Total(o.chan),
         Len(o.chan) <= ChannelCap, Without(o.chan, {"detached"}), NEW D, NEW C \in BOOLEAN, NEW e
  PROVE  Sound(o, D, C, e)
<1>1. o.ctl.pending = <<>>
  BY NewControlType
<1>2. /\ Len(Way(o)) = Len(o.chan) + 0 /\ Len(o.chan) \in Nat
      /\ DOMAIN Way(o) = 1..(Len(o.chan) + 0) /\ DOMAIN o.chan = 1..Len(o.chan)
      /\ \A i \in 1..Len(o.chan) : Way(o)[i] = o.chan[i]
  <2>1. Len(o.ctl.pending) = 0
    BY <1>1
  <2>2. o.chan \in Seq(Text) /\ DOMAIN o.chan = 1..Len(o.chan) /\ Len(o.chan) \in Nat
    BY SideFields
  <2>3. /\ Len(Way(o)) = Len(o.chan) + Len(o.ctl.pending)
        /\ DOMAIN Way(o) = 1..(Len(o.chan) + Len(o.ctl.pending))
        /\ \A i \in 1..Len(o.chan) : Way(o)[i] = o.chan[i]
    BY WayPlaces
  <2> QED BY ONLY <2>1, <2>2, <2>3
<1>3. Without(Way(o), {"detached"})
  BY <1>2 DEF Without
<1>4. Counted(o)
  BY DEF Counted
<1>5. Ordered(o, e) /\ Hears(o, e) /\ Speaks(o, e, D, C)
  BY DEF Ordered, Hears, Speaks
<1>6. Parted(o, C)
  BY <1>3 DEF Parted
<1>7. Queues(o, D)
  BY <1>1 DEF Queues
<1> QED BY <1>4, <1>5, <1>6, <1>7 DEF Sound

\* disconnect, of a client in order
LEMMA GoneKeeps ==
  ASSUME NEW o \in Side, o.live, Counted(o), NEW D, NEW C \in BOOLEAN, NEW e
  PROVE  Gone(o) \in Side /\ ~Gone(o).live /\ Sound(Gone(o), D, C, e)
<1> DEFINE g == Gone(o)
<1>3. g \in Side /\ g.live = FALSE /\ g.ctl = NewControl /\ g.chan = o.chan /\ g.bytes = o.bytes
  BY GoneFields
<1> HIDE DEF g
<1>4. g.bytes = Total(g.chan) /\ Len(g.chan) <= ChannelCap /\ Without(g.chan, {"detached"})
  BY <1>3 DEF Counted, Without
<1>5. Sound(g, D, C, e)
  BY <1>3, <1>4, GoneIsSound
<1> QED BY <1>3, <1>5 DEF g

\* Exit is a message that costs nothing.
LEMMA ExitType ==
  M("exit", 0, 0) \in Text /\ M("exit", 0, 0).kind = "exit" /\ Paid(M("exit", 0, 0)) = 0
BY DEF M, Text, Message, Paid

\* A client is expelled, from whatever state its queue is in.
LEMMA ExpelledKeeps ==
  ASSUME NEW o \in Side, o.bytes = Total(o.chan), Len(o.chan) <= ChannelCap,
         Without(o.chan, {"exit", "detached"}), NEW D, NEW C \in BOOLEAN, NEW e
  PROVE  Expelled(o) \in Side /\ ~Expelled(o).live /\ Sound(Expelled(o), D, C, e)
<1> DEFINE x == M("exit", 0, 0)
           list == IF HasRoom(o) THEN Append(o.chan, x) ELSE o.chan
           g == Expelled(o)
<1>1. o.chan \in Seq(Text) /\ o.bytes \in Int /\ NewControl \in Control /\ o.chan \in Seq(Message)
  BY SideFields, NewControlType
<1>2. x \in Text /\ x.kind = "exit" /\ Paid(x) = 0
  BY ExitType
<1>3. ChannelCap \in Nat /\ Text \subseteq Message
  BY ControlAssumption DEF Text
<1> HIDE DEF x
<1>5. /\ list \in Seq(Text) /\ Len(list) <= ChannelCap /\ Total(list) = o.bytes
      /\ Without(list, {"detached"})
  <2>1. CASE HasRoom(o)
    <3>1. list = Append(o.chan, x) /\ Len(o.chan) < ChannelCap /\ Len(o.chan) \in Nat
      BY <1>1, <2>1 DEF HasRoom
    <3>2. Total(list) = o.bytes
      <4>1. Total(Append(o.chan, x)) = Total(o.chan) + Paid(x)
        BY <1>1, <1>2, <1>3, TotalAppend
      <4> QED BY <1>1, <1>2, <3>1, <4>1
    <3>3. /\ DOMAIN list = 1..(Len(o.chan) + 1) /\ DOMAIN o.chan = 1..Len(o.chan)
          /\ list[Len(o.chan) + 1] = x /\ \A i \in 1..Len(o.chan) : list[i] = o.chan[i]
          /\ Len(list) = Len(o.chan) + 1 /\ list \in Seq(Text)
      BY <1>1, <1>2, <3>1
    <3>4. Without(list, {"detached"})
      <4> HIDE DEF list
      <4> SUFFICES ASSUME NEW i \in 1..(Len(o.chan) + 1) PROVE list[i].kind # "detached"
        BY <3>3 DEF Without
      <4>1. CASE i \in 1..Len(o.chan)
        BY <3>3, <4>1 DEF Without
      <4>2. CASE i = Len(o.chan) + 1
        BY <3>3, <4>2, <1>2
      <4> QED BY <3>1, <4>1, <4>2
    <3> QED BY <1>3, <3>1, <3>2, <3>3, <3>4
  <2>2. CASE ~HasRoom(o)
    <3>1. list = o.chan
      BY <2>2
    <3>2. Without(o.chan, {"detached"})
      BY DEF Without
    <3> HIDE DEF list
    <3> QED BY <1>1, <3>1, <3>2
  <2> QED BY <2>1, <2>2
<1> DEFINE r == IF HasRoom(o) THEN [o EXCEPT !.chan = Append(@, x)] ELSE o
<1>4. r \in Side /\ r.chan = list /\ r.bytes = o.bytes
  <2>1. CASE HasRoom(o)
    <3>1. Append(o.chan, x) \in Seq(Text)
      BY <1>1, <1>2
    <3>2. [o EXCEPT !.chan = Append(o.chan, x)] = [o EXCEPT !.chan = Append(@, x)]
      BY DEF Side
    <3> QED BY <2>1, <3>1, <3>2, SetChannel
  <2>2. CASE ~HasRoom(o)
    BY <2>2
  <2> QED BY <2>1, <2>2
<1> HIDE DEF r
<1>7. g = Gone(r)
  BY DEF Expelled, r, x
<1> HIDE DEF list, g
<1>6. g \in Side /\ g.live = FALSE /\ g.ctl = NewControl /\ g.chan = list /\ g.bytes = o.bytes
  BY <1>4, <1>7, GoneFields
<1> HIDE DEF g
<1>8. Sound(g, D, C, e)
  BY <1>5, <1>6, GoneIsSound
<1> QED BY <1>6, <1>8 DEF g

-----------------------------------------------------------------------------
(* A message joins the queue (send_control)                                *)

\* enqueue, field by field
LEMMA EnqueueFields ==
  ASSUME NEW c \in Control, NEW m \in Fresh
  PROVE  LET d == Enqueue(c, m) IN
         /\ d \in Control /\ d.pending = Append(c.pending, [m |-> m, age |-> 0])
         /\ d.cost = c.cost + 1
         /\ d.off = c.off /\ d.paused = c.paused /\ d.muted = c.muted
         /\ d.aging = c.aging /\ d.closing = c.closing
<1>1. [m |-> m, age |-> 0] \in Queued
  BY DEF Queued
<1> DEFINE q == [m |-> m, age |-> 0]
<1>2. Append(c.pending, q) \in Seq(Queued) /\ c.cost + Cost(m) \in Int /\ Cost(m) = 1
  <2>1. c.pending \in Seq(Queued) /\ c.cost \in Int /\ Cost(m) = 1
    BY FreshMessages, ControlFields
  <2>2. q \in Queued
    BY <1>1
  <2> HIDE DEF q
  <2> QED BY <2>1, <2>2
<1> DEFINE list == Append(c.pending, q)
           cost == c.cost + Cost(m)
<1>4. Enqueue(c, m) = [c EXCEPT !.pending = list, !.cost = cost]
  BY DEF Enqueue, Control
<1> HIDE DEF list, cost, q
<1>5. list \in Seq(Queued) /\ cost \in Int
  BY <1>2 DEF list, cost
<1>6. LET d == Enqueue(c, m) IN
         /\ d \in Control /\ d.pending = list /\ d.cost = cost
         /\ d.off = c.off /\ d.paused = c.paused /\ d.muted = c.muted
         /\ d.aging = c.aging /\ d.closing = c.closing
  BY <1>4, <1>5 DEF Control
<1> QED BY <1>2, <1>6 DEF list, cost, q

\* o with m at the end of its queue
Enqueued(o, m, t) ==
  /\ t.live = o.live /\ t.chan = o.chan /\ t.bytes = o.bytes /\ t.ctl = Enqueue(o.ctl, m)

\* The same, as it shows in what is on its way and in what is heard
Joined(o, m, t) ==
  /\ Way(t) = Append(Way(o), m)
  /\ t.ctl.pending = Append(o.ctl.pending, [m |-> m, age |-> 0])
  /\ t.ctl.cost = o.ctl.cost + 1 /\ t.ctl.closing = o.ctl.closing
  /\ t.ctl.paused = o.ctl.paused
  /\ \A p : Audible(t.ctl, p) <=> Audible(o.ctl, p)

\* What an enqueued message does to what is on its way
LEMMA EnqueuedFields ==
  ASSUME NEW o \in Side, NEW m \in Fresh, NEW t \in Side, Enqueued(o, m, t)
  PROVE  Joined(o, m, t)
<1>1. o.ctl \in Control /\ o.ctl.pending \in Seq(Queued)
  BY SideFields
<1>2. /\ t.ctl.pending = Append(o.ctl.pending, [m |-> m, age |-> 0])
      /\ t.ctl.cost = o.ctl.cost + 1 /\ t.ctl.closing = o.ctl.closing
      /\ t.ctl.paused = o.ctl.paused /\ t.ctl.off = o.ctl.off /\ t.ctl.muted = o.ctl.muted
  BY <1>1, EnqueueFields, SMTT(60) DEF Enqueued
<1>3. \A p : Audible(t.ctl, p) <=> Audible(o.ctl, p)
  BY <1>2 DEF Audible
<1>4. m \in Message
  BY FreshMessages
<1> DEFINE c == o.chan
           l == o.ctl.pending
           q == [m |-> m, age |-> 0]
           W == Way(o)
           V == Way(t)
           X == Append(W, m)
<1>5. /\ W \in Seq(Message) /\ Len(c) \in Nat /\ Len(l) \in Nat
      /\ Len(W) = Len(c) + Len(l)
      /\ \A i \in 1..Len(c) : W[i] = c[i]
      /\ \A i \in 1..Len(l) : W[Len(c) + i] = l[i].m
  BY WayPlaces
<1>6. t.chan = c /\ t.ctl.pending = Append(l, q)
  BY <1>2 DEF Enqueued
<1>7. /\ V \in Seq(Message)
      /\ Len(V) = Len(t.chan) + Len(t.ctl.pending)
      /\ \A i \in 1..Len(t.chan) : V[i] = t.chan[i]
      /\ \A i \in 1..Len(t.ctl.pending) : V[Len(t.chan) + i] = t.ctl.pending[i].m
  BY WayPlaces
<1>8. /\ Len(Append(l, q)) = Len(l) + 1 /\ Append(l, q)[Len(l) + 1] = q
      /\ \A i \in 1..Len(l) : Append(l, q)[i] = l[i]
  BY <1>1
<1>9. q.m = m
  OBVIOUS
<1>10. X \in Seq(Message) /\ Len(X) = Len(W) + 1 /\ X[Len(W) + 1] = m
       /\ \A i \in 1..Len(W) : X[i] = W[i]
  <2> HIDE DEF W
  <2> QED BY <1>4, <1>5, AppendPlaces
<1> HIDE DEF c, l, q, W, V, X
<1>11. /\ Len(V) = Len(c) + (Len(l) + 1) /\ \A i \in 1..Len(c) : V[i] = c[i]
       /\ \A i \in 1..(Len(l) + 1) : V[Len(c) + i] = Append(l, q)[i].m
  BY <1>6, <1>7, <1>8
<1>12. ASSUME NEW i \in 1..Len(V) PROVE V[i] = X[i]
  <2>1. CASE i \in 1..Len(c)
    <3>1. i \in 1..Len(W)
      BY <1>5, <2>1
    <3> QED BY <1>5, <1>10, <1>11, <2>1, <3>1
  <2>2. CASE i = Len(W) + 1
    <3>1. Len(l) + 1 \in 1..(Len(l) + 1) /\ i = Len(c) + (Len(l) + 1)
      BY <1>5, <2>2
    <3>2. V[Len(c) + (Len(l) + 1)] = Append(l, q)[Len(l) + 1].m
      BY <1>11, <3>1
    <3>3. V[i] = m
      BY <1>8, <1>9, <3>1, <3>2
    <3> QED BY <1>10, <2>2, <3>3
  <2>3. CASE i \notin 1..Len(c) /\ i # Len(W) + 1
    <3> DEFINE j == i - Len(c)
    <3>1. j \in 1..Len(l) /\ j \in 1..(Len(l) + 1) /\ i = Len(c) + j /\ i \in 1..Len(W)
      BY <1>5, <1>11, <2>3
    <3> HIDE DEF j
    <3>2. V[Len(c) + j] = l[j].m /\ W[Len(c) + j] = l[j].m
      BY <1>5, <1>8, <1>11, <3>1
    <3> QED BY <1>10, <3>1, <3>2
  <2> QED BY <2>1, <2>2, <2>3
<1>13. Len(V) = Len(X)
  BY <1>5, <1>10, <1>11
<1>14. V = X
  BY <1>7, <1>10, <1>12, <1>13, SameSequence
<1>15. Way(t) = Append(Way(o), m)
  BY <1>14 DEF V, X, W
<1>16. /\ t.ctl.pending = Append(o.ctl.pending, [m |-> m, age |-> 0])
       /\ t.ctl.cost = o.ctl.cost + 1 /\ t.ctl.closing = o.ctl.closing
       /\ t.ctl.paused = o.ctl.paused
  BY <1>2
<1> QED BY ONLY <1>3, <1>15, <1>16 DEF Joined

\* What holds of any message that is queued, within the budget
LEMMA EnqueuedFrame ==
  ASSUME NEW o \in Side, NEW m \in Fresh, NEW t \in Side, Enqueued(o, m, t),
         o.live, NEW D, NEW C \in BOOLEAN, NEW e, Sound(o, D, C, e),
         o.ctl.cost + 1 + Len(o.chan) <= ByteLimit, m.kind = "detached" => C
  PROVE  /\ Counted(t) /\ Parted(t, C)
         /\ (m.kind = "output" => Audible(o.ctl, m.pane) /\ m.pane \notin D)
              => Queues(t, D)
<1>1. /\ Way(t) = Append(Way(o), m)
      /\ t.ctl.pending = Append(o.ctl.pending, [m |-> m, age |-> 0])
      /\ t.ctl.cost = o.ctl.cost + 1 /\ t.ctl.closing = o.ctl.closing
      /\ \A p : Audible(t.ctl, p) <=> Audible(o.ctl, p)
      /\ t.live = o.live /\ t.chan = o.chan /\ t.bytes = o.bytes
  <2>1. Joined(o, m, t)
    BY ONLY o \in Side, m \in Fresh, t \in Side, Enqueued(o, m, t), EnqueuedFields
  <2>2. t.live = o.live /\ t.chan = o.chan /\ t.bytes = o.bytes
    BY DEF Enqueued
  <2> QED BY ONLY <2>1, <2>2 DEF Joined
<1>2. o.ctl.pending \in Seq(Queued) /\ o.ctl.cost \in Int /\ o.chan \in Seq(Message)
  BY SideFields
<1> DEFINE q == [m |-> m, age |-> 0]
           l == o.ctl.pending
<1>3. /\ Len(t.ctl.pending) = Len(l) + 1 /\ DOMAIN t.ctl.pending = 1..(Len(l) + 1)
      /\ DOMAIN l = 1..Len(l) /\ Len(l) \in Nat
      /\ t.ctl.pending[Len(l) + 1] = q /\ q.m = m
      /\ \A i \in 1..Len(l) : t.ctl.pending[i] = l[i]
  <2>1. q.m = m
    OBVIOUS
  <2>2. l \in Seq(Queued) /\ t.ctl.pending = Append(l, q)
    BY <1>1, <1>2
  <2> HIDE DEF q, l
  <2> QED BY <2>1, <2>2
<1> HIDE DEF q, l
<1>4. Counted(t)
  <2>1. t.ctl.cost = Len(t.ctl.pending) /\ t.ctl.cost + Len(t.chan) <= ByteLimit
    <3>1. o.ctl.cost = Len(l)
      BY DEF Sound, Counted, l
    <3>2. Len(o.chan) \in Nat /\ ByteLimit \in Nat
      BY <1>2, ControlAssumption
    <3> QED BY <1>1, <1>2, <1>3, <3>1, <3>2
  <2> QED BY <1>1, <2>1 DEF Sound, Counted
<1>5. Parted(t, C)
  <2>1. ASSUME ~C PROVE Without(Way(t), {"detached"})
    <3>1. Way(o) \in Seq(Message) /\ m \in Message
      BY WayPlaces, FreshMessages
    <3>2. /\ DOMAIN Way(t) = 1..(Len(Way(o)) + 1) /\ DOMAIN Way(o) = 1..Len(Way(o))
          /\ Way(t)[Len(Way(o)) + 1] = m /\ Len(Way(o)) \in Nat
          /\ \A i \in 1..Len(Way(o)) : Way(t)[i] = Way(o)[i]
      BY <1>1, <3>1, AppendPlaces
    <3>3. \A i \in 1..Len(Way(o)) : Way(o)[i].kind # "detached"
      BY <2>1, <3>2 DEF Sound, Parted, Without
    <3>4. ASSUME NEW i \in 1..(Len(Way(o)) + 1) PROVE Way(t)[i].kind # "detached"
      <4>1. CASE i \in 1..Len(Way(o))
        BY <3>2, <3>3, <4>1
      <4>2. CASE i = Len(Way(o)) + 1
        BY <2>1, <3>2, <4>2
      <4> QED BY <3>2, <4>1, <4>2
    <3> QED BY <3>2, <3>4 DEF Without
  <2> QED BY <1>1, <2>1 DEF Sound, Parted
<1>6. ASSUME m.kind = "output" => Audible(o.ctl, m.pane) /\ m.pane \notin D
      PROVE  Queues(t, D)
  <2> SUFFICES ASSUME NEW i \in 1..(Len(l) + 1), t.ctl.pending[i].m.kind = "output"
               PROVE  /\ Audible(t.ctl, t.ctl.pending[i].m.pane)
                      /\ t.ctl.pending[i].m.pane \notin D
    BY <1>3 DEF Queues
  <2>1. CASE i \in 1..Len(l)
    <3>1. t.ctl.pending[i] = l[i]
      BY <1>3, <2>1
    <3>2. Audible(o.ctl, l[i].m.pane) /\ l[i].m.pane \notin D
      BY <1>3, <2>1, <3>1 DEF Sound, Queues, l
    <3> QED BY <1>1, <3>1, <3>2
  <2>2. CASE i = Len(l) + 1
    <3>1. t.ctl.pending[i].m = m
      BY <1>3, <2>2
    <3> QED BY <1>1, <1>6, <3>1
  <2> QED BY <1>3, <2>1, <2>2
<1> QED BY <1>4, <1>5, <1>6

\* What the claims on pane p say does not depend on messages of other panes
\* and on notes.
LEMMA EnqueuedHears ==
  ASSUME NEW o \in Side, NEW m \in Fresh, NEW t \in Side, Enqueued(o, m, t),
         o.live, NEW e, Hears(o, e), m.kind # "output"
  PROVE  Hears(t, e)
<1>1. /\ Way(t) = Append(Way(o), m) /\ \A p : Audible(t.ctl, p) <=> Audible(o.ctl, p)
      /\ Way(o) \in Seq(Message) /\ m \in Message
  <2>1. Joined(o, m, t)
    BY ONLY o \in Side, m \in Fresh, t \in Side, Enqueued(o, m, t), EnqueuedFields
  <2>2. Way(o) \in Seq(Message) /\ m \in Message
    BY WayPlaces, FreshMessages
  <2> QED BY ONLY <2>1, <2>2 DEF Joined
<1> SUFFICES ASSUME NEW p \in Panes
             PROVE  /\ Heard(Way(t), p, e.last[p], e.made[p])
                    /\ Audible(t.ctl, p) => Whole(Way(t), p, e.last[p], e.since[p], e.made[p])
  BY DEF Hears
<1>2. /\ Heard(Way(o), p, e.last[p], e.made[p])
      /\ Audible(o.ctl, p) => Whole(Way(o), p, e.last[p], e.since[p], e.made[p])
  BY DEF Hears
<1> QED BY <1>1, <1>2, AppendHeard

\* A message that may be sent tells the client the truth about its panes.
LEMMA EnqueuedSpeaks ==
  ASSUME NEW o \in Side, NEW m \in Fresh, NEW t \in Side, Enqueued(o, m, t),
         o.live, NEW D, NEW C \in BOOLEAN, NEW e, Speaks(o, e, D, C),
         m.kind \notin {"pause", "continue"},
         m.kind = "output" => Audible(o.ctl, m.pane) /\ m.pane \notin D
  PROVE  Speaks(t, e, D, C)
<1>1. /\ Way(t) = Append(Way(o), m) /\ t.ctl.paused = o.ctl.paused
      /\ Way(o) \in Seq(Message) /\ m \in Message
  <2>1. Way(t) = Append(Way(o), m) /\ t.ctl.paused = o.ctl.paused
    <3>1. Joined(o, m, t)
      BY ONLY o \in Side, m \in Fresh, t \in Side, Enqueued(o, m, t), EnqueuedFields
    <3> QED BY ONLY <3>1 DEF Joined
  <2>2. Way(o) \in Seq(Message) /\ m \in Message
    BY WayPlaces, FreshMessages
  <2> QED BY <2>1, <2>2
<1> SUFFICES ASSUME ~C, NEW p \in Panes
             PROVE  Voice(Way(t), e.told, p, (p \in t.ctl.paused) # (p \in D))
  BY DEF Speaks
<1> DEFINE K == (p \in o.ctl.paused) # (p \in D)
<1>2. Voice(Way(o), e.told, p, K)
  BY DEF Speaks
<1>3. m.kind = "output" /\ m.pane = p => ~K
  BY DEF Audible
<1>4. K \in BOOLEAN
  OBVIOUS
<1> HIDE DEF K
<1>5. Voice(Append(Way(o), m), e.told, p, K)
  BY <1>1, <1>2, <1>3, <1>4, AppendVoice
<1> QED BY <1>1, <1>5 DEF K

\* A note is queued.
LEMMA EnqueueNote ==
  ASSUME NEW o \in Side, NEW m \in Fresh, NEW t \in Side, Enqueued(o, m, t),
         o.live, NEW D, NEW e \in Account, Sound(o, D, FALSE, e),
         o.ctl.cost + 1 + Len(o.chan) <= ByteLimit,
         m.kind = "note", m.n = e.sent + 1, e.read <= e.sent
  PROVE  Sound(t, D, FALSE, [e EXCEPT !.sent = @ + 1])
<1> DEFINE f == [e EXCEPT !.sent = @ + 1]
<1>1. /\ f.sent = e.sent + 1 /\ f.read = e.read /\ f.told = e.told /\ f.last = e.last
      /\ f.made = e.made /\ f.since = e.since /\ e.read \in Nat /\ e.sent \in Nat
  BY DEF Account
<1> HIDE DEF f
<1>2. /\ Way(t) = Append(Way(o), m) /\ Way(o) \in Seq(Message) /\ m \in Message
      /\ t.live = o.live
  <2>1. Way(t) = Append(Way(o), m)
    <3>1. Joined(o, m, t)
      BY ONLY o \in Side, m \in Fresh, t \in Side, Enqueued(o, m, t), EnqueuedFields
    <3> QED BY ONLY <3>1 DEF Joined
  <2>2. Way(o) \in Seq(Message)
    BY WayPlaces
  <2>3. m \in Message
    BY FreshMessages
  <2>4. t.live = o.live
    BY DEF Enqueued
  <2> QED BY ONLY <2>1, <2>2, <2>3, <2>4
<1>3. Counted(t) /\ Parted(t, FALSE) /\ Queues(t, D)
  BY EnqueuedFrame
<1>4. Ordered(t, f)
  <2>1. Numbered(Way(o), NotesIn(Way(o)), e.read + 1 .. e.sent) /\ NotesFirst(Way(o))
    BY DEF Sound, Ordered
  <2>2. Numbered(Way(t), NotesIn(Way(t)), e.read + 1 .. e.sent + 1)
    BY <1>1, <1>2, <2>1, AppendNote
  <2>3. \A i \in DOMAIN Way(o) : Way(o)[i].kind # "detached"
    BY DEF Sound, Parted, Without
  <2>4. NotesFirst(Way(t))
    BY <1>2, <2>1, <2>3, AppendNotesFirst
  <2> QED BY <1>1, <2>2, <2>4 DEF Ordered
<1>5. Hears(t, f)
  <2>1. Hears(t, e)
    BY EnqueuedHears DEF Sound
  <2> QED BY <1>1, <2>1 DEF Hears
<1>6. Speaks(t, f, D, FALSE)
  <2>1. Speaks(t, e, D, FALSE)
    BY EnqueuedSpeaks DEF Sound
  <2> QED BY <1>1, <2>1 DEF Speaks
<1> QED BY <1>3, <1>4, <1>5, <1>6 DEF Sound, f

\* The next note keeps the notes in order, and what is no note does.
LEMMA EnqueuedOrdered ==
  ASSUME NEW o \in Side, NEW m \in Fresh, NEW t \in Side, Enqueued(o, m, t),
         o.live, NEW e, Ordered(o, e), m.kind # "note"
  PROVE  Ordered(t, e)
<1>1. /\ Way(t) = Append(Way(o), m) /\ Way(o) \in Seq(Message) /\ m \in Message
      /\ t.live = o.live
  <2>1. Way(t) = Append(Way(o), m)
    <3>1. Joined(o, m, t)
      BY ONLY o \in Side, m \in Fresh, t \in Side, Enqueued(o, m, t), EnqueuedFields
    <3> QED BY ONLY <3>1 DEF Joined
  <2>2. Way(o) \in Seq(Message)
    BY WayPlaces
  <2>3. m \in Message
    BY FreshMessages
  <2>4. t.live = o.live
    BY DEF Enqueued
  <2> QED BY ONLY <2>1, <2>2, <2>3, <2>4
<1>2. Numbered(Way(o), NotesIn(Way(o)), e.read + 1 .. e.sent) /\ NotesFirst(Way(o))
  BY DEF Ordered
<1>3. Numbered(Way(t), NotesIn(Way(t)), e.read + 1 .. e.sent)
  BY <1>1, <1>2, AppendNotes
<1>4. NotesFirst(Way(t))
  BY <1>1, <1>2, AppendNotesFirst
<1> QED BY <1>3, <1>4 DEF Ordered

\* What tells the client to go is queued.
LEMMA EnqueueDetached ==
  ASSUME NEW o \in Side, NEW m \in Fresh, NEW t \in Side, Enqueued(o, m, t),
         o.live, NEW D, NEW e \in Account, Sound(o, D, TRUE, e),
         o.ctl.cost + 1 + Len(o.chan) <= ByteLimit, m.kind = "detached"
  PROVE  Sound(t, D, TRUE, e)
<1>1. Counted(t) /\ Parted(t, TRUE) /\ Queues(t, D)
  BY EnqueuedFrame
<1>2. Ordered(t, e) /\ Hears(t, e) /\ Speaks(t, e, D, TRUE)
  BY EnqueuedOrdered, EnqueuedHears, EnqueuedSpeaks DEF Sound
<1> QED BY <1>1, <1>2 DEF Sound

\* The client is told of the pane whose state has changed.
LEMMA EnqueueMark ==
  ASSUME NEW o \in Side, NEW m \in Fresh, NEW t \in Side, Enqueued(o, m, t),
         o.live, NEW D, NEW C \in BOOLEAN, NEW e, Sound(o, D, C, e),
         o.ctl.cost + 1 + Len(o.chan) <= ByteLimit, NEW p \in D, m.pane = p,
         m.kind = IF p \in o.ctl.paused THEN "pause" ELSE "continue"
  PROVE  Sound(t, D \ {p}, C, e)
<1>1. Counted(t) /\ Parted(t, C) /\ Queues(t, D)
  BY EnqueuedFrame
<1>2. Queues(t, D \ {p})
  BY <1>1 DEF Queues
<1>3. Ordered(t, e) /\ Hears(t, e)
  BY EnqueuedOrdered, EnqueuedHears DEF Sound
<1>4. Speaks(t, e, D \ {p}, C)
  <2>1. /\ Way(t) = Append(Way(o), m) /\ t.ctl.paused = o.ctl.paused
        /\ Way(o) \in Seq(Message) /\ m \in Message
    <3>1. Way(t) = Append(Way(o), m) /\ t.ctl.paused = o.ctl.paused
      <4>1. Joined(o, m, t)
        BY ONLY o \in Side, m \in Fresh, t \in Side, Enqueued(o, m, t), EnqueuedFields
      <4> QED BY ONLY <4>1 DEF Joined
    <3>2. Way(o) \in Seq(Message) /\ m \in Message
      BY WayPlaces, FreshMessages
    <3> QED BY <3>1, <3>2
  <2> SUFFICES ASSUME ~C, NEW x \in Panes
               PROVE  Voice(Way(t), e.told, x, (x \in t.ctl.paused) # (x \in D \ {p}))
    BY DEF Speaks
  <2> DEFINE K == (x \in o.ctl.paused) # (x \in D)
             L == (x \in o.ctl.paused) # (x \in D \ {p})
  <2>2. Voice(Way(o), e.told, x, K)
    BY DEF Sound, Speaks
  <2>3. m.pane = x => /\ m.kind = "output" => ~K
                      /\ m.kind = "pause" => ~K /\ L
                      /\ m.kind = "continue" => K /\ ~L
    OBVIOUS
  <2>4. ~ (m.pane = x /\ m.kind \in {"pause", "continue"}) => L = K
    OBVIOUS
  <2>5. K \in BOOLEAN /\ L \in BOOLEAN
    OBVIOUS
  <2> HIDE DEF K, L
  <2>6. Voice(Append(Way(o), m), e.told, x, L)
    BY <2>1, <2>2, <2>3, <2>4, <2>5, AppendVoice
  <2> QED BY <2>1, <2>6 DEF L
<1> QED BY <1>1, <1>2, <1>3, <1>4 DEF Sound

\* The next output of a pane that is heard is queued.
LEMMA EnqueueOutput ==
  ASSUME NEW o \in Side, NEW m \in Fresh, NEW t \in Side, Enqueued(o, m, t),
         o.live, NEW D, NEW e \in Account, Sound(o, D, FALSE, e),
         o.ctl.cost + 1 + Len(o.chan) <= ByteLimit,
         NEW p \in Panes, m.kind = "output", m.pane = p, m.n = e.made[p] + 1,
         Audible(o.ctl, p), p \notin D, e.last[p] <= e.made[p]
  PROVE  Sound(t, D, FALSE, [e EXCEPT !.made[p] = @ + 1])
<1> DEFINE f == [e EXCEPT !.made[p] = @ + 1]
<1>1. /\ f.sent = e.sent /\ f.read = e.read /\ f.told = e.told /\ f.last = e.last
      /\ f.since = e.since /\ f.made = [e.made EXCEPT ![p] = @ + 1]
      /\ e.made \in [Panes -> Nat] /\ e.last \in [Panes -> Nat] /\ e.since \in [Panes -> Nat]
  BY DEF Account
<1> HIDE DEF f
<1>2. /\ Way(t) = Append(Way(o), m) /\ Way(o) \in Seq(Message) /\ m \in Message
      /\ t.live = o.live /\ \A x : Audible(t.ctl, x) <=> Audible(o.ctl, x)
  <2>1. Way(t) = Append(Way(o), m)
    <3>1. Joined(o, m, t)
      BY ONLY o \in Side, m \in Fresh, t \in Side, Enqueued(o, m, t), EnqueuedFields
    <3> QED BY ONLY <3>1 DEF Joined
  <2>2. Way(o) \in Seq(Message)
    BY WayPlaces
  <2>3. m \in Message
    BY FreshMessages
  <2>4. t.live = o.live
    BY DEF Enqueued
  <2>5. \A x : Audible(t.ctl, x) <=> Audible(o.ctl, x)
    <3>1. Joined(o, m, t)
      BY ONLY o \in Side, m \in Fresh, t \in Side, Enqueued(o, m, t), EnqueuedFields
    <3> QED BY ONLY <3>1 DEF Joined
  <2> QED BY ONLY <2>1, <2>2, <2>3, <2>4, <2>5
<1>3. Counted(t) /\ Parted(t, FALSE) /\ Queues(t, D)
  BY EnqueuedFrame
<1>4. Ordered(t, f)
  <2>1. Ordered(t, e)
    BY EnqueuedOrdered DEF Sound
  <2> QED BY <1>1, <2>1 DEF Ordered
<1>5. Hears(t, f)
  <2> SUFFICES ASSUME NEW x \in Panes
               PROVE  /\ Heard(Way(t), x, f.last[x], f.made[x])
                      /\ Audible(t.ctl, x) => Whole(Way(t), x, f.last[x], f.since[x], f.made[x])
    BY DEF Hears
  <2>1. /\ Heard(Way(o), x, e.last[x], e.made[x])
        /\ Audible(o.ctl, x) => Whole(Way(o), x, e.last[x], e.since[x], e.made[x])
    BY DEF Sound, Hears
  <2>2. CASE x = p
    <3>1. f.made[x] = e.made[p] + 1 /\ e.last[p] \in Nat /\ e.made[p] \in Nat /\ e.since[p] \in Nat
      BY <1>1, <2>2
    <3>2. Heard(Append(Way(o), m), p, e.last[p], e.made[p] + 1)
          /\ Whole(Append(Way(o), m), p, e.last[p], e.since[p], e.made[p] + 1)
      BY <1>2, <2>1, <2>2, <3>1, AppendOutput
    <3> QED BY <1>1, <1>2, <2>2, <3>1, <3>2
  <2>3. CASE x # p
    <3>1. f.made[x] = e.made[x]
      BY <1>1, <2>3
    <3>2. m.pane # x
      BY <2>3
    <3>3. /\ Heard(Way(o), x, e.last[x], e.made[x]) => Heard(Append(Way(o), m), x, e.last[x], e.made[x])
          /\ Whole(Way(o), x, e.last[x], e.since[x], e.made[x])
               => Whole(Append(Way(o), m), x, e.last[x], e.since[x], e.made[x])
      BY <1>2, <3>2, AppendHeard
    <3> QED BY <1>1, <1>2, <2>1, <3>1, <3>3
  <2> QED BY <2>2, <2>3
<1>6. Speaks(t, f, D, FALSE)
  <2>1. Speaks(t, e, D, FALSE)
    BY EnqueuedSpeaks DEF Sound
  <2> QED BY <1>1, <2>1 DEF Speaks
<1> QED BY <1>3, <1>4, <1>5, <1>6 DEF Sound, f

-----------------------------------------------------------------------------
(* A message moves from the queue to the channel                           *)

\* A list without its first, place by place
LEMMA RestPlaces ==
  ASSUME NEW S, NEW l \in Seq(S), l # <<>>
  PROVE  /\ Tail(l) \in Seq(S) /\ Len(l) \in Nat /\ Len(l) >= 1 /\ Len(Tail(l)) = Len(l) - 1
         /\ Head(l) = l[1] /\ l[1] \in S
         /\ \A i \in 1..(Len(l) - 1) : Tail(l)[i] = l[i + 1]
OBVIOUS

\* The front of the queue goes to the channel, escaped or not.
LEMMA MoveWay ==
  ASSUME NEW o \in Side, NEW t \in Side, o.ctl.pending # <<>>, NEW m \in Text,
         m.kind = o.ctl.pending[1].m.kind, m.pane = o.ctl.pending[1].m.pane,
         m.n = o.ctl.pending[1].m.n,
         t.chan = Append(o.chan, m), t.ctl.pending = Tail(o.ctl.pending)
  PROVE  SameText(Way(o), Way(t))
<1> DEFINE c == o.chan
           l == o.ctl.pending
           W == Way(o)
           V == Way(t)
           r == Tail(l)
<1>1. /\ W \in Seq(Message) /\ Len(c) \in Nat /\ Len(l) \in Nat
      /\ Len(W) = Len(c) + Len(l)
      /\ \A i \in 1..Len(c) : W[i] = c[i]
      /\ \A i \in 1..Len(l) : W[Len(c) + i] = l[i].m
  BY WayPlaces
<1>2. /\ V \in Seq(Message)
      /\ Len(V) = Len(t.chan) + Len(t.ctl.pending)
      /\ \A i \in 1..Len(t.chan) : V[i] = t.chan[i]
      /\ \A i \in 1..Len(t.ctl.pending) : V[Len(t.chan) + i] = t.ctl.pending[i].m
  BY WayPlaces
<1>3. c \in Seq(Text) /\ l \in Seq(Queued)
  BY SideFields
<1>4. /\ Len(t.chan) = Len(c) + 1 /\ t.chan[Len(c) + 1] = m
      /\ \A i \in 1..Len(c) : t.chan[i] = c[i]
  <2> HIDE DEF c
  <2>1. t.chan = Append(c, m)
    BY DEF c
  <2> QED BY <1>3, <2>1
<1>5. /\ Len(t.ctl.pending) = Len(l) - 1 /\ Len(l) >= 1
      /\ \A i \in 1..(Len(l) - 1) : t.ctl.pending[i] = l[i + 1]
  <2>1. t.ctl.pending = Tail(l) /\ l # <<>>
    BY DEF l
  <2>2. l \in Seq(Queued)
    BY <1>3
  <2>3. /\ Len(l) \in Nat /\ Len(l) >= 1 /\ Len(Tail(l)) = Len(l) - 1
        /\ \A i \in 1..(Len(l) - 1) : Tail(l)[i] = l[i + 1]
    BY ONLY <2>1, <2>2, RestPlaces
  <2> QED BY ONLY <2>1, <2>3
<1>6. m.kind = l[1].m.kind /\ m.pane = l[1].m.pane /\ m.n = l[1].m.n
  BY DEF l
<1> HIDE DEF c, l, W, V, r
<1>7. Len(V) = Len(W)
  <2>1. Len(V) = (Len(c) + 1) + (Len(l) - 1)
    BY <1>2, <1>4, <1>5
  <2> QED BY <1>1, <2>1
<1>8. ASSUME NEW i \in 1..Len(W)
      PROVE  V[i].kind = W[i].kind /\ V[i].pane = W[i].pane /\ V[i].n = W[i].n
  <2>1. CASE i \in 1..Len(c)
    <3>1. i \in 1..Len(t.chan)
      BY <1>1, <1>4, <2>1
    <3>2. V[i] = c[i] /\ W[i] = c[i]
      BY <1>1, <1>2, <1>4, <2>1, <3>1
    <3> QED BY <3>2
  <2>2. CASE i = Len(c) + 1
    <3>1. i \in 1..Len(t.chan) /\ 1 \in 1..Len(l)
      BY <1>1, <1>4, <1>5, <2>2
    <3>2. V[i] = m
      BY <1>2, <1>4, <2>2, <3>1
    <3>3. W[i] = l[1].m
      BY <1>1, <2>2, <3>1
    <3> QED BY <1>6, <3>2, <3>3
  <2>3. CASE i \notin 1..Len(c) /\ i # Len(c) + 1
    <3> DEFINE j == i - Len(c) - 1
    <3>1. /\ j \in 1..(Len(l) - 1) /\ j + 1 \in 1..Len(l)
          /\ i = Len(t.chan) + j /\ i = Len(c) + (j + 1)
      BY <1>1, <1>4, <1>5, <2>3
    <3> HIDE DEF j
    <3>2. V[Len(t.chan) + j] = t.ctl.pending[j].m
      BY <1>2, <1>5, <3>1
    <3>3. W[Len(c) + (j + 1)] = l[j + 1].m
      BY <1>1, <3>1
    <3>4. t.ctl.pending[j] = l[j + 1]
      BY <1>5, <3>1
    <3>5. V[i] = W[i]
      BY <3>1, <3>2, <3>3, <3>4
    <3> QED BY <3>5
  <2> QED BY <2>1, <2>2, <2>3
<1> QED BY <1>7, <1>8 DEF SameText, W, V

\* A message that leaves the queue for the channel keeps every claim.
LEMMA MoveKeeps ==
  ASSUME NEW o \in Side, NEW t \in Side, o.ctl.pending # <<>>, NEW m \in Text,
         m.kind = o.ctl.pending[1].m.kind, m.pane = o.ctl.pending[1].m.pane,
         m.n = o.ctl.pending[1].m.n, m.kind # "detached",
         t.chan = Append(o.chan, m), t.ctl.pending = Tail(o.ctl.pending),
         t.ctl.cost = o.ctl.cost - 1, t.bytes = o.bytes + Cost(m),
         t.ctl.closing = o.ctl.closing, t.ctl.paused = o.ctl.paused,
         \A p : Audible(t.ctl, p) <=> Audible(o.ctl, p),
         Len(o.chan) < ChannelCap, o.live, t.live,
         NEW D, NEW C \in BOOLEAN, NEW e, Sound(o, D, C, e)
  PROVE  Sound(t, D, C, e)
<1>1. SameText(Way(o), Way(t)) /\ Way(o) \in Seq(Message) /\ Way(t) \in Seq(Message)
  BY MoveWay, WayPlaces
<1>2. /\ o.chan \in Seq(Message) /\ o.ctl.pending \in Seq(Queued) /\ o.ctl.cost \in Int
      /\ Len(o.chan) \in Nat /\ ChannelCap \in Nat /\ m \in Message
  <2>1. m \in Message
    BY DEF Text
  <2>2. o.chan \in Seq(Message) /\ o.ctl.pending \in Seq(Queued) /\ o.ctl.cost \in Int
    BY SideFields
  <2>3. Len(o.chan) \in Nat
    BY <2>2
  <2> QED BY <2>1, <2>2, <2>3, ControlAssumption
<1>3. m.kind # "exit"
  <2>1. o.ctl.pending[1] \in Queued
    BY <1>2
  <2>2. o.ctl.pending[1].m \in Fresh
    BY <2>1 DEF Queued
  <2> QED BY <2>2, FreshMessages
<1>4. Counted(t)
  <2>1. Total(t.chan) = Total(o.chan) + Paid(m) /\ Paid(m) = Cost(m)
    BY <1>2, <1>3, TotalAppend, PaidBounds
  <2>2. Len(t.chan) = Len(o.chan) + 1
    BY <1>2
  <2>3. Len(t.ctl.pending) = Len(o.ctl.pending) - 1
    BY <1>2
  <2>4. o.bytes = Total(o.chan) /\ o.ctl.cost = Len(o.ctl.pending)
        /\ o.ctl.cost + Len(o.chan) <= ByteLimit
    BY DEF Sound, Counted
  <2>5. Without(t.chan, {"exit", "detached"})
    <3>1. Without(o.chan, {"exit", "detached"})
      BY DEF Sound, Counted
    <3>2. /\ DOMAIN t.chan = 1..(Len(o.chan) + 1) /\ DOMAIN o.chan = 1..Len(o.chan)
          /\ t.chan[Len(o.chan) + 1] = m /\ \A i \in 1..Len(o.chan) : t.chan[i] = o.chan[i]
      BY <1>2, AppendPlaces
    <3>3. ASSUME NEW i \in 1..(Len(o.chan) + 1) PROVE t.chan[i].kind \notin {"exit", "detached"}
      <4>1. CASE i \in 1..Len(o.chan)
        BY <3>1, <3>2, <4>1 DEF Without
      <4>2. CASE i = Len(o.chan) + 1
        BY <1>3, <3>2, <4>2
      <4> QED BY <1>2, <4>1, <4>2
    <3> QED BY <3>2, <3>3 DEF Without
  <2>6. /\ t.bytes = Total(t.chan) /\ Len(t.chan) <= ChannelCap
        /\ t.ctl.cost = Len(t.ctl.pending) /\ t.ctl.cost + Len(t.chan) <= ByteLimit
    <3>1. t.bytes = Total(t.chan)
      BY <2>1, <2>4
    <3>2. Len(t.chan) <= ChannelCap
      BY <1>2, <2>2
    <3>3. t.ctl.cost = Len(t.ctl.pending)
      BY <2>3, <2>4
    <3>4. t.ctl.cost + Len(t.chan) <= ByteLimit
      <4> DEFINE cost == o.ctl.cost
                 size == Len(o.chan)
      <4>1. cost \in Int /\ size \in Nat /\ cost + size <= ByteLimit /\ ByteLimit \in Nat
            /\ t.ctl.cost = cost - 1 /\ Len(t.chan) = size + 1
        BY <1>2, <2>2, <2>4, ControlAssumption
      <4> QED BY ONLY <4>1
    <3> QED BY <3>1, <3>2, <3>3, <3>4
  <2> QED BY <2>5, <2>6 DEF Counted
<1>5. Ordered(t, e)
  <2>1. Numbered(Way(o), NotesIn(Way(o)), e.read + 1 .. e.sent) /\ NotesFirst(Way(o))
    BY DEF Sound, Ordered
  <2> QED BY <1>1, <2>1, SameNotes, SameNotesFirst DEF Ordered
<1>6. Parted(t, C)
  <2>1. Without(Way(o), {"detached"}) \/ C
    BY DEF Sound, Parted
  <2>2. Without(Way(o), {"detached"}) => Without(Way(t), {"detached"})
    BY <1>1, SMTT(60) DEF SameText, Without
  <2> QED BY <2>1, <2>2 DEF Sound, Parted
<1>7. Hears(t, e)
  <2> SUFFICES ASSUME NEW p \in Panes
               PROVE  /\ Heard(Way(t), p, e.last[p], e.made[p])
                      /\ Audible(t.ctl, p)
                           => Whole(Way(t), p, e.last[p], e.since[p], e.made[p])
    BY DEF Hears
  <2>1. /\ Heard(Way(o), p, e.last[p], e.made[p])
        /\ Audible(o.ctl, p) => Whole(Way(o), p, e.last[p], e.since[p], e.made[p])
    BY DEF Sound, Hears
  <2> QED BY <1>1, <2>1, SameHeard
<1>8. Queues(t, D)
  <2>1. \A i \in DOMAIN t.ctl.pending : i + 1 \in DOMAIN o.ctl.pending
                                        /\ t.ctl.pending[i] = o.ctl.pending[i + 1]
    BY <1>2, SMTT(60)
  <2>2. Queues(o, D)
    BY DEF Sound
  <2> SUFFICES ASSUME NEW i \in DOMAIN t.ctl.pending, t.ctl.pending[i].m.kind = "output"
               PROVE  Audible(t.ctl, t.ctl.pending[i].m.pane) /\ t.ctl.pending[i].m.pane \notin D
    BY DEF Queues
  <2>3. i + 1 \in DOMAIN o.ctl.pending /\ t.ctl.pending[i] = o.ctl.pending[i + 1]
    BY <2>1
  <2>4. o.ctl.pending[i + 1].m.kind = "output"
    BY <2>3
  <2>5. /\ Audible(o.ctl, o.ctl.pending[i + 1].m.pane)
        /\ o.ctl.pending[i + 1].m.pane \notin D
    BY <2>2, <2>3, <2>4 DEF Queues
  <2> QED BY <2>3, <2>5
<1>9. Speaks(t, e, D, C)
  <2> SUFFICES ASSUME ~C, NEW p \in Panes
               PROVE  Voice(Way(t), e.told, p, (p \in t.ctl.paused) # (p \in D))
    BY DEF Speaks
  <2>1. Voice(Way(o), e.told, p, (p \in o.ctl.paused) # (p \in D))
    BY DEF Sound, Speaks
  <2>2. Voice(Way(o), e.told, p, (p \in t.ctl.paused) # (p \in D))
    BY <2>1
  <2> QED BY <1>1, <2>2, SameVoice
<1> QED BY <1>4, <1>5, <1>6, <1>7, <1>8, <1>9 DEF Sound

\* What tells the client to go leaves last.
LEMMA PartKeeps ==
  ASSUME NEW o \in Side, NEW t \in Side, o.ctl.pending # <<>>, NEW m \in Text,
         m.kind = "detached", o.ctl.pending[1].m.kind = "detached",
         t.chan = Append(o.chan, m), t.ctl = NewControl, t.bytes = o.bytes + Cost(m),
         Len(o.chan) < ChannelCap, o.live, ~t.live,
         NEW D, NEW C \in BOOLEAN, NEW e, Sound(o, D, C, e)
  PROVE  Sound(t, D, C, e)
<1> DEFINE c == o.chan
           W == Way(o)
           V == Way(t)
           k == Len(c) + 1
<1>1. /\ W \in Seq(Message) /\ Len(c) \in Nat /\ Len(o.ctl.pending) >= 1
      /\ DOMAIN W = 1..(Len(c) + Len(o.ctl.pending)) /\ Len(o.ctl.pending) \in Nat
      /\ \A i \in 1..Len(c) : W[i] = c[i]
      /\ W[k].kind = "detached" /\ k \in DOMAIN W
  <2>1. /\ W \in Seq(Message) /\ Len(c) \in Nat /\ Len(o.ctl.pending) \in Nat
        /\ DOMAIN W = 1..(Len(c) + Len(o.ctl.pending))
        /\ \A i \in 1..Len(c) : W[i] = c[i]
        /\ \A i \in 1..Len(o.ctl.pending) : W[Len(c) + i] = o.ctl.pending[i].m
    BY WayPlaces, ZenonT(120)
  <2>2. o.ctl.pending \in Seq(Queued)
    BY SideFields
  <2>3. Len(o.ctl.pending) >= 1
    BY <2>2, RestPlaces
  <2>4. 1 \in 1..Len(o.ctl.pending)
    BY <2>1, <2>3
  <2>5. W[Len(c) + 1] = o.ctl.pending[1].m
    BY <2>1, <2>4
  <2>6. k \in DOMAIN W
    <3> DEFINE size == Len(o.ctl.pending)
    <3>1. size \in Nat /\ size >= 1 /\ Len(c) \in Nat /\ DOMAIN W = 1..(Len(c) + size)
      BY <2>1, <2>3
    <3> HIDE DEF size, W, c
    <3> QED BY ONLY <3>1
  <2>7. W[k].kind = "detached"
    BY <2>5
  <2> HIDE DEF W, k, c
  <2> QED BY <2>1, <2>3, <2>6, <2>7
<1>2. /\ V \in Seq(Message) /\ DOMAIN V = 1..k /\ \A i \in 1..Len(c) : V[i] = c[i]
      /\ V[k] = m /\ Len(t.chan) = k
  <2>1. t.ctl.pending = <<>>
    BY NewControlType
  <2>2. Len(t.ctl.pending) = 0
    BY <2>1
  <2>3. /\ V \in Seq(Message) /\ Len(t.chan) \in Nat
        /\ DOMAIN V = 1..(Len(t.chan) + Len(t.ctl.pending))
        /\ \A i \in 1..Len(t.chan) : V[i] = t.chan[i]
    BY WayPlaces
  <2>4. c \in Seq(Text)
    BY SideFields
  <2>5. Len(t.chan) = k /\ t.chan[k] = m /\ \A i \in 1..Len(c) : t.chan[i] = c[i]
    <3> HIDE DEF c
    <3>1. t.chan = Append(c, m)
      BY DEF c
    <3> QED BY <2>4, <3>1
  <2> HIDE DEF c, V
  <2>6. k \in Nat /\ k >= 1 /\ \A i \in 1..Len(c) : i \in 1..k
    BY <1>1
  <2>7. DOMAIN V = 1..k
    BY <2>2, <2>3, <2>5, <2>6
  <2> HIDE DEF k
  <2> QED BY <2>3, <2>5, <2>6, <2>7
<1>3. c \in Seq(Message) /\ m \in Message
  <2>1. m \in Message
    BY DEF Text
  <2> QED BY <2>1, SideFields
<1>4. Total(t.chan) = Total(o.chan) + Paid(m) /\ Paid(m) = Cost(m)
  BY <1>3, TotalAppend, PaidBounds
<1>5. o.bytes = Total(o.chan)
  BY DEF Sound, Counted
<1>6. Numbered(W, NotesIn(W), e.read + 1 .. e.sent) /\ NotesFirst(W)
  BY DEF Sound, Ordered
<1>7. Without(W, {"detached"}) \/ C
  BY DEF Sound, Parted
<1> HIDE DEF c, W, V
<1>8. Counted(t)
  <2>1. Len(t.chan) <= ChannelCap
    BY <1>1, <1>2, ControlAssumption DEF c
  <2> QED BY <1>4, <1>5, <2>1 DEF Counted
<1>9. C
  BY <1>1, <1>7 DEF Without
<1>10. \A i \in NotesIn(W) : i < k /\ i \in 1..Len(c)
  <2> SUFFICES ASSUME NEW i \in NotesIn(W) PROVE i < k /\ i \in 1..Len(c)
    OBVIOUS
  <2>1. i \in DOMAIN W /\ W[i].kind = "note"
    BY DEF NotesIn
  <2>2. i < k
    BY <1>1, <1>6, <2>1 DEF NotesFirst
  <2>3. i \in Nat /\ i >= 1
    BY <1>1, <2>1
  <2> QED BY <1>1, <2>2, <2>3
<1>11. NotesIn(V) = NotesIn(W) /\ \A i \in NotesIn(W) : V[i].n = W[i].n
  <2>1. ASSUME NEW i \in NotesIn(V) PROVE i \in NotesIn(W)
    <3>1. i \in 1..k /\ V[i].kind = "note"
      BY <1>2 DEF NotesIn
    <3>2. i # k
      BY <1>2, <3>1
    <3>3. i \in 1..Len(c)
      BY <1>1, <3>1, <3>2
    <3>4. W[i].kind = "note" /\ i \in DOMAIN W
      BY <1>1, <1>2, <3>1, <3>3
    <3> QED BY <3>4 DEF NotesIn
  <2>2. ASSUME NEW i \in NotesIn(W) PROVE i \in NotesIn(V) /\ V[i].n = W[i].n
    <3>1. i \in 1..Len(c) /\ W[i].kind = "note"
      BY <1>10 DEF NotesIn
    <3>2. V[i] = W[i] /\ i \in 1..k
      BY <1>1, <1>2, <3>1
    <3> QED BY <1>2, <3>1, <3>2 DEF NotesIn
  <2> QED BY <2>1, <2>2
<1>12. Numbered(V, NotesIn(V), e.read + 1 .. e.sent)
  BY <1>6, <1>11 DEF Numbered
<1>13. NotesFirst(V)
  <2> SUFFICES ASSUME NEW i \in DOMAIN V, NEW j \in DOMAIN V, V[i].kind = "detached",
                      V[j].kind = "note"
               PROVE  j < i
    BY DEF NotesFirst
  <2>1. j \in NotesIn(W)
    BY <1>11 DEF NotesIn
  <2>2. CASE i = k
    BY <1>10, <2>1, <2>2
  <2>3. CASE i # k
    <3>1. i \in 1..Len(c)
      BY <1>1, <1>2, <2>3
    <3>2. W[i] = V[i] /\ i \in DOMAIN W
      BY <1>1, <1>2, <3>1
    <3>3. j \in DOMAIN W /\ W[j].kind = "note"
      BY <2>1 DEF NotesIn
    <3> QED BY <1>6, <3>2, <3>3 DEF NotesFirst
  <2> QED BY <2>2, <2>3
<1>14. Ordered(t, e)
  BY <1>12, <1>13 DEF Ordered, V
<1>15. Parted(t, C) /\ Hears(t, e) /\ Speaks(t, e, D, C)
  BY <1>9 DEF Parted, Hears, Speaks
<1>16. Queues(t, D)
  BY NewControlType DEF Queues
<1> QED BY <1>8, <1>14, <1>15, <1>16 DEF Sound

\* Where what stays of a queue was in it: list is queue without some output of X.
Places(list, queue, X, at) ==
  /\ at \in [1..Len(list) -> 1..Len(queue)]
  /\ \A k \in 1..Len(list) : list[k] = queue[at[k]]
  /\ \A j, k \in 1..Len(list) : j < k => at[j] < at[k]
  /\ \A i \in 1..Len(queue) :
       \/ queue[i].m.kind = "output" /\ queue[i].m.pane \in X
       \/ \E k \in 1..Len(list) : at[k] = i

\* A queue without the output of X
LEMMA KeptQueue ==
  ASSUME NEW l \in Seq(Queued), NEW X
  PROVE  /\ Kept(l, Others(l, X)) \in Seq(Queued) /\ Len(Kept(l, Others(l, X))) <= Len(l)
         /\ \A k \in 1..Len(Kept(l, Others(l, X))) :
              ~ (Kept(l, Others(l, X))[k].m.kind = "output"
                 /\ Kept(l, Others(l, X))[k].m.pane \in X)
         /\ \E at : Places(Kept(l, Others(l, X)), l, X, at)
<1> DEFINE I == Others(l, X)
           r == Kept(l, I)
<1>1. I \subseteq DOMAIN l /\ DOMAIN l = 1..Len(l) /\ Len(l) \in Nat
  BY DEF Others
<1>2. \A i \in I : ~ (l[i].m.kind = "output" /\ l[i].m.pane \in X)
  BY DEF Others
<1>3. \A i \in 1..Len(l) : i \in I \/ (l[i].m.kind = "output" /\ l[i].m.pane \in X)
  BY <1>1 DEF Others
<1> HIDE DEF I
<1>0. r = Kept(l, I)
  OBVIOUS
<1> HIDE DEF r
<1>4. /\ r \in Seq(Queued) /\ Len(r) <= Len(l)
      /\ \E at \in [1..Len(r) -> I] :
              /\ \A k \in 1..Len(r) : r[k] = l[at[k]]
              /\ \A j, k \in 1..Len(r) : j < k => at[j] < at[k]
              /\ \A i \in I : \E k \in 1..Len(r) : at[k] = i
  BY <1>0, <1>1, KeptPlaces, SMTT(60)
<1>5. PICK at \in [1..Len(r) -> I] :
              /\ \A k \in 1..Len(r) : r[k] = l[at[k]]
              /\ \A j, k \in 1..Len(r) : j < k => at[j] < at[k]
              /\ \A i \in I : \E k \in 1..Len(r) : at[k] = i
  BY <1>4
<1>6. \A k \in 1..Len(r) : ~ (r[k].m.kind = "output" /\ r[k].m.pane \in X)
  BY <1>2, <1>5
<1>7. Places(r, l, X, at)
  <2>1. at \in [1..Len(r) -> 1..Len(l)]
    BY <1>1, <1>5
  <2> QED BY <1>3, <1>5, <2>1 DEF Places
<1> QED BY <1>4, <1>6, <1>7 DEF r, I

\* The way to the client with a queue that is thinned
LEMMA ThinWay ==
  ASSUME NEW o \in Side, NEW t \in Side, t.chan = o.chan, NEW X, NEW at,
         Places(t.ctl.pending, o.ctl.pending, X, at)
  PROVE  Thinned(Way(o), Way(t), X)
<1> DEFINE c == o.chan
           l == o.ctl.pending
           r == t.ctl.pending
           W == Way(o)
           V == Way(t)
           n == Len(c)
           to == [k \in 1..Len(V) |-> IF k <= n THEN k ELSE n + at[k - n]]
<1>1. /\ W \in Seq(Message) /\ n \in Nat /\ Len(l) \in Nat /\ Len(W) = n + Len(l)
      /\ \A i \in 1..n : W[i] = c[i]
      /\ \A i \in 1..Len(l) : W[n + i] = l[i].m
  BY WayPlaces
<1>2. /\ V \in Seq(Message) /\ Len(r) \in Nat /\ Len(V) = n + Len(r)
      /\ \A i \in 1..n : V[i] = c[i]
      /\ \A i \in 1..Len(r) : V[n + i] = r[i].m
  <2>1. /\ V \in Seq(Message) /\ Len(r) \in Nat /\ Len(V) = Len(t.chan) + Len(r)
        /\ \A i \in 1..Len(t.chan) : V[i] = t.chan[i]
        /\ \A i \in 1..Len(r) : V[Len(t.chan) + i] = r[i].m
    BY WayPlaces
  <2> QED BY <2>1
<1>3. Places(r, l, X, at)
  OBVIOUS
<1> HIDE DEF c, l, r, W, V, n
<1>4. \A k \in 1..Len(V) : k \in 1..n \/ (k > n /\ k - n \in 1..Len(r) /\ k = n + (k - n))
  BY <1>1, <1>2
<1>5. \A k \in 1..Len(r) : at[k] \in 1..Len(l) /\ r[k] = l[at[k]]
  BY <1>3 DEF Places
<1>6. ASSUME NEW k \in 1..Len(V) PROVE to[k] \in 1..Len(W) /\ V[k] = W[to[k]]
  <2>1. CASE k \in 1..n
    <3>1. to[k] = k /\ k \in 1..Len(W)
      BY <1>1, <2>1
    <3> QED BY <1>1, <1>2, <2>1, <3>1
  <2>2. CASE k \notin 1..n
    <3>1. k > n /\ k - n \in 1..Len(r) /\ k = n + (k - n)
      BY <1>4, <2>2
    <3>2. to[k] = n + at[k - n]
      BY <1>1, <3>1
    <3> HIDE DEF to
    <3>3. at[k - n] \in 1..Len(l) /\ r[k - n] = l[at[k - n]]
      BY <1>5, <3>1
    <3>4. V[n + (k - n)] = r[k - n].m
      BY <1>2, <3>1
    <3>5. W[n + at[k - n]] = l[at[k - n]].m
      BY <1>1, <3>3
    <3>6. n + at[k - n] \in 1..Len(W)
      BY <1>1, <3>3, SMTT(60)
    <3> QED BY <3>1, <3>2, <3>3, <3>4, <3>5, <3>6
  <2> QED BY <2>1, <2>2
<1>7. ASSUME NEW j \in 1..Len(V), NEW k \in 1..Len(V), j < k PROVE to[j] < to[k]
  <2>1. CASE k \in 1..n
    BY <1>1, <1>7, <2>1
  <2>2. CASE k \notin 1..n
    <3>1. k > n /\ k - n \in 1..Len(r) /\ to[k] = n + at[k - n] /\ at[k - n] \in 1..Len(l)
      BY <1>1, <1>4, <1>5, <2>2
    <3>2. CASE j \in 1..n
      <4>1. to[j] = j
        BY <1>1, <3>2
      <4> HIDE DEF to
      <4> QED BY <1>1, <3>1, <3>2, <4>1, SMTT(60)
    <3>3. CASE j \notin 1..n
      <4>1. j > n /\ j - n \in 1..Len(r) /\ to[j] = n + at[j - n] /\ at[j - n] \in 1..Len(l)
        BY <1>1, <1>4, <1>5, <3>3
      <4>2. j - n < k - n
        BY <1>1, <1>7
      <4>3. at[j - n] < at[k - n]
        BY <1>3, <3>1, <4>1, <4>2 DEF Places
      <4> HIDE DEF to
      <4> QED BY <1>1, <3>1, <4>1, <4>3, SMTT(60)
    <3> QED BY <3>2, <3>3
  <2> QED BY <2>1, <2>2
<1>8. ASSUME NEW i \in 1..Len(W)
      PROVE  \/ W[i].kind = "output" /\ W[i].pane \in X
             \/ \E k \in 1..Len(V) : to[k] = i
  <2>1. CASE i \in 1..n
    <3>1. i \in 1..Len(V) /\ to[i] = i
      BY <1>1, <1>2, <2>1
    <3> QED BY <3>1
  <2>2. CASE i \notin 1..n
    <3> DEFINE j == i - n
    <3>1. j \in 1..Len(l) /\ i = n + j
      BY <1>1, <2>2
    <3> HIDE DEF j
    <3>2. W[i] = l[j].m
      BY <1>1, <3>1
    <3>3. CASE l[j].m.kind = "output" /\ l[j].m.pane \in X
      BY <3>2, <3>3
    <3>4. CASE ~ (l[j].m.kind = "output" /\ l[j].m.pane \in X)
      <4>1. PICK k \in 1..Len(r) : at[k] = j
        BY <1>3, <3>1, <3>4 DEF Places
      <4>2. n + k \in 1..Len(V) /\ (n + k) - n = k /\ ~ (n + k <= n)
        BY <1>1, <1>2
      <4>3. to[n + k] = n + at[(n + k) - n]
        BY <4>2
      <4>4. to[n + k] = i
        BY <3>1, <4>1, <4>2, <4>3
      <4> HIDE DEF to
      <4> QED BY <4>2, <4>4
    <3> QED BY <3>3, <3>4
  <2> QED BY <2>1, <2>2
<1>9. to \in [1..Len(V) -> 1..Len(W)]
  BY <1>6
<1> HIDE DEF to
<1>10. Thinned(W, V, X)
  BY <1>6, <1>7, <1>8, <1>9 DEF Thinned
<1> QED BY <1>10 DEF W, V

-----------------------------------------------------------------------------
(* Output leaves the queue                                                 *)

\* The queue without its first message, which is output of p, and the rest of it
LEMMA LateQueue ==
  ASSUME NEW l \in Seq(Queued), l # <<>>, NEW p,
         l[1].m.kind = "output", l[1].m.pane = p
  PROVE  LET r == Kept(Tail(l), Others(Tail(l), {p})) IN
         /\ r \in Seq(Queued) /\ Len(r) <= Len(l) - 1
         /\ \A k \in 1..Len(r) : ~ (r[k].m.kind = "output" /\ r[k].m.pane = p)
         /\ \E at : Places(r, l, {p}, at)
<1> DEFINE u == Tail(l)
           r == Kept(u, Others(u, {p}))
<1>1. /\ u \in Seq(Queued) /\ Len(l) \in Nat /\ Len(l) >= 1 /\ Len(u) = Len(l) - 1
      /\ \A i \in 1..(Len(l) - 1) : u[i] = l[i + 1]
  BY RestPlaces
<1> HIDE DEF u
<1>0. r = Kept(u, Others(u, {p}))
  OBVIOUS
<1> HIDE DEF r
<1>2. /\ r \in Seq(Queued) /\ Len(r) <= Len(u)
      /\ \A k \in 1..Len(r) : ~ (r[k].m.kind = "output" /\ r[k].m.pane \in {p})
      /\ \E at : Places(r, u, {p}, at)
  BY <1>0, <1>1, KeptQueue
<1>3. PICK at : Places(r, u, {p}, at)
  BY <1>2
<1>4. /\ at \in [1..Len(r) -> 1..Len(u)]
      /\ \A k \in 1..Len(r) : r[k] = u[at[k]]
      /\ \A j, k \in 1..Len(r) : j < k => at[j] < at[k]
      /\ \A i \in 1..Len(u) :
           \/ u[i].m.kind = "output" /\ u[i].m.pane \in {p}
           \/ \E k \in 1..Len(r) : at[k] = i
  BY <1>3 DEF Places
<1> DEFINE to == [k \in 1..Len(r) |-> at[k] + 1]
<1>5. \A k \in 1..Len(r) : at[k] \in 1..(Len(l) - 1)
  BY <1>1, <1>4
<1>6. ASSUME NEW k \in 1..Len(r) PROVE to[k] \in 1..Len(l) /\ r[k] = l[to[k]]
  <2>1. at[k] \in 1..(Len(l) - 1) /\ to[k] = at[k] + 1 /\ r[k] = u[at[k]]
    BY <1>4, <1>5
  <2> HIDE DEF to
  <2>2. u[at[k]] = l[at[k] + 1]
    BY <1>1, <2>1
  <2> QED BY <1>1, <2>1, <2>2
<1>7. ASSUME NEW j \in 1..Len(r), NEW k \in 1..Len(r), j < k PROVE to[j] < to[k]
  <2>1. at[j] < at[k] /\ at[j] \in Int /\ at[k] \in Int
    BY <1>4, <1>5, <1>7
  <2> QED BY <2>1
<1>8. ASSUME NEW i \in 1..Len(l)
      PROVE  \/ l[i].m.kind = "output" /\ l[i].m.pane \in {p}
             \/ \E k \in 1..Len(r) : to[k] = i
  <2>1. CASE i = 1
    BY <2>1
  <2>2. CASE i # 1
    <3>1. i - 1 \in 1..(Len(l) - 1) /\ i - 1 \in 1..Len(u) /\ (i - 1) + 1 = i
      BY <1>1, <2>2
    <3>2. u[i - 1] = l[i]
      BY <1>1, <3>1
    <3>3. \/ u[i - 1].m.kind = "output" /\ u[i - 1].m.pane \in {p}
          \/ \E k \in 1..Len(r) : at[k] = i - 1
      BY <1>4, <3>1
    <3>4. ASSUME NEW k \in 1..Len(r), at[k] = i - 1 PROVE to[k] = i
      BY <3>1, <3>4
    <3> HIDE DEF to
    <3> QED BY <3>2, <3>3, <3>4
  <2> QED BY <2>1, <2>2
<1>9. to \in [1..Len(r) -> 1..Len(l)]
  BY <1>6
<1> HIDE DEF to
<1>10. Places(r, l, {p}, to)
  BY <1>6, <1>7, <1>8, <1>9 DEF Places
<1>11. Len(r) <= Len(l) - 1
  BY <1>1, <1>2
<1>12. /\ r \in Seq(Queued) /\ Len(r) <= Len(l) - 1
       /\ \A k \in 1..Len(r) : ~ (r[k].m.kind = "output" /\ r[k].m.pane = p)
       /\ \E f : Places(r, l, {p}, f)
  BY <1>2, <1>10, <1>11
<1> QED BY <1>12 DEF r, u

\* t is o without some queued output of X, and with what follows from it: what
\* is heard and what is paused may change; a pane that is heard now was heard,
\* or is so from here (f.since); D and E are the panes of which the client has
\* yet to be told.
Thins(o, t, X, D, E, C, e, f) ==
  /\ o.live /\ t.live /\ t.chan = o.chan /\ t.bytes = o.bytes
  /\ \E at : Places(t.ctl.pending, o.ctl.pending, X, at)
  /\ Len(t.ctl.pending) <= Len(o.ctl.pending)
  /\ \A k \in 1..Len(t.ctl.pending) :
       ~ (t.ctl.pending[k].m.kind = "output" /\ t.ctl.pending[k].m.pane \in X)
  /\ t.ctl.cost = Len(t.ctl.pending) /\ t.ctl.closing = o.ctl.closing
  /\ f.read = e.read /\ f.sent = e.sent /\ f.told = e.told
  /\ f.last = e.last /\ f.made = e.made
  /\ \A x \in Panes : Audible(t.ctl, x) =>
       \/ f.since[x] = e.made[x]
       \/ Audible(o.ctl, x) /\ x \notin X /\ f.since[x] = e.since[x]
  /\ \A x \in Panes : x \notin X /\ x \notin D /\ Audible(o.ctl, x)
                        => Audible(t.ctl, x) /\ x \notin E
  /\ ~C => \A x \in Panes : ((x \in t.ctl.paused) # (x \in E))
                               = ((x \in o.ctl.paused) # (x \in D))

\* Such a change keeps every claim, with D replaced by E and e by f.
LEMMA ThinKeeps ==
  ASSUME NEW o \in Side, NEW t \in Side, NEW X, NEW D, NEW E, NEW C \in BOOLEAN,
         NEW e \in Account, NEW f, Sound(o, D, C, e), Thins(o, t, X, D, E, C, e, f)
  PROVE  Sound(t, E, C, f)
<1>0. /\ o.live /\ t.live /\ t.chan = o.chan /\ t.bytes = o.bytes
      /\ Len(t.ctl.pending) <= Len(o.ctl.pending)
      /\ \A k \in 1..Len(t.ctl.pending) :
           ~ (t.ctl.pending[k].m.kind = "output" /\ t.ctl.pending[k].m.pane \in X)
      /\ t.ctl.cost = Len(t.ctl.pending) /\ t.ctl.closing = o.ctl.closing
      /\ f.read = e.read /\ f.sent = e.sent /\ f.told = e.told
      /\ f.last = e.last /\ f.made = e.made
      /\ \A x \in Panes : Audible(t.ctl, x) =>
           \/ f.since[x] = e.made[x]
           \/ Audible(o.ctl, x) /\ x \notin X /\ f.since[x] = e.since[x]
      /\ \A x \in Panes : x \notin X /\ x \notin D /\ Audible(o.ctl, x)
                            => Audible(t.ctl, x) /\ x \notin E
      /\ ~C => \A x \in Panes : ((x \in t.ctl.paused) # (x \in E))
                                   = ((x \in o.ctl.paused) # (x \in D))
  BY DEF Thins
<1> PICK at : Places(t.ctl.pending, o.ctl.pending, X, at)
  BY DEF Thins
<1>1. Thinned(Way(o), Way(t), X) /\ Way(o) \in Seq(Message) /\ Way(t) \in Seq(Message)
  <2>1. Way(o) \in Seq(Message) /\ Way(t) \in Seq(Message)
    BY <1>0, WayPlaces
  <2> QED BY <1>0, <2>1, ThinWay
<1>2. Counted(t)
  <2>1. o.bytes = Total(o.chan) /\ o.ctl.cost = Len(o.ctl.pending)
        /\ o.ctl.cost + Len(o.chan) <= ByteLimit /\ Len(o.chan) <= ChannelCap
        /\ Without(o.chan, {"exit", "detached"})
    BY <1>0 DEF Sound, Counted
  <2>2. t.ctl.cost + Len(t.chan) <= ByteLimit
    <3> DEFINE a == Len(t.ctl.pending)
               b == Len(o.ctl.pending)
               c == Len(o.chan)
    <3>1. a \in Nat /\ b \in Nat /\ c \in Nat /\ ByteLimit \in Nat
      BY <1>0, WayPlaces, ControlAssumption
    <3>2. a <= b /\ b + c <= ByteLimit /\ t.ctl.cost = a /\ Len(t.chan) = c
      BY <1>0, <2>1
    <3> HIDE DEF a, b, c
    <3> QED BY ONLY <3>1, <3>2
  <2> QED BY <1>0, <2>1, <2>2 DEF Counted
<1>3. Ordered(t, f)
  <2>1. Numbered(Way(o), NotesIn(Way(o)), e.read + 1 .. e.sent) /\ NotesFirst(Way(o))
    BY <1>0 DEF Sound, Ordered
  <2>2. Numbered(Way(t), NotesIn(Way(t)), e.read + 1 .. e.sent)
    BY <1>0, <1>1, <2>1, ThinnedNotes
  <2>3. NotesFirst(Way(t))
    BY <1>0, <1>1, <2>1, ThinnedNotesFirst
  <2> QED BY <1>0, <2>2, <2>3 DEF Ordered
<1>4. Parted(t, C)
  <2>1. Without(Way(o), {"detached"}) \/ C
    BY DEF Sound, Parted
  <2>2. ASSUME Without(Way(o), {"detached"}) PROVE Without(Way(t), {"detached"})
    <3>1. PICK to \in [1..Len(Way(t)) -> 1..Len(Way(o))] :
            \A k \in 1..Len(Way(t)) : Way(t)[k] = Way(o)[to[k]]
      BY <1>0, <1>1 DEF Thinned
    <3>2. \A i \in 1..Len(Way(o)) : Way(o)[i].kind # "detached"
      BY <1>0, <1>1, <2>2 DEF Without
    <3>3. \A k \in 1..Len(Way(t)) : Way(t)[k].kind # "detached"
      BY <1>0, <3>1, <3>2
    <3> QED BY <1>0, <1>1, <3>3, SMTT(60) DEF Without
  <2> QED BY <1>0, <2>1, <2>2 DEF Sound, Parted
<1>5. Hears(t, f)
  <2> SUFFICES ASSUME NEW p \in Panes
               PROVE  /\ Heard(Way(t), p, f.last[p], f.made[p])
                      /\ Audible(t.ctl, p)
                           => Whole(Way(t), p, f.last[p], f.since[p], f.made[p])
    BY <1>0 DEF Hears
  <2>1. /\ Heard(Way(o), p, e.last[p], e.made[p])
        /\ Audible(o.ctl, p) => Whole(Way(o), p, e.last[p], e.since[p], e.made[p])
    BY <1>0 DEF Sound, Hears
  <2>2. Heard(Way(t), p, e.last[p], e.made[p])
    BY <1>0, <1>1, <2>1, ThinnedHeard
  <2>3. ASSUME Audible(t.ctl, p) PROVE Whole(Way(t), p, e.last[p], f.since[p], e.made[p])
    <3>1. CASE f.since[p] = e.made[p]
      <4>1. e.made[p] \in Nat
        BY DEF Account
      <4>2. \A n \in Nat : ~ (f.since[p] < n /\ n <= e.made[p])
        BY <1>0, <3>1, <4>1
      <4> QED BY <1>0, <4>2 DEF Whole
    <3>2. CASE Audible(o.ctl, p) /\ p \notin X /\ f.since[p] = e.since[p]
      <4>1. Whole(Way(o), p, e.last[p], e.since[p], e.made[p])
        BY <1>0, <2>1, <3>2
      <4>2. Whole(Way(t), p, e.last[p], e.since[p], e.made[p])
        BY <1>0, <1>1, <3>2, <4>1, ThinnedHeard
      <4> QED BY <1>0, <3>2, <4>2
    <3> QED BY <1>0, <2>3, <3>1, <3>2
  <2> QED BY <1>0, <2>2, <2>3
<1>6. Queues(t, E)
  <2> SUFFICES ASSUME NEW k \in DOMAIN t.ctl.pending, t.ctl.pending[k].m.kind = "output"
               PROVE  Audible(t.ctl, t.ctl.pending[k].m.pane) /\ t.ctl.pending[k].m.pane \notin E
    BY <1>0 DEF Queues
  <2>1. /\ DOMAIN t.ctl.pending = 1..Len(t.ctl.pending)
        /\ DOMAIN o.ctl.pending = 1..Len(o.ctl.pending)
        /\ t.ctl.pending \in Seq(Queued)
    BY <1>0, SideFields
  <2>2. at[k] \in DOMAIN o.ctl.pending /\ t.ctl.pending[k] = o.ctl.pending[at[k]]
    BY <1>0, <2>1 DEF Places
  <2> DEFINE x == t.ctl.pending[k].m.pane
  <2>3. Audible(o.ctl, x) /\ x \notin D
    BY <1>0, <2>2 DEF Sound, Queues
  <2>4. x \notin X
    BY <1>0, <2>1
  <2>5. x \in Panes
    <3>1. t.ctl.pending[k] \in Queued
      BY <1>0, <2>1
    <3>2. t.ctl.pending[k].m \in Fresh
      BY <1>0, <3>1 DEF Queued
    <3> QED BY <1>0, <3>2, FreshMessages
  <2> QED BY <1>0, <2>3, <2>4, <2>5
<1>7. Speaks(t, f, E, C)
  <2> SUFFICES ASSUME ~C, NEW p \in Panes
               PROVE  Voice(Way(t), f.told, p, (p \in t.ctl.paused) # (p \in E))
    BY <1>0 DEF Speaks
  <2>1. Voice(Way(o), e.told, p, (p \in o.ctl.paused) # (p \in D))
    BY <1>0 DEF Sound, Speaks
  <2>2. Voice(Way(t), e.told, p, (p \in o.ctl.paused) # (p \in D))
    BY <1>0, <1>1, <2>1, ThinnedVoice
  <2> QED BY <1>0, <2>2
<1> QED BY <1>0, <1>2, <1>3, <1>4, <1>5, <1>6, <1>7 DEF Sound

-----------------------------------------------------------------------------
(* A turn of the loop (flush_control)                                      *)

\* discard_output, field by field
LEMMA DiscardFields ==
  ASSUME NEW c \in Control, NEW X
  PROVE  LET d == Discard(c, X) IN
         /\ d \in Control /\ d.pending = Kept(c.pending, Others(c.pending, X))
         /\ d.cost = Len(d.pending) /\ d.off = c.off /\ d.paused = c.paused /\ d.muted = c.muted
         /\ d.aging = c.aging /\ d.closing = c.closing
<1> DEFINE kept == Kept(c.pending, Others(c.pending, X))
           d == Discard(c, X)
           n == Len(kept)
<1>1. c.pending \in Seq(Queued)
  BY ControlFields
<1>2. kept \in Seq(Queued) /\ n \in Int
  BY <1>1, KeptQueue
<1>3. d = [c EXCEPT !.pending = kept, !.cost = n]
  BY DEF Discard
<1> HIDE DEF kept, n
<1>4. /\ d \in Control /\ d.pending = kept /\ d.cost = n
      /\ d.off = c.off /\ d.paused = c.paused /\ d.muted = c.muted
      /\ d.aging = c.aging /\ d.closing = c.closing
  BY <1>2, <1>3 DEF Control
<1> QED BY <1>4 DEF kept, n

\* The first message is taken from the queue.
Popped(o) == [o EXCEPT !.ctl.pending = Tail(@), !.ctl.cost = @ - Cost(Head(o.ctl.pending).m)]

\* The queue without its front, field by field
LEMMA PoppedFields ==
  ASSUME NEW o \in Side, o.ctl.pending # <<>>
  PROVE  /\ Popped(o) \in Side /\ Popped(o).live = o.live /\ Popped(o).chan = o.chan
         /\ Popped(o).bytes = o.bytes /\ Popped(o).ctl.pending = Tail(o.ctl.pending)
         /\ Popped(o).ctl.cost = o.ctl.cost - 1
         /\ Popped(o).ctl.off = o.ctl.off /\ Popped(o).ctl.paused = o.ctl.paused
         /\ Popped(o).ctl.muted = o.ctl.muted /\ Popped(o).ctl.aging = o.ctl.aging
         /\ Popped(o).ctl.closing = o.ctl.closing
         /\ \A p : Audible(Popped(o).ctl, p) <=> Audible(o.ctl, p)
<1> DEFINE c == o.ctl
           l == c.pending
           r == Tail(l)
           n == c.cost - Cost(Head(l).m)
           d == [c EXCEPT !.pending = r, !.cost = n]
<1>1. c \in Control /\ l \in Seq(Queued) /\ c.cost \in Int
  BY SideFields
<1>2. r \in Seq(Queued) /\ Head(l) \in Queued
  <2>1. l # <<>>
    OBVIOUS
  <2> HIDE DEF l
  <2> QED BY <1>1, <2>1, RestPlaces
<1>3. Cost(Head(l).m) = 1
  <2>1. Head(l).m \in Fresh
    BY <1>2 DEF Queued
  <2> QED BY <2>1, FreshMessages
<1>4. n = c.cost - 1 /\ n \in Int
  BY <1>1, <1>3
<1>5. Popped(o) = [o EXCEPT !.ctl = d]
  BY DEF Popped, Side, Control
<1> HIDE DEF n, r
<1>6. /\ d \in Control /\ d.pending = r /\ d.cost = n
      /\ d.off = c.off /\ d.paused = c.paused /\ d.muted = c.muted
      /\ d.aging = c.aging /\ d.closing = c.closing
  BY <1>1, <1>2, <1>4 DEF Control
<1> HIDE DEF d
<1>7. /\ Popped(o) \in Side /\ Popped(o).live = o.live /\ Popped(o).chan = o.chan
      /\ Popped(o).bytes = o.bytes /\ Popped(o).ctl = d
  BY <1>5, <1>6, SetControl
<1>8. \A p : Audible(d, p) <=> Audible(c, p)
  BY <1>6 DEF Audible
<1> QED BY <1>4, <1>6, <1>7, <1>8 DEF r

\* The front of a queue
LEMMA FrontOfQueue ==
  ASSUME NEW o \in Side, o.ctl.pending # <<>>
  PROVE  /\ Head(o.ctl.pending) = o.ctl.pending[1] /\ o.ctl.pending[1] \in Queued
         /\ o.ctl.pending[1].m \in Fresh /\ o.ctl.pending[1].m \in Message
         /\ Len(o.ctl.pending) \in Nat /\ Len(o.ctl.pending) >= 1
<1>1. o.ctl.pending \in Seq(Queued)
  BY SideFields
<1>2. /\ Head(o.ctl.pending) = o.ctl.pending[1] /\ o.ctl.pending[1] \in Queued
      /\ Len(o.ctl.pending) \in Nat /\ Len(o.ctl.pending) >= 1
  BY <1>1, RestPlaces
<1>3. o.ctl.pending[1].m \in Fresh
  BY <1>2 DEF Queued
<1> QED BY <1>2, <1>3, FreshMessages

\* A pane whose output grew old is paused, and the client told so.
LEMMA PauseLateKeeps ==
  ASSUME NEW o \in Side, o.live, o.ctl.pending # <<>>,
         o.ctl.pending[1].m.kind = "output",
         NEW D, NEW C \in BOOLEAN, NEW e \in Account, Sound(o, D, C, e),
         NEW t, t = [Popped(o) EXCEPT !.ctl = PauseLate(Popped(o).ctl, o.ctl.pending[1].m.pane)]
  PROVE  t \in Side /\ Sound(t, D, C, e) /\ Quieter(t, o, D)
<1> DEFINE l == o.ctl.pending
           p == l[1].m.pane
           m == M("pause", p, 0)
           b == Popped(o)
           c == [b.ctl EXCEPT !.paused = @ \union {p}]
           d == Discard(c, {p})
           z == [b EXCEPT !.ctl = d]
<1>1. /\ l \in Seq(Queued) /\ l[1].m \in Fresh /\ Len(l) \in Nat /\ Len(l) >= 1
  BY SideFields, FrontOfQueue
<1>2. p \in Panes
  BY <1>1, FreshMessages
<1>3. m \in Fresh /\ m.kind = "pause" /\ m.pane = p
  BY <1>2 DEF M, Fresh, Text, Message
<1>4. /\ b \in Side /\ b.live = o.live /\ b.chan = o.chan /\ b.bytes = o.bytes
      /\ b.ctl.pending = Tail(l) /\ b.ctl.off = o.ctl.off /\ b.ctl.paused = o.ctl.paused
      /\ b.ctl.muted = o.ctl.muted /\ b.ctl.closing = o.ctl.closing
      /\ b.ctl \in Control
  BY PoppedFields, SideFields
<1> HIDE DEF b
<1>5. /\ c \in Control /\ c.paused = o.ctl.paused \union {p} /\ c.pending = Tail(l)
      /\ c.off = o.ctl.off /\ c.muted = o.ctl.muted /\ c.closing = o.ctl.closing
  <2>1. b.ctl.paused \union {p} \in SUBSET Panes
    BY <1>2, <1>4, ControlFields
  <2> HIDE DEF l, p
  <2>2. /\ c \in Control /\ c.paused = b.ctl.paused \union {p} /\ c.pending = b.ctl.pending
        /\ c.off = b.ctl.off /\ c.muted = b.ctl.muted /\ c.closing = b.ctl.closing
    BY <1>4, <2>1 DEF Control
  <2> QED BY <1>4, <2>2
<1> HIDE DEF c
<1>6. /\ d \in Control /\ d.pending = Kept(Tail(l), Others(Tail(l), {p}))
      /\ d.cost = Len(d.pending) /\ d.off = o.ctl.off /\ d.paused = o.ctl.paused \union {p}
      /\ d.muted = o.ctl.muted /\ d.closing = o.ctl.closing
  <2>1. /\ d \in Control /\ d.pending = Kept(c.pending, Others(c.pending, {p}))
        /\ d.cost = Len(d.pending) /\ d.off = c.off /\ d.paused = c.paused
        /\ d.muted = c.muted /\ d.closing = c.closing
    BY <1>5, DiscardFields
  <2> HIDE DEF d, l, p
  <2> QED BY <1>5, <2>1
<1>7. /\ d.pending \in Seq(Queued) /\ Len(d.pending) <= Len(l) - 1
      /\ \A k \in 1..Len(d.pending) :
           ~ (d.pending[k].m.kind = "output" /\ d.pending[k].m.pane \in {p})
      /\ \E at : Places(d.pending, l, {p}, at)
  <2>1. l # <<>> /\ l[1].m.kind = "output" /\ l[1].m.pane = p
    OBVIOUS
  <2> HIDE DEF l, p, d
  <2>2. LET r == Kept(Tail(l), Others(Tail(l), {p})) IN
         /\ r \in Seq(Queued) /\ Len(r) <= Len(l) - 1
         /\ \A k \in 1..Len(r) : ~ (r[k].m.kind = "output" /\ r[k].m.pane = p)
         /\ \E at : Places(r, l, {p}, at)
    BY <1>1, <2>1, LateQueue
  <2> QED BY <1>6, <2>2
<1> HIDE DEF d
<1>7a. Len(d.pending) \in Nat /\ Len(l) \in Nat /\ Len(d.pending) <= Len(l) - 1
  <2> HIDE DEF l, p, d
  <2> QED BY <1>1, <1>7
<1>8. /\ z \in Side /\ z.live = o.live /\ z.chan = o.chan /\ z.bytes = o.bytes /\ z.ctl = d
  BY <1>4, <1>6, SetControl
<1>9. t = [b EXCEPT !.ctl = Enqueue(d, m)]
  BY DEF PauseLate, b, c, d
<1> HIDE DEF z, m
<1>10. Enqueue(d, m) \in Control
  BY <1>3, <1>6, EnqueueFields
<1>11. /\ t \in Side /\ t.live = o.live /\ t.chan = o.chan /\ t.bytes = o.bytes
       /\ t.ctl = Enqueue(d, m)
  <2> DEFINE y == Enqueue(d, m)
  <2>1. t = [b EXCEPT !.ctl = y] /\ y \in Control
    BY <1>9, <1>10
  <2> HIDE DEF y
  <2>2. LET r == [b EXCEPT !.ctl = y] IN
        r \in Side /\ r.ctl = y /\ r.live = b.live /\ r.chan = b.chan /\ r.bytes = b.bytes
    BY <1>4, <2>1, SetControl
  <2>3. t \in Side /\ t.ctl = y /\ t.live = b.live /\ t.chan = b.chan /\ t.bytes = b.bytes
    BY <2>1, <2>2
  <2> QED BY <1>4, <2>3 DEF y
<1>12. Enqueued(z, m, t)
  BY <1>8, <1>11 DEF Enqueued
<1>13. Audible(o.ctl, p) /\ p \notin D
  <2>1. 1 \in DOMAIN l
    BY <1>1
  <2> QED BY <2>1 DEF Sound, Queues
<1>14. \A x : Audible(d, x) <=> Audible(o.ctl, x) /\ x # p
  BY <1>6, <1>13 DEF Audible
<1>15. Sound(z, D \union {p}, C, e)
  <2>2. p \notin o.ctl.paused
    BY <1>13 DEF Audible
  <2>3. \A x \in Panes : ((x \in z.ctl.paused) # (x \in D \union {p}))
                          = ((x \in o.ctl.paused) # (x \in D))
    BY <1>6, <1>8, <1>13, <2>2
  <2>4. \A x \in Panes : x \notin {p} /\ x \notin D /\ Audible(o.ctl, x)
                            => Audible(z.ctl, x) /\ x \notin D \union {p}
    BY <1>8, <1>14
  <2>5. \A x \in Panes : Audible(z.ctl, x) =>
           \/ e.since[x] = e.made[x]
           \/ Audible(o.ctl, x) /\ x \notin {p} /\ e.since[x] = e.since[x]
    BY <1>8, <1>14
  <2>6. Len(z.ctl.pending) <= Len(o.ctl.pending)
    <3>1. Len(d.pending) <= Len(l)
      BY ONLY <1>7a, SMTT(60)
    <3> QED BY <1>8, <3>1
  <2>7. \A k \in 1..Len(z.ctl.pending) :
           ~ (z.ctl.pending[k].m.kind = "output" /\ z.ctl.pending[k].m.pane \in {p})
    <3>1. z.ctl.pending = d.pending
      BY <1>8
    <3> DEFINE r == d.pending
    <3>2. \A k \in 1..Len(r) : ~ (r[k].m.kind = "output" /\ r[k].m.pane \in {p})
      BY <1>7
    <3> HIDE DEF r, p
    <3>3. z.ctl.pending = r
      BY <3>1 DEF r
    <3> QED BY ONLY <3>2, <3>3, ZenonT(120)
  <2>8. \E at : Places(z.ctl.pending, o.ctl.pending, {p}, at)
    BY <1>7, <1>8
  <2>9. z.ctl.cost = Len(z.ctl.pending) /\ z.ctl.closing = o.ctl.closing
    BY <1>6, <1>8
  <2>10. z.live /\ z.chan = o.chan /\ z.bytes = o.bytes
    BY <1>8
  <2> HIDE DEF p, l
  <2>11. Thins(o, z, {p}, D, D \union {p}, C, e, e)
    BY <2>3, <2>4, <2>5, <2>6, <2>7, <2>8, <2>9, <2>10 DEF Thins
  <2> QED BY <1>8, <2>11, ThinKeeps
<1>16. z.ctl.cost + 1 + Len(z.chan) <= ByteLimit
  <2> DEFINE size == Len(d.pending)
             q == Len(l)
             n == Len(o.chan)
  <2>1. size \in Nat /\ q \in Nat /\ n \in Nat /\ size <= q - 1 /\ ByteLimit \in Nat
    <3>1. q \in Nat /\ n \in Nat
      BY WayPlaces
    <3>2. size \in Nat /\ size <= q - 1
      BY ONLY <1>7a
    <3>3. ByteLimit \in Nat
      BY ControlAssumption
    <3> QED BY ONLY <3>1, <3>2, <3>3
  <2>2. q + n <= ByteLimit
    BY DEF Sound, Counted
  <2>3. z.ctl.cost = size /\ Len(z.chan) = n
    BY <1>6, <1>8
  <2> HIDE DEF size, q, n
  <2> QED BY ONLY <2>1, <2>2, <2>3
<1>17. Sound(t, (D \union {p}) \ {p}, C, e)
  <2>1. p \in D \union {p} /\ p \in z.ctl.paused
    BY <1>6, <1>8
  <2>2. m.kind = IF p \in z.ctl.paused THEN "pause" ELSE "continue"
    BY <1>3, <2>1
  <2>3. z.live /\ m \in Fresh /\ m.pane = p /\ z \in Side /\ t \in Side
    BY <1>3, <1>8, <1>11
  <2> DEFINE E == D \union {p}
  <2>4. p \in E /\ Sound(z, E, C, e)
    BY <1>15, <2>1
  <2> HIDE DEF p, E, l
  <2>5. Sound(t, E \ {p}, C, e)
    BY <1>12, <1>16, <2>2, <2>3, <2>4, EnqueueMark
  <2> QED BY <2>5 DEF E
<1>18. (D \union {p}) \ {p} = D
  BY <1>13
<1>19. Sound(t, D, C, e)
  BY <1>17, <1>18
<1>20. \A x : Audible(t.ctl, x) => Audible(o.ctl, x)
  <2>1. t.ctl.off = d.off /\ t.ctl.paused = d.paused /\ t.ctl.muted = d.muted
    <3> DEFINE y == Enqueue(d, m)
    <3>1. m \in Fresh /\ d \in Control /\ t.ctl = y
      BY <1>3, <1>6, <1>11
    <3> HIDE DEF p, l
    <3>2. y.off = d.off /\ y.paused = d.paused /\ y.muted = d.muted
      BY <3>1, EnqueueFields
    <3> HIDE DEF y
    <3> QED BY <3>1, <3>2
  <2>2. \A x : Audible(t.ctl, x) <=> Audible(d, x)
    BY <2>1 DEF Audible
  <2> QED BY <1>14, <2>2
<1>22. t.ctl.paused = o.ctl.paused \union {p}
  <2> DEFINE y == Enqueue(d, m)
  <2>1. m \in Fresh /\ d \in Control /\ t.ctl = y
    BY <1>3, <1>6, <1>11
  <2>2. d.paused = o.ctl.paused \union {p}
    BY <1>6
  <2> HIDE DEF p, l
  <2>3. y.paused = d.paused
    BY <2>1, EnqueueFields
  <2> HIDE DEF y
  <2> QED BY <2>1, <2>2, <2>3
<1>21. Quieter(t, o, D)
  <2>1. \A x \in D : (x \in t.ctl.paused) = (x \in o.ctl.paused)
    BY <1>13, <1>22
  <2> QED BY <1>20, <2>1 DEF Quieter
<1> QED BY <1>11, <1>19, <1>21

\* What the loop carries from turn to turn
Looped == [o : Side, rest : BOOLEAN]

\* The first message as it is put into the channel
Sent(o) ==
  [o.ctl.pending[1].m EXCEPT !.extended = o.ctl.aging /\ o.ctl.pending[1].m.kind = "output"]

\* What a full channel refuses stays where it was.
Refused(o) == [Popped(o) EXCEPT !.ctl.pending = Requeue(Popped(o).ctl, o.ctl.pending[1]),
                                !.ctl.cost = @ + Cost(o.ctl.pending[1].m)]

\* A pane whose output grew old is paused.
Paused(o) == [Popped(o) EXCEPT !.ctl = PauseLate(Popped(o).ctl, o.ctl.pending[1].m.pane)]

\* The front of the queue moves to the channel, and Detached ends the client.
Moved(o) == IF Sent(o).kind = "detached" THEN Gone(Put(Popped(o), Sent(o)))
            ELSE Put(Popped(o), Sent(o))

\* What a turn may do: pause the pane, expel the client, stop at a full channel
\* or move the front of the queue.
LEMMA FlushOneCases ==
  ASSUME NEW f \in Looped, peer \in {"open", "gone"}
  PROVE  \/ FlushOne(f) = f
         \/ /\ f.o.live /\ f.o.ctl.pending # <<>>
            /\ \/ f.o.ctl.pending[1].m.kind = "output" /\ FlushOne(f) = [f EXCEPT !.o = Paused(f.o)]
               \/ FlushOne(f) = [f EXCEPT !.o = Expelled(Popped(f.o))]
               \/ FlushOne(f) = [rest |-> FALSE, o |-> Refused(f.o)]
               \/ HasRoom(Popped(f.o)) /\ FlushOne(f) = [f EXCEPT !.o = Moved(f.o)]
<1>1. CASE ~f.rest \/ ~f.o.live \/ f.o.ctl.pending = <<>>
  BY <1>1 DEF FlushOne
<1>2. CASE ~(~f.rest \/ ~f.o.live \/ f.o.ctl.pending = <<>>)
  <2> DEFINE q == Head(f.o.ctl.pending)
             m == [q.m EXCEPT !.extended = f.o.ctl.aging /\ q.m.kind = "output"]
             b == [f.o EXCEPT !.ctl.pending = Tail(@), !.ctl.cost = @ - Cost(q.m)]
             late == [b EXCEPT !.ctl = PauseLate(@, q.m.pane)]
             back == [b EXCEPT !.ctl.pending = Requeue(b.ctl, q), !.ctl.cost = @ + Cost(q.m)]
             put == IF m.kind = "detached" THEN Gone(Put(b, m)) ELSE Put(b, m)
             r == FlushOne(f)
  <2>1. r = CASE Late(b.ctl, q) /\ b.ctl.aging -> [f EXCEPT !.o = late]
              [] (Late(b.ctl, q) /\ ~b.ctl.aging) \/ peer = "gone" -> [f EXCEPT !.o = Expelled(b)]
              [] ~Late(b.ctl, q) /\ peer = "open" /\ ~HasRoom(b) -> [rest |-> FALSE, o |-> back]
              [] OTHER -> [f EXCEPT !.o = put]
    BY <1>2 DEF FlushOne
  <2>2. f.o \in Side /\ f.o.live /\ f.o.ctl.pending # <<>>
    BY <1>2, SMTT(60) DEF Looped
  <2>3. q = f.o.ctl.pending[1] /\ b = Popped(f.o) /\ b \in Side
    BY <2>2, FrontOfQueue, PoppedFields DEF Popped
  <2>4. Late(b.ctl, q) => q.m.kind = "output"
    BY DEF Late
  <2>5. late = [b EXCEPT !.ctl = PauseLate(b.ctl, q.m.pane)]
    BY <2>3 DEF Side
  <2> HIDE DEF late, back, put, r, b
  <2>6. \/ Late(b.ctl, q) /\ r = [f EXCEPT !.o = late]
        \/ r = [f EXCEPT !.o = Expelled(b)]
        \/ r = [rest |-> FALSE, o |-> back]
        \/ HasRoom(b) /\ r = [f EXCEPT !.o = put]
    <3> DEFINE L == Late(b.ctl, q)
               A == b.ctl.aging
               H == HasRoom(b)
               v == [f EXCEPT !.o = late]
               w == [f EXCEPT !.o = Expelled(b)]
               x == [rest |-> FALSE, o |-> back]
               y == [f EXCEPT !.o = put]
    <3>1. r = CASE L /\ A -> v
                [] (L /\ ~A) \/ peer = "gone" -> w
                [] ~L /\ peer = "open" /\ ~H -> x
                [] OTHER -> y
      BY <2>1
    <3>3. L \in BOOLEAN /\ A \in BOOLEAN /\ H \in BOOLEAN
      BY <2>3, SideFields, ControlFields DEF Late, HasRoom
    <3> HIDE DEF L, A, H, v, w, x, y
    <3>2. (L /\ r = v) \/ r = w \/ r = x \/ (H /\ r = y)
      BY ONLY <3>1, <3>3, peer \in {"open", "gone"}
    <3> QED BY <3>2 DEF L, H, v, w, x, y
  <2>7. back = Refused(f.o) /\ put = Moved(f.o)
    BY <2>3 DEF back, put, Refused, Moved, Sent, Popped, b
  <2>8. late = Paused(f.o)
    BY <2>3, <2>5 DEF Paused
  <2> QED BY <2>2, <2>3, <2>4, <2>6, <2>7, <2>8 DEF r
<1> QED BY <1>1, <1>2, SMTT(60)

\* What is put into the channel says what the front of the queue said.
LEMMA SentFields ==
  ASSUME NEW o \in Side, o.ctl.pending # <<>>
  PROVE  /\ Sent(o) \in Text /\ Sent(o).kind = o.ctl.pending[1].m.kind
         /\ Sent(o).pane = o.ctl.pending[1].m.pane /\ Sent(o).n = o.ctl.pending[1].m.n
<1> DEFINE m == o.ctl.pending[1].m
           x == o.ctl.aging /\ m.kind = "output"
           s == [m EXCEPT !.extended = x]
<1>1. m \in Text /\ m \in Message
  BY FrontOfQueue, FreshMessages
<1>2. x \in BOOLEAN
  OBVIOUS
<1> HIDE DEF m, x
<1>3. s \in Text /\ s.kind = m.kind /\ s.pane = m.pane /\ s.n = m.n
  BY <1>1, <1>2 DEF Text, Message
<1> QED BY <1>3 DEF Sent, m, x

\* A full channel changes nothing.
LEMMA RefusedIsSame ==
  ASSUME NEW o \in Side, o.ctl.pending # <<>>
  PROVE  Refused(o) = o
<1> DEFINE l == o.ctl.pending
           b == Popped(o)
           list == Requeue(b.ctl, l[1])
           n == b.ctl.cost + Cost(l[1].m)
           d == [b.ctl EXCEPT !.pending = list, !.cost = n]
<1>1. /\ l \in Seq(Queued) /\ Cost(l[1].m) = 1 /\ o.ctl.cost \in Int /\ o.ctl \in Control
  BY SideFields, FrontOfQueue, FreshMessages
<1>2. /\ b \in Side /\ b.ctl.pending = Tail(l) /\ b.ctl.cost = o.ctl.cost - 1 /\ b.ctl \in Control
      /\ b.live = o.live /\ b.chan = o.chan /\ b.bytes = o.bytes
      /\ b.ctl.off = o.ctl.off /\ b.ctl.paused = o.ctl.paused /\ b.ctl.muted = o.ctl.muted
      /\ b.ctl.aging = o.ctl.aging /\ b.ctl.closing = o.ctl.closing
  BY PoppedFields, SideFields
<1>3. Refused(o) = [b EXCEPT !.ctl = d]
  BY <1>2 DEF Refused, Side, Control
<1> HIDE DEF b
<1>4. list = l
  <2>1. list = <<l[1]>> \o Tail(l)
    BY <1>2 DEF Requeue
  <2> HIDE DEF list
  <2>2. l # <<>>
    OBVIOUS
  <2> HIDE DEF l
  <2>3. <<l[1]>> \o Tail(l) = l
    BY <1>1, <2>2
  <2> QED BY <2>1, <2>3
<1>5. n = o.ctl.cost
  BY <1>1, <1>2
<1> HIDE DEF n, list
<1>6. d = o.ctl
  <2>1. d = [b.ctl EXCEPT !.pending = l, !.cost = o.ctl.cost]
    BY <1>4, <1>5
  <2> HIDE DEF d
  <2> DEFINE v == o.ctl
             w == b.ctl
  <2>2. v \in Control /\ w \in Control /\ v.pending = l
    BY <1>1, <1>2
  <2>3. /\ w.off = v.off /\ w.paused = v.paused /\ w.muted = v.muted
        /\ w.aging = v.aging /\ w.closing = v.closing
    BY <1>2
  <2>4. d = [w EXCEPT !.pending = l, !.cost = v.cost]
    BY <2>1
  <2> HIDE DEF v, w
  <2>5. d = v
    BY ONLY <2>2, <2>3, <2>4 DEF Control
  <2> QED BY <2>5 DEF v
<1> HIDE DEF d
<1>7. Refused(o) = [b EXCEPT !.ctl = o.ctl]
  BY <1>3, <1>6
<1> QED BY <1>2, <1>7 DEF Side

\* Quieter is an order.
LEMMA QuieterOrder ==
  /\ \A x, D : Quieter(x, x, D)
  /\ \A x, y, z, D : Quieter(x, y, D) /\ Quieter(y, z, D) => Quieter(x, z, D)
BY DEF Quieter

\* The fields of the loop
LEMMA LoopedFields ==
  ASSUME NEW f \in Looped, NEW o \in Side
  PROVE  /\ f.o \in Side /\ f.rest \in BOOLEAN
         /\ [f EXCEPT !.o = o] \in Looped /\ [f EXCEPT !.o = o].o = o
         /\ [rest |-> FALSE, o |-> o] \in Looped /\ [rest |-> FALSE, o |-> o].o = o
BY DEF Looped

\* A turn that moves a message to the channel
LEMMA MovedKeeps ==
  ASSUME NEW o \in Side, o.live, o.ctl.pending # <<>>, HasRoom(Popped(o)),
         NEW D, NEW C \in BOOLEAN, NEW e \in Account, Sound(o, D, C, e)
  PROVE  Moved(o) \in Side /\ Sound(Moved(o), D, C, e) /\ Quieter(Moved(o), o, D)
<1> DEFINE m == Sent(o)
           b == Popped(o)
           t == Put(b, m)
           g == Gone(t)
<1>1. /\ m \in Text /\ m.kind = o.ctl.pending[1].m.kind
      /\ m.pane = o.ctl.pending[1].m.pane /\ m.n = o.ctl.pending[1].m.n
  BY SentFields
<1>2. /\ b \in Side /\ b.live = o.live /\ b.chan = o.chan /\ b.bytes = o.bytes
      /\ b.ctl.pending = Tail(o.ctl.pending) /\ b.ctl.cost = o.ctl.cost - 1
      /\ b.ctl.paused = o.ctl.paused /\ b.ctl.closing = o.ctl.closing
      /\ \A p : Audible(b.ctl, p) <=> Audible(o.ctl, p)
  BY PoppedFields
<1>3. Len(o.chan) < ChannelCap
  BY <1>2 DEF HasRoom
<1>0. Moved(o) = IF m.kind = "detached" THEN g ELSE t
  BY DEF Moved
<1> HIDE DEF m, b
<1>4. /\ t \in Side /\ t.chan = Append(b.chan, m) /\ t.bytes = b.bytes + Cost(m)
      /\ t.live = b.live /\ t.ctl = b.ctl
  BY <1>1, <1>2, PutFields
<1> HIDE DEF t
<1>5. CASE m.kind # "detached"
  <2>1. Sound(t, D, C, e)
    BY <1>1, <1>2, <1>3, <1>4, <1>5, MoveKeeps, ZenonT(120)
  <2>2. Quieter(t, o, D)
    BY <1>2, <1>4 DEF Quieter
  <2> QED BY <1>0, <1>4, <1>5, <2>1, <2>2
<1>6. CASE m.kind = "detached"
  <2>1. g \in Side /\ g.live = FALSE /\ g.ctl = NewControl /\ g.chan = t.chan /\ g.bytes = t.bytes
    BY <1>4, GoneFields
  <2> HIDE DEF g
  <2>2. g.chan = Append(o.chan, m) /\ g.bytes = o.bytes + Cost(m) /\ ~g.live
    BY <1>2, <1>4, <2>1
  <2>3. Sound(g, D, C, e)
    BY <1>1, <1>3, <1>6, <2>1, <2>2, PartKeeps
  <2>4. Quieter(g, o, D)
    BY <2>2 DEF Quieter
  <2> QED BY <1>0, <1>6, <2>1, <2>3, <2>4
<1> QED BY <1>5, <1>6

\* A turn that expels the client
LEMMA ExpelledPoppedKeeps ==
  ASSUME NEW o \in Side, o.live, o.ctl.pending # <<>>,
         NEW D, NEW C \in BOOLEAN, NEW e \in Account, Sound(o, D, C, e)
  PROVE  /\ Expelled(Popped(o)) \in Side /\ Sound(Expelled(Popped(o)), D, C, e)
         /\ Quieter(Expelled(Popped(o)), o, D)
<1> DEFINE b == Popped(o)
<1>1. b \in Side /\ b.chan = o.chan /\ b.bytes = o.bytes
  BY PoppedFields
<1> HIDE DEF b
<1>2. /\ b.bytes = Total(b.chan) /\ Len(b.chan) <= ChannelCap
      /\ Without(b.chan, {"exit", "detached"})
  BY <1>1 DEF Sound, Counted
<1>3. Expelled(b) \in Side /\ ~Expelled(b).live /\ Sound(Expelled(b), D, C, e)
  BY <1>1, <1>2, ExpelledKeeps
<1>4. Quieter(Expelled(b), o, D)
  BY <1>3 DEF Quieter
<1> QED BY <1>3, <1>4 DEF b

\* One turn of flush_control keeps every claim.
LEMMA FlushOneKeeps ==
  ASSUME NEW f \in Looped, peer \in {"open", "gone"},
         NEW D, NEW C \in BOOLEAN, NEW e \in Account, Sound(f.o, D, C, e)
  PROVE  /\ FlushOne(f) \in Looped /\ Sound(FlushOne(f).o, D, C, e)
         /\ Quieter(FlushOne(f).o, f.o, D)
<1> DEFINE o == f.o
           r == FlushOne(f)
<1>1. o \in Side
  BY DEF Looped
<1>2. \/ r = f
      \/ /\ o.live /\ o.ctl.pending # <<>>
         /\ \/ o.ctl.pending[1].m.kind = "output" /\ r = [f EXCEPT !.o = Paused(o)]
            \/ r = [f EXCEPT !.o = Expelled(Popped(o))]
            \/ r = [rest |-> FALSE, o |-> Refused(o)]
            \/ HasRoom(Popped(o)) /\ r = [f EXCEPT !.o = Moved(o)]
  BY FlushOneCases
<1>0. Sound(o, D, C, e)
  OBVIOUS
<1>9. SUFFICES r \in Looped /\ Sound(r.o, D, C, e) /\ Quieter(r.o, o, D)
  OBVIOUS
<1> HIDE DEF r
<1>3. CASE r = f
  BY <1>0, <1>3, QuieterOrder
<1>4. CASE o.live /\ o.ctl.pending # <<>>
  <2> HIDE DEF o
  <2>1. ASSUME o.ctl.pending[1].m.kind = "output", r = [f EXCEPT !.o = Paused(o)]
        PROVE  r \in Looped /\ Sound(r.o, D, C, e) /\ Quieter(r.o, o, D)
    <3> DEFINE t == Paused(o)
    <3>1. t = [Popped(o) EXCEPT !.ctl = PauseLate(Popped(o).ctl, o.ctl.pending[1].m.pane)]
      BY DEF Paused
    <3> HIDE DEF t
    <3>2. t \in Side /\ Sound(t, D, C, e) /\ Quieter(t, o, D)
      BY <1>0, <1>1, <1>4, <2>1, <3>1, PauseLateKeeps
    <3>4. r = [f EXCEPT !.o = t]
      BY <2>1 DEF t
    <3> QED BY <3>2, <3>4, LoopedFields
  <2>2. ASSUME r = [f EXCEPT !.o = Expelled(Popped(o))]
        PROVE  r \in Looped /\ Sound(r.o, D, C, e) /\ Quieter(r.o, o, D)
    <3> DEFINE t == Expelled(Popped(o))
    <3>1. t \in Side /\ Sound(t, D, C, e) /\ Quieter(t, o, D)
      BY <1>0, <1>1, <1>4, ExpelledPoppedKeeps
    <3>2. r = [f EXCEPT !.o = t]
      BY <2>2
    <3> HIDE DEF t
    <3> QED BY <3>1, <3>2, LoopedFields
  <2>3. ASSUME r = [rest |-> FALSE, o |-> Refused(o)]
        PROVE  r \in Looped /\ Sound(r.o, D, C, e) /\ Quieter(r.o, o, D)
    <3>1. r = [rest |-> FALSE, o |-> o]
      BY <1>1, <1>4, <2>3, RefusedIsSame
    <3> QED BY <1>0, <1>1, <3>1, LoopedFields, QuieterOrder
  <2>4. ASSUME HasRoom(Popped(o)), r = [f EXCEPT !.o = Moved(o)]
        PROVE  r \in Looped /\ Sound(r.o, D, C, e) /\ Quieter(r.o, o, D)
    <3> DEFINE t == Moved(o)
    <3>1. t \in Side /\ Sound(t, D, C, e) /\ Quieter(t, o, D)
      BY <1>0, <1>1, <1>4, <2>4, MovedKeeps
    <3>2. r = [f EXCEPT !.o = t]
      BY <2>4
    <3> HIDE DEF t
    <3> QED BY <3>1, <3>2, LoopedFields
  <2>5. CASE r = f
    BY <1>0, <2>5, QuieterOrder DEF o
  <2> QED BY <1>2, <1>4, <2>1, <2>2, <2>3, <2>4, <2>5
<1> QED BY <1>2, <1>3, <1>4

-----------------------------------------------------------------------------
(* The whole loop                                                          *)

\* f holds the first n turns of the loop.
Turns(f, o, n) ==
  f = [i \in 0..n |-> IF i = 0 THEN [o |-> o, rest |-> TRUE] ELSE FlushOne(f[i - 1])]

\* It exists, for any number of turns: there is no least one for which it does not.
LEMMA TurnsExist ==
  ASSUME NEW o, NEW n \in Nat
  PROVE  \E f : Turns(f, o, n)
<1> DEFINE Bad == {k \in Nat : ~ \E f : Turns(f, o, k)}
<1>1. SUFFICES ASSUME Bad # {} PROVE FALSE
  OBVIOUS
<1>2. PICK k \in Bad : \A m \in Bad : k <= m
  <2>1. Bad \subseteq Nat
    OBVIOUS
  <2> HIDE DEF Bad
  <2> QED BY <1>1, <2>1, LeastOf
<1>3. k \in Nat /\ ~ \E f : Turns(f, o, k)
  OBVIOUS
<1>4. CASE k = 0
  <2>1. Turns([i \in 0..0 |-> [o |-> o, rest |-> TRUE]], o, 0)
    BY DEF Turns
  <2> QED BY <1>3, <1>4, <2>1
<1>5. CASE k # 0
  <2>1. k - 1 \in Nat /\ k - 1 \notin Bad
    <3> HIDE DEF Bad
    <3> QED BY <1>2, <1>3, <1>5
  <2>2. PICK f : Turns(f, o, k - 1)
    BY <2>1
  <2> HIDE DEF Bad
  <2> DEFINE start == [o |-> o, rest |-> TRUE]
             turn(x) == FlushOne(x)
             g == [i \in 0..k |-> IF i = k THEN turn(f[k - 1]) ELSE f[i]]
  <2>3. \A i \in 0..k : g[i] = IF i = k THEN turn(f[k - 1]) ELSE f[i]
    OBVIOUS
  <2>4. \A i \in 0..(k - 1) : f[i] = IF i = 0 THEN start ELSE turn(f[i - 1])
    BY <2>2 DEF Turns
  <2>5. g = [i \in 0..k |-> g[i]]
    OBVIOUS
  <2> HIDE DEF g, start, turn
  <2>6. ASSUME NEW i \in 0..k PROVE g[i] = IF i = 0 THEN start ELSE turn(g[i - 1])
    <3>1. CASE i = k
      <4>1. g[k - 1] = f[k - 1]
        BY <2>3, <1>3, <1>5
      <4> QED BY <2>3, <3>1, <4>1, <1>3, <1>5
    <3>2. CASE i # k
      <4>1. i \in 0..(k - 1) /\ g[i] = f[i]
        BY <2>3, <3>2, <1>3
      <4>2. i # 0 => g[i - 1] = f[i - 1]
        BY <2>3, <4>1, <1>3
      <4> QED BY <2>4, <4>1, <4>2
    <3> QED BY <3>1, <3>2
  <2>7. g = [i \in 0..k |-> IF i = 0 THEN start ELSE turn(g[i - 1])]
    BY <2>5, <2>6
  <2>8. Turns(g, o, k)
    BY <2>7 DEF Turns, start, turn
  <2> QED BY <1>3, <2>8
<1> QED BY <1>4, <1>5

\* flush_control keeps every claim, in any number of turns.
LEMMA TurnsKeep ==
  ASSUME NEW o \in Side, peer \in {"open", "gone"},
         NEW D, NEW C \in BOOLEAN, NEW e \in Account, Sound(o, D, C, e),
         NEW n \in Nat, NEW f, Turns(f, o, n)
  PROVE  f[n].o \in Side /\ Sound(f[n].o, D, C, e) /\ Quieter(f[n].o, o, D)
<1> DEFINE Good(x) == x \in Looped /\ Sound(x.o, D, C, e) /\ Quieter(x.o, o, D)
           Bad == {k \in Nat : k <= n /\ ~ Good(f[k])}
<1>1. /\ f[0] = [o |-> o, rest |-> TRUE]
      /\ \A i \in 1..n : f[i] = FlushOne(f[i - 1])
  <2> DEFINE start == [o |-> o, rest |-> TRUE]
             turn(x) == FlushOne(x)
  <2>1. f = [i \in 0..n |-> IF i = 0 THEN start ELSE turn(f[i - 1])]
    BY DEF Turns
  <2> HIDE DEF start, turn
  <2>2. f[0] = start /\ \A i \in 1..n : f[i] = turn(f[i - 1])
    BY <2>1, SMTT(60)
  <2> QED BY <2>2 DEF start, turn
<1>2. Good([o |-> o, rest |-> TRUE])
  <2> DEFINE x == [o |-> o, rest |-> TRUE]
  <2>1. x \in Looped /\ x.o = o
    BY DEF Looped
  <2> HIDE DEF x
  <2>2. Good(x)
    BY <2>1, QuieterOrder
  <2> HIDE DEF Good
  <2> QED BY <2>2 DEF x
<1>3. ASSUME NEW x, Good(x) PROVE Good(FlushOne(x))
  <2>1. FlushOne(x) \in Looped /\ Sound(FlushOne(x).o, D, C, e) /\ Quieter(FlushOne(x).o, x.o, D)
    BY <1>3, FlushOneKeeps
  <2> DEFINE y == FlushOne(x)
  <2> HIDE DEF y
  <2>2. y \in Looped /\ Sound(y.o, D, C, e) /\ Quieter(y.o, x.o, D) /\ Quieter(x.o, o, D)
    BY <1>3, <2>1 DEF y
  <2>3. Quieter(y.o, o, D)
    BY <2>2, QuieterOrder
  <2>4. Good(y)
    BY <2>2, <2>3
  <2> HIDE DEF Good
  <2> QED BY <2>4 DEF y
<1>4. Bad = {}
  <2>1. SUFFICES ASSUME Bad # {} PROVE FALSE
    OBVIOUS
  <2>2. PICK k \in Bad : \A m \in Bad : k <= m
    <3>1. Bad \subseteq Nat
      OBVIOUS
    <3> HIDE DEF Bad
    <3> QED BY <2>1, <3>1, LeastOf
  <2> HIDE DEF Good
  <2>3. k \in Nat /\ k <= n /\ ~ Good(f[k])
    OBVIOUS
  <2>4. k # 0
    BY <1>1, <1>2, <2>3
  <2>5. k - 1 \in Nat /\ k - 1 <= n /\ k - 1 \notin Bad
    <3> HIDE DEF Bad
    <3> QED BY <2>2, <2>3, <2>4
  <2>6. Good(f[k - 1])
    BY <2>5
  <2> HIDE DEF Bad
  <2>7. k \in 1..n
    BY <2>3, <2>4
  <2>8. f[k] = FlushOne(f[k - 1])
    BY <1>1, <2>7
  <2> QED BY <1>3, <2>3, <2>6, <2>8
<1>5. Good(f[n])
  <2> HIDE DEF Good
  <2>1. n \notin Bad
    BY <1>4
  <2> QED BY <2>1
<1> QED BY <1>5, LoopedFields

\* flush_control keeps every claim, however many turns it takes.
LEMMA FlushKeeps ==
  ASSUME NEW o \in Side, peer \in {"open", "gone"},
         NEW D, NEW C \in BOOLEAN, NEW e \in Account, Sound(o, D, C, e)
  PROVE  Flush(o) \in Side /\ Sound(Flush(o), D, C, e) /\ Quieter(Flush(o), o, D)
<1> DEFINE turns == Len(o.ctl.pending) + Cardinality(Panes)
           after == CHOOSE f : Turns(f, o, turns)
<1>1. turns \in Nat
  <2>1. Len(o.ctl.pending) \in Nat
    BY WayPlaces
  <2>2. Cardinality(Panes) \in Nat
    BY ControlAssumption, FS_CardinalityType
  <2> QED BY <2>1, <2>2
<1>2. Flush(o) = after[turns].o
  BY DEF Flush, Turns
<1> HIDE DEF turns
<1>3. Turns(after, o, turns)
  <2>1. \E f : Turns(f, o, turns)
    BY <1>1, TurnsExist
  <2> QED BY <2>1
<1> HIDE DEF after
<1> QED BY <1>1, <1>2, <1>3, TurnsKeep

-----------------------------------------------------------------------------
(* A message is sent (send_control)                                        *)

\* send_control takes m.
Takes(o, m) ==
  /\ o.live
  /\ o.ctl.closing => m.kind = "detached"
  /\ m.kind = "output" => Audible(o.ctl, m.pane)

\* What send_control comes to
LEMMA SendCases ==
  ASSUME NEW o \in Side, NEW m \in Fresh, Counted(o)
  PROVE  \/ ~Takes(o, m) /\ SendControl(o, m) = o
         \/ Takes(o, m) /\ SendControl(o, m) = Expelled(o)
         \/ /\ Takes(o, m) /\ o.ctl.cost + 1 + Len(o.chan) <= ByteLimit
            /\ \E t \in Side : Enqueued(o, m, t) /\ SendControl(o, m) = Flush(t)
<1> DEFINE t == [o EXCEPT !.ctl = Enqueue(@, m)]
           r == SendControl(o, m)
<1>1. Cost(m) = 1 /\ m.kind \in {"output", "note", "pause", "continue", "detached"}
  BY FreshMessages
<1>2. r = IF ~Takes(o, m) THEN o
          ELSE IF Cost(m) + o.ctl.cost + o.bytes > ByteLimit THEN Expelled(o)
          ELSE Flush(t)
  BY DEF SendControl, Takes
<1>3. t \in Side /\ Enqueued(o, m, t)
  <2> DEFINE y == Enqueue(o.ctl, m)
  <2>1. t = [o EXCEPT !.ctl = y]
    BY DEF Side
  <2>2. y \in Control
    BY SideFields, EnqueueFields
  <2> HIDE DEF t
  <2>3. t.ctl = y /\ t \in Side /\ t.live = o.live /\ t.chan = o.chan /\ t.bytes = o.bytes
    <3> HIDE DEF y
    <3> QED BY <2>1, <2>2, SetControl
  <2> QED BY <2>3 DEF Enqueued
<1> HIDE DEF t, r
<1>4. ASSUME Takes(o, m), ~(Cost(m) + o.ctl.cost + o.bytes > ByteLimit)
      PROVE  o.ctl.cost + 1 + Len(o.chan) <= ByteLimit
  <2>1. /\ o.bytes = Total(o.chan) /\ o.ctl.cost \in Int /\ o.chan \in Seq(Message)
        /\ Without(o.chan, {"exit", "detached"})
    BY <1>4, SideFields DEF Counted, Takes
  <2> DEFINE n == Len(o.chan)
             total == Total(o.chan)
             cost == o.ctl.cost
  <2>2. total \in Nat /\ n \in Nat /\ n <= total
    <3>1. \A i \in 1..Len(o.chan) : o.chan[i].kind # "exit"
      BY <2>1 DEF Without
    <3> QED BY <2>1, <3>1, TotalBounds
  <2>3. ~(1 + cost + total > ByteLimit) /\ cost \in Int /\ ByteLimit \in Nat
    BY <1>1, <1>4, <2>1, ControlAssumption
  <2> HIDE DEF n, total, cost
  <2>4. cost + 1 + n <= ByteLimit
    BY ONLY <2>2, <2>3
  <2> QED BY <2>4 DEF n, cost
<1> QED BY <1>2, <1>3, <1>4 DEF r

\* Not taken
LEMMA RefusedNote ==
  ASSUME NEW o \in Side, NEW D, NEW C \in BOOLEAN, NEW e \in Account, Sound(o, D, C, e),
         ~o.live \/ C, NEW f, C => f = e
  PROVE  Sound(o, D, C, f)
<1>1. CASE C
  BY <1>1
<1>2. CASE ~C
  <2>1. ~o.live /\ Without(Way(o), {"detached"})
    BY <1>2 DEF Sound, Parted
  <2>2. Without(o.chan, {"detached"})
    <3>1. \A i \in DOMAIN o.chan : i \in DOMAIN Way(o) /\ Way(o)[i] = o.chan[i]
      <4>1. DOMAIN o.chan = 1..Len(o.chan)
        BY SideFields
      <4>2. /\ Len(o.chan) \in Nat /\ Len(o.ctl.pending) \in Nat
            /\ DOMAIN Way(o) = 1..(Len(o.chan) + Len(o.ctl.pending))
            /\ \A i \in 1..Len(o.chan) : Way(o)[i] = o.chan[i]
        BY WayPlaces
      <4> DEFINE n == Len(o.chan)
                 k == Len(o.ctl.pending)
                 W == Way(o)
                 c == o.chan
      <4>3. n \in Nat /\ k \in Nat /\ DOMAIN c = 1..n
        BY <4>1, <4>2
      <4>4. DOMAIN W = 1..(n + k) /\ \A i \in 1..n : W[i] = c[i]
        BY <4>2
      <4> HIDE DEF n, k, W, c
      <4>5. \A i \in DOMAIN c : i \in DOMAIN W /\ W[i] = c[i]
        BY ONLY <4>3, <4>4
      <4> QED BY <4>5 DEF W, c
    <3> QED BY <2>1, <3>1 DEF Without
  <2>3. Ordered(o, f) /\ Hears(o, f) /\ Speaks(o, f, D, C)
    BY <2>1, <2>2 DEF Ordered, Hears, Speaks
  <2> QED BY <2>3 DEF Sound
<1> QED BY <1>1, <1>2

\* send_control expels a client that is over its budget.
LEMMA LiveExpelled ==
  ASSUME NEW o \in Side, o.live, Counted(o), NEW D, NEW E, NEW C \in BOOLEAN, NEW e
  PROVE  Expelled(o) \in Side /\ Sound(Expelled(o), D, C, e) /\ Quieter(Expelled(o), o, E)
<1>1. o.bytes = Total(o.chan) /\ Len(o.chan) <= ChannelCap /\ Without(o.chan, {"exit", "detached"})
  BY DEF Counted
<1>2. Expelled(o) \in Side /\ ~Expelled(o).live /\ Sound(Expelled(o), D, C, e)
  BY <1>1, ExpelledKeeps
<1> QED BY <1>2 DEF Quieter

\* A message in the queue changes nothing of what is heard.
LEMMA EnqueuedQuieter ==
  ASSUME NEW o \in Side, NEW m \in Fresh, NEW t \in Side, Enqueued(o, m, t), NEW E, NEW x,
         Quieter(x, t, E)
  PROVE  Quieter(x, o, E)
<1>1. t.live = o.live /\ t.ctl.paused = o.ctl.paused
  <2>1. t.live = o.live
    BY DEF Enqueued
  <2>2. t.ctl.paused = o.ctl.paused
    <3>1. Joined(o, m, t)
      BY ONLY o \in Side, m \in Fresh, t \in Side, Enqueued(o, m, t), EnqueuedFields
    <3> QED BY ONLY <3>1 DEF Joined
  <2> QED BY <2>1, <2>2
<1>2. \A p : Audible(t.ctl, p) <=> Audible(o.ctl, p)
  <2>1. Joined(o, m, t)
    BY ONLY o \in Side, m \in Fresh, t \in Side, Enqueued(o, m, t), EnqueuedFields
  <2> QED BY ONLY <2>1 DEF Joined
<1> QED BY <1>1, <1>2 DEF Quieter

\* A reply or a notification is sent to a client that is not to go.
LEMMA SendNoteKeeps ==
  ASSUME NEW o \in Side, NEW m \in Fresh, peer \in {"open", "gone"},
         NEW D, NEW C \in BOOLEAN, NEW e \in Account, Sound(o, D, C, e),
         m.kind = "note", m.n = e.sent + 1, e.read <= e.sent,
         NEW f, f = IF C THEN e ELSE [e EXCEPT !.sent = @ + 1]
  PROVE  LET t == SendControl(o, m) IN
         t \in Side /\ Sound(t, D, C, f) /\ Quieter(t, o, D)
<1> DEFINE r == SendControl(o, m)
<1>1. \/ ~Takes(o, m) /\ r = o
      \/ Takes(o, m) /\ r = Expelled(o)
      \/ /\ Takes(o, m) /\ o.ctl.cost + 1 + Len(o.chan) <= ByteLimit
         /\ \E t \in Side : Enqueued(o, m, t) /\ r = Flush(t)
  BY SendCases DEF Sound
<1> HIDE DEF r
<1>2. CASE ~Takes(o, m) /\ r = o
  <2>1. ~o.live \/ C
    BY <1>2 DEF Takes, Sound, Parted
  <2>2. Sound(o, D, C, f)
    BY <2>1, RefusedNote
  <2> QED BY <1>2, <2>2, QuieterOrder DEF r
<1>3. CASE Takes(o, m) /\ r = Expelled(o)
  <2>1. o.live /\ Counted(o)
    BY <1>3 DEF Takes, Sound
  <2> QED BY <1>3, <2>1, LiveExpelled DEF r
<1>4. ASSUME Takes(o, m), o.ctl.cost + 1 + Len(o.chan) <= ByteLimit,
             NEW t \in Side, Enqueued(o, m, t), r = Flush(t)
      PROVE  r \in Side /\ Sound(r, D, C, f) /\ Quieter(r, o, D)
  <2>1. o.live /\ C = FALSE
    BY <1>4 DEF Takes, Sound, Parted
  <2>2. Sound(t, D, FALSE, f) /\ f = [e EXCEPT !.sent = @ + 1]
    BY <1>4, <2>1, EnqueueNote
  <2>3. f \in Account
    BY <2>2 DEF Account
  <2>4. r \in Side /\ Sound(r, D, C, f) /\ Quieter(r, t, D)
    BY <1>4, <2>1, <2>2, <2>3, FlushKeeps
  <2>5. Quieter(r, o, D)
    BY <1>4, <2>4, EnqueuedQuieter
  <2> QED BY <2>4, <2>5
<1> QED BY <1>1, <1>2, <1>3, <1>4 DEF r

\* The client is told that p is paused, or that it is no more.
LEMMA SendMarkKeeps ==
  ASSUME NEW o \in Side, NEW m \in Fresh, peer \in {"open", "gone"},
         NEW D, NEW C \in BOOLEAN, NEW e \in Account, Sound(o, D, C, e),
         NEW p \in D, m.pane = p, m.kind \in {"pause", "continue"},
         o.live => m.kind = IF p \in o.ctl.paused THEN "pause" ELSE "continue"
  PROVE  LET t == SendControl(o, m) IN
         t \in Side /\ Sound(t, D \ {p}, C, e) /\ Quieter(t, o, D \ {p})
<1> DEFINE r == SendControl(o, m)
           E == D \ {p}
<1>1. \/ ~Takes(o, m) /\ r = o
      \/ Takes(o, m) /\ r = Expelled(o)
      \/ /\ Takes(o, m) /\ o.ctl.cost + 1 + Len(o.chan) <= ByteLimit
         /\ \E t \in Side : Enqueued(o, m, t) /\ r = Flush(t)
  BY SendCases DEF Sound
<1> HIDE DEF r
<1>2. CASE ~Takes(o, m) /\ r = o
  <2>1. ~o.live \/ C
    BY <1>2 DEF Takes, Sound, Parted
  <2>2. Queues(o, E) /\ Speaks(o, e, E, C)
    BY <2>1 DEF Sound, Queues, Speaks
  <2>3. Sound(o, E, C, e)
    BY <2>2 DEF Sound
  <2> QED BY <1>2, <2>3, QuieterOrder DEF r
<1>3. CASE Takes(o, m) /\ r = Expelled(o)
  <2>1. o.live /\ Counted(o)
    BY <1>3 DEF Takes, Sound
  <2> QED BY <1>3, <2>1, LiveExpelled DEF r
<1>4. ASSUME Takes(o, m), o.ctl.cost + 1 + Len(o.chan) <= ByteLimit,
             NEW t \in Side, Enqueued(o, m, t), r = Flush(t)
      PROVE  r \in Side /\ Sound(r, E, C, e) /\ Quieter(r, o, E)
  <2>1. o.live
    BY <1>4 DEF Takes
  <2>2. Sound(t, D \ {p}, C, e)
    BY <1>4, <2>1, EnqueueMark
  <2>3. r \in Side /\ Sound(r, E, C, e) /\ Quieter(r, t, E)
    <3> HIDE DEF E
    <3>1. Sound(t, E, C, e)
      BY <2>2 DEF E
    <3> QED BY <1>4, <3>1, FlushKeeps
  <2>4. Quieter(r, o, E)
    BY <1>4, <2>3, EnqueuedQuieter
  <2> QED BY <2>3, <2>4
<1> QED BY <1>1, <1>2, <1>3, <1>4 DEF r

\* The client is told that it is detached, after what is queued.
LEMMA SendDetachedKeeps ==
  ASSUME NEW o \in Side, NEW m \in Fresh, peer \in {"open", "gone"},
         NEW D, NEW e \in Account, Sound(o, D, TRUE, e), m.kind = "detached"
  PROVE  LET t == SendControl(o, m) IN
         t \in Side /\ Sound(t, D, TRUE, e) /\ Quieter(t, o, D)
<1> DEFINE r == SendControl(o, m)
<1>1. \/ ~Takes(o, m) /\ r = o
      \/ Takes(o, m) /\ r = Expelled(o)
      \/ /\ Takes(o, m) /\ o.ctl.cost + 1 + Len(o.chan) <= ByteLimit
         /\ \E t \in Side : Enqueued(o, m, t) /\ r = Flush(t)
  BY SendCases DEF Sound
<1> HIDE DEF r
<1>2. CASE ~Takes(o, m) /\ r = o
  BY <1>2, QuieterOrder DEF r
<1>3. CASE Takes(o, m) /\ r = Expelled(o)
  <2>1. o.live /\ Counted(o)
    BY <1>3 DEF Takes, Sound
  <2> QED BY <1>3, <2>1, LiveExpelled DEF r
<1>4. ASSUME Takes(o, m), o.ctl.cost + 1 + Len(o.chan) <= ByteLimit,
             NEW t \in Side, Enqueued(o, m, t), r = Flush(t)
      PROVE  r \in Side /\ Sound(r, D, TRUE, e) /\ Quieter(r, o, D)
  <2>1. o.live
    BY <1>4 DEF Takes
  <2>2. Sound(t, D, TRUE, e)
    BY <1>4, <2>1, EnqueueDetached
  <2>3. r \in Side /\ Sound(r, D, TRUE, e) /\ Quieter(r, t, D)
    BY <1>4, <2>2, FlushKeeps
  <2>4. Quieter(r, o, D)
    BY <1>4, <2>3, EnqueuedQuieter
  <2> QED BY <2>3, <2>4
<1> QED BY <1>1, <1>2, <1>3, <1>4 DEF r

\* Output of p is sent to a client that hears it or does not.
LEMMA SendOutputKeeps ==
  ASSUME NEW o \in Side, NEW m \in Fresh, peer \in {"open", "gone"},
         NEW D, NEW C \in BOOLEAN, NEW e \in Account, Sound(o, D, C, e),
         NEW p \in Panes, m.kind = "output", m.pane = p, m.n = e.made[p] + 1,
         p \notin D, e.last[p] <= e.made[p], o.live,
         NEW f, f = IF C THEN e ELSE [e EXCEPT !.made[p] = @ + 1]
  PROVE  LET t == SendControl(o, m) IN
         t \in Side /\ Sound(t, D, C, f) /\ Quieter(t, o, D)
<1> DEFINE r == SendControl(o, m)
<1>1. \/ ~Takes(o, m) /\ r = o
      \/ Takes(o, m) /\ r = Expelled(o)
      \/ /\ Takes(o, m) /\ o.ctl.cost + 1 + Len(o.chan) <= ByteLimit
         /\ \E t \in Side : Enqueued(o, m, t) /\ r = Flush(t)
  BY SendCases DEF Sound
<1> HIDE DEF r
<1>0. ~C => /\ f \in Account /\ f.read = e.read /\ f.told = e.told /\ f.last = e.last
            /\ f.since = e.since /\ f.sent = e.sent
            /\ \A x \in Panes : f.made[x] = IF x = p THEN e.made[p] + 1 ELSE e.made[x]
  <2> SUFFICES ASSUME ~C
               PROVE  /\ f \in Account /\ f.read = e.read /\ f.told = e.told /\ f.last = e.last
                      /\ f.since = e.since /\ f.sent = e.sent
                      /\ \A x \in Panes : f.made[x] = IF x = p THEN e.made[p] + 1 ELSE e.made[x]
    OBVIOUS
  <2> DEFINE made2 == [e.made EXCEPT ![p] = @ + 1]
  <2>1. /\ made2 \in [Panes -> Nat]
        /\ \A x \in Panes : made2[x] = IF x = p THEN e.made[p] + 1 ELSE e.made[x]
    BY DEF Account
  <2>2. f = [e EXCEPT !.made = made2]
    BY DEF Account
  <2> HIDE DEF made2
  <2> QED BY <2>1, <2>2 DEF Account
<1>2. CASE ~Takes(o, m) /\ r = o
  <2>1. CASE C
    BY <1>2, <2>1, QuieterOrder DEF r
  <2>2. CASE ~C
    <3>1. o.ctl.closing = FALSE /\ ~Audible(o.ctl, p)
      BY <1>2, <2>2 DEF Takes, Sound, Parted
    <3>2. Hears(o, f)
      <4> SUFFICES ASSUME NEW x \in Panes
                   PROVE  /\ Heard(Way(o), x, f.last[x], f.made[x])
                          /\ Audible(o.ctl, x)
                               => Whole(Way(o), x, f.last[x], f.since[x], f.made[x])
        BY DEF Hears
      <4>1. /\ Heard(Way(o), x, e.last[x], e.made[x])
            /\ Audible(o.ctl, x) => Whole(Way(o), x, e.last[x], e.since[x], e.made[x])
        BY DEF Sound, Hears
      <4>2. CASE x # p
        BY <1>0, <2>2, <4>1, <4>2
      <4>3. CASE x = p
        <5>1. Way(o) \in Seq(Message) /\ e.made[p] \in Nat
          BY WayPlaces DEF Account
        <5>2. Heard(Way(o), p, e.last[p], e.made[p] + 1)
          BY <4>1, <4>3, <5>1, HeardOfMore
        <5> QED BY <1>0, <2>2, <3>1, <4>3, <5>2
      <4> QED BY <4>2, <4>3
    <3>3. Ordered(o, f) /\ Speaks(o, f, D, C)
      BY <1>0, <2>2 DEF Sound, Ordered, Speaks
    <3>4. Sound(o, D, C, f)
      BY <3>2, <3>3 DEF Sound
    <3> QED BY <1>2, <3>4, QuieterOrder DEF r
  <2> QED BY <2>1, <2>2
<1>3. CASE Takes(o, m) /\ r = Expelled(o)
  <2>1. o.live /\ Counted(o)
    BY <1>3 DEF Takes, Sound
  <2> QED BY <1>3, <2>1, LiveExpelled DEF r
<1>4. ASSUME Takes(o, m), o.ctl.cost + 1 + Len(o.chan) <= ByteLimit,
             NEW t \in Side, Enqueued(o, m, t), r = Flush(t)
      PROVE  r \in Side /\ Sound(r, D, C, f) /\ Quieter(r, o, D)
  <2>1. C = FALSE /\ Audible(o.ctl, p)
    BY <1>4 DEF Takes, Sound, Parted
  <2>2. Sound(t, D, FALSE, f)
    <3>1. f = [e EXCEPT !.made[p] = @ + 1]
      BY <2>1
    <3>2. Sound(o, D, FALSE, e)
      BY <2>1
    <3>3. Sound(t, D, FALSE, [e EXCEPT !.made[p] = @ + 1])
      BY <1>4, <2>1, <3>2, EnqueueOutput
    <3> QED BY <3>1, <3>3
  <2>3. r \in Side /\ Sound(r, D, C, f) /\ Quieter(r, t, D)
    BY <1>0, <1>4, <2>1, <2>2, FlushKeeps
  <2>4. Quieter(r, o, D)
    BY <1>4, <2>3, EnqueuedQuieter
  <2> QED BY <2>3, <2>4
<1> QED BY <1>1, <1>2, <1>3, <1>4 DEF r

\* Up to two messages
LEMMA SendAllCases ==
  ASSUME NEW o
  PROVE  /\ SendAll(o, <<>>) = o
         /\ \A x : SendAll(o, <<x>>) = SendControl(o, x)
         /\ \A x, y : SendAll(o, <<x, y>>) = SendControl(SendControl(o, x), y)
<1> DEFINE Step(u, v) == SendControl(u, v)
           Trace(f, list) == f = [i \in 0..Len(list) |->
                                    IF i = 0 THEN o ELSE Step(f[i - 1], list[i])]
           Sum(list) == CHOOSE f : Trace(f, list)
<1>0. \A list : SendAll(o, list) = Sum(list)[Len(list)]
  BY DEF SendAll
<1> HIDE DEF Step
<1>1. SendAll(o, <<>>) = o
  <2> DEFINE g == [i \in 0..0 |-> o]
  <2>1. Trace(g, <<>>)
    OBVIOUS
  <2>2. Trace(Sum(<<>>), <<>>)
    <3> HIDE DEF Trace, g
    <3> QED BY <2>1
  <2> HIDE DEF Sum
  <2>3. Sum(<<>>)[0] = o
    BY <2>2
  <2> QED BY <1>0, <2>3
<1>2. ASSUME NEW x PROVE SendAll(o, <<x>>) = Step(o, x)
  <2> DEFINE l == <<x>>
             g == [i \in 0..1 |-> IF i = 0 THEN o ELSE Step(o, x)]
  <2>0. Len(l) = 1 /\ l[1] = x
    OBVIOUS
  <2> HIDE DEF l
  <2>1. Trace(g, l)
    <3>1. g[0] = o /\ g[1] = Step(o, x)
      OBVIOUS
    <3>2. \A i \in 0..1 : g[i] = IF i = 0 THEN o ELSE Step(g[i - 1], l[i])
      <4>1. \A i \in 0..1 : i = 0 \/ i = 1
        OBVIOUS
      <4> HIDE DEF g
      <4>2. g[1] = Step(g[1 - 1], l[1])
        BY <2>0, <3>1
      <4> QED BY <3>1, <4>1, <4>2
    <3>3. g = [i \in 0..1 |-> g[i]]
      OBVIOUS
    <3> HIDE DEF g
    <3>4. g = [i \in 0..1 |-> IF i = 0 THEN o ELSE Step(g[i - 1], l[i])]
      BY <3>2, <3>3
    <3> QED BY <2>0, <3>4
  <2>2. Trace(Sum(l), l)
    <3> HIDE DEF Trace, g
    <3> QED BY <2>1
  <2> DEFINE s == Sum(l)
  <2> HIDE DEF Sum
  <2>3. s = [i \in 0..1 |-> IF i = 0 THEN o ELSE Step(s[i - 1], l[i])]
    BY <2>0, <2>2
  <2>4. s[0] = o /\ s[1] = Step(s[0], l[1])
    <3> HIDE DEF s
    <3> QED BY <2>3
  <2>5. SendAll(o, l) = s[1]
    BY <1>0, <2>0
  <2> QED BY <2>0, <2>4, <2>5 DEF l
<1>3. ASSUME NEW x, NEW y PROVE SendAll(o, <<x, y>>) = Step(Step(o, x), y)
  <2> DEFINE l == <<x, y>>
             g == [i \in 0..2 |-> IF i = 0 THEN o ELSE IF i = 1 THEN Step(o, x)
                                  ELSE Step(Step(o, x), y)]
  <2>0. Len(l) = 2 /\ l[1] = x /\ l[2] = y
    OBVIOUS
  <2> HIDE DEF l
  <2>1. Trace(g, l)
    <3>1. g[0] = o /\ g[1] = Step(o, x) /\ g[2] = Step(Step(o, x), y)
      OBVIOUS
    <3>2. \A i \in 0..2 : g[i] = IF i = 0 THEN o ELSE Step(g[i - 1], l[i])
      <4>1. \A i \in 0..2 : i = 0 \/ i = 1 \/ i = 2
        OBVIOUS
      <4> HIDE DEF g
      <4>2. g[1] = Step(g[1 - 1], l[1]) /\ g[2] = Step(g[2 - 1], l[2])
        BY <2>0, <3>1
      <4> QED BY <3>1, <4>1, <4>2
    <3>3. g = [i \in 0..2 |-> g[i]]
      OBVIOUS
    <3> HIDE DEF g
    <3>4. g = [i \in 0..2 |-> IF i = 0 THEN o ELSE Step(g[i - 1], l[i])]
      BY <3>2, <3>3
    <3> QED BY <2>0, <3>4
  <2>2. Trace(Sum(l), l)
    <3> HIDE DEF Trace, g
    <3> QED BY <2>1
  <2> DEFINE s == Sum(l)
  <2> HIDE DEF Sum
  <2>3. s = [i \in 0..2 |-> IF i = 0 THEN o ELSE Step(s[i - 1], l[i])]
    BY <2>0, <2>2
  <2>4. s[0] = o /\ s[1] = Step(s[0], l[1]) /\ s[2] = Step(s[1], l[2])
    <3> HIDE DEF s
    <3> QED BY <2>3
  <2>5. SendAll(o, l) = s[2]
    BY <1>0, <2>0
  <2> QED BY <2>0, <2>4, <2>5 DEF l
<1> QED BY <1>1, <1>2, <1>3 DEF Step

-----------------------------------------------------------------------------
(* What the client hears changes (refresh-client)                          *)

\* What the client hears is changed to what c says, output of the panes in X is
\* dropped, and it is told next of the panes in D.
Retuned(o, c, X, D, C, e, f) ==
  /\ o.live /\ Sound(o, {}, C, e)
  /\ c.pending = o.ctl.pending /\ c.cost = o.ctl.cost /\ c.closing = o.ctl.closing
  /\ f.read = e.read /\ f.sent = e.sent /\ f.told = e.told
  /\ f.last = e.last /\ f.made = e.made
  /\ \A x \in Panes : Audible(c, x) =>
       \/ f.since[x] = e.made[x]
       \/ Audible(o.ctl, x) /\ x \notin X /\ f.since[x] = e.since[x]
  /\ \A x \in Panes : x \notin X /\ Audible(o.ctl, x) => Audible(c, x) /\ x \notin D
  /\ \A x \in Panes : ((x \in c.paused) # (x \in D)) = (x \in o.ctl.paused)

\* A change of what is heard that drops output keeps every claim.
LEMMA RetunedDiscards ==
  ASSUME NEW o \in Side, NEW c \in Control, NEW X, NEW D, NEW C \in BOOLEAN,
         NEW e \in Account, NEW f, Retuned(o, c, X, D, C, e, f)
  PROVE  LET t == [o EXCEPT !.ctl = Discard(c, X)] IN
         /\ t \in Side /\ t.live /\ Sound(t, D, C, f) /\ t.ctl.paused = c.paused
         /\ \A x : Audible(t.ctl, x) <=> Audible(c, x)
<1> DEFINE l == o.ctl.pending
           d == Discard(c, X)
           t == [o EXCEPT !.ctl = d]
<1>1. /\ d \in Control /\ d.pending = Kept(l, Others(l, X)) /\ d.cost = Len(d.pending)
      /\ d.off = c.off /\ d.paused = c.paused /\ d.muted = c.muted /\ d.closing = o.ctl.closing
  <2>1. c.pending = l /\ c.closing = o.ctl.closing
    BY DEF Retuned
  <2>2. /\ d \in Control /\ d.pending = Kept(c.pending, Others(c.pending, X))
        /\ d.cost = Len(d.pending)
        /\ d.off = c.off /\ d.paused = c.paused /\ d.muted = c.muted /\ d.closing = c.closing
    BY DiscardFields
  <2> HIDE DEF d, l
  <2> QED BY <2>1, <2>2
<1>2. l \in Seq(Queued)
  BY SideFields
<1> HIDE DEF l
<1>3. /\ d.pending \in Seq(Queued) /\ Len(d.pending) <= Len(l)
      /\ \A k \in 1..Len(d.pending) :
           ~ (d.pending[k].m.kind = "output" /\ d.pending[k].m.pane \in X)
      /\ \E at : Places(d.pending, l, X, at)
  <2> DEFINE r == Kept(l, Others(l, X))
  <2>1. /\ r \in Seq(Queued) /\ Len(r) <= Len(l)
        /\ \A k \in 1..Len(r) : ~ (r[k].m.kind = "output" /\ r[k].m.pane \in X)
        /\ \E at : Places(r, l, X, at)
    BY <1>2, KeptQueue
  <2>2. d.pending = r
    BY <1>1
  <2> HIDE DEF r, d
  <2> QED BY <2>1, <2>2
<1> HIDE DEF d
<1>4. /\ t \in Side /\ t.ctl = d /\ t.live = o.live /\ t.chan = o.chan /\ t.bytes = o.bytes
  BY <1>1, SetControl
<1> HIDE DEF t
<1>5. \A x : Audible(t.ctl, x) <=> Audible(c, x)
  BY <1>1, <1>4 DEF Audible
<1>6. Thins(o, t, X, {}, D, C, e, f)
  <2>1. /\ o.live /\ t.live /\ t.chan = o.chan /\ t.bytes = o.bytes
        /\ t.ctl.cost = Len(t.ctl.pending) /\ t.ctl.closing = o.ctl.closing
        /\ t.ctl.paused = c.paused /\ t.ctl.pending = d.pending
    BY <1>1, <1>4 DEF Retuned
  <2>2. /\ \E at : Places(t.ctl.pending, o.ctl.pending, X, at)
        /\ Len(t.ctl.pending) <= Len(o.ctl.pending)
        /\ \A k \in 1..Len(t.ctl.pending) :
             ~ (t.ctl.pending[k].m.kind = "output" /\ t.ctl.pending[k].m.pane \in X)
    BY <1>3, <2>1 DEF l
  <2>3. /\ \A x \in Panes : Audible(t.ctl, x) =>
             \/ f.since[x] = e.made[x]
             \/ Audible(o.ctl, x) /\ x \notin X /\ f.since[x] = e.since[x]
        /\ \A x \in Panes : x \notin X /\ x \notin {} /\ Audible(o.ctl, x)
                              => Audible(t.ctl, x) /\ x \notin D
    BY <1>5 DEF Retuned
  <2>4. ASSUME NEW x \in Panes
        PROVE  ((x \in t.ctl.paused) # (x \in D)) = ((x \in o.ctl.paused) # (x \in {}))
    <3>1. ((x \in t.ctl.paused) # (x \in D)) = (x \in o.ctl.paused)
      BY <2>1 DEF Retuned
    <3>2. CASE x \in o.ctl.paused
      BY ONLY <3>1, <3>2
    <3>3. CASE x \notin o.ctl.paused
      BY ONLY <3>1, <3>3
    <3> QED BY ONLY <3>2, <3>3
  <2>5. f.read = e.read /\ f.sent = e.sent /\ f.told = e.told /\ f.last = e.last /\ f.made = e.made
    BY DEF Retuned
  <2> QED BY <2>1, <2>2, <2>3, <2>4, <2>5 DEF Thins
<1>7. Sound(o, {}, C, e)
  BY DEF Retuned
<1>8. Sound(t, D, C, f)
  BY <1>4, <1>6, <1>7, ThinKeeps
<1>9. t.live /\ t.ctl.paused = c.paused
  BY <1>1, <1>4 DEF Retuned
<1> QED BY <1>4, <1>5, <1>8, <1>9 DEF t, d

\* One that drops nothing does.
LEMMA RetunedKeepsQueue ==
  ASSUME NEW o \in Side, NEW c \in Control, NEW D, NEW C \in BOOLEAN,
         NEW e \in Account, NEW f, Retuned(o, c, {}, D, C, e, f)
  PROVE  LET t == [o EXCEPT !.ctl = c] IN t \in Side /\ t.live /\ t.ctl = c /\ Sound(t, D, C, f)
<1> DEFINE l == o.ctl.pending
           t == [o EXCEPT !.ctl = c]
           at == [k \in 1..Len(l) |-> k]
<1>1. /\ t \in Side /\ t.ctl = c /\ t.live = o.live /\ t.chan = o.chan /\ t.bytes = o.bytes
  BY SetControl
<1> HIDE DEF t
<1>2. t.ctl.pending = l /\ t.ctl.cost = o.ctl.cost /\ t.ctl.closing = o.ctl.closing /\ o.live
  BY <1>1 DEF Retuned
<1>3. l \in Seq(Queued) /\ Len(l) \in Nat
  BY SideFields
<1>4. Places(t.ctl.pending, l, {}, at)
  <2> HIDE DEF l
  <2> QED BY <1>2, <1>3 DEF Places
<1>5. Thins(o, t, {}, {}, D, C, e, f)
  <2>1. /\ o.live /\ t.live /\ t.chan = o.chan /\ t.bytes = o.bytes
        /\ t.ctl.cost = Len(t.ctl.pending) /\ t.ctl.closing = o.ctl.closing
    BY <1>1, <1>2 DEF Retuned, Sound, Counted
  <2>2. /\ \E to : Places(t.ctl.pending, o.ctl.pending, {}, to)
        /\ Len(t.ctl.pending) <= Len(o.ctl.pending)
        /\ \A k \in 1..Len(t.ctl.pending) :
             ~ (t.ctl.pending[k].m.kind = "output" /\ t.ctl.pending[k].m.pane \in {})
    <3> HIDE DEF at
    <3> QED BY <1>2, <1>3, <1>4
  <2>3. /\ \A x \in Panes : Audible(t.ctl, x) =>
             \/ f.since[x] = e.made[x]
             \/ Audible(o.ctl, x) /\ x \notin {} /\ f.since[x] = e.since[x]
        /\ \A x \in Panes : x \notin {} /\ x \notin {} /\ Audible(o.ctl, x)
                              => Audible(t.ctl, x) /\ x \notin D
    BY <1>1 DEF Retuned
  <2>4. ASSUME NEW x \in Panes
        PROVE  ((x \in t.ctl.paused) # (x \in D)) = ((x \in o.ctl.paused) # (x \in {}))
    <3>1. ((x \in t.ctl.paused) # (x \in D)) = (x \in o.ctl.paused)
      BY <1>1 DEF Retuned
    <3>2. CASE x \in o.ctl.paused
      BY ONLY <3>1, <3>2
    <3>3. CASE x \notin o.ctl.paused
      BY ONLY <3>1, <3>3
    <3> QED BY ONLY <3>2, <3>3
  <2>5. f.read = e.read /\ f.sent = e.sent /\ f.told = e.told /\ f.last = e.last /\ f.made = e.made
    BY DEF Retuned
  <2> QED BY <2>1, <2>2, <2>3, <2>4, <2>5 DEF Thins
<1>6. Sound(o, {}, C, e)
  BY DEF Retuned
<1>7. Sound(t, D, C, f)
  BY <1>1, <1>5, <1>6, ThinKeeps
<1> QED BY <1>1, <1>2, <1>7 DEF t

\* From where on panes are heard, when what is heard changes from o to t
Renewed(e, o, t) ==
  [e EXCEPT !.since = [x \in Panes |-> IF Audible(t.ctl, x) /\ ~Audible(o.ctl, x)
                                        THEN e.made[x] ELSE e.since[x]]]

\* The fields of the renewed account
LEMMA RenewedFields ==
  ASSUME NEW e \in Account, NEW o, NEW t
  PROVE  LET f == Renewed(e, o, t) IN
         /\ f \in Account /\ f.read = e.read /\ f.sent = e.sent /\ f.told = e.told
         /\ f.last = e.last /\ f.made = e.made
         /\ \A x \in Panes : f.since[x] = IF Audible(t.ctl, x) /\ ~Audible(o.ctl, x)
                                          THEN e.made[x] ELSE e.since[x]
<1> DEFINE s == [x \in Panes |-> IF Audible(t.ctl, x) /\ ~Audible(o.ctl, x)
                                 THEN e.made[x] ELSE e.since[x]]
<1>1. e.made \in [Panes -> Nat] /\ e.since \in [Panes -> Nat]
  BY DEF Account
<1>2. /\ s \in [Panes -> Nat]
      /\ \A x \in Panes : s[x] = IF Audible(t.ctl, x) /\ ~Audible(o.ctl, x)
                                 THEN e.made[x] ELSE e.since[x]
  BY <1>1
<1>3. Renewed(e, o, t) = [e EXCEPT !.since = s]
  BY DEF Renewed
<1> HIDE DEF s
<1>4. LET f == [e EXCEPT !.since = s] IN
      /\ f \in Account /\ f.read = e.read /\ f.sent = e.sent /\ f.told = e.told
      /\ f.last = e.last /\ f.made = e.made /\ f.since = s
  BY <1>2 DEF Account
<1> QED BY <1>2, <1>3, <1>4

\* Only what is heard matters of it.
LEMMA SinceMatters ==
  ASSUME NEW o, NEW D, NEW C, NEW e, NEW f, Sound(o, D, C, e),
         f.read = e.read, f.sent = e.sent, f.told = e.told, f.last = e.last, f.made = e.made,
         o.live => \A x \in Panes : Audible(o.ctl, x) => f.since[x] = e.since[x]
  PROVE  Sound(o, D, C, f)
<1>1. Hears(o, f)
  BY DEF Sound, Hears
<1>2. Ordered(o, f) /\ Speaks(o, f, D, C)
  BY DEF Sound, Ordered, Speaks
<1> QED BY <1>1, <1>2 DEF Sound

\* Panes whose state the client is told of after refresh-client -A
Marked(c, change, p) ==
  IF change \in {"pause", "continue"} /\ HasEffect(c, change, p) THEN {p} ELSE {}

\* The four changes, before anything is dropped
Turned(c, change, p) ==
  CASE change = "on"       -> [c EXCEPT !.off = @ \ {p}]
    [] change = "off"      -> [c EXCEPT !.off = @ \union {p}]
    [] change = "pause"    -> [c EXCEPT !.paused = @ \union {p}]
    [] change = "continue" -> [c EXCEPT !.paused = @ \ {p}]

\* The four changes, field by field
LEMMA TurnedFields ==
  ASSUME NEW c \in Control, NEW change \in Changes, NEW p \in Panes,
         NEW d, d = Turned(c, change, p)
  PROVE  /\ d \in Control /\ d.pending = c.pending /\ d.cost = c.cost /\ d.closing = c.closing
         /\ d.muted = c.muted
         /\ change = "on" => d.off = c.off \ {p}
         /\ change = "off" => d.off = c.off \union {p}
         /\ change \in {"pause", "continue"} => d.off = c.off
         /\ change = "pause" => d.paused = c.paused \union {p}
         /\ change = "continue" => d.paused = c.paused \ {p}
         /\ change \in {"on", "off"} => d.paused = c.paused
<1>0. c.off \subseteq Panes /\ c.paused \subseteq Panes
  BY ControlFields
<1>1. CASE change = "on"
  <2> DEFINE x == c.off \ {p}
  <2>1. d = [c EXCEPT !.off = x] /\ x \in SUBSET Panes
    BY <1>0, <1>1 DEF Turned
  <2> HIDE DEF x
  <2>2. /\ d \in Control /\ d.pending = c.pending /\ d.cost = c.cost /\ d.closing = c.closing
        /\ d.muted = c.muted /\ d.off = x /\ d.paused = c.paused
    BY <2>1 DEF Control
  <2> QED BY <1>1, <2>2 DEF x
<1>2. CASE change = "off"
  <2> DEFINE x == c.off \union {p}
  <2>1. d = [c EXCEPT !.off = x] /\ x \in SUBSET Panes
    BY <1>0, <1>2 DEF Turned
  <2> HIDE DEF x
  <2>2. /\ d \in Control /\ d.pending = c.pending /\ d.cost = c.cost /\ d.closing = c.closing
        /\ d.muted = c.muted /\ d.off = x /\ d.paused = c.paused
    BY <2>1 DEF Control
  <2> QED BY <1>2, <2>2 DEF x
<1>3. CASE change = "pause"
  <2> DEFINE x == c.paused \union {p}
  <2>1. d = [c EXCEPT !.paused = x] /\ x \in SUBSET Panes
    BY <1>0, <1>3 DEF Turned
  <2> HIDE DEF x
  <2>2. /\ d \in Control /\ d.pending = c.pending /\ d.cost = c.cost /\ d.closing = c.closing
        /\ d.muted = c.muted /\ d.paused = x /\ d.off = c.off
    BY <2>1 DEF Control
  <2> QED BY <1>3, <2>2 DEF x
<1>4. CASE change = "continue"
  <2> DEFINE x == c.paused \ {p}
  <2>1. d = [c EXCEPT !.paused = x] /\ x \in SUBSET Panes
    BY <1>0, <1>4 DEF Turned
  <2> HIDE DEF x
  <2>2. /\ d \in Control /\ d.pending = c.pending /\ d.cost = c.cost /\ d.closing = c.closing
        /\ d.muted = c.muted /\ d.paused = x /\ d.off = c.off
    BY <2>1 DEF Control
  <2> QED BY <1>4, <2>2 DEF x
<1> QED BY <1>1, <1>2, <1>3, <1>4 DEF Changes

\* Writing back the same changes nothing.
LEMMA SameSide ==
  ASSUME NEW o \in Side
  PROVE  [o EXCEPT !.ctl = o.ctl] = o
BY DEF Side

\* A claim of a state in which nothing has changed is one of it renewed.
LEMMA RenewedSame ==
  ASSUME NEW o \in Side, NEW t \in Side, t.live = o.live, NEW D, NEW C, NEW e \in Account,
         Sound(t, D, C, e), \A x \in Panes : Audible(t.ctl, x) => Audible(o.ctl, x)
  PROVE  Sound(t, D, C, Renewed(e, o, t))
<1> DEFINE f == Renewed(e, o, t)
<1>1. /\ f.read = e.read /\ f.sent = e.sent /\ f.told = e.told
      /\ f.last = e.last /\ f.made = e.made
      /\ \A x \in Panes : f.since[x] = IF Audible(t.ctl, x) /\ ~Audible(o.ctl, x)
                                          THEN e.made[x] ELSE e.since[x]
  BY RenewedFields
<1> HIDE DEF f
<1>2. Sound(t, D, C, f)
  BY <1>1, SinceMatters
<1> QED BY <1>2 DEF f

\* refresh-client -A changes what is heard and drops what is no longer wanted.
LEMMA RefreshedKeeps ==
  ASSUME NEW o \in Side, o.live, NEW C \in BOOLEAN, NEW e \in Account, Sound(o, {}, C, e),
         NEW change \in Changes, NEW p \in Panes
  PROVE  LET t == [o EXCEPT !.ctl = Refreshed(@, change, p)] IN
         /\ t \in Side /\ t.live
         /\ Sound(t, Marked(o.ctl, change, p), C, Renewed(e, o, t))
         /\ Marked(o.ctl, change, p) # {} => (p \in t.ctl.paused <=> change = "pause")
<1> DEFINE a == o.ctl
           t == [o EXCEPT !.ctl = Refreshed(a, change, p)]
           D == Marked(a, change, p)
           f == Renewed(e, o, t)
           c == Turned(a, change, p)
<1>0. [o EXCEPT !.ctl = Refreshed(@, change, p)] = t
  BY DEF Side
<1>1. CASE ~HasEffect(a, change, p)
  <2>1. t = o /\ D = {}
    BY <1>1, SameSide DEF Refreshed, Marked
  <2>2. Sound(o, {}, C, Renewed(e, o, o))
    BY RenewedSame
  <2> QED BY <1>0, <2>1, <2>2
<1>2. CASE HasEffect(a, change, p)
  <2>1. Refreshed(a, change, p) = Discard(c, {p})
    BY <1>2 DEF Refreshed, Turned
  <2>2. t = [o EXCEPT !.ctl = Discard(c, {p})]
    BY <2>1
  <2>3. /\ c \in Control /\ c.pending = a.pending /\ c.cost = a.cost /\ c.closing = a.closing
        /\ c.muted = a.muted
        /\ change = "on" => c.off = a.off \ {p}
        /\ change = "off" => c.off = a.off \union {p}
        /\ change \in {"pause", "continue"} => c.off = a.off
        /\ change = "pause" => c.paused = a.paused \union {p}
        /\ change = "continue" => c.paused = a.paused \ {p}
        /\ change \in {"on", "off"} => c.paused = a.paused
    <3>1. a \in Control /\ c = Turned(a, change, p)
      BY SideFields
    <3> HIDE DEF a, c
    <3> QED BY <3>1, TurnedFields
  <2>4. change \in {"on", "off", "pause", "continue"}
    BY DEF Changes
  <2>5. /\ change = "on" => p \in a.off
        /\ change = "pause" => p \notin a.paused
        /\ change = "continue" => p \in a.paused
    BY <1>2, <2>4 DEF HasEffect
  <2>6. D = IF change \in {"pause", "continue"} THEN {p} ELSE {}
    BY <1>2 DEF Marked
  <2> HIDE DEF c, D
  <2>7. \A x \in Panes : x # p => (Audible(c, x) <=> Audible(a, x))
    BY <2>3, <2>4 DEF Audible
  <2>8. Audible(c, p) => ~Audible(a, p)
    BY <2>3, <2>4, <2>5 DEF Audible
  <2>9. \A x \in Panes : ((x \in c.paused) # (x \in D)) = (x \in a.paused)
    BY <2>3, <2>4, <2>5, <2>6
  <2> DEFINE s == [x \in Panes |-> IF Audible(c, x) /\ ~Audible(a, x)
                                   THEN e.made[x] ELSE e.since[x]]
             g == [e EXCEPT !.since = s]
  <2>10. \A x \in Panes : s[x] = IF Audible(c, x) /\ ~Audible(a, x)
                                   THEN e.made[x] ELSE e.since[x]
    OBVIOUS
  <2> HIDE DEF s
  <2>11. /\ g.read = e.read /\ g.sent = e.sent /\ g.told = e.told
         /\ g.last = e.last /\ g.made = e.made /\ g.since = s
    BY DEF Account
  <2> HIDE DEF g
  <2>12. Retuned(o, c, {p}, D, C, e, g)
    <3>1. \A x \in Panes : Audible(c, x) =>
             \/ g.since[x] = e.made[x]
             \/ Audible(o.ctl, x) /\ x \notin {p} /\ g.since[x] = e.since[x]
      BY <2>7, <2>8, <2>10, <2>11
    <3>2. \A x \in Panes : x \notin {p} /\ Audible(o.ctl, x) => Audible(c, x) /\ x \notin D
      BY <2>6, <2>7
    <3> QED BY <2>3, <2>9, <2>11, <3>1, <3>2 DEF Retuned
  <2>13. /\ t \in Side /\ t.live /\ Sound(t, D, C, g) /\ t.ctl.paused = c.paused
         /\ \A x : Audible(t.ctl, x) <=> Audible(c, x)
    <3> DEFINE X == {p}
               u == [o EXCEPT !.ctl = Discard(c, X)]
    <3>2. t = u
      BY <2>2
    <3>3. Retuned(o, c, X, D, C, e, g) /\ c \in Control
      BY <2>3, <2>12
    <3> HIDE DEF X, t, a
    <3>1. /\ u \in Side /\ u.live /\ Sound(u, D, C, g) /\ u.ctl.paused = c.paused
          /\ \A x : Audible(u.ctl, x) <=> Audible(c, x)
      BY <3>3, RetunedDiscards
    <3> HIDE DEF u
    <3> QED BY <3>1, <3>2
  <2> HIDE DEF t
  <2>14. /\ f.read = e.read /\ f.sent = e.sent /\ f.told = e.told
         /\ f.last = e.last /\ f.made = e.made
         /\ \A x \in Panes : f.since[x] = IF Audible(t.ctl, x) /\ ~Audible(o.ctl, x)
                                          THEN e.made[x] ELSE e.since[x]
    BY RenewedFields
  <2> HIDE DEF f
  <2>15. \A x \in Panes : f.since[x] = g.since[x]
    BY <2>10, <2>11, <2>13, <2>14
  <2>16. Sound(t, D, C, f)
    BY <2>11, <2>13, <2>14, <2>15, SinceMatters
  <2>17. D # {} => (p \in t.ctl.paused <=> change = "pause")
    BY <2>3, <2>6, <2>13
  <2> QED BY <1>0, <2>13, <2>16, <2>17 DEF f, D
<1> QED BY <1>1, <1>2

\* From where on panes are heard, when what is heard changes from o to t and
\* output of the panes in X is dropped
Retold(e, o, t, X) ==
  [e EXCEPT !.since = [x \in Panes |->
                         IF x \in X \/ (Audible(t.ctl, x) /\ ~Audible(o.ctl, x))
                         THEN e.made[x] ELSE e.since[x]]]

\* The fields of that account
LEMMA RetoldFields ==
  ASSUME NEW e \in Account, NEW o, NEW t, NEW X
  PROVE  LET f == Retold(e, o, t, X) IN
         /\ f \in Account /\ f.read = e.read /\ f.sent = e.sent /\ f.told = e.told
         /\ f.last = e.last /\ f.made = e.made
         /\ \A x \in Panes :
              f.since[x] = IF x \in X \/ (Audible(t.ctl, x) /\ ~Audible(o.ctl, x))
                           THEN e.made[x] ELSE e.since[x]
<1> DEFINE s == [x \in Panes |-> IF x \in X \/ (Audible(t.ctl, x) /\ ~Audible(o.ctl, x))
                                 THEN e.made[x] ELSE e.since[x]]
<1>1. e.made \in [Panes -> Nat] /\ e.since \in [Panes -> Nat]
  BY DEF Account
<1>2. /\ s \in [Panes -> Nat]
      /\ \A x \in Panes : s[x] = IF x \in X \/ (Audible(t.ctl, x) /\ ~Audible(o.ctl, x))
                                 THEN e.made[x] ELSE e.since[x]
  BY <1>1
<1>3. Retold(e, o, t, X) = [e EXCEPT !.since = s]
  BY DEF Retold
<1> HIDE DEF s
<1>4. LET f == [e EXCEPT !.since = s] IN
      /\ f \in Account /\ f.read = e.read /\ f.sent = e.sent /\ f.told = e.told
      /\ f.last = e.last /\ f.made = e.made /\ f.since = s
  BY <1>2 DEF Account
<1> QED BY <1>2, <1>3, <1>4

\* The flags, field by field
LEMMA SwitchedFields ==
  ASSUME NEW c \in Control, NEW flags \in Flags, NEW d, d = Switched(c, flags)
  PROVE  /\ d \in Control /\ d.pending = c.pending /\ d.cost = c.cost /\ d.closing = c.closing
         /\ d.paused = c.paused /\ d.off = c.off
         /\ Dropped(flags) = {} \/ Dropped(flags) = Panes
         /\ Dropped(flags) = {} => d.muted = c.muted \/ Panes = {}
<1> DEFINE m == IF flags.output = "none" THEN c.muted ELSE flags.output = "no-output"
           a == IF flags.age = "none" THEN c.aging ELSE flags.age = "pause-after"
<1>1. c.muted \in BOOLEAN /\ c.aging \in BOOLEAN
  BY ControlFields
<1>2. m \in BOOLEAN /\ a \in BOOLEAN
  BY <1>1
<1>3. d = [c EXCEPT !.muted = m, !.aging = a]
  BY DEF Switched, Control
<1>4. flags.output = "none" => m = c.muted
  OBVIOUS
<1> HIDE DEF m, a
<1>5. /\ d \in Control /\ d.pending = c.pending /\ d.cost = c.cost /\ d.closing = c.closing
      /\ d.paused = c.paused /\ d.off = c.off /\ d.muted = m
  BY <1>2, <1>3 DEF Control
<1>6. /\ Dropped(flags) = {} \/ Dropped(flags) = Panes
      /\ Dropped(flags) = {} => flags.output = "none" \/ Panes = {}
  BY DEF Dropped
<1> QED BY <1>4, <1>5, <1>6

\* refresh-client -f: what is queued is dropped if a flag for it is named, and
\* from here on nothing is missing again.
LEMMA FlaggedKeeps ==
  ASSUME NEW o \in Side, o.live, NEW C \in BOOLEAN, NEW e \in Account, Sound(o, {}, C, e),
         NEW flags \in Flags
  PROVE  LET t == [o EXCEPT !.ctl = Flagged(@, flags)] IN
         t \in Side /\ t.live /\ Sound(t, {}, C, Retold(e, o, t, Dropped(flags)))
<1> DEFINE a == o.ctl
           d == Flagged(a, flags)
           t == [o EXCEPT !.ctl = d]
           c == Switched(a, flags)
           X == Dropped(flags)
           f == Retold(e, o, t, X)
           s == [x \in Panes |-> IF x \in X \/ (Audible(c, x) /\ ~Audible(a, x))
                                 THEN e.made[x] ELSE e.since[x]]
           g == [e EXCEPT !.since = s]
           D == {}
<1>1. [o EXCEPT !.ctl = Flagged(@, flags)] = t
  BY DEF Side
<1>2. /\ c \in Control /\ c.pending = a.pending /\ c.cost = a.cost /\ c.closing = a.closing
      /\ c.paused = a.paused /\ c.off = a.off
      /\ X = {} \/ X = Panes
      /\ X = {} => c.muted = a.muted \/ Panes = {}
  <2>1. a \in Control /\ c = Switched(a, flags)
    BY SideFields
  <2> HIDE DEF a, c
  <2> QED BY <2>1, SwitchedFields
<1>3. t = IF X = {} THEN [o EXCEPT !.ctl = c] ELSE [o EXCEPT !.ctl = Discard(c, X)]
  BY DEF Flagged
<1>4. \A x \in Panes : s[x] = IF x \in X \/ (Audible(c, x) /\ ~Audible(a, x))
                              THEN e.made[x] ELSE e.since[x]
  OBVIOUS
<1> HIDE DEF s
<1>5. /\ g.read = e.read /\ g.sent = e.sent /\ g.told = e.told
      /\ g.last = e.last /\ g.made = e.made /\ g.since = s
  BY DEF Account
<1> HIDE DEF g, c, X, D
<1>6. Retuned(o, c, X, D, C, e, g)
  <2>1. \A x \in Panes : Audible(c, x) =>
           \/ g.since[x] = e.made[x]
           \/ Audible(o.ctl, x) /\ x \notin X /\ g.since[x] = e.since[x]
    BY <1>4, <1>5
  <2>2. \A x \in Panes : x \notin X /\ Audible(o.ctl, x) => Audible(c, x) /\ x \notin D
    BY <1>2 DEF Audible, D
  <2>3. ASSUME NEW x \in Panes
        PROVE  ((x \in c.paused) # (x \in D)) = (x \in o.ctl.paused)
    <3>1. c.paused = o.ctl.paused /\ x \notin D
      BY <1>2 DEF D
    <3>2. CASE x \in c.paused
      BY ONLY <3>1, <3>2
    <3>3. CASE x \notin c.paused
      BY ONLY <3>1, <3>3
    <3> QED BY ONLY <3>2, <3>3
  <2>4. Sound(o, D, C, e)
    BY DEF D
  <2> QED BY <1>2, <1>5, <2>1, <2>2, <2>3, <2>4 DEF Retuned, D
<1> HIDE DEF a, d, t
<1>7. t \in Side /\ t.live /\ Sound(t, D, C, g) /\ \A x : Audible(t.ctl, x) <=> Audible(c, x)
  <2>1. CASE X = {}
    <3> DEFINE u == [o EXCEPT !.ctl = c]
    <3>1. u \in Side /\ u.live /\ u.ctl = c /\ Sound(u, D, C, g)
      BY <1>2, <1>6, <2>1, RetunedKeepsQueue
    <3> HIDE DEF u
    <3>2. t = u
      BY <1>3, <2>1 DEF u
    <3> QED BY <3>1, <3>2
  <2>2. CASE X # {}
    <3> DEFINE u == [o EXCEPT !.ctl = Discard(c, X)]
    <3>1. /\ u \in Side /\ u.live /\ Sound(u, D, C, g)
          /\ \A x : Audible(u.ctl, x) <=> Audible(c, x)
      BY <1>2, <1>6, RetunedDiscards
    <3> HIDE DEF u
    <3>2. t = u
      BY <1>3, <2>2 DEF u
    <3> QED BY <3>1, <3>2
  <2> QED BY <2>1, <2>2
<1>8. /\ f.read = e.read /\ f.sent = e.sent /\ f.told = e.told
      /\ f.last = e.last /\ f.made = e.made
      /\ \A x \in Panes :
           f.since[x] = IF x \in X \/ (Audible(t.ctl, x) /\ ~Audible(o.ctl, x))
                        THEN e.made[x] ELSE e.since[x]
  BY RetoldFields
<1> HIDE DEF f
<1>9. \A x \in Panes : f.since[x] = g.since[x]
  BY <1>4, <1>5, <1>7, <1>8 DEF a
<1>10. Sound(t, D, C, f)
  BY <1>5, <1>7, <1>8, <1>9, SinceMatters
<1> QED BY <1>1, <1>7, <1>10 DEF D, f, X

\* The client is to go: it is told no more than what is queued, and that.
LEMMA ClosingKeeps ==
  ASSUME NEW o \in Side, o.live, NEW e \in Account, Sound(o, {}, FALSE, e)
  PROVE  LET t == [o EXCEPT !.ctl.closing = TRUE] IN
         /\ t \in Side /\ t.live /\ Sound(t, {}, TRUE, e)
         /\ \A x : Audible(t.ctl, x) <=> Audible(o.ctl, x)
<1> DEFINE d == [o.ctl EXCEPT !.closing = TRUE]
           t == [o EXCEPT !.ctl.closing = TRUE]
<1>1. t = [o EXCEPT !.ctl = d] /\ o.ctl \in Control
  BY DEF Side
<1>2. /\ d \in Control /\ d.pending = o.ctl.pending /\ d.cost = o.ctl.cost /\ d.closing = TRUE
      /\ d.off = o.ctl.off /\ d.paused = o.ctl.paused /\ d.muted = o.ctl.muted
  BY <1>1 DEF Control
<1> HIDE DEF d, t
<1>3. /\ t \in Side /\ t.ctl = d /\ t.live = o.live /\ t.chan = o.chan /\ t.bytes = o.bytes
  BY <1>1, <1>2, SetControl
<1>4. \A x : Audible(t.ctl, x) <=> Audible(o.ctl, x)
  BY <1>2, <1>3 DEF Audible
<1>5. Way(t) = Way(o)
  BY <1>2, <1>3 DEF Way
<1>6. Counted(t)
  BY <1>2, <1>3 DEF Sound, Counted
<1>7. Ordered(t, e)
  BY <1>3, <1>5 DEF Sound, Ordered
<1>8. Parted(t, TRUE) /\ Speaks(t, e, {}, TRUE)
  BY <1>2, <1>3 DEF Parted, Speaks
<1>9. Hears(t, e)
  BY <1>3, <1>4, <1>5 DEF Sound, Hears
<1>10. Queues(t, {})
  BY <1>2, <1>3, <1>4 DEF Sound, Queues
<1>11. Sound(t, {}, TRUE, e)
  BY <1>6, <1>7, <1>8, <1>9, <1>10 DEF Sound
<1> QED BY <1>3, <1>4, <1>11 DEF t

-----------------------------------------------------------------------------
(* The state, and its invariant                                            *)

\* The owner's side of the state
LEMMA NowFields ==
  /\ Now.live = live /\ Now.ctl = ctl /\ Now.chan = chan /\ Now.bytes = bytes
BY DEF Now

\* What it is related to
LEMMA AccountFields ==
  /\ TheAccount.read = view.read /\ TheAccount.told = view.paused
  /\ TheAccount.last = view.last /\ TheAccount.made = made
  /\ TheAccount.since = since /\ TheAccount.sent = sent
BY DEF TheAccount

\* Its types, from those of the account
LEMMA NumbersFields ==
  ASSUME TheAccount \in Account
  PROVE  /\ view.read \in Nat /\ view.paused \subseteq Panes /\ view.last \in [Panes -> Nat]
         /\ made \in [Panes -> Nat] /\ since \in [Panes -> Nat] /\ sent \in Nat
BY AccountFields DEF Account

\* A client in its first state
LEMMA InitHolds ==
  ASSUME Init
  PROVE  IInv
<1> DEFINE zero == [p \in Panes |-> 0]
<1>1. /\ live = TRUE /\ ctl = NewControl /\ chan = <<>> /\ bytes = 0 /\ peer = "open"
      /\ owner = "running" /\ made = zero /\ since = zero /\ sent = 0
      /\ view = [read |-> 0, paused |-> {}, last |-> zero, told |-> FALSE]
  BY DEF Init
<1>2. MaxOutput \in Nat /\ MaxNotes \in Nat /\ ChannelCap \in Nat /\ ByteLimit \in Nat
  BY ControlAssumption
<1>3. zero \in [Panes -> 0..MaxOutput] /\ zero \in [Panes -> Nat] /\ \A p \in Panes : zero[p] = 0
  BY <1>2
<1> HIDE DEF zero
<1>4. view.read = 0 /\ view.paused = {} /\ view.last = zero /\ view.told = FALSE
  BY <1>1
<1>5. Typed
  <2>1. Now \in Side
    BY <1>1, NewControlType DEF Now, Side
  <2>2. TheAccount \in Account
    BY <1>1, <1>3, <1>4 DEF TheAccount, Account
  <2>3. view \in [read : Nat, paused : SUBSET Panes, last : [Panes -> Nat], told : BOOLEAN]
    BY <1>1, <1>3
  <2> QED BY <1>1, <1>2, <1>3, <2>1, <2>2, <2>3 DEF Typed
<1>6. Read
  BY <1>1, <1>3, <1>4 DEF Read
<1>7. Going = FALSE
  BY <1>1, NewControlType DEF Going
<1> DEFINE o == Now
           e == TheAccount
<1>8. /\ o.live = TRUE /\ o.ctl = NewControl /\ o.chan = <<>> /\ o.bytes = 0
      /\ e.read = 0 /\ e.told = {} /\ e.last = zero /\ e.made = zero /\ e.since = zero /\ e.sent = 0
  BY <1>1, <1>4, NowFields, AccountFields
<1>9. o \in Side
  BY <1>5 DEF Typed
<1> HIDE DEF o, e
<1>10. o.ctl.pending = <<>> /\ o.ctl.cost = 0 /\ o.ctl.closing = FALSE /\ o.ctl.paused = {}
  BY <1>8, NewControlType
<1>11. Way(o) = <<>>
  <2>1. Len(o.chan) = 0 /\ Len(o.ctl.pending) = 0
    BY <1>8, <1>10
  <2>2. Way(o) \in Seq(Message) /\ Len(Way(o)) = Len(o.chan) + Len(o.ctl.pending)
    BY <1>9, WayPlaces
  <2>3. Way(o) \in Seq(Message) /\ Len(Way(o)) = 0
    BY <2>1, <2>2
  <2> DEFINE W == Way(o)
  <2> HIDE DEF W
  <2>4. W = <<>>
    BY <2>3 DEF W
  <2> QED BY <2>4 DEF W
<1>12. Counted(o)
  BY <1>2, <1>8, <1>10, TotalEmpty DEF Counted, Without
<1>13. Ordered(o, e)
  <2>1. NotesIn(<<>>) = {}
    BY DEF NotesIn
  <2>2. Numbered(<<>>, {}, {}) /\ NotesFirst(<<>>)
    BY DEF Numbered, NotesFirst
  <2>3. 0 + 1 .. 0 = {}
    OBVIOUS
  <2> QED BY <1>8, <1>11, <2>1, <2>2, <2>3 DEF Ordered
<1>14. Parted(o, FALSE)
  BY <1>8, <1>10, <1>11 DEF Parted, Without
<1>15. Hears(o, e)
  <2> SUFFICES ASSUME NEW p \in Panes
               PROVE  Heard(<<>>, p, zero[p], zero[p]) /\ Whole(<<>>, p, zero[p], zero[p], zero[p])
    BY <1>8, <1>11 DEF Hears
  <2>1. OutputsOf(<<>>, p) = {}
    BY DEF OutputsOf
  <2> QED BY <1>3, <2>1 DEF Heard, Whole
<1>16. Queues(o, {})
  BY <1>10 DEF Queues
<1>17. Speaks(o, e, {}, FALSE)
  <2> SUFFICES ASSUME NEW p \in Panes
               PROVE  Voice(<<>>, {}, p, FALSE)
    BY <1>8, <1>10, <1>11 DEF Speaks
  <2>1. Marks(<<>>, p, Len(<<>>)) = {}
    BY DEF Marks
  <2>2. ~Believes(<<>>, {}, p, Len(<<>>))
    BY <2>1 DEF Believes
  <2> QED BY <2>2 DEF Voice
<1>18. Sound(o, {}, FALSE, e)
  BY <1>12, <1>13, <1>14, <1>15, <1>16, <1>17 DEF Sound
<1> QED BY <1>5, <1>6, <1>7, <1>18 DEF IInv, o, e

\* What C says of a client that is gone does not matter.
LEMMA SoundGoing ==
  ASSUME NEW o, NEW C \in BOOLEAN, NEW B \in BOOLEAN, NEW e, Sound(o, {}, C, e),
         IF o.live THEN B = C ELSE B = TRUE
  PROVE  Sound(o, {}, B, e)
<1>1. CASE o.live
  BY <1>1
<1>2. CASE ~o.live
  <2>1. Parted(o, B) /\ Speaks(o, e, {}, B)
    BY <1>2 DEF Parted, Speaks
  <2> QED BY <2>1 DEF Sound
<1> QED BY <1>1, <1>2

-----------------------------------------------------------------------------
(* The steps of the owner                                                  *)

\* What the invariant says of the single variables
LEMMA TypedFields ==
  ASSUME IInv
  PROVE  /\ Now \in Side /\ TheAccount \in Account /\ Sound(Now, {}, Going, TheAccount)
         /\ peer \in {"open", "gone"} /\ owner \in {"running", "panicked"}
         /\ made \in [Panes -> 0..MaxOutput] /\ since \in [Panes -> 0..MaxOutput]
         /\ sent \in 0..MaxNotes /\ sent \in Nat
         /\ Going \in BOOLEAN
         /\ live => Going = ctl.closing /\ ctl.closing \in BOOLEAN
         /\ live => ~view.told /\ view.read <= sent /\ \A p \in Panes : view.last[p] <= made[p]
<1>1. Now \in Side /\ live \in BOOLEAN /\ ctl.closing \in BOOLEAN
  BY NowFields, SideFields DEF IInv, Typed
<1> QED BY <1>1 DEF IInv, Typed, Read, Going

\* What an event of the owner leaves, written back; output of the panes in X has
\* been dropped.
LEMMA CommitFromKeeps ==
  ASSUME IInv, live, NEW r \in Side, NEW outputs \in [Panes -> 0..MaxOutput],
         NEW C \in BOOLEAN, NEW f, Sound(r, {}, C, f), NEW X, CommitFrom(r, outputs, X),
         sent' \in 0..MaxNotes, owner' \in {"running", "panicked"}, sent <= sent',
         \A p \in Panes : made[p] <= outputs[p],
         f.read = view.read, f.told = view.paused, f.last = view.last, f.made = outputs,
         f.sent = sent',
         r.live => \A p \in Panes : Audible(r.ctl, p) =>
           f.since[p] = IF p \in X \/ ~Audible(ctl, p) THEN outputs[p] ELSE since[p]
  PROVE  IInv'
<1>1. /\ Now \in Side /\ TheAccount \in Account
      /\ peer \in {"open", "gone"}
      /\ made \in [Panes -> 0..MaxOutput] /\ since \in [Panes -> 0..MaxOutput]
      /\ ~view.told /\ view.read <= sent /\ \A p \in Panes : view.last[p] <= made[p]
      /\ sent \in Nat
  BY TypedFields
<1>2. /\ live' = r.live /\ ctl' = r.ctl /\ chan' = r.chan /\ bytes' = r.bytes
      /\ made' = outputs /\ peer' = peer /\ view' = view
      /\ since' = [p \in Panes |-> IF p \in X \/ (Audible(r.ctl, p) /\ ~Audible(ctl, p))
                                   THEN outputs[p] ELSE since[p]]
  BY DEF CommitFrom
<1> DEFINE o == Now'
           e == TheAccount'
           B == Going'
<1>3. o.live = r.live /\ o.ctl = r.ctl /\ o.chan = r.chan /\ o.bytes = r.bytes /\ o = r
  <2>1. o = [live |-> r.live, ctl |-> r.ctl, chan |-> r.chan, bytes |-> r.bytes]
    BY <1>2 DEF Now
  <2>2. r = [live |-> r.live, ctl |-> r.ctl, chan |-> r.chan, bytes |-> r.bytes]
    BY DEF Side
  <2> QED BY <2>1, <2>2
<1>4. /\ e.read = view.read /\ e.told = view.paused /\ e.last = view.last
      /\ e.made = outputs /\ e.since = since' /\ e.sent = sent'
  BY <1>2 DEF TheAccount
<1>5. since' \in [Panes -> 0..MaxOutput]
  BY <1>1, <1>2
<1>6. e \in Account
  <2>1. /\ view.read \in Nat /\ view.paused \subseteq Panes /\ view.last \in [Panes -> Nat]
    BY <1>1, NumbersFields
  <2>2. /\ MaxOutput \in Nat /\ MaxNotes \in Nat /\ outputs \in [Panes -> Nat]
        /\ since' \in [Panes -> Nat] /\ sent' \in Nat
    BY <1>5, ControlAssumption
  <2> QED BY <1>2, <2>1, <2>2 DEF TheAccount, Account
<1>7. Typed'
  <2>1. view \in [read : Nat, paused : SUBSET Panes, last : [Panes -> Nat], told : BOOLEAN]
    BY DEF IInv, Typed
  <2>2. (Now \in Side)' /\ (TheAccount \in Account)'
    BY <1>3, <1>6
  <2> HIDE DEF o, e
  <2> QED BY <1>1, <1>2, <1>5, <2>1, <2>2 DEF Typed
<1>8. Read'
  <2>1. view.read <= sent'
    <3>1. view.read \in Nat /\ sent \in Nat /\ sent' \in Nat
      BY <1>1, NumbersFields, ControlAssumption
    <3> QED BY <1>1, <3>1
  <2>2. \A p \in Panes : view.last[p] <= outputs[p]
    <3> TAKE p \in Panes
    <3>1. view.last[p] \in Nat /\ made[p] \in Nat /\ outputs[p] \in Nat
      BY <1>1, NumbersFields, ControlAssumption
    <3>2. view.last[p] <= made[p] /\ made[p] <= outputs[p]
      BY <1>1
    <3> QED BY <3>1, <3>2
  <2> QED BY <1>1, <1>2, <2>1, <2>2 DEF Read
<1>9. B = (~r.live \/ r.ctl.closing)
  BY <1>2 DEF Going
<1> HIDE DEF o, e, B
<1>10. Sound(r, {}, C, e)
  <2>1. r.live => \A p \in Panes : Audible(r.ctl, p) => e.since[p] = f.since[p]
    BY <1>2, <1>4
  <2> QED BY <1>4, <2>1, SinceMatters
<1>11. IF r.live THEN B = C ELSE B = TRUE
  <2>1. r.live => r.ctl.closing = C
    BY DEF Sound, Parted
  <2> QED BY <1>9, <2>1
<1>12. B \in BOOLEAN
  BY <1>11, SideFields
<1>13. Sound(r, {}, B, e)
  BY <1>10, <1>11, <1>12, SoundGoing
<1>14. Sound(o, {}, B, e)
  BY <1>3, <1>13
<1> QED BY <1>7, <1>8, <1>14 DEF IInv, o, e, B

\* Nothing has been dropped of what the client hears.
LEMMA CommitKeeps ==
  ASSUME IInv, live, NEW r \in Side, NEW outputs \in [Panes -> 0..MaxOutput],
         NEW C \in BOOLEAN, NEW f, Sound(r, {}, C, f), Commit(r, outputs),
         sent' \in 0..MaxNotes, owner' \in {"running", "panicked"}, sent <= sent',
         \A p \in Panes : made[p] <= outputs[p],
         f.read = view.read, f.told = view.paused, f.last = view.last, f.made = outputs,
         f.sent = sent',
         r.live => \A p \in Panes : Audible(r.ctl, p) =>
           f.since[p] = IF ~Audible(ctl, p) THEN outputs[p] ELSE since[p]
  PROVE  IInv'
<1> DEFINE X == {}
<1>1. CommitFrom(r, outputs, X)
  BY DEF Commit
<1>2. r.live => \A p \in Panes : Audible(r.ctl, p) =>
         f.since[p] = IF p \in X \/ ~Audible(ctl, p) THEN outputs[p] ELSE since[p]
  OBVIOUS
<1> HIDE DEF X
<1> QED BY <1>1, <1>2, CommitFromKeeps

\* The messages of the owner
LEMMA SendTypes ==
  /\ \A p \in Panes : \A n \in Nat : \A k \in {"output", "pause", "continue"} :
       M(k, p, n) \in Fresh /\ M(k, p, n).kind = k /\ M(k, p, n).pane = p /\ M(k, p, n).n = n
  /\ \A n \in Nat : Note(n) \in Fresh /\ Note(n).kind = "note" /\ Note(n).n = n
  /\ M("detached", 0, 0) \in Fresh /\ M("detached", 0, 0).kind = "detached"
<1>1. ASSUME NEW p \in Panes, NEW n \in Nat, NEW k \in {"output", "pause", "continue"}
      PROVE  M(k, p, n) \in Fresh /\ M(k, p, n).kind = k /\ M(k, p, n).pane = p /\ M(k, p, n).n = n
  BY DEF M, Fresh, Text, Message
<1>2. ASSUME NEW n \in Nat PROVE Note(n) \in Fresh /\ Note(n).kind = "note" /\ Note(n).n = n
  BY DEF Note, M, Fresh, Text, Message
<1>3. M("detached", 0, 0) \in Fresh /\ M("detached", 0, 0).kind = "detached"
  BY DEF M, Fresh, Text, Message
<1> QED BY <1>1, <1>2, <1>3

\* control_tick
LEMMA TickKeeps ==
  ASSUME IInv, Tick
  PROVE  IInv'
<1> DEFINE o == Now
           e == TheAccount
           r == Flush(o)
           C == Going
<1>1. /\ live /\ Commit(r, made) /\ sent' = sent /\ owner' = owner
  BY DEF Tick
<1>2. /\ o \in Side /\ e \in Account /\ Sound(o, {}, C, e) /\ peer \in {"open", "gone"}
      /\ owner \in {"running", "panicked"} /\ C \in BOOLEAN
      /\ made \in [Panes -> 0..MaxOutput] /\ sent \in 0..MaxNotes /\ sent \in Nat
  BY TypedFields
<1>3. /\ e.read = view.read /\ e.told = view.paused /\ e.last = view.last /\ e.made = made
      /\ e.since = since /\ e.sent = sent
  BY AccountFields
<1>4. o.ctl = ctl
  BY NowFields
<1> HIDE DEF o, e, C
<1>5. r \in Side /\ Sound(r, {}, C, e) /\ Quieter(r, o, {})
  BY <1>2, FlushKeeps
<1>6. r.live => \A p \in Panes : Audible(r.ctl, p) =>
         e.since[p] = IF ~Audible(ctl, p) THEN made[p] ELSE since[p]
  BY <1>3, <1>4, <1>5 DEF Quieter
<1>7. \A p \in Panes : made[p] <= made[p]
  BY <1>2, ControlAssumption
<1> HIDE DEF r
<1>8. sent <= sent' /\ sent' \in 0..MaxNotes /\ e.sent = sent' /\ owner' \in {"running", "panicked"}
  BY <1>1, <1>2, <1>3
<1> QED BY <1>1, <1>2, <1>3, <1>5, <1>6, <1>7, <1>8, CommitKeeps

\* A client that is closed after ten seconds or has left
LEMMA LeavingKeeps ==
  ASSUME IInv, live, Commit(Gone(Now), made), sent' = sent, owner' = owner
  PROVE  IInv'
<1> DEFINE o == Now
           e == TheAccount
           r == Gone(o)
           C == Going
<1>1. Commit(r, made)
  OBVIOUS
<1>2. /\ o \in Side /\ e \in Account /\ Sound(o, {}, C, e)
      /\ owner \in {"running", "panicked"} /\ C \in BOOLEAN
      /\ made \in [Panes -> 0..MaxOutput] /\ sent \in 0..MaxNotes /\ sent \in Nat
  BY TypedFields
<1>3. /\ e.read = view.read /\ e.told = view.paused /\ e.last = view.last /\ e.made = made
      /\ e.since = since /\ e.sent = sent
  BY AccountFields
<1>4. o.live
  BY NowFields
<1> HIDE DEF o, e, C
<1>5. r \in Side /\ ~r.live /\ Sound(r, {}, C, e)
  <2>1. Counted(o)
    BY <1>2 DEF Sound
  <2> QED BY <1>2, <1>4, <2>1, GoneKeeps
<1>6. r.live => \A p \in Panes : Audible(r.ctl, p) =>
         e.since[p] = IF ~Audible(ctl, p) THEN made[p] ELSE since[p]
  BY <1>5
<1>7. \A p \in Panes : made[p] <= made[p]
  BY <1>2, ControlAssumption
<1> HIDE DEF r
<1>8. sent <= sent' /\ sent' \in 0..MaxNotes /\ e.sent = sent' /\ owner' \in {"running", "panicked"}
  BY <1>2, <1>3
<1> QED BY <1>1, <1>2, <1>3, <1>5, <1>6, <1>7, <1>8, CommitKeeps

\* pane_output: the next output of p, unless the client is closing
LEMMA OutputKeeps ==
  ASSUME IInv, NEW p \in Panes, Output(p)
  PROVE  IInv'
<1> DEFINE o == Now
           e == TheAccount
           m == M("output", p, made[p] + 1)
           r == SendControl(o, m)
           C == ctl.closing
           f == IF C THEN e ELSE [e EXCEPT !.made[p] = @ + 1]
           outputs == IF C THEN made ELSE [made EXCEPT ![p] = @ + 1]
<1>1. /\ live /\ Commit(r, outputs) /\ sent' = sent /\ owner' = owner /\ made[p] < MaxOutput
  BY DEF Output
<1>2. /\ o \in Side /\ e \in Account /\ Sound(o, {}, C, e) /\ peer \in {"open", "gone"}
      /\ owner \in {"running", "panicked"} /\ C \in BOOLEAN
      /\ made \in [Panes -> 0..MaxOutput] /\ sent \in 0..MaxNotes /\ sent \in Nat
      /\ \A x \in Panes : view.last[x] <= made[x]
  BY <1>1, TypedFields
<1>3. /\ e.read = view.read /\ e.told = view.paused /\ e.last = view.last /\ e.made = made
      /\ e.since = since /\ e.sent = sent
  BY AccountFields
<1>4. o.ctl = ctl /\ o.live
  BY <1>1, NowFields
<1>5. made[p] \in Nat /\ MaxOutput \in Nat /\ made[p] + 1 \in 0..MaxOutput
  BY <1>1, <1>2, ControlAssumption
<1>6. /\ outputs \in [Panes -> 0..MaxOutput]
      /\ \A x \in Panes : made[x] <= outputs[x]
  <2>1. \A x \in Panes : outputs[x] = IF ~C /\ x = p THEN made[x] + 1 ELSE made[x]
    BY <1>2
  <2>2. outputs \in [Panes -> 0..MaxOutput]
    BY <1>2, <1>5
  <2>3. ASSUME NEW x \in Panes PROVE made[x] \in Nat
    <3>1. made[x] \in 0..MaxOutput
      BY <1>2
    <3>2. 0..MaxOutput \subseteq Nat
      BY <1>5
    <3> QED BY ONLY <3>1, <3>2
  <2> HIDE DEF outputs
  <2> QED BY <2>1, <2>2, <2>3
<1>7. /\ f.read = view.read /\ f.told = view.paused /\ f.last = view.last
      /\ f.made = outputs /\ f.since = since /\ f.sent = sent
  <2>1. CASE C
    BY <1>3, <2>1
  <2>2. CASE ~C
    <3> DEFINE y == [made EXCEPT ![p] = @ + 1]
    <3>1. f = [e EXCEPT !.made = y]
      BY <1>3, <2>2 DEF Account
    <3>2. outputs = y
      BY <2>2
    <3> HIDE DEF y, e
    <3> QED BY <1>2, <1>3, <3>1, <3>2 DEF Account
  <2> QED BY <1>2, <2>1, <2>2
<1> HIDE DEF outputs
<1>8. m \in Fresh /\ m.kind = "output" /\ m.pane = p /\ m.n = e.made[p] + 1
  BY <1>3, <1>5, SendTypes
<1> HIDE DEF o, e, m, C
<1>9. r \in Side /\ Sound(r, {}, C, f) /\ Quieter(r, o, {})
  <2> DEFINE g == f
             D == {}
             t == SendControl(o, m)
  <2>1. e.last[p] <= e.made[p] /\ p \notin D /\ Sound(o, D, C, e)
    BY <1>2, <1>3
  <2>2. g = IF C THEN e ELSE [e EXCEPT !.made[p] = @ + 1]
    OBVIOUS
  <2> HIDE DEF g, D, f
  <2>3. t \in Side /\ Sound(t, D, C, g) /\ Quieter(t, o, D)
    BY <1>2, <1>4, <1>8, <2>1, <2>2, SendOutputKeeps
  <2> QED BY <2>3 DEF g, D, f
<1> HIDE DEF f, r
<1>10. r.live => \A x \in Panes : Audible(r.ctl, x) =>
         f.since[x] = IF ~Audible(ctl, x) THEN outputs[x] ELSE since[x]
  BY <1>4, <1>7, <1>9 DEF Quieter
<1>11. sent <= sent' /\ sent' \in 0..MaxNotes /\ f.sent = sent' /\ owner' \in {"running", "panicked"}
  BY <1>1, <1>2, <1>7
<1> QED BY <1>1, <1>2, <1>6, <1>7, <1>9, <1>10, <1>11, CommitKeeps

\* What is heard has changed to what t says: written back after that
LEMMA RenewedCommit ==
  ASSUME IInv, live, NEW t, NEW r \in Side, NEW C \in BOOLEAN, NEW f, Sound(r, {}, C, f),
         Commit(r, made), sent' \in 0..MaxNotes, owner' \in {"running", "panicked"}, sent <= sent',
         f.read = view.read, f.told = view.paused, f.last = view.last, f.made = made,
         f.sent = sent',
         \A x \in Panes : f.since[x] = IF Audible(t.ctl, x) /\ ~Audible(ctl, x)
                                       THEN made[x] ELSE since[x],
         r.live => \A x \in Panes : Audible(r.ctl, x) => Audible(t.ctl, x)
  PROVE  IInv'
<1>1. made \in [Panes -> 0..MaxOutput]
  BY TypedFields
<1>2. \A x \in Panes : made[x] <= made[x]
  BY <1>1, ControlAssumption
<1>3. r.live => \A x \in Panes : Audible(r.ctl, x) =>
         f.since[x] = IF ~Audible(ctl, x) THEN made[x] ELSE since[x]
  OBVIOUS
<1> QED BY <1>1, <1>2, <1>3, CommitKeeps

\* One message more that may not be lost
LEMMA SentMore ==
  ASSUME NEW e \in Account, NEW f, f = [e EXCEPT !.sent = @ + 1]
  PROVE  /\ f \in Account /\ f.read = e.read /\ f.told = e.told /\ f.last = e.last
         /\ f.made = e.made /\ f.since = e.since /\ f.sent = e.sent + 1
BY DEF Account

\* A reply or a notification
LEMMA NotifyKeeps ==
  ASSUME IInv, Notify
  PROVE  IInv'
<1> DEFINE o == Now
           e == TheAccount
           m == Note(sent + 1)
           r == SendControl(o, m)
           f == [e EXCEPT !.sent = @ + 1]
           C == FALSE
           D == {}
<1>1. /\ live /\ ctl.closing = FALSE /\ Commit(r, made) /\ sent' = sent + 1 /\ owner' = owner
      /\ sent < MaxNotes
  <2>1. live /\ ~ctl.closing
    BY DEF Notify, Accepting
  <2> QED BY <2>1, TypedFields DEF Notify
<1>2. /\ o \in Side /\ e \in Account /\ Sound(o, D, C, e) /\ peer \in {"open", "gone"}
      /\ owner \in {"running", "panicked"}
      /\ sent \in 0..MaxNotes /\ sent \in Nat /\ view.read <= sent
  BY <1>1, TypedFields
<1>3. /\ e.read = view.read /\ e.told = view.paused /\ e.last = view.last /\ e.made = made
      /\ e.since = since /\ e.sent = sent
  BY AccountFields
<1>4. o.ctl = ctl
  BY NowFields
<1>5. m \in Fresh /\ m.kind = "note" /\ m.n = e.sent + 1
  <2>1. sent + 1 \in Nat
    BY <1>2
  <2> QED BY <1>3, <2>1, SendTypes
<1>6. /\ f \in Account /\ f.read = e.read /\ f.told = e.told /\ f.last = e.last
      /\ f.made = e.made /\ f.since = e.since /\ f.sent = e.sent + 1
  <2> HIDE DEF e
  <2> QED BY <1>2, SentMore
<1>7. f = IF C THEN e ELSE [e EXCEPT !.sent = @ + 1]
  OBVIOUS
<1> HIDE DEF o, e, m, f
<1>8. C \in BOOLEAN
  OBVIOUS
<1> HIDE DEF C, D
<1>9. r \in Side /\ Sound(r, D, C, f) /\ Quieter(r, o, D)
  BY <1>2, <1>3, <1>5, <1>7, <1>8, SendNoteKeeps
<1> HIDE DEF r
<1>10. Sound(r, {}, C, f)
  BY <1>9 DEF D
<1>11. r.live => \A x \in Panes : Audible(r.ctl, x) => Audible(o.ctl, x)
  BY <1>9 DEF Quieter
<1>12. \A x \in Panes : f.since[x] = IF Audible(o.ctl, x) /\ ~Audible(ctl, x)
                                    THEN made[x] ELSE since[x]
  BY <1>3, <1>4, <1>6
<1>13. sent <= sent' /\ sent' \in 0..MaxNotes /\ f.sent = sent' /\ owner' \in {"running", "panicked"}
  BY <1>1, <1>2, <1>3, <1>6, ControlAssumption
<1>14. f.read = view.read /\ f.told = view.paused /\ f.last = view.last /\ f.made = made
  BY <1>3, <1>6
<1> QED BY <1>1, <1>8, <1>9, <1>10, <1>11, <1>12, <1>13, <1>14, RenewedCommit

\* The client is told of the pane in D, if there is one.
LEMMA ToldKeeps ==
  ASSUME NEW u \in Side, peer \in {"open", "gone"}, NEW C \in BOOLEAN, NEW g \in Account,
         NEW p \in Panes, NEW change \in Changes, NEW c, NEW D, D = Marked(c, change, p),
         Sound(u, D, C, g),
         u.live /\ D # {} => (p \in u.ctl.paused <=> change = "pause"),
         NEW v, v = IF D = {} THEN u ELSE SendControl(u, M(change, p, 0))
  PROVE  v \in Side /\ Sound(v, {}, C, g) /\ Quieter(v, u, {})
<1>1. CASE D = {}
  BY <1>1, QuieterOrder
<1>2. CASE D # {}
  <2>1. D = {p} /\ change \in {"pause", "continue"}
    BY <1>2 DEF Marked
  <2> DEFINE m == M(change, p, 0)
             r == SendControl(u, m)
  <2>2. m \in Fresh /\ m.kind = change /\ m.pane = p
    <3>1. \A k \in {"output", "pause", "continue"} :
            M(k, p, 0) \in Fresh /\ M(k, p, 0).kind = k /\ M(k, p, 0).pane = p
      BY SendTypes
    <3> QED BY <2>1, <3>1
  <2>3. v = r
    BY <1>2
  <2> HIDE DEF m
  <2>4. p \in D /\ m.pane = p /\ m.kind \in {"pause", "continue"}
    BY <2>1, <2>2
  <2>5. u.live => m.kind = IF p \in u.ctl.paused THEN "pause" ELSE "continue"
    BY <1>2, <2>1, <2>2
  <2>6. r \in Side /\ Sound(r, D \ {p}, C, g) /\ Quieter(r, u, D \ {p})
    BY <2>2, <2>4, <2>5, SendMarkKeeps
  <2> HIDE DEF r
  <2>7. D \ {p} = {}
    BY <2>1
  <2> QED BY <2>3, <2>6, <2>7
<1> QED BY <1>1, <1>2

\* The client is told of the panes that are marked.
LEMMA ToldMessages ==
  ASSUME NEW c, NEW change, NEW p
  PROVE  Told(c, change, p) = IF Marked(c, change, p) = {} THEN <<>> ELSE <<M(change, p, 0)>>
BY DEF Told, Marked

\* refresh-client -A by another client
LEMMA RefreshOtherKeeps ==
  ASSUME IInv, NEW p \in Panes, NEW change \in Changes, RefreshOther(change, p)
  PROVE  IInv'
<1> DEFINE o == Now
           e == TheAccount
           t == [o EXCEPT !.ctl = Refreshed(@, change, p)]
           D == Marked(ctl, change, p)
           r == SendAll(t, Told(ctl, change, p))
           f == Renewed(e, o, t)
           C == ctl.closing
<1>1. /\ live /\ Commit(r, made) /\ sent' = sent /\ owner' = owner
  BY DEF RefreshOther
<1>2. /\ o \in Side /\ e \in Account /\ Sound(o, {}, C, e) /\ peer \in {"open", "gone"}
      /\ owner \in {"running", "panicked"} /\ C \in BOOLEAN
      /\ sent \in 0..MaxNotes /\ sent \in Nat
  BY <1>1, TypedFields
<1>3. /\ e.read = view.read /\ e.told = view.paused /\ e.last = view.last /\ e.made = made
      /\ e.since = since /\ e.sent = sent
  BY AccountFields
<1>4. o.ctl = ctl /\ o.live
  BY <1>1, NowFields
<1> HIDE DEF o, e, C
<1>5. /\ t \in Side /\ t.live /\ Sound(t, D, C, f)
      /\ D # {} => (p \in t.ctl.paused <=> change = "pause")
  <2>1. LET y == [o EXCEPT !.ctl = Refreshed(@, change, p)] IN
         /\ y \in Side /\ y.live
         /\ Sound(y, Marked(o.ctl, change, p), C, Renewed(e, o, y))
         /\ Marked(o.ctl, change, p) # {} => (p \in y.ctl.paused <=> change = "pause")
    BY <1>2, <1>4, RefreshedKeeps, SMTT(60)
  <2> QED BY <1>4, <2>1
<1> HIDE DEF t
<1>6. /\ f \in Account /\ f.read = e.read /\ f.told = e.told /\ f.last = e.last
      /\ f.made = e.made /\ f.sent = e.sent
      /\ \A x \in Panes : f.since[x] = IF Audible(t.ctl, x) /\ ~Audible(o.ctl, x)
                                          THEN e.made[x] ELSE e.since[x]
  BY <1>2, RenewedFields
<1>7. r = IF D = {} THEN t ELSE SendControl(t, M(change, p, 0))
  BY ToldMessages, SendAllCases
<1> HIDE DEF f, r
<1>8. r \in Side /\ Sound(r, {}, C, f) /\ Quieter(r, t, {})
  <2>1. D = Marked(ctl, change, p)
    OBVIOUS
  <2> HIDE DEF D
  <2> QED BY <1>2, <1>5, <1>6, <1>7, <2>1, ToldKeeps
<1>9. r.live => \A x \in Panes : Audible(r.ctl, x) => Audible(t.ctl, x)
  BY <1>8 DEF Quieter
<1>10. \A x \in Panes : f.since[x] = IF Audible(t.ctl, x) /\ ~Audible(ctl, x)
                                    THEN made[x] ELSE since[x]
  BY <1>3, <1>4, <1>6
<1>11. sent <= sent' /\ sent' \in 0..MaxNotes /\ f.sent = sent' /\ owner' \in {"running", "panicked"}
  BY <1>1, <1>2, <1>3, <1>6
<1>12. f.read = view.read /\ f.told = view.paused /\ f.last = view.last /\ f.made = made
  BY <1>3, <1>6
<1> QED BY <1>1, <1>2, <1>8, <1>9, <1>10, <1>11, <1>12, RenewedCommit

\* Two messages are sent one after the other.
LEMMA TwoMessages ==
  ASSUME NEW S, NEW x \in S, NEW y \in S
  PROVE  <<x>> \o <<y>> = <<x, y>>
<1>1. <<x>> \in Seq(S) /\ <<y>> \in Seq(S) /\ <<x, y>> \in Seq(S)
      /\ Len(<<x>>) = 1 /\ Len(<<y>>) = 1 /\ Len(<<x, y>>) = 2
  OBVIOUS
<1> DEFINE a == <<x>>
           b == <<y>>
           c == <<x, y>>
<1>2. a[1] = x /\ b[1] = y /\ c[1] = x /\ c[2] = y
  OBVIOUS
<1> HIDE DEF a, b, c
<1>3. a \o b \in Seq(S) /\ Len(a \o b) = 2 /\ (a \o b)[1] = a[1] /\ (a \o b)[2] = b[1]
  BY <1>1 DEF a, b
<1>4. \A i \in 1..Len(a \o b) : (a \o b)[i] = c[i]
  <2>1. \A i \in 1..2 : i = 1 \/ i = 2
    OBVIOUS
  <2> QED BY <1>2, <1>3, <2>1
<1>5. a \o b = c
  BY <1>1, <1>3, <1>4, SameSequence DEF c
<1> QED BY <1>5 DEF a, b, c

\* refresh-client -A by the client itself: first the result of the command, then
\* what it is told of the pane
LEMMA RefreshOwnKeeps ==
  ASSUME IInv, NEW p \in Panes, NEW change \in Changes, RefreshOwn(change, p)
  PROVE  IInv'
<1> DEFINE o == Now
           e == TheAccount
           m == Note(sent + 1)
           t == [o EXCEPT !.ctl = Refreshed(@, change, p)]
           D == Marked(ctl, change, p)
           u == SendControl(t, m)
           r == SendAll(t, <<m>> \o Told(ctl, change, p))
           f == Renewed(e, o, t)
           g == [f EXCEPT !.sent = @ + 1]
           C == FALSE
<1>1. /\ live /\ ctl.closing = FALSE /\ Commit(r, made) /\ sent' = sent + 1 /\ owner' = owner
      /\ sent < MaxNotes
  <2>1. live /\ ~ctl.closing
    BY DEF RefreshOwn, Accepting
  <2> QED BY <2>1, TypedFields DEF RefreshOwn
<1>2. /\ o \in Side /\ e \in Account /\ Sound(o, {}, C, e) /\ peer \in {"open", "gone"}
      /\ owner \in {"running", "panicked"}
      /\ sent \in 0..MaxNotes /\ sent \in Nat /\ view.read <= sent
  BY <1>1, TypedFields
<1>3. /\ e.read = view.read /\ e.told = view.paused /\ e.last = view.last /\ e.made = made
      /\ e.since = since /\ e.sent = sent
  BY AccountFields
<1>4. o.ctl = ctl /\ o.live
  BY <1>1, NowFields
<1>15. C \in BOOLEAN
  OBVIOUS
<1> HIDE DEF o, e, C
<1>5. /\ t \in Side /\ t.live /\ Sound(t, D, C, f)
      /\ D # {} => (p \in t.ctl.paused <=> change = "pause")
  <2>1. LET y == [o EXCEPT !.ctl = Refreshed(@, change, p)] IN
         /\ y \in Side /\ y.live
         /\ Sound(y, Marked(o.ctl, change, p), C, Renewed(e, o, y))
         /\ Marked(o.ctl, change, p) # {} => (p \in y.ctl.paused <=> change = "pause")
    BY <1>2, <1>4, <1>15, RefreshedKeeps
  <2> QED BY <1>4, <2>1
<1> HIDE DEF t
<1>6. /\ f \in Account /\ f.read = e.read /\ f.told = e.told /\ f.last = e.last
      /\ f.made = e.made /\ f.sent = e.sent
      /\ \A x \in Panes : f.since[x] = IF Audible(t.ctl, x) /\ ~Audible(o.ctl, x)
                                          THEN e.made[x] ELSE e.since[x]
  BY <1>2, RenewedFields
<1>7. r = IF D = {} THEN u ELSE SendControl(u, M(change, p, 0))
  <2>1. CASE D = {}
    <3>1. Told(ctl, change, p) = <<>>
      BY <2>1, ToldMessages
    <3>2. <<m>> \o <<>> = <<m>>
      OBVIOUS
    <3> HIDE DEF m, D
    <3> QED BY <2>1, <3>1, <3>2, SendAllCases
  <2>2. CASE D # {}
    <3> DEFINE y == M(change, p, 0)
    <3>1. Told(ctl, change, p) = <<y>>
      BY <2>2, ToldMessages
    <3> HIDE DEF m, D, y
    <3>2. <<m>> \o <<y>> = <<m, y>>
      <4> DEFINE S == {m, y}
      <4>1. m \in S /\ y \in S
        OBVIOUS
      <4> HIDE DEF S
      <4> QED BY <4>1, TwoMessages
    <3> DEFINE list == <<m, y>>
    <3>4. r = SendAll(t, list)
      BY <3>1, <3>2
    <3>5. SendAll(t, list) = SendControl(SendControl(t, m), y)
      BY SendAllCases
    <3> HIDE DEF list, r
    <3>3. r = SendControl(u, y)
      BY <3>4, <3>5
    <3> QED BY <2>2, <3>3 DEF y
  <2> QED BY <2>1, <2>2
<1>8. m \in Fresh /\ m.kind = "note" /\ m.n = f.sent + 1
  <2>1. sent + 1 \in Nat
    BY <1>2
  <2>2. m \in Fresh /\ m.kind = "note" /\ m.n = sent + 1
    BY <2>1, SendTypes
  <2> HIDE DEF m
  <2> QED BY <1>3, <1>6, <2>2
<1>16. f.read <= f.sent
  BY <1>2, <1>3, <1>6
<1> HIDE DEF f, r, m
<1>9. /\ g \in Account /\ g.read = f.read /\ g.told = f.told /\ g.last = f.last
      /\ g.made = f.made /\ g.since = f.since /\ g.sent = f.sent + 1
  BY <1>6, SentMore
<1>10. g = IF C THEN f ELSE [f EXCEPT !.sent = @ + 1]
  BY DEF C
<1>17. D = Marked(ctl, change, p) /\ (D = {} \/ D = {p})
  BY DEF Marked
<1> HIDE DEF g, D
<1>11. u \in Side /\ Sound(u, D, C, g) /\ Quieter(u, t, D)
  BY <1>2, <1>5, <1>6, <1>8, <1>10, <1>15, <1>16, SendNoteKeeps
<1> HIDE DEF u
<1>12. u.live /\ D # {} => (p \in u.ctl.paused <=> change = "pause")
  BY <1>5, <1>11, <1>17 DEF Quieter
<1>13. r \in Side /\ Sound(r, {}, C, g) /\ Quieter(r, u, {})
  BY <1>2, <1>7, <1>9, <1>11, <1>12, <1>15, <1>17, ToldKeeps
<1>14. r.live => \A x \in Panes : Audible(r.ctl, x) => Audible(t.ctl, x)
  BY <1>11, <1>13 DEF Quieter
<1>18. \A x \in Panes : g.since[x] = IF Audible(t.ctl, x) /\ ~Audible(ctl, x)
                                    THEN made[x] ELSE since[x]
  BY <1>3, <1>4, <1>6, <1>9
<1>19. sent <= sent' /\ sent' \in 0..MaxNotes /\ g.sent = sent' /\ owner' \in {"running", "panicked"}
  BY <1>1, <1>2, <1>3, <1>6, <1>9, ControlAssumption
<1>20. g.read = view.read /\ g.told = view.paused /\ g.last = view.last /\ g.made = made
  BY <1>3, <1>6, <1>9
<1> QED BY <1>1, <1>13, <1>14, <1>15, <1>18, <1>19, <1>20, RenewedCommit

\* The flags have changed, and then something was sent.
LEMMA RetoldCommit ==
  ASSUME IInv, live, NEW t, NEW r \in Side, NEW C \in BOOLEAN, NEW f, Sound(r, {}, C, f),
         NEW X, CommitFrom(r, made, X),
         sent' \in 0..MaxNotes, owner' \in {"running", "panicked"}, sent <= sent',
         f.read = view.read, f.told = view.paused, f.last = view.last, f.made = made,
         f.sent = sent',
         \A x \in Panes : f.since[x] = IF x \in X \/ (Audible(t.ctl, x) /\ ~Audible(ctl, x))
                                       THEN made[x] ELSE since[x],
         r.live => \A x \in Panes : Audible(r.ctl, x) => Audible(t.ctl, x)
  PROVE  IInv'
<1>1. made \in [Panes -> 0..MaxOutput]
  BY TypedFields
<1>2. \A x \in Panes : made[x] <= made[x]
  BY <1>1, ControlAssumption
<1>3. r.live => \A x \in Panes : Audible(r.ctl, x) =>
         f.since[x] = IF x \in X \/ ~Audible(ctl, x) THEN made[x] ELSE since[x]
  OBVIOUS
<1> QED BY <1>1, <1>2, <1>3, CommitFromKeeps

\* refresh-client -f by another client
LEMMA FlagOtherKeeps ==
  ASSUME IInv, NEW flags \in Flags, NEW told \in BOOLEAN, FlagOther(flags, told)
  PROVE  IInv'
<1> DEFINE o == Now
           e == TheAccount
           m == Note(sent + 1)
           t == [o EXCEPT !.ctl = Flagged(@, flags)]
           v == SendControl(t, m)
           r == IF told THEN v ELSE t
           X == Dropped(flags)
           f == Retold(e, o, t, X)
           C == ctl.closing
           g == IF C THEN f ELSE [f EXCEPT !.sent = @ + 1]
           h == IF told THEN g ELSE f
           D == {}
<1>1. /\ live /\ CommitFrom(r, made, X) /\ (told => sent < MaxNotes)
      /\ sent' = (IF told /\ ~C THEN sent + 1 ELSE sent)
      /\ owner' = owner \/ owner' = "panicked"
  BY DEF FlagOther
<1>2. /\ o \in Side /\ e \in Account /\ Sound(o, {}, C, e) /\ peer \in {"open", "gone"}
      /\ owner \in {"running", "panicked"} /\ C \in BOOLEAN
      /\ sent \in 0..MaxNotes /\ sent \in Nat /\ view.read <= sent
  BY <1>1, TypedFields
<1>3. /\ e.read = view.read /\ e.told = view.paused /\ e.last = view.last /\ e.made = made
      /\ e.since = since /\ e.sent = sent
  BY AccountFields
<1>4. o.ctl = ctl /\ o.live
  BY <1>1, NowFields
<1> HIDE DEF o, e, C
<1>5. t \in Side /\ Sound(t, D, C, f)
  BY <1>2, <1>4, FlaggedKeeps
<1> HIDE DEF t, X
<1>6. /\ f \in Account /\ f.read = e.read /\ f.told = e.told /\ f.last = e.last
      /\ f.made = e.made /\ f.sent = e.sent
      /\ \A x \in Panes :
           f.since[x] = IF x \in X \/ (Audible(t.ctl, x) /\ ~Audible(o.ctl, x))
                        THEN e.made[x] ELSE e.since[x]
  BY <1>2, RetoldFields
<1>7. m \in Fresh /\ m.kind = "note" /\ m.n = f.sent + 1 /\ f.read <= f.sent
  <2>1. sent + 1 \in Nat
    BY <1>2
  <2>2. m \in Fresh /\ m.kind = "note" /\ m.n = sent + 1
    BY <2>1, SendTypes
  <2> HIDE DEF m, f
  <2> QED BY <1>2, <1>3, <1>6, <2>2
<1> HIDE DEF f, m, D
<1>8. /\ g.read = f.read /\ g.told = f.told /\ g.last = f.last
      /\ g.made = f.made /\ g.since = f.since /\ g.sent = IF C THEN f.sent ELSE f.sent + 1
  <2>1. CASE C
    BY <2>1
  <2>2. CASE ~C
    <3>1. g = [f EXCEPT !.sent = @ + 1]
      BY <2>2
    <3> HIDE DEF g
    <3> QED BY <1>6, <2>2, <3>1, SentMore
  <2> QED BY <1>2, <2>1, <2>2
<1>9. g = IF C THEN f ELSE [f EXCEPT !.sent = @ + 1]
  OBVIOUS
<1> HIDE DEF g
<1>10. v \in Side /\ Sound(v, D, C, g) /\ Quieter(v, t, D)
  BY <1>2, <1>5, <1>6, <1>7, <1>9, SendNoteKeeps
<1> HIDE DEF v
<1>11. r \in Side /\ Sound(r, {}, C, h) /\ (r.live => \A x \in Panes : Audible(r.ctl, x) => Audible(t.ctl, x))
  <2>1. CASE told
    <3>1. r = v /\ h = g
      BY <2>1
    <3> HIDE DEF r, h
    <3> QED BY <1>10, <3>1 DEF D, Quieter
  <2>2. CASE ~told
    <3>1. r = t /\ h = f
      BY <2>2
    <3> HIDE DEF r, h
    <3> QED BY <1>5, <3>1 DEF D
  <2> QED BY <2>1, <2>2
<1>12. /\ h.read = f.read /\ h.told = f.told /\ h.last = f.last /\ h.made = f.made
       /\ h.since = f.since /\ h.sent = IF told /\ ~C THEN f.sent + 1 ELSE f.sent
  BY <1>8
<1> HIDE DEF h, r
<1>13. \A x \in Panes : h.since[x] = IF x \in X \/ (Audible(t.ctl, x) /\ ~Audible(ctl, x))
                                    THEN made[x] ELSE since[x]
  BY <1>3, <1>4, <1>6, <1>12
<1>14. sent <= sent' /\ sent' \in 0..MaxNotes /\ h.sent = sent' /\ owner' \in {"running", "panicked"}
  <2>1. MaxNotes \in Nat /\ f.sent = sent
    BY <1>3, <1>6, ControlAssumption
  <2>2. CASE told /\ ~C
    <3>1. sent' = sent + 1 /\ h.sent = sent + 1 /\ sent < MaxNotes
      BY <1>1, <1>12, <2>1, <2>2
    <3> QED BY <1>1, <1>2, <2>1, <3>1
  <2>3. CASE ~(told /\ ~C)
    <3>1. sent' = sent /\ h.sent = sent
      BY <1>1, <1>12, <2>1, <2>3
    <3> QED BY <1>1, <1>2, <2>1, <3>1
  <2> QED BY <2>2, <2>3
<1>15. h.read = view.read /\ h.told = view.paused /\ h.last = view.last /\ h.made = made
  BY <1>3, <1>6, <1>12
<1> QED BY <1>1, <1>2, <1>11, <1>13, <1>14, <1>15, RetoldCommit

\* refresh-client -f by the client itself
LEMMA FlagOwnKeeps ==
  ASSUME IInv, NEW flags \in Flags, NEW told \in BOOLEAN, FlagOwn(flags, told)
  PROVE  IInv'
<1> DEFINE o == Now
           e == TheAccount
           m == Note(sent + 1)
           n == Note(sent + 2)
           two == <<m, n>>
           one == <<m>>
           t == [o EXCEPT !.ctl = Flagged(@, flags)]
           u == SendControl(t, m)
           w == SendControl(u, n)
           r == IF told THEN w ELSE u
           X == Dropped(flags)
           f == Retold(e, o, t, X)
           C == FALSE
           g == [f EXCEPT !.sent = @ + 1]
           h == [g EXCEPT !.sent = @ + 1]
           k == IF told THEN h ELSE g
           D == {}
<1>17. SendAll(t, two) = w /\ SendAll(t, one) = u
  <2> HIDE DEF t
  <2>1. /\ \A x : SendAll(t, <<x>>) = SendControl(t, x)
        /\ \A x, y : SendAll(t, <<x, y>>) = SendControl(SendControl(t, x), y)
    BY SendAllCases
  <2> HIDE DEF m, n
  <2>2. SendAll(t, <<m, n>>) = SendControl(SendControl(t, m), n)
    BY ONLY <2>1
  <2>3. SendAll(t, <<m>>) = SendControl(t, m)
    BY ONLY <2>1
  <2> QED BY <2>2, <2>3
<1>21. Len(two) = 2 /\ Len(one) = 1
  OBVIOUS
<1>1. /\ live /\ ctl.closing = FALSE /\ CommitFrom(r, made, X) /\ owner' = owner
      /\ sent' = (IF told THEN sent + 2 ELSE sent + 1) /\ sent' <= MaxNotes
  <2>1. live /\ ~ctl.closing
    BY DEF FlagOwn, Accepting
  <2>2. LET notes == IF told THEN two ELSE one
        IN  /\ sent + Len(notes) <= MaxNotes /\ sent' = sent + Len(notes)
            /\ CommitFrom(SendAll(t, notes), made, X) /\ owner' = owner
    BY DEF FlagOwn
  <2> HIDE DEF two, one, t, u, w, X
  <2>3. CASE told
    BY <1>17, <1>21, <2>1, <2>2, <2>3, TypedFields
  <2>4. CASE ~told
    BY <1>17, <1>21, <2>1, <2>2, <2>4, TypedFields
  <2> QED BY <2>3, <2>4
<1>2. /\ o \in Side /\ e \in Account /\ Sound(o, {}, C, e) /\ peer \in {"open", "gone"}
      /\ owner \in {"running", "panicked"}
      /\ sent \in 0..MaxNotes /\ sent \in Nat /\ view.read <= sent
  BY <1>1, TypedFields
<1>3. /\ e.read = view.read /\ e.told = view.paused /\ e.last = view.last /\ e.made = made
      /\ e.since = since /\ e.sent = sent
  BY AccountFields
<1>4. o.ctl = ctl /\ o.live
  BY <1>1, NowFields
<1>16. C \in BOOLEAN
  OBVIOUS
<1> HIDE DEF o, e, C, two, one
<1>5. t \in Side /\ Sound(t, D, C, f)
  BY <1>2, <1>4, <1>16, FlaggedKeeps
<1> HIDE DEF t, X
<1>6. /\ f \in Account /\ f.read = e.read /\ f.told = e.told /\ f.last = e.last
      /\ f.made = e.made /\ f.sent = e.sent
      /\ \A x \in Panes :
           f.since[x] = IF x \in X \/ (Audible(t.ctl, x) /\ ~Audible(o.ctl, x))
                        THEN e.made[x] ELSE e.since[x]
  BY <1>2, RetoldFields
<1> HIDE DEF f
<1>7. /\ m \in Fresh /\ m.kind = "note" /\ m.n = sent + 1
      /\ n \in Fresh /\ n.kind = "note" /\ n.n = sent + 2
  <2>1. sent + 1 \in Nat /\ sent + 2 \in Nat
    BY <1>2
  <2> QED BY <2>1, SendTypes
<1> HIDE DEF m, n, D
<1>8. /\ g \in Account /\ g.read = f.read /\ g.told = f.told /\ g.last = f.last
      /\ g.made = f.made /\ g.since = f.since /\ g.sent = f.sent + 1
  BY <1>6, SentMore
<1>9. g = IF C THEN f ELSE [f EXCEPT !.sent = @ + 1]
  BY DEF C
<1> HIDE DEF g
<1>18. /\ h \in Account /\ h.read = g.read /\ h.told = g.told /\ h.last = g.last
       /\ h.made = g.made /\ h.since = g.since /\ h.sent = g.sent + 1
  BY <1>8, SentMore
<1>19. h = IF C THEN g ELSE [g EXCEPT !.sent = @ + 1]
  BY DEF C
<1> HIDE DEF h
<1>10. u \in Side /\ Sound(u, D, C, g) /\ Quieter(u, t, D)
  <2>1. m.n = f.sent + 1 /\ f.read <= f.sent
    BY <1>2, <1>3, <1>6, <1>7
  <2> QED BY <1>2, <1>5, <1>6, <1>7, <1>9, <1>16, <2>1, SendNoteKeeps
<1> HIDE DEF u
<1>20. w \in Side /\ Sound(w, D, C, h) /\ Quieter(w, u, D)
  <2>1. n.n = g.sent + 1 /\ g.read <= g.sent
    <3>1. view.read \in Nat
      BY NumbersFields DEF IInv, Typed
    <3>2. g.sent = sent + 1 /\ g.read = view.read /\ n.n = sent + 2
      BY <1>3, <1>6, <1>7, <1>8
    <3> QED BY <1>2, <3>1, <3>2
  <2> QED BY <1>2, <1>7, <1>8, <1>10, <1>16, <1>19, <2>1, SendNoteKeeps
<1> HIDE DEF w
<1>11. r \in Side /\ Sound(r, {}, C, k) /\ (r.live => \A x \in Panes : Audible(r.ctl, x) => Audible(t.ctl, x))
  <2>1. CASE told
    <3>1. r = w /\ k = h
      BY <2>1
    <3> HIDE DEF r, k
    <3> QED BY <1>10, <1>20, <3>1 DEF D, Quieter
  <2>2. CASE ~told
    <3>1. r = u /\ k = g
      BY <2>2
    <3> HIDE DEF r, k
    <3> QED BY <1>10, <3>1 DEF D, Quieter
  <2> QED BY <2>1, <2>2
<1>12. /\ k.read = f.read /\ k.told = f.told /\ k.last = f.last /\ k.made = f.made
       /\ k.since = f.since /\ (told => k.sent = f.sent + 1 + 1) /\ (~told => k.sent = f.sent + 1)
  <2>1. CASE told
    BY <1>8, <1>18, <2>1
  <2>2. CASE ~told
    BY <1>8, <2>2
  <2> QED BY <2>1, <2>2
<1> HIDE DEF k, r
<1>13. \A x \in Panes : k.since[x] = IF x \in X \/ (Audible(t.ctl, x) /\ ~Audible(ctl, x))
                                    THEN made[x] ELSE since[x]
  BY <1>3, <1>4, <1>6, <1>12
<1>14. sent <= sent' /\ sent' \in 0..MaxNotes /\ k.sent = sent' /\ owner' \in {"running", "panicked"}
  <2>1. MaxNotes \in Nat /\ f.sent = sent
    BY <1>3, <1>6, ControlAssumption
  <2>2. CASE told
    <3>1. sent' = sent + 2 /\ k.sent = sent + 1 + 1 /\ sent' <= MaxNotes
      BY <1>1, <1>12, <2>1, <2>2
    <3> QED BY <1>1, <1>2, <2>1, <3>1
  <2>3. CASE ~told
    <3>1. sent' = sent + 1 /\ k.sent = sent + 1 /\ sent' <= MaxNotes
      BY <1>1, <1>12, <2>1, <2>3
    <3> QED BY <1>1, <1>2, <2>1, <3>1
  <2> QED BY <2>2, <2>3
<1>15. k.read = view.read /\ k.told = view.paused /\ k.last = view.last /\ k.made = made
  BY <1>3, <1>6, <1>12
<1> QED BY <1>1, <1>16, <1>11, <1>13, <1>14, <1>15, RetoldCommit

\* detach_client: from here on only Detached is taken.
LEMMA DetachKeeps ==
  ASSUME IInv, Detach
  PROVE  IInv'
<1> DEFINE o == Now
           e == TheAccount
           m == M("detached", 0, 0)
           t == [o EXCEPT !.ctl.closing = TRUE]
           r == SendControl(t, m)
           C == TRUE
           D == {}
<1>1. /\ live /\ ctl.closing = FALSE /\ Commit(r, made) /\ sent' = sent /\ owner' = owner
  <2>1. live /\ ~ctl.closing
    BY DEF Detach, Accepting
  <2> QED BY <2>1, TypedFields DEF Detach
<1>2. /\ o \in Side /\ e \in Account /\ Sound(o, D, FALSE, e) /\ peer \in {"open", "gone"}
      /\ owner \in {"running", "panicked"}
      /\ sent \in 0..MaxNotes /\ sent \in Nat
  BY <1>1, TypedFields
<1>3. /\ e.read = view.read /\ e.told = view.paused /\ e.last = view.last /\ e.made = made
      /\ e.since = since /\ e.sent = sent
  BY AccountFields
<1>4. o.ctl = ctl /\ o.live
  BY <1>1, NowFields
<1> HIDE DEF o, e
<1>5. t \in Side /\ Sound(t, D, TRUE, e) /\ \A x : Audible(t.ctl, x) <=> Audible(o.ctl, x)
  BY <1>2, <1>4, ClosingKeeps
<1> HIDE DEF t, D
<1>6. m \in Fresh /\ m.kind = "detached"
  BY SendTypes
<1> HIDE DEF m
<1>7. r \in Side /\ Sound(r, D, TRUE, e) /\ Quieter(r, t, D)
  BY <1>2, <1>5, <1>6, SendDetachedKeeps
<1> HIDE DEF r
<1>8. Sound(r, {}, C, e) /\ C \in BOOLEAN
  BY <1>7 DEF D
<1>9. r.live => \A x \in Panes : Audible(r.ctl, x) => Audible(o.ctl, x)
  BY <1>5, <1>7 DEF Quieter
<1>10. \A x \in Panes : e.since[x] = IF Audible(o.ctl, x) /\ ~Audible(ctl, x)
                                    THEN made[x] ELSE since[x]
  BY <1>3, <1>4
<1>11. sent <= sent' /\ sent' \in 0..MaxNotes /\ e.sent = sent' /\ owner' \in {"running", "panicked"}
  BY <1>1, <1>2, <1>3
<1> HIDE DEF C
<1> QED BY <1>1, <1>3, <1>7, <1>8, <1>9, <1>10, <1>11, RenewedCommit

-----------------------------------------------------------------------------
(* The steps of time and of the client                                     *)

\* A step that sends nothing and of which the client reads nothing
LEMMA FrameKeeps ==
  ASSUME IInv, Now' \in Side, Sound(Now', {}, Going, TheAccount'),
         live' = live, ctl'.closing = ctl.closing, chan' = chan,
         UNCHANGED <<made, sent, view, owner>>, peer' \in {peer, "gone"},
         since' \in [Panes -> 0..MaxOutput]
  PROVE  IInv'
<1>1. /\ peer \in {"open", "gone"} /\ owner \in {"running", "panicked"}
      /\ made \in [Panes -> 0..MaxOutput] /\ sent \in 0..MaxNotes /\ TheAccount \in Account
  BY TypedFields
<1>2. TheAccount' \in Account
  <2>1. /\ view.read \in Nat /\ view.paused \subseteq Panes /\ view.last \in [Panes -> Nat]
        /\ made \in [Panes -> Nat] /\ sent \in Nat
    BY <1>1, NumbersFields
  <2>2. since' \in [Panes -> Nat]
    BY ControlAssumption
  <2>3. view' = view /\ made' = made /\ sent' = sent
    OBVIOUS
  <2> QED BY <2>1, <2>2, <2>3 DEF TheAccount, Account
<1>3. Typed'
  <2>1. view \in [read : Nat, paused : SUBSET Panes, last : [Panes -> Nat], told : BOOLEAN]
    BY DEF IInv, Typed
  <2>2. (Now \in Side)' /\ (TheAccount \in Account)'
    BY <1>2
  <2>3. view' = view /\ made' = made /\ sent' = sent /\ owner' = owner
        /\ peer' \in {"open", "gone"}
    BY <1>1
  <2> QED BY <1>1, <2>1, <2>2, <2>3 DEF Typed
<1>4. Read'
  <2>1. Read
    BY DEF IInv
  <2>2. view.told => peer' = "gone"
    BY <2>1 DEF Read
  <2> QED BY <2>1, <2>2 DEF Read
<1>5. Going' = Going
  BY DEF Going
<1>6. Sound(Now, {}, Going, TheAccount)'
  BY <1>5
<1> QED BY <1>3, <1>4, <1>6 DEF IInv

\* The client leaves.
LEMMA LeaveKeeps ==
  ASSUME IInv, Leave
  PROVE  IInv'
<1>1. Now' = Now /\ TheAccount' = TheAccount
  BY DEF Leave, Now, TheAccount
<1>2. Now \in Side /\ Sound(Now, {}, Going, TheAccount) /\ since \in [Panes -> 0..MaxOutput]
  BY TypedFields
<1>3. /\ live' = live /\ ctl' = ctl /\ chan' = chan /\ UNCHANGED <<made, sent, view, owner>>
      /\ peer' \in {peer, "gone"} /\ since' = since
  BY DEF Leave
<1> QED BY <1>1, <1>2, <1>3, FrameKeeps

\* reset_control_pane: the client begins to hear p anew.
LEMMA ResetKeeps ==
  ASSUME IInv, NEW p \in Panes, Reset(p)
  PROVE  IInv'
<1> DEFINE o == Now
           e == TheAccount
           X == {p}
           t == [o EXCEPT !.ctl = Discard(ctl, X)]
           f == TheAccount'
           C == Going
           D == {}
<1>1. /\ live /\ ctl' = Discard(ctl, X) /\ since' = [since EXCEPT ![p] = made[p]]
      /\ UNCHANGED <<live, chan, bytes, peer, made, sent, view, owner>>
  BY DEF Reset
<1>2. /\ o \in Side /\ e \in Account /\ Sound(o, {}, C, e) /\ C \in BOOLEAN
      /\ made \in [Panes -> 0..MaxOutput] /\ since \in [Panes -> 0..MaxOutput]
  BY TypedFields
<1>3. /\ e.read = view.read /\ e.told = view.paused /\ e.last = view.last /\ e.made = made
      /\ e.since = since /\ e.sent = sent
  BY AccountFields
<1>4. o.ctl = ctl /\ o.live = live /\ o.chan = chan /\ o.bytes = bytes /\ ctl \in Control
  BY <1>2, NowFields, SideFields
<1>5. /\ f.read = view.read /\ f.told = view.paused /\ f.last = view.last /\ f.made = made
      /\ f.since = since' /\ f.sent = sent
  BY <1>1 DEF TheAccount
<1>6. Now' = t
  <2>1. Now' = [live |-> live, ctl |-> Discard(ctl, X), chan |-> chan, bytes |-> bytes]
    BY <1>1 DEF Now
  <2>2. t = [live |-> live, ctl |-> Discard(ctl, X), chan |-> chan, bytes |-> bytes]
    BY DEF Now
  <2> QED BY <2>1, <2>2
<1>7. /\ since' \in [Panes -> 0..MaxOutput]
      /\ \A x \in Panes : since'[x] = IF x = p THEN made[x] ELSE since[x]
  <2>1. made[p] \in 0..MaxOutput
    BY <1>2
  <2> QED BY <1>1, <1>2, <2>1
<1> HIDE DEF o, e, f, C
<1>8. Retuned(o, ctl, X, D, C, e, f)
  <2>1. \A x \in Panes : Audible(ctl, x) =>
           \/ f.since[x] = e.made[x]
           \/ Audible(o.ctl, x) /\ x \notin X /\ f.since[x] = e.since[x]
    BY <1>3, <1>4, <1>5, <1>7
  <2>2. \A x \in Panes : x \notin X /\ Audible(o.ctl, x) => Audible(ctl, x) /\ x \notin D
    BY <1>4
  <2>3. \A x \in Panes : ((x \in ctl.paused) # (x \in D)) = (x \in o.ctl.paused)
    BY <1>4
  <2>4. o.live /\ ctl.pending = o.ctl.pending /\ ctl.cost = o.ctl.cost /\ ctl.closing = o.ctl.closing
    BY <1>1, <1>4
  <2>5. f.read = e.read /\ f.sent = e.sent /\ f.told = e.told /\ f.last = e.last /\ f.made = e.made
    BY <1>3, <1>5
  <2> QED BY <1>2, <2>1, <2>2, <2>3, <2>4, <2>5 DEF Retuned
<1> HIDE DEF X, D
<1>9. t \in Side /\ Sound(t, D, C, f)
  <2>1. PICK c : c = ctl
    OBVIOUS
  <2>2. PICK g : g = f
    OBVIOUS
  <2> DEFINE u == [o EXCEPT !.ctl = Discard(c, X)]
  <2>3. t = u
    BY <2>1
  <2>4. c \in Control /\ Retuned(o, c, X, D, C, e, g)
    BY <1>4, <1>8, <2>1, <2>2
  <2> HIDE DEF t
  <2>5. /\ u \in Side /\ u.live /\ Sound(u, D, C, g) /\ u.ctl.paused = c.paused
        /\ \A x : Audible(u.ctl, x) <=> Audible(c, x)
    <3>1. o \in Side /\ e \in Account /\ C \in BOOLEAN
      BY <1>2
    <3> QED BY ONLY <3>1, <2>4, RetunedDiscards
  <2> HIDE DEF u
  <2> QED BY <2>2, <2>3, <2>5
<1>10. ctl'.closing = ctl.closing
  <2> DEFINE d == Discard(ctl, X)
  <2>1. d.closing = ctl.closing
    BY <1>4, DiscardFields
  <2>2. ctl' = d
    BY <1>1
  <2> HIDE DEF d
  <2> QED BY <2>1, <2>2
<1> HIDE DEF t
<1>11. Now' \in Side /\ Sound(Now', {}, Going, TheAccount')
  BY <1>6, <1>9 DEF f, C, D
<1> QED BY <1>1, <1>7, <1>10, <1>11, FrameKeeps

\* Time passes.
LEMMA AgeKeeps ==
  ASSUME IInv, Age
  PROVE  IInv'
<1> DEFINE o == Now
           e == TheAccount
           l == ctl.pending
           C == Going
           list == [i \in DOMAIN l |-> Older(l[i])]
           d == [ctl EXCEPT !.pending = list]
           t == [o EXCEPT !.ctl = d]
<1>1. /\ l # <<>>
      /\ ctl' = [ctl EXCEPT !.pending = [i \in DOMAIN @ |-> Older(@[i])]]
      /\ UNCHANGED <<live, chan, bytes, peer, made, since, sent, view, owner>>
  BY DEF Age
<1>2. /\ o \in Side /\ e \in Account /\ Sound(o, {}, C, e) /\ C \in BOOLEAN
      /\ since \in [Panes -> 0..MaxOutput]
  BY TypedFields
<1>4. /\ o.ctl = ctl /\ o.live = live /\ o.chan = chan /\ o.bytes = bytes /\ ctl \in Control
      /\ l \in Seq(Queued)
  BY <1>2, NowFields, SideFields
<1>3. ctl' = d
  BY <1>1
<1>5. /\ DOMAIN l = 1..Len(l) /\ Len(l) \in Nat
      /\ \A i \in 1..Len(l) : l[i] \in Queued
  <2> HIDE DEF l
  <2> QED BY <1>4
<1>6. list = [i \in 1..Len(l) |-> Older(l[i])]
  BY <1>5
<1> HIDE DEF l, list
<1>7. ASSUME NEW i \in 1..Len(l)
      PROVE  Older(l[i]) \in Queued /\ Older(l[i]).m = l[i].m
  <2> DEFINE a == IF l[i].age = 2 THEN 2 ELSE l[i].age + 1
  <2>1. l[i] \in Queued
    BY <1>5
  <2>2. l[i].age \in 0..2
    BY <2>1 DEF Queued
  <2>3. a \in 0..2
    BY <2>2
  <2>4. Older(l[i]) = [l[i] EXCEPT !.age = a]
    BY DEF Older
  <2> HIDE DEF a
  <2> QED BY <2>1, <2>3, <2>4 DEF Queued
<1>8. /\ list \in Seq(Queued) /\ Len(list) = Len(l) /\ DOMAIN list = 1..Len(l)
      /\ \A i \in 1..Len(l) : list[i].m = l[i].m
  BY <1>5, <1>6, <1>7
<1>9. /\ d \in Control /\ d.pending = list /\ d.cost = ctl.cost /\ d.closing = ctl.closing
      /\ d.paused = ctl.paused /\ d.off = ctl.off /\ d.muted = ctl.muted
  BY <1>4, <1>8 DEF Control
<1>10. Now' = t
  <2>1. Now' = [live |-> live, ctl |-> d, chan |-> chan, bytes |-> bytes]
    BY <1>1, <1>3 DEF Now
  <2>2. t = [live |-> live, ctl |-> d, chan |-> chan, bytes |-> bytes]
    BY DEF Now
  <2> QED BY <2>1, <2>2
<1>11. TheAccount' = e
  BY <1>1 DEF TheAccount
<1> HIDE DEF o, e, C, d
<1>12. t \in Side /\ t.ctl = d /\ t.live = o.live /\ t.chan = o.chan /\ t.bytes = o.bytes
  BY <1>2, <1>9, SetControl
<1> HIDE DEF t
<1>13. o.live
  <2>1. NewControl.pending = <<>>
    BY NewControlType
  <2> QED BY <1>1, <1>2, <1>4, <2>1 DEF Sound, Counted, l
<1>14. l = o.ctl.pending
  BY <1>4 DEF l
<1>15. Sound(t, {}, C, e)
  <2>1. Texts(list) = Texts(l)
    BY <1>5, <1>8 DEF Texts
  <2>2. Way(t) = Way(o)
    BY <1>9, <1>12, <1>14, <2>1 DEF Way
  <2>3. \A x : Audible(t.ctl, x) <=> Audible(o.ctl, x)
    BY <1>4, <1>9, <1>12 DEF Audible
  <2>4. Counted(t)
    BY <1>2, <1>4, <1>8, <1>9, <1>12, <1>13, <1>14 DEF Sound, Counted
  <2>5. Ordered(t, e) /\ Parted(t, C)
    BY <1>2, <1>4, <1>9, <1>12, <2>2 DEF Sound, Ordered, Parted
  <2>6. Hears(t, e)
    BY <1>2, <1>12, <2>2, <2>3 DEF Sound, Hears
  <2>7. Speaks(t, e, {}, C)
    BY <1>2, <1>4, <1>9, <1>12, <2>2 DEF Sound, Speaks
  <2>8. Queues(t, {})
    <3>1. \A i \in DOMAIN list : i \in DOMAIN l /\ list[i].m = l[i].m
      BY <1>5, <1>8
    <3> QED BY <1>2, <1>9, <1>12, <1>14, <2>3, <3>1 DEF Sound, Queues
  <2> QED BY <2>4, <2>5, <2>6, <2>7, <2>8 DEF Sound
<1>16. Now' \in Side /\ Sound(Now', {}, Going, TheAccount')
  BY <1>10, <1>11, <1>12, <1>15 DEF C
<1>17. ctl'.closing = ctl.closing /\ since' \in [Panes -> 0..MaxOutput]
  BY <1>1, <1>2, <1>3, <1>9
<1> QED BY <1>1, <1>16, <1>17, FrameKeeps

\* Without its first message, what is on its way to the client is the rest.
LEMMA TailWay ==
  ASSUME NEW o \in Side, NEW t \in Side, o.chan # <<>>, t.ctl = o.ctl, t.chan = Tail(o.chan)
  PROVE  /\ Way(o) \in Seq(Message) /\ Way(o) # <<>> /\ Head(Way(o)) = Head(o.chan)
         /\ Way(t) = Tail(Way(o)) /\ Head(o.chan) \in Text
<1> DEFINE c == o.chan
           d == t.chan
           q == o.ctl.pending
           W == Way(o)
           U == Way(t)
<1>1. /\ W \in Seq(Message) /\ Len(c) \in Nat /\ Len(q) \in Nat /\ Len(W) = Len(c) + Len(q)
      /\ \A i \in 1..Len(c) : W[i] = c[i]
      /\ \A i \in 1..Len(q) : W[Len(c) + i] = q[i].m
  BY WayPlaces
<1>2. t.ctl.pending = q
  OBVIOUS
<1>3. /\ U \in Seq(Message) /\ Len(d) \in Nat /\ Len(U) = Len(d) + Len(q)
      /\ \A i \in 1..Len(d) : U[i] = d[i]
      /\ \A i \in 1..Len(q) : U[Len(d) + i] = q[i].m
  <2>1. /\ U \in Seq(Message) /\ Len(d) \in Nat /\ Len(U) = Len(d) + Len(t.ctl.pending)
        /\ \A i \in 1..Len(d) : U[i] = d[i]
        /\ \A i \in 1..Len(t.ctl.pending) : U[Len(d) + i] = t.ctl.pending[i].m
    BY WayPlaces
  <2> HIDE DEF U, d, q
  <2> QED BY <1>2, <2>1
<1>4. /\ Len(c) >= 1 /\ Len(d) = Len(c) - 1 /\ Head(c) = c[1] /\ c[1] \in Text
      /\ \A i \in 1..(Len(c) - 1) : d[i] = c[i + 1]
  <2>1. c \in Seq(Text) /\ c # <<>> /\ d = Tail(c)
    BY SideFields
  <2> HIDE DEF c, d
  <2> QED BY <2>1, RestPlaces
<1> HIDE DEF c, d, q, W, U
<1>5. W # <<>> /\ Head(W) = c[1]
  <2>1. Len(W) >= 1 /\ W[1] = c[1]
    BY <1>1, <1>4
  <2>2. W # <<>>
    BY <2>1
  <2> QED BY <1>1, <2>1, <2>2
<1>6. /\ Tail(W) \in Seq(Message) /\ Len(Tail(W)) = Len(W) - 1
      /\ \A i \in 1..(Len(W) - 1) : Tail(W)[i] = W[i + 1]
  BY <1>1, <1>5, RestPlaces
<1> DEFINE R == Tail(W)
           n == Len(c)
           k == Len(q)
<1>7. n \in Nat /\ k \in Nat /\ n >= 1 /\ Len(W) = n + k /\ Len(U) = n - 1 + k /\ Len(d) = n - 1
  BY <1>1, <1>3, <1>4
<1> HIDE DEF R, n, k
<1>8. ASSUME NEW i \in 1..(n - 1 + k) PROVE U[i] = W[i + 1]
  <2>1. CASE i \in 1..(n - 1)
    <3>1. i + 1 \in 1..n
      BY <1>7, <2>1
    <3>2. U[i] = d[i] /\ d[i] = c[i + 1] /\ W[i + 1] = c[i + 1]
      BY <1>1, <1>3, <1>4, <1>7, <2>1, <3>1 DEF n
    <3> QED BY <3>2
  <2>2. CASE i \notin 1..(n - 1)
    <3> DEFINE j == i - (n - 1)
    <3>1. j \in 1..k /\ i = Len(d) + j /\ i + 1 = n + j
      BY <1>7, <2>2
    <3> HIDE DEF j
    <3>2. U[Len(d) + j] = q[j].m /\ W[n + j] = q[j].m
      BY <1>1, <1>3, <3>1 DEF n, k
    <3> QED BY <3>1, <3>2
  <2> QED BY <2>1, <2>2
<1>9. U = R
  <2>1. R \in Seq(Message) /\ Len(U) = Len(R) /\ \A i \in 1..Len(U) : U[i] = R[i]
    <3>1. Len(R) = n + k - 1 /\ \A i \in 1..(n + k - 1) : R[i] = W[i + 1]
      BY <1>6, <1>7 DEF R
    <3>2. n + k - 1 = n - 1 + k
      BY <1>7
    <3> QED BY <1>6, <1>7, <1>8, <3>1, <3>2 DEF R
  <2> QED BY <1>3, <2>1, SameSequence
<1> QED BY <1>1, <1>4, <1>5, <1>9 DEF R, W, U, c

\* The client reads the first message of the channel.
Reads(o, t, m, e, f) ==
  /\ o.chan # <<>> /\ m = Head(o.chan)
  /\ t.live = o.live /\ t.ctl = o.ctl /\ t.chan = Tail(o.chan) /\ t.bytes = o.bytes - Paid(m)
  /\ f.made = e.made /\ f.since = e.since /\ f.sent = e.sent
  /\ f.read = IF m.kind = "note" THEN m.n ELSE e.read
  /\ \A p \in Panes : f.last[p] = IF m.kind = "output" /\ m.pane = p THEN m.n ELSE e.last[p]
  /\ \A p \in Panes :
       p \in f.told <=> IF m.pane = p /\ m.kind \in {"pause", "continue"}
                        THEN m.kind = "pause" ELSE p \in e.told

\* What it reads is the next note and the next output, and keeps every claim.
LEMMA ReadsKeeps ==
  ASSUME NEW o \in Side, NEW t \in Side, NEW m, NEW C \in BOOLEAN,
         NEW e \in Account, NEW f \in Account, Sound(o, {}, C, e), Reads(o, t, m, e, f)
  PROVE  /\ Sound(t, {}, C, f)
         /\ (o.live \/ ~Without(o.chan, {"detached"})) /\ m.kind = "note"
              => m.n = e.read + 1 /\ m.n <= e.sent
         /\ o.live => m.kind \notin {"exit", "detached"}
         /\ o.live => \A p \in Panes : m.kind = "output" /\ m.pane = p => m.n <= e.made[p]
         /\ m.kind = "detached" => e.sent <= e.read
<1> DEFINE W == Way(o)
           U == Way(t)
<1>1. /\ o.chan # <<>> /\ m = Head(o.chan)
      /\ t.live = o.live /\ t.ctl = o.ctl /\ t.chan = Tail(o.chan) /\ t.bytes = o.bytes - Paid(m)
  BY DEF Reads
<1>2. /\ W \in Seq(Message) /\ W # <<>> /\ Head(W) = m /\ U = Tail(W) /\ m \in Text
  BY <1>1, TailWay
<1>3. /\ Counted(o) /\ Ordered(o, e) /\ Parted(o, C) /\ Hears(o, e) /\ Queues(o, {})
      /\ Speaks(o, e, {}, C)
  BY DEF Sound
<1>4. /\ o.live \in BOOLEAN /\ o.chan \in Seq(Message)
  BY SideFields
<1>5. /\ t.chan \in Seq(Message) /\ Len(t.chan) \in Nat /\ Len(o.chan) = Len(t.chan) + 1
      /\ DOMAIN o.chan = 1..(Len(t.chan) + 1) /\ DOMAIN t.chan = 1..Len(t.chan)
      /\ m = o.chan[1] /\ \A i \in 1..Len(t.chan) : t.chan[i] = o.chan[i + 1]
  BY <1>1, <1>4, TailPlaces
<1>6. \A kinds : Without(o.chan, kinds) => Without(t.chan, kinds) /\ m.kind \notin kinds
  <2> SUFFICES ASSUME NEW kinds, Without(o.chan, kinds)
               PROVE  Without(t.chan, kinds) /\ m.kind \notin kinds
    OBVIOUS
  <2>1. 1 \in DOMAIN o.chan /\ \A i \in 1..Len(t.chan) : i + 1 \in DOMAIN o.chan
    BY <1>5
  <2> QED BY <1>5, <2>1 DEF Without
<1> HIDE DEF W, U
<1>7. Counted(t)
  <2>1. Total(t.chan) = Total(o.chan) - Paid(m)
    BY <1>1, <1>4, TotalTail
  <2>2. o.bytes = Total(o.chan) /\ Len(o.chan) <= ChannelCap
    BY <1>3 DEF Counted
  <2>3. t.bytes = Total(t.chan)
    BY <1>1, <2>1, <2>2
  <2>4. ChannelCap \in Nat
    BY ControlAssumption
  <2>5. Len(t.chan) <= ChannelCap
    BY <1>5, <2>2, <2>4
  <2>6. ~t.live => t.ctl = NewControl
    BY <1>1, <1>3 DEF Counted
  <2>7. ASSUME t.live
        PROVE  /\ t.ctl.cost = Len(t.ctl.pending)
               /\ t.ctl.cost + Len(t.chan) <= ByteLimit
               /\ Without(t.chan, {"exit", "detached"})
    <3>1. /\ o.ctl.cost = Len(o.ctl.pending) /\ o.ctl.cost + Len(o.chan) <= ByteLimit
          /\ Without(o.chan, {"exit", "detached"})
      BY <1>1, <1>3, <2>7 DEF Counted
    <3>2. o.ctl.cost \in Int /\ ByteLimit \in Nat
      BY SideFields, ControlAssumption
    <3>3. o.ctl.cost + Len(t.chan) <= ByteLimit
      <4> DEFINE a == o.ctl.cost
                 x == Len(o.chan)
                 y == Len(t.chan)
      <4>1. a \in Int /\ y \in Nat /\ x = y + 1 /\ ByteLimit \in Nat /\ a + x <= ByteLimit
        BY <1>5, <3>1, <3>2
      <4> HIDE DEF a, x, y
      <4>2. a + y <= ByteLimit
        BY ONLY <4>1
      <4> QED BY <4>2 DEF a, y
    <3> QED BY <1>1, <1>6, <3>1, <3>3
  <2> QED BY <2>3, <2>5, <2>6, <2>7 DEF Counted
<1>8. /\ e.read \in Nat /\ e.sent \in Nat /\ e.last \in [Panes -> Nat]
      /\ e.made \in [Panes -> Nat] /\ e.since \in [Panes -> Nat]
  BY DEF Account
<1>9. /\ f.made = e.made /\ f.since = e.since /\ f.sent = e.sent
      /\ f.read = IF m.kind = "note" THEN m.n ELSE e.read
      /\ \A p \in Panes : f.last[p] = IF m.kind = "output" /\ m.pane = p THEN m.n ELSE e.last[p]
      /\ \A p \in Panes :
           p \in f.told <=> IF m.pane = p /\ m.kind \in {"pause", "continue"}
                            THEN m.kind = "pause" ELSE p \in e.told
  BY DEF Reads
<1>10. ASSUME o.live \/ ~Without(o.chan, {"detached"})
       PROVE  /\ Numbered(U, NotesIn(U), f.read + 1 .. f.sent) /\ NotesFirst(U)
              /\ m.kind = "note" => m.n = e.read + 1 /\ m.n <= e.sent
              /\ m.kind = "detached" => e.sent <= e.read
  <2> DEFINE r == e.read
             s == e.sent
  <2>1. Numbered(W, NotesIn(W), r + 1 .. s) /\ NotesFirst(W)
    BY <1>3, <1>10 DEF Ordered, W
  <2>2. /\ NotesFirst(Tail(W))
        /\ Head(W).kind = "detached" => NotesIn(W) = {}
    BY <1>2, <2>1, TailNotesFirst
  <2>3. r \in Nat /\ s \in Nat /\ f.sent = s /\ f.read = IF m.kind = "note" THEN m.n ELSE r
    BY <1>8, <1>9
  <2> HIDE DEF r, s
  <2>4. CASE m.kind = "note"
    <3>1. Head(W).kind = "note"
      BY <1>2, <2>4
    <3>2. /\ Head(W).n = r + 1 /\ r + 1 <= s
          /\ Numbered(Tail(W), NotesIn(Tail(W)), Head(W).n + 1 .. s)
      BY <1>2, <2>1, <2>3, <3>1, TailNote
    <3>3. f.read = Head(W).n
      BY <1>2, <2>3, <2>4
    <3> QED BY <1>2, <2>2, <2>3, <2>4, <3>2, <3>3 DEF r, s
  <2>5. CASE m.kind # "note"
    <3>1. Numbered(Tail(W), NotesIn(Tail(W)), r + 1 .. s)
      <4> DEFINE S == r + 1 .. s
      <4>1. Numbered(W, NotesIn(W), S) /\ Head(W).kind # "note"
        BY <1>2, <2>1, <2>5
      <4> HIDE DEF S
      <4>2. Numbered(Tail(W), NotesIn(Tail(W)), S)
        BY <1>2, <4>1, TailNotes
      <4> QED BY <4>2 DEF S
    <3>2. f.read = r
      BY <2>3, <2>5
    <3>3. m.kind = "detached" => s <= r
      <4> SUFFICES ASSUME m.kind = "detached" PROVE s <= r
        OBVIOUS
      <4>1. NotesIn(W) = {}
        BY <1>2, <2>2
      <4>2. r + 1 .. s = {}
        BY <2>1, <4>1 DEF Numbered
      <4> QED BY <2>3, <4>2
    <3> QED BY <1>2, <2>2, <2>3, <2>5, <3>1, <3>2, <3>3 DEF r, s
  <2> QED BY <2>4, <2>5
<1>11. Ordered(t, f)
  <2>1. t.live \/ ~Without(t.chan, {"detached"}) => o.live \/ ~Without(o.chan, {"detached"})
    BY <1>1, <1>6
  <2> QED BY <1>10, <2>1 DEF Ordered, U
<1>12. Parted(t, C)
  <2>1. Without(W, {"detached"}) => Without(U, {"detached"})
    <3>1. /\ DOMAIN W = 1..(Len(U) + 1) /\ DOMAIN U = 1..Len(U) /\ Len(U) \in Nat
          /\ \A i \in 1..Len(U) : U[i] = W[i + 1]
      BY <1>2, TailPlaces
    <3>2. \A i \in DOMAIN U : i + 1 \in DOMAIN W /\ U[i] = W[i + 1]
      BY <3>1
    <3> QED BY <3>2 DEF Without
  <2> QED BY <1>1, <1>3, <2>1 DEF Parted, W, U
<1>13. o.live => \A p \in Panes :
         /\ Heard(U, p, f.last[p], f.made[p])
         /\ Audible(o.ctl, p) => Whole(U, p, f.last[p], f.since[p], f.made[p])
         /\ m.kind = "output" /\ m.pane = p => m.n <= e.made[p]
  <2> SUFFICES ASSUME o.live, NEW p \in Panes
               PROVE /\ Heard(U, p, f.last[p], f.made[p])
                     /\ Audible(o.ctl, p) => Whole(U, p, f.last[p], f.since[p], f.made[p])
                     /\ m.kind = "output" /\ m.pane = p => m.n <= e.made[p]
    OBVIOUS
  <2> DEFINE l == e.last[p]
             d == e.made[p]
             s == e.since[p]
             A == Audible(o.ctl, p)
  <2>1. l \in Nat /\ d \in Nat /\ s \in Nat
    BY <1>8
  <2>2. Heard(W, p, l, d) /\ (A => Whole(W, p, l, s, d))
    BY <1>3 DEF Hears, W
  <2>3. f.made[p] = d /\ f.since[p] = s
        /\ f.last[p] = IF m.kind = "output" /\ m.pane = p THEN m.n ELSE l
    BY <1>9
  <2> HIDE DEF l, d, s, A
  <2>4. CASE m.kind = "output" /\ m.pane = p
    <3>1. Head(W).kind = "output" /\ Head(W).pane = p
      BY <1>2, <2>4
    <3>2. /\ l < Head(W).n /\ Head(W).n <= d
          /\ Heard(Tail(W), p, Head(W).n, d)
          /\ Whole(W, p, l, s, d) => Whole(Tail(W), p, Head(W).n, s, d)
      BY <1>2, <2>1, <2>2, <3>1, TailOutput
    <3>3. f.last[p] = Head(W).n
      BY <1>2, <2>3, <2>4
    <3> QED BY <1>2, <2>2, <2>3, <3>2, <3>3 DEF A, d
  <2>5. CASE ~ (m.kind = "output" /\ m.pane = p)
    <3>1. ~ (Head(W).kind = "output" /\ Head(W).pane = p)
      BY <1>2, <2>5
    <3>2. /\ Heard(W, p, l, d) => Heard(Tail(W), p, l, d)
          /\ Whole(W, p, l, s, d) => Whole(Tail(W), p, l, s, d)
      BY <1>2, <3>1, TailHeard
    <3>3. f.last[p] = l
      BY <2>3, <2>5
    <3> QED BY <1>2, <2>2, <2>3, <2>5, <3>2, <3>3 DEF A
  <2> QED BY <2>4, <2>5
<1>14. Hears(t, f)
  <2>1. t.live = o.live /\ t.ctl = o.ctl
    BY <1>1
  <2> QED BY <1>13, <2>1 DEF Hears, U
<1>15. Queues(t, {})
  BY <1>1, <1>3 DEF Queues
<1>16. Speaks(t, f, {}, C)
  <2> SUFFICES ASSUME o.live, ~C, NEW p \in Panes
               PROVE  Voice(U, f.told, p, (p \in o.ctl.paused) # (p \in {}))
    BY <1>1 DEF Speaks, U
  <2> DEFINE K == (p \in o.ctl.paused) # (p \in {})
  <2>1. Voice(W, e.told, p, K)
    BY <1>3 DEF Speaks, W
  <2>2. p \in f.told <=> IF Head(W).pane = p /\ Head(W).kind \in {"pause", "continue"}
                         THEN Head(W).kind = "pause" ELSE p \in e.told
    BY <1>2, <1>9
  <2> HIDE DEF K
  <2>3. Voice(Tail(W), f.told, p, K)
    BY <1>2, <2>1, <2>2, TailVoice
  <2> QED BY <1>2, <2>3 DEF K
<1>17. Sound(t, {}, C, f)
  BY <1>7, <1>11, <1>12, <1>14, <1>15, <1>16 DEF Sound
<1>18. o.live => m.kind \notin {"exit", "detached"}
  BY <1>3, <1>6 DEF Counted
<1>19. m.kind = "detached" => ~Without(o.chan, {"detached"})
  BY <1>6
<1> QED BY <1>10, <1>13, <1>17, <1>18, <1>19

\* What the client has read after a message
LEMMA SeenFields ==
  ASSUME NEW v, v \in [read : Nat, paused : SUBSET Panes, last : [Panes -> Nat], told : BOOLEAN],
         NEW m \in Text
  PROVE  LET w == Seen(v, m) IN
         /\ w \in [read : Nat, paused : SUBSET Panes, last : [Panes -> Nat], told : BOOLEAN]
         /\ w.read = IF m.kind = "note" THEN m.n ELSE v.read
         /\ w.told = IF m.kind = "detached" THEN TRUE ELSE v.told
         /\ \A p \in Panes : w.last[p] = IF m.kind = "output" /\ m.pane = p THEN m.n ELSE v.last[p]
         /\ \A p \in Panes :
              p \in w.paused <=> IF m.pane = p /\ m.kind \in {"pause", "continue"}
                                 THEN m.kind = "pause" ELSE p \in v.paused
<1> DEFINE V == [read : Nat, paused : SUBSET Panes, last : [Panes -> Nat], told : BOOLEAN]
           w == Seen(v, m)
<1>1. /\ v.read \in Nat /\ v.paused \subseteq Panes /\ v.last \in [Panes -> Nat]
      /\ v.told \in BOOLEAN
  OBVIOUS
<1>2. /\ m.kind \in {"output", "note", "pause", "continue", "detached", "exit"} /\ m.n \in Nat
      /\ m.kind \in {"output", "pause", "continue"} => m.pane \in Panes
  BY MessageFields DEF Text
<1>3. CASE m.kind = "output"
  <2> DEFINE l == [v.last EXCEPT ![m.pane] = m.n]
  <2>1. l \in [Panes -> Nat] /\ \A p \in Panes : l[p] = IF m.pane = p THEN m.n ELSE v.last[p]
    BY <1>1, <1>2, <1>3
  <2>2. w = [v EXCEPT !.last = l]
    BY <1>3 DEF Seen
  <2> HIDE DEF l, w
  <2>3. w \in V /\ w.last = l /\ w.read = v.read /\ w.told = v.told /\ w.paused = v.paused
    BY <2>1, <2>2
  <2> QED BY <1>3, <2>1, <2>3 DEF w
<1>4. CASE m.kind = "note"
  <2>1. w = [v EXCEPT !.read = m.n]
    BY <1>4 DEF Seen
  <2> HIDE DEF w
  <2>2. w \in V /\ w.last = v.last /\ w.read = m.n /\ w.told = v.told /\ w.paused = v.paused
    BY <1>2, <2>1
  <2> QED BY <1>4, <2>2 DEF w
<1>5. CASE m.kind = "pause"
  <2> DEFINE x == v.paused \union {m.pane}
  <2>1. x \subseteq Panes /\ \A p \in Panes : p \in x <=> m.pane = p \/ p \in v.paused
    BY <1>1, <1>2, <1>5
  <2>2. w = [v EXCEPT !.paused = x]
    BY <1>5 DEF Seen
  <2> HIDE DEF x, w
  <2>3. w \in V /\ w.last = v.last /\ w.read = v.read /\ w.told = v.told /\ w.paused = x
    BY <2>1, <2>2
  <2> QED BY <1>5, <2>1, <2>3 DEF w
<1>6. CASE m.kind = "continue"
  <2> DEFINE x == v.paused \ {m.pane}
  <2>1. x \subseteq Panes /\ \A p \in Panes : p \in x <=> m.pane # p /\ p \in v.paused
    BY <1>1
  <2>2. w = [v EXCEPT !.paused = x]
    BY <1>6 DEF Seen
  <2> HIDE DEF x, w
  <2>3. w \in V /\ w.last = v.last /\ w.read = v.read /\ w.told = v.told /\ w.paused = x
    BY <2>1, <2>2
  <2> QED BY <1>6, <2>1, <2>3 DEF w
<1>7. CASE m.kind = "detached"
  <2>1. w = [v EXCEPT !.told = TRUE]
    BY <1>7 DEF Seen
  <2> HIDE DEF w
  <2>2. w \in V /\ w.last = v.last /\ w.read = v.read /\ w.told = TRUE /\ w.paused = v.paused
    BY <2>1
  <2> QED BY <1>7, <2>2 DEF w
<1>8. CASE m.kind = "exit"
  <2>1. w = v
    BY <1>8 DEF Seen
  <2> HIDE DEF w
  <2> QED BY <1>8, <2>1 DEF w
<1> QED BY <1>2, <1>3, <1>4, <1>5, <1>6, <1>7, <1>8

\* The client reads a message.
LEMMA ReceiveKeeps ==
  ASSUME IInv, Receive
  PROVE  IInv'
<1> DEFINE o == Now
           e == TheAccount
           m == Head(chan)
           t == Now'
           f == TheAccount'
           C == Going
<1>1. /\ peer = "open" /\ chan # <<>> /\ view' = Seen(view, m)
      /\ bytes' = IF m.kind = "exit" THEN bytes ELSE bytes - Cost(m)
      /\ peer' = IF m.kind \in {"exit", "detached"} THEN "gone" ELSE peer
      /\ chan' = Tail(chan)
      /\ UNCHANGED <<live, ctl, made, since, sent, owner>>
  BY DEF Receive
<1>2. /\ o \in Side /\ e \in Account /\ Sound(o, {}, C, e) /\ C \in BOOLEAN
      /\ made \in [Panes -> 0..MaxOutput] /\ since \in [Panes -> 0..MaxOutput]
      /\ sent \in 0..MaxNotes /\ sent \in Nat /\ owner \in {"running", "panicked"}
      /\ live => view.read <= sent /\ \A p \in Panes : view.last[p] <= made[p]
  BY TypedFields
<1>3. /\ o.live = live /\ o.ctl = ctl /\ o.chan = chan /\ o.bytes = bytes
      /\ live \in BOOLEAN /\ chan \in Seq(Text) /\ bytes \in Int /\ ctl \in Control
  BY <1>2, NowFields, SideFields
<1>4. /\ view \in [read : Nat, paused : SUBSET Panes, last : [Panes -> Nat], told : BOOLEAN]
      /\ Read /\ view.read \in Nat
  BY DEF IInv, Typed
<1>5. /\ m \in Text /\ m \in Message /\ Tail(chan) \in Seq(Text)
  <2>1. m \in Text /\ Tail(chan) \in Seq(Text)
    <3> DEFINE c == chan
    <3>1. c \in Seq(Text) /\ c # <<>>
      BY <1>1, <1>3
    <3> HIDE DEF c
    <3>2. Head(c) \in Text /\ Tail(c) \in Seq(Text)
      BY <3>1, RestPlaces
    <3> QED BY <3>2 DEF c
  <2> QED BY <2>1 DEF Text
<1>6. /\ Paid(m) \in Nat /\ bytes' = bytes - Paid(m)
  <2>1. Paid(m) \in Nat /\ Paid(m) = IF m.kind = "exit" THEN 0 ELSE Cost(m)
    <3> HIDE DEF m
    <3> QED BY <1>5, PaidBounds DEF Paid
  <2> QED BY <1>1, <1>3, <2>1
<1>7. t = [live |-> live, ctl |-> ctl, chan |-> Tail(chan), bytes |-> bytes - Paid(m)]
  BY <1>1, <1>6 DEF Now
<1>8. /\ t \in Side /\ t.live = live /\ t.ctl = ctl /\ t.chan = Tail(chan)
      /\ t.bytes = bytes - Paid(m)
  <2> HIDE DEF t, m
  <2>1. t.live = live /\ t.ctl = ctl /\ t.chan = Tail(chan) /\ t.bytes = bytes - Paid(m)
    BY <1>7
  <2>2. bytes - Paid(m) \in Int
    BY <1>3, <1>6
  <2> QED BY <1>3, <1>5, <1>7, <2>1, <2>2 DEF Side
<1>9. /\ view' \in [read : Nat, paused : SUBSET Panes, last : [Panes -> Nat], told : BOOLEAN]
      /\ view'.read = IF m.kind = "note" THEN m.n ELSE view.read
      /\ view'.told = IF m.kind = "detached" THEN TRUE ELSE view.told
      /\ \A p \in Panes : view'.last[p] = IF m.kind = "output" /\ m.pane = p THEN m.n
                                           ELSE view.last[p]
      /\ \A p \in Panes :
           p \in view'.paused <=> IF m.pane = p /\ m.kind \in {"pause", "continue"}
                                  THEN m.kind = "pause" ELSE p \in view.paused
  <2> DEFINE v == view
             w == Seen(v, m)
  <2> HIDE DEF m, v
  <2>1. /\ w \in [read : Nat, paused : SUBSET Panes, last : [Panes -> Nat], told : BOOLEAN]
        /\ w.read = IF m.kind = "note" THEN m.n ELSE v.read
        /\ w.told = IF m.kind = "detached" THEN TRUE ELSE v.told
        /\ \A p \in Panes : w.last[p] = IF m.kind = "output" /\ m.pane = p THEN m.n ELSE v.last[p]
        /\ \A p \in Panes :
             p \in w.paused <=> IF m.pane = p /\ m.kind \in {"pause", "continue"}
                                THEN m.kind = "pause" ELSE p \in v.paused
    BY <1>4, <1>5, SeenFields DEF v
  <2>2. view' = w
    BY <1>1 DEF v
  <2> HIDE DEF w
  <2> QED BY <2>1, <2>2 DEF v
<1>10. /\ e.read = view.read /\ e.told = view.paused /\ e.last = view.last /\ e.made = made
       /\ e.since = since /\ e.sent = sent
  BY AccountFields
<1>11. /\ f.read = view'.read /\ f.told = view'.paused /\ f.last = view'.last /\ f.made = made
       /\ f.since = since /\ f.sent = sent
  BY <1>1 DEF TheAccount
<1>12. f \in Account
  <2>1. view'.read \in Nat /\ view'.paused \subseteq Panes /\ view'.last \in [Panes -> Nat]
    BY <1>9
  <2>2. made \in [Panes -> Nat] /\ since \in [Panes -> Nat] /\ sent \in Nat
    BY <1>2, NumbersFields
  <2>3. f = [read |-> view'.read, told |-> view'.paused, last |-> view'.last,
             made |-> made, since |-> since, sent |-> sent]
    BY <1>1 DEF TheAccount
  <2> HIDE DEF f
  <2> QED BY <2>1, <2>2, <2>3 DEF Account
<1> HIDE DEF o, e, t, f, m, C
<1>13. Reads(o, t, m, e, f)
  <2>1. m = Head(o.chan)
    BY <1>3 DEF m
  <2>2. /\ o.chan # <<>> /\ t.live = o.live /\ t.ctl = o.ctl /\ t.chan = Tail(o.chan)
        /\ t.bytes = o.bytes - Paid(m)
    BY <1>1, <1>3, <1>8
  <2>3. /\ f.made = e.made /\ f.since = e.since /\ f.sent = e.sent
        /\ f.read = IF m.kind = "note" THEN m.n ELSE e.read
    BY <1>9, <1>10, <1>11
  <2>4. \A p \in Panes : f.last[p] = IF m.kind = "output" /\ m.pane = p THEN m.n ELSE e.last[p]
    BY <1>9, <1>10, <1>11
  <2>5. \A p \in Panes :
          p \in f.told <=> IF m.pane = p /\ m.kind \in {"pause", "continue"}
                           THEN m.kind = "pause" ELSE p \in e.told
    BY <1>9, <1>10, <1>11
  <2> QED BY <2>1, <2>2, <2>3, <2>4, <2>5 DEF Reads
<1>14. /\ Sound(t, {}, C, f)
       /\ (o.live \/ ~Without(o.chan, {"detached"})) /\ m.kind = "note"
            => m.n = e.read + 1 /\ m.n <= e.sent
       /\ o.live => m.kind \notin {"exit", "detached"}
       /\ o.live => \A p \in Panes : m.kind = "output" /\ m.pane = p => m.n <= e.made[p]
       /\ m.kind = "detached" => e.sent <= e.read
  <2>1. PICK g : g = f
    OBVIOUS
  <2>2. PICK u : u = t
    OBVIOUS
  <2>3. u \in Side /\ g \in Account /\ Reads(o, u, m, e, g)
    BY <1>8, <1>12, <1>13, <2>1, <2>2
  <2>4. o \in Side /\ e \in Account /\ Sound(o, {}, C, e) /\ C \in BOOLEAN
    BY <1>2
  <2>5. /\ Sound(u, {}, C, g)
        /\ (o.live \/ ~Without(o.chan, {"detached"})) /\ m.kind = "note"
             => m.n = e.read + 1 /\ m.n <= e.sent
        /\ o.live => m.kind \notin {"exit", "detached"}
        /\ o.live => \A p \in Panes : m.kind = "output" /\ m.pane = p => m.n <= e.made[p]
        /\ m.kind = "detached" => e.sent <= e.read
    BY ONLY <2>3, <2>4, ReadsKeeps
  <2> QED BY <2>1, <2>2, <2>5
<1>15. /\ chan' = t.chan /\ \A i \in 1..Len(t.chan) : i + 1 \in DOMAIN chan /\ t.chan[i] = chan[i + 1]
       /\ DOMAIN t.chan = 1..Len(t.chan) /\ 1 \in DOMAIN chan /\ m = chan[1]
  <2>1. Tail(chan) = t.chan
    BY <1>8
  <2> DEFINE c == chan
             d == Tail(c)
  <2>2. c \in Seq(Message) /\ c # <<>>
    BY <1>1, <1>3 DEF Text
  <2> HIDE DEF c
  <2>3. /\ Len(d) \in Nat
        /\ DOMAIN c = 1..(Len(d) + 1) /\ DOMAIN d = 1..Len(d) /\ Head(c) = c[1]
        /\ \A i \in 1..Len(d) : d[i] = c[i + 1]
    BY <2>2, TailPlaces
  <2> HIDE DEF d
  <2>4. /\ \A i \in 1..Len(d) : i + 1 \in DOMAIN c /\ d[i] = c[i + 1]
        /\ 1 \in DOMAIN c
    BY <2>3
  <2>5. d = t.chan
    BY <2>1 DEF d, c
  <2> QED BY <1>1, <2>1, <2>3, <2>4, <2>5 DEF c, m
<1>16. Typed'
  <2>1. (Now \in Side)' /\ (TheAccount \in Account)'
    BY <1>8, <1>12 DEF t, f
  <2>2. peer' \in {"open", "gone"} /\ made' = made /\ since' = since /\ sent' = sent /\ owner' = owner
    BY <1>1
  <2> QED BY <1>2, <1>9, <2>1, <2>2 DEF Typed
<1>17. Read'
  <2>1. /\ live \/ ~Without(chan, {"detached"}) => view.read <= sent
        /\ ~view.told
    BY <1>1, <1>4 DEF Read
  <2>2. Without(chan, {"detached"}) => Without(chan', {"detached"}) /\ m.kind # "detached"
    <3> HIDE DEF m
    <3> QED BY <1>15 DEF Without
  <2>3. live' = live /\ sent' = sent /\ made' = made
    BY <1>1
  <2>4. ASSUME live \/ ~Without(chan, {"detached"}) PROVE view'.read <= sent
    <3>1. CASE m.kind = "note"
      <4>1. m.n <= e.sent
        BY <1>3, <1>14, <2>4, <3>1
      <4> QED BY <1>9, <1>10, <3>1, <4>1
    <3>2. CASE m.kind # "note"
      BY <1>9, <2>1, <2>4, <3>2
    <3> QED BY <3>1, <3>2
  <2>5. ASSUME live, NEW p \in Panes PROVE view'.last[p] <= made[p]
    <3>1. CASE m.kind = "output" /\ m.pane = p
      <4>1. m.n <= e.made[p]
        BY <1>3, <1>14, <2>5, <3>1
      <4> QED BY <1>9, <1>10, <3>1, <4>1
    <3>2. CASE ~ (m.kind = "output" /\ m.pane = p)
      <4>1. view'.last[p] = view.last[p]
        BY <1>9, <3>2
      <4>2. view.last[p] <= made[p]
        BY <1>2, <2>5
      <4> QED BY <4>1, <4>2
    <3> QED BY <3>1, <3>2
  <2>6. ASSUME view'.told PROVE ~live /\ peer' = "gone" /\ view'.read = sent
    <3>1. m.kind = "detached"
      BY <1>9, <2>1, <2>6
    <3>2. ~live /\ peer' = "gone"
      BY <1>1, <1>3, <1>14, <3>1
    <3>3. view'.read = view.read /\ sent <= view.read
      BY <1>9, <1>10, <1>14, <3>1
    <3>4. view.read <= sent
      BY <2>1, <2>2, <3>1
    <3>5. view.read = sent
      BY <1>2, <1>4, <3>3, <3>4
    <3> QED BY <3>2, <3>3, <3>5
  <2>7. live' \/ ~Without(chan', {"detached"}) => view'.read <= sent'
    BY <2>2, <2>3, <2>4
  <2> QED BY <2>3, <2>5, <2>6, <2>7 DEF Read
<1>18. Going' = Going
  BY <1>1 DEF Going
<1>19. Sound(Now, {}, Going, TheAccount)'
  BY <1>14, <1>18 DEF t, f, C
<1> QED BY <1>16, <1>17, <1>19 DEF IInv

-----------------------------------------------------------------------------
(* Every step                                                              *)

\* No step breaks the invariant.
LEMMA StepKeeps ==
  ASSUME IInv, [Next]_vars
  PROVE  IInv'
<1>1. CASE UNCHANGED vars
  <2>1. UNCHANGED <<live, ctl, chan, bytes, peer, made, since, sent, view, owner>>
    BY <1>1 DEF vars
  <2>2. Now' = Now /\ TheAccount' = TheAccount /\ Going' = Going
    BY <2>1 DEF Now, TheAccount, Going
  <2>3. Typed'
    <3>1. Typed
      BY DEF IInv
    <3> QED BY <2>1, <2>2, <3>1 DEF Typed
  <2>4. Read'
    <3>1. Read
      BY DEF IInv
    <3> QED BY <2>1, <3>1 DEF Read
  <2>5. Sound(Now, {}, Going, TheAccount)'
    <3>1. Sound(Now, {}, Going, TheAccount)
      BY DEF IInv
    <3> QED BY <2>2, <3>1
  <2> QED BY <2>3, <2>4, <2>5 DEF IInv
<1>2. CASE Next
  <2>1. ASSUME NEW p \in Panes, Output(p) PROVE IInv'
    BY <2>1, OutputKeeps
  <2>2. ASSUME NEW p \in Panes, Reset(p) PROVE IInv'
    BY <2>2, ResetKeeps
  <2>3. ASSUME NEW p \in Panes, NEW change \in Changes, RefreshOwn(change, p) PROVE IInv'
    BY <2>3, RefreshOwnKeeps
  <2>4. ASSUME NEW p \in Panes, NEW change \in Changes, RefreshOther(change, p) PROVE IInv'
    BY <2>4, RefreshOtherKeeps
  <2>5. ASSUME NEW flags \in Flags, NEW told \in BOOLEAN, FlagOwn(flags, told) PROVE IInv'
    BY <2>5, FlagOwnKeeps
  <2>6. ASSUME NEW flags \in Flags, NEW told \in BOOLEAN, FlagOther(flags, told) PROVE IInv'
    BY <2>6, FlagOtherKeeps
  <2>7. ASSUME Notify PROVE IInv'
    BY <2>7, NotifyKeeps
  <2>8. ASSUME Detach PROVE IInv'
    BY <2>8, DetachKeeps
  <2>9. ASSUME Tick PROVE IInv'
    BY <2>9, TickKeeps
  <2>10. ASSUME Expire \/ HandleDisconnect PROVE IInv'
    <3>1. live /\ Commit(Gone(Now), made) /\ sent' = sent /\ owner' = owner
      BY <2>10 DEF Expire, HandleDisconnect
    <3> QED BY <3>1, LeavingKeeps
  <2>11. ASSUME Age PROVE IInv'
    BY <2>11, AgeKeeps
  <2>12. ASSUME Receive PROVE IInv'
    BY <2>12, ReceiveKeeps
  <2>13. ASSUME Leave PROVE IInv'
    BY <2>13, LeaveKeeps
  <2> QED BY <1>2, <2>1, <2>2, <2>3, <2>4, <2>5, <2>6, <2>7, <2>8, <2>9, <2>10, <2>11, <2>12,
             <2>13 DEF Next
<1> QED BY <1>1, <1>2

-----------------------------------------------------------------------------
(* What the invariant says of the variables *)

\* What is on its way to the client, as the properties write it
LEMMA TransitIsTheWay ==
  Transit = Way(Now)
BY NowFields DEF Transit, Way, Texts

\* TypeOK from the invariant
LEMMA InvariantTypes ==
  ASSUME IInv
  PROVE  TypeOK
<1>1. /\ Now \in Side /\ peer \in {"open", "gone"} /\ owner \in {"running", "panicked"}
      /\ made \in [Panes -> 0..MaxOutput] /\ since \in [Panes -> 0..MaxOutput]
      /\ sent \in 0..MaxNotes /\ Sound(Now, {}, Going, TheAccount)
  BY TypedFields
<1>2. /\ live \in BOOLEAN /\ ctl \in Control /\ chan \in Seq(Message)
  BY <1>1, NowFields, SideFields
<1>3. Len(chan) <= ChannelCap /\ (~live => ctl = NewControl)
  BY <1>1, NowFields DEF Sound, Counted
<1>4. /\ ctl.off \subseteq Panes /\ ctl.paused \subseteq Panes
      /\ ctl.aging \in BOOLEAN /\ ctl.muted \in BOOLEAN /\ ctl.closing \in BOOLEAN
      /\ ctl.pending \in Seq(Queued)
  BY <1>2, ControlFields
<1>5. \A q \in ToSet(ctl.pending) : q.m \in Message /\ q.age \in 0 .. 2
  <2> DEFINE l == ctl.pending
  <2>1. l \in Seq(Queued)
    BY <1>4
  <2> HIDE DEF l
  <2>2. \A q \in ToSet(l) : q \in Queued
    BY <2>1 DEF ToSet
  <2>3. \A q \in Queued : q.m \in Message /\ q.age \in 0 .. 2
    BY DEF Queued, Fresh, Text
  <2> QED BY <2>2, <2>3 DEF l
<1> QED BY <1>1, <1>2, <1>3, <1>4, <1>5 DEF TypeOK

\* CountersExact from the invariant
LEMMA InvariantCounts ==
  ASSUME IInv
  PROVE  CountersExact
<1>1. Now \in Side /\ Sound(Now, {}, Going, TheAccount)
  BY TypedFields
<1>2. chan \in Seq(Message) /\ ctl.cost \in Int
  BY <1>1, NowFields, SideFields
<1>3. /\ bytes = Total(chan) /\ Len(chan) <= ChannelCap
      /\ live => ctl.cost = Len(ctl.pending) /\ ctl.cost + Len(chan) <= ByteLimit
  BY <1>1, NowFields DEF Sound, Counted
<1>4. Total(chan) \in Nat /\ Total(chan) <= 2 * Len(chan)
  BY <1>2, TotalBounds
<1>5. ASSUME live PROVE ctl.cost + bytes <= ByteLimit + ChannelCap
  <2> DEFINE a == ctl.cost
             n == Len(chan)
  <2>1. /\ a \in Int /\ n \in Nat /\ bytes \in Nat /\ bytes <= 2 * n /\ n <= ChannelCap
        /\ a + n <= ByteLimit /\ ByteLimit \in Nat /\ ChannelCap \in Nat
    BY <1>2, <1>3, <1>4, <1>5, ControlAssumption
  <2> HIDE DEF a, n
  <2>2. a + bytes <= ByteLimit + ChannelCap
    BY ONLY <2>1
  <2> QED BY <2>2 DEF a
<1> QED BY <1>3, <1>5 DEF CountersExact

\* NotesInOrder from the invariant
LEMMA InvariantOrders ==
  ASSUME IInv
  PROVE  NotesInOrder
<1>1. Ordered(Now, TheAccount) /\ (view.told => view.read = sent)
  BY DEF IInv, Sound, Read
<1>2. live => Numbered(Transit, NotesIn(Transit), view.read + 1 .. sent)
  BY <1>1, NowFields, AccountFields, TransitIsTheWay DEF Ordered
<1> QED BY <1>1, <1>2 DEF NotesInOrder, Listening, NotesIn

\* What is heard in order and of which none is missing is numbered.
LEMMA HeardIsNumbered ==
  ASSUME NEW T \in Seq(Message), NEW p, NEW l \in Nat, NEW s \in Nat, NEW d \in Nat,
         Heard(T, p, l, d), Whole(T, p, l, s, d), NEW b \in Nat, b = IF l > s THEN l ELSE s
  PROVE  Numbered(T, {i \in DOMAIN T : T[i].kind = "output" /\ T[i].pane = p /\ T[i].n > b},
                  b + 1 .. d)
<1> DEFINE O == {i \in DOMAIN T : T[i].kind = "output" /\ T[i].pane = p /\ T[i].n > b}
<1>1. O \subseteq OutputsOf(T, p) /\ \A i \in OutputsOf(T, p) : i \in O <=> T[i].n > b
  BY DEF OutputsOf
<1>2. \A i \in OutputsOf(T, p) : T[i].n \in Nat
  BY MessageFields DEF OutputsOf
<1> HIDE DEF O
<1>3. \A i, j \in O : i < j => T[i].n < T[j].n
  BY <1>1 DEF Heard
<1>4. \A i \in O : T[i].n \in b + 1 .. d
  BY <1>1, <1>2 DEF Heard
<1>5. ASSUME NEW n \in b + 1 .. d PROVE \E i \in O : T[i].n = n
  <2>1. n \in Nat /\ s < n /\ n <= d /\ l < n /\ n > b
    OBVIOUS
  <2>2. PICK i \in OutputsOf(T, p) : T[i].n = n
    BY <2>1 DEF Whole
  <2> QED BY <1>1, <2>1, <2>2
<1>6. {T[i].n : i \in O} = b + 1 .. d
  BY <1>4, <1>5
<1> QED BY <1>3, <1>6 DEF Numbered, O

\* OutputIsWhole from the invariant
LEMMA InvariantHears ==
  ASSUME IInv
  PROVE  OutputIsWhole
<1>1. Now \in Side /\ TheAccount \in Account /\ Hears(Now, TheAccount)
  BY TypedFields DEF Sound
<1>2. /\ view.last \in [Panes -> Nat] /\ made \in [Panes -> Nat] /\ since \in [Panes -> Nat]
  BY <1>1, NumbersFields
<1>3. Transit \in Seq(Message)
  BY <1>1, WayPlaces, TransitIsTheWay
<1> SUFFICES ASSUME Listening, NEW p \in Panes, Audible(ctl, p)
             PROVE  LET from == IF view.last[p] > since[p] THEN view.last[p] ELSE since[p]
                        outputs == {i \in DOMAIN Transit : /\ Transit[i].kind = "output"
                                                           /\ Transit[i].pane = p
                                                           /\ Transit[i].n > from}
                    IN  Numbered(Transit, outputs, from + 1 .. made[p])
  BY DEF OutputIsWhole
<1> DEFINE T == Transit
           l == view.last[p]
           s == since[p]
           d == made[p]
           b == IF l > s THEN l ELSE s
<1>4. Heard(T, p, l, d) /\ Whole(T, p, l, s, d)
  BY <1>1, NowFields, AccountFields, TransitIsTheWay DEF Listening, Hears
<1>5. l \in Nat /\ s \in Nat /\ d \in Nat /\ T \in Seq(Message)
  BY <1>2, <1>3
<1> HIDE DEF T, l, s, d
<1>6. b \in Nat /\ b = IF l > s THEN l ELSE s
  BY <1>5
<1> HIDE DEF b
<1>7. Numbered(T, {i \in DOMAIN T : T[i].kind = "output" /\ T[i].pane = p /\ T[i].n > b}, b + 1 .. d)
  BY ONLY <1>4, <1>5, <1>6, HeardIsNumbered, ZenonT(120)
<1> QED BY <1>7 DEF T, l, s, d, b

\* PauseIsTold from the invariant
LEMMA InvariantSpeaks ==
  ASSUME IInv
  PROVE  PauseIsTold
<1>1. Speaks(Now, TheAccount, {}, Going) /\ (live => Going = ctl.closing)
  BY TypedFields DEF Sound
<1> SUFFICES ASSUME Listening, ~ctl.closing, NEW p \in Panes
             PROVE  /\ \A i \in DOMAIN Transit : Transit[i].pane = p =>
                         /\ Transit[i].kind \in {"output", "pause"}
                              => ~Believes(Transit, view.paused, p, i - 1)
                         /\ Transit[i].kind = "continue"
                              => Believes(Transit, view.paused, p, i - 1)
                    /\ Believes(Transit, view.paused, p, Len(Transit)) <=> p \in ctl.paused
  BY DEF PauseIsTold
<1>2. live /\ ~Going
  BY <1>1 DEF Listening, Going
<1>3. Voice(Transit, view.paused, p, (p \in ctl.paused) # (p \in {}))
  BY <1>1, <1>2, NowFields, AccountFields, TransitIsTheWay DEF Speaks
<1> DEFINE K == (p \in ctl.paused) # (p \in {})
<1>4. K = (p \in ctl.paused)
  OBVIOUS
<1> HIDE DEF K
<1>5. Voice(Transit, view.paused, p, K)
  BY <1>3 DEF K
<1> QED BY <1>4, <1>5 DEF Voice

-----------------------------------------------------------------------------
(* The theorems *)

\* Between two events of the owner the queue, the channel and the two counters,
\* what the client has been told and what it has read agree as IInv says,
\* through every refusal, discard, pause and expulsion (control.rs).
THEOREM TheQueueIsSound == Spec => []IInv
<1>1. Init => IInv
  BY InitHolds
<1>2. IInv /\ [Next]_vars => IInv'
  BY StepKeeps
<1> QED BY <1>1, <1>2, PTL DEF Spec

\* Every variable holds what its declaration says, the channel its capacity, and
\* of a client that is gone disconnect leaves at most an empty record.
THEOREM TypesHold == Spec => []TypeOK
<1>1. IInv => TypeOK
  BY InvariantTypes
<1> QED BY <1>1, TheQueueIsSound, PTL

\* pending_bytes and delivery_bytes are the cost of what is queued and of what is
\* in the channel, whatever was discarded, refused or escaped in between, and
\* stay within BYTE_LIMIT but for what escaping adds (send_control).
THEOREM CountersStayExact == Spec => []CountersExact
<1>1. IInv => CountersExact
  BY InvariantCounts
<1> QED BY <1>1, TheQueueIsSound, PTL

\* Replies and notifications reach a listening client once and in order, and one
\* that was told it is detached has read them all (flush_control, detach_client).
THEOREM NotesStayInOrder == Spec => []NotesInOrder
<1>1. IInv => NotesInOrder
  BY InvariantOrders
<1> QED BY <1>1, TheQueueIsSound, PTL

\* A pane the client hears loses no output, from where it began to hear it or a
\* flag last turned output off or on, which drops what is queued even if it
\* changes nothing (flags): age, pauses, other flags and full channels never
\* drop a part of it (discard_pane, flush_control).
THEOREM OutputStaysWhole == Spec => []OutputIsWhole
<1>1. IInv => OutputIsWhole
  BY InvariantHears
<1> QED BY <1>1, TheQueueIsSound, PTL

\* The client is told of each pause and each end of one, in order with the output
\* it concerns, and in the end believes what the owner holds of every pane
\* (pause_after, refresh-client -A).
THEOREM PausesAreTold == Spec => []PauseIsTold
<1>1. IInv => PauseIsTold
  BY InvariantSpeaks
<1> QED BY <1>1, TheQueueIsSound, PTL
=============================================================================
