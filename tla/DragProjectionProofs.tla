------------------------ MODULE DragProjectionProofs ------------------------
(***************************************************************************)
(* Proofs about DragProjection, for any views, panes, offers and depth of  *)
(* the owner's call stack.                                                 *)
(*                                                                         *)
(* What holds between handlers does not hold while one is under way: a     *)
(* binding may outlive its client, its process or its target.  Then some   *)
(* frame of the stack is going to end it, and the invariant says which:    *)
(* the leave frame of the client (Leaving), the close frame that will      *)
(* disconnect it (Closed), or the output frame that remembers another      *)
(* revision of the target (Unpublished).  A step may drop a frame or       *)
(* shorten its list only if it does what the frame was kept for; Moves and *)
(* Eases say what a step has to show, Carries what a stack must keep.      *)
(***************************************************************************)
EXTENDS DragProjection, WellFoundedInduction, TLAPS

\* The frames of the stack, by call
OutputFrame ==
  [call : {"output"}, seq : Nat, todo : SUBSET Views, pane : Panes, before : Nat]
DragFrame  == [call : {"drag"}, seq : Nat, todo : SUBSET Views]
LeaveFrame ==
  [call : {"leave"}, client : Views, todo : SUBSET Panes, freed : SUBSET Panes]
LoopFrame  == [call : {"announce", "close", "panic"}, todo : SUBSET Views]
Frame == OutputFrame \union DragFrame \union LeaveFrame \union LoopFrame

\* What the order of the frames does not matter for
Frames(s) == {s[i] : i \in 1 .. Len(s)}

\* Frames that other frames may wait for.
Nested == {"drag", "leave", "close"}

\* A handler's own frame is at the bottom, and so is a panic.
Stack(s) ==
  s \in Seq(Frame) /\ \A i \in 1 .. Len(s) : i < Len(s) => s[i].call \in Nested

\* A frame that will take the drag of client c over pane p from it
Leaving(F, c, p) == \E f \in F : f.call = "leave" /\ f.client = c /\ p \in f.todo

\* A frame that will disconnect client c
Closed(F, c) == \E f \in F : f.call = "close" /\ c \in f.todo

\* A frame that will find the target t of pane p changed
Unpublished(F, p, t) ==
  \E f \in F : f.call = "output" /\ f.pane = p /\ f.before # Revision(t)

\* An application that is waiting for the drop of an offer
Hovered(t) == t.on /\ t.offer # 0 /\ ~t.dropped

\* The variables but the stack
Typed ==
  /\ seq \in Nat /\ outs \in Nat
  /\ live \subseteq Views /\ severed \subseteq Views /\ running \subseteq Panes
  /\ states \in [Views -> [Panes -> {"none", "hidden", "visible"}]]
  /\ target \in [Panes -> Target]
  /\ active \in [Panes -> Binding]
  /\ latest \in [Views -> [Panes -> 0..MaxOffer]]
  /\ view \in [Views -> [seq : Nat, shown : Nat]]
  /\ ended \subseteq (Views \X Panes \X (1..MaxOffer))

\* A binding is of a client that shows the pane.  If the client is gone it is
\* about to leave the pane; if the process is gone, the client is about to go.
HeldOK ==
  \A p \in Panes : active[p] # NoOffer =>
    LET c == active[p].client
    IN  /\ c \in Views /\ active[p].offer \in 1 .. MaxOffer
        /\ states[c][p] # "none"
        /\ c \in live \/ Leaving(Frames(stack), c, p)
        /\ p \in running \/ c \notin live \/ Closed(Frames(stack), c)

\* A pane whose view state is about to go has no drag of that view left.
FreedOK ==
  \A f \in Frames(stack) :
    f.call = "leave" => \A p \in f.freed : active[p].client # f.client

\* A binding is what the application knows, or the output that changed it is
\* about to publish that; and a hovered application has its binding at any time.
TargetOK ==
  \A p \in Panes :
    /\ target[p].on => target[p].rev > 0
    /\ active[p] # NoOffer =>
         Matches(target[p], active[p]) \/ Unpublished(Frames(stack), p, target[p])
    /\ Hovered(target[p]) => active[p] # NoOffer /\ Matches(target[p], active[p])

\* The latest offer of a client over a pane is the one it holds, if it holds
\* one, and no ended offer of a connected client is above its latest.
EndedOK ==
  /\ \A e \in ended :
       /\ e[1] \in live \union severed
       /\ e[1] \in live => e[3] <= latest[e[1]][e[2]]
  /\ \A p \in Panes : active[p] # NoOffer =>
       LET c == active[p].client
       IN  /\ c \in live \union severed
           /\ c \in live => active[p].offer = latest[c][p]
           /\ <<c, p, active[p].offer>> \notin ended

\* The inductive invariant
Inv == Typed /\ Stack(stack) /\ HeldOK /\ FreedOK /\ TargetOK /\ EndedOK

-----------------------------------------------------------------------------
\* The model's choice of the next client or pane is one of the list.
LEMMA LeastIsIn ==
  ASSUME NEW S, S \subseteq Nat, S # {}
  PROVE  Least(S) \in S
<1>1. PICK x \in S : \A y \in S : <<y, x>> \notin OpToRel(<, Nat)
  BY NatLessThanWellFounded, WFMin
<1>2. \A y \in S : ~ (y < x)
  BY <1>1, Zenon DEF OpToRel
<1>3. \A y \in S : x <= y
  BY <1>2, SMT
<1> QED
  BY <1>3 DEF Least

\* The call of a frame tells its fields.
LEMMA FrameKinds ==
  ASSUME NEW f \in Frame
  PROVE  /\ f.call \in CallKinds
         /\ f.call = "output" => f \in OutputFrame
         /\ f.call = "drag" => f \in DragFrame
         /\ f.call = "leave" => f \in LeaveFrame
         /\ f.call \in {"announce", "close", "panic"} => f \in LoopFrame
  BY DEF Frame, OutputFrame, DragFrame, LeaveFrame, LoopFrame, CallKinds

\* A call may be made from a frame that is Nested, or from none.
LEMMA PushStack ==
  ASSUME NEW s, Stack(s), NEW f \in Frame, s # <<>> => f.call \in Nested
  PROVE  Stack(<<f>> \o s) /\ Frames(<<f>> \o s) = {f} \union Frames(s)
<1> DEFINE t == <<f>> \o s
<1>1. t \in Seq(Frame) /\ Len(t) = Len(s) + 1 /\ Len(s) \in Nat
      /\ t[1] = f /\ \A i \in 1 .. Len(s) : t[i + 1] = s[i]
  BY DEF Stack
<1>2. \A i \in 1 .. Len(t) : i = 1 \/ (i - 1 \in 1 .. Len(s) /\ t[i] = s[i - 1])
  BY <1>1
<1> HIDE DEF t
<1>3. Frames(t) = {f} \union Frames(s)
  <2>1. {f} \union Frames(s) \subseteq Frames(t)
    BY <1>1 DEF Frames
  <2>2. Frames(t) \subseteq {f} \union Frames(s)
    BY <1>1, <1>2, SMTT(60) DEF Frames
  <2> QED
    BY <2>1, <2>2
<1>4. ASSUME NEW i \in 1 .. Len(t), i < Len(t)
      PROVE  t[i].call \in Nested
  <2>1. CASE i = 1
    <3>1. s # <<>>
      BY <2>1, <1>1, <1>4
    <3> QED
      BY <2>1, <3>1, <1>1
  <2>2. CASE i # 1
    BY <2>2, <1>1, <1>2, <1>4 DEF Stack
  <2> QED
    BY <2>1, <2>2
<1> QED
  BY <1>1, <1>3, <1>4 DEF Stack, t

\* The caller of the top frame is Nested.
LEMMA PopStack ==
  ASSUME NEW s, Stack(s), s # <<>>
  PROVE  /\ Head(s) \in Frame /\ Stack(Tail(s))
         /\ Frames(s) = {Head(s)} \union Frames(Tail(s))
         /\ Tail(s) # <<>> => Head(s).call \in Nested
<1> DEFINE t == Tail(s)
<1>1. t \in Seq(Frame) /\ Len(t) = Len(s) - 1 /\ Len(s) \in Nat \ {0}
      /\ Head(s) = s[1] /\ \A i \in 1 .. Len(t) : t[i] = s[i + 1]
  BY DEF Stack
<1>2. \A i \in 1 .. Len(s) : i = 1 \/ (i - 1 \in 1 .. Len(t) /\ s[i] = t[i - 1])
  BY <1>1
<1>3. Head(s) \in Frame
  BY <1>1 DEF Stack
<1>4. t # <<>> => s[1].call \in Nested
  BY <1>1 DEF Stack
<1> HIDE DEF t
<1>5. Frames(s) = {Head(s)} \union Frames(t)
  <2>1. {Head(s)} \union Frames(t) \subseteq Frames(s)
    BY <1>1 DEF Frames
  <2>2. Frames(s) \subseteq {Head(s)} \union Frames(t)
    BY <1>1, <1>2 DEF Frames
  <2> QED
    BY <2>1, <2>2
<1>6. \A i \in 1 .. Len(t) : i < Len(t) => t[i].call \in Nested
  BY <1>1, <1>2 DEF Stack
<1> QED
  BY <1>1, <1>3, <1>4, <1>5, <1>6 DEF Stack, t

\* The idle owner
LEMMA EmptyStack == Stack(<<>>) /\ Frames(<<>>) = {}
  BY DEF Stack, Frames

\* A handler's first frame
LEMMA OneFrame ==
  ASSUME NEW f \in Frame
  PROVE  Stack(<<f>>) /\ Frames(<<f>>) = {f} /\ <<f>> \o <<>> = <<f>>
<1>1. <<f>> \in Seq(Frame) /\ Len(<<f>>) = 1 /\ <<f>>[1] = f
  OBVIOUS
<1>2. Frames(<<f>>) = {f}
  BY <1>1 DEF Frames
<1>3. <<f>> \o <<>> = <<f>>
  OBVIOUS
<1> QED
  BY <1>1, <1>2, <1>3 DEF Stack

\* The top frame proceeds.
LEMMA ReplaceTop ==
  ASSUME Stack(stack), stack # <<>>, NEW f \in Frame, f.call = Top.call
  PROVE  /\ Stack(<<f>> \o Tail(stack))
         /\ Frames(<<f>> \o Tail(stack)) = {f} \union Frames(Tail(stack))
         /\ Frames(stack) = {Top} \union Frames(Tail(stack))
  BY PopStack, PushStack DEF Top

\* A handler's own frame calls nothing while it is on top.
LEMMA LoneTop ==
  ASSUME Stack(stack), stack # <<>>, Top.call \notin Nested
  PROVE  Tail(stack) = <<>> /\ Frames(stack) = {Top}
  BY PopStack, EmptyStack DEF Top

-----------------------------------------------------------------------------
\* A fresh revision changes nothing else.
LEMMA Advanced ==
  ASSUME NEW t \in Target
  PROVE  LET u == [t EXCEPT !.rev = @ + 1]
         IN  /\ u \in Target /\ u.rev = t.rev + 1
             /\ u.on = t.on /\ u.reg = t.reg /\ u.ready = t.ready
             /\ u.offer = t.offer /\ u.dropped = t.dropped /\ u.accepted = t.accepted
  BY DEF Target

\* reset_drop ends the hover, with a fresh revision.
LEMMA ResetTarget ==
  ASSUME NEW t \in Target
  PROVE  /\ ResetDrop(t) \in Target
         /\ ResetDrop(t).on = t.on /\ ResetDrop(t).reg = t.reg
         /\ ResetDrop(t).rev = t.rev + 1
         /\ ResetDrop(t).offer = 0
<1> DEFINE u == [t EXCEPT !.rev = @ + 1]
           v == [u EXCEPT !.offer = 0]
           w == [v EXCEPT !.dropped = FALSE]
<1>1. u \in Target /\ u.on = t.on /\ u.reg = t.reg /\ u.rev = t.rev + 1
  BY Advanced
<1> HIDE DEF u
<1>2. v \in Target /\ v.on = t.on /\ v.reg = t.reg /\ v.rev = t.rev + 1 /\ v.offer = 0
  BY <1>1 DEF Target
<1> HIDE DEF v
<1>3. w \in Target /\ w.on = t.on /\ w.reg = t.reg /\ w.rev = t.rev + 1 /\ w.offer = 0
  BY <1>2 DEF Target
<1> HIDE DEF w
<1>4. ResetDrop(t) = [w EXCEPT !.accepted = FALSE]
  BY DEF ResetDrop, u, v, w
<1> QED
  BY <1>3, <1>4 DEF Target

\* A registration starts without an offer.
LEMMA RegisterTarget ==
  ASSUME NEW t \in Target, NEW complete \in BOOLEAN
  PROVE  /\ Register(t, complete) \in Target
         /\ Register(t, complete).on
         /\ Register(t, complete).rev = t.rev + 1
         /\ Register(t, complete).offer = 0
  BY ResetTarget DEF Register, Target

\* Whatever an application does, its target is unchanged, or is not the same
\* revision; and it cannot make itself hovered.
LEMMA FedTarget ==
  ASSUME NEW t \in Target, t.on => t.rev > 0, NEW u \in Fed(t)
  PROVE  /\ u \in Target
         /\ u.on => u.rev > 0
         /\ u = t \/ Revision(u) # Revision(t) \/ (~t.on /\ ~u.on)
         /\ Hovered(u) => Hovered(t) /\ u.reg = t.reg /\ u.offer = t.offer
<1>1. CASE u = t
  BY <1>1
<1>2. CASE u \in {Register(t, TRUE), Register(t, FALSE)}
  <2>1. u \in Target /\ u.on /\ u.rev = t.rev + 1 /\ u.offer = 0
    BY <1>2, RegisterTarget
  <2>2. t.rev \in Nat
    BY DEF Target
  <2> QED
    BY <2>1, <2>2 DEF Hovered, Revision
<1>3. CASE u = [NoTarget EXCEPT !.rev = t.rev]
  <2>1. u \in Target /\ ~u.on
    BY <1>3 DEF NoTarget, Target
  <2>2. t.on => t.rev # 0
    BY DEF Target
  <2> QED
    BY <2>1, <2>2 DEF Hovered, Revision, Target
<1>4. CASE t.on /\ u \in {[t EXCEPT !.rev = @ + 1, !.accepted = TRUE],
                         [t EXCEPT !.rev = @ + 1, !.ready = TRUE]}
  <2> DEFINE v == [t EXCEPT !.rev = @ + 1]
  <2>1. /\ v \in Target /\ v.rev = t.rev + 1
        /\ v.on = t.on /\ v.reg = t.reg
        /\ v.offer = t.offer /\ v.dropped = t.dropped
    BY Advanced
  <2>2. u = [v EXCEPT !.accepted = TRUE] \/ u = [v EXCEPT !.ready = TRUE]
    BY <1>4
  <2> HIDE DEF v
  <2>3. /\ u \in Target
        /\ u.on /\ u.rev = t.rev + 1 /\ u.reg = t.reg
        /\ u.offer = t.offer /\ u.dropped = t.dropped
    BY <1>4, <2>1, <2>2, ZenonT(120) DEF Target
  <2> QED
    BY <1>4, <2>3 DEF Hovered, Revision, Target
<1>5. CASE t.on /\ u = ResetDrop(t)
  BY <1>5, ResetTarget DEF Hovered, Revision, Target
<1> QED
  BY <1>1, <1>2, <1>3, <1>4, <1>5 DEF Fed

\* cancel_offer ends the hover of its offer and starts none.
LEMMA CancelTarget ==
  ASSUME NEW t \in Target, t.on => t.rev > 0, NEW offer \in Nat
  PROVE  /\ Cancel(t, offer) \in Target
         /\ Cancel(t, offer).on => Cancel(t, offer).rev > 0
         /\ Hovered(t) /\ t.offer = offer => ~Hovered(Cancel(t, offer))
         /\ ~Hovered(t) => ~Hovered(Cancel(t, offer))
  BY ResetTarget DEF Cancel, Hovered, Target

\* publish_drag_if_changed ends at most the binding of its pane, and only one
\* the application no longer knows of; it leaves none such if it publishes.
LEMMA PublishEffect ==
  ASSUME seq \in Nat, live \subseteq Views,
         NEW p \in Panes, NEW before, NEW t \in Target,
         NEW b \in [Panes -> Binding], NEW rest, Stack(rest),
         PublishIfChanged(p, before, t, b, rest)
  PROVE  /\ seq' \in Nat
         /\ active' \in [Panes -> Binding]
         /\ \A q \in Panes : q # p => active'[q] = b[q]
         /\ active'[p] # b[p] => active'[p] = NoOffer /\ ~Matches(t, b[p])
         /\ Revision(t) # before => active'[p] = NoOffer \/ Matches(t, active'[p])
         /\ ended' = Retire(active, active')
         /\ Stack(stack')
         /\ Frames(rest) \subseteq Frames(stack')
         /\ \A f \in Frames(stack') : f \in Frames(rest) \/ f.call = "drag"
<1> DEFINE d == [call |-> "drag", seq |-> seq + 1, todo |-> live]
<1>1. Standing(b, p, t) \in [Panes -> Binding] /\ NoOffer \in Binding
  BY DEF Standing, NoOffer, Binding
<1>2. CASE Revision(t) = before
  BY <1>2, EmptyStack DEF PublishIfChanged, SetActive
<1>3. CASE Revision(t) # before
  <2>1. d \in Frame /\ d.call = "drag"
    BY DEF Frame, DragFrame
  <2>2. stack' = <<d>> \o rest /\ seq' = seq + 1
        /\ active' = Standing(b, p, t) /\ ended' = Retire(active, active')
    BY <1>3 DEF PublishIfChanged, SetActive
  <2> HIDE DEF d
  <2>3. Stack(stack') /\ Frames(stack') = {d} \union Frames(rest)
    BY <2>1, <2>2, PushStack DEF Nested
  <2> QED
    BY <2>1, <2>2, <2>3, <1>1, <1>3 DEF Standing
<1> QED
  BY <1>2, <1>3

\* release_drag: the client holds the pane no longer, and if it held it, the
\* application is not left hovered.  Nothing else changes.
LEMMA ReleaseEffect ==
  ASSUME Inv, NEW c \in Views, NEW p \in Panes, NEW rest, Stack(rest),
         ReleaseDrag(c, p, rest)
  PROVE  /\ seq' \in Nat
         /\ active' \in [Panes -> Binding] /\ target' \in [Panes -> Target]
         /\ \A q \in Panes :
              \/ active'[q] = active[q] /\ target'[q] = target[q]
              \/ /\ q = p
                 /\ active'[q] = NoOffer
                 /\ target'[q].on => target'[q].rev > 0
                 /\ ~Hovered(target'[q])
         /\ active'[p].client # c
         /\ ended' \subseteq Retire(active, active')
         /\ ended' \subseteq ended \union (Views \X Panes \X (1..MaxOffer))
         /\ Stack(stack')
         /\ Frames(rest) \subseteq Frames(stack')
         /\ \A f \in Frames(stack') : f \in Frames(rest) \/ f.call = "drag"
<1>1. Typed /\ HeldOK /\ TargetOK
  BY DEF Inv
<1>2. c # 0 /\ NoOffer \in Binding /\ NoOffer.client = 0
  BY DragAssumption DEF NoOffer, Binding
<1>3. CASE active[p].client # c
  BY <1>1, <1>3, EmptyStack DEF ReleaseDrag, Typed, Retire
<1>4. CASE active[p].client = c
  <2> DEFINE b == [active EXCEPT ![p] = NoOffer]
             t == Cancel(target[p], active[p].offer)
  <2>1. active[p] # NoOffer /\ active[p].offer \in Nat
    BY <1>1, <1>2, <1>4 DEF Typed, Binding
  <2>2. /\ t \in Target
        /\ t.on => t.rev > 0
        /\ ~Hovered(t)
    <3>1. target[p] \in Target /\ (target[p].on => target[p].rev > 0)
      BY <1>1 DEF Typed, TargetOK
    <3>2. Hovered(target[p]) => target[p].offer = active[p].offer
      BY <1>1 DEF TargetOK, Matches
    <3> QED
      BY <2>1, <3>1, <3>2, CancelTarget
  <2>3. b \in [Panes -> Binding] /\ b[p] = NoOffer /\ \A q \in Panes : q # p => b[q] = active[q]
    BY <1>1, <1>2 DEF Typed
  <2>4. target' = [target EXCEPT ![p] = t]
        /\ PublishIfChanged(p, Revision(target[p]), t, b, rest)
    BY <1>4 DEF ReleaseDrag
  <2> HIDE DEF b, t
  <2>5. /\ seq' \in Nat
        /\ active' \in [Panes -> Binding]
        /\ \A q \in Panes : q # p => active'[q] = b[q]
        /\ active'[p] = NoOffer
        /\ ended' = Retire(active, active')
        /\ Stack(stack')
        /\ Frames(rest) \subseteq Frames(stack')
        /\ \A f \in Frames(stack') : f \in Frames(rest) \/ f.call = "drag"
    <3>1. seq \in Nat /\ live \subseteq Views
      BY <1>1 DEF Typed
    <3> QED
      BY <2>2, <2>3, <2>4, <3>1, PublishEffect
  <2>6. target' \in [Panes -> Target] /\ target'[p] = t
        /\ \A q \in Panes : q # p => target'[q] = target[q]
    <3>1. target \in [Panes -> Target]
      BY <1>1 DEF Typed
    <3> QED
      BY <2>2, <2>4, <3>1
  <2>7. ended' \subseteq ended \union (Views \X Panes \X (1..MaxOffer))
    BY <2>5, <1>1 DEF Retire, HeldOK
  <2> QED
    BY <2>2, <2>3, <2>5, <2>6, <2>7, <1>2
<1> QED
  BY <1>3, <1>4

-----------------------------------------------------------------------------
\* Bindings that only end, of clients that only go or are new, keep EndedOK.
LEMMA EndedKept ==
  ASSUME Inv, active' \in [Panes -> Binding],
         \A q \in Panes : active'[q] = active[q] \/ active'[q] = NoOffer,
         ended' \subseteq Retire(active, active'),
         live \union severed \subseteq live' \union severed',
         \A c \in live' : IF c \in live THEN latest'[c] = latest[c]
                                       ELSE c \notin severed
  PROVE  EndedOK'
<1>1. EndedOK
  BY DEF Inv
<1>2. \A e \in ended' :
        \/ e \in ended
        \/ \E q \in Panes : /\ active[q] # NoOffer /\ active'[q] = NoOffer
                            /\ e = <<active[q].client, q, active[q].offer>>
  BY DEF Retire
<1>3. \A e \in ended' : /\ e[1] \in live' \union severed'
                        /\ e[1] \in live' => e[3] <= latest'[e[1]][e[2]]
  <2>1. \A c \in live, q \in Panes : latest[c][q] \in Nat
    BY DragAssumption DEF Inv, Typed
  <2>2. \A n \in Nat : n <= n
    OBVIOUS
  <2> QED
    BY <1>1, <1>2, <2>1, <2>2 DEF EndedOK
<1>4. ASSUME NEW p \in Panes, active'[p] # NoOffer
      PROVE  LET c == active'[p].client
             IN  /\ c \in live' \union severed'
                 /\ c \in live' => active'[p].offer = latest'[c][p]
                 /\ <<c, p, active'[p].offer>> \notin ended'
  <2>1. active'[p] = active[p] /\ active[p] # NoOffer
    BY <1>4
  <2>2. <<active[p].client, p, active[p].offer>> \notin ended'
    BY <1>1, <1>2, <2>1 DEF EndedOK
  <2> QED
    BY <1>1, <2>1, <2>2 DEF EndedOK
<1> QED
  BY <1>3, <1>4 DEF EndedOK

\* A step that only ends bindings keeps the invariant, if each binding it keeps
\* still has what HeldOK and TargetOK say of it.
LEMMA Eases ==
  ASSUME Inv, Typed', Stack(stack'),
         \A q \in Panes :
           \/ active'[q] = active[q] /\ target'[q] = target[q]
           \/ /\ active'[q] = NoOffer
              /\ target'[q].on => target'[q].rev > 0
              /\ ~Hovered(target'[q]),
         ended' \subseteq Retire(active, active'),
         live \union severed \subseteq live' \union severed',
         \A c \in live' : IF c \in live THEN latest'[c] = latest[c]
                                       ELSE c \notin severed,
         \A q \in Panes : active'[q] # NoOffer =>
           LET c == active[q].client
           IN  /\ states'[c][q] # "none"
               /\ c \in live' \/ Leaving(Frames(stack'), c, q)
               /\ q \in running' \/ c \notin live' \/ Closed(Frames(stack'), c)
               /\ \/ Matches(target[q], active[q])
                  \/ Unpublished(Frames(stack'), q, target[q]),
         FreedOK'
  PROVE  Inv'
<1>1. EndedOK'
  BY EndedKept DEF Typed
<1>2. HeldOK'
  BY DEF Inv, HeldOK
<1>3. TargetOK'
  BY DEF Inv, TargetOK
<1> QED
  BY <1>1, <1>2, <1>3 DEF Inv

\* The stack G still has whatever F was going to do, except to close the
\* clients that are gone.
Carries(F, G, gone) ==
  /\ \A f \in F : f.call = "leave" /\ f.todo # {} => f \in G
  /\ \A f \in F : f.call = "output" =>
       \E g \in G : g.call = "output" /\ g.pane = f.pane /\ g.before = f.before
  /\ \A c : Closed(F, c) => c \in gone \/ Closed(G, c)
  /\ \A g \in G : g.call = "leave" /\ g.freed # {} => g \in F

\* A step that only sends or disconnects keeps the invariant, if the stack
\* carries what it has to and releases the drags of whoever it disconnects.
LEMMA Moves ==
  ASSUME Inv, Typed', Stack(stack'),
         states' = states, target' = target, active' = active, ended' = ended,
         running' = running,
         live \union severed \subseteq live' \union severed',
         \A c \in live' : IF c \in live THEN latest'[c] = latest[c]
                                       ELSE c \notin severed,
         NEW gone, gone \intersect live' = {},
         Carries(Frames(stack), Frames(stack'), gone),
         \A q \in Panes : active[q].client \in live \ live' /\ active[q] # NoOffer =>
           Leaving(Frames(stack'), active[q].client, q)
  PROVE  Inv'
<1> DEFINE F == Frames(stack)
           G == Frames(stack')
<1>1. Carries(F, G, gone)
  OBVIOUS
<1>2. FreedOK'
  BY <1>1 DEF Inv, FreedOK, Carries
<1> HIDE DEF F, G
<1>3. \A q \in Panes : \A c : Leaving(F, c, q) => Leaving(G, c, q)
  BY <1>1 DEF Carries, Leaving
<1>4. \A c \in live' : Closed(F, c) => Closed(G, c)
  BY <1>1 DEF Carries
<1>5. \A q \in Panes : Unpublished(F, q, target[q]) => Unpublished(G, q, target[q])
  BY <1>1 DEF Carries, Unpublished
<1>6. \A q \in Panes : active[q] # NoOffer =>
           LET c == active[q].client
           IN  /\ states[c][q] # "none"
               /\ c \in live' \/ Leaving(G, c, q)
               /\ q \in running \/ c \notin live' \/ Closed(G, c)
               /\ \/ Matches(target[q], active[q])
                  \/ Unpublished(G, q, target[q])
  <2> SUFFICES ASSUME NEW q \in Panes, active[q] # NoOffer
               PROVE  LET c == active[q].client
                      IN  /\ states[c][q] # "none"
                          /\ c \in live' \/ Leaving(G, c, q)
                          /\ q \in running \/ c \notin live' \/ Closed(G, c)
                          /\ \/ Matches(target[q], active[q])
                             \/ Unpublished(G, q, target[q])
    OBVIOUS
  <2> DEFINE c == active[q].client
  <2>1. /\ states[c][q] # "none"
        /\ c \in live \/ Leaving(F, c, q)
        /\ q \in running \/ c \notin live \/ Closed(F, c)
        /\ Matches(target[q], active[q]) \/ Unpublished(F, q, target[q])
        /\ c \in Views
    BY DEF Inv, HeldOK, TargetOK, F
  <2>2. c \in live' \/ Leaving(G, c, q)
    BY <1>3, <2>1 DEF G
  <2>3. c \in live' => c \in live
    BY <2>1 DEF Inv, EndedOK
  <2> QED
    BY <1>4, <1>5, <2>1, <2>2, <2>3
<1>7. ended' \subseteq Retire(active, active')
  BY DEF Retire
<1> QED
  BY <1>2, <1>6, <1>7, Eases DEF G, Inv, TargetOK

\* disconnect_host, from whatever frame: all the client's panes are on the list
\* of its leave frame, so that every drag it holds is going to be released.
LEMMA Disconnects ==
  ASSUME Inv, NEW c \in live, NEW rest, Stack(rest), Disconnect(c, rest),
         seq' = seq, outs' = outs, view' = view,
         states' = states, target' = target, active' = active, ended' = ended,
         running' = running,
         severed \subseteq severed', severed' \subseteq Views, c \in severed',
         Carries(Frames(stack), Frames(rest), {c})
  PROVE  Inv'
<1> DEFINE f == Leave(c, {p \in Panes : states[c][p] # "none"})
<1>1. Typed /\ HeldOK
  BY DEF Inv
<1>2. Typed'
  <2>1. latest' \in [Views -> [Panes -> 0..MaxOffer]] /\ live' \subseteq Views
    BY <1>1, DragAssumption DEF Typed, Disconnect
  <2> QED
    BY <1>1, <2>1 DEF Typed
<1>3. f \in Frame /\ f.call = "leave" /\ f.client = c /\ f.freed = {}
      /\ f.todo = {p \in Panes : states[c][p] # "none"}
  BY <1>1 DEF Typed, Frame, LeaveFrame, Leave
<1>4. live' = live \ {c} /\ stack' = <<f>> \o rest
      /\ \A d \in live' : latest'[d] = latest[d]
  BY <1>1 DEF Disconnect, Typed
<1> HIDE DEF f
<1>5. Stack(stack') /\ Frames(stack') = {f} \union Frames(rest)
  BY <1>3, <1>4, PushStack DEF Nested
<1>6. Carries(Frames(stack), Frames(stack'), {c})
  BY <1>3, <1>5 DEF Carries, Closed
<1>7. \A q \in Panes : active[q].client \in live \ live' /\ active[q] # NoOffer =>
        Leaving(Frames(stack'), active[q].client, q)
  BY <1>1, <1>3, <1>4, <1>5 DEF HeldOK, Leaving
<1>8. {c} \intersect live' = {} /\ live \union severed \subseteq live' \union severed'
      /\ \A d \in live' : IF d \in live THEN latest'[d] = latest[d] ELSE d \notin severed
  BY <1>4
<1> QED
  BY <1>2, <1>5, <1>6, <1>7, <1>8, Moves

\* A broadcast goes on to its next client.
LEMMA SentTop ==
  ASSUME Stack(stack), Typed, stack # <<>>, Top.call \in {"output", "drag", "close", "announce"},
         NEW c
  PROVE  LET g    == [Top EXCEPT !.todo = @ \ {c}]
             rest == <<g>> \o Tail(stack)
         IN  /\ Top \in Frame /\ Top.todo \subseteq Views
             /\ g.call = Top.call
             /\ Stack(rest)
             /\ Carries(Frames(stack), Frames(rest), {c})
             /\ Top.call # "close" => Carries(Frames(stack), Frames(rest), {})
<1> DEFINE g == [Top EXCEPT !.todo = @ \ {c}]
<1>1. Top \in Frame
  BY PopStack DEF Top
<1> DEFINE t == Top
<1>2. /\ t \in OutputFrame \union DragFrame \union LoopFrame
      /\ t.call # "leave"
      /\ t.call = "output" => t \in OutputFrame
  BY <1>1, FrameKinds
<1> HIDE DEF t
<1>3. /\ g \in Frame /\ g.call = t.call /\ g.todo = t.todo \ {c}
      /\ t.todo \subseteq Views
      /\ t.call = "output" => g.pane = t.pane /\ g.before = t.before
  <2>1. CASE t \in OutputFrame
    BY <2>1 DEF OutputFrame, Frame, t
  <2>2. CASE t \in DragFrame
    BY <2>2 DEF DragFrame, Frame, t
  <2>3. CASE t \in LoopFrame
    BY <2>3 DEF LoopFrame, Frame, t
  <2> QED
    BY <1>2, <2>1, <2>2, <2>3
<1> HIDE DEF g
<1>4. /\ Stack(<<g>> \o Tail(stack))
      /\ Frames(<<g>> \o Tail(stack)) = {g} \union Frames(Tail(stack))
      /\ Frames(stack) = {t} \union Frames(Tail(stack))
  BY <1>3, ReplaceTop DEF t
<1>5. Carries({t} \union Frames(Tail(stack)), {g} \union Frames(Tail(stack)), {c})
  BY <1>2, <1>3 DEF Carries, Closed
<1>6. t.call # "close" =>
        Carries({t} \union Frames(Tail(stack)), {g} \union Frames(Tail(stack)), {})
  BY <1>2, <1>3 DEF Carries, Closed
<1> QED
  BY <1>1, <1>3, <1>4, <1>5, <1>6 DEF g, t

\* One step of the invariant's proof for each action.  First those that send:
LEMMA SendOneKeeps == Inv /\ SendOne => Inv'
<1> SUFFICES ASSUME Inv, SendOne PROVE Inv'
  OBVIOUS
<1> DEFINE c    == Least(Top.todo)
           g    == [Top EXCEPT !.todo = @ \ {c}]
           rest == <<g>> \o Tail(stack)
<1>1. Typed /\ Stack(stack) /\ stack # <<>> /\ Top.call \in {"output", "drag"}
  BY DEF Inv, SendOne, Idle
<1>2. Top \in Frame /\ Stack(rest) /\ Carries(Frames(stack), Frames(rest), {c})
  BY <1>1, SentTop
<1>3. /\ seq' = seq /\ outs' = outs /\ severed' = severed /\ running' = running
      /\ states' = states /\ target' = target /\ active' = active /\ ended' = ended
  BY DEF SendOne
<1>4. CASE c \in live \intersect severed
  <2>1. Disconnect(c, rest) /\ view' = view
    BY <1>4 DEF SendOne
  <2> QED
    BY <1>1, <1>2, <1>3, <1>4, <2>1, Disconnects DEF Typed
<1>5. CASE c \notin live \intersect severed
  <2>1. /\ stack' = rest
        /\ view' = IF c \in live THEN [view EXCEPT ![c] = Show(@, Top)] ELSE view
        /\ live' = live /\ latest' = latest
    BY <1>5 DEF SendOne
  <2>2. view' \in [Views -> [seq : Nat, shown : Nat]]
    <3>1. CASE c \in live
      <4>1. Top.seq \in Nat
        BY <1>1, <1>2, FrameKinds DEF OutputFrame, DragFrame
      <4>2. view[c] \in [seq : Nat, shown : Nat]
        BY <1>1, <3>1 DEF Typed
      <4>3. Show(view[c], Top) \in [seq : Nat, shown : Nat]
        BY <4>1, <4>2 DEF Show
      <4> QED
        BY <1>1, <2>1, <3>1, <4>3 DEF Typed
    <3> QED
      BY <1>1, <2>1, <3>1 DEF Typed
  <2>3. Typed'
    BY <1>1, <1>3, <2>1, <2>2 DEF Typed
  <2>4. Carries(Frames(stack), Frames(rest), {})
    BY <1>1, SentTop
  <2> HIDE DEF rest
  <2>5. live \union severed \subseteq live' \union severed'
        /\ (\A d \in live' : IF d \in live THEN latest'[d] = latest[d] ELSE d \notin severed)
        /\ {} \intersect live' = {} /\ live \ live' = {}
    BY <1>3, <2>1
  <2> QED
    BY <1>2, <1>3, <2>1, <2>3, <2>4, <2>5, Moves
<1> QED
  BY <1>4, <1>5

\* Moves, for a step that disconnects nobody
LEMMA Passes ==
  ASSUME Inv, Typed', Stack(stack'),
         states' = states, target' = target, active' = active, ended' = ended,
         running' = running, live' = live, latest' = latest, severed \subseteq severed',
         Carries(Frames(stack), Frames(stack'), {})
  PROVE  Inv'
<1>1. /\ live \union severed \subseteq live' \union severed'
      /\ \A d \in live' : IF d \in live THEN latest'[d] = latest[d] ELSE d \notin severed
      /\ {} \intersect live' = {} /\ live \ live' = {}
  OBVIOUS
<1> QED
  BY <1>1, Moves

\* A stack that does not change
LEMMA CarriesItself ==
  ASSUME NEW F PROVE Carries(F, F, {}) /\ Carries({}, {}, {})
  BY DEF Carries

\* input_failed disconnects one client, whoever is still connected.
LEMMA CloseOneKeeps == Inv /\ CloseOne => Inv'
<1> SUFFICES ASSUME Inv, CloseOne PROVE Inv'
  OBVIOUS
<1> DEFINE c    == Least(Top.todo)
           g    == [Top EXCEPT !.todo = @ \ {c}]
           rest == <<g>> \o Tail(stack)
<1>1. Typed /\ Stack(stack) /\ stack # <<>> /\ Top.call = "close" /\ Top.todo # {}
  BY DEF Inv, CloseOne, Idle
<1>2. /\ Top.todo \subseteq Views /\ Stack(rest)
      /\ Carries(Frames(stack), Frames(rest), {c})
  BY <1>1, SentTop
<1>3. /\ seq' = seq /\ outs' = outs /\ view' = view /\ running' = running
      /\ states' = states /\ target' = target /\ active' = active /\ ended' = ended
  BY DEF CloseOne
<1>4. CASE c \in live
  <2>1. Disconnect(c, rest) /\ severed' = severed \union {c}
    BY <1>4 DEF CloseOne
  <2>2. severed' \subseteq Views /\ severed \subseteq severed' /\ c \in severed'
    BY <1>1, <1>4, <2>1 DEF Typed
  <2> QED
    BY <1>2, <1>3, <1>4, <2>1, <2>2, Disconnects
<1>5. CASE c \notin live
  <2>1. stack' = rest /\ live' = live /\ latest' = latest /\ severed' = severed
    BY <1>5 DEF CloseOne
  <2>2. Typed'
    BY <1>1, <1>3, <2>1 DEF Typed
  <2>3. live \union severed \subseteq live' \union severed'
        /\ (\A d \in live' : IF d \in live THEN latest'[d] = latest[d] ELSE d \notin severed)
        /\ {c} \intersect live' = {} /\ live \ live' = {}
    BY <1>5, <2>1
  <2> HIDE DEF rest, c
  <2> QED
    BY <1>2, <1>3, <2>1, <2>2, <2>3, Moves
<1> QED
  BY <1>4, <1>5

\* drive's broadcast, which a client that is gone ends with a panic
LEMMA AnnounceOneKeeps == Inv /\ AnnounceOne => Inv'
<1> SUFFICES ASSUME Inv, AnnounceOne PROVE Inv'
  OBVIOUS
<1> DEFINE c    == Least(Top.todo)
           g    == [Top EXCEPT !.todo = @ \ {c}]
           rest == <<g>>
<1>1. Typed /\ Stack(stack) /\ stack # <<>> /\ Top.call = "announce"
  BY DEF Inv, AnnounceOne, Idle
<1>2. Tail(stack) = <<>> /\ Frames(stack) = {Top}
  BY <1>1, LoneTop DEF Nested
<1>3. /\ Stack(<<g>> \o Tail(stack))
      /\ Carries(Frames(stack), Frames(<<g>> \o Tail(stack)), {})
      /\ Carries(Frames(stack), Frames(<<g>> \o Tail(stack)), {c})
  BY <1>1, SentTop
<1>4. <<g>> \o Tail(stack) = rest
  <2> HIDE DEF g
  <2>1. <<g>> \o <<>> = <<g>>
    OBVIOUS
  <2> QED
    BY <1>2, <2>1
<1>5. /\ seq' = seq /\ outs' = outs /\ severed' = severed /\ view' = view
      /\ running' = running
      /\ states' = states /\ target' = target /\ active' = active /\ ended' = ended
  BY DEF AnnounceOne
<1>6. CASE c \notin live
  <2> DEFINE f == [call |-> "panic", todo |-> {}]
  <2>1. stack' = <<f>> /\ live' = live /\ latest' = latest
    BY <1>6 DEF AnnounceOne
  <2>2. f \in Frame /\ f.call = "panic"
    BY DEF Frame, LoopFrame
  <2> HIDE DEF f
  <2>3. Stack(stack') /\ Frames(stack') = {f}
    BY <2>1, <2>2, OneFrame
  <2>4. Carries(Frames(stack), Frames(stack'), {})
    BY <1>1, <1>2, <2>2, <2>3 DEF Carries, Closed
  <2>5. Typed'
    BY <1>1, <1>5, <2>1 DEF Typed
  <2> QED
    BY <1>5, <2>1, <2>3, <2>4, <2>5, Passes
<1>7. CASE c \in live \ severed
  <2>1. stack' = rest /\ live' = live /\ latest' = latest
    BY <1>7 DEF AnnounceOne
  <2>2. Typed'
    BY <1>1, <1>5, <2>1 DEF Typed
  <2> HIDE DEF rest, g
  <2> QED
    BY <1>3, <1>4, <1>5, <2>1, <2>2, Passes
<1>8. CASE c \in live /\ c \in severed
  <2>1. Disconnect(c, rest)
    BY <1>8 DEF AnnounceOne
  <2> HIDE DEF rest, g
  <2> QED
    BY <1>1, <1>3, <1>4, <1>5, <1>8, <2>1, Disconnects DEF Typed
<1> QED
  BY <1>6, <1>7, <1>8

\* A frame that returns has nothing left to do.
LEMMA ReturnKeeps == Inv /\ Return => Inv'
<1> SUFFICES ASSUME Inv, Return PROVE Inv'
  OBVIOUS
<1>1. Typed /\ Stack(stack) /\ stack # <<>>
  BY DEF Inv, Return, Idle
<1>2. /\ stack' = Tail(stack) /\ Top.todo = {}
      /\ Top.call \in {"drag", "leave", "announce", "close"}
      /\ seq' = seq /\ outs' = outs /\ live' = live /\ severed' = severed
      /\ running' = running /\ states' = states /\ target' = target
      /\ active' = active /\ latest' = latest /\ view' = view /\ ended' = ended
  BY DEF Return
<1>3. Stack(stack') /\ Frames(stack) = {Top} \union Frames(stack')
  BY <1>1, <1>2, PopStack DEF Top
<1>4. Carries(Frames(stack), Frames(stack'), {})
  BY <1>2, <1>3 DEF Carries, Closed
<1>5. Typed'
  BY <1>1, <1>2 DEF Typed
<1> QED
  BY <1>2, <1>3, <1>4, <1>5, Passes

\* A new client has no history: ids are never reused.
LEMMA AttachKeeps ==
  ASSUME Inv, NEW c \in Views, Attach(c) PROVE Inv'
<1>1. Typed /\ Stack(stack)
  BY DEF Inv
<1>2. /\ c \notin live \union severed /\ live' = live \union {c}
      /\ view' = [view EXCEPT ![c] = [seq |-> seq, shown |-> outs]]
      /\ seq' = seq /\ outs' = outs /\ severed' = severed
      /\ running' = running /\ states' = states /\ target' = target
      /\ active' = active /\ latest' = latest /\ stack' = stack /\ ended' = ended
  BY DEF Attach
<1>3. Typed'
  BY <1>1, <1>2 DEF Typed
<1>4. /\ live \union severed \subseteq live' \union severed'
      /\ (\A d \in live' : IF d \in live THEN latest'[d] = latest[d] ELSE d \notin severed)
      /\ {} \intersect live' = {} /\ live \ live' = {}
  BY <1>2
<1>5. Carries(Frames(stack), Frames(stack'), {})
  BY <1>2, CarriesItself
<1> QED
  BY <1>1, <1>2, <1>3, <1>4, <1>5, Moves

\* A checkpoint changes nothing but what the view shows.
LEMMA RefreshKeeps ==
  ASSUME Inv, NEW c \in Views, Refresh(c) PROVE Inv'
<1>1. Typed /\ Stack(stack)
  BY DEF Inv
<1>2. Typed'
  BY <1>1 DEF Typed, Refresh
<1>3. Carries(Frames(stack), Frames(stack'), {})
  BY CarriesItself DEF Refresh
<1> QED
  BY <1>1, <1>2, <1>3, Passes DEF Refresh

\* A severed client is still connected to the host.
LEMMA SeverKeeps ==
  ASSUME Inv, NEW c \in Views, Sever(c) PROVE Inv'
<1>1. Typed /\ Stack(stack)
  BY DEF Inv
<1>2. Typed'
  BY <1>1 DEF Typed, Sever
<1>3. Carries(Frames(stack), Frames(stack'), {})
  BY CarriesItself DEF Sever
<1> QED
  BY <1>1, <1>2, <1>3, Passes DEF Sever

\* A client's Disconnect event
LEMMA DisconnectEventKeeps ==
  ASSUME Inv, NEW c \in Views, DisconnectEvent(c) PROVE Inv'
<1>1. Typed /\ Stack(<<>>) /\ stack = <<>>
  BY EmptyStack DEF Inv, DisconnectEvent, Idle
<1>2. Carries(Frames(stack), Frames(<<>>), {c})
  BY <1>1, EmptyStack DEF Carries, Closed
<1>3. c \in live /\ c \in severed /\ Disconnect(c, <<>>)
      /\ seq' = seq /\ outs' = outs /\ severed' = severed /\ view' = view
      /\ running' = running
      /\ states' = states /\ target' = target /\ active' = active /\ ended' = ended
  BY DEF DisconnectEvent
<1> QED
  BY <1>1, <1>2, <1>3, Disconnects DEF Typed

\* The broadcast of drive starts.
LEMMA AnnounceKeeps == Inv /\ Announce => Inv'
<1> SUFFICES ASSUME Inv, Announce PROVE Inv'
  OBVIOUS
<1> DEFINE f == [call |-> "announce", todo |-> live]
<1>1. Typed /\ stack = <<>>
  BY DEF Inv, Announce, Ready, Idle
<1>2. f \in Frame /\ f.call = "announce"
  BY <1>1 DEF Frame, LoopFrame, Typed
<1>3. stack' = <<f>>
  BY DEF Announce
<1> HIDE DEF f
<1>4. Stack(stack') /\ Frames(stack') = {f} /\ Frames(stack) = {}
  BY <1>1, <1>2, <1>3, EmptyStack, OneFrame
<1>5. Carries(Frames(stack), Frames(stack'), {})
  BY <1>2, <1>4 DEF Carries, Closed
<1>6. Typed'
  BY <1>1 DEF Typed, Announce
<1> QED
  BY <1>4, <1>5, <1>6, Passes DEF Announce

\* A view releases one pane.
LEMMA ReleasePaneKeeps ==
  ASSUME Inv, NEW c \in Views, NEW p \in Panes, ReleasePane(c, p) PROVE Inv'
<1> DEFINE f == Leave(c, {p})
<1>1. Typed /\ stack = <<>>
  BY DEF Inv, ReleasePane, Ready, Idle
<1>2. f \in Frame /\ f.call = "leave" /\ f.freed = {}
  BY DEF Frame, LeaveFrame, Leave
<1>3. stack' = <<f>>
  BY DEF ReleasePane
<1> HIDE DEF f
<1>4. Stack(stack') /\ Frames(stack') = {f} /\ Frames(stack) = {}
  BY <1>1, <1>2, <1>3, EmptyStack, OneFrame
<1>5. Carries(Frames(stack), Frames(stack'), {})
  BY <1>2, <1>4 DEF Carries, Closed
<1>6. Typed'
  BY <1>1 DEF Typed, ReleasePane
<1> QED
  BY <1>4, <1>5, <1>6, Passes DEF ReleasePane

\* The end of an output: a binding is standing, or is ended here.
LEMMA OutputSentKeeps == Inv /\ OutputSent => Inv'
<1> SUFFICES ASSUME Inv, OutputSent PROVE Inv'
  OBVIOUS
<1> DEFINE p == Top.pane
<1>1. Typed /\ Stack(stack) /\ stack # <<>> /\ Top.call = "output"
  BY DEF Inv, OutputSent, Idle
<1>2. Tail(stack) = <<>> /\ Frames(stack) = {Top}
  BY <1>1, LoneTop DEF Nested
<1>3. Top \in OutputFrame
  BY <1>1, PopStack, FrameKinds DEF Top
<1>4. p \in Panes /\ target[p] \in Target /\ active \in [Panes -> Binding]
      /\ seq \in Nat /\ live \subseteq Views
  BY <1>1, <1>3 DEF OutputFrame, Typed
<1>5. PublishIfChanged(p, Top.before, target[p], active, <<>>)
      /\ outs' = outs /\ live' = live /\ severed' = severed /\ running' = running
      /\ states' = states /\ target' = target /\ latest' = latest /\ view' = view
  BY <1>2 DEF OutputSent
<1>6. /\ seq' \in Nat
      /\ active' \in [Panes -> Binding]
      /\ \A q \in Panes : q # p => active'[q] = active[q]
      /\ active'[p] # active[p] => active'[p] = NoOffer /\ ~Matches(target[p], active[p])
      /\ Revision(target[p]) # Top.before =>
           active'[p] = NoOffer \/ Matches(target[p], active'[p])
      /\ ended' = Retire(active, active')
      /\ Stack(stack')
      /\ \A f \in Frames(stack') : f.call = "drag"
  <2> HIDE DEF p
  <2>1. Stack(<<>>) /\ Frames(<<>>) = {}
    BY EmptyStack
  <2> DEFINE before == Top.before
             t      == target[p]
             rest   == <<>>
  <2>2. PublishIfChanged(p, before, t, active, rest)
    BY <1>5
  <2>3. Stack(rest) /\ t \in Target
    BY <1>4, <2>1
  <2> HIDE DEF before, t, rest
  <2>4. /\ seq' \in Nat
        /\ active' \in [Panes -> Binding]
        /\ \A q \in Panes : q # p => active'[q] = active[q]
        /\ active'[p] # active[p] => active'[p] = NoOffer /\ ~Matches(t, active[p])
        /\ Revision(t) # before => active'[p] = NoOffer \/ Matches(t, active'[p])
        /\ ended' = Retire(active, active')
        /\ Stack(stack')
        /\ \A f \in Frames(stack') : f \in Frames(rest) \/ f.call = "drag"
    BY <1>4, <2>2, <2>3, PublishEffect
  <2> QED
    BY <2>1, <2>4 DEF before, t, rest
<1>7. Typed'
  <2>1. ended' \subseteq Views \X Panes \X (1..MaxOffer)
    BY <1>1, <1>6 DEF Inv, HeldOK, Retire, Typed
  <2> QED
    BY <1>1, <1>5, <1>6, <2>1 DEF Typed
<1>8. ASSUME NEW q \in Panes
      PROVE  \/ active'[q] = active[q] /\ target'[q] = target[q]
             \/ /\ active'[q] = NoOffer
                /\ target'[q].on => target'[q].rev > 0
                /\ ~Hovered(target'[q])
  BY <1>5, <1>6 DEF Inv, TargetOK
<1>9. ASSUME NEW q \in Panes, active'[q] # NoOffer
      PROVE  LET c == active[q].client
             IN  /\ states'[c][q] # "none"
                 /\ c \in live'
                 /\ q \in running'
                 /\ Matches(target[q], active[q])
  <2>1. active'[q] = active[q] /\ active[q] # NoOffer
    BY <1>6, <1>9
  <2>2. LET c == active[q].client
        IN  states[c][q] # "none" /\ c \in live /\ q \in running
    BY <1>1, <1>2, <2>1 DEF Inv, HeldOK, Leaving, Closed
  <2>3. Matches(target[q], active[q])
    BY <1>2, <1>6, <1>9, <2>1 DEF Inv, TargetOK, Unpublished
  <2> QED
    BY <1>5, <2>2, <2>3
<1>10. FreedOK'
  BY <1>6 DEF FreedOK
<1>11. /\ live \union severed \subseteq live' \union severed'
       /\ (\A d \in live' : IF d \in live THEN latest'[d] = latest[d] ELSE d \notin severed)
  BY <1>5
<1> HIDE DEF p
<1> QED
  BY <1>6, <1>7, <1>8, <1>9, <1>10, <1>11, Eases

\* The two ways a leave frame proceeds
LEMMA LeftFrame ==
  ASSUME NEW t \in LeaveFrame, NEW p
  PROVE  /\ [t EXCEPT !.todo = @ \ {p}, !.freed = {p}] =
              [call |-> "leave", client |-> t.client, todo |-> t.todo \ {p}, freed |-> {p}]
         /\ [t EXCEPT !.freed = {}] =
              [call |-> "leave", client |-> t.client, todo |-> t.todo, freed |-> {}]
<1>1. PICK c \in Views, a \in SUBSET Panes, b \in SUBSET Panes :
        t = [call |-> "leave", client |-> c, todo |-> a, freed |-> b]
  BY DEF LeaveFrame
<1>2. [t EXCEPT !.freed = {}] =
        [call |-> "leave", client |-> c, todo |-> a, freed |-> {}]
  BY <1>1
<1> DEFINE u == [t EXCEPT !.todo = @ \ {p}]
<1>3. u = [call |-> "leave", client |-> c, todo |-> a \ {p}, freed |-> b]
  BY <1>1
<1>4. [t EXCEPT !.todo = @ \ {p}, !.freed = {p}] = [u EXCEPT !.freed = {p}]
  OBVIOUS
<1> HIDE DEF u
<1>5. [u EXCEPT !.freed = {p}] =
        [call |-> "leave", client |-> c, todo |-> a \ {p}, freed |-> {p}]
  BY <1>3
<1> QED
  BY <1>1, <1>2, <1>4, <1>5

\* A leave frame on top of the stack
LEMMA LeaveTop ==
  ASSUME Stack(stack), stack # <<>>, Top.call = "leave",
         NEW todo \in SUBSET Panes, NEW freed \in SUBSET Panes
  PROVE  LET g    == [call |-> "leave", client |-> Top.client, todo |-> todo, freed |-> freed]
             rest == <<g>> \o Tail(stack)
         IN  /\ Top.client \in Views /\ Top.todo \subseteq Panes /\ Top.freed \subseteq Panes
             /\ Top = [call |-> "leave", client |-> Top.client, todo |-> Top.todo,
                       freed |-> Top.freed]
             /\ g \in Frame
             /\ Stack(rest)
             /\ Frames(rest) = {g} \union Frames(Tail(stack))
             /\ Frames(stack) = {Top} \union Frames(Tail(stack))
<1> DEFINE t == Top
           g == [call |-> "leave", client |-> Top.client, todo |-> todo, freed |-> freed]
<1>1. t \in LeaveFrame
  BY PopStack, FrameKinds DEF Top
<1>2. /\ Top.client \in Views /\ Top.todo \subseteq Panes /\ Top.freed \subseteq Panes
      /\ Top = [call |-> "leave", client |-> Top.client, todo |-> Top.todo,
                freed |-> Top.freed]
  <2> HIDE DEF t
  <2>1. /\ t.client \in Views /\ t.todo \subseteq Panes /\ t.freed \subseteq Panes
        /\ t = [call |-> "leave", client |-> t.client, todo |-> t.todo,
                freed |-> t.freed]
    BY <1>1 DEF LeaveFrame
  <2> QED
    BY <2>1 DEF t
<1>3. g \in Frame /\ g.call = Top.call
  BY <1>2 DEF Frame, LeaveFrame
<1> HIDE DEF g
<1>4. /\ Stack(<<g>> \o Tail(stack))
      /\ Frames(<<g>> \o Tail(stack)) = {g} \union Frames(Tail(stack))
      /\ Frames(stack) = {Top} \union Frames(Tail(stack))
  BY <1>3, ReplaceTop
<1> QED
  BY <1>2, <1>3, <1>4 DEF g

\* The pane goes off the list of the leave frame as its drag is released.
LEMMA ReleaseViewStateKeeps == Inv /\ ReleaseViewState => Inv'
<1> SUFFICES ASSUME Inv, ReleaseViewState PROVE Inv'
  OBVIOUS
<1> DEFINE p    == Least(Top.todo)
           c    == Top.client
           g    == [call |-> "leave", client |-> c, todo |-> Top.todo \ {p}, freed |-> {p}]
           rest == <<g>> \o Tail(stack)
<1>1. Typed /\ Stack(stack) /\ stack # <<>> /\ Top.call = "leave" /\ Top.todo # {}
  BY DEF Inv, ReleaseViewState, Idle
<1>2. c \in Views /\ Top.todo \subseteq Panes
  BY <1>1, LeaveTop
<1>3. p \in Top.todo /\ p \in Panes
  <2>1. Top.todo \subseteq Nat
    BY <1>2, DragAssumption
  <2> QED
    BY <1>1, <1>2, <2>1, LeastIsIn
<1>4. /\ Top = [call |-> "leave", client |-> c, todo |-> Top.todo, freed |-> Top.freed]
      /\ Stack(rest)
      /\ Frames(rest) = {g} \union Frames(Tail(stack))
      /\ Frames(stack) = {Top} \union Frames(Tail(stack))
  <2> HIDE DEF p
  <2>1. Top.todo \ {p} \in SUBSET Panes /\ {p} \in SUBSET Panes
    BY <1>2, <1>3
  <2> QED
    BY <1>1, <2>1, LeaveTop
<1>5. [Top EXCEPT !.todo = @ \ {p}, !.freed = {p}] = g
  <2>1. Top \in LeaveFrame
    BY <1>1, PopStack, FrameKinds DEF Top
  <2> QED
    BY <2>1, LeftFrame
<1>6. /\ ReleaseDrag(c, p, rest)
      /\ outs' = outs /\ live' = live /\ severed' = severed /\ running' = running
      /\ states' = states /\ latest' = latest /\ view' = view
  BY <1>5 DEF ReleaseViewState
<1>7. /\ g.call = "leave" /\ g.client = c /\ g.todo = Top.todo \ {p} /\ g.freed = {p}
  OBVIOUS
<1> HIDE DEF g, rest, p, c
<1>8. /\ seq' \in Nat
      /\ active' \in [Panes -> Binding] /\ target' \in [Panes -> Target]
      /\ \A q \in Panes :
           \/ active'[q] = active[q] /\ target'[q] = target[q]
           \/ /\ active'[q] = NoOffer
              /\ target'[q].on => target'[q].rev > 0
              /\ ~Hovered(target'[q])
      /\ active'[p].client # c
      /\ ended' \subseteq Retire(active, active')
      /\ ended' \subseteq ended \union (Views \X Panes \X (1..MaxOffer))
      /\ Stack(stack')
      /\ Frames(rest) \subseteq Frames(stack')
      /\ \A f \in Frames(stack') : f \in Frames(rest) \/ f.call = "drag"
  BY <1>2, <1>3, <1>4, <1>6, ReleaseEffect
<1>9. Typed'
  BY <1>1, <1>6, <1>8 DEF Typed
<1>10. Frames(Tail(stack)) \subseteq Frames(stack') /\ g \in Frames(stack')
  BY <1>4, <1>8
<1>11. ASSUME NEW q \in Panes, active'[q] # NoOffer
       PROVE  LET d == active[q].client
              IN  /\ states'[d][q] # "none"
                  /\ d \in live' \/ Leaving(Frames(stack'), d, q)
                  /\ q \in running' \/ d \notin live' \/ Closed(Frames(stack'), d)
                  /\ \/ Matches(target[q], active[q])
                     \/ Unpublished(Frames(stack'), q, target[q])
  <2> DEFINE d == active[q].client
  <2>1. active'[q] = active[q] /\ active[q] # NoOffer
    BY <1>8, <1>11
  <2>2. /\ states[d][q] # "none"
        /\ d \in live \/ Leaving(Frames(stack), d, q)
        /\ q \in running \/ d \notin live \/ Closed(Frames(stack), d)
        /\ Matches(target[q], active[q]) \/ Unpublished(Frames(stack), q, target[q])
    BY <2>1 DEF Inv, HeldOK, TargetOK
  <2>3. q = p => d # c
    BY <1>8, <2>1
  <2> HIDE DEF d
  <2>4. Leaving(Frames(stack), d, q) => Leaving(Frames(stack'), d, q)
    BY <1>4, <1>7, <1>10, <2>3 DEF Leaving, c
  <2>5. Closed(Frames(stack), d) => Closed(Frames(stack'), d)
    BY <1>1, <1>4, <1>10 DEF Closed
  <2>6. Unpublished(Frames(stack), q, target[q]) => Unpublished(Frames(stack'), q, target[q])
    BY <1>1, <1>4, <1>10 DEF Unpublished
  <2> QED
    BY <1>6, <2>2, <2>4, <2>5, <2>6 DEF d
<1>12. FreedOK'
  <2> SUFFICES ASSUME NEW f \in Frames(stack'), f.call = "leave", NEW q \in f.freed
               PROVE  active'[q].client # f.client
    BY DEF FreedOK
  <2>1. CASE f = g
    BY <1>7, <1>8, <2>1
  <2>2. CASE f # g
    <3>1. f \in Frames(Tail(stack)) /\ f \in Frames(stack)
      BY <1>4, <1>8, <2>2
    <3>2. f \in Frame
      BY <1>1, <3>1 DEF Frames, Stack
    <3>3. q \in Panes /\ f.client \in Views
      BY <3>2, FrameKinds DEF LeaveFrame
    <3>4. active[q].client # f.client
      BY <3>1 DEF Inv, FreedOK
    <3>5. NoOffer.client # f.client
      BY <3>3, DragAssumption DEF NoOffer
    <3> QED
      BY <1>8, <3>3, <3>4, <3>5
  <2> QED
    BY <2>1, <2>2
<1>13. /\ live \union severed \subseteq live' \union severed'
       /\ (\A d \in live' : IF d \in live THEN latest'[d] = latest[d] ELSE d \notin severed)
  BY <1>6
<1> QED
  BY <1>8, <1>9, <1>11, <1>12, <1>13, Eases

\* The view state goes when the drag is gone; and if the process goes with it,
\* every client is put on the list of a close frame.
LEMMA ApplyViewStateKeeps == Inv /\ ApplyViewState => Inv'
<1> SUFFICES ASSUME Inv, ApplyViewState PROVE Inv'
  OBVIOUS
<1> DEFINE p    == Least(Top.freed)
           c    == Top.client
           g    == [call |-> "leave", client |-> c, todo |-> Top.todo, freed |-> {}]
           rest == <<g>> \o Tail(stack)
           k    == [call |-> "close", todo |-> live]
<1>1. Typed /\ Stack(stack) /\ stack # <<>> /\ Top.call = "leave" /\ Top.freed # {}
  BY DEF Inv, ApplyViewState, Idle
<1>2. c \in Views /\ Top.freed \subseteq Panes /\ Top.todo \in SUBSET Panes
  BY <1>1, LeaveTop
<1>3. p \in Top.freed /\ p \in Panes
  <2>1. Top.freed \subseteq Nat
    BY <1>2, DragAssumption
  <2> QED
    BY <1>1, <1>2, <2>1, LeastIsIn
<1>4. /\ Stack(rest)
      /\ Frames(rest) = {g} \union Frames(Tail(stack))
      /\ Frames(stack) = {Top} \union Frames(Tail(stack))
  <2>1. {} \in SUBSET Panes
    OBVIOUS
  <2> QED
    BY <1>1, <1>2, <2>1, LeaveTop
<1>5. [Top EXCEPT !.freed = {}] = g
  <2>1. Top \in LeaveFrame
    BY <1>1, PopStack, FrameKinds DEF Top
  <2> QED
    BY <2>1, LeftFrame
<1>6. /\ states' = [states EXCEPT ![c][p] = "none"]
      /\ \/ stack' = rest /\ running' = running
         \/ stack' = <<k>> \o rest /\ running' = running \ {p}
      /\ seq' = seq /\ outs' = outs /\ live' = live /\ severed' = severed
      /\ target' = target /\ active' = active /\ latest' = latest /\ view' = view
      /\ ended' = ended
  BY <1>5 DEF ApplyViewState, InputFailed
<1>7. g.call = "leave" /\ g.client = c /\ g.todo = Top.todo /\ g.freed = {}
  OBVIOUS
<1>8. k \in Frame /\ k.call = "close" /\ k.todo = live
  BY <1>1 DEF Frame, LoopFrame, Typed
<1>9. active[p].client # c
  <2>1. Top \in Frames(stack)
    BY <1>4
  <2> QED
    BY <1>1, <1>3, <2>1 DEF Inv, FreedOK
<1> HIDE DEF g, rest, p, c, k
<1>10. /\ Stack(stack')
       /\ {g} \union Frames(Tail(stack)) \subseteq Frames(stack')
       /\ Frames(stack') \subseteq {g, k} \union Frames(Tail(stack))
       /\ \A q \in Panes : q \in running => q \in running' \/ k \in Frames(stack')
  <2>1. CASE stack' = rest /\ running' = running
    BY <2>1, <1>4
  <2>2. CASE stack' = <<k>> \o rest /\ running' = running \ {p}
    <3>1. Stack(stack') /\ Frames(stack') = {k} \union Frames(rest)
      BY <1>4, <1>8, <2>2, PushStack DEF Nested
    <3> QED
      BY <1>4, <3>1
  <2> QED
    BY <1>6, <2>1, <2>2
<1>11. Typed'
  <2>1. states' \in [Views -> [Panes -> {"none", "hidden", "visible"}]]
    BY <1>1, <1>2, <1>3, <1>6 DEF Typed
  <2>2. running' \subseteq Panes
    BY <1>1, <1>6 DEF Typed
  <2> QED
    BY <1>1, <1>6, <2>1, <2>2 DEF Typed
<1>12. ASSUME NEW q \in Panes, active'[q] # NoOffer
       PROVE  LET d == active[q].client
              IN  /\ states'[d][q] # "none"
                  /\ d \in live' \/ Leaving(Frames(stack'), d, q)
                  /\ q \in running' \/ d \notin live' \/ Closed(Frames(stack'), d)
                  /\ \/ Matches(target[q], active[q])
                     \/ Unpublished(Frames(stack'), q, target[q])
  <2> DEFINE d == active[q].client
  <2>1. /\ states[d][q] # "none" /\ d \in Views
        /\ d \in live \/ Leaving(Frames(stack), d, q)
        /\ q \in running \/ d \notin live \/ Closed(Frames(stack), d)
        /\ Matches(target[q], active[q]) \/ Unpublished(Frames(stack), q, target[q])
    BY <1>6, <1>12 DEF Inv, HeldOK, TargetOK
  <2>2. ~(q = p /\ d = c)
    BY <1>9
  <2> HIDE DEF d
  <2>3. states'[d][q] # "none"
    BY <1>1, <1>2, <1>3, <1>6, <2>1, <2>2 DEF Typed
  <2>4. Leaving(Frames(stack), d, q) => Leaving(Frames(stack'), d, q)
    BY <1>4, <1>7, <1>10 DEF Leaving, c
  <2>5. Closed(Frames(stack), d) => Closed(Frames(stack'), d)
    BY <1>1, <1>4, <1>10 DEF Closed
  <2>6. Unpublished(Frames(stack), q, target[q]) => Unpublished(Frames(stack'), q, target[q])
    BY <1>1, <1>4, <1>10 DEF Unpublished
  <2>7. q \in running => q \in running' \/ d \notin live' \/ Closed(Frames(stack'), d)
    BY <1>6, <1>8, <1>10 DEF Closed
  <2> QED
    BY <1>6, <2>1, <2>3, <2>4, <2>5, <2>6, <2>7 DEF d
<1>13. FreedOK'
  <2> SUFFICES ASSUME NEW f \in Frames(stack'), f.call = "leave", NEW q \in f.freed
               PROVE  active'[q].client # f.client
    BY DEF FreedOK
  <2>1. f \in Frames(Tail(stack))
    BY <1>7, <1>8, <1>10
  <2> QED
    BY <1>4, <1>6, <2>1 DEF Inv, FreedOK
<1>14. /\ live \union severed \subseteq live' \union severed'
       /\ (\A d \in live' : IF d \in live THEN latest'[d] = latest[d] ELSE d \notin severed)
       /\ ended' \subseteq Retire(active, active')
       /\ \A q \in Panes : active'[q] = active[q] /\ target'[q] = target[q]
  BY <1>6 DEF Retire
<1> QED
  BY <1>10, <1>11, <1>12, <1>13, <1>14, Eases

-----------------------------------------------------------------------------
\* The invariant of an idle owner, whose stack is not going to end anything
LEMMA IdleFacts ==
  ASSUME Inv, stack = <<>>
  PROVE  /\ Typed /\ Stack(<<>>) /\ Frames(<<>>) = {}
         /\ \A q \in Panes : active[q] # NoOffer =>
              LET c == active[q].client
              IN  /\ c \in live /\ states[c][q] # "none" /\ q \in running
                  /\ Matches(target[q], active[q])
<1>1. Typed /\ HeldOK /\ TargetOK
  BY DEF Inv
<1>2. Stack(<<>>) /\ Frames(<<>>) = {}
  BY EmptyStack
<1>3. ASSUME NEW q \in Panes, active[q] # NoOffer
      PROVE  LET c == active[q].client
             IN  /\ c \in live /\ states[c][q] # "none" /\ q \in running
                 /\ Matches(target[q], active[q])
  BY <1>1, <1>2, <1>3 DEF HeldOK, TargetOK, Leaving, Closed, Unpublished
<1> QED
  BY <1>1, <1>2, <1>3

\* A handler that releases the drag of one client over one pane
LEMMA HandlerReleases ==
  ASSUME Inv, stack = <<>>, NEW c \in Views, NEW p \in Panes,
         ReleaseDrag(c, p, <<>>),
         outs' = outs, live' = live, severed' = severed, latest' = latest, view' = view,
         states' \in [Views -> [Panes -> {"none", "hidden", "visible"}]],
         running' \subseteq running,
         \A d \in Views, q \in Panes : states[d][q] # "none" => states'[d][q] # "none",
         \A q \in running \ running' : q = p /\ active[p].client \in {0, c}
  PROVE  Inv'
<1>1. /\ Typed /\ Stack(<<>>) /\ Frames(<<>>) = {}
      /\ \A q \in Panes : active[q] # NoOffer =>
           LET d == active[q].client
           IN  /\ d \in live /\ states[d][q] # "none" /\ q \in running
               /\ Matches(target[q], active[q])
  BY IdleFacts
<1>2. /\ seq' \in Nat
      /\ active' \in [Panes -> Binding] /\ target' \in [Panes -> Target]
      /\ \A q \in Panes :
           \/ active'[q] = active[q] /\ target'[q] = target[q]
           \/ /\ active'[q] = NoOffer
              /\ target'[q].on => target'[q].rev > 0
              /\ ~Hovered(target'[q])
      /\ active'[p].client # c
      /\ ended' \subseteq Retire(active, active')
      /\ ended' \subseteq ended \union (Views \X Panes \X (1..MaxOffer))
      /\ Stack(stack')
      /\ \A f \in Frames(stack') : f.call = "drag"
  <2> DEFINE rest == <<>>
  <2>1. Stack(rest) /\ ReleaseDrag(c, p, rest)
    BY <1>1
  <2> HIDE DEF rest
  <2>2. /\ seq' \in Nat
        /\ active' \in [Panes -> Binding] /\ target' \in [Panes -> Target]
        /\ \A q \in Panes :
             \/ active'[q] = active[q] /\ target'[q] = target[q]
             \/ /\ active'[q] = NoOffer
                /\ target'[q].on => target'[q].rev > 0
                /\ ~Hovered(target'[q])
        /\ active'[p].client # c
        /\ ended' \subseteq Retire(active, active')
        /\ ended' \subseteq ended \union (Views \X Panes \X (1..MaxOffer))
        /\ Stack(stack')
        /\ \A f \in Frames(stack') : f \in Frames(rest) \/ f.call = "drag"
    BY <2>1, ReleaseEffect
  <2> QED
    BY <1>1, <2>2 DEF rest
<1>3. Typed'
  BY <1>1, <1>2 DEF Typed
<1>4. ASSUME NEW q \in Panes, active'[q] # NoOffer
      PROVE  LET d == active[q].client
             IN  /\ states'[d][q] # "none"
                 /\ d \in live'
                 /\ q \in running'
                 /\ Matches(target[q], active[q])
  <2>1. active'[q] = active[q] /\ active[q] # NoOffer
    BY <1>2, <1>4
  <2>2. active[q].client # 0 /\ active[q].client \in Views
    BY <1>1, <2>1, DragAssumption DEF Typed
  <2> QED
    BY <1>1, <1>2, <2>1, <2>2
<1>5. FreedOK'
  BY <1>2 DEF FreedOK
<1>6. /\ live \union severed \subseteq live' \union severed'
      /\ (\A d \in live' : IF d \in live THEN latest'[d] = latest[d] ELSE d \notin severed)
  OBVIOUS
<1> QED
  BY <1>2, <1>3, <1>4, <1>5, <1>6, Eases

\* A view state that hides a pane releases the drag before anybody looks.
LEMMA ViewStateKeeps ==
  ASSUME Inv, NEW c \in Views, NEW p \in Panes, NEW visible \in BOOLEAN,
         ViewState(c, p, visible)
  PROVE  Inv'
<1>1. stack = <<>> /\ Typed
  BY DEF ViewState, Ready, Idle, Inv
<1>2. /\ states' \in [Views -> [Panes -> {"none", "hidden", "visible"}]]
      /\ \A d \in Views, q \in Panes : states[d][q] # "none" => states'[d][q] # "none"
      /\ outs' = outs /\ live' = live /\ severed' = severed /\ running' = running
      /\ latest' = latest /\ view' = view
  BY <1>1 DEF ViewState, Typed
<1>3. CASE ReleaseDrag(c, p, <<>>)
  BY <1>1, <1>2, <1>3, HandlerReleases
<1>4. CASE UNCHANGED <<seq, target, active, stack, ended>>
  <2>1. /\ Stack(<<>>) /\ Frames(<<>>) = {}
        /\ \A q \in Panes : active[q] # NoOffer =>
             LET d == active[q].client
             IN  /\ d \in live /\ states[d][q] # "none" /\ q \in running
                 /\ Matches(target[q], active[q])
    BY <1>1, IdleFacts
  <2>2. Typed'
    BY <1>1, <1>2, <1>4 DEF Typed
  <2>3. ASSUME NEW q \in Panes, active'[q] # NoOffer
        PROVE  LET d == active[q].client
               IN  /\ states'[d][q] # "none"
                   /\ d \in live'
                   /\ q \in running'
                   /\ Matches(target[q], active[q])
    BY <1>1, <1>2, <1>4, <2>1, <2>3 DEF Typed
  <2>4. FreedOK' /\ Stack(stack')
    BY <1>1, <1>4, <2>1 DEF FreedOK
  <2>5. /\ live \union severed \subseteq live' \union severed'
        /\ (\A d \in live' : IF d \in live THEN latest'[d] = latest[d] ELSE d \notin severed)
        /\ ended' \subseteq Retire(active, active')
        /\ \A q \in Panes : active'[q] = active[q] /\ target'[q] = target[q]
    BY <1>2, <1>4 DEF Retire
  <2> QED
    BY <2>2, <2>3, <2>4, <2>5, Eases
<1> QED
  BY <1>3, <1>4 DEF ViewState

\* A pane's process ends: its drag, if any, is released in the same handler.
LEMMA PaneEndsKeeps ==
  ASSUME Inv, NEW p \in Panes, PaneEnds(p) PROVE Inv'
<1>1. stack = <<>> /\ Typed
  BY DEF PaneEnds, Ready, Idle, Inv
<1>2. /\ running' = running \ {p} /\ states' = states
      /\ outs' = outs /\ live' = live /\ severed' = severed
      /\ latest' = latest /\ view' = view
  BY DEF PaneEnds
<1>3. CASE active[p] # NoOffer
  <2>1. active[p].client \in Views /\ ReleaseDrag(active[p].client, p, <<>>)
    BY <1>3 DEF PaneEnds, Inv, HeldOK
  <2> DEFINE c == active[p].client
  <2> HIDE DEF c
  <2>2. c \in Views /\ ReleaseDrag(c, p, <<>>) /\ c = active[p].client
    BY <2>1 DEF c
  <2>3. states' \in [Views -> [Panes -> {"none", "hidden", "visible"}]]
    BY <1>1, <1>2 DEF Typed
  <2>4. /\ running' \subseteq running
        /\ \A d \in Views, q \in Panes : states[d][q] # "none" => states'[d][q] # "none"
        /\ \A q \in running \ running' : q = p /\ active[p].client \in {0, c}
    BY <1>2, <2>2
  <2> QED
    BY <1>1, <1>2, <2>2, <2>3, <2>4, HandlerReleases
<1>4. CASE active[p] = NoOffer
  <2>1. /\ Stack(<<>>) /\ Frames(<<>>) = {}
        /\ \A q \in Panes : active[q] # NoOffer =>
             LET d == active[q].client
             IN  /\ d \in live /\ states[d][q] # "none" /\ q \in running
                 /\ Matches(target[q], active[q])
    BY <1>1, IdleFacts
  <2>2. UNCHANGED <<seq, target, active, stack, ended>>
    BY <1>4 DEF PaneEnds
  <2>3. Typed'
    BY <1>1, <1>2, <2>2 DEF Typed
  <2>4. ASSUME NEW q \in Panes, active'[q] # NoOffer
        PROVE  LET d == active[q].client
               IN  /\ states'[d][q] # "none"
                   /\ d \in live'
                   /\ q \in running'
                   /\ Matches(target[q], active[q])
    BY <1>2, <1>4, <2>1, <2>2, <2>4
  <2>5. FreedOK' /\ Stack(stack')
    BY <1>1, <2>1, <2>2 DEF FreedOK
  <2>6. /\ live \union severed \subseteq live' \union severed'
        /\ (\A d \in live' : IF d \in live THEN latest'[d] = latest[d] ELSE d \notin severed)
        /\ ended' \subseteq Retire(active, active')
        /\ \A q \in Panes : active'[q] = active[q] /\ target'[q] = target[q]
    BY <1>2, <2>2 DEF Retire
  <2> QED
    BY <2>3, <2>4, <2>5, <2>6, Eases
<1> QED
  BY <1>3, <1>4

\* An output, whether or not the reply to the application fails: the frame of
\* the output remembers the revision that the binding was made for.
LEMMA Outputs ==
  ASSUME Inv, stack = <<>>, NEW p \in Panes, NEW t \in Fed(target[p]),
         target' = [target EXCEPT ![p] = t],
         seq' = seq + 1, outs' = outs + 1,
         live' = live, severed' = severed, states' = states, active' = active,
         latest' = latest, view' = view, ended' = ended,
         running' \subseteq running, Stack(stack'),
         \E f \in Frames(stack') : /\ f.call = "output" /\ f.pane = p
                                   /\ f.before = Revision(target[p]),
         \A f \in Frames(stack') : f.call # "leave",
         running' = running \/ \A c \in live : Closed(Frames(stack'), c)
  PROVE  Inv'
<1>1. /\ Typed
      /\ \A q \in Panes : active[q] # NoOffer =>
           LET d == active[q].client
           IN  /\ d \in live /\ states[d][q] # "none" /\ q \in running
               /\ Matches(target[q], active[q])
  BY IdleFacts
<1>2. target[p] \in Target /\ (target[p].on => target[p].rev > 0)
  BY <1>1 DEF Typed, Inv, TargetOK
<1>3. /\ t \in Target
      /\ t.on => t.rev > 0
      /\ t = target[p] \/ Revision(t) # Revision(target[p]) \/ (~target[p].on /\ ~t.on)
      /\ Hovered(t) => Hovered(target[p]) /\ t.reg = target[p].reg /\ t.offer = target[p].offer
  BY <1>2, FedTarget
<1>4. target'[p] = t /\ \A q \in Panes : q # p => target'[q] = target[q]
  BY <1>1 DEF Typed
<1>5. Typed'
  <2>1. target' \in [Panes -> Target]
    BY <1>1, <1>3 DEF Typed
  <2> QED
    BY <1>1, <2>1 DEF Typed
<1>6. HeldOK'
  BY <1>1 DEF HeldOK, Inv
<1>7. FreedOK'
  BY DEF FreedOK
<1>8. TargetOK'
  <2> SUFFICES ASSUME NEW q \in Panes
               PROVE  /\ target'[q].on => target'[q].rev > 0
                      /\ active[q] # NoOffer =>
                           \/ Matches(target'[q], active[q])
                           \/ Unpublished(Frames(stack'), q, target'[q])
                      /\ Hovered(target'[q]) =>
                           active[q] # NoOffer /\ Matches(target'[q], active[q])
    BY DEF TargetOK
  <2>1. CASE q # p
    BY <1>1, <1>4, <2>1 DEF Inv, TargetOK
  <2>2. CASE q = p
    <3>1. active[p] # NoOffer => Matches(t, active[p]) \/ Unpublished(Frames(stack'), p, t)
      BY <1>1, <1>3 DEF Unpublished, Matches
    <3>2. Hovered(t) => active[p] # NoOffer /\ Matches(t, active[p])
      BY <1>3 DEF Inv, TargetOK, Matches, Hovered
    <3> QED
      BY <1>3, <1>4, <2>2, <3>1, <3>2
  <2> QED
    BY <2>1, <2>2
<1>9. EndedOK'
  BY DEF Inv, EndedOK
<1> QED
  BY <1>5, <1>6, <1>7, <1>8, <1>9 DEF Inv

\* The frame of an output
LEMMA OutputFrameOf ==
  ASSUME Typed, NEW p \in Panes, NEW todo \in SUBSET Views
  PROVE  LET f == [call |-> "output", seq |-> seq + 1, todo |-> todo, pane |-> p,
                   before |-> Revision(target[p])]
         IN  f \in Frame
<1>1. Revision(target[p]) \in Nat
  BY DEF Typed, Target, Revision
<1> QED
  BY <1>1 DEF Typed, Frame, OutputFrame

\* An output to broadcast
LEMMA PaneOutputKeeps ==
  ASSUME Inv, NEW p \in Panes, PaneOutput(p) PROVE Inv'
<1> DEFINE f == [call |-> "output", seq |-> seq + 1, todo |-> live, pane |-> p,
                 before |-> Revision(target[p])]
<1>1. Typed /\ stack = <<>>
  BY DEF Inv, PaneOutput, Ready, Idle
<1>2. f \in Frame /\ f.call = "output" /\ f.pane = p /\ f.before = Revision(target[p])
  BY <1>1, OutputFrameOf DEF Typed
<1>3. PICK t \in Fed(target[p]) : target' = [target EXCEPT ![p] = t]
  BY DEF PaneOutput
<1>4. stack' = <<f>> /\ seq' = seq + 1 /\ outs' = outs + 1
      /\ live' = live /\ severed' = severed /\ running' = running /\ states' = states
      /\ active' = active /\ latest' = latest /\ view' = view /\ ended' = ended
  BY DEF PaneOutput
<1> HIDE DEF f
<1>5. Stack(stack') /\ Frames(stack') = {f}
  BY <1>2, <1>4, OneFrame
<1> QED
  BY <1>1, <1>2, <1>3, <1>4, <1>5, Outputs

\* An output whose reply fails: every client is about to be disconnected.
LEMMA PaneOutputFailsKeeps ==
  ASSUME Inv, NEW p \in Panes, PaneOutputFails(p) PROVE Inv'
<1> DEFINE f == [call |-> "output", seq |-> seq + 1, todo |-> {}, pane |-> p,
                 before |-> Revision(target[p])]
           k == [call |-> "close", todo |-> live]
<1>1. Typed /\ stack = <<>>
  BY DEF Inv, PaneOutputFails, Ready, Idle
<1>2. f \in Frame /\ f.call = "output" /\ f.pane = p /\ f.before = Revision(target[p])
  BY <1>1, OutputFrameOf
<1>3. k \in Frame /\ k.call = "close" /\ k.todo = live
  BY <1>1 DEF Frame, LoopFrame, Typed
<1>4. PICK t \in Fed(target[p]) : target' = [target EXCEPT ![p] = t]
  BY DEF PaneOutputFails
<1>5. stack' = <<k>> \o <<f>> /\ seq' = seq + 1 /\ outs' = outs + 1
      /\ live' = live /\ severed' = severed /\ running' = running \ {p}
      /\ states' = states /\ active' = active /\ latest' = latest /\ view' = view
      /\ ended' = ended
  BY DEF PaneOutputFails, InputFailed
<1> HIDE DEF f, k
<1>6. Stack(<<f>>) /\ Frames(<<f>>) = {f}
  BY <1>2, OneFrame
<1>7. Stack(stack') /\ Frames(stack') = {k, f}
  <2> DEFINE s == <<f>>
  <2>1. Stack(s) /\ stack' = <<k>> \o s /\ k.call \in Nested
    BY <1>3, <1>5, <1>6 DEF Nested
  <2> HIDE DEF s
  <2>2. Stack(stack') /\ Frames(stack') = {k} \union Frames(s)
    BY <1>3, <2>1, PushStack
  <2> QED
    BY <1>6, <2>2 DEF s
<1>8. \A c \in live : Closed(Frames(stack'), c)
  BY <1>3, <1>7 DEF Closed
<1> QED
  BY <1>1, <1>2, <1>3, <1>4, <1>5, <1>7, <1>8, Outputs

-----------------------------------------------------------------------------
\* An accepted request: the new offer is above every ended one of the view and
\* pane, or it is the one the view already holds.
LEMMA Commits ==
  ASSUME Inv, NEW c \in Views, NEW p \in Panes, NEW reg \in Nat,
         NEW offer \in 1 .. MaxOffer, NEW moves \in BOOLEAN,
         MayDrag(c, p, reg, offer, moves),
         NEW t \in Target, CommitDrag(c, p, reg, offer, t),
         t.on => t.rev > 0,
         Hovered(t) => Matches(t, [client |-> c, reg |-> reg, offer |-> offer]),
         \/ Revision(t) # Revision(target[p])
         \/ t = target[p] /\ active[p] = [client |-> c, reg |-> reg, offer |-> offer]
  PROVE  Inv'
<1> DEFINE n == [client |-> c, reg |-> reg, offer |-> offer]
           b == [active EXCEPT ![p] = n]
<1>1. /\ Typed /\ Stack(<<>>) /\ Frames(<<>>) = {} /\ stack = <<>>
      /\ \A q \in Panes : active[q] # NoOffer =>
           LET d == active[q].client
           IN  /\ d \in live /\ states[d][q] # "none" /\ q \in running
               /\ Matches(target[q], active[q])
  BY IdleFacts DEF MayDrag, Ready, Idle
<1>2. /\ c \in live /\ states[c][p] = "visible" /\ p \in running
      /\ \/ active[p] = n
         \/ (active[p] = NoOffer \/ active[p].client = c) /\ offer > latest[c][p]
  BY DEF MayDrag
<1>3. n \in Binding /\ n.client = c /\ n.offer = offer /\ n # NoOffer
  BY DragAssumption DEF Binding, NoOffer
<1>4. /\ target' = [target EXCEPT ![p] = t]
      /\ latest' = [latest EXCEPT ![c][p] = offer]
      /\ PublishIfChanged(p, Revision(target[p]), t, b, <<>>)
      /\ outs' = outs /\ live' = live /\ severed' = severed /\ running' = running
      /\ states' = states /\ view' = view
  BY DEF CommitDrag
<1>5. b \in [Panes -> Binding] /\ b[p] = n /\ \A q \in Panes : q # p => b[q] = active[q]
  BY <1>1, <1>3 DEF Typed
<1>6. Matches(t, n) \/ ~Hovered(t)
  OBVIOUS
<1>7. t = target[p] => Matches(t, n) \/ Revision(t) # Revision(target[p])
  BY <1>1, <1>3
<1> HIDE DEF n, b
<1>8. /\ seq' \in Nat
      /\ active' \in [Panes -> Binding]
      /\ \A q \in Panes : q # p => active'[q] = active[q]
      /\ active'[p] # n => active'[p] = NoOffer /\ ~Matches(t, n)
      /\ Revision(t) # Revision(target[p]) => active'[p] = NoOffer \/ Matches(t, active'[p])
      /\ ended' = Retire(active, active')
      /\ Stack(stack')
      /\ \A f \in Frames(stack') : f.call = "drag"
  <2> DEFINE rest == <<>>
             before == Revision(target[p])
  <2>1. Stack(rest) /\ PublishIfChanged(p, before, t, b, rest) /\ seq \in Nat /\ live \subseteq Views
    BY <1>1, <1>4 DEF Typed
  <2> HIDE DEF rest, before
  <2>2. /\ seq' \in Nat
        /\ active' \in [Panes -> Binding]
        /\ \A q \in Panes : q # p => active'[q] = b[q]
        /\ active'[p] # b[p] => active'[p] = NoOffer /\ ~Matches(t, b[p])
        /\ Revision(t) # before => active'[p] = NoOffer \/ Matches(t, active'[p])
        /\ ended' = Retire(active, active')
        /\ Stack(stack')
        /\ \A f \in Frames(stack') : f \in Frames(rest) \/ f.call = "drag"
    BY <1>5, <2>1, PublishEffect
  <2> QED
    BY <1>1, <1>5, <2>2 DEF rest, before
<1>9. target' \in [Panes -> Target] /\ target'[p] = t
      /\ \A q \in Panes : q # p => target'[q] = target[q]
  BY <1>1, <1>4 DEF Typed
<1>10. /\ latest' \in [Views -> [Panes -> 0..MaxOffer]] /\ latest'[c][p] = offer
       /\ \A d \in Views, q \in Panes : d # c \/ q # p => latest'[d][q] = latest[d][q]
  BY <1>1, <1>4 DEF Typed
<1>11. \A e \in ended' :
         \/ e \in ended
         \/ \E q \in Panes : /\ active[q] # NoOffer /\ active'[q] # active[q]
                             /\ \/ active'[q].client # active[q].client
                                \/ active'[q].offer # active[q].offer
                             /\ e = <<active[q].client, q, active[q].offer>>
  BY <1>8 DEF Retire
<1>12. Typed'
  <2>1. ended \subseteq Views \X Panes \X (1..MaxOffer)
    BY <1>1 DEF Typed
  <2>2. \A q \in Panes : active[q] # NoOffer =>
          active[q].client \in Views /\ active[q].offer \in 1..MaxOffer
    BY DEF Inv, HeldOK
  <2>3. ended' \subseteq Views \X Panes \X (1..MaxOffer)
    BY <1>11, <2>1, <2>2
  <2> QED
    BY <1>1, <1>4, <1>8, <1>9, <1>10, <2>3 DEF Typed
<1>13. HeldOK'
  <2> SUFFICES ASSUME NEW q \in Panes, active'[q] # NoOffer
               PROVE  LET d == active'[q].client
                      IN  /\ d \in Views /\ active'[q].offer \in 1 .. MaxOffer
                          /\ states'[d][q] # "none" /\ d \in live' /\ q \in running'
    BY DEF HeldOK
  <2>1. CASE q = p
    BY <1>2, <1>3, <1>4, <1>8, <2>1
  <2>2. CASE q # p
    BY <1>1, <1>4, <1>8, <2>2 DEF Inv, HeldOK
  <2> QED
    BY <2>1, <2>2
<1>14. FreedOK'
  BY <1>8 DEF FreedOK
<1>15. TargetOK'
  <2> SUFFICES ASSUME NEW q \in Panes
               PROVE  /\ target'[q].on => target'[q].rev > 0
                      /\ active'[q] # NoOffer => Matches(target'[q], active'[q])
                      /\ Hovered(target'[q]) =>
                           active'[q] # NoOffer /\ Matches(target'[q], active'[q])
    BY DEF TargetOK
  <2>1. CASE q = p
    <3>1. active'[p] # NoOffer => Matches(t, active'[p])
      BY <1>7, <1>8
    <3>2. Hovered(t) => active'[p] # NoOffer
      BY <1>3, <1>6, <1>8
    <3> QED
      BY <1>9, <2>1, <3>1, <3>2
  <2>2. CASE q # p
    BY <1>1, <1>8, <1>9, <2>2 DEF Inv, TargetOK
  <2> QED
    BY <2>1, <2>2
<1>16. EndedOK'
  <2>1. EndedOK /\ \A d \in Views, q \in Panes : latest[d][q] \in Nat
    BY <1>1, DragAssumption DEF Inv, Typed
  <2>2. latest[c][p] <= offer
    <3>1. offer \in Nat /\ latest[c][p] \in Nat
      BY <2>1, DragAssumption
    <3>2. CASE active[p] = n
      <4>1. offer = latest[c][p]
        BY <1>2, <1>3, <2>1, <3>2 DEF EndedOK
      <4> QED
        BY <3>1, <4>1
    <3>3. CASE offer > latest[c][p]
      BY <3>1, <3>3
    <3> QED
      BY <1>2, <3>2, <3>3
  <2>3. \A n1, n2, n3 \in Nat : (n1 <= n2 /\ n2 <= n3 => n1 <= n3) /\ n1 <= n1
    OBVIOUS
  <2>4. \A e \in ended : /\ e \in Views \X Panes \X (1..MaxOffer) /\ e[3] \in Nat
    BY <1>1, DragAssumption DEF Typed
  <2>5. ASSUME NEW e \in ended'
        PROVE  /\ e[1] \in live' \union severed'
               /\ e[1] \in live' => e[3] <= latest'[e[1]][e[2]]
    <3>1. CASE e \in ended
      <4>1. e[1] \in live \union severed /\ (e[1] \in live => e[3] <= latest[e[1]][e[2]])
        BY <2>1, <3>1 DEF EndedOK
      <4>2. CASE e[1] = c /\ e[2] = p
        BY <1>2, <1>4, <1>10, <2>1, <2>2, <2>3, <2>4, <3>1, <4>1, <4>2, DragAssumption
      <4>3. CASE e[1] # c \/ e[2] # p
        BY <1>4, <1>10, <2>4, <3>1, <4>1, <4>3
      <4> QED
        BY <4>2, <4>3
    <3>2. CASE e \notin ended
      <4>1. PICK q \in Panes : /\ active[q] # NoOffer /\ active'[q] # active[q]
                               /\ e = <<active[q].client, q, active[q].offer>>
        BY <1>11, <3>2
      <4>2. q = p /\ active[p].client = c
        BY <1>2, <1>3, <1>8, <4>1
      <4>3. active[p].offer = latest[c][p]
        BY <1>2, <2>1, <4>1, <4>2 DEF EndedOK
      <4> QED
        BY <1>2, <1>4, <1>10, <2>2, <4>1, <4>2, <4>3
    <3> QED
      BY <3>1, <3>2
  <2>6. ASSUME NEW q \in Panes, active'[q] # NoOffer
        PROVE  LET d == active'[q].client
               IN  /\ d \in live' \union severed'
                   /\ d \in live' => active'[q].offer = latest'[d][q]
                   /\ <<d, q, active'[q].offer>> \notin ended'
    <3>1. CASE q # p
      <4>1. active'[q] = active[q] /\ active[q].client \in Views
        BY <1>1, <1>8, <2>6, <3>1 DEF Typed
      <4>2. <<active[q].client, q, active[q].offer>> \notin ended'
        BY <1>11, <2>1, <2>6, <3>1, <4>1 DEF EndedOK
      <4> QED
        BY <1>4, <1>10, <2>1, <2>6, <3>1, <4>1, <4>2 DEF EndedOK
    <3>2. CASE q = p
      <4>1. active'[p] = n
        BY <1>8, <2>6, <3>2
      <4>2. <<c, p, offer>> \notin ended
        <5>1. CASE active[p] = n
          BY <1>3, <2>1, <5>1 DEF EndedOK
        <5>2. CASE offer > latest[c][p]
          <6>1. \A x, y \in Nat : x > y => ~(x <= y)
            OBVIOUS
          <6>2. offer \in Nat
            BY DragAssumption
          <6>3. <<c, p, offer>> \in ended => offer <= latest[c][p]
            BY <1>2, <2>1 DEF EndedOK
          <6> QED
            BY <2>1, <5>2, <6>1, <6>2, <6>3
        <5> QED
          BY <1>2, <5>1, <5>2
      <4>3. <<c, p, offer>> \notin ended'
        BY <1>3, <1>11, <4>1, <4>2
      <4> QED
        BY <1>2, <1>3, <1>4, <1>10, <3>2, <4>1, <4>3
    <3> QED
      BY <3>1, <3>2
  <2> QED
    BY <2>5, <2>6 DEF EndedOK
<1> QED
  BY <1>8, <1>12, <1>13, <1>14, <1>15, <1>16 DEF Inv

\* The three requests leave the target hovered by the offer they bind, or not
\* hovered.
LEMMA DragsKeep ==
  ASSUME Inv, NEW c \in Views, NEW p \in Panes, Drags(c, p) PROVE Inv'
<1>1. PICK reg \in 1 .. target[p].reg, offer \in 1 .. MaxOffer :
        DragMove(c, p, reg, offer) \/ DragDrop(c, p, reg, offer) \/ DragLeave(c, p, reg, offer)
  BY DEF Drags
<1> DEFINE t == target[p]
           n == [client |-> c, reg |-> reg, offer |-> offer]
<1>2. t \in Target /\ (t.on => t.rev > 0)
  BY DEF Inv, Typed, TargetOK
<1>3. reg \in Nat /\ offer \in Nat /\ offer # 0
  BY <1>2, DragAssumption DEF Target
<1>4. \A moves \in BOOLEAN : MayDrag(c, p, reg, offer, moves) =>
        /\ t.on /\ t.reg = reg
        /\ ~moves => active[p] = n
  BY DEF MayDrag
<1>5. n.reg = reg /\ n.offer = offer
  OBVIOUS
<1> HIDE DEF t, n
<1>6. ASSUME DragMove(c, p, reg, offer) PROVE Inv'
  <2> DEFINE r == ResetDrop(t)
             u == [r EXCEPT !.offer = offer]
  <2>1. MayDrag(c, p, reg, offer, TRUE) /\ CommitDrag(c, p, reg, offer, u)
    BY <1>6 DEF DragMove, t
  <2>2. r \in Target /\ r.on = t.on /\ r.reg = t.reg /\ r.rev = t.rev + 1
    BY <1>2, ResetTarget
  <2> HIDE DEF r
  <2>3. u \in Target /\ u.on = t.on /\ u.reg = t.reg /\ u.rev = t.rev + 1 /\ u.offer = offer
    BY <1>3, <2>2 DEF Target
  <2>4. t.on /\ t.reg = reg
    BY <1>4, <2>1
  <2> HIDE DEF u
  <2>5. Matches(u, n) /\ Revision(u) # Revision(t)
    BY <1>2, <1>5, <2>3, <2>4 DEF Matches, Revision, Target
  <2>6. u.on => u.rev > 0
    BY <1>2, <2>3 DEF Target
  <2> QED
    BY <1>3, <2>1, <2>3, <2>5, <2>6, Commits DEF t, n
<1>7. ASSUME DragDrop(c, p, reg, offer) PROVE Inv'
  <2> DEFINE r == [t EXCEPT !.rev = @ + 1]
             u == [r EXCEPT !.dropped = TRUE]
  <2>1. MayDrag(c, p, reg, offer, FALSE) /\ CommitDrag(c, p, reg, offer, u)
    BY <1>7 DEF DragDrop, t
  <2>2. r \in Target /\ r.on = t.on /\ r.rev = t.rev + 1
    BY <1>2, Advanced
  <2> HIDE DEF r
  <2>3. u \in Target /\ u.on = t.on /\ u.rev = t.rev + 1 /\ u.dropped
    BY <2>2 DEF Target
  <2>4. t.on
    BY <1>4, <2>1
  <2> HIDE DEF u
  <2>5. ~Hovered(u) /\ Revision(u) # Revision(t)
    BY <1>2, <2>3, <2>4 DEF Hovered, Revision, Target
  <2>6. u.on => u.rev > 0
    BY <1>2, <2>3 DEF Target
  <2> QED
    BY <1>3, <2>1, <2>3, <2>5, <2>6, Commits DEF t, n
<1>8. ASSUME DragLeave(c, p, reg, offer) PROVE Inv'
  <2> DEFINE u == Cancel(t, offer)
  <2>1. MayDrag(c, p, reg, offer, FALSE) /\ t.offer = offer /\ CommitDrag(c, p, reg, offer, u)
    BY <1>8 DEF DragLeave, t
  <2>2. t.on /\ active[p] = n
    BY <1>4, <2>1
  <2>3. /\ u \in Target
        /\ u.on => u.rev > 0
        /\ ~Hovered(u)
    BY <1>2, <1>3, <2>1, CancelTarget
  <2>4. u = t \/ Revision(u) # Revision(t)
    BY <1>2, <2>2, ResetTarget DEF Cancel, Revision, Target
  <2> HIDE DEF u
  <2> QED
    BY <1>3, <2>1, <2>2, <2>3, <2>4, Commits DEF t, n
<1> QED
  BY <1>1, <1>6, <1>7, <1>8

-----------------------------------------------------------------------------
\* The host starts without clients, drags and targets.
LEMMA InitInv == Init => Inv
<1> SUFFICES ASSUME Init PROVE Inv
  OBVIOUS
<1>1. NoTarget \in Target /\ ~NoTarget.on /\ NoOffer \in Binding
  BY DEF NoTarget, Target, NoOffer, Binding
<1>2. Stack(stack) /\ Frames(stack) = {}
  BY EmptyStack DEF Init
<1>3. Typed
  BY <1>1, DragAssumption DEF Init, Typed
<1>4. HeldOK /\ FreedOK /\ TargetOK /\ EndedOK
  BY <1>1, <1>2 DEF Init, HeldOK, FreedOK, TargetOK, EndedOK, Hovered
<1> QED
  BY <1>2, <1>3, <1>4 DEF Inv

\* Nothing happens.
LEMMA StutterInv ==
  ASSUME Inv, UNCHANGED vars PROVE Inv'
<1>1. Typed' /\ Stack(stack')
  BY DEF Inv, Typed, vars
<1>2. Carries(Frames(stack), Frames(stack'), {})
  BY CarriesItself DEF vars
<1> QED
  BY <1>1, <1>2, Passes DEF vars

\* Every step keeps the invariant.
LEMMA NextInv == Inv /\ [Next]_vars => Inv'
<1> SUFFICES ASSUME Inv, [Next]_vars PROVE Inv'
  OBVIOUS
<1>1. CASE SendOne \/ AnnounceOne \/ CloseOne \/ OutputSent \/ Return
  BY <1>1, SendOneKeeps, AnnounceOneKeeps, CloseOneKeeps, OutputSentKeeps, ReturnKeeps
<1>2. CASE ReleaseViewState \/ ApplyViewState \/ Announce
  BY <1>2, ReleaseViewStateKeeps, ApplyViewStateKeeps, AnnounceKeeps
<1>3. ASSUME NEW c \in Views, Attach(c) \/ Refresh(c) \/ Sever(c) \/ DisconnectEvent(c)
      PROVE  Inv'
  BY <1>3, AttachKeeps, RefreshKeeps, SeverKeeps, DisconnectEventKeeps
<1>4. ASSUME NEW p \in Panes, PaneOutput(p) \/ PaneOutputFails(p) \/ PaneEnds(p)
      PROVE  Inv'
  BY <1>4, PaneOutputKeeps, PaneOutputFailsKeeps, PaneEndsKeeps
<1>5. ASSUME NEW c \in Views, NEW p \in Panes,
             \/ Drags(c, p) \/ ReleasePane(c, p)
             \/ \E visible \in BOOLEAN : ViewState(c, p, visible)
      PROVE  Inv'
  BY <1>5, DragsKeep, ReleasePaneKeeps, ViewStateKeeps
<1>6. CASE UNCHANGED vars
  BY <1>6, StutterInv
<1> QED
  BY <1>1, <1>2, <1>3, <1>4, <1>5, <1>6 DEF Next

\* The inductive invariant holds in every behaviour.
LEMMA Invariant == Spec => []Inv
  BY InitInv, NextInv, PTL DEF Spec

\* What it says of the states between handlers
LEMMA InvImplies ==
  Inv => TypeOK /\ HolderIsValid /\ HoverHasHolder /\ EndedStaysEnded
<1> SUFFICES ASSUME Inv PROVE TypeOK /\ HolderIsValid /\ HoverHasHolder /\ EndedStaysEnded
  OBVIOUS
<1>1. TypeOK
  <2>1. \A i \in DOMAIN stack : stack[i].call \in CallKinds
    BY FrameKinds DEF Inv, Stack
  <2> QED
    BY <2>1 DEF Inv, Typed, TypeOK
<1>2. HolderIsValid
  BY IdleFacts DEF HolderIsValid, Idle
<1>3. HoverHasHolder
  BY DEF HoverHasHolder, Inv, TargetOK, Hovered, Matches
<1>4. EndedStaysEnded
  BY DEF EndedStaysEnded, Inv, EndedOK
<1> QED
  BY <1>1, <1>2, <1>3, <1>4

\* Every variable keeps its type, and the stack holds calls of drag.rs,
\* host.rs and scheduler.rs only, however deep the recursion of disconnects.
THEOREM DragTypes == Spec => []TypeOK
  BY Invariant, InvImplies, PTL

\* HolderIsValid: between handlers a drag is held by a connected view of a
\* running pane, and is the one the application knows (apply_drag, release_drag,
\* prune_drags, disconnect_host).
THEOREM HoldersStand == Spec => []HolderIsValid
  BY Invariant, InvImplies, PTL

\* HoverHasHolder: between handlers an application that is hovered over has a
\* view that will drop, leave or be released (release_drag's cancel_offer).
THEOREM NobodyHoversAlone == Spec => []HoverHasHolder
  BY Invariant, InvImplies, PTL

\* EndedStaysEnded: an offer that ended is never held again, whatever requests
\* arrive late (the tombstones of drag.rs, Bindings::latest).
THEOREM OffersEndOnce == Spec => []EndedStaysEnded
  BY Invariant, InvImplies, PTL
=============================================================================
