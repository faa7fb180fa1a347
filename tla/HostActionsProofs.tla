-------------------------- MODULE HostActionsProofs --------------------------
(***************************************************************************)
(* Proofs about HostActions, for any clients and panes, any limits, and    *)
(* any number of requests and of turns of a handler.                       *)
(*                                                                         *)
(* A handler calls others that may disconnect a client or close a pane, so *)
(* what holds between handlers does not hold while one is under way: a     *)
(* client is gone, and its requests, views and leases are not yet.  The    *)
(* invariant Good(o, T, x) says of what the owner has at hand (o) that all *)
(* this is about to be put right by a call that is left to do (T): what    *)
(* waits for a client that is gone is going to be denied (Denied), its     *)
(* leases and views are going to be given back (Vacated), and a pane       *)
(* without a lease is going to be closed (Leased).  x is the history the   *)
(* calls leave alone.  Each call does what it was left for, and leaves     *)
(* calls for what it breaks; with none left, Good is what the properties   *)
(* say.                                                                    *)
(*                                                                         *)
(* The replies to a request are followed through two places: what was      *)
(* written to the process, and what is queued behind it (Fits, Replied);   *)
(* and an accepted reply is in one of them while its process lives         *)
(* (Honoured).                                                             *)
(***************************************************************************)
EXTENDS HostActions, ListProofs


-----------------------------------------------------------------------------
(* What the owner has at hand, and its types *)

Names == {"send", "broadcast", "disconnect", "disconnect all", "exited", "flush",
          "close", "deny", "deny client", "release view", "unview", "give back",
          "close ephemeral"}

Call3 == Names \X Nat \X Nat

\* A call is for a client, a pane or a request there may be.
Calls ==
  {x \in Call3 :
     /\ x[1] \in {"send", "disconnect", "deny client", "give back",
                  "release view", "unview"} => x[2] \in Clients
     /\ x[1] \in {"exited", "close ephemeral"} => x[2] \in Panes
     /\ x[1] \in {"flush", "close", "deny"} => x[2] \in Requests
     /\ IF x[1] \in {"release view", "unview"} THEN x[3] \in Panes ELSE x[3] = 0}

Tables == UNION {[S -> Action] : S \in SUBSET Requests}

Reply == [gen : 0 .. MaxGen, reply : {"untracked", "final"}]

Askers == [pane : Panes \union {0}, gen : 0 .. MaxGen, kind : Kinds]

Side == [known : SUBSET Clients, panes : [Panes -> Pane], actions : Tables,
         answers : [Requests -> Seq(Reply)], todo : Seq(Calls)]

\* The calls that are left
Left(o) == {o.todo[i] : i \in DOMAIN o.todo}

-----------------------------------------------------------------------------
(* The inductive invariant, in the midst of a handler too.  T: the calls that  *)
(* are left.  x: what a handler's calls leave alone, the next request, who     *)
(* asked, what was accepted and the last process of each pane.                 *)

Contexts == [next : 1 .. MaxRequests + 1, askers : [Requests -> Askers],
             accepted : SUBSET Requests, last : [Panes -> 0 .. MaxGen]]

\* A pane has its last process or none, and none once it is gone.
Lives(o, x) ==
  \A p \in Panes : /\ o.panes[p].last = x.last[p]
                   /\ o.panes[p].gen \in {0, x.last[p]}
                   /\ ~o.panes[p].there => o.panes[p].gen = 0

\* The history names processes there were, ...
Knows(x) ==
  \A e \in Requests :
    e < x.next => /\ x.askers[e].pane \in Panes /\ x.askers[e].gen # 0
                  /\ x.askers[e].gen <= x.last[x.askers[e].pane]

\* ... and what is pending was asked by these, unless there was none any more
\* when the request was passed on.
AskedFor(a, asker) ==
  a.pane = asker.pane /\ a.kind = asker.kind /\ a.gen \in {0, asker.gen}

Asked(o, x) ==
  \A e \in DOMAIN o.actions : e < x.next /\ AskedFor(o.actions[e], x.askers[e])

Texts(list) == [i \in DOMAIN list |-> list[i].reply]

Whole == {<<>>, <<"untracked">>, <<"final">>, <<"untracked", "final">>}

\* What was answered, and what is queued behind it
Fits(r, a) ==
  /\ r \in {<<>>, <<"untracked">>} /\ a.reply \in Whole
  /\ a.kind = "read" => r = <<>> /\ a.reply = <<>> /\ ~a.untracked
  /\ r # <<>> => a.untracked /\ a.reply \in {<<>>, <<"final">>}
  /\ a.reply \in {<<"untracked">>, <<"untracked", "final">>} => a.untracked

AnswersFit(list, asker) ==
  /\ Texts(list) \in Whole
  /\ asker.kind # "read" => \A i \in DOMAIN list : list[i].gen = asker.gen

Replied(o, x) ==
  \A e \in Requests :
    /\ e >= x.next => o.answers[e] = <<>>
    /\ AnswersFit(o.answers[e], x.askers[e])
    /\ e \in DOMAIN o.actions => Fits(Texts(o.answers[e]), o.actions[e])

Told(list) == \E i \in DOMAIN list : list[i].reply = "final"

Waiting(o, asker) ==
  /\ asker.kind = "show"
  /\ o.panes[asker.pane].gen = asker.gen /\ ~o.panes[asker.pane].ending

\* A final reply that was accepted is written or queued while its process lives.
HonouredAt(o, x, e) ==
  /\ e < x.next
  /\ e \in DOMAIN o.actions => o.actions[e].gen = x.askers[e].gen
  /\ Waiting(o, x.askers[e]) => \/ Told(o.answers[e])
                                \/ e \in DOMAIN o.actions /\ Finished(o.actions[e])

Honoured(o, x) == \A e \in x.accepted : HonouredAt(o, x, e)

\* What waits for a client that is gone is about to be denied.
Served(o, T, a) ==
  \/ a.client \in o.known
  \/ Finished(a)
  \/ Notification(a) /\ ~OwnerAlive(o, a)
  \/ <<"deny client", a.client, 0>> \in T

Denied(o, T) ==
  \A e \in DOMAIN o.actions : Served(o, T, o.actions[e]) \/ <<"deny", e, 0>> \in T

\* Its leases and views are about to go.
Vacated(o, T) ==
  \A p \in Panes :
    /\ \A c \in o.panes[p].owners : c \in o.known \/ <<"give back", c, 0>> \in T
    /\ \A c \in o.panes[p].views : \/ c \in o.known
                                   \/ <<"release view", c, p>> \in T
                                   \/ <<"unview", c, p>> \in T

\* A pane without its last lease is about to be closed.
Leased(o, T) ==
  \A p \in Panes :
    o.panes[p].there /\ ~o.panes[p].persistent =>
      o.panes[p].owners # {} \/ <<"close ephemeral", p, 0>> \in T

\* What client c was shown
ShownTo(o, c) ==
  {e \in DOMAIN o.actions : o.actions[e].client = c /\ Notification(o.actions[e])}

Within(o) ==
  /\ Cardinality(DOMAIN o.actions) <= MaxPending
  /\ \A c \in Clients : Cardinality(ShownTo(o, c)) <= MaxShown

Good(o, T, x) ==
  /\ o \in Side /\ x \in Contexts
  /\ Lives(o, x) /\ Knows(x) /\ Asked(o, x) /\ Replied(o, x) /\ Honoured(o, x)
  /\ Denied(o, T) /\ Vacated(o, T) /\ Leased(o, T) /\ Within(o)

\* Between two calls
Holds(o, x) == Good(o, Left(o), x)

Here == [next |-> next, askers |-> askers, accepted |-> accepted,
         last |-> [p \in Panes |-> panes[p].last]]

IInv == severed \subseteq Clients /\ Holds(Now, Here)

-----------------------------------------------------------------------------
(* Fields and types *)

\* What a handler has at hand, field by field
LEMMA SideFields ==
  ASSUME NEW o \in Side
  PROVE  /\ o.known \in SUBSET Clients /\ o.panes \in [Panes -> Pane]
         /\ o.actions \in Tables /\ o.answers \in [Requests -> Seq(Reply)]
         /\ o.todo \in Seq(Calls)
         /\ o = [known |-> o.known, panes |-> o.panes, actions |-> o.actions,
                 answers |-> o.answers, todo |-> o.todo]
BY DEF Side

\* ... and put together again
LEMMA SideSet ==
  ASSUME NEW k \in SUBSET Clients, NEW s \in [Panes -> Pane], NEW a \in Tables,
         NEW w \in [Requests -> Seq(Reply)], NEW d \in Seq(Calls)
  PROVE  [known |-> k, panes |-> s, actions |-> a, answers |-> w, todo |-> d] \in Side
BY DEF Side

\* A pane, field by field
LEMMA PaneFields ==
  ASSUME NEW s \in Pane
  PROVE  /\ s.there \in BOOLEAN /\ s.gen \in 0 .. MaxGen /\ s.last \in 0 .. MaxGen
         /\ s.ending \in BOOLEAN /\ s.input \in {"open", "full", "broken"}
         /\ s.persistent \in BOOLEAN /\ s.owners \in SUBSET Clients
         /\ s.views \in SUBSET Clients
BY DEF Pane

\* A table of pending requests holds an action for each of some requests.
LEMMA TableFields ==
  ASSUME NEW f \in Tables
  PROVE  /\ DOMAIN f \subseteq Requests /\ f \in [DOMAIN f -> Action]
         /\ \A e \in DOMAIN f :
              /\ f[e].kind \in Kinds /\ f[e].client \in Clients /\ f[e].pane \in Panes
              /\ f[e].gen \in 0 .. MaxGen /\ f[e].late \in BOOLEAN
              /\ f[e].untracked \in BOOLEAN
              /\ f[e].reply \in Seq({"untracked", "final"})
<1>1. PICK S \in SUBSET Requests : f \in [S -> Action]
  BY DEF Tables
<1>2. DOMAIN f = S
  BY <1>1
<1>3. \A e \in S : f[e] \in Action
  BY <1>1
<1> QED BY <1>1, <1>2, <1>3 DEF Action

\* Any function from requests to actions is such a table.
LEMMA TableSet ==
  ASSUME NEW S \in SUBSET Requests, NEW f \in [S -> Action]
  PROVE  f \in Tables
BY DEF Tables

\* What is pending, less one
LEMMA WithoutFields ==
  ASSUME NEW f \in Tables, NEW e
  PROVE  /\ Without(f, e) \in Tables
         /\ DOMAIN Without(f, e) = DOMAIN f \ {e}
         /\ \A x \in DOMAIN f \ {e} : Without(f, e)[x] = f[x]
<1>1. f \in [DOMAIN f -> Action] /\ DOMAIN f \subseteq Requests
  BY TableFields
<1> DEFINE g == [y \in DOMAIN f \ {e} |-> f[y]]
<1>2. g \in [DOMAIN f \ {e} -> Action]
  BY <1>1
<1>3. g \in Tables
  BY <1>1, <1>2, TableSet
<1> QED BY <1>3 DEF Without

\* ... and one more
LEMMA WithFields ==
  ASSUME NEW f \in Tables, NEW e \in Requests, NEW a \in Action
  PROVE  /\ With(f, e, a) \in Tables
         /\ DOMAIN With(f, e, a) = DOMAIN f \union {e}
         /\ With(f, e, a)[e] = a
         /\ \A x \in DOMAIN f \ {e} : With(f, e, a)[x] = f[x]
<1>1. f \in [DOMAIN f -> Action] /\ DOMAIN f \subseteq Requests
  BY TableFields
<1> DEFINE g == [y \in DOMAIN f \union {e} |-> IF y = e THEN a ELSE f[y]]
<1>2. g \in [DOMAIN f \union {e} -> Action]
  BY <1>1
<1>3. g \in Tables
  BY <1>1, <1>2, TableSet
<1> QED BY <1>3 DEF With

\* Each field, when it is replaced, leaves the others as they were: the clients,
LEMMA SetKnown ==
  ASSUME NEW o \in Side, NEW v \in SUBSET Clients
  PROVE  /\ [o EXCEPT !.known = v] \in Side /\ [o EXCEPT !.known = v].known = v
         /\ [o EXCEPT !.known = v].panes = o.panes
         /\ [o EXCEPT !.known = v].actions = o.actions
         /\ [o EXCEPT !.known = v].answers = o.answers
         /\ [o EXCEPT !.known = v].todo = o.todo
BY DEF Side

\* the panes,
LEMMA SetPanes ==
  ASSUME NEW o \in Side, NEW v \in [Panes -> Pane]
  PROVE  /\ [o EXCEPT !.panes = v] \in Side /\ [o EXCEPT !.panes = v].panes = v
         /\ [o EXCEPT !.panes = v].known = o.known
         /\ [o EXCEPT !.panes = v].actions = o.actions
         /\ [o EXCEPT !.panes = v].answers = o.answers
         /\ [o EXCEPT !.panes = v].todo = o.todo
BY DEF Side

\* what is pending,
LEMMA SetActions ==
  ASSUME NEW o \in Side, NEW v \in Tables
  PROVE  /\ [o EXCEPT !.actions = v] \in Side /\ [o EXCEPT !.actions = v].actions = v
         /\ [o EXCEPT !.actions = v].known = o.known
         /\ [o EXCEPT !.actions = v].panes = o.panes
         /\ [o EXCEPT !.actions = v].answers = o.answers
         /\ [o EXCEPT !.actions = v].todo = o.todo
BY DEF Side

\* the answers,
LEMMA SetAnswers ==
  ASSUME NEW o \in Side, NEW v \in [Requests -> Seq(Reply)]
  PROVE  /\ [o EXCEPT !.answers = v] \in Side /\ [o EXCEPT !.answers = v].answers = v
         /\ [o EXCEPT !.answers = v].known = o.known
         /\ [o EXCEPT !.answers = v].panes = o.panes
         /\ [o EXCEPT !.answers = v].actions = o.actions
         /\ [o EXCEPT !.answers = v].todo = o.todo
BY DEF Side

\* and the calls that are left.
LEMMA SetTodo ==
  ASSUME NEW o \in Side, NEW v \in Seq(Calls)
  PROVE  /\ [o EXCEPT !.todo = v] \in Side /\ [o EXCEPT !.todo = v].todo = v
         /\ [o EXCEPT !.todo = v].known = o.known
         /\ [o EXCEPT !.todo = v].panes = o.panes
         /\ [o EXCEPT !.todo = v].actions = o.actions
         /\ [o EXCEPT !.todo = v].answers = o.answers
BY DEF Side

-----------------------------------------------------------------------------
(* The calls that are left *)

\* More calls may be left, and they do not matter otherwise.
LEMMA SameGood ==
  ASSUME NEW o, NEW T, NEW x, Good(o, T, x),
         NEW r \in Side, r.known = o.known, r.panes = o.panes,
         r.actions = o.actions, r.answers = o.answers,
         NEW U, T \subseteq U
  PROVE  Good(r, U, x)
<1>1. o \in Side /\ x \in Contexts /\ Knows(x)
  BY DEF Good
<1>2. Lives(r, x) /\ Asked(r, x) /\ Replied(r, x) /\ Within(r)
  BY DEF Good, Lives, Asked, Replied, Within, ShownTo
<1>3. Honoured(r, x)
  BY DEF Good, Honoured, HonouredAt, Waiting
<1>4. Denied(r, U)
  BY DEF Good, Denied, Served, OwnerAlive
<1>5. Vacated(r, U)
  BY DEF Good, Vacated
<1>6. Leased(r, U)
  BY DEF Good, Leased
<1> QED BY <1>1, <1>2, <1>3, <1>4, <1>5, <1>6 DEF Good

\* Calls that nothing depends on
Idle == {"send", "broadcast", "disconnect", "disconnect all", "exited", "flush", "close"}

\* A call nothing depends on may be taken from those that are left.
LEMMA Spent ==
  ASSUME NEW o, NEW T, NEW x, NEW h, Good(o, T \union {h}, x), h[1] \in Idle
  PROVE  Good(o, T, x)
<1>1. ASSUME NEW name \in {"deny", "deny client", "give back", "release view", "unview",
                           "close ephemeral"},
             NEW a, NEW b, <<name, a, b>> \in T \union {h}
      PROVE  <<name, a, b>> \in T
  <2>1. <<name, a, b>>[1] = name /\ name \notin Idle
    BY DEF Idle
  <2>2. <<name, a, b>> # h
    BY <2>1
  <2> QED BY <1>1, <2>2
<1>2. Denied(o, T)
  BY <1>1 DEF Good, Denied, Served
<1>3. Vacated(o, T)
  BY <1>1 DEF Good, Vacated
<1>4. Leased(o, T)
  BY <1>1 DEF Good, Leased
<1> QED BY <1>2, <1>3, <1>4 DEF Good

\* The calls of two lists in a row are those of both.
LEMMA JoinedCalls ==
  ASSUME NEW a \in Seq(Calls), NEW b \in Seq(Calls)
  PROVE  /\ a \o b \in Seq(Calls)
         /\ {(a \o b)[i] : i \in DOMAIN (a \o b)}
              = {a[i] : i \in DOMAIN a} \union {b[i] : i \in DOMAIN b}
<1>1. a \o b \in Seq(Calls)
  OBVIOUS
<1>2. DOMAIN a = 1 .. Len(a) /\ DOMAIN b = 1 .. Len(b)
      /\ DOMAIN (a \o b) = 1 .. (Len(a) + Len(b))
      /\ Len(a) \in Nat /\ Len(b) \in Nat
  OBVIOUS
<1>3. \A i \in 1 .. Len(a) : (a \o b)[i] = a[i]
  BY <1>2
<1>4. \A i \in 1 .. Len(b) : (a \o b)[Len(a) + i] = b[i]
  BY <1>2
<1>5. \A i \in 1 .. (Len(a) + Len(b)) :
        i \in 1 .. Len(a) \/ (i - Len(a) \in 1 .. Len(b) /\ i = Len(a) + (i - Len(a)))
  BY <1>2
<1>6. {(a \o b)[i] : i \in DOMAIN (a \o b)}
        \subseteq {a[i] : i \in DOMAIN a} \union {b[i] : i \in DOMAIN b}
  BY <1>2, <1>3, <1>4, <1>5
<1>7. \A i \in 1 .. Len(b) : Len(a) + i \in 1 .. (Len(a) + Len(b))
  BY <1>2
<1>8. \A i \in 1 .. Len(a) : i \in 1 .. (Len(a) + Len(b))
  BY <1>2
<1>9. {a[i] : i \in DOMAIN a} \union {b[i] : i \in DOMAIN b}
        \subseteq {(a \o b)[i] : i \in DOMAIN (a \o b)}
  BY <1>2, <1>3, <1>4, <1>7, <1>8
<1> QED BY <1>1, <1>6, <1>9

\* Do adds calls and leaves everything else alone.
LEMMA DoFields ==
  ASSUME NEW o \in Side, NEW calls \in Seq(Calls)
  PROVE  /\ Do(o, calls) \in Side
         /\ Do(o, calls).known = o.known /\ Do(o, calls).panes = o.panes
         /\ Do(o, calls).actions = o.actions /\ Do(o, calls).answers = o.answers
         /\ Left(Do(o, calls)) = {calls[i] : i \in DOMAIN calls} \union Left(o)
<1> DEFINE t == calls \o o.todo
           r == Do(o, calls)
<1>1. o.todo \in Seq(Calls)
  BY SideFields
<1>2. t \in Seq(Calls) /\ {t[i] : i \in DOMAIN t} = {calls[i] : i \in DOMAIN calls} \union Left(o)
  BY <1>1, JoinedCalls DEF Left
<1> HIDE DEF t
<1>3. r = [o EXCEPT !.todo = t]
  BY DEF Do, t
<1> HIDE DEF r
<1>4. r \in Side
  BY <1>2, <1>3, SetTodo
<1>5. r.known = o.known /\ r.panes = o.panes /\ r.actions = o.actions
      /\ r.answers = o.answers /\ r.todo = t
  BY <1>2, <1>3, SetTodo
<1>6. Left(r) = {t[i] : i \in DOMAIN t}
  BY <1>5 DEF Left
<1> QED BY <1>2, <1>4, <1>5, <1>6 DEF r

\* A handler that only makes calls
LEMMA DoHolds ==
  ASSUME NEW o, NEW x, NEW calls \in Seq(Calls),
         Good(o, {calls[i] : i \in DOMAIN calls} \union Left(o), x)
  PROVE  Holds(Do(o, calls), x)
<1> DEFINE r == Do(o, calls)
<1>1. o \in Side
  BY DEF Good
<1>2. /\ r \in Side /\ r.known = o.known /\ r.panes = o.panes
      /\ r.actions = o.actions /\ r.answers = o.answers
      /\ Left(r) = {calls[i] : i \in DOMAIN calls} \union Left(o)
  BY <1>1, DoFields
<1> HIDE DEF r
<1>3. Good(r, Left(r), x)
  BY <1>2, SameGood
<1> QED BY <1>3 DEF Holds, r

\* The calls of Each are those of its set.
LEMMA EachFields ==
  ASSUME NEW name \in Names, NEW S, IsFiniteSet(S), S \subseteq Nat,
         \A s \in S : <<name, s, 0>> \in Calls
  PROVE  /\ Each(name, S) \in Seq(Calls)
         /\ {Each(name, S)[i] : i \in DOMAIN Each(name, S)} = {<<name, s, 0>> : s \in S}
<1> DEFINE n == Cardinality(S)
           a == Ascending(S)
           f == [i \in 1 .. n |-> <<name, a[i], 0>>]
<1>1. /\ n \in Nat /\ a \in [1 .. n -> S]
      /\ \A s \in S : \E i \in 1 .. n : a[i] = s
  BY AscendingLists
<1> HIDE DEF n, a
<1>2. \A i \in 1 .. n : <<name, a[i], 0>> \in Calls
  BY <1>1
<1>3. f \in [1 .. n -> Calls] /\ DOMAIN f = 1 .. n /\ \A i \in 1 .. n : f[i] = <<name, a[i], 0>>
  BY <1>2
<1>4. f = Each(name, S)
  BY DEF Each, n, a
<1> HIDE DEF f
<1>5. f \in Seq(Calls)
  BY <1>1, <1>3
<1>6. {f[i] : i \in DOMAIN f} = {<<name, s, 0>> : s \in S}
  <2>1. ASSUME NEW i \in DOMAIN f PROVE \E s \in S : f[i] = <<name, s, 0>>
    BY <1>1, <1>3
  <2>2. ASSUME NEW s \in S PROVE \E i \in DOMAIN f : f[i] = <<name, s, 0>>
    <3>1. PICK i \in 1 .. n : a[i] = s
      BY <1>1
    <3> QED BY <1>3, <3>1
  <2> QED BY <2>1, <2>2
<1> QED BY <1>4, <1>5, <1>6

\* Clients, panes and requests are finite sets of numbers, as Ascending wants.
LEMMA FiniteIds ==
  /\ \A S \in SUBSET Clients : IsFiniteSet(S) /\ S \subseteq Nat
  /\ \A S \in SUBSET Panes : IsFiniteSet(S) /\ S \subseteq Nat
  /\ \A S \in SUBSET Requests : IsFiniteSet(S) /\ S \subseteq Nat
<1>1. IsFiniteSet(Requests) /\ Requests \subseteq Nat
  BY HostAssumption, FS_Interval DEF Requests
<1> QED BY <1>1, HostAssumption, FS_Subset

-----------------------------------------------------------------------------
(* What one change of the owner's keeps                                    *)

\* The types that Good gives
LEMMA GoodFields ==
  ASSUME NEW o, NEW T, NEW x, Good(o, T, x)
  PROVE  /\ o \in Side /\ x \in Contexts
         /\ \A p \in Panes : o.panes[p] \in Pane
         /\ x.next \in 1 .. MaxRequests + 1 /\ x.askers \in [Requests -> Askers]
         /\ x.accepted \in SUBSET Requests
         /\ DOMAIN o.actions \in SUBSET Requests
         /\ \A e \in DOMAIN o.actions : o.actions[e] \in Action
<1>1. o \in Side /\ x \in Contexts
  BY DEF Good
<1>2. o.actions \in Tables /\ o.panes \in [Panes -> Pane]
  BY <1>1, SideFields
<1>3. DOMAIN o.actions \in SUBSET Requests /\ o.actions \in [DOMAIN o.actions -> Action]
  BY <1>2, TableFields
<1>4. /\ x.next \in 1 .. MaxRequests + 1 /\ x.askers \in [Requests -> Askers]
      /\ x.accepted \in SUBSET Requests
  BY <1>1 DEF Contexts
<1> QED BY <1>1, <1>2, <1>3, <1>4

\* The process of p ends, or p is closed: r is o after it.
Ended(o, r, p) ==
  /\ r \in Side /\ r.known = o.known /\ r.actions = o.actions /\ r.answers = o.answers
  /\ \A q \in Panes : q # p => r.panes[q] = o.panes[q]
  /\ r.panes[p].gen = 0 /\ r.panes[p].last = o.panes[p].last
  /\ r.panes[p].owners = o.panes[p].owners /\ r.panes[p].views = o.panes[p].views
  /\ r.panes[p].persistent = o.panes[p].persistent
  /\ r.panes[p].there => o.panes[p].there

\* A request may be forgotten, when the history allows it.
LEMMA EndedKeeps ==
  ASSUME NEW o, NEW T, NEW x, Good(o, T, x), NEW p \in Panes, NEW r, Ended(o, r, p)
  PROVE  Good(r, T, x)
<1>1. r \in Side /\ x \in Contexts /\ Knows(x)
  BY DEF Good, Ended
<1>2. Lives(r, x)
  BY DEF Good, Ended, Lives
<1>3. Asked(r, x) /\ Replied(r, x) /\ Within(r)
  BY DEF Good, Ended, Asked, Replied, Within, ShownTo
<1>4. ASSUME NEW e \in x.accepted PROVE HonouredAt(r, x, e)
  <2>1. HonouredAt(o, x, e) /\ e \in Requests
    BY GoodFields DEF Good, Honoured
  <2>2. x.askers[e].gen # 0 /\ x.askers[e].pane \in Panes
    BY <2>1 DEF Good, Knows, HonouredAt
  <2>3. Waiting(r, x.askers[e]) => Waiting(o, x.askers[e])
    BY <2>2 DEF Ended, Waiting
  <2> QED BY <2>1, <2>3 DEF HonouredAt, Ended
<1>5. Honoured(r, x)
  BY <1>4 DEF Honoured
<1>6. \A e \in DOMAIN o.actions : OwnerAlive(r, o.actions[e]) => OwnerAlive(o, o.actions[e])
  <2>1. \A e \in DOMAIN o.actions : o.actions[e].pane \in Panes
    BY GoodFields DEF Action
  <2> QED BY <2>1 DEF Ended, OwnerAlive
<1>7. Denied(r, T)
  BY <1>6 DEF Good, Ended, Denied, Served
<1>8. Vacated(r, T)
  BY DEF Good, Ended, Vacated
<1>9. Leased(r, T)
  BY DEF Good, Ended, Leased
<1> QED BY <1>1, <1>2, <1>3, <1>5, <1>7, <1>8, <1>9 DEF Good

\* Fewer requests are within the limits.
LEMMA FewerWithin ==
  ASSUME NEW o \in Side, Within(o), NEW r, DOMAIN r.actions \subseteq DOMAIN o.actions,
         \A e \in DOMAIN r.actions : /\ r.actions[e].client = o.actions[e].client
                                     /\ r.actions[e].kind = o.actions[e].kind
  PROVE  Within(r)
<1>1. DOMAIN o.actions \in SUBSET Requests
  BY SideFields, TableFields
<1>2. IsFiniteSet(DOMAIN o.actions)
  BY <1>1, FiniteIds
<1>3. /\ Cardinality(DOMAIN r.actions) <= Cardinality(DOMAIN o.actions)
      /\ Cardinality(DOMAIN r.actions) \in Nat /\ Cardinality(DOMAIN o.actions) \in Nat
  BY <1>2, FS_Subset, FS_CardinalityType
<1>4. ASSUME NEW c \in Clients PROVE Cardinality(ShownTo(r, c)) <= MaxShown
  <2>1. ShownTo(r, c) \subseteq ShownTo(o, c)
    BY DEF ShownTo, Notification
  <2>2. ShownTo(o, c) \subseteq DOMAIN o.actions
    BY DEF ShownTo
  <2>3. IsFiniteSet(ShownTo(o, c))
    BY <1>2, <2>2, FS_Subset
  <2>4. /\ Cardinality(ShownTo(r, c)) <= Cardinality(ShownTo(o, c))
        /\ Cardinality(ShownTo(r, c)) \in Nat /\ Cardinality(ShownTo(o, c)) \in Nat
    BY <2>1, <2>3, FS_Subset, FS_CardinalityType
  <2> QED BY <2>4, HostAssumption DEF Within
<1> QED BY <1>3, <1>4, HostAssumption DEF Within

\* One request moves on or goes: r is o after it.
Moved(o, r, x, e) ==
  /\ r \in Side /\ r.known = o.known /\ r.panes = o.panes
  /\ DOMAIN r.actions \subseteq DOMAIN o.actions
  /\ DOMAIN o.actions \ {e} \subseteq DOMAIN r.actions
  /\ \A y \in DOMAIN r.actions \ {e} : r.actions[y] = o.actions[y]
  /\ \A y \in Requests \ {e} : r.answers[y] = o.answers[y]
  /\ e \in DOMAIN r.actions =>
       /\ r.actions[e].kind = o.actions[e].kind
       /\ r.actions[e].client = o.actions[e].client
       /\ r.actions[e].pane = o.actions[e].pane
       /\ r.actions[e].gen = o.actions[e].gen
       /\ Fits(Texts(r.answers[e]), r.actions[e])
  /\ AnswersFit(r.answers[e], x.askers[e])

\* One request and its answers may move on, when the result fits and is honoured.
LEMMA MovedKeeps ==
  ASSUME NEW o, NEW T, NEW x, NEW e \in Requests, Good(o, T \union {<<"deny", e, 0>>}, x),
         e < x.next, NEW r, Moved(o, r, x, e),
         e \in DOMAIN r.actions => Served(r, T, r.actions[e]) \/ <<"deny", e, 0>> \in T,
         e \in x.accepted => HonouredAt(r, x, e)
  PROVE  Good(r, T, x)
<1>1. r \in Side /\ x \in Contexts /\ Knows(x)
  BY DEF Good, Moved
<1>2. Lives(r, x)
  BY DEF Good, Moved, Lives
<1>3. Asked(r, x)
  BY DEF Good, Moved, Asked, AskedFor
<1>4. Replied(r, x)
  <2>1. ASSUME NEW y \in Requests
        PROVE  /\ y >= x.next => r.answers[y] = <<>>
               /\ AnswersFit(r.answers[y], x.askers[y])
               /\ y \in DOMAIN r.actions => Fits(Texts(r.answers[y]), r.actions[y])
    <3>1. CASE y = e
      <4>1. x.next \in Nat /\ e \in Nat
        BY GoodFields DEF Requests
      <4>2. ~ (y >= x.next)
        BY <3>1, <4>1
      <4> QED BY <3>1, <4>2 DEF Moved
    <3>2. CASE y # e
      BY <3>2 DEF Good, Moved, Replied
    <3> QED BY <3>1, <3>2
  <2> QED BY <2>1 DEF Replied
<1>5. ASSUME NEW y \in x.accepted, y # e PROVE HonouredAt(r, x, y)
  <2>1. HonouredAt(o, x, y) /\ y \in Requests
    BY GoodFields DEF Good, Honoured
  <2>2. r.answers[y] = o.answers[y]
    BY <1>5, <2>1 DEF Moved
  <2>3. y \in DOMAIN r.actions <=> y \in DOMAIN o.actions
    BY <1>5 DEF Moved
  <2>4. y \in DOMAIN r.actions => r.actions[y] = o.actions[y]
    BY <1>5 DEF Moved
  <2>5. Waiting(r, x.askers[y]) <=> Waiting(o, x.askers[y])
    BY DEF Moved, Waiting
  <2> QED BY <2>1, <2>2, <2>3, <2>4, <2>5 DEF HonouredAt
<1>6. Honoured(r, x)
  BY <1>5 DEF Honoured
<1>7. ASSUME NEW y \in DOMAIN r.actions, y # e
      PROVE  Served(r, T, r.actions[y]) \/ <<"deny", y, 0>> \in T
  <2>1. y \in DOMAIN o.actions /\ r.actions[y] = o.actions[y]
    BY <1>7 DEF Moved
  <2>2. <<"deny", y, 0>> # <<"deny", e, 0>> /\ \A c : <<"deny client", c, 0>> # <<"deny", e, 0>>
    BY <1>7
  <2>3. \/ Served(o, T \union {<<"deny", e, 0>>}, o.actions[y])
        \/ <<"deny", y, 0>> \in T \union {<<"deny", e, 0>>}
    BY <2>1 DEF Good, Denied
  <2>4. OwnerAlive(r, o.actions[y]) <=> OwnerAlive(o, o.actions[y])
    BY DEF Moved, OwnerAlive
  <2> QED BY <2>1, <2>2, <2>3, <2>4 DEF Served, Moved
<1>8. Denied(r, T)
  BY <1>7 DEF Denied
<1>9. Vacated(r, T) /\ Leased(r, T)
  <2>1. \A c, p : /\ <<"give back", c, 0>> # <<"deny", e, 0>>
                  /\ <<"release view", c, p>> # <<"deny", e, 0>>
                  /\ <<"unview", c, p>> # <<"deny", e, 0>>
                  /\ <<"close ephemeral", p, 0>> # <<"deny", e, 0>>
    OBVIOUS
  <2>2. Vacated(r, T)
    BY <2>1 DEF Good, Moved, Vacated
  <2>3. Leased(r, T)
    BY <2>1 DEF Good, Moved, Leased
  <2> QED BY <2>2, <2>3
<1>10. Within(r)
  <2>1. \A y \in DOMAIN r.actions : /\ y \in DOMAIN o.actions
                                    /\ r.actions[y].client = o.actions[y].client
                                    /\ r.actions[y].kind = o.actions[y].kind
    BY DEF Moved
  <2> QED BY <2>1, FewerWithin DEF Good
<1> QED BY <1>1, <1>2, <1>3, <1>4, <1>6, <1>8, <1>9, <1>10 DEF Good

\* Leases and views change, or clients go: r is o after it.
Changed(o, r) ==
  /\ r \in Side /\ r.actions = o.actions /\ r.answers = o.answers
  /\ \A p \in Panes :
       /\ r.panes[p].there = o.panes[p].there /\ r.panes[p].gen = o.panes[p].gen
       /\ r.panes[p].last = o.panes[p].last /\ r.panes[p].ending = o.panes[p].ending

\* Leases and views may change, when what they wait for is still to come.
LEMMA ChangedKeeps ==
  ASSUME NEW o, NEW T, NEW x, Good(o, T, x), NEW r, Changed(o, r), NEW U,
         Denied(r, U), Vacated(r, U), Leased(r, U)
  PROVE  Good(r, U, x)
<1>1. r \in Side /\ x \in Contexts /\ Knows(x)
  BY DEF Good, Changed
<1>2. Lives(r, x)
  BY DEF Good, Changed, Lives
<1>3. Asked(r, x) /\ Replied(r, x) /\ Within(r)
  BY DEF Good, Changed, Asked, Replied, Within, ShownTo
<1>4. ASSUME NEW e \in x.accepted PROVE HonouredAt(r, x, e)
  <2>1. HonouredAt(o, x, e) /\ e \in Requests
    BY GoodFields DEF Good, Honoured
  <2>2. x.askers[e].pane \in Panes
    BY <2>1 DEF Good, Knows, HonouredAt
  <2>3. Waiting(r, x.askers[e]) => Waiting(o, x.askers[e])
    BY <2>2 DEF Changed, Waiting
  <2> QED BY <2>1, <2>3 DEF HonouredAt, Changed
<1>5. Honoured(r, x)
  BY <1>4 DEF Honoured
<1> QED BY <1>1, <1>2, <1>3, <1>5 DEF Good

-----------------------------------------------------------------------------
(* Answers                                                                 *)

\* The texts of a list are as many as the list.
LEMMA WholeTexts ==
  ASSUME NEW a \in Whole
  PROVE  /\ a \in Seq({"untracked", "final"})
         /\ (a # <<>> /\ Last(a) = "final") <=> a \in {<<"final">>, <<"untracked", "final">>}
<1>1. /\ <<"untracked">> # <<>> /\ <<"untracked">>[Len(<<"untracked">>)] = "untracked"
      /\ <<"final">> # <<>> /\ <<"final">>[Len(<<"final">>)] = "final"
      /\ <<"untracked", "final">> # <<>>
      /\ <<"untracked", "final">>[Len(<<"untracked", "final">>)] = "final"
      /\ <<"untracked">> # <<"final">> /\ <<"untracked">> # <<"untracked", "final">>
  OBVIOUS
<1>2. /\ <<>> \in Seq({"untracked", "final"}) /\ <<"untracked">> \in Seq({"untracked", "final"})
      /\ <<"final">> \in Seq({"untracked", "final"})
      /\ <<"untracked", "final">> \in Seq({"untracked", "final"})
  OBVIOUS
<1>3. CASE a = <<>>
  BY <1>1, <1>2, <1>3
<1>4. CASE a = <<"untracked">>
  BY <1>1, <1>2, <1>4 DEF Last
<1>5. CASE a = <<"final">>
  BY <1>1, <1>2, <1>5 DEF Last
<1>6. CASE a = <<"untracked", "final">>
  BY <1>1, <1>2, <1>6 DEF Last
<1> QED BY <1>3, <1>4, <1>5, <1>6 DEF Whole

\* What is written comes after what was.
More(list, reply, g) == list \o [i \in DOMAIN reply |-> [gen |-> g, reply |-> reply[i]]]

\* The texts of what is written are those that were there and the new ones.
LEMMA TextsOfMore ==
  ASSUME NEW list \in Seq(Reply), NEW reply \in Seq({"untracked", "final"}), NEW g \in 0 .. MaxGen
  PROVE  /\ More(list, reply, g) \in Seq(Reply)
         /\ Texts(More(list, reply, g)) = Texts(list) \o reply
         /\ \A i \in DOMAIN More(list, reply, g) :
              \/ i \in DOMAIN list /\ More(list, reply, g)[i] = list[i]
              \/ More(list, reply, g)[i].gen = g
         /\ Told(list) => Told(More(list, reply, g))
         /\ (\E i \in DOMAIN reply : reply[i] = "final") => Told(More(list, reply, g))
<1> DEFINE tail == [i \in DOMAIN reply |-> [gen |-> g, reply |-> reply[i]]]
           more == list \o tail
           m == Len(list)
           n == Len(reply)
<1>1. /\ DOMAIN reply = 1 .. n /\ n \in Nat /\ m \in Nat /\ DOMAIN list = 1 .. m
      /\ \A i \in 1 .. n : reply[i] \in {"untracked", "final"}
      /\ \A i \in 1 .. m : list[i] \in Reply
  OBVIOUS
<1> HIDE DEF m, n
<1>2. tail \in [1 .. n -> Reply]
  BY <1>1 DEF Reply
<1>3. tail \in Seq(Reply) /\ Len(tail) = n /\ DOMAIN tail = 1 .. n
  BY <1>1, <1>2
<1>4. \A i \in 1 .. n : tail[i].gen = g /\ tail[i].reply = reply[i]
  BY <1>1
<1> HIDE DEF tail
<1>5. /\ more \in Seq(Reply) /\ Len(more) = m + n /\ DOMAIN more = 1 .. (m + n)
      /\ \A i \in 1 .. m : more[i] = list[i]
      /\ \A i \in 1 .. (m + n) : i \notin 1 .. m => more[i] = tail[i - m]
  BY <1>1, <1>3 DEF m
<1>6. \A i \in 1 .. (m + n) : i \notin 1 .. m => i - m \in 1 .. n
  BY <1>1
<1>7. \A j \in 1 .. n : m + j \in 1 .. (m + n) /\ m + j \notin 1 .. m /\ (m + j) - m = j
  BY <1>1
<1> HIDE DEF more
<1>8. Texts(more) = Texts(list) \o reply
  <2> DEFINE a == Texts(list)
             b == a \o reply
             c == Texts(more)
  <2>1. a = [i \in 1 .. m |-> list[i].reply]
    BY <1>1 DEF Texts
  <2>2. a \in Seq({"untracked", "final"}) /\ Len(a) = m
    <3>1. \A i \in 1 .. m : list[i].reply \in {"untracked", "final"}
      BY <1>1 DEF Reply
    <3> QED BY <1>1, <2>1, <3>1
  <2>3. \A i \in 1 .. m : a[i] = list[i].reply
    BY <2>1
  <2> HIDE DEF a
  <2>4. /\ DOMAIN b = 1 .. (m + n)
        /\ \A i \in 1 .. m : b[i] = a[i]
        /\ \A i \in 1 .. (m + n) : i \notin 1 .. m => b[i] = reply[i - m]
    BY <1>1, <2>2 DEF n
  <2>5. c = [i \in 1 .. (m + n) |-> more[i].reply]
    BY <1>5 DEF Texts
  <2>6. b = [i \in 1 .. (m + n) |-> b[i]]
    <3>1. b \in Seq({"untracked", "final"})
      BY <2>2
    <3> HIDE DEF b
    <3> QED BY <2>4, <3>1
  <2> HIDE DEF b, c
  <2>7. ASSUME NEW i \in 1 .. (m + n) PROVE more[i].reply = b[i]
    <3>1. CASE i \in 1 .. m
      BY <1>5, <2>3, <2>4, <3>1
    <3>2. CASE i \notin 1 .. m
      <4>1. more[i] = tail[i - m] /\ i - m \in 1 .. n /\ b[i] = reply[i - m]
        BY <1>5, <1>6, <2>4, <3>2
      <4> QED BY <1>4, <4>1
    <3> QED BY <3>1, <3>2
  <2>8. c = b
    BY <2>5, <2>6, <2>7
  <2> QED BY <2>8 DEF a, b, c
<1>9. ASSUME NEW i \in DOMAIN more, ~ (i \in DOMAIN list /\ more[i] = list[i])
      PROVE  more[i].gen = g
  <2>1. i \in 1 .. (m + n) /\ i \notin 1 .. m
    BY <1>1, <1>5, <1>9
  <2>2. more[i] = tail[i - m] /\ i - m \in 1 .. n
    BY <1>5, <1>6, <2>1
  <2> QED BY <1>4, <2>2
<1>10. Told(list) => Told(more)
  BY <1>1, <1>5 DEF Told
<1>11. (\E i \in DOMAIN reply : reply[i] = "final") => Told(more)
  <2>1. ASSUME NEW j \in 1 .. n, reply[j] = "final" PROVE more[m + j].reply = "final"
    <3>1. more[m + j] = tail[j]
      BY <1>5, <1>7
    <3> QED BY <1>4, <2>1, <3>1
  <2> QED BY <1>1, <1>5, <1>7, <2>1 DEF Told
<1>12. More(list, reply, g) = more
  BY DEF More, more, tail
<1> QED BY <1>5, <1>8, <1>9, <1>10, <1>11, <1>12

\* What was told is told.
LEMMA ToldTexts ==
  ASSUME NEW list, Texts(list) \in {<<>>, <<"untracked">>}
  PROVE  ~Told(list)
<1>1. DOMAIN list = DOMAIN Texts(list) /\ \A i \in DOMAIN list : Texts(list)[i] = list[i].reply
  BY DEF Texts
<1>2. \A i \in DOMAIN Texts(list) : Texts(list)[i] # "final"
  OBVIOUS
<1> QED BY <1>1, <1>2 DEF Told

-----------------------------------------------------------------------------
(* The pieces of handlers                                                  *)

\* The reply of request e, and whether it was untracked, are set.
SetReply(o, e, reply, untracked) ==
  [o EXCEPT !.actions[e].reply = reply, !.actions[e].untracked = untracked]

\* r is o with that.
ReplySet(o, r, e, reply, untracked) ==
  /\ r \in Side /\ r.known = o.known /\ r.panes = o.panes
  /\ r.answers = o.answers /\ r.todo = o.todo
  /\ DOMAIN r.actions = DOMAIN o.actions
  /\ \A y \in DOMAIN o.actions : y # e => r.actions[y] = o.actions[y]
  /\ r.actions[e].kind = o.actions[e].kind /\ r.actions[e].client = o.actions[e].client
  /\ r.actions[e].pane = o.actions[e].pane /\ r.actions[e].gen = o.actions[e].gen
  /\ r.actions[e].reply = reply /\ r.actions[e].untracked = untracked

\* The queued reply of a request is replaced.
LEMMA SetReplyFields ==
  ASSUME NEW o \in Side, NEW e \in DOMAIN o.actions,
         NEW reply \in Seq({"untracked", "final"}), NEW untracked \in BOOLEAN
  PROVE  ReplySet(o, SetReply(o, e, reply, untracked), e, reply, untracked)
<1> DEFINE a == [o.actions[e] EXCEPT !.reply = reply, !.untracked = untracked]
           f == [o.actions EXCEPT ![e] = a]
           r == SetReply(o, e, reply, untracked)
<1>1. o.actions \in [DOMAIN o.actions -> Action] /\ DOMAIN o.actions \in SUBSET Requests
  BY SideFields, TableFields
<1>2. /\ a \in Action /\ a.kind = o.actions[e].kind /\ a.client = o.actions[e].client
      /\ a.pane = o.actions[e].pane /\ a.gen = o.actions[e].gen
      /\ a.reply = reply /\ a.untracked = untracked
  <2>1. o.actions[e] \in Action
    BY <1>1
  <2> QED BY <2>1 DEF Action
<1>3. r = [o EXCEPT !.actions = f]
  BY <1>1 DEF SetReply
<1> HIDE DEF a, r
<1>4. f \in [DOMAIN o.actions -> Action] /\ f[e] = a
      /\ \A y \in DOMAIN o.actions : y # e => f[y] = o.actions[y]
  BY <1>1, <1>2
<1> HIDE DEF f
<1>5. f \in Tables /\ DOMAIN f = DOMAIN o.actions
  BY <1>1, <1>4, TableSet
<1>6. /\ r \in Side /\ r.actions = f /\ r.known = o.known /\ r.panes = o.panes
      /\ r.answers = o.answers /\ r.todo = o.todo
  BY <1>3, <1>5, SetActions
<1> QED BY <1>2, <1>4, <1>5, <1>6 DEF ReplySet, r

\* A request is forgotten, and nothing else.
LEMMA ForgetFields ==
  ASSUME NEW o \in Side, NEW e
  PROVE  LET r == Forget(o, e)
         IN  /\ r \in Side /\ r.known = o.known /\ r.panes = o.panes
             /\ r.answers = o.answers /\ r.todo = o.todo
             /\ DOMAIN r.actions = DOMAIN o.actions \ {e}
             /\ \A y \in DOMAIN r.actions : r.actions[y] = o.actions[y]
<1>1. o.actions \in Tables
  BY SideFields
<1>2. /\ Without(o.actions, e) \in Tables
      /\ DOMAIN Without(o.actions, e) = DOMAIN o.actions \ {e}
      /\ \A y \in DOMAIN o.actions \ {e} : Without(o.actions, e)[y] = o.actions[y]
  BY <1>1, WithoutFields
<1>3. Forget(o, e) = [o EXCEPT !.actions = Without(o.actions, e)]
  BY DEF Forget
<1> QED BY <1>2, <1>3, SetActions

\* r is o after reply is written for e to the process of p.
IsWritten(o, r, p, e, reply) ==
  /\ r \in Side /\ r.known = o.known /\ r.panes = o.panes
  /\ r.actions = o.actions /\ r.todo = o.todo
  /\ \A y \in Requests \ {e} : r.answers[y] = o.answers[y]
  /\ Texts(r.answers[e]) = Texts(o.answers[e]) \o reply
  /\ \A i \in DOMAIN r.answers[e] :
       \/ i \in DOMAIN o.answers[e] /\ r.answers[e][i] = o.answers[e][i]
       \/ r.answers[e][i].gen = o.panes[p].gen
  /\ Told(o.answers[e]) => Told(r.answers[e])
  /\ (\E i \in DOMAIN reply : reply[i] = "final") => Told(r.answers[e])

\* What is written to a process follows its earlier answers.
LEMMA WrittenFields ==
  ASSUME NEW o \in Side, NEW p \in Panes, NEW e \in Requests,
         NEW reply \in Seq({"untracked", "final"})
  PROVE  IsWritten(o, Written(o, p, e, reply), p, e, reply)
<1> DEFINE g == o.panes[p].gen
           more == More(o.answers[e], reply, g)
           f == [o.answers EXCEPT ![e] = more]
           r == Written(o, p, e, reply)
<1>1. o.answers \in [Requests -> Seq(Reply)] /\ o.panes[p] \in Pane
  BY SideFields
<1>2. g \in 0 .. MaxGen /\ o.answers[e] \in Seq(Reply)
  BY <1>1, PaneFields
<1>3. /\ more \in Seq(Reply) /\ Texts(more) = Texts(o.answers[e]) \o reply
      /\ \A i \in DOMAIN more :
           \/ i \in DOMAIN o.answers[e] /\ more[i] = o.answers[e][i]
           \/ more[i].gen = g
      /\ Told(o.answers[e]) => Told(more)
      /\ (\E i \in DOMAIN reply : reply[i] = "final") => Told(more)
  <2> HIDE DEF g
  <2> QED BY <1>2, TextsOfMore
<1>4. r = [o EXCEPT !.answers = f]
  BY <1>1 DEF Written, More
<1> HIDE DEF more, r
<1>5. f \in [Requests -> Seq(Reply)] /\ f[e] = more /\ \A y \in Requests \ {e} : f[y] = o.answers[y]
  BY <1>1, <1>3
<1> HIDE DEF f
<1>6. /\ r \in Side /\ r.answers = f /\ r.known = o.known /\ r.panes = o.panes
      /\ r.actions = o.actions /\ r.todo = o.todo
  BY <1>4, <1>5, SetAnswers
<1> QED BY <1>3, <1>5, <1>6 DEF IsWritten, r, g

-----------------------------------------------------------------------------
(* Sends, and the end of a process                                         *)

\* One call
LEMMA OneCall ==
  ASSUME NEW h \in Calls
  PROVE  <<h>> \in Seq(Calls) /\ {<<h>>[i] : i \in DOMAIN <<h>>} = {h}
OBVIOUS

\* Calls on which nothing depends may be left.
LEMMA IdleHolds ==
  ASSUME NEW o, NEW x, Holds(o, x), NEW calls \in Seq(Calls)
  PROVE  Holds(Do(o, calls), x)
<1> DEFINE U == {calls[i] : i \in DOMAIN calls} \union Left(o)
<1>1. Good(o, U, x)
  BY SameGood DEF Holds, Good
<1> QED BY <1>1, DoHolds

\* Calls for every known client are calls.
LEMMA EachClient ==
  ASSUME NEW o \in Side, NEW name \in {"send", "disconnect"}
  PROVE  Each(name, o.known) \in Seq(Calls)
<1>1. o.known \in SUBSET Clients
  BY SideFields
<1>2. IsFiniteSet(o.known) /\ o.known \subseteq Nat
  BY <1>1, FiniteIds
<1>3. \A s \in o.known : <<name, s, 0>> \in Calls
  BY <1>1, <1>2 DEF Calls, Call3, Names
<1>4. name \in Names
  BY DEF Names
<1> QED BY <1>2, <1>3, <1>4, EachFields

\* Broadcast keeps the invariant.
LEMMA BroadcastHolds ==
  ASSUME NEW o, NEW x, Holds(o, x)
  PROVE  Holds(Broadcast(o), x)
<1>1. o \in Side
  BY DEF Holds, Good
<1> QED BY <1>1, EachClient, IdleHolds DEF Broadcast

\* So do the calls that disconnect everybody,
LEMMA DisconnectAllHolds ==
  ASSUME NEW o, NEW x, Holds(o, x)
  PROVE  Holds(Do(o, Each("disconnect", o.known)), x)
<1>1. o \in Side
  BY DEF Holds, Good
<1> QED BY <1>1, EachClient, IdleHolds

\* and what is sent to one client.
LEMMA SendHolds ==
  ASSUME NEW o, NEW x, Holds(o, x), NEW c \in Clients
  PROVE  Holds(Send(o, c), x)
<1>1. <<"disconnect", c, 0>> \in Calls
  BY HostAssumption DEF Calls, Call3, Names
<1>2. Holds(Do(o, <<<<"disconnect", c, 0>>>>), x)
  BY <1>1, OneCall, IdleHolds
<1> QED BY <1>2 DEF Send

\* What the end of p's process leaves, there or not
Stopped(o, p, there) == [o EXCEPT !.panes[p].gen = 0, !.panes[p].there = there]

\* A pane without its process, field by field
LEMMA StoppedFields ==
  ASSUME NEW o \in Side, NEW p \in Panes, NEW there \in BOOLEAN, there => o.panes[p].there
  PROVE  /\ Ended(o, Stopped(o, p, there), p) /\ Stopped(o, p, there).todo = o.todo
         /\ Stopped(o, p, there).panes[p].there = there
<1> DEFINE s == [o.panes[p] EXCEPT !.gen = 0, !.there = there]
           f == [o.panes EXCEPT ![p] = s]
           r == Stopped(o, p, there)
<1>1. o.panes \in [Panes -> Pane] /\ o.panes[p] \in Pane
  BY SideFields
<1>2. /\ s \in Pane /\ s.gen = 0 /\ s.there = there /\ s.last = o.panes[p].last
      /\ s.owners = o.panes[p].owners /\ s.views = o.panes[p].views
      /\ s.persistent = o.panes[p].persistent
  <2>1. 0 \in 0 .. MaxGen
    BY HostAssumption
  <2> QED BY <1>1, <2>1 DEF Pane
<1>3. r = [o EXCEPT !.panes = f]
  BY <1>1 DEF Stopped
<1> HIDE DEF s, r
<1>4. f \in [Panes -> Pane] /\ f[p] = s /\ \A q \in Panes : q # p => f[q] = o.panes[q]
  BY <1>1, <1>2
<1> HIDE DEF f
<1>5. /\ r \in Side /\ r.panes = f /\ r.known = o.known /\ r.actions = o.actions
      /\ r.answers = o.answers /\ r.todo = o.todo
  BY <1>3, <1>4, SetPanes
<1> QED BY <1>2, <1>4, <1>5 DEF Ended, r

\* A process may go: what waited for it need not be honoured any more.
LEMMA StoppedHolds ==
  ASSUME NEW o, NEW x, NEW T, Good(o, T, x), NEW p \in Panes,
         NEW there \in BOOLEAN, there => o.panes[p].there
  PROVE  /\ Good(Stopped(o, p, there), T, x)
         /\ Left(Stopped(o, p, there)) = Left(o)
<1>1. o \in Side
  BY DEF Good
<1>2. Ended(o, Stopped(o, p, there), p) /\ Stopped(o, p, there).todo = o.todo
  BY <1>1, StoppedFields
<1> QED BY <1>2, EndedKeeps DEF Left

\* That a pane's flag stays as it is need not be said.
LEMMA StoppedIs ==
  ASSUME NEW o \in Side, NEW p \in Panes
  PROVE  [o EXCEPT !.panes[p].gen = 0] = Stopped(o, p, o.panes[p].there)
<1> DEFINE s == [o.panes[p] EXCEPT !.gen = 0]
           t == [o.panes[p] EXCEPT !.gen = 0, !.there = o.panes[p].there]
<1>1. o.panes \in [Panes -> Pane] /\ o.panes[p] \in Pane
  BY SideFields
<1>2. s = t
  BY <1>1 DEF Pane
<1>3. [o EXCEPT !.panes[p].gen = 0] = [o EXCEPT !.panes = [o.panes EXCEPT ![p] = s]]
  BY <1>1
<1>4. Stopped(o, p, o.panes[p].there) = [o EXCEPT !.panes = [o.panes EXCEPT ![p] = t]]
  BY <1>1 DEF Stopped
<1> QED BY <1>2, <1>3, <1>4

\* A process that has ended keeps the invariant,
LEMMA ExitedHolds ==
  ASSUME NEW o, NEW x, Holds(o, x), NEW p \in Panes
  PROVE  Holds(Exited(o, p), x)
<1> DEFINE there == o.panes[p].there /\ p \in Remaining
<1>1. o \in Side /\ o.panes[p] \in Pane
  BY GoodFields DEF Holds
<1>2. there \in BOOLEAN /\ (there => o.panes[p].there)
  BY <1>1, PaneFields
<1>3. Exited(o, p) = Broadcast(Stopped(o, p, there))
  <2>1. o.panes \in [Panes -> Pane]
    BY <1>1, SideFields
  <2> QED BY <2>1 DEF Exited, Stopped
<1> HIDE DEF there
<1>4. Holds(Stopped(o, p, there), x)
  BY <1>2, StoppedHolds DEF Holds
<1> QED BY <1>3, <1>4, BroadcastHolds

\* close_pane
LEMMA ClosePaneIs ==
  ASSUME NEW o \in Side, NEW p \in Panes
  PROVE  ClosePane(o, p) = Broadcast(Stopped(o, p, FALSE))
<1> DEFINE s == [o.panes[p] EXCEPT !.there = FALSE, !.gen = 0]
           t == [o.panes[p] EXCEPT !.gen = 0, !.there = FALSE]
<1>1. o.panes \in [Panes -> Pane] /\ o.panes[p] \in Pane
  BY SideFields
<1>2. s = t
  BY <1>1 DEF Pane
<1>3. [o EXCEPT !.panes[p].there = FALSE, !.panes[p].gen = 0]
        = [o EXCEPT !.panes = [o.panes EXCEPT ![p] = s]]
  BY <1>1
<1>4. Stopped(o, p, FALSE) = [o EXCEPT !.panes = [o.panes EXCEPT ![p] = t]]
  BY <1>1 DEF Stopped
<1>5. [o EXCEPT !.panes[p].there = FALSE, !.panes[p].gen = 0] = Stopped(o, p, FALSE)
  BY <1>2, <1>3, <1>4
<1> QED BY <1>5 DEF ClosePane

\* a pane that is closed,
LEMMA ClosePaneHolds ==
  ASSUME NEW o, NEW x, Holds(o, x), NEW p \in Panes
  PROVE  Holds(ClosePane(o, p), x)
<1>1. o \in Side
  BY GoodFields DEF Holds
<1>2. Holds(Stopped(o, p, FALSE), x)
  BY StoppedHolds DEF Holds
<1> QED BY <1>1, <1>2, ClosePaneIs, BroadcastHolds

\* The calls of input_failed
LEMMA FailureCalls ==
  ASSUME NEW p \in Panes
  PROVE  <<<<"broadcast", 0, 0>>, <<"disconnect all", 0, 0>>, <<"exited", p, 0>>>> \in Seq(Calls)
<1> DEFINE a == <<"broadcast", 0, 0>>
           b == <<"disconnect all", 0, 0>>
           c == <<"exited", p, 0>>
<1>1. a \in Calls /\ b \in Calls /\ c \in Calls
  BY HostAssumption DEF Calls, Call3, Names
<1> HIDE DEF a, b, c
<1>2. <<a, b, c>> \in Seq(Calls)
  BY <1>1
<1> QED BY <1>2 DEF a, b, c

\* and an input that fails.
LEMMA InputFailedHolds ==
  ASSUME NEW o, NEW x, Holds(o, x), NEW p \in Panes
  PROVE  Holds(InputFailed(o, p), x)
<1>1. o \in Side /\ o.panes[p] \in Pane
  BY GoodFields DEF Holds
<1>2. o.panes[p].there \in BOOLEAN
  BY <1>1, PaneFields
<1>3. Holds([o EXCEPT !.panes[p].gen = 0], x)
  BY <1>1, <1>2, StoppedIs, StoppedHolds DEF Holds
<1> QED BY <1>3, FailureCalls, IdleHolds DEF InputFailed

-----------------------------------------------------------------------------
(* Replies are queued and written                                          *)

\* The two replies, one by one
LEMMA TwoOf ==
  ASSUME NEW S, NEW a \in Seq(S), NEW b \in Seq(S), Len(a) = 1, Len(b) = 1
  PROVE  /\ a \o b \in Seq(S) /\ Len(a \o b) = 2
         /\ (a \o b)[1] = a[1] /\ (a \o b)[2] = b[1]
<1>1. a \o b \in Seq(S) /\ Len(a \o b) = Len(a) + Len(b)
  BY SMTT(60)
<1>2. 1 \in 1 .. Len(a) /\ 2 \in 1 .. (Len(a) + Len(b)) /\ 2 > Len(a) /\ 2 - Len(a) = 1
  OBVIOUS
<1> QED BY <1>1, <1>2

\* The two in a row are the whole.
LEMMA BothTexts == <<"untracked">> \o <<"final">> = <<"untracked", "final">>
<1> DEFINE S == {"untracked", "final"}
           a == <<"untracked">>
           b == <<"final">>
           c == <<"untracked", "final">>
           d == a \o b
<1>1. /\ a \in Seq(S) /\ b \in Seq(S) /\ Len(a) = 1 /\ Len(b) = 1
      /\ a[1] = "untracked" /\ b[1] = "final"
  OBVIOUS
<1>2. c \in Seq(S) /\ Len(c) = 2 /\ c[1] = "untracked" /\ c[2] = "final"
  OBVIOUS
<1> HIDE DEF a, b, c, S
<1>3. d \in Seq(S) /\ Len(d) = 2 /\ d[1] = a[1] /\ d[2] = b[1]
  BY <1>1, TwoOf
<1> HIDE DEF d
<1>4. \A i \in 1 .. 2 : d[i] = c[i]
  BY <1>1, <1>2, <1>3
<1>5. d = c
  BY <1>2, <1>3, <1>4
<1> QED BY <1>5 DEF a, b, c, d

\* What the invariant says of one pending request
LEMMA RequestFacts ==
  ASSUME NEW o, NEW T, NEW x, Good(o, T, x), NEW e \in DOMAIN o.actions
  PROVE  /\ e \in Requests /\ e < x.next /\ o.actions[e] \in Action
         /\ o.actions[e].pane \in Panes /\ o.actions[e].client \in Clients
         /\ o.actions[e].kind \in Kinds /\ o.actions[e].untracked \in BOOLEAN
         /\ AskedFor(o.actions[e], x.askers[e])
         /\ x.askers[e].pane \in Panes /\ x.askers[e].gen # 0
         /\ Fits(Texts(o.answers[e]), o.actions[e])
         /\ AnswersFit(o.answers[e], x.askers[e])
         /\ e \in x.accepted => HonouredAt(o, x, e)
<1>1. e \in Requests /\ o.actions[e] \in Action
  BY GoodFields
<1>2. e < x.next /\ AskedFor(o.actions[e], x.askers[e])
  BY DEF Good, Asked
<1>3. x.askers[e].pane \in Panes /\ x.askers[e].gen # 0
  BY <1>1, <1>2 DEF Good, Knows
<1>4. Fits(Texts(o.answers[e]), o.actions[e]) /\ AnswersFit(o.answers[e], x.askers[e])
  BY <1>1 DEF Good, Replied
<1>5. e \in x.accepted => HonouredAt(o, x, e)
  BY DEF Good, Honoured
<1> QED BY <1>1, <1>2, <1>3, <1>4, <1>5 DEF Action

\* A process that waits for the reply it is owed is the one that asked.
LEMMA WaitingAlive ==
  ASSUME NEW o, NEW T, NEW x, Good(o, T, x), NEW e \in DOMAIN o.actions, e \in x.accepted,
         Waiting(o, x.askers[e])
  PROVE  OwnerAlive(o, o.actions[e])
<1>1. /\ AskedFor(o.actions[e], x.askers[e]) /\ x.askers[e].gen # 0
      /\ x.askers[e].pane \in Panes /\ HonouredAt(o, x, e)
  BY RequestFacts
<1>2. o.actions[e].gen = x.askers[e].gen /\ o.actions[e].pane = x.askers[e].pane
  BY <1>1 DEF HonouredAt, AskedFor
<1>3. /\ o.panes[x.askers[e].pane].gen = x.askers[e].gen
      /\ ~o.panes[x.askers[e].pane].ending
  BY DEF Waiting
<1>4. o.panes[x.askers[e].pane].there
  BY <1>1, <1>3 DEF Good, Lives
<1> QED BY <1>1, <1>2, <1>3, <1>4 DEF OwnerAlive

\* A request may be forgotten when its process is gone, or was not to be told.
LEMMA ForgetKeeps ==
  ASSUME NEW o, NEW T, NEW x, NEW e \in DOMAIN o.actions,
         Good(o, T \union {<<"deny", e, 0>>}, x),
         \/ ~OwnerAlive(o, o.actions[e])
         \/ o.actions[e].kind # "show"
         \/ Told(o.answers[e])
  PROVE  Good(Forget(o, e), T, x)
<1> DEFINE r == Forget(o, e)
           U == T \union {<<"deny", e, 0>>}
<1> HIDE DEF U
<1>1. Good(o, U, x) /\ o \in Side
  BY DEF Good, U
<1>2. /\ r \in Side /\ r.known = o.known /\ r.panes = o.panes /\ r.answers = o.answers
      /\ DOMAIN r.actions = DOMAIN o.actions \ {e}
      /\ \A y \in DOMAIN r.actions : r.actions[y] = o.actions[y]
  BY <1>1, ForgetFields
<1>3. /\ e \in Requests /\ e < x.next /\ AnswersFit(o.answers[e], x.askers[e])
      /\ AskedFor(o.actions[e], x.askers[e])
      /\ e \in x.accepted => HonouredAt(o, x, e)
  BY <1>1, RequestFacts
<1> HIDE DEF r
<1>4. Moved(o, r, x, e)
  BY <1>2, <1>3 DEF Moved
<1>5. ASSUME e \in x.accepted PROVE HonouredAt(r, x, e)
  <2>1. Waiting(r, x.askers[e]) <=> Waiting(o, x.askers[e])
    BY <1>2 DEF Waiting
  <2>2. Waiting(o, x.askers[e]) => Told(o.answers[e])
    <3>1. Waiting(o, x.askers[e]) => OwnerAlive(o, o.actions[e])
      BY <1>1, <1>5, WaitingAlive
    <3>2. Waiting(o, x.askers[e]) => o.actions[e].kind = "show"
      BY <1>3 DEF Waiting, AskedFor
    <3> QED BY <3>1, <3>2
  <2> QED BY <1>2, <1>3, <2>1, <2>2 DEF HonouredAt
<1>6. Good(r, T, x)
  BY <1>1, <1>2, <1>3, <1>4, <1>5, MovedKeeps DEF U
<1> QED BY <1>6 DEF r

\* What is queued is taken off the queue, for a toast or a process that is gone.
LEMMA ClearedKeeps ==
  ASSUME NEW o, NEW T, NEW x, NEW e \in DOMAIN o.actions, Good(o, T, x),
         Notification(o.actions[e]),
         \/ o.actions[e].kind = "toast" /\ ~Finished(o.actions[e])
         \/ ~OwnerAlive(o, o.actions[e])
  PROVE  LET r == SetReply(o, e, <<>>, o.actions[e].untracked)
         IN  Good(r, T, x) /\ Left(r) = Left(o)
<1> DEFINE r == SetReply(o, e, <<>>, o.actions[e].untracked)
           U == T \union {<<"deny", e, 0>>}
<1>1. o \in Side
  BY DEF Good
<1>2. /\ e \in Requests /\ e < x.next /\ AnswersFit(o.answers[e], x.askers[e])
      /\ AskedFor(o.actions[e], x.askers[e]) /\ o.actions[e].untracked \in BOOLEAN
      /\ Fits(Texts(o.answers[e]), o.actions[e])
      /\ e \in x.accepted => HonouredAt(o, x, e)
  BY RequestFacts
<1>3. /\ r \in Side /\ r.known = o.known /\ r.panes = o.panes /\ r.answers = o.answers
      /\ r.todo = o.todo /\ DOMAIN r.actions = DOMAIN o.actions
      /\ \A y \in DOMAIN o.actions : y # e => r.actions[y] = o.actions[y]
      /\ r.actions[e].kind = o.actions[e].kind /\ r.actions[e].client = o.actions[e].client
      /\ r.actions[e].pane = o.actions[e].pane /\ r.actions[e].gen = o.actions[e].gen
      /\ r.actions[e].reply = <<>> /\ r.actions[e].untracked = o.actions[e].untracked
  <2> DEFINE u == o.actions[e].untracked
  <2>1. <<>> \in Seq({"untracked", "final"}) /\ u \in BOOLEAN
    BY <1>2
  <2>2. r = SetReply(o, e, <<>>, u)
    OBVIOUS
  <2>3. u = o.actions[e].untracked
    OBVIOUS
  <2> HIDE DEF u, r
  <2>4. ReplySet(o, r, e, <<>>, u)
    BY <1>1, <2>1, <2>2, SetReplyFields
  <2> QED BY <2>3, <2>4 DEF ReplySet
<1> HIDE DEF r
<1>4. Fits(Texts(r.answers[e]), r.actions[e])
  <2>1. <<>> # <<"untracked">> /\ <<>> # <<"untracked", "final">> /\ <<>> \in Whole
    BY DEF Whole
  <2> QED BY <1>2, <1>3, <2>1 DEF Fits, Notification
<1>5. Moved(o, r, x, e)
  BY <1>2, <1>3, <1>4 DEF Moved
<1>6. Served(r, T, r.actions[e]) \/ <<"deny", e, 0>> \in T
  <2>1. Served(o, T, o.actions[e]) \/ <<"deny", e, 0>> \in T
    BY DEF Good, Denied
  <2>2. OwnerAlive(r, r.actions[e]) <=> OwnerAlive(o, o.actions[e])
    BY <1>3 DEF OwnerAlive
  <2>3. Notification(r.actions[e])
    BY <1>3 DEF Notification
  <2> QED BY <1>3, <2>1, <2>2, <2>3 DEF Served
<1>7. ASSUME e \in x.accepted PROVE HonouredAt(r, x, e)
  <2>1. Waiting(r, x.askers[e]) <=> Waiting(o, x.askers[e])
    BY <1>3 DEF Waiting
  <2>2. ~Waiting(o, x.askers[e])
    <3>1. Waiting(o, x.askers[e]) => OwnerAlive(o, o.actions[e])
      BY <1>7, WaitingAlive
    <3>2. Waiting(o, x.askers[e]) => o.actions[e].kind = "show"
      BY <1>2 DEF Waiting, AskedFor
    <3> QED BY <3>1, <3>2
  <2> QED BY <1>2, <1>3, <1>7, <2>1, <2>2 DEF HonouredAt
<1>8. Good(o, U, x)
  BY <1>1, SameGood
<1>9. Good(r, T, x)
  BY <1>2, <1>5, <1>6, <1>7, <1>8, MovedKeeps
<1>10. Left(r) = Left(o)
  BY <1>3 DEF Left
<1> QED BY <1>9, <1>10 DEF r

\* rest is o when all that is queued for e is about to be written: e is
\* forgotten if that ends with the final reply.
Rests(o, rest, e) ==
  /\ rest \in Side /\ rest.known = o.known /\ rest.panes = o.panes
  /\ rest.answers = o.answers /\ rest.todo = o.todo
  /\ \A y \in DOMAIN rest.actions \ {e} : rest.actions[y] = o.actions[y]
  /\ IF Finished(o.actions[e]) THEN DOMAIN rest.actions = DOMAIN o.actions \ {e}
     ELSE /\ DOMAIN rest.actions = DOMAIN o.actions
          /\ rest.actions[e].kind = o.actions[e].kind
          /\ rest.actions[e].client = o.actions[e].client
          /\ rest.actions[e].pane = o.actions[e].pane
          /\ rest.actions[e].gen = o.actions[e].gen
          /\ rest.actions[e].untracked = o.actions[e].untracked
          /\ rest.actions[e].reply = <<>>

Paid(o, rest, e) == Written(rest, o.actions[e].pane, e, o.actions[e].reply)

\* Writing the queued reply keeps the invariant.
LEMMA WrittenKeeps ==
  ASSUME NEW o, NEW T, NEW x, NEW e \in DOMAIN o.actions, Good(o, T, x),
         OwnerAlive(o, o.actions[e]), o.actions[e].reply # <<>>,
         NEW rest, Rests(o, rest, e)
  PROVE  Good(Paid(o, rest, e), T, x) /\ Left(Paid(o, rest, e)) = Left(o)
<1> DEFINE a == o.actions[e]
           p == a.pane
           r == Written(rest, p, e, a.reply)
           U == T \union {<<"deny", e, 0>>}
<1>0. /\ rest \in Side /\ rest.known = o.known /\ rest.panes = o.panes
      /\ rest.answers = o.answers /\ rest.todo = o.todo
      /\ \A y \in DOMAIN rest.actions \ {e} : rest.actions[y] = o.actions[y]
      /\ IF Finished(a) THEN DOMAIN rest.actions = DOMAIN o.actions \ {e}
         ELSE /\ DOMAIN rest.actions = DOMAIN o.actions
              /\ rest.actions[e].kind = a.kind /\ rest.actions[e].client = a.client
              /\ rest.actions[e].pane = a.pane /\ rest.actions[e].gen = a.gen
              /\ rest.actions[e].untracked = a.untracked /\ rest.actions[e].reply = <<>>
  BY DEF Rests
<1>1. /\ e \in Requests /\ e < x.next /\ AnswersFit(o.answers[e], x.askers[e])
      /\ AskedFor(a, x.askers[e]) /\ x.askers[e].gen # 0
      /\ a \in Action /\ a.pane \in Panes
      /\ Fits(Texts(o.answers[e]), a)
      /\ e \in x.accepted => HonouredAt(o, x, e)
  BY RequestFacts
<1>2. a.reply \in Seq({"untracked", "final"})
  BY <1>1 DEF Action
<1>3. o.panes[p].gen = x.askers[e].gen
  BY <1>1 DEF OwnerAlive, AskedFor
<1> HIDE DEF a
<1>4. /\ r \in Side /\ r.known = rest.known /\ r.panes = rest.panes
      /\ r.actions = rest.actions /\ r.todo = rest.todo
      /\ \A y \in Requests \ {e} : r.answers[y] = rest.answers[y]
      /\ Texts(r.answers[e]) = Texts(o.answers[e]) \o a.reply
      /\ \A i \in DOMAIN r.answers[e] :
           \/ i \in DOMAIN o.answers[e] /\ r.answers[e][i] = o.answers[e][i]
           \/ r.answers[e][i].gen = x.askers[e].gen
      /\ Told(o.answers[e]) => Told(r.answers[e])
      /\ (\E i \in DOMAIN a.reply : a.reply[i] = "final") => Told(r.answers[e])
  <2>1. r = Written(rest, p, e, a.reply) /\ p \in Panes
    BY <1>1 DEF a
  <2> HIDE DEF p, r
  <2>2. IsWritten(rest, r, p, e, a.reply)
    BY <1>0, <1>1, <1>2, <2>1, WrittenFields
  <2> QED BY <1>0, <1>3, <2>2 DEF IsWritten
<1> HIDE DEF p, r
<1> DEFINE s == Texts(o.answers[e])
<1> HIDE DEF s
<1>5. /\ s \in {<<>>, <<"untracked">>} /\ a.reply \in Whole \ {<<>>}
      /\ s # <<>> => a.untracked /\ a.reply = <<"final">>
      /\ a.reply \in {<<"untracked">>, <<"untracked", "final">>} => a.untracked
      /\ a.kind # "read"
  BY <1>1 DEF Fits, s, a
<1>6. /\ Finished(a) <=> a.reply \in {<<"final">>, <<"untracked", "final">>}
      /\ Finished(a) => \E i \in DOMAIN a.reply : a.reply[i] = "final"
  <2>1. Finished(a) <=> a.reply \in {<<"final">>, <<"untracked", "final">>}
    BY <1>5, WholeTexts DEF Finished
  <2>2. /\ 1 \in DOMAIN <<"final">> /\ <<"final">>[1] = "final"
        /\ 2 \in DOMAIN <<"untracked", "final">> /\ <<"untracked", "final">>[2] = "final"
    OBVIOUS
  <2> QED BY <2>1, <2>2
<1>7. s \o a.reply \in Whole
  <2>1. <<>> \o a.reply = a.reply
    BY <1>2
  <2>2. <<"untracked">> \o <<"final">> = <<"untracked", "final">>
    BY BothTexts
  <2>3. CASE s = <<>>
    BY <1>5, <2>1, <2>3
  <2>4. CASE s # <<>>
    <3>1. s = <<"untracked">> /\ a.reply = <<"final">>
      BY <1>5, <2>4
    <3>2. s \o a.reply = <<"untracked", "final">>
      BY <2>2, <3>1
    <3> QED BY <3>2 DEF Whole
  <2> QED BY <2>3, <2>4
<1>8. AnswersFit(r.answers[e], x.askers[e])
  BY <1>1, <1>4, <1>7 DEF AnswersFit, s
<1>9. e \in DOMAIN r.actions =>
        /\ ~Finished(a) /\ s = <<>> /\ a.reply = <<"untracked">> /\ a.untracked
  <2>1. e \in DOMAIN r.actions => ~Finished(a)
    BY <1>0, <1>4
  <2>2. ~Finished(a) => a.reply = <<"untracked">>
    BY <1>5, <1>6 DEF Whole
  <2>3. <<"untracked">> # <<"final">>
    OBVIOUS
  <2> QED BY <1>5, <2>1, <2>2, <2>3
<1>10. e \in DOMAIN r.actions =>
         /\ r.actions[e].kind = a.kind /\ r.actions[e].client = a.client
         /\ r.actions[e].pane = a.pane /\ r.actions[e].gen = a.gen
         /\ r.actions[e].untracked = a.untracked /\ r.actions[e].reply = <<>>
  BY <1>0, <1>4, <1>9
<1>11. e \in DOMAIN r.actions => Fits(Texts(r.answers[e]), r.actions[e])
  <2>1. <<>> \o <<"untracked">> = <<"untracked">>
    OBVIOUS
  <2>2. e \in DOMAIN r.actions => Texts(r.answers[e]) = <<"untracked">>
    BY <1>4, <1>9, <2>1 DEF s
  <2>3. <<>> # <<"untracked">> /\ <<>> # <<"untracked", "final">> /\ <<>> \in Whole
    BY DEF Whole
  <2> QED BY <1>5, <1>9, <1>10, <2>2, <2>3 DEF Fits
<1>12. Moved(o, r, x, e)
  <2>1. /\ DOMAIN r.actions \subseteq DOMAIN o.actions
        /\ DOMAIN o.actions \ {e} \subseteq DOMAIN r.actions
    BY <1>0, <1>4
  <2>2. e \in DOMAIN r.actions =>
         /\ r.actions[e].kind = o.actions[e].kind /\ r.actions[e].client = o.actions[e].client
         /\ r.actions[e].pane = o.actions[e].pane /\ r.actions[e].gen = o.actions[e].gen
    BY <1>10 DEF a
  <2> QED BY <1>0, <1>4, <1>8, <1>11, <2>1, <2>2 DEF Moved
<1>13. e \in DOMAIN r.actions => Served(r, T, r.actions[e]) \/ <<"deny", e, 0>> \in T
  <2>1. Served(o, T, a) \/ <<"deny", e, 0>> \in T
    BY DEF Good, Denied, a
  <2>2. OwnerAlive(o, a)
    BY DEF a
  <2> QED BY <1>0, <1>4, <1>9, <1>10, <2>1, <2>2 DEF Served
<1>14. ASSUME e \in x.accepted PROVE HonouredAt(r, x, e)
  <2>1. Waiting(r, x.askers[e]) <=> Waiting(o, x.askers[e])
    BY <1>0, <1>4 DEF Waiting
  <2>2. Waiting(o, x.askers[e]) => Told(o.answers[e]) \/ Finished(a)
    BY <1>1, <1>14 DEF HonouredAt, a
  <2>3. e \in DOMAIN r.actions => r.actions[e].gen = x.askers[e].gen
    BY <1>1, <1>10, <1>14 DEF HonouredAt, a
  <2> QED BY <1>1, <1>4, <1>6, <2>1, <2>2, <2>3 DEF HonouredAt
<1>15. Good(o, U, x)
  BY SameGood DEF Good
<1>16. Good(r, T, x)
  BY <1>1, <1>12, <1>13, <1>14, <1>15, MovedKeeps
<1>17. Left(r) = Left(o)
  BY <1>0, <1>4 DEF Left
<1>18. r = Paid(o, rest, e)
  BY DEF r, a, p, Paid
<1> QED BY <1>16, <1>17, <1>18

-----------------------------------------------------------------------------
(* flush_notification_reply, respond_notification and deny_host_events     *)

Replying(f, e, reply, untracked) ==
  [f EXCEPT ![e] = [f[e] EXCEPT !.reply = reply, !.untracked = untracked]]

Stopping(f, p, there) == [f EXCEPT ![p] = [f[p] EXCEPT !.gen = 0, !.there = there]]

\* The queue of a reply as an update of the table
LEMMA ReplyForm ==
  ASSUME NEW o \in Side, NEW e \in DOMAIN o.actions, NEW reply, NEW untracked
  PROVE  SetReply(o, e, reply, untracked)
           = [o EXCEPT !.actions = Replying(o.actions, e, reply, untracked)]
<1>1. o.actions \in [DOMAIN o.actions -> Action]
  BY SideFields, TableFields
<1> QED BY <1>1 DEF SetReply, Replying

\* ... that empties it
LEMMA ClearForm ==
  ASSUME NEW o \in Side, NEW e \in DOMAIN o.actions
  PROVE  [o EXCEPT !.actions[e].reply = <<>>] = SetReply(o, e, <<>>, o.actions[e].untracked)
<1> DEFINE s == [o.actions[e] EXCEPT !.reply = <<>>]
           t == [o.actions[e] EXCEPT !.reply = <<>>, !.untracked = o.actions[e].untracked]
<1>1. o.actions \in [DOMAIN o.actions -> Action] /\ o.actions[e] \in Action
  BY SideFields, TableFields
<1>2. s = t
  BY <1>1 DEF Action
         <1>3. [o EXCEPT !.actions[e].reply = <<>>] = [o EXCEPT !.actions = [o.actions EXCEPT ![e] = s]]
  BY <1>1
<1>4. [o.actions EXCEPT ![e] = t] = Replying(o.actions, e, <<>>, o.actions[e].untracked)
  BY DEF Replying
<1> HIDE DEF s, t
<1> QED BY <1>2, <1>3, <1>4, ReplyForm

\* A process that goes, after the queue was emptied
LEMMA StoppedForm ==
  ASSUME NEW o \in Side, NEW p \in Panes, NEW there
  PROVE  Stopped(o, p, there) = [o EXCEPT !.panes = Stopping(o.panes, p, there)]
<1>1. o.panes \in [Panes -> Pane]
  BY SideFields
<1> QED BY <1>1 DEF Stopped, Stopping

\* The order of the two does not matter.
LEMMA ClearedStopped ==
  ASSUME NEW o \in Side, NEW e \in DOMAIN o.actions, NEW p \in Panes,
         NEW there \in BOOLEAN, there => o.panes[p].there, NEW u \in BOOLEAN
  PROVE  Stopped(SetReply(o, e, <<>>, u), p, there) = SetReply(Stopped(o, p, there), e, <<>>, u)
<1> DEFINE f == Replying(o.actions, e, <<>>, u)
           g == Stopping(o.panes, p, there)
           a == SetReply(o, e, <<>>, u)
           b == Stopped(o, p, there)
<1>1. <<>> \in Seq({"untracked", "final"})
  OBVIOUS
<1>2. ReplySet(o, a, e, <<>>, u) /\ Ended(o, b, p)
  <2>1. ReplySet(o, a, e, <<>>, u)
    BY <1>1, SetReplyFields
  <2>2. Ended(o, b, p)
    BY StoppedFields
  <2> HIDE DEF a, b
  <2> QED BY <2>1, <2>2
<1>3. a = [o EXCEPT !.actions = f] /\ b = [o EXCEPT !.panes = g]
  BY ReplyForm, StoppedForm
<1> HIDE DEF f, g, a, b
<1>4. a \in Side /\ a.panes = o.panes /\ b \in Side /\ b.actions = o.actions
  BY <1>2 DEF ReplySet, Ended
<1>5. Stopped(a, p, there) = [a EXCEPT !.panes = g]
  BY <1>4, StoppedForm DEF g
<1>6. SetReply(b, e, <<>>, u) = [b EXCEPT !.actions = f]
  <2>1. e \in DOMAIN b.actions
    BY <1>4
  <2>2. SetReply(b, e, <<>>, u) = [b EXCEPT !.actions = Replying(b.actions, e, <<>>, u)]
    BY <1>4, <2>1, ReplyForm
  <2> QED BY <1>4, <2>2 DEF f
         <1>7. [[o EXCEPT !.actions = f] EXCEPT !.panes = g] = [[o EXCEPT !.panes = g] EXCEPT !.actions = f]
  BY DEF Side
<1> QED BY <1>3, <1>5, <1>6, <1>7 DEF a, b

\* flush_notification_reply keeps the invariant, whatever the state of the input.
LEMMA FlushHolds ==
  ASSUME NEW o, NEW x, Holds(o, x), NEW e \in DOMAIN o.actions
  PROVE  Holds(Flush(o, e), x)
<1> DEFINE a == o.actions[e]
           p == a.pane
           clear == [o EXCEPT !.actions[e].reply = <<>>]
           rest == IF Finished(a) THEN Forget(o, e) ELSE clear
           T == Left(o)
           U == T \union {<<"deny", e, 0>>}
           u == a.untracked
<1>1. o \in Side /\ Good(o, T, x) /\ Good(o, U, x)
  BY SameGood DEF Holds, Good
<1>2. /\ e \in Requests /\ a \in Action /\ p \in Panes /\ a.kind \in Kinds /\ u \in BOOLEAN
      /\ Fits(Texts(o.answers[e]), a) /\ o.panes[p] \in Pane
  BY <1>1, RequestFacts, GoodFields
<1>3. clear = SetReply(o, e, <<>>, u)
  BY <1>1, ClearForm
<1>4. <<>> \in Seq({"untracked", "final"})
  OBVIOUS
<1>5. ReplySet(o, clear, e, <<>>, u)
  <2> HIDE DEF clear, u
  <2> QED BY <1>1, <1>2, <1>3, <1>4, SetReplyFields
<1>6. /\ Forget(o, e) \in Side /\ Forget(o, e).known = o.known /\ Forget(o, e).panes = o.panes
      /\ Forget(o, e).answers = o.answers /\ Forget(o, e).todo = o.todo
      /\ DOMAIN Forget(o, e).actions = DOMAIN o.actions \ {e}
      /\ \A y \in DOMAIN Forget(o, e).actions : Forget(o, e).actions[y] = o.actions[y]
  BY <1>1, ForgetFields
<1>7. CASE ~OwnerAlive(o, a)
  <2>1. Flush(o, e) = Forget(o, e)
    BY <1>7 DEF Flush
  <2>2. Good(Forget(o, e), T, x)
    BY <1>1, <1>7, ForgetKeeps
  <2> QED BY <1>6, <2>1, <2>2 DEF Holds, Left
<1>8. CASE OwnerAlive(o, a) /\ a.reply = <<>>
  <2>1. Flush(o, e) = o
    BY <1>8 DEF Flush
  <2> QED BY <2>1
<1>9. CASE OwnerAlive(o, a) /\ a.reply # <<>> /\ a.kind = "toast"
  <2>1. Flush(o, e) = rest
    BY <1>9 DEF Flush
  <2>2. CASE Finished(a)
    <3>1. Good(Forget(o, e), T, x)
      BY <1>1, <1>9, ForgetKeeps
    <3> QED BY <1>6, <2>1, <2>2, <3>1 DEF Holds, Left
  <2>3. CASE ~Finished(a)
    <3>1. Notification(a)
      BY <1>9 DEF Notification
    <3>2. Good(clear, T, x) /\ Left(clear) = Left(o)
      <4> HIDE DEF clear
      <4> QED BY <1>1, <1>3, <1>9, <2>3, <3>1, ClearedKeeps
    <3> QED BY <2>1, <2>3, <3>2 DEF Holds
  <2> QED BY <2>2, <2>3
<1>10. CASE OwnerAlive(o, a) /\ a.reply # <<>> /\ a.kind # "toast" /\ o.panes[p].input = "open"
  <2>1. Flush(o, e) = Paid(o, rest, e)
    BY <1>10 DEF Flush, Paid
  <2>2. Rests(o, rest, e)
    <3> HIDE DEF clear
    <3>1. CASE Finished(a)
      BY <1>6, <3>1 DEF Rests
    <3>2. CASE ~Finished(a)
      BY <1>5, <3>2 DEF Rests, ReplySet
    <3> QED BY <3>1, <3>2
  <2> HIDE DEF rest, T
  <2>3. Good(Paid(o, rest, e), T, x) /\ Left(Paid(o, rest, e)) = Left(o)
    <3>1. e \in DOMAIN o.actions /\ Good(o, T, x)
      BY <1>1
    <3>2. OwnerAlive(o, o.actions[e]) /\ o.actions[e].reply # <<>>
      BY <1>10
    <3> QED BY ONLY <2>2, <3>1, <3>2, WrittenKeeps, ZenonT(120)
  <2> QED BY <2>1, <2>3 DEF Holds, T
<1>11. CASE OwnerAlive(o, a) /\ a.reply # <<>> /\ a.kind # "toast" /\ o.panes[p].input = "full"
  <2>1. Flush(o, e) = o
    BY <1>11 DEF Flush
  <2> QED BY <2>1
<1>12. CASE OwnerAlive(o, a) /\ a.reply # <<>> /\ a.kind # "toast" /\ o.panes[p].input = "broken"
  <2> DEFINE there == o.panes[p].there
             s == Stopped(o, p, there)
             r == SetReply(s, e, <<>>, u)
             calls == <<<<"broadcast", 0, 0>>, <<"disconnect all", 0, 0>>, <<"exited", p, 0>>>>
  <2>1. Flush(o, e) = InputFailed(clear, p)
    BY <1>12 DEF Flush
  <2>2. clear \in Side /\ clear.panes = o.panes /\ clear.panes[p].gen # 0
    <3> HIDE DEF clear
    <3> QED BY <1>5, <1>12 DEF ReplySet, OwnerAlive
  <2>3. there \in BOOLEAN
    BY <1>2, PaneFields
  <2>4. InputFailed(clear, p) = Do(Stopped(clear, p, there), calls)
    <3> HIDE DEF clear
    <3>1. [clear EXCEPT !.panes[p].gen = 0] = Stopped(clear, p, there)
      BY <1>2, <2>2, StoppedIs
    <3> QED BY <2>2, <3>1 DEF InputFailed
  <2>5. Stopped(clear, p, there) = r
    <3> HIDE DEF clear
    <3> QED BY <1>1, <1>2, <1>3, <2>3, ClearedStopped
  <2>6. Good(s, T, x) /\ Left(s) = Left(o) /\ Ended(o, s, p)
    BY <1>1, <1>2, <2>3, StoppedHolds, StoppedFields, SMTT(60)
  <2>7. e \in DOMAIN s.actions /\ s.actions[e] = a /\ s.panes[p].gen = 0
    BY <2>6, ZenonT(120) DEF Ended
  <2>8. ~OwnerAlive(s, a) /\ Notification(a)
    <3>1. a.kind # "read"
      BY <1>2, <1>12 DEF Fits
    <3> QED BY <2>7, <3>1 DEF OwnerAlive, Notification
  <2> HIDE DEF s, clear
  <2>9. Good(r, T, x) /\ Left(r) = Left(s)
    BY <2>6, <2>7, <2>8, ClearedKeeps, ZenonT(120)
  <2> HIDE DEF r
  <2>10. Holds(r, x)
    BY <2>6, <2>9 DEF Holds
  <2>11. calls \in Seq(Calls)
    BY <1>2, FailureCalls
  <2> HIDE DEF calls
  <2> QED BY <2>1, <2>4, <2>5, <2>10, <2>11, IdleHolds
<1> QED BY <1>2, <1>7, <1>8, <1>9, <1>10, <1>11, <1>12, PaneFields

\* What respond_notification leaves to flush
Queued(o, e, reply) ==
  [o EXCEPT !.actions[e].reply = Append(@, reply),
            !.actions[e].untracked = @ \/ reply = "untracked"]

\* A reply is appended to those that are queued.
LEMMA QueuedForm ==
  ASSUME NEW o \in Side, NEW e \in DOMAIN o.actions, NEW reply
  PROVE  Queued(o, e, reply) = SetReply(o, e, Append(o.actions[e].reply, reply),
                                        o.actions[e].untracked \/ reply = "untracked")
<1>1. o.actions \in [DOMAIN o.actions -> Action]
  BY SideFields, TableFields
<1> QED BY <1>1 DEF Queued, SetReply

\* The reply that was accepted, if it is the final one
Accepting(x, e) == [x EXCEPT !.accepted = @ \union {e}]

\* The history of one more accepted reply
LEMMA AcceptingContext ==
  ASSUME NEW x \in Contexts, NEW e \in Requests
  PROVE  /\ Accepting(x, e) \in Contexts /\ Accepting(x, e).next = x.next
         /\ Accepting(x, e).askers = x.askers /\ Accepting(x, e).last = x.last
         /\ Accepting(x, e).accepted = x.accepted \union {e}
BY DEF Contexts, Accepting

\* Append by its places
LEMMA AppendPlaces ==
  ASSUME NEW S, NEW a \in Seq(S), NEW v \in S
  PROVE  /\ Append(a, v) \in Seq(S) /\ Len(Append(a, v)) = Len(a) + 1
         /\ \A i \in 1 .. Len(a) : Append(a, v)[i] = a[i]
         /\ Append(a, v)[Len(a) + 1] = v
OBVIOUS

\* A first reply
LEMMA AppendOne ==
  /\ Append(<<>>, "final") = <<"final">>
  /\ Append(<<>>, "untracked") = <<"untracked">>
<1>1. ASSUME NEW v \in {"untracked", "final"} PROVE Append(<<>>, v) = <<v>>
  <2> DEFINE S == {"untracked", "final"}
             a == <<>>
             c == <<v>>
             d == Append(a, v)
  <2>1. a \in Seq(S) /\ Len(a) = 0 /\ c \in Seq(S) /\ Len(c) = 1 /\ c[1] = v /\ v \in S
    BY <1>1
  <2> HIDE DEF a, c, S
  <2>2. d \in Seq(S) /\ Len(d) = Len(a) + 1 /\ d[Len(a) + 1] = v
    BY <2>1, AppendPlaces
  <2> HIDE DEF d
  <2>3. Len(d) = 1 /\ d[1] = v
    BY <2>1, <2>2
  <2>4. d = c
    BY <2>1, <2>2, <2>3
  <2> QED BY <2>4 DEF a, c, d
<1> QED BY <1>1

\* The final reply after the other one
LEMMA AppendIs == Append(<<"untracked">>, "final") = <<"untracked", "final">>
<1> DEFINE S == {"untracked", "final"}
           a == <<"untracked">>
           c == <<"untracked", "final">>
           d == Append(a, "final")
<1>1. a \in Seq(S) /\ Len(a) = 1 /\ a[1] = "untracked" /\ "final" \in S
  OBVIOUS
<1>2. c \in Seq(S) /\ Len(c) = 2 /\ c[1] = "untracked" /\ c[2] = "final"
  OBVIOUS
<1> HIDE DEF a, c, S
<1>3. /\ d \in Seq(S) /\ Len(d) = Len(a) + 1 /\ d[Len(a) + 1] = "final"
      /\ \A i \in 1 .. Len(a) : d[i] = a[i]
  BY <1>1, AppendPlaces, SMTT(60)
<1> HIDE DEF d
<1>4. Len(d) = 2 /\ d[1] = "untracked" /\ d[2] = "final"
  BY <1>1, <1>3
<1>5. \A i \in 1 .. 2 : d[i] = c[i]
  BY <1>2, <1>4
<1>6. d = c
  BY <1>2, <1>3, <1>4, <1>5
<1> QED BY <1>6 DEF a, c, d

\* What is queued stays a whole with one reply more.
LEMMA AppendTexts ==
  ASSUME NEW a \in Whole, ~ (a # <<>> /\ Last(a) = "final")
  PROVE  /\ a \in {<<>>, <<"untracked">>}
         /\ Append(a, "final") \in Whole \ {<<>>} /\ Last(Append(a, "final")) = "final"
         /\ a = <<>> => /\ Append(a, "final") = <<"final">>
                        /\ Append(a, "untracked") = <<"untracked">>
         /\ a = <<"untracked">> => Append(a, "final") = <<"untracked", "final">>
<1>1. a \in {<<>>, <<"untracked">>}
  BY WholeTexts DEF Whole
<1>2. /\ Append(<<>>, "final") = <<"final">> /\ Append(<<>>, "untracked") = <<"untracked">>
      /\ Append(<<"untracked">>, "final") = <<"untracked", "final">>
  BY AppendOne, AppendIs
<1>3. /\ <<"final">> \in Whole /\ <<"untracked", "final">> \in Whole
      /\ <<"final">> # <<>> /\ <<"untracked", "final">> # <<>>
      /\ Last(<<"final">>) = "final" /\ Last(<<"untracked", "final">>) = "final"
  BY DEF Whole, Last
<1>4. CASE a = <<>>
  BY <1>1, <1>2, <1>3, <1>4
<1>5. CASE a = <<"untracked">>
  <2>1. a # <<>>
    BY <1>5
  <2> QED BY <1>1, <1>2, <1>3, <1>5, <2>1
<1> QED BY <1>1, <1>4, <1>5

\* A reply that may be given is queued.
LEMMA QueuedKeeps ==
  ASSUME NEW o, NEW T, NEW x, NEW e \in DOMAIN o.actions,
         Good(o, T \union {<<"deny", e, 0>>}, x), MayReply(o, e),
         NEW reply \in {"untracked", "final"},
         reply = "untracked" => ~o.actions[e].untracked /\ Good(o, T, x)
  PROVE  LET r == Queued(o, e, reply)
         IN  /\ Good(r, T, x) /\ Left(r) = Left(o) /\ e \in DOMAIN r.actions
             /\ reply = "final" => Good(r, T, Accepting(x, e))
<1> DEFINE a == o.actions[e]
           u == a.untracked \/ reply = "untracked"
           new == Append(a.reply, reply)
           r == Queued(o, e, reply)
           U == T \union {<<"deny", e, 0>>}
           y == Accepting(x, e)
<1> HIDE DEF U
<1>1. Good(o, U, x) /\ o \in Side /\ x \in Contexts
  BY DEF Good, U
<1>2. /\ e \in Requests /\ e < x.next /\ AnswersFit(o.answers[e], x.askers[e])
      /\ AskedFor(a, x.askers[e]) /\ a.untracked \in BOOLEAN /\ a \in Action
      /\ Fits(Texts(o.answers[e]), a)
      /\ e \in x.accepted => HonouredAt(o, x, e)
  BY <1>1, RequestFacts
<1>3. /\ Notification(a) /\ OwnerAlive(o, a) /\ ~Finished(a)
      /\ a.reply \in Seq({"untracked", "final"})
  BY <1>2 DEF MayReply, Action
<1>4. /\ a.reply \in {<<>>, <<"untracked">>}
      /\ Append(a.reply, "final") \in Whole \ {<<>>} /\ Last(Append(a.reply, "final")) = "final"
      /\ a.reply = <<>> => /\ Append(a.reply, "final") = <<"final">>
                           /\ Append(a.reply, "untracked") = <<"untracked">>
      /\ a.reply = <<"untracked">> => Append(a.reply, "final") = <<"untracked", "final">>
  <2>1. a.reply \in Whole /\ ~ (a.reply # <<>> /\ Last(a.reply) = "final")
    BY <1>2, <1>3 DEF Fits, Finished
  <2> HIDE DEF a
  <2> QED BY <2>1, AppendTexts
<1>5. new \in Seq({"untracked", "final"}) /\ u \in BOOLEAN
  BY <1>2, <1>3
<1>6. r = SetReply(o, e, new, u)
  BY <1>1, QueuedForm
<1>7. ReplySet(o, r, e, new, u)
  <2> HIDE DEF new, u, r
  <2> QED BY <1>1, <1>5, <1>6, SetReplyFields
<1> HIDE DEF r, a
<1>8. /\ r \in Side /\ r.known = o.known /\ r.panes = o.panes /\ r.answers = o.answers
      /\ r.todo = o.todo /\ DOMAIN r.actions = DOMAIN o.actions
      /\ \A z \in DOMAIN o.actions : z # e => r.actions[z] = o.actions[z]
      /\ r.actions[e].kind = a.kind /\ r.actions[e].client = a.client
      /\ r.actions[e].pane = a.pane /\ r.actions[e].gen = a.gen
      /\ r.actions[e].reply = new /\ r.actions[e].untracked = u
  BY <1>7 DEF ReplySet, a
<1>9. Fits(Texts(r.answers[e]), r.actions[e])
  <2> DEFINE s == Texts(o.answers[e])
  <2> HIDE DEF s
  <2>1. /\ s \in {<<>>, <<"untracked">>} /\ a.kind # "read"
        /\ s # <<>> => a.untracked /\ a.reply \in {<<>>, <<"final">>}
        /\ a.reply = <<"untracked">> => a.untracked
    BY <1>2, <1>3 DEF Fits, s, Notification
  <2>2. /\ <<>> # <<"untracked">> /\ <<>> # <<"untracked", "final">>
        /\ <<"untracked">> # <<"final">> /\ <<"final">> # <<"untracked", "final">>
    OBVIOUS
  <2>3. CASE reply = "final"
    <3>1. s # <<>> => u /\ new = <<"final">>
      BY <1>4, <2>1, <2>2, <2>3
    <3>2. new \in {<<"untracked">>, <<"untracked", "final">>} => u
      BY <1>4, <2>1, <2>2, <2>3
    <3>3. new \in Whole
      BY <1>4, <2>3
    <3> HIDE DEF new, u
    <3> QED BY <1>8, <2>1, <3>1, <3>2, <3>3 DEF Fits, s
  <2>4. CASE reply = "untracked"
    <3>1. a.reply = <<>> /\ s = <<>>
      BY <1>4, <2>1, <2>4 DEF a
    <3>2. new = <<"untracked">> /\ u /\ new \in Whole
      BY <1>4, <2>4, <3>1 DEF Whole
    <3> HIDE DEF new, u
    <3> QED BY <1>8, <2>1, <3>1, <3>2 DEF Fits, s
  <2> QED BY <2>3, <2>4
<1>10. Moved(o, r, x, e)
  BY <1>2, <1>8, <1>9 DEF Moved, a
<1>11. reply = "final" => Finished(r.actions[e])
  BY <1>4, <1>8 DEF Finished
<1>12. Served(r, T, r.actions[e]) \/ <<"deny", e, 0>> \in T
  <2>1. CASE reply = "final"
    BY <1>11, <2>1 DEF Served
  <2>2. CASE reply = "untracked"
    <3>1. Served(o, T, a) \/ <<"deny", e, 0>> \in T
      BY <2>2 DEF Good, Denied, a
    <3>2. OwnerAlive(r, r.actions[e]) <=> OwnerAlive(o, a)
      BY <1>8 DEF OwnerAlive
    <3> QED BY <1>3, <1>8, <3>1, <3>2 DEF Served
  <2> QED BY <2>1, <2>2
<1>13. ASSUME e \in x.accepted PROVE HonouredAt(r, x, e)
  <2>1. Waiting(r, x.askers[e]) <=> Waiting(o, x.askers[e])
    BY <1>8 DEF Waiting
  <2>2. ~Finished(o.actions[e])
    BY <1>3 DEF a
  <2> QED BY <1>2, <1>8, <1>13, <2>1, <2>2 DEF HonouredAt, a
<1>14. Good(r, T, x)
  BY <1>1, <1>2, <1>10, <1>12, <1>13, MovedKeeps DEF U
<1>15. ASSUME reply = "final" PROVE Good(r, T, y)
  <2>1. /\ y \in Contexts /\ y.next = x.next /\ y.askers = x.askers /\ y.last = x.last
        /\ y.accepted = x.accepted \union {e}
    BY <1>1, <1>2, AcceptingContext
  <2> HIDE DEF y
  <2>2. HonouredAt(r, y, e)
    <3>1. a.gen # 0
      BY <1>3 DEF OwnerAlive
    <3>2. r.actions[e].gen = y.askers[e].gen
      BY <1>2, <1>8, <2>1, <3>1 DEF AskedFor
    <3> QED BY <1>2, <1>8, <1>11, <1>15, <2>1, <3>2 DEF HonouredAt
  <2>3. Honoured(r, y)
    BY <1>14, <2>1, <2>2 DEF Good, Honoured, HonouredAt
  <2>4. Lives(r, y) /\ Knows(y) /\ Asked(r, y) /\ Replied(r, y)
    BY <1>14, <2>1 DEF Good, Lives, Knows, Asked, Replied
  <2> QED BY <1>14, <2>1, <2>3, <2>4 DEF Good
<1>16. Left(r) = Left(o)
  BY <1>8 DEF Left
<1>17. e \in DOMAIN r.actions
  BY <1>8
<1> QED BY <1>14, <1>15, <1>16, <1>17 DEF r

-----------------------------------------------------------------------------
(* respond_notification, retire_notification and deny_host_events            *)

\* A denial is needed only for what waits for the gone.
LEMMA DenySpent ==
  ASSUME NEW o, NEW T, NEW x, NEW e, Good(o, T \union {<<"deny", e, 0>>}, x),
         e \in DOMAIN o.actions => Served(o, T, o.actions[e])
  PROVE  Good(o, T, x)
<1>1. Denied(o, T)
  <2>1. ASSUME NEW y \in DOMAIN o.actions
        PROVE  Served(o, T, o.actions[y]) \/ <<"deny", y, 0>> \in T
    <3>1. CASE y = e
      BY <3>1
    <3>2. CASE y # e
      <4>1. <<"deny", y, 0>> # <<"deny", e, 0>> /\ \A c : <<"deny client", c, 0>> # <<"deny", e, 0>>
        BY <3>2
      <4> QED BY <4>1 DEF Good, Denied, Served
    <3> QED BY <3>1, <3>2
  <2> QED BY <2>1 DEF Denied
<1>2. \A c, p : /\ <<"give back", c, 0>> # <<"deny", e, 0>>
                /\ <<"release view", c, p>> # <<"deny", e, 0>>
                /\ <<"unview", c, p>> # <<"deny", e, 0>>
                /\ <<"close ephemeral", p, 0>> # <<"deny", e, 0>>
  OBVIOUS
<1>3. Vacated(o, T)
  BY <1>2 DEF Good, Vacated
<1>4. Leased(o, T)
  BY <1>2 DEF Good, Leased
<1> QED BY <1>1, <1>3, <1>4 DEF Good

\* respond_notification keeps the invariant, with the reply among the accepted.
LEMMA RespondHolds ==
  ASSUME NEW o, NEW x, NEW e, Good(o, Left(o) \union {<<"deny", e, 0>>}, x),
         NEW reply \in {"untracked", "final"},
         Holds(o, x) \/ (reply = "final" /\ (e \in DOMAIN o.actions => Notification(o.actions[e])))
  PROVE  /\ Holds(Respond(o, e, reply), x)
         /\ reply = "final" /\ MayReply(o, e) => Holds(Respond(o, e, reply), Accepting(x, e))
<1> DEFINE T == Left(o)
           r == Queued(o, e, reply)
           y == Accepting(x, e)
<1>1. CASE ~MayReply(o, e) \/ (reply = "untracked" /\ o.actions[e].untracked)
  <2>1. Respond(o, e, reply) = o
    BY <1>1 DEF Respond
  <2>2. CASE Holds(o, x)
    BY <1>1, <2>1, <2>2
  <2>3. CASE reply = "final" /\ (e \in DOMAIN o.actions => Notification(o.actions[e]))
    <3>1. e \in DOMAIN o.actions => Served(o, T, o.actions[e])
      BY <1>1, <2>3 DEF MayReply, Served
    <3>2. Good(o, T, x)
      BY <3>1, DenySpent
    <3> QED BY <1>1, <2>1, <2>3, <3>2 DEF Holds
  <2> QED BY <2>2, <2>3
<1>2. CASE MayReply(o, e) /\ ~ (reply = "untracked" /\ o.actions[e].untracked)
  <2>1. Respond(o, e, reply) = Flush(r, e)
    BY <1>2 DEF Respond, Queued
  <2>2. e \in DOMAIN o.actions
    BY <1>2 DEF MayReply
  <2>3. reply = "untracked" => ~o.actions[e].untracked /\ Good(o, T, x)
    BY <1>2 DEF Holds
  <2>4. /\ Good(r, T, x) /\ Left(r) = Left(o) /\ e \in DOMAIN r.actions
        /\ reply = "final" => Good(r, T, y)
    BY <1>2, <2>2, <2>3, QueuedKeeps
  <2> HIDE DEF r, y
  <2>5. Holds(r, x) /\ (reply = "final" => Holds(r, y))
    BY <2>4 DEF Holds
  <2>6. Holds(Flush(r, e), x) /\ (reply = "final" => Holds(Flush(r, e), y))
    BY <2>4, <2>5, FlushHolds
  <2> QED BY <2>1, <2>6 DEF y
<1> QED BY <1>1, <1>2

\* A clipboard read may be forgotten,
LEMMA ForgetHolds ==
  ASSUME NEW o, NEW x, NEW e \in DOMAIN o.actions,
         Good(o, Left(o) \union {<<"deny", e, 0>>}, x),
         ~OwnerAlive(o, o.actions[e]) \/ o.actions[e].kind # "show"
  PROVE  Holds(Forget(o, e), x)
<1>1. Good(Forget(o, e), Left(o), x)
  BY ForgetKeeps
<1>2. Left(Forget(o, e)) = Left(o)
  <2>1. o \in Side
    BY DEF Good
  <2>2. Forget(o, e).todo = o.todo
    BY <2>1, ForgetFields
  <2> QED BY <2>2 DEF Left
<1> QED BY <1>1, <1>2 DEF Holds

\* or answered,
LEMMA AnsweredHolds ==
  ASSUME NEW o, NEW x, NEW e \in DOMAIN o.actions,
         Good(o, Left(o) \union {<<"deny", e, 0>>}, x), ~Notification(o.actions[e])
  PROVE  Holds(Answered(o, e), x)
<1> DEFINE T == Left(o)
           U == T \union {<<"deny", e, 0>>}
           f == Forget(o, e)
           p == o.actions[e].pane
           r == Written(f, p, e, <<"final">>)
<1>1. /\ e \in Requests /\ e < x.next /\ p \in Panes /\ o.actions[e].kind \in Kinds
      /\ AskedFor(o.actions[e], x.askers[e]) /\ Fits(Texts(o.answers[e]), o.actions[e])
  BY RequestFacts
<1>2. o.actions[e].kind = "read" /\ x.askers[e].kind = "read" /\ Texts(o.answers[e]) = <<>>
  BY <1>1 DEF Notification, Fits, AskedFor
<1>3. Holds(f, x)
  BY <1>2, ForgetHolds
<1>4. o \in Side
  BY DEF Good
<1>5. f \in Side /\ e \notin DOMAIN f.actions /\ f.answers = o.answers /\ f.todo = o.todo
  BY <1>4, ForgetFields
<1>6. <<"final">> \in Seq({"untracked", "final"}) /\ <<>> \o <<"final">> = <<"final">>
  OBVIOUS
<1> HIDE DEF f, p, T, U
<1>7. IsWritten(f, r, p, e, <<"final">>)
  BY <1>1, <1>5, <1>6, WrittenFields
<1> HIDE DEF r
<1>8. /\ r \in Side /\ r.known = f.known /\ r.panes = f.panes /\ r.actions = f.actions
      /\ r.todo = f.todo /\ \A y \in Requests \ {e} : r.answers[y] = f.answers[y]
      /\ Texts(r.answers[e]) = <<"final">>
  BY <1>2, <1>5, <1>6, <1>7 DEF IsWritten
<1>9. AnswersFit(r.answers[e], x.askers[e])
  BY <1>2, <1>8 DEF AnswersFit, Whole
<1>10. Moved(f, r, x, e)
  BY <1>5, <1>8, <1>9 DEF Moved
<1>11. HonouredAt(r, x, e)
  BY <1>1, <1>2, <1>5, <1>8 DEF HonouredAt, Waiting
<1>12. Good(f, T \union {<<"deny", e, 0>>}, x)
  <2>1. Left(f) = T
    BY <1>5 DEF Left, T
  <2> QED BY <1>3, <1>5, <2>1, SameGood DEF Holds
<1>13. Good(r, T, x)
  BY <1>1, <1>5, <1>8, <1>10, <1>11, <1>12, MovedKeeps
<1>14. Left(r) = T
  BY <1>5, <1>8 DEF Left, T
<1> QED BY <1>13, <1>14 DEF Holds, Answered, r, f, p

\* and every request denied.
LEMMA DenyHolds ==
  ASSUME NEW o, NEW x, NEW e, Good(o, Left(o) \union {<<"deny", e, 0>>}, x)
  PROVE  Holds(Deny(o, e), x)
<1> DEFINE a == o.actions[e]
           p == a.pane
<1>1. CASE e \notin DOMAIN o.actions
  BY <1>1, DenySpent DEF Deny, Holds
<1>2. CASE e \in DOMAIN o.actions /\ Notification(a)
  <2>1. Deny(o, e) = Retire(o, e)
    BY <1>2 DEF Deny
  <2>2. CASE ~OwnerAlive(o, a)
    BY <1>2, <2>1, <2>2, ForgetHolds DEF Retire
  <2>3. CASE OwnerAlive(o, a)
    <3>1. Holds(Respond(o, e, "final"), x)
      BY <1>2, RespondHolds
    <3> QED BY <2>1, <2>3, <3>1 DEF Retire
  <2> QED BY <2>2, <2>3
<1>3. CASE e \in DOMAIN o.actions /\ ~Notification(a)
  <2>1. Holds(Forget(o, e), x)
    BY <1>3, ForgetHolds DEF Notification
  <2>2. p \in Panes
    BY <1>3, RequestFacts
  <2>3. Holds(InputFailed(Forget(o, e), p), x)
    BY <2>1, <2>2, InputFailedHolds
  <2>4. Holds(Answered(o, e), x)
    BY <1>3, AnsweredHolds
  <2> QED BY <1>3, <2>1, <2>3, <2>4 DEF Deny
<1> QED BY <1>1, <1>2, <1>3

-----------------------------------------------------------------------------
(* A client goes: its views, its requests and its leases (disconnect_host)   *)

\* One pane changes.
SetPane(o, p, s) == [o EXCEPT !.panes[p] = s]

\* r is o with that.
PaneIs(o, r, p, s) ==
  /\ r \in Side /\ r.known = o.known /\ r.actions = o.actions
  /\ r.answers = o.answers /\ r.todo = o.todo
  /\ r.panes[p] = s /\ \A q \in Panes : q # p => r.panes[q] = o.panes[q]

\* One pane is replaced and the others stay.
LEMMA SetPaneFields ==
  ASSUME NEW o \in Side, NEW p \in Panes, NEW s \in Pane
  PROVE  PaneIs(o, SetPane(o, p, s), p, s) /\ Left(SetPane(o, p, s)) = Left(o)
<1> DEFINE f == [o.panes EXCEPT ![p] = s]
           r == SetPane(o, p, s)
<1>1. o.panes \in [Panes -> Pane]
  BY SideFields
<1>2. r = [o EXCEPT !.panes = f]
  BY DEF SetPane
<1>3. f \in [Panes -> Pane] /\ f[p] = s /\ \A q \in Panes : q # p => f[q] = o.panes[q]
  BY <1>1
<1> HIDE DEF f, r
<1>4. /\ r \in Side /\ r.panes = f /\ r.known = o.known /\ r.actions = o.actions
      /\ r.answers = o.answers /\ r.todo = o.todo
  BY <1>2, <1>3, SetPanes
<1> QED BY <1>3, <1>4 DEF PaneIs, Left, r

\* Other calls may take over.
LEMMA HandedOver ==
  ASSUME NEW o, NEW T, NEW x, Good(o, T, x), NEW U,
         Denied(o, U), Vacated(o, U), Leased(o, U)
  PROVE  Good(o, U, x)
BY DEF Good

\* A set of requests is denied.
LEMMA DenyCalls ==
  ASSUME NEW S \in SUBSET Requests
  PROVE  /\ Each("deny", S) \in Seq(Calls)
         /\ {Each("deny", S)[i] : i \in DOMAIN Each("deny", S)} = {<<"deny", e, 0>> : e \in S}
<1>1. IsFiniteSet(S) /\ S \subseteq Nat
  BY FiniteIds
<1>2. \A e \in S : <<"deny", e, 0>> \in Calls
  BY <1>1 DEF Calls, Call3, Names
<1>3. "deny" \in Names
  BY DEF Names
<1> QED BY <1>1, <1>2, <1>3, EachFields

\* The requests of one client are denied, each by a call of its own.
LEMMA DenyClientHolds ==
  ASSUME NEW o, NEW x, NEW c \in Clients, Good(o, Left(o) \union {<<"deny client", c, 0>>}, x)
  PROVE  Holds(DenyClient(o, c), x)
<1> DEFINE S == {e \in DOMAIN o.actions : o.actions[e].client = c}
           T == Left(o)
           calls == Each("deny", S)
           U == {calls[i] : i \in DOMAIN calls} \union T
<1>1. S \in SUBSET Requests
  BY GoodFields
<1>2. DenyClient(o, c) = Do(o, calls)
  BY DEF DenyClient, EventsOf
<1> HIDE DEF S
<1>3. calls \in Seq(Calls) /\ {calls[i] : i \in DOMAIN calls} = {<<"deny", e, 0>> : e \in S}
  BY <1>1, DenyCalls
<1> HIDE DEF calls
<1>4. \A name, a, b : name # "deny client" /\ <<name, a, b>> \in T \union {<<"deny client", c, 0>>}
                        => <<name, a, b>> \in T
  OBVIOUS
<1>5. Denied(o, U)
  <2>1. ASSUME NEW e \in DOMAIN o.actions
        PROVE  Served(o, U, o.actions[e]) \/ <<"deny", e, 0>> \in U
    <3>1. CASE o.actions[e].client = c
      BY <1>3, <3>1 DEF S
    <3>2. CASE o.actions[e].client # c
      BY <3>2 DEF Good, Denied, Served
    <3> QED BY <3>1, <3>2
  <2> QED BY <2>1 DEF Denied
<1>6. Vacated(o, U)
  BY <1>4 DEF Good, Vacated
<1>7. Leased(o, U)
  BY <1>4 DEF Good, Leased
<1>8. Good(o, U, x)
  BY <1>5, <1>6, <1>7, HandedOver
<1> HIDE DEF T
<1> QED BY <1>2, <1>3, <1>8, DoHolds DEF T

\* release_view_state: who views the pane is told so before the view goes.
LEMMA ReleaseViewHolds ==
  ASSUME NEW o, NEW x, NEW c \in Clients, NEW p \in Panes,
         Good(o, Left(o) \union {<<"release view", c, p>>}, x)
  PROVE  Holds(ReleaseView(o, c, p), x)
<1> DEFINE S == {e \in DOMAIN o.actions :
                   LET a == o.actions[e] IN a.client = c /\ a.pane = p /\ Notification(a)}
           T == Left(o)
           deny == Each("deny", S)
           one == <<<<"unview", c, p>>>>
           calls == deny \o one
           U == {calls[i] : i \in DOMAIN calls} \union T
<1>1. S \in SUBSET Requests
  BY GoodFields
<1>2. ReleaseView(o, c, p) = Do(o, calls)
  BY DEF ReleaseView, EventsOf
<1> HIDE DEF S
<1>3. deny \in Seq(Calls)
  BY <1>1, DenyCalls
<1>4. <<"unview", c, p>> \in Calls
  BY HostAssumption DEF Calls, Call3, Names
<1>5. one \in Seq(Calls) /\ {one[i] : i \in DOMAIN one} = {<<"unview", c, p>>}
  BY <1>4, OneCall
<1> HIDE DEF deny, one
<1>6. /\ calls \in Seq(Calls)
      /\ {calls[i] : i \in DOMAIN calls}
           = {deny[i] : i \in DOMAIN deny} \union {one[i] : i \in DOMAIN one}
  BY <1>3, <1>5, JoinedCalls
<1> HIDE DEF calls
<1>7. T \subseteq U /\ <<"unview", c, p>> \in U
  BY <1>5, <1>6
<1> HIDE DEF U
<1>8. \A name, a, b : name # "release view" /\ <<name, a, b>> \in T \union {<<"release view", c, p>>}
                        => <<name, a, b>> \in U
  BY <1>7
<1>9. \A a, b : <<"release view", a, b>> \in T \union {<<"release view", c, p>>}
                  => <<"release view", a, b>> \in U \/ <<"unview", a, b>> \in U
  BY <1>7
<1>10. Denied(o, U)
  BY <1>8 DEF Good, Denied, Served
<1>11. Vacated(o, U)
  BY <1>8, <1>9 DEF Good, Vacated
<1>12. Leased(o, U)
  BY <1>8 DEF Good, Leased
<1>13. Good(o, U, x)
  BY <1>10, <1>11, <1>12, HandedOver
<1> HIDE DEF T
<1> QED BY <1>2, <1>6, <1>13, DoHolds DEF T, U

\* Nobody more waits for the gone when only leases and views change.
LEMMA DeniedStays ==
  ASSUME NEW o, NEW T, NEW x, Good(o, T, x), NEW r, Changed(o, r), r.known = o.known
  PROVE  Denied(r, T)
<1>1. \A e \in DOMAIN o.actions : o.actions[e].pane \in Panes
  BY GoodFields DEF Action
<1>2. \A e \in DOMAIN o.actions : OwnerAlive(r, o.actions[e]) <=> OwnerAlive(o, o.actions[e])
  BY <1>1 DEF Changed, OwnerAlive
<1> QED BY <1>2 DEF Good, Changed, Denied, Served

\* The view goes.
LEMMA UnviewHolds ==
  ASSUME NEW o, NEW x, NEW c \in Clients, NEW p \in Panes,
         Good(o, Left(o) \union {<<"unview", c, p>>}, x)
  PROVE  Holds([o EXCEPT !.panes[p].views = @ \ {c}], x)
<1> DEFINE T == Left(o)
           s == [o.panes[p] EXCEPT !.views = @ \ {c}]
           r == SetPane(o, p, s)
<1>1. o \in Side /\ o.panes \in [Panes -> Pane]
  BY SideFields DEF Good
<1>2. r = [o EXCEPT !.panes[p].views = @ \ {c}]
  BY <1>1 DEF SetPane
<1>3. /\ s \in Pane /\ s.there = o.panes[p].there /\ s.gen = o.panes[p].gen
      /\ s.last = o.panes[p].last /\ s.ending = o.panes[p].ending
      /\ s.owners = o.panes[p].owners /\ s.persistent = o.panes[p].persistent
      /\ s.views = o.panes[p].views \ {c}
  BY <1>1 DEF Pane
<1> HIDE DEF s, r
<1>4. PaneIs(o, r, p, s) /\ Left(r) = Left(o)
  BY <1>1, <1>3, SetPaneFields DEF r
<1>5. Changed(o, r)
  BY <1>3, <1>4 DEF PaneIs, Changed
<1>6. \A name, a, b : name # "unview" /\ <<name, a, b>> \in T \union {<<"unview", c, p>>}
                        => <<name, a, b>> \in T
  OBVIOUS
<1>7. \A a, b : <<"unview", a, b>> \in T \union {<<"unview", c, p>>}
                  => <<"unview", a, b>> \in T \/ (a = c /\ b = p)
  OBVIOUS
<1> HIDE DEF T
<1>8. Denied(r, T)
  <2>1. Denied(r, T \union {<<"unview", c, p>>})
    BY <1>4, <1>5, DeniedStays DEF PaneIs, T
  <2> QED BY <1>6, <2>1 DEF Denied, Served
<1>9. Vacated(r, T)
  <2>1. ASSUME NEW q \in Panes, NEW d \in r.panes[q].views
        PROVE  d \in r.known \/ <<"release view", d, q>> \in T \/ <<"unview", d, q>> \in T
    <3>1. d \in o.panes[q].views /\ ~ (d = c /\ q = p)
      BY <1>3, <1>4, <2>1 DEF PaneIs
    <3> QED BY <1>4, <1>6, <1>7, <3>1 DEF Good, Vacated, PaneIs, T
  <2>2. ASSUME NEW q \in Panes, NEW d \in r.panes[q].owners
        PROVE  d \in r.known \/ <<"give back", d, 0>> \in T
    <3>1. d \in o.panes[q].owners
      BY <1>3, <1>4, <2>2 DEF PaneIs
    <3> QED BY <1>4, <1>6, <3>1 DEF Good, Vacated, PaneIs, T
  <2> QED BY <2>1, <2>2 DEF Vacated
<1>10. Leased(r, T)
  BY <1>3, <1>4, <1>6 DEF Good, Leased, PaneIs, T
<1>11. Good(r, T, x)
  BY <1>5, <1>8, <1>9, <1>10, ChangedKeeps
<1> QED BY <1>2, <1>4, <1>11 DEF Holds, T

\* A set of panes is looked at.
LEMMA CloseCalls ==
  ASSUME NEW S \in SUBSET Panes
  PROVE  /\ Each("close ephemeral", S) \in Seq(Calls)
         /\ {Each("close ephemeral", S)[i] : i \in DOMAIN Each("close ephemeral", S)}
              = {<<"close ephemeral", p, 0>> : p \in S}
<1>1. IsFiniteSet(S) /\ S \subseteq Nat
  BY FiniteIds
<1>2. \A p \in S : <<"close ephemeral", p, 0>> \in Calls
  BY <1>1 DEF Calls, Call3, Names
<1>3. "close ephemeral" \in Names
  BY DEF Names
<1> QED BY <1>1, <1>2, <1>3, EachFields

\* A client's leases are given back; the panes it held alone are to be closed.
LEMMA GiveBackHolds ==
  ASSUME NEW o, NEW x, NEW c \in Clients, Good(o, Left(o) \union {<<"give back", c, 0>>}, x)
  PROVE  Holds(GiveBack(o, c), x)
<1> DEFINE S == {p \in Panes : o.panes[p].owners = {c}}
           T == Left(o)
           h == <<"give back", c, 0>>
           f == [p \in Panes |-> [o.panes[p] EXCEPT !.owners = @ \ {c}]]
           r == [o EXCEPT !.panes = f]
           calls == Each("close ephemeral", S)
           R == {calls[i] : i \in DOMAIN calls}
           U == R \union T
<1>1. o \in Side /\ o.panes \in [Panes -> Pane]
  BY SideFields DEF Good
<1>2. GiveBack(o, c) = Do(r, calls)
  BY DEF GiveBack
<1>3. /\ calls \in Seq(Calls)
      /\ {calls[i] : i \in DOMAIN calls} = {<<"close ephemeral", p, 0>> : p \in S}
  <2>1. S \in SUBSET Panes
    OBVIOUS
  <2> HIDE DEF S
  <2> QED BY <2>1, CloseCalls
<1> HIDE DEF calls
<1>4. /\ f \in [Panes -> Pane]
      /\ \A p \in Panes :
           /\ f[p].there = o.panes[p].there /\ f[p].gen = o.panes[p].gen
           /\ f[p].last = o.panes[p].last /\ f[p].ending = o.panes[p].ending
           /\ f[p].persistent = o.panes[p].persistent /\ f[p].views = o.panes[p].views
           /\ f[p].owners = o.panes[p].owners \ {c}
  <2>1. ASSUME NEW p \in Panes PROVE o.panes[p] \in Pane
    BY <1>1
  <2>2. ASSUME NEW s \in Pane
        PROVE  LET t == [s EXCEPT !.owners = @ \ {c}]
               IN  /\ t \in Pane /\ t.there = s.there /\ t.gen = s.gen /\ t.last = s.last
                   /\ t.ending = s.ending /\ t.persistent = s.persistent
                   /\ t.views = s.views /\ t.owners = s.owners \ {c}
    BY DEF Pane
  <2>3. \A p \in Panes : f[p] = [o.panes[p] EXCEPT !.owners = @ \ {c}]
    OBVIOUS
  <2>4. ASSUME NEW p \in Panes
        PROVE  /\ f[p] \in Pane /\ f[p].there = o.panes[p].there /\ f[p].gen = o.panes[p].gen
               /\ f[p].last = o.panes[p].last /\ f[p].ending = o.panes[p].ending
               /\ f[p].persistent = o.panes[p].persistent /\ f[p].views = o.panes[p].views
               /\ f[p].owners = o.panes[p].owners \ {c}
    <3> DEFINE g == f[p]
    <3>1. g = [o.panes[p] EXCEPT !.owners = @ \ {c}]
      OBVIOUS
    <3> HIDE DEF g
    <3>2. /\ g \in Pane /\ g.there = o.panes[p].there /\ g.gen = o.panes[p].gen
          /\ g.last = o.panes[p].last /\ g.ending = o.panes[p].ending
          /\ g.persistent = o.panes[p].persistent /\ g.views = o.panes[p].views
          /\ g.owners = o.panes[p].owners \ {c}
      BY <2>1, <2>2, <3>1
    <3> QED BY <3>2 DEF g
  <2>5. f = [p \in Panes |-> f[p]]
    OBVIOUS
  <2> HIDE DEF f
  <2> QED BY <2>4, <2>5
<1> HIDE DEF f
<1>5. /\ r \in Side /\ r.panes = f /\ r.known = o.known /\ r.actions = o.actions
      /\ r.answers = o.answers /\ r.todo = o.todo
  BY <1>1, <1>4, SetPanes
<1> HIDE DEF r
<1>6. Changed(o, r)
  BY <1>4, <1>5 DEF Changed
<1>7. /\ \A name, a, b : name # "give back" /\ <<name, a, b>> \in T \union {h}
                           => <<name, a, b>> \in U
      /\ \A a : <<"give back", a, 0>> \in T \union {h} => <<"give back", a, 0>> \in U \/ a = c
  OBVIOUS
<1>8. \A p \in S : <<"close ephemeral", p, 0>> \in U
  <2>1. \A p \in S : <<"close ephemeral", p, 0>> \in R
    BY <1>3
  <2> HIDE DEF R
  <2> QED BY <2>1
<1> HIDE DEF R, T, U, h
<1>9. Good(o, T \union {h}, x)
  BY DEF T, h
<1>10. Denied(r, U)
  <2>1. Denied(r, T \union {h})
    BY <1>5, <1>6, <1>9, DeniedStays
  <2> QED BY <1>7, <2>1 DEF Denied, Served
<1>11. Vacated(r, U)
  <2>1. ASSUME NEW p \in Panes, NEW d \in r.panes[p].owners
        PROVE  d \in r.known \/ <<"give back", d, 0>> \in U
    <3>1. d \in o.panes[p].owners /\ d # c
      BY <1>4, <1>5, <2>1, ZenonT(120)
    <3>2. d \in o.known \/ <<"give back", d, 0>> \in T \union {h}
      BY <1>9, <3>1 DEF Good, Vacated
    <3> QED BY <1>5, <1>7, <3>1, <3>2
  <2>2. ASSUME NEW p \in Panes, NEW d \in r.panes[p].views
        PROVE  d \in r.known \/ <<"release view", d, p>> \in U \/ <<"unview", d, p>> \in U
    <3>1. d \in o.panes[p].views
      BY <1>4, <1>5, <2>2
    <3>2. \/ d \in o.known \/ <<"release view", d, p>> \in T \union {h}
          \/ <<"unview", d, p>> \in T \union {h}
      BY <1>9, <3>1 DEF Good, Vacated
    <3> QED BY <1>5, <1>7, <3>2
  <2> QED BY <2>1, <2>2 DEF Vacated
<1>12. Leased(r, U)
  <2>1. ASSUME NEW p \in Panes, r.panes[p].there, ~r.panes[p].persistent, r.panes[p].owners = {}
        PROVE  <<"close ephemeral", p, 0>> \in U
    <3>1. /\ o.panes[p].there /\ ~o.panes[p].persistent
          /\ o.panes[p].owners = {} \/ o.panes[p].owners = {c}
      <4>1. /\ o.panes[p].there /\ ~o.panes[p].persistent
            /\ o.panes[p].owners \ {c} = {}
        BY <1>4, <1>5, <2>1
      <4>2. \A D : D \ {c} = {} => D = {} \/ D = {c}
        OBVIOUS
      <4> QED BY <4>1, <4>2
    <3>2. CASE o.panes[p].owners = {c}
      BY <1>8, <3>2
    <3>3. CASE o.panes[p].owners = {}
      <4>1. <<"close ephemeral", p, 0>> \in T \union {h}
        BY <1>9, <3>1, <3>3 DEF Good, Leased
      <4> QED BY <1>7, <4>1
    <3> QED BY <3>1, <3>2, <3>3
  <2> QED BY <2>1 DEF Leased
<1>13. Good(r, U, x)
  BY <1>6, <1>9, <1>10, <1>11, <1>12, ChangedKeeps
<1>14. Left(r) = T
  BY <1>5 DEF Left, T
<1>15. Good(r, R \union Left(r), x)
  BY <1>13, <1>14 DEF U
<1> QED BY <1>2, <1>3, <1>15, DoHolds DEF R

\* release_ephemeral
LEMMA CloseEphemeralHolds ==
  ASSUME NEW o, NEW x, NEW p \in Panes, Good(o, Left(o) \union {<<"close ephemeral", p, 0>>}, x)
  PROVE  Holds(CloseEphemeral(o, p), x)
<1> DEFINE T == Left(o)
           h == <<"close ephemeral", p, 0>>
           r == Stopped(o, p, FALSE)
<1>1. o \in Side
  BY DEF Good
<1>2. /\ \A name, a, b : name # "close ephemeral" /\ <<name, a, b>> \in T \union {h}
                           => <<name, a, b>> \in T
      /\ \A a : <<"close ephemeral", a, 0>> \in T \union {h}
                  => <<"close ephemeral", a, 0>> \in T \/ a = p
  OBVIOUS
<1>3. ASSUME NEW q, Good(q, T \union {h}, x),
             q.panes[p].owners # {} \/ ~q.panes[p].there \/ q.panes[p].persistent
      PROVE  Good(q, T, x)
  <2>1. Denied(q, T)
    BY <1>2, <1>3 DEF Good, Denied, Served
  <2>2. Vacated(q, T)
    BY <1>2, <1>3 DEF Good, Vacated
  <2>3. Leased(q, T)
    BY <1>2, <1>3 DEF Good, Leased
  <2> QED BY <1>3, <2>1, <2>2, <2>3, HandedOver
<1>4. CASE o.panes[p].owners # {} \/ ~o.panes[p].there \/ o.panes[p].persistent
  <2>1. CloseEphemeral(o, p) = o
    BY <1>4 DEF CloseEphemeral
  <2> QED BY <1>3, <1>4, <2>1 DEF Holds
<1>5. CASE ~ (o.panes[p].owners # {} \/ ~o.panes[p].there \/ o.panes[p].persistent)
  <2>1. CloseEphemeral(o, p) = ClosePane(o, p)
    BY <1>5 DEF CloseEphemeral
  <2>2. Good(r, T \union {h}, x) /\ Left(r) = T /\ r.panes[p].there = FALSE
    <3>2. r.panes[p].there = FALSE
      BY <1>1, StoppedFields
    <3> HIDE DEF r
    <3>3. Good(r, T \union {h}, x) /\ Left(r) = T
      BY StoppedHolds DEF r
    <3> QED BY <3>2, <3>3
  <2> HIDE DEF r
  <2>3. Holds(r, x)
    BY <1>3, <2>2 DEF Holds
  <2>4. ClosePane(o, p) = Broadcast(r)
    BY <1>1, ClosePaneIs DEF r
  <2> QED BY <2>1, <2>3, <2>4, BroadcastHolds
<1> QED BY <1>4, <1>5

\* The calls that disconnect_host makes first
LEMMA ReleaseCalls ==
  ASSUME NEW o \in Side, NEW c \in Clients
  PROVE  /\ ReleaseViews(o, c) \in Seq(Calls)
         /\ {ReleaseViews(o, c)[i] : i \in DOMAIN ReleaseViews(o, c)}
              = {<<"release view", c, p>> : p \in {q \in Panes : c \in o.panes[q].views}}
<1> DEFINE S == {q \in Panes : c \in o.panes[q].views}
           n == Cardinality(S)
           a == Ascending(S)
           f == [i \in 1 .. n |-> <<"release view", c, a[i]>>]
<1>1. IsFiniteSet(S) /\ S \subseteq Nat
  <2>1. S \in SUBSET Panes
    OBVIOUS
  <2> HIDE DEF S
  <2> QED BY <2>1, FiniteIds
<1>2. f = ReleaseViews(o, c)
  BY DEF ReleaseViews
<1>3. S \subseteq Panes
  OBVIOUS
<1> HIDE DEF S
<1>4. /\ n \in Nat /\ a \in [1 .. n -> S]
      /\ \A s \in S : \E i \in 1 .. n : a[i] = s
  BY <1>1, AscendingLists
<1> HIDE DEF n, a
<1>5. \A i \in 1 .. n : <<"release view", c, a[i]>> \in Calls
  <2>1. ASSUME NEW p \in S PROVE <<"release view", c, p>> \in Calls
    BY <1>1, <1>3, HostAssumption DEF Calls, Call3, Names
  <2> QED BY <1>4, <2>1
<1>6. f \in [1 .. n -> Calls] /\ DOMAIN f = 1 .. n
      /\ \A i \in 1 .. n : f[i] = <<"release view", c, a[i]>>
  BY <1>5
<1> HIDE DEF f
<1>7. f \in Seq(Calls)
  <2>1. n \in Nat /\ f \in [1 .. n -> Calls]
    BY <1>4, <1>6
  <2> QED BY <2>1
<1>8. {f[i] : i \in DOMAIN f} = {<<"release view", c, p>> : p \in S}
  <2>1. ASSUME NEW i \in DOMAIN f PROVE \E p \in S : f[i] = <<"release view", c, p>>
    BY <1>4, <1>6
  <2>2. ASSUME NEW p \in S PROVE \E i \in DOMAIN f : f[i] = <<"release view", c, p>>
    <3>1. PICK i \in 1 .. n : a[i] = p
      BY <1>4
    <3> QED BY <1>6, <3>1
  <2> QED BY <2>1, <2>2
<1> QED BY <1>2, <1>7, <1>8 DEF S

\* A list of two calls
LEMMA TwoCalls ==
  ASSUME NEW g \in Calls, NEW h \in Calls
  PROVE  <<g, h>> \in Seq(Calls) /\ {<<g, h>>[i] : i \in DOMAIN <<g, h>>} = {g, h}
<1>1. <<g, h>> \in Seq(Calls)
  OBVIOUS
<1>2. DOMAIN <<g, h>> = {1, 2} /\ <<g, h>>[1] = g /\ <<g, h>>[2] = h
  OBVIOUS
<1> DEFINE s == <<g, h>>
<1>3. s \in Seq(Calls) /\ DOMAIN s = {1, 2} /\ s[1] = g /\ s[2] = h
  BY <1>1, <1>2
<1> HIDE DEF s
<1>4. {s[i] : i \in DOMAIN s} = {g, h}
  BY <1>3
<1> QED BY <1>3, <1>4 DEF s

\* What is about to be done for a client that leaves
Leaving(o, c) ==
  {<<"release view", c, p>> : p \in {q \in Panes : c \in o.panes[q].views}}
    \union {<<"deny client", c, 0>>, <<"give back", c, 0>>}

\* disconnect_host: all that waits for the client is to be called off.
LEMMA DisconnectHostHolds ==
  ASSUME NEW o, NEW x, NEW c \in Clients, Good(o, Leaving(o, c) \union Left(o), x)
  PROVE  Holds(DisconnectHost(o, c), x)
<1> DEFINE a == ReleaseViews(o, c)
           g == <<"deny client", c, 0>>
           h == <<"give back", c, 0>>
           b == <<g, h>>
           calls == a \o b
           V == {<<"release view", c, p>> : p \in {q \in Panes : c \in o.panes[q].views}}
<1>1. o \in Side
  BY DEF Good
<1>2. a \in Seq(Calls) /\ {a[i] : i \in DOMAIN a} = V
  BY <1>1, ReleaseCalls
<1>3. g \in Calls /\ h \in Calls
  BY HostAssumption DEF Calls, Call3, Names
<1>4. DisconnectHost(o, c) = Do(o, calls)
  BY DEF DisconnectHost
<1>5. Leaving(o, c) = V \union {g, h}
  BY DEF Leaving
<1> HIDE DEF a, g, h, V
<1>6. b \in Seq(Calls) /\ {b[i] : i \in DOMAIN b} = {g, h}
  BY <1>3, TwoCalls
<1> HIDE DEF b
<1>7. /\ calls \in Seq(Calls)
      /\ {calls[i] : i \in DOMAIN calls} = {a[i] : i \in DOMAIN a} \union {b[i] : i \in DOMAIN b}
  BY <1>2, <1>6, JoinedCalls
<1>8. {calls[i] : i \in DOMAIN calls} = Leaving(o, c)
  BY <1>2, <1>5, <1>6, <1>7
<1> HIDE DEF calls
<1> QED BY <1>4, <1>7, <1>8, DoHolds

\* A known client may be disconnected.
LEMMA DisconnectHolds ==
  ASSUME NEW o, NEW x, NEW c \in Clients, Holds(o, x)
  PROVE  Holds(Disconnect(o, c), x)
<1> DEFINE r == [o EXCEPT !.known = o.known \ {c}]
           T == Left(o)
           U == Leaving(r, c) \union T
<1>1. o \in Side /\ o.known \in SUBSET Clients /\ Good(o, T, x)
  BY SideFields DEF Good, Holds
<1>2. Disconnect(o, c) = DisconnectHost(r, c)
  BY DEF Disconnect
<1>3. /\ r \in Side /\ r.known = o.known \ {c} /\ r.panes = o.panes /\ r.actions = o.actions
      /\ r.answers = o.answers /\ r.todo = o.todo
  BY <1>1, SetKnown
<1> HIDE DEF r
<1>4. Changed(o, r)
  BY <1>3 DEF Changed
<1>5. /\ T \subseteq U /\ <<"deny client", c, 0>> \in U /\ <<"give back", c, 0>> \in U
      /\ \A p \in Panes : c \in o.panes[p].views => <<"release view", c, p>> \in U
  BY <1>3 DEF Leaving
<1> HIDE DEF U, T
<1>6. Denied(r, U)
  <2>1. ASSUME NEW e \in DOMAIN o.actions
        PROVE  Served(r, U, o.actions[e]) \/ <<"deny", e, 0>> \in U
    <3>1. CASE o.actions[e].client = c
      BY <1>5, <3>1 DEF Served
    <3>2. CASE o.actions[e].client # c
      <4>1. Served(o, T, o.actions[e]) \/ <<"deny", e, 0>> \in T
        BY <1>1 DEF Good, Denied
      <4>2. OwnerAlive(r, o.actions[e]) <=> OwnerAlive(o, o.actions[e])
        BY <1>3 DEF OwnerAlive
      <4> QED BY <1>3, <1>5, <3>2, <4>1, <4>2 DEF Served
    <3> QED BY <3>1, <3>2
  <2> QED BY <1>3, <2>1 DEF Denied
<1>7. Vacated(r, U)
  BY <1>1, <1>3, <1>5 DEF Good, Vacated
<1>8. Leased(r, U)
  BY <1>1, <1>3, <1>5 DEF Good, Leased
<1>9. Good(r, U, x)
  BY <1>1, <1>4, <1>6, <1>7, <1>8, ChangedKeeps
<1>10. Left(r) = T
  BY <1>3 DEF Left, T
<1> QED BY <1>2, <1>9, <1>10, DisconnectHostHolds DEF U

-----------------------------------------------------------------------------
(* The calls of a handler, one after the other                               *)

\* What a call is for, by its name
LEMMA CallFields ==
  ASSUME NEW h \in Calls
  PROVE  /\ h = <<h[1], h[2], h[3]>> /\ h[1] \in Names
         /\ h[1] \in {"send", "disconnect", "deny client", "give back",
                      "release view", "unview"} => h[2] \in Clients
         /\ h[1] \in {"exited", "close ephemeral"} => h[2] \in Panes
         /\ h[1] \in {"flush", "close", "deny"} => h[2] \in Requests
         /\ h[1] \in {"release view", "unview"} => h[3] \in Panes
         /\ h[1] \notin {"release view", "unview"} => h[3] = 0
<1>1. h \in Names \X Nat \X Nat
  BY DEF Calls, Call3
<1>2. h = <<h[1], h[2], h[3]>> /\ h[1] \in Names
  BY <1>1
<1> QED BY <1>2 DEF Calls

\* Whatever call is made, what holds between two calls holds after it.
LEMMA CallHolds ==
  ASSUME NEW o, NEW x, NEW h \in Calls, Good(o, Left(o) \union {h}, x)
  PROVE  Holds(Call(o, h), x)
<1>1. /\ h[1] \in {"send", "disconnect", "deny client", "give back",
                   "release view", "unview"} => h[2] \in Clients
      /\ h[1] \in {"exited", "close ephemeral"} => h[2] \in Panes
      /\ h[1] \in {"flush", "close", "deny"} => h[2] \in Requests
      /\ h[1] \in {"release view", "unview"} => h[3] \in Panes
      /\ h[1] \notin {"release view", "unview"} => h[3] = 0
      /\ h[1] \in Names /\ h = <<h[1], h[2], h[3]>>
  BY CallFields
<1>2. h[1] \in Idle => Holds(o, x)
  BY Spent DEF Holds
<1>3. CASE h[1] = "send"
  BY <1>1, <1>2, <1>3, SendHolds DEF Call, Idle
<1>4. CASE h[1] = "broadcast"
  BY <1>2, <1>4, BroadcastHolds DEF Call, Idle
<1>5. CASE h[1] = "disconnect"
  BY <1>1, <1>2, <1>5, DisconnectHolds DEF Call, Idle
<1>6. CASE h[1] = "disconnect all"
  BY <1>2, <1>6, DisconnectAllHolds DEF Call, Idle
<1>7. CASE h[1] = "exited"
  BY <1>1, <1>2, <1>7, ExitedHolds DEF Call, Idle
<1>8. CASE h[1] = "flush"
  BY <1>2, <1>8, FlushHolds DEF Call, Idle
<1>9. CASE h[1] = "close"
  <2>1. Holds(o, x)
    BY <1>2, <1>9 DEF Idle
  <2>2. Good(o, Left(o) \union {<<"deny", h[2], 0>>}, x)
    BY <2>1, SameGood DEF Holds, Good
  <2>3. Holds(Respond(o, h[2], "final"), x)
    BY <2>1, <2>2, RespondHolds
  <2> QED BY <1>9, <2>3 DEF Call
<1>10. CASE h[1] = "deny"
  <2>1. h = <<"deny", h[2], 0>>
    BY <1>1, <1>10
  <2>2. Holds(Deny(o, h[2]), x)
    BY <2>1, DenyHolds
  <2> QED BY <1>10, <2>2 DEF Call
<1>11. CASE h[1] = "deny client"
  <2>1. h = <<"deny client", h[2], 0>> /\ h[2] \in Clients
    BY <1>1, <1>11
  <2>2. Holds(DenyClient(o, h[2]), x)
    BY <2>1, DenyClientHolds
  <2> QED BY <1>11, <2>2 DEF Call
<1>12. CASE h[1] = "release view"
  <2>1. h = <<"release view", h[2], h[3]>> /\ h[2] \in Clients /\ h[3] \in Panes
    BY <1>1, <1>12
  <2>2. Holds(ReleaseView(o, h[2], h[3]), x)
    BY <2>1, ReleaseViewHolds
  <2> QED BY <1>12, <2>2 DEF Call
<1>13. CASE h[1] = "unview"
  <2>1. h = <<"unview", h[2], h[3]>> /\ h[2] \in Clients /\ h[3] \in Panes
    BY <1>1, <1>13
  <2>2. Holds([o EXCEPT !.panes[h[3]].views = @ \ {h[2]}], x)
    BY <2>1, UnviewHolds
  <2> QED BY <1>13, <2>2 DEF Call
<1>14. CASE h[1] = "give back"
  <2>1. h = <<"give back", h[2], 0>> /\ h[2] \in Clients
    BY <1>1, <1>14
  <2>2. Holds(GiveBack(o, h[2]), x)
    BY <2>1, GiveBackHolds
  <2> QED BY <1>14, <2>2 DEF Call
<1>15. CASE h[1] = "close ephemeral"
  <2>1. h = <<"close ephemeral", h[2], 0>> /\ h[2] \in Panes
    BY <1>1, <1>15
  <2>2. Holds(CloseEphemeral(o, h[2]), x)
    BY <2>1, CloseEphemeralHolds
  <2> QED BY <1>15, <2>2 DEF Call
<1> QED BY <1>1, <1>3, <1>4, <1>5, <1>6, <1>7, <1>8, <1>9, <1>10, <1>11, <1>12, <1>13,
           <1>14, <1>15 DEF Names

\* The first call and those after it
LEMMA HeadTail ==
  ASSUME NEW s \in Seq(Calls), s # <<>>
  PROVE  /\ Head(s) \in Calls /\ Tail(s) \in Seq(Calls)
         /\ {s[i] : i \in DOMAIN s} = {Tail(s)[i] : i \in DOMAIN Tail(s)} \union {Head(s)}
<1> DEFINE t == Tail(s)
           n == Len(s)
<1>1. n \in Nat \ {0} /\ DOMAIN s = 1 .. n /\ Head(s) = s[1] /\ s[1] \in Calls
  BY DEF n
<1>2. t \in Seq(Calls) /\ DOMAIN t = 1 .. (n - 1) /\ \A i \in 1 .. (n - 1) : t[i] = s[i + 1]
  BY DEF t
<1> HIDE DEF t, n
<1>3. {s[i] : i \in DOMAIN s} \subseteq {t[i] : i \in DOMAIN t} \union {s[1]}
  <2>1. ASSUME NEW i \in 1 .. n, i # 1 PROVE i - 1 \in 1 .. (n - 1) /\ t[i - 1] = s[i]
    <3>1. i - 1 \in 1 .. (n - 1) /\ (i - 1) + 1 = i
      BY <1>1, <2>1
    <3> QED BY <1>2, <3>1
  <2>2. \A i \in 1 .. n : s[i] \in {t[j] : j \in DOMAIN t} \union {s[1]}
    BY <1>2, <2>1
  <2> QED BY <1>1, <2>2
<1>4. {t[i] : i \in DOMAIN t} \union {s[1]} \subseteq {s[i] : i \in DOMAIN s}
  <2>1. ASSUME NEW i \in 1 .. (n - 1) PROVE i + 1 \in 1 .. n /\ t[i] = s[i + 1]
    <3>1. i + 1 \in 1 .. n
      BY <1>1
    <3> QED BY <1>2, <3>1
  <2>2. 1 \in 1 .. n
    BY <1>1
  <2> QED BY <1>1, <1>2, <2>1, <2>2
<1> QED BY <1>1, <1>2, <1>3, <1>4 DEF t

\* Each turn keeps the invariant, ...
LEMMA TurnHolds ==
  ASSUME NEW o, NEW x, Holds(o, x)
  PROVE  Holds(Turn(o), x)
<1> DEFINE s == o.todo
           r == [o EXCEPT !.todo = Tail(s)]
<1>1. o \in Side /\ s \in Seq(Calls)
  BY SideFields DEF Holds, Good
<1>2. CASE s = <<>>
  BY <1>2 DEF Turn
<1>3. CASE s # <<>>
  <2>1. Turn(o) = Call(r, Head(s))
    BY <1>3 DEF Turn
  <2>2. /\ Head(s) \in Calls /\ Tail(s) \in Seq(Calls)
        /\ {s[i] : i \in DOMAIN s} = {Tail(s)[i] : i \in DOMAIN Tail(s)} \union {Head(s)}
    <3> HIDE DEF s
    <3> QED BY <1>1, <1>3, HeadTail
  <2>3. /\ r \in Side /\ r.known = o.known /\ r.panes = o.panes /\ r.actions = o.actions
        /\ r.answers = o.answers /\ r.todo = Tail(s)
    BY <1>1, <2>2, SetTodo
  <2>4. Left(o) = Left(r) \union {Head(s)}
    BY <2>2, <2>3 DEF Left
  <2> HIDE DEF r, s
  <2>5. Good(r, Left(r) \union {Head(s)}, x)
    BY <2>3, <2>4, SameGood DEF Holds
  <2> QED BY <2>1, <2>2, <2>5, CallHolds
<1> QED BY <1>2, <1>3

\* f holds what is there after each of the first n turns.
Unrolled(f, o, n) == f = [i \in 0 .. n |-> IF i = 0 THEN o ELSE Turn(f[i - 1])]

\* It exists for any number of turns: there is no least one for which it does not.
LEMMA UnrolledExists ==
  ASSUME NEW o, NEW n \in Nat
  PROVE  \E f : Unrolled(f, o, n)
<1> DEFINE Bad == {k \in Nat : ~ \E f : Unrolled(f, o, k)}
<1>1. SUFFICES ASSUME Bad # {} PROVE FALSE
  OBVIOUS
<1>2. PICK k \in Bad : \A m \in Bad : k <= m
  <2>1. Bad \subseteq Nat
    OBVIOUS
  <2> HIDE DEF Bad
  <2> QED BY <1>1, <2>1, LeastOf
<1>3. k \in Nat /\ ~ \E f : Unrolled(f, o, k)
  OBVIOUS
<1>4. CASE k = 0
  <2>1. Unrolled([i \in 0 .. 0 |-> o], o, 0)
    BY DEF Unrolled
  <2> QED BY <1>3, <1>4, <2>1
<1>5. CASE k # 0
  <2>1. k - 1 \in Nat /\ k - 1 \notin Bad
    <3> HIDE DEF Bad
    <3> QED BY <1>2, <1>3, <1>5
  <2>2. PICK f : Unrolled(f, o, k - 1)
    BY <2>1
  <2> HIDE DEF Bad
  <2> DEFINE turn(r) == Turn(r)
             g == [i \in 0 .. k |-> IF i = k THEN turn(f[k - 1]) ELSE f[i]]
  <2>3. \A i \in 0 .. k : g[i] = IF i = k THEN turn(f[k - 1]) ELSE f[i]
    OBVIOUS
  <2>4. \A i \in 0 .. (k - 1) : f[i] = IF i = 0 THEN o ELSE turn(f[i - 1])
    BY <2>2 DEF Unrolled
  <2>5. g = [i \in 0 .. k |-> g[i]]
    OBVIOUS
  <2> HIDE DEF g, turn
  <2>6. ASSUME NEW i \in 0 .. k PROVE g[i] = IF i = 0 THEN o ELSE turn(g[i - 1])
    <3>1. CASE i = k
      <4>1. g[k - 1] = f[k - 1]
        BY <2>3, <1>3, <1>5
      <4> QED BY <2>3, <3>1, <4>1, <1>3, <1>5
    <3>2. CASE i # k
      <4>1. i \in 0 .. (k - 1) /\ g[i] = f[i]
        BY <2>3, <3>2, <1>3
      <4>2. i # 0 => g[i - 1] = f[i - 1]
        BY <2>3, <4>1, <1>3
      <4> QED BY <2>4, <4>1, <4>2
    <3> QED BY <3>1, <3>2
  <2>7. g = [i \in 0 .. k |-> IF i = 0 THEN o ELSE turn(g[i - 1])]
    BY <2>5, <2>6
  <2>8. Unrolled(g, o, k)
    BY <2>7 DEF Unrolled, turn
  <2> QED BY <1>3, <2>8
<1> QED BY <1>4, <1>5

\* What holds before a handler's calls holds after each of them.
LEMMA UnrolledHolds ==
  ASSUME NEW o, NEW x, Holds(o, x), NEW n \in Nat, NEW f, Unrolled(f, o, n)
  PROVE  Holds(f[n], x)
<1> DEFINE Bad == {k \in Nat : k <= n /\ ~ Holds(f[k], x)}
<1>1. f[0] = o /\ \A i \in 1 .. n : f[i] = Turn(f[i - 1])
  <2> DEFINE turn(r) == Turn(r)
  <2>1. f = [i \in 0 .. n |-> IF i = 0 THEN o ELSE turn(f[i - 1])]
    BY DEF Unrolled
  <2> HIDE DEF turn
  <2>2. f[0] = o /\ \A i \in 1 .. n : f[i] = turn(f[i - 1])
    BY <2>1
  <2> QED BY <2>2 DEF turn
<1>2. SUFFICES Bad = {}
  <2>1. n \notin Bad
    BY <1>2
  <2> QED BY <2>1
<1>3. SUFFICES ASSUME Bad # {} PROVE FALSE
  OBVIOUS
<1>4. PICK k \in Bad : \A m \in Bad : k <= m
  <2>1. Bad \subseteq Nat
    OBVIOUS
  <2> HIDE DEF Bad
  <2> QED BY <1>3, <2>1, LeastOf
<1>5. k \in Nat /\ k <= n /\ ~ Holds(f[k], x)
  OBVIOUS
<1>6. k # 0
  BY <1>1, <1>5
<1>7. k - 1 \in Nat /\ k - 1 <= n /\ k - 1 \notin Bad
  <2> HIDE DEF Bad
  <2> QED BY <1>4, <1>5, <1>6
<1>8. Holds(f[k - 1], x)
  BY <1>7
<1> HIDE DEF Bad
<1>9. k \in 1 .. n
  BY <1>5, <1>6
<1>10. f[k] = Turn(f[k - 1])
  BY <1>1, <1>9
<1> QED BY <1>5, <1>8, <1>10, TurnHolds

\* ... and so do all the turns of a handler.
LEMMA RunHolds ==
  ASSUME NEW o, NEW x, Holds(o, x)
  PROVE  Holds(Run(o), x)
<1> DEFINE after == CHOOSE f : Unrolled(f, o, MaxCalls)
<1>1. Run(o) = IF o.todo = <<>> THEN o ELSE after[MaxCalls]
  BY DEF Run, Unrolled
<1>2. MaxCalls \in Nat
  BY HostAssumption
<1>3. Unrolled(after, o, MaxCalls)
  <2>1. \E f : Unrolled(f, o, MaxCalls)
    BY <1>2, UnrolledExists
  <2> QED BY <2>1
<1> HIDE DEF after
<1>4. Holds(after[MaxCalls], x)
  BY <1>2, <1>3, UnrolledHolds
<1> QED BY <1>1, <1>4

-----------------------------------------------------------------------------
(* The end of a handler                                                      *)

\* A handler whose result holds keeps the invariant of the state.
LEMMA CommitKeeps ==
  ASSUME NEW r, NEW x, Holds(r, x), Commit(r), severed' \subseteq Clients,
         next' = x.next, askers' = x.askers, accepted' = x.accepted
  PROVE  IInv'
<1> DEFINE o == Run(r)
<1>1. Holds(o, x)
  BY RunHolds
<1>2. /\ o.todo = <<>> /\ known' = o.known /\ panes' = o.panes
      /\ actions' = o.actions /\ answers' = o.answers
  BY DEF Commit
<1> HIDE DEF o
<1>3. o \in Side /\ x \in Contexts /\ Lives(o, x)
  BY <1>1 DEF Holds, Good
<1>4. o = [known |-> o.known, panes |-> o.panes, actions |-> o.actions,
           answers |-> o.answers, todo |-> o.todo]
  BY <1>3, SideFields
<1>5. Now' = o
  BY <1>2, <1>4 DEF Now
<1>6. x.last = [p \in Panes |-> x.last[p]]
      /\ x = [next |-> x.next, askers |-> x.askers, accepted |-> x.accepted, last |-> x.last]
  BY <1>3 DEF Contexts
<1>7. \A p \in Panes : panes'[p].last = x.last[p]
  BY <1>2, <1>3 DEF Lives
<1>8. Here' = x
  BY <1>6, <1>7 DEF Here
<1>9. Holds(Now', Here')
  BY <1>1, <1>5, <1>8
<1> QED BY <1>9 DEF IInv

\* A handler that leaves the requests' history alone
LEMMA PlainKeeps ==
  ASSUME IInv, NEW r, Holds(r, Here), Commit(r), UNCHANGED <<severed, next, askers, accepted>>
  PROVE  IInv'
<1>1. Here.next = next /\ Here.askers = askers /\ Here.accepted = accepted
  BY DEF Here
<1>2. severed' \subseteq Clients
  BY DEF IInv
<1>3. next' = Here.next /\ askers' = Here.askers /\ accepted' = Here.accepted
  BY <1>1
<1> QED BY <1>2, <1>3, CommitKeeps

\* What the owner has at hand when a handler starts
LEMMA NowFields ==
  /\ Now.known = known /\ Now.panes = panes /\ Now.actions = actions
  /\ Now.answers = answers /\ Now.todo = <<>> /\ Left(Now) = {}
  /\ Here.next = next /\ Here.askers = askers /\ Here.accepted = accepted
  /\ \A p \in Panes : Here.last[p] = panes[p].last
BY DEF Now, Here, Left

-----------------------------------------------------------------------------
(* A request is passed on (dispatch_host_to)                                 *)

\* The history with request e, which process g of pane p makes
Asks(x, e, p, g, kind) ==
  [x EXCEPT !.next = e + 1, !.askers[e] = [pane |-> p, gen |-> g, kind |-> kind]]

\* The history with one more request
LEMMA AsksContext ==
  ASSUME NEW x \in Contexts, NEW e \in Requests, NEW p \in Panes, NEW g \in 0 .. MaxGen,
         NEW kind \in Kinds
  PROVE  LET y == Asks(x, e, p, g, kind)
         IN  /\ y \in Contexts /\ y.next = e + 1 /\ y.accepted = x.accepted /\ y.last = x.last
             /\ y.askers[e] = [pane |-> p, gen |-> g, kind |-> kind]
             /\ \A d \in Requests : d # e => y.askers[d] = x.askers[d]
<1> DEFINE a == [pane |-> p, gen |-> g, kind |-> kind]
           f == [x.askers EXCEPT ![e] = a]
           y == Asks(x, e, p, g, kind)
<1>1. x.askers \in [Requests -> Askers] /\ a \in Askers
  BY DEF Contexts, Askers
<1>2. e + 1 \in 1 .. MaxRequests + 1
  BY HostAssumption DEF Requests
<1>3. f \in [Requests -> Askers] /\ f[e] = a /\ \A d \in Requests : d # e => f[d] = x.askers[d]
  BY <1>1
<1>4. y = [x EXCEPT !.next = e + 1, !.askers = f]
  BY DEF Asks
<1> HIDE DEF a, f, y
<1>5. y \in Contexts /\ y.next = e + 1 /\ y.askers = f /\ y.accepted = x.accepted /\ y.last = x.last
  BY <1>2, <1>3, <1>4 DEF Contexts
<1> QED BY <1>3, <1>5 DEF a, y

\* A request that nobody has heard of changes nothing.
LEMMA AsksKeeps ==
  ASSUME NEW o, NEW T, NEW x, Good(o, T, x), NEW e \in Requests, e = x.next,
         NEW p \in Panes, NEW g \in 0 .. MaxGen, g # 0, g = x.last[p], NEW kind \in Kinds
  PROVE  /\ Good(o, T, Asks(x, e, p, g, kind))
         /\ o.answers[e] = <<>> /\ e \notin DOMAIN o.actions /\ e \notin x.accepted
<1> DEFINE y == Asks(x, e, p, g, kind)
<1>1. /\ o \in Side /\ x \in Contexts /\ x.next \in Nat /\ Requests \subseteq Nat
      /\ x.accepted \subseteq Requests /\ DOMAIN o.actions \subseteq Requests
  BY GoodFields DEF Requests
<1>2. /\ y \in Contexts /\ y.next = e + 1 /\ y.accepted = x.accepted /\ y.last = x.last
      /\ y.askers[e] = [pane |-> p, gen |-> g, kind |-> kind]
      /\ \A d \in Requests : d # e => y.askers[d] = x.askers[d]
  BY <1>1, AsksContext
<1> HIDE DEF y
<1>3. o.answers[e] = <<>>
  BY <1>1 DEF Good, Replied
<1>4. \A d \in DOMAIN o.actions : d \in Requests /\ d # e /\ d < y.next
  <2>1. ASSUME NEW d \in DOMAIN o.actions PROVE d \in Requests /\ d # e /\ d < y.next
    <3>1. d < x.next /\ d \in Nat
      BY <1>1 DEF Good, Asked
    <3> QED BY <1>1, <1>2, <3>1
  <2> QED BY <2>1
<1>5. \A d \in x.accepted : d \in Requests /\ d # e /\ d < y.next
  <2>1. ASSUME NEW d \in x.accepted PROVE d \in Requests /\ d # e /\ d < y.next
    <3>1. d < x.next /\ d \in Nat
      BY <1>1 DEF Good, Honoured, HonouredAt
    <3> QED BY <1>1, <1>2, <3>1
  <2> QED BY <2>1
<1>6. Lives(o, y)
  BY <1>2 DEF Good, Lives
<1>7. Knows(y)
  <2>1. ASSUME NEW d \in Requests, d < y.next
        PROVE  /\ y.askers[d].pane \in Panes /\ y.askers[d].gen # 0
               /\ y.askers[d].gen <= y.last[y.askers[d].pane]
    <3>1. CASE d = e
      BY <1>2, <3>1
    <3>2. CASE d # e
      <4>1. d < x.next
        BY <1>1, <1>2, <2>1, <3>2
      <4> QED BY <1>2, <3>2, <4>1 DEF Good, Knows
    <3> QED BY <3>1, <3>2
  <2> QED BY <2>1 DEF Knows
<1>8. Asked(o, y)
  BY <1>2, <1>4 DEF Good, Asked
<1>9. Replied(o, y)
  <2>1. ASSUME NEW d \in Requests
        PROVE  /\ d >= y.next => o.answers[d] = <<>>
               /\ AnswersFit(o.answers[d], y.askers[d])
               /\ d \in DOMAIN o.actions => Fits(Texts(o.answers[d]), o.actions[d])
    <3>1. d >= y.next => d >= x.next
      BY <1>1, <1>2
    <3>2. CASE d = e
      <4>1. DOMAIN <<>> = {} /\ Texts(<<>>) = <<>>
        BY DEF Texts
      <4>2. AnswersFit(<<>>, y.askers[d])
        BY <4>1 DEF AnswersFit, Whole
      <4> QED BY <1>3, <1>4, <3>2, <4>2
    <3>3. CASE d # e
      BY <1>2, <3>1, <3>3 DEF Good, Replied
    <3> QED BY <3>2, <3>3
  <2> QED BY <2>1 DEF Replied
<1>10. Honoured(o, y)
  <2>1. ASSUME NEW d \in x.accepted PROVE HonouredAt(o, y, d)
    <3>1. HonouredAt(o, x, d) /\ y.askers[d] = x.askers[d]
      BY <1>2, <1>5 DEF Good, Honoured
    <3> QED BY <1>5, <3>1 DEF HonouredAt
  <2> QED BY <1>2, <2>1 DEF Honoured
<1>11. Good(o, T, y)
  BY <1>2, <1>6, <1>7, <1>8, <1>9, <1>10 DEF Good
<1> QED BY <1>3, <1>4, <1>5, <1>11 DEF y

\* The application is denied at once.
LEMMA RefusedHolds ==
  ASSUME NEW o, NEW x, Holds(o, x), NEW e \in Requests, e = x.next,
         NEW p \in Panes, NEW g \in 0 .. MaxGen, g # 0, g = x.last[p], NEW kind \in Kinds
  PROVE  Holds(Refused(o, p, e, kind), Asks(x, e, p, g, kind))
<1> DEFINE y == Asks(x, e, p, g, kind)
           T == Left(o)
           r == Written(o, p, e, <<"final">>)
<1>1. /\ Good(o, T, y) /\ o.answers[e] = <<>> /\ e \notin DOMAIN o.actions
      /\ e \notin x.accepted
  BY AsksKeeps DEF Holds
<1>2. /\ o \in Side /\ x \in Contexts
  BY DEF Holds, Good
<1>3. /\ y.next = e + 1 /\ y.accepted = x.accepted /\ y.last = x.last
      /\ y.askers[e] = [pane |-> p, gen |-> g, kind |-> kind]
  BY <1>2, AsksContext
<1> HIDE DEF y
<1>4. CASE kind = "toast"
  BY <1>1, <1>4 DEF Refused, Holds, y
<1>5. CASE kind # "toast" /\ ~Writable(o, p)
  BY <1>1, <1>5, InputFailedHolds DEF Refused, Holds, y
<1>6. CASE kind # "toast" /\ Writable(o, p)
  <2>1. Refused(o, p, e, kind) = r
    BY <1>6 DEF Refused
  <2>2. o.panes[p].gen = g
    BY <1>6 DEF Writable, Holds, Good, Lives
  <2>3. DOMAIN <<>> = {} /\ Texts(<<>>) = <<>> /\ <<"final">> \in Seq({"untracked", "final"})
        /\ <<>> \o <<"final">> = <<"final">>
    BY DEF Texts
  <2>4. IsWritten(o, r, p, e, <<"final">>)
    BY <1>2, <2>3, WrittenFields
  <2> HIDE DEF r, T
  <2>5. /\ r \in Side /\ r.known = o.known /\ r.panes = o.panes /\ r.actions = o.actions
        /\ r.todo = o.todo /\ \A d \in Requests \ {e} : r.answers[d] = o.answers[d]
        /\ Texts(r.answers[e]) = <<"final">>
        /\ \A i \in DOMAIN r.answers[e] : r.answers[e][i].gen = g
    BY <1>1, <2>2, <2>3, <2>4 DEF IsWritten
  <2>6. AnswersFit(r.answers[e], y.askers[e])
    BY <1>3, <2>5 DEF AnswersFit, Whole
  <2>7. Moved(o, r, y, e)
    BY <1>1, <2>5, <2>6 DEF Moved
  <2>8. Good(o, T \union {<<"deny", e, 0>>}, y)
    BY <1>1, <1>2, SameGood
  <2>9. e < y.next
    BY <1>3 DEF Requests
  <2>10. Good(r, T, y)
    BY <1>1, <1>3, <2>5, <2>7, <2>8, <2>9, MovedKeeps
  <2>11. Left(r) = T
    BY <2>5 DEF Left, T
  <2> QED BY <2>1, <2>10, <2>11 DEF Holds, y
<1> QED BY <1>4, <1>5, <1>6

\* What is put down for a request
NewAction(kind, c, p, g) ==
  [kind |-> kind, client |-> c, pane |-> p, gen |-> g,
   late |-> FALSE, untracked |-> FALSE, reply |-> <<>>]

\* A new pending request, field by field
LEMMA NewActionFields ==
  ASSUME NEW kind \in Kinds, NEW c \in Clients, NEW p \in Panes, NEW g \in 0 .. MaxGen
  PROVE  LET a == NewAction(kind, c, p, g)
         IN  /\ a \in Action /\ a.kind = kind /\ a.client = c /\ a.pane = p /\ a.gen = g
             /\ ~a.late /\ ~a.untracked /\ a.reply = <<>>
<1>1. <<>> \in Seq({"untracked", "final"})
  OBVIOUS
<1> QED BY <1>1 DEF Action, NewAction

Added(o, e, a) == [o EXCEPT !.actions = With(@, e, a)]

\* r is o with that.
IsAdded(o, r, e, a) ==
  /\ r \in Side /\ r.known = o.known /\ r.panes = o.panes /\ r.answers = o.answers
  /\ r.todo = o.todo /\ Left(r) = Left(o)
  /\ DOMAIN r.actions = DOMAIN o.actions \union {e} /\ r.actions[e] = a
  /\ \A d \in DOMAIN o.actions \ {e} : r.actions[d] = o.actions[d]

\* The table with it
LEMMA AddedFields ==
  ASSUME NEW o \in Side, NEW e \in Requests, NEW a \in Action
  PROVE  IsAdded(o, Added(o, e, a), e, a)
<1> DEFINE f == With(o.actions, e, a)
           r == Added(o, e, a)
<1>1. o.actions \in Tables
  BY SideFields
<1>2. /\ f \in Tables /\ DOMAIN f = DOMAIN o.actions \union {e} /\ f[e] = a
      /\ \A d \in DOMAIN o.actions \ {e} : f[d] = o.actions[d]
  BY ONLY <1>1, e \in Requests, a \in Action, WithFields, ZenonT(120)
<1>3. r = [o EXCEPT !.actions = f]
  BY DEF Added
<1> HIDE DEF f, r
<1>4. /\ r \in Side /\ r.actions = f /\ r.known = o.known /\ r.panes = o.panes
      /\ r.answers = o.answers /\ r.todo = o.todo
  BY <1>2, <1>3, SetActions
<1> QED BY <1>2, <1>4 DEF IsAdded, Left, r

\* One more is within the limits, when there is room.
LEMMA AddedWithin ==
  ASSUME NEW o \in Side, Within(o), NEW e \in Requests, e \notin DOMAIN o.actions,
         NEW a \in Action, Cardinality(DOMAIN o.actions) < MaxPending,
         Notification(a) => Cardinality(ShownTo(o, a.client)) < MaxShown
  PROVE  Within(Added(o, e, a))
<1> DEFINE r == Added(o, e, a)
           D == DOMAIN o.actions
<1>1. /\ DOMAIN r.actions = D \union {e} /\ r.actions[e] = a
      /\ \A d \in D \ {e} : r.actions[d] = o.actions[d]
  BY AddedFields DEF IsAdded
<1> HIDE DEF r
<1>2. D \in SUBSET Requests
  BY SideFields, TableFields
<1>3. IsFiniteSet(D)
  BY <1>2, FiniteIds
<1> HIDE DEF D
<1>4. Cardinality(D \union {e}) = Cardinality(D) + 1 /\ Cardinality(D) \in Nat
  <2>1. e \notin D
    BY DEF D
  <2> QED BY <1>3, <2>1, FS_AddElement, FS_CardinalityType
<1>5. Cardinality(DOMAIN r.actions) <= MaxPending
  BY <1>1, <1>4, HostAssumption DEF D
<1>6. ASSUME NEW c \in Clients PROVE Cardinality(ShownTo(r, c)) <= MaxShown
  <2> DEFINE S == ShownTo(o, c)
  <2>1. S \subseteq D /\ e \notin S
    BY DEF ShownTo, D
  <2>2. IsFiniteSet(S) /\ Cardinality(S) \in Nat /\ Cardinality(S) <= MaxShown
    BY <1>3, <2>1, FS_Subset, FS_CardinalityType DEF Within
  <2>3. ShownTo(r, c) = IF c = a.client /\ Notification(a) THEN S \union {e} ELSE S
    <3>1. \A d : d \in ShownTo(r, c) <=> d \in S \/ (d = e /\ c = a.client /\ Notification(a))
      <4>1. e \notin D
        BY DEF D
      <4>2. \A d \in D : d # e /\ r.actions[d] = o.actions[d]
        BY <1>1, <4>1
      <4> QED BY <1>1, <4>1, <4>2 DEF ShownTo, D
    <3> HIDE DEF S
    <3> QED BY <3>1
  <2>4. CASE c = a.client /\ Notification(a)
    <3>1. Cardinality(S) < MaxShown
      BY <2>4
    <3> HIDE DEF S
    <3>2. Cardinality(S \union {e}) = Cardinality(S) + 1
      BY <2>1, <2>2, FS_AddElement
    <3> QED BY <2>2, <2>3, <2>4, <3>1, <3>2, HostAssumption
  <2>5. CASE ~ (c = a.client /\ Notification(a))
    BY <2>2, <2>3, <2>5
  <2> QED BY <2>4, <2>5
<1> QED BY <1>5, <1>6 DEF Within, r

\* No reply yet fits any request.
LEMMA NothingFits ==
  ASSUME NEW a, a.reply = <<>>, ~a.untracked
  PROVE  Fits(Texts(<<>>), a)
<1>1. DOMAIN <<>> = {} /\ Texts(<<>>) = <<>>
  BY DEF Texts
<1>2. <<>> \in Whole
  BY DEF Whole
<1>3. <<>> # <<"untracked">> /\ <<>> # <<"untracked", "final">>
  OBVIOUS
<1> QED BY <1>1, <1>2, <1>3 DEF Fits

\* A request may be added within the limits; if its client is gone, what denies it is to come.
LEMMA AddedKeeps ==
  ASSUME NEW o, NEW T, NEW y, Good(o, T, y), NEW e \in Requests, e \notin DOMAIN o.actions,
         e < y.next, e \notin y.accepted, o.answers[e] = <<>>,
         NEW a \in Action, AskedFor(a, y.askers[e]), a.reply = <<>>, ~a.untracked,
         Cardinality(DOMAIN o.actions) < MaxPending,
         Notification(a) => Cardinality(ShownTo(o, a.client)) < MaxShown,
         NEW U, T \subseteq U, a.client \in o.known \/ <<"deny client", a.client, 0>> \in U
  PROVE  Good(Added(o, e, a), U, y)
<1> DEFINE r == Added(o, e, a)
<1>1. /\ o \in Side /\ y \in Contexts /\ Knows(y) /\ y.accepted \subseteq Requests
      /\ DOMAIN o.actions \subseteq Requests
  BY GoodFields DEF Good
<1>2. /\ r \in Side /\ r.known = o.known /\ r.panes = o.panes /\ r.answers = o.answers
      /\ DOMAIN r.actions = DOMAIN o.actions \union {e} /\ r.actions[e] = a
      /\ \A d \in DOMAIN o.actions \ {e} : r.actions[d] = o.actions[d]
  <2>1. IsAdded(o, r, e, a)
    BY <1>1, AddedFields
  <2> HIDE DEF r
  <2> QED BY <2>1 DEF IsAdded
<1>3. Within(r)
  BY <1>1, AddedWithin DEF Good
<1> HIDE DEF r
<1>4. Lives(r, y)
  BY <1>2 DEF Good, Lives
<1>5. Asked(r, y)
  BY <1>2 DEF Good, Asked
<1>6. Replied(r, y)
  <2>1. Fits(Texts(<<>>), a)
    BY NothingFits
  <2>2. ASSUME NEW d \in DOMAIN r.actions PROVE Fits(Texts(r.answers[d]), r.actions[d])
    <3>1. CASE d = e
      BY <1>2, <2>1, <3>1
    <3>2. CASE d # e
      BY <1>1, <1>2, <2>2, <3>2 DEF Good, Replied
    <3> QED BY <3>1, <3>2
  <2> QED BY <1>2, <2>2 DEF Good, Replied
<1>7. Honoured(r, y)
  <2>1. ASSUME NEW d \in y.accepted PROVE HonouredAt(r, y, d)
    <3>1. HonouredAt(o, y, d) /\ d # e
      BY DEF Good, Honoured
    <3>2. d \in DOMAIN r.actions <=> d \in DOMAIN o.actions
      BY <1>2, <3>1
    <3>3. d \in DOMAIN o.actions => r.actions[d] = o.actions[d]
      BY <1>2, <3>1
    <3>4. Waiting(r, y.askers[d]) <=> Waiting(o, y.askers[d])
      BY <1>2 DEF Waiting
    <3> QED BY <1>2, <3>1, <3>2, <3>3, <3>4 DEF HonouredAt
  <2> QED BY <2>1 DEF Honoured
<1>8. Denied(r, U)
  <2>1. ASSUME NEW d \in DOMAIN r.actions
        PROVE  Served(r, U, r.actions[d]) \/ <<"deny", d, 0>> \in U
    <3>1. CASE d = e
      BY <1>2, <3>1 DEF Served
    <3>2. CASE d # e
      <4>1. Served(o, T, o.actions[d]) \/ <<"deny", d, 0>> \in T
        BY <1>2, <2>1, <3>2 DEF Good, Denied
      <4>2. r.actions[d] = o.actions[d] /\ (OwnerAlive(r, o.actions[d]) <=> OwnerAlive(o, o.actions[d]))
        BY <1>2, <2>1, <3>2 DEF OwnerAlive
      <4> QED BY <1>2, <4>1, <4>2 DEF Served
    <3> QED BY <3>1, <3>2
  <2> QED BY <2>1 DEF Denied
<1>9. Vacated(r, U)
  BY <1>2 DEF Good, Vacated
<1>10. Leased(r, U)
  BY <1>2 DEF Good, Leased
<1> QED BY <1>1, <1>2, <1>3, <1>4, <1>5, <1>6, <1>7, <1>8, <1>9, <1>10 DEF Good, r

\* dispatch_host_to, for whomever the request is passed on to
LEMMA DispatchHolds ==
  ASSUME NEW o, NEW x, Holds(o, x), NEW e \in Requests, e = x.next,
         NEW p \in Panes, NEW g \in 0 .. MaxGen, g # 0, g = x.last[p], NEW kind \in Kinds,
         NEW c \in Clients \union {0}, c # 0 /\ kind # "read" => HasShown(o, c)
  PROVE  Holds(Dispatch(o, p, e, kind, c), Asks(x, e, p, g, kind))
<1> DEFINE y == Asks(x, e, p, g, kind)
           T == Left(o)
           h == o.panes[p].gen
           a == NewAction(kind, c, p, h)
           r == Added(o, e, a)
<1>1. CASE c = 0 \/ Cardinality(DOMAIN o.actions) >= MaxPending
  <2>1. Dispatch(o, p, e, kind, c) = Refused(o, p, e, kind)
    BY <1>1 DEF Dispatch
  <2> QED BY <2>1, RefusedHolds
<1>2. CASE ~ (c = 0 \/ Cardinality(DOMAIN o.actions) >= MaxPending)
  <2>1. /\ Good(o, T, y) /\ o.answers[e] = <<>> /\ e \notin DOMAIN o.actions
        /\ e \notin x.accepted
    BY AsksKeeps DEF Holds
  <2>2. /\ o \in Side /\ x \in Contexts /\ o.panes[p] \in Pane /\ DOMAIN o.actions \in SUBSET Requests
    BY GoodFields DEF Holds
  <2>3. h \in 0 .. MaxGen /\ h \in {0, g}
    BY <2>2, PaneFields DEF Holds, Good, Lives
  <2>4. /\ y.next = e + 1 /\ y.accepted = x.accepted
        /\ y.askers[e] = [pane |-> p, gen |-> g, kind |-> kind]
    BY <2>2, AsksContext
  <2>5. c \in Clients /\ Cardinality(DOMAIN o.actions) < MaxPending
    <3>1. Cardinality(DOMAIN o.actions) \in Nat
      BY <2>2, FiniteIds, FS_CardinalityType
    <3> QED BY <1>2, <3>1, HostAssumption
  <2> HIDE DEF y, T, h
  <2>6. /\ a \in Action /\ a.kind = kind /\ a.client = c /\ a.pane = p /\ a.gen = h
        /\ ~a.untracked /\ a.reply = <<>>
    BY <2>3, <2>5, NewActionFields
  <2>7. Dispatch(o, p, e, kind, c) = CASE c \in o.known \cap severed -> Disconnect(r, c)
                                       [] c \in o.known \ severed    -> r
                                       [] c \notin o.known           -> DisconnectHost(r, c)
    BY <1>2 DEF Dispatch, Added, NewAction, h
  <2> HIDE DEF a
  <2>8. AskedFor(a, y.askers[e])
    BY <2>3, <2>4, <2>6 DEF AskedFor
  <2>9. Notification(a) => Cardinality(ShownTo(o, a.client)) < MaxShown
    BY <1>2, <2>6 DEF HasShown, EventsOf, ShownTo, Notification
  <2>10. e < y.next /\ e \notin y.accepted
    BY <2>1, <2>4 DEF Requests
  <2>11. ASSUME NEW U, T \subseteq U, c \in o.known \/ <<"deny client", c, 0>> \in U
         PROVE  Good(r, U, y)
    BY <2>1, <2>5, <2>6, <2>8, <2>9, <2>10, <2>11, AddedKeeps
  <2>12. /\ r.known = o.known /\ Left(r) = T /\ r \in Side
    <3>1. IsAdded(o, r, e, a)
      BY <2>2, <2>6, AddedFields
    <3> HIDE DEF r
    <3> QED BY <3>1 DEF IsAdded, T
  <2> HIDE DEF r
  <2>13. c \in o.known => Holds(r, y)
    BY <2>11, <2>12 DEF Holds
  <2>14. CASE c \in o.known \cap severed
    BY <2>5, <2>7, <2>13, <2>14, DisconnectHolds DEF y
  <2>15. CASE c \in o.known \ severed
    BY <2>7, <2>13, <2>15 DEF y
  <2>16. CASE c \notin o.known
    <3>1. <<"deny client", c, 0>> \in Leaving(r, c) \union T
      BY DEF Leaving
    <3>2. Good(r, Leaving(r, c) \union Left(r), y)
      BY <2>11, <2>12, <3>1
    <3> QED BY <2>5, <2>7, <2>16, <3>2, DisconnectHostHolds DEF y
  <2> QED BY <2>14, <2>15, <2>16
<1> QED BY <1>1, <1>2

-----------------------------------------------------------------------------
(* Each action keeps the invariant: requests and answers                     *)

\* The invariant between two handlers, with its types
LEMMA AtRest ==
  ASSUME IInv
  PROVE  /\ Holds(Now, Here) /\ Good(Now, {}, Here) /\ Now \in Side /\ Here \in Contexts
         /\ known \in SUBSET Clients /\ severed \in SUBSET Clients
         /\ panes \in [Panes -> Pane] /\ \A p \in Panes : panes[p] \in Pane
<1>1. Holds(Now, Here) /\ severed \subseteq Clients
  BY DEF IInv
<1>2. Good(Now, {}, Here)
  BY <1>1, NowFields DEF Holds
<1>3. Now \in Side /\ Here \in Contexts
  BY <1>2 DEF Good
<1>4. known \in SUBSET Clients /\ panes \in [Panes -> Pane]
  BY <1>3, SideFields, NowFields
<1> QED BY <1>1, <1>2, <1>3, <1>4

\* Who asks: the last process of its pane
LEMMA AskingFacts ==
  ASSUME IInv, NEW p \in Panes, NEW e \in Requests, NEW kind \in Kinds, Asking(p, e, kind)
  PROVE  LET g == panes[p].gen
             y == Asks(Here, e, p, g, kind)
         IN  /\ g \in 0 .. MaxGen /\ g # 0 /\ g = Here.last[p] /\ e = Here.next
             /\ next' = y.next /\ askers' = y.askers /\ accepted' = y.accepted
             /\ severed' \subseteq Clients
<1> DEFINE g == panes[p].gen
           y == Asks(Here, e, p, g, kind)
           f == [askers EXCEPT ![e] = [pane |-> p, gen |-> g, kind |-> kind]]
<1>1. /\ g # 0 /\ e = next /\ next' = e + 1 /\ askers' = f
      /\ severed' = severed /\ accepted' = accepted
  BY DEF Asking
<1>2. g \in 0 .. MaxGen
  BY AtRest, PaneFields
<1>3. g = Here.last[p]
  <2>1. Now.panes[p].gen \in {0, Here.last[p]}
    BY AtRest DEF Good, Lives
  <2> QED BY <1>1, <2>1, NowFields
<1> HIDE DEF g
<1>4. y = [Here EXCEPT !.next = e + 1, !.askers = f]
  <2>1. y = [Here EXCEPT !.next = e + 1, !.askers[e] = [pane |-> p, gen |-> g, kind |-> kind]]
    BY DEF Asks
  <2> QED BY <2>1, NowFields DEF Here
<1>5. y.next = e + 1 /\ y.askers = f /\ y.accepted = accepted
  <2> HIDE DEF f, y
  <2> QED BY <1>4 DEF Here
<1>6. severed' \subseteq Clients
  BY <1>1, AtRest
<1> QED BY <1>1, <1>2, <1>3, <1>5, <1>6, NowFields DEF g

\* A clipboard read
LEMMA RequestReadKeeps ==
  ASSUME IInv, NEW p \in Panes, NEW e \in Requests, RequestRead(p, e)
  PROVE  IInv'
<1> DEFINE g == panes[p].gen
           y == Asks(Here, e, p, g, "read")
<1>1. Asking(p, e, "read")
  BY DEF RequestRead
<1>2. PICK c \in IF known = {} THEN {0} ELSE known : Commit(Dispatch(Now, p, e, "read", c))
  BY DEF RequestRead
<1>3. c \in Clients \union {0}
  BY <1>2, AtRest
<1>4. "read" \in Kinds
  BY DEF Kinds
<1>5. /\ g \in 0 .. MaxGen /\ g # 0 /\ g = Here.last[p] /\ e = Here.next
      /\ next' = y.next /\ askers' = y.askers /\ accepted' = y.accepted
      /\ severed' \subseteq Clients
  BY <1>1, <1>4, AskingFacts
<1> HIDE DEF g
<1>6. Holds(Dispatch(Now, p, e, "read", c), y)
  BY <1>3, <1>4, <1>5, AtRest, DispatchHolds
<1> HIDE DEF y
<1> QED BY <1>2, <1>5, <1>6, CommitKeeps

\* dispatch_notification's choice
LEMMA Elected ==
  ASSUME IInv, NEW p \in Panes, NEW c \in Elect(p)
  PROVE  c \in Clients \union {0}
<1> DEFINE owners == {e \in DOMAIN actions :
                        LET a == actions[e]
                        IN  /\ a.pane = p /\ a.gen = panes[p].gen /\ Notification(a)
                            /\ ~Finished(a) /\ a.client \in known}
           views == known \cap panes[p].views
<1>1. Elect(p) = CASE owners # {} -> {actions[Ascending(owners)[1]].client}
                   [] owners = {} /\ views # {} -> views
                   [] owners = {} /\ views = {} /\ known # {} -> {Ascending(known)[1]}
                   [] OTHER -> {0}
  BY DEF Elect
<1>2. ASSUME NEW S, IsFiniteSet(S), S \subseteq Nat, S # {} PROVE Ascending(S)[1] \in S
  <2>1. Cardinality(S) \in Nat /\ Ascending(S) \in [1 .. Cardinality(S) -> S]
    BY <1>2, AscendingLists
  <2>2. Cardinality(S) # 0
    BY <1>2, FS_EmptySet
  <2> QED BY <2>1, <2>2
<1>3. known \in SUBSET Clients /\ DOMAIN actions \in SUBSET Requests
      /\ \A e \in DOMAIN actions : actions[e].client \in known => actions[e].client \in Clients
  BY AtRest, GoodFields, NowFields
<1>4. owners \in SUBSET Requests /\ \A e \in owners : e \in DOMAIN actions /\ actions[e].client \in known
  BY <1>3
<1> HIDE DEF owners
<1>5. IsFiniteSet(owners) /\ owners \subseteq Nat /\ IsFiniteSet(known) /\ known \subseteq Nat
  BY <1>3, <1>4, FiniteIds
<1>6. CASE owners # {}
  <2>1. Ascending(owners)[1] \in owners
    BY <1>2, <1>5, <1>6
  <2> QED BY <1>1, <1>3, <1>4, <1>6, <2>1
<1>7. CASE owners = {} /\ views # {}
  BY <1>1, <1>3, <1>7
<1>8. CASE owners = {} /\ views = {} /\ known # {}
  <2>1. Ascending(known)[1] \in known
    BY <1>2, <1>5, <1>8
  <2> QED BY <1>1, <1>3, <1>8, <2>1
<1>9. CASE owners = {} /\ views = {} /\ known = {}
  BY <1>1, <1>9
<1> QED BY <1>6, <1>7, <1>8, <1>9

\* Notifications that are replaced are answered first.
LEMMA ReplaceHolds ==
  ASSUME NEW o, NEW x, Holds(o, x), NEW p, NEW kind
  PROVE  Holds(Replace(o, p, kind), x)
<1> DEFINE S == {e \in DOMAIN o.actions : LET a == o.actions[e] IN a.pane = p /\ a.kind = "show"}
           calls == Each("close", S)
<1>1. CASE kind = "toast"
  BY <1>1 DEF Replace
<1>2. CASE kind # "toast"
  <2>1. Replace(o, p, kind) = Run(Do(o, calls))
    BY <1>2 DEF Replace, EventsOf
  <2>2. calls \in Seq(Calls)
    <3>1. S \in SUBSET Requests
      BY GoodFields DEF Holds
    <3> HIDE DEF S
    <3>2. IsFiniteSet(S) /\ S \subseteq Nat
      BY <3>1, FiniteIds
    <3>3. \A e \in S : <<"close", e, 0>> \in Calls
      BY <3>1, <3>2 DEF Calls, Call3, Names
    <3>4. "close" \in Names
      BY DEF Names
    <3> QED BY <3>2, <3>3, <3>4, EachFields
  <2> HIDE DEF calls
  <2>3. Holds(Do(o, calls), x)
    BY <2>2, IdleHolds
  <2> QED BY <2>1, <2>3, RunHolds
<1> QED BY <1>1, <1>2

\* A notification
LEMMA RequestShowKeeps ==
  ASSUME IInv, NEW p \in Panes, NEW e \in Requests, NEW kind \in {"show", "toast"},
         RequestShow(p, e, kind)
  PROVE  IInv'
<1> DEFINE g == panes[p].gen
           y == Asks(Here, e, p, g, kind)
           o == Replace(Now, p, kind)
<1>1. Asking(p, e, kind) /\ kind \in Kinds
  BY DEF RequestShow, Kinds
<1>2. PICK c \in Elect(p) : Commit(Dispatch(o, p, e, kind, IF HasShown(o, c) THEN c ELSE 0))
  BY DEF RequestShow
<1> DEFINE d == IF HasShown(o, c) THEN c ELSE 0
<1>3. d \in Clients \union {0} /\ (d # 0 => HasShown(o, d))
  <2>1. c \in Clients \union {0}
    BY Elected
  <2> HIDE DEF o
  <2> QED BY <2>1
<1>4. /\ g \in 0 .. MaxGen /\ g # 0 /\ g = Here.last[p] /\ e = Here.next
      /\ next' = y.next /\ askers' = y.askers /\ accepted' = y.accepted
      /\ severed' \subseteq Clients
  BY <1>1, AskingFacts
<1>5. Holds(o, Here)
  BY AtRest, ReplaceHolds
<1>6. Commit(Dispatch(o, p, e, kind, d))
  BY <1>2
<1> HIDE DEF g, o, d
<1>7. Holds(Dispatch(o, p, e, kind, d), y)
  BY <1>1, <1>3, <1>4, <1>5, DispatchHolds
<1> HIDE DEF y
<1> QED BY <1>4, <1>6, <1>7, CommitKeeps

\* An answer
LEMMA AnswerKeeps ==
  ASSUME IInv, NEW c \in Clients, NEW e \in Requests, NEW reply \in {"untracked", "final"},
         Answer(c, e, reply)
  PROVE  IInv'
<1> DEFINE a == actions[e]
<1>1. /\ e \in DOMAIN actions /\ severed' = severed /\ next' = next /\ askers' = askers
  BY DEF Answer
<1>2. Good(Now, Left(Now) \union {<<"deny", e, 0>>}, Here)
  <2>1. Good(Now, {}, Here) /\ Now \in Side /\ Left(Now) = {}
    BY AtRest, NowFields
  <2> QED BY <2>1, SameGood
<1>3. severed' \subseteq Clients
  BY <1>1, AtRest
<1>4. CASE Notification(a)
  <2>1. /\ Commit(Respond(Now, e, reply))
        /\ accepted' = IF MayReply(Now, e) /\ reply = "final"
                       THEN accepted \union {e} ELSE accepted
    BY <1>4 DEF Answer
  <2>2. /\ Holds(Respond(Now, e, reply), Here)
        /\ reply = "final" /\ MayReply(Now, e) => Holds(Respond(Now, e, reply), Accepting(Here, e))
    BY <1>2, AtRest, RespondHolds
  <2>3. CASE MayReply(Now, e) /\ reply = "final"
    <3> DEFINE y == Accepting(Here, e)
    <3>1. y.next = next /\ y.askers = askers /\ y.accepted = accepted \union {e}
      BY AtRest, AcceptingContext, NowFields
    <3> HIDE DEF y
    <3>2. Holds(Respond(Now, e, reply), y)
      BY <2>2, <2>3 DEF y
    <3> QED BY <1>1, <1>3, <2>1, <2>3, <3>1, <3>2, CommitKeeps
  <2>4. CASE ~ (MayReply(Now, e) /\ reply = "final")
    <3>1. accepted' = accepted
      BY <2>1, <2>4
    <3> QED BY <1>1, <2>1, <2>2, <3>1, PlainKeeps
  <2> QED BY <2>3, <2>4
<1>5. CASE ~Notification(a)
  <2> DEFINE r == IF panes[a.pane].there /\ Writable(Now, a.pane)
                  THEN Answered(Now, e) ELSE Forget(Now, e)
  <2>1. Commit(r) /\ accepted' = accepted
    BY <1>5 DEF Answer
  <2>2. e \in DOMAIN Now.actions /\ ~Notification(Now.actions[e]) /\ Now.actions[e].kind # "show"
    BY <1>1, <1>5, NowFields DEF Notification
  <2>3. Holds(Answered(Now, e), Here) /\ Holds(Forget(Now, e), Here)
    BY <1>2, <2>2, AnsweredHolds, ForgetHolds
  <2>4. Holds(r, Here)
    BY <2>3
  <2> HIDE DEF r
  <2> QED BY <1>1, <2>1, <2>4, PlainKeeps
<1> QED BY <1>4, <1>5

-----------------------------------------------------------------------------
(* Each action keeps the invariant: views, leases and processes              *)

\* Leases, views and input of one pane change; clients stay.
MayBecome(o, p, s, U) ==
  /\ s \in Pane
  /\ s.there = o.panes[p].there /\ s.gen = o.panes[p].gen
  /\ s.last = o.panes[p].last /\ s.ending = o.panes[p].ending
  /\ \A c \in s.owners : c \in o.known \/ c \in o.panes[p].owners
  /\ \A c \in s.views : c \in o.known \/ c \in o.panes[p].views
  /\ \/ s.owners # {}
     \/ <<"close ephemeral", p, 0>> \in U
     \/ s.persistent = o.panes[p].persistent /\ s.owners = o.panes[p].owners

\* A pane may change so.
LEMMA PaneChanged ==
  ASSUME NEW o, NEW T, NEW x, Good(o, T, x), NEW p \in Panes, NEW U, T \subseteq U,
         NEW s, MayBecome(o, p, s, U)
  PROVE  Good(SetPane(o, p, s), U, x) /\ Left(SetPane(o, p, s)) = Left(o)
<1> DEFINE r == SetPane(o, p, s)
<1>1. o \in Side
  BY DEF Good
<1>2. PaneIs(o, r, p, s) /\ Left(r) = Left(o)
  BY <1>1, SetPaneFields DEF MayBecome
<1> HIDE DEF r
<1>3. Changed(o, r) /\ r.known = o.known
  BY <1>2 DEF PaneIs, Changed, MayBecome
<1>4. Denied(r, U)
  <2>1. Denied(r, T)
    BY <1>3, DeniedStays
  <2> QED BY <2>1 DEF Denied, Served
<1>5. Vacated(r, U)
  BY <1>2 DEF Good, Vacated, PaneIs, MayBecome
<1>6. Leased(r, U)
  BY <1>2 DEF Good, Leased, PaneIs, MayBecome
<1>7. Good(r, U, x)
  BY <1>3, <1>4, <1>5, <1>6, ChangedKeeps
<1> QED BY <1>2, <1>7 DEF r

\* A view is registered.
LEMMA RegisterViewKeeps ==
  ASSUME IInv, NEW c \in Clients, NEW p \in Panes, RegisterView(c, p)
  PROVE  IInv'
<1> DEFINE s == [panes[p] EXCEPT !.views = @ \union {c}]
           r == SetPane(Now, p, s)
<1>1. /\ c \in known /\ Commit([Now EXCEPT !.panes[p].views = @ \union {c}])
      /\ UNCHANGED <<severed, next, askers, accepted>>
  BY DEF RegisterView, Exists
<1>2. [Now EXCEPT !.panes[p].views = @ \union {c}] = r
  BY AtRest DEF Now, SetPane
<1>3. /\ s \in Pane /\ s.there = panes[p].there /\ s.gen = panes[p].gen
      /\ s.last = panes[p].last /\ s.ending = panes[p].ending
      /\ s.owners = panes[p].owners /\ s.persistent = panes[p].persistent
      /\ s.views = panes[p].views \union {c}
  BY AtRest DEF Pane
<1> HIDE DEF s
<1>4. Good(r, {}, Here) /\ Left(r) = Left(Now)
  <2>1. MayBecome(Now, p, s, {})
    BY <1>1, <1>3, NowFields DEF MayBecome
  <2> QED BY <2>1, AtRest, PaneChanged
<1> HIDE DEF r
<1>5. Holds(r, Here)
  BY <1>4, NowFields DEF Holds
<1> QED BY <1>1, <1>2, <1>5, PlainKeeps

\* A lease is taken.
LEMMA LeaseKeeps ==
  ASSUME IInv, NEW c \in Clients, NEW p \in Panes, NEW persistent \in BOOLEAN,
         Lease(c, p, persistent)
  PROVE  IInv'
<1> DEFINE s == [panes[p] EXCEPT !.owners = @ \union {c}, !.persistent = persistent]
           r == SetPane(Now, p, s)
           q == [Now EXCEPT !.panes[p].owners = @ \union {c}, !.panes[p].persistent = persistent]
<1>1. /\ c \in known /\ Commit(q) /\ UNCHANGED <<severed, next, askers, accepted>>
  BY DEF Lease, Exists
<1>2. q = r
  BY AtRest DEF Now, SetPane
<1>3. /\ s \in Pane /\ s.there = panes[p].there /\ s.gen = panes[p].gen
      /\ s.last = panes[p].last /\ s.ending = panes[p].ending
      /\ s.owners = panes[p].owners \union {c} /\ s.views = panes[p].views
  BY AtRest DEF Pane
<1> HIDE DEF s, q
<1>4. Good(r, {}, Here) /\ Left(r) = Left(Now)
  <2>1. MayBecome(Now, p, s, {})
    <3>1. s.owners # {}
      BY <1>3
    <3> QED BY <1>1, <1>3, <3>1, NowFields DEF MayBecome
  <2> QED BY <2>1, AtRest, PaneChanged
<1> HIDE DEF r
<1>5. Holds(r, Here)
  BY <1>4, NowFields DEF Holds
<1> QED BY <1>1, <1>2, <1>5, PlainKeeps

\* The last lease may be given back; release_ephemeral looks at the pane next.
LEMMA GivenBack ==
  ASSUME NEW o, NEW x, Holds(o, x), NEW c \in Clients, NEW p \in Panes
  PROVE  Holds(CloseEphemeral([o EXCEPT !.panes[p].owners = @ \ {c}], p), x)
<1> DEFINE s == [o.panes[p] EXCEPT !.owners = @ \ {c}]
           r == SetPane(o, p, s)
           U == Left(o) \union {<<"close ephemeral", p, 0>>}
<1>1. o \in Side /\ o.panes \in [Panes -> Pane]
  BY SideFields DEF Holds, Good
<1>2. [o EXCEPT !.panes[p].owners = @ \ {c}] = r
  BY <1>1 DEF SetPane
<1>3. /\ s \in Pane /\ s.there = o.panes[p].there /\ s.gen = o.panes[p].gen
      /\ s.last = o.panes[p].last /\ s.ending = o.panes[p].ending
      /\ s.owners = o.panes[p].owners \ {c} /\ s.views = o.panes[p].views
  BY <1>1 DEF Pane
<1> HIDE DEF s
<1>4. Good(r, U, x) /\ Left(r) = Left(o)
  <2>1. Left(o) \subseteq U /\ <<"close ephemeral", p, 0>> \in U
    OBVIOUS
  <2>2. MayBecome(o, p, s, U)
    BY <1>3, <2>1 DEF MayBecome
  <2> DEFINE T == Left(o)
  <2>3. Good(o, T, x) /\ T \subseteq U
    BY <2>1 DEF Holds
  <2> HIDE DEF T, U
  <2> QED BY <2>2, <2>3, PaneChanged
<1> HIDE DEF r
<1>5. Holds(CloseEphemeral(r, p), x)
  BY <1>4, CloseEphemeralHolds
<1> QED BY <1>2, <1>5

\* A lease is given back by its client.
LEMMA ReleasePaneKeeps ==
  ASSUME IInv, NEW c \in Clients, NEW p \in Panes, ReleasePane(c, p)
  PROVE  IInv'
<1> DEFINE o == ReleaseView(Now, c, p)
<1>1. Commit(Released(c, p)) /\ UNCHANGED <<severed, next, askers, accepted>>
  BY DEF ReleasePane
<1>2. Good(Now, Left(Now) \union {<<"release view", c, p>>}, Here)
  BY AtRest, SameGood DEF Holds
<1>3. Holds(o, Here)
  BY <1>2, ReleaseViewHolds
<1>4. Holds(Run(o), Here)
  BY <1>3, RunHolds
<1>5. Holds(Released(c, p), Here)
  BY <1>4, GivenBack DEF Released
<1> QED BY <1>1, <1>5, PlainKeeps

\* A writer ends, and the owner does not know yet.
LEMMA SeverKeeps ==
  ASSUME IInv, NEW c \in Clients, Sever(c)
  PROVE  IInv'
<1>1. Now' = Now /\ Here' = Here
  BY DEF Sever, Now, Here
<1>2. severed' \subseteq Clients
  BY AtRest DEF Sever
<1> QED BY <1>1, <1>2 DEF IInv

\* The owner learns of it.
LEMMA HandleDisconnectKeeps ==
  ASSUME IInv, NEW c \in Clients, HandleDisconnect(c)
  PROVE  IInv'
<1>1. Commit(Disconnect(Now, c)) /\ UNCHANGED <<severed, next, askers, accepted>>
  BY DEF HandleDisconnect
<1>2. Holds(Disconnect(Now, c), Here)
  BY AtRest, DisconnectHolds
<1> QED BY <1>1, <1>2, PlainKeeps

\* A process that is ending is not told any more.
LEMMA EndingKeeps ==
  ASSUME NEW o, NEW T, NEW x, Good(o, T, x), NEW p \in Panes
  PROVE  LET r == [o EXCEPT !.panes[p].ending = TRUE]
         IN  Good(r, T, x) /\ Left(r) = Left(o)
<1> DEFINE s == [o.panes[p] EXCEPT !.ending = TRUE]
           r == SetPane(o, p, s)
<1>1. o \in Side /\ o.panes \in [Panes -> Pane] /\ x \in Contexts /\ Knows(x)
  BY SideFields DEF Good
<1>2. [o EXCEPT !.panes[p].ending = TRUE] = r
  BY <1>1 DEF SetPane
<1>3. /\ s \in Pane /\ s.there = o.panes[p].there /\ s.gen = o.panes[p].gen
      /\ s.last = o.panes[p].last /\ s.ending = TRUE
      /\ s.owners = o.panes[p].owners /\ s.views = o.panes[p].views
      /\ s.persistent = o.panes[p].persistent
  BY <1>1 DEF Pane
<1> HIDE DEF s
<1>4. PaneIs(o, r, p, s) /\ Left(r) = Left(o)
  BY <1>1, <1>3, SetPaneFields
<1> HIDE DEF r
<1>5. /\ r \in Side /\ r.known = o.known /\ r.actions = o.actions /\ r.answers = o.answers
      /\ \A q \in Panes :
           /\ r.panes[q].there = o.panes[q].there /\ r.panes[q].gen = o.panes[q].gen
           /\ r.panes[q].last = o.panes[q].last
           /\ ~r.panes[q].ending => ~o.panes[q].ending
           /\ r.panes[q].owners = o.panes[q].owners /\ r.panes[q].views = o.panes[q].views
           /\ r.panes[q].persistent = o.panes[q].persistent
  BY <1>3, <1>4 DEF PaneIs
<1>6. Lives(r, x) /\ Asked(r, x) /\ Replied(r, x) /\ Within(r)
  BY <1>5 DEF Good, Lives, Asked, Replied, Within, ShownTo
<1>7. Honoured(r, x)
  <2>1. ASSUME NEW e \in x.accepted PROVE HonouredAt(r, x, e)
    <3>1. HonouredAt(o, x, e) /\ e \in Requests
      BY GoodFields DEF Good, Honoured
    <3>2. x.askers[e].pane \in Panes
      BY <3>1 DEF Good, Knows, HonouredAt
    <3>3. Waiting(r, x.askers[e]) => Waiting(o, x.askers[e])
      BY <1>5, <3>2 DEF Waiting
    <3> QED BY <1>5, <3>1, <3>3 DEF HonouredAt
  <2> QED BY <2>1 DEF Honoured
<1>8. Denied(r, T)
  <2>1. \A e \in DOMAIN o.actions : o.actions[e].pane \in Panes
    BY GoodFields DEF Action
  <2>2. \A e \in DOMAIN o.actions : OwnerAlive(r, o.actions[e]) => OwnerAlive(o, o.actions[e])
    BY <1>5, <2>1 DEF OwnerAlive
  <2> QED BY <1>5, <2>2 DEF Good, Denied, Served
<1>9. Vacated(r, T)
  BY <1>5 DEF Good, Vacated
<1>10. Leased(r, T)
  BY <1>5 DEF Good, Leased
<1>11. Good(r, T, x)
  BY <1>1, <1>5, <1>6, <1>7, <1>8, <1>9, <1>10 DEF Good
<1> QED BY <1>2, <1>4, <1>11

\* A process' output has ended.
LEMMA ProcessEndingKeeps ==
  ASSUME IInv, NEW p \in Panes, ProcessEnding(p)
  PROVE  IInv'
<1> DEFINE r == [Now EXCEPT !.panes[p].ending = TRUE]
<1>1. Commit(r) /\ UNCHANGED <<severed, next, askers, accepted>>
  BY DEF ProcessEnding
<1>2. Good(r, {}, Here) /\ Left(r) = Left(Now)
  BY AtRest, EndingKeeps
<1> HIDE DEF r
<1>3. Holds(r, Here)
  BY <1>2, NowFields DEF Holds
<1> QED BY <1>1, <1>3, PlainKeeps

\* A process or a pane goes.
LEMMA ProcessEndsKeeps ==
  ASSUME IInv, NEW p \in Panes, ProcessEnds(p) \/ KillPane(p)
  PROVE  IInv'
<1>1. Holds(Exited(Now, p), Here) /\ Holds(ClosePane(Now, p), Here)
  BY AtRest, ExitedHolds, ClosePaneHolds
<1>2. /\ Commit(Exited(Now, p)) \/ Commit(ClosePane(Now, p))
      /\ UNCHANGED <<severed, next, askers, accepted>>
  BY DEF ProcessEnds, KillPane
<1> QED BY <1>1, <1>2, PlainKeeps

\* The input of a process fills, drains or breaks.
LEMMA InputChangesKeeps ==
  ASSUME IInv, NEW p \in Panes, NEW to \in {"open", "full", "broken"}, InputChanges(p, to)
  PROVE  IInv'
<1> DEFINE s == [panes[p] EXCEPT !.input = to]
           r == SetPane(Now, p, s)
<1>1. Commit([Now EXCEPT !.panes[p].input = to]) /\ UNCHANGED <<severed, next, askers, accepted>>
  BY DEF InputChanges
<1>2. [Now EXCEPT !.panes[p].input = to] = r
  BY AtRest DEF Now, SetPane
<1>3. /\ s \in Pane /\ s.there = panes[p].there /\ s.gen = panes[p].gen
      /\ s.last = panes[p].last /\ s.ending = panes[p].ending
      /\ s.owners = panes[p].owners /\ s.persistent = panes[p].persistent
      /\ s.views = panes[p].views
  BY AtRest DEF Pane
<1> HIDE DEF s
<1>4. Good(r, {}, Here) /\ Left(r) = Left(Now)
  <2>1. MayBecome(Now, p, s, {})
    BY <1>3, NowFields DEF MayBecome
  <2> QED BY <2>1, AtRest, PaneChanged
<1> HIDE DEF r
<1>5. Holds(r, Here)
  BY <1>4, NowFields DEF Holds
<1> QED BY <1>1, <1>2, <1>5, PlainKeeps

-----------------------------------------------------------------------------
(* Respawns, deadlines and the owner's loop                                  *)

\* The history in which p has one more process
Newer(x, p) == [x EXCEPT !.last[p] = @ + 1]

\* Such a history
LEMMA NewerContext ==
  ASSUME NEW x \in Contexts, NEW p \in Panes, x.last[p] < MaxGen
  PROVE  LET y == Newer(x, p)
         IN  /\ y \in Contexts /\ y.next = x.next /\ y.askers = x.askers
             /\ y.accepted = x.accepted /\ y.last[p] = x.last[p] + 1
             /\ \A q \in Panes : q # p => y.last[q] = x.last[q]
<1> DEFINE f == [x.last EXCEPT ![p] = x.last[p] + 1]
           y == Newer(x, p)
<1>1. x.last \in [Panes -> 0 .. MaxGen]
  BY DEF Contexts
<1>2. x.last[p] + 1 \in 0 .. MaxGen
  BY <1>1, HostAssumption
<1>3. f \in [Panes -> 0 .. MaxGen] /\ f[p] = x.last[p] + 1
      /\ \A q \in Panes : q # p => f[q] = x.last[q]
  BY <1>1, <1>2
<1>4. y = [x EXCEPT !.last = f]
  BY <1>1 DEF Newer
<1> HIDE DEF f, y
<1>5. /\ y \in Contexts /\ y.next = x.next /\ y.askers = x.askers
      /\ y.accepted = x.accepted /\ y.last = f
  BY <1>3, <1>4 DEF Contexts
<1> QED BY <1>3, <1>5 DEF y

\* r is o with p's next process.
Restarted(o, r, p) ==
  /\ r \in Side /\ r.known = o.known /\ r.actions = o.actions /\ r.answers = o.answers
  /\ \A q \in Panes : q # p => r.panes[q] = o.panes[q]
  /\ r.panes[p].there /\ o.panes[p].there
  /\ r.panes[p].last = o.panes[p].last + 1 /\ r.panes[p].gen = o.panes[p].last + 1
  /\ r.panes[p].owners = o.panes[p].owners /\ r.panes[p].views = o.panes[p].views
  /\ r.panes[p].persistent = o.panes[p].persistent

\* A new process is nobody that asked: what is pending was asked by an older one.
LEMMA RestartedKeeps ==
  ASSUME NEW o, NEW T, NEW x, Good(o, T, x), NEW p \in Panes, x.last[p] < MaxGen,
         NEW r, Restarted(o, r, p)
  PROVE  Good(r, T, Newer(x, p))
<1> DEFINE y == Newer(x, p)
<1>1. /\ r \in Side /\ x \in Contexts /\ Knows(x) /\ x.last \in [Panes -> 0 .. MaxGen]
      /\ x.askers \in [Requests -> Askers]
  BY DEF Good, Restarted, Contexts
<1>2. /\ y \in Contexts /\ y.next = x.next /\ y.askers = x.askers
      /\ y.accepted = x.accepted /\ y.last[p] = x.last[p] + 1
      /\ \A q \in Panes : q # p => y.last[q] = x.last[q]
  BY <1>1, NewerContext
<1> HIDE DEF y
<1>3. o.panes[p].last = x.last[p] /\ x.last[p] \in 0 .. MaxGen /\ r.panes[p].gen = x.last[p] + 1
  BY <1>1 DEF Good, Lives, Restarted
<1>4. Lives(r, y)
  BY <1>2, <1>3 DEF Good, Lives, Restarted
<1>5. Knows(y)
  <2>1. ASSUME NEW e \in Requests, e < x.next PROVE x.askers[e].gen <= y.last[x.askers[e].pane]
    <3>1. /\ x.askers[e].pane \in Panes /\ x.askers[e].gen <= x.last[x.askers[e].pane]
          /\ x.askers[e].gen \in 0 .. MaxGen
      BY <1>1, <2>1 DEF Knows, Askers
    <3>2. CASE x.askers[e].pane = p
      BY <1>2, <1>3, <3>1, <3>2, HostAssumption
    <3>3. CASE x.askers[e].pane # p
      BY <1>2, <3>1, <3>3
    <3> QED BY <3>2, <3>3
  <2> QED BY <1>1, <1>2, <2>1 DEF Knows
<1>6. Asked(r, y) /\ Replied(r, y) /\ Within(r)
  BY <1>2 DEF Good, Restarted, Asked, Replied, Within, ShownTo
\* Nobody who asked is p's new process.
<1>7. \A e \in Requests : e < x.next /\ x.askers[e].pane = p => x.askers[e].gen # r.panes[p].gen
  <2>1. ASSUME NEW e \in Requests, e < x.next, x.askers[e].pane = p
        PROVE  x.askers[e].gen # r.panes[p].gen
    <3>1. x.askers[e].gen <= x.last[p] /\ x.askers[e].gen \in 0 .. MaxGen
      BY <1>1, <2>1 DEF Knows, Askers
    <3> QED BY <1>3, <3>1, HostAssumption
  <2> QED BY <2>1
<1>8. Honoured(r, y)
  <2>1. ASSUME NEW e \in x.accepted PROVE HonouredAt(r, y, e)
    <3>1. HonouredAt(o, x, e) /\ e \in Requests
      BY GoodFields DEF Good, Honoured
    <3>2. x.askers[e].pane \in Panes /\ e < x.next
      BY <3>1 DEF Good, Knows, HonouredAt
    <3>3. Waiting(r, x.askers[e]) => Waiting(o, x.askers[e])
      <4>1. CASE x.askers[e].pane = p
        BY <1>7, <3>1, <3>2, <4>1 DEF Waiting
      <4>2. CASE x.askers[e].pane # p
        BY <3>2, <4>2 DEF Waiting, Restarted
      <4> QED BY <4>1, <4>2
    <3> QED BY <1>2, <3>1, <3>3 DEF HonouredAt, Restarted
  <2> QED BY <1>2, <2>1 DEF Honoured
<1>9. Denied(r, T)
  <2>1. ASSUME NEW e \in DOMAIN o.actions, OwnerAlive(r, o.actions[e])
        PROVE  OwnerAlive(o, o.actions[e])
    <3> DEFINE a == o.actions[e]
    <3>1. e \in Requests /\ e < x.next /\ AskedFor(a, x.askers[e]) /\ x.askers[e].pane \in Panes
      BY RequestFacts
    <3>2. a.pane = x.askers[e].pane /\ a.gen \in {0, x.askers[e].gen}
      BY <3>1 DEF AskedFor
    <3> HIDE DEF a
    <3>3. /\ r.panes[a.pane].there /\ r.panes[a.pane].gen # 0 /\ r.panes[a.pane].gen = a.gen
          /\ ~r.panes[a.pane].ending
      BY <2>1 DEF OwnerAlive, a
    <3>4. a.pane # p
      BY <1>7, <3>1, <3>2, <3>3
    <3>5. r.panes[a.pane] = o.panes[a.pane]
      BY <3>1, <3>2, <3>4 DEF Restarted
    <3> QED BY <3>3, <3>5 DEF OwnerAlive, a
  <2> QED BY <2>1 DEF Good, Denied, Served, Restarted
<1>10. Vacated(r, T)
  BY DEF Good, Vacated, Restarted
<1>11. Leased(r, T)
  BY DEF Good, Leased, Restarted
<1> QED BY <1>1, <1>2, <1>4, <1>5, <1>6, <1>8, <1>9, <1>10, <1>11 DEF Good, y

\* A pane with process n, and what the owner has with it
Fresh(s, n) == [s EXCEPT !.gen = n, !.last = n, !.ending = FALSE, !.input = "open"]
Respawned(o, p, n) ==
  [o EXCEPT !.panes[p].gen = n, !.panes[p].last = n,
            !.panes[p].ending = FALSE, !.panes[p].input = "open"]

\* The one as an update of the other
LEMMA RespawnForm ==
  ASSUME NEW o \in Side, NEW p \in Panes, NEW n
  PROVE  Respawned(o, p, n) = SetPane(o, p, Fresh(o.panes[p], n))
<1>1. o.panes \in [Panes -> Pane] /\ o.panes[p] \in Pane
  BY SideFields
<1> QED BY <1>1, ZenonT(120) DEF Side, SetPane, Respawned, Fresh

\* A pane gets a new process.
LEMMA RespawnKeeps ==
  ASSUME IInv, NEW p \in Panes, Respawn(p)
  PROVE  IInv'
<1> DEFINE n == panes[p].last + 1
           s == Fresh(panes[p], n)
           r == SetPane(Now, p, s)
           q == [Now EXCEPT !.panes[p].gen = panes[p].last + 1, !.panes[p].last = @ + 1,
                            !.panes[p].ending = FALSE, !.panes[p].input = "open"]
           y == Newer(Here, p)
<1>1. /\ panes[p].there /\ panes[p].last < MaxGen /\ Commit(q)
      /\ UNCHANGED <<severed, next, askers, accepted>>
  BY DEF Respawn
<1>2. q = r
  <2>1. q = Respawned(Now, p, n)
    BY NowFields DEF Respawned
  <2> HIDE DEF n, q
  <2>2. Respawned(Now, p, n) = SetPane(Now, p, Fresh(Now.panes[p], n))
    BY AtRest, RespawnForm
  <2>3. Now.panes[p] = panes[p]
    BY NowFields
  <2> QED BY <2>1, <2>2, <2>3
<1>3. panes[p].last \in 0 .. MaxGen /\ n \in 0 .. MaxGen
  <2>1. panes[p].last \in 0 .. MaxGen
    BY AtRest, PaneFields
  <2> QED BY <1>1, <2>1, HostAssumption
<1> HIDE DEF q
<1>4. /\ s \in Pane /\ s.there = panes[p].there /\ s.gen = n /\ s.last = n
      /\ s.owners = panes[p].owners /\ s.persistent = panes[p].persistent
      /\ s.views = panes[p].views
  <2> HIDE DEF n
  <2> QED BY <1>3, AtRest DEF Pane, Fresh
<1> HIDE DEF s
<1>5. PaneIs(Now, r, p, s) /\ Left(r) = Left(Now)
  BY <1>4, AtRest, SetPaneFields
<1> HIDE DEF r
<1>6. Restarted(Now, r, p)
  BY <1>1, <1>4, <1>5, NowFields DEF PaneIs, Restarted
<1>7. Here.last[p] < MaxGen
  BY <1>1, NowFields
<1>8. Good(r, {}, y)
  BY <1>6, <1>7, AtRest, RestartedKeeps
<1>9. y.next = next /\ y.askers = askers /\ y.accepted = accepted
  BY <1>7, AtRest, NowFields, NewerContext
<1> HIDE DEF y
<1>10. Holds(r, y)
  BY <1>5, <1>8, NowFields DEF Holds
<1>11. severed' \subseteq Clients /\ next' = y.next /\ askers' = y.askers /\ accepted' = y.accepted
  BY <1>1, <1>9, AtRest
<1> QED BY <1>1, <1>2, <1>10, <1>11, CommitKeeps

\* A deadline passes.
LEMMA TimePassesKeeps ==
  ASSUME IInv, NEW e \in Requests, TimePasses(e)
  PROVE  IInv'
<1> DEFINE a == [actions[e] EXCEPT !.late = TRUE]
           f == [actions EXCEPT ![e] = a]
           r == [Now EXCEPT !.actions = f]
<1>1. /\ e \in DOMAIN actions /\ Commit([Now EXCEPT !.actions[e].late = TRUE])
      /\ UNCHANGED <<severed, next, askers, accepted>>
  BY DEF TimePasses
<1>2. actions \in Tables
  BY AtRest, SideFields, NowFields
<1>3. actions \in [DOMAIN actions -> Action] /\ DOMAIN actions \in SUBSET Requests
  BY <1>2, TableFields
<1>4. [Now EXCEPT !.actions[e].late = TRUE] = r
  BY <1>1, <1>3 DEF Now
<1>5. /\ a \in Action /\ a.kind = actions[e].kind /\ a.client = actions[e].client
      /\ a.pane = actions[e].pane /\ a.gen = actions[e].gen
      /\ a.reply = actions[e].reply /\ a.untracked = actions[e].untracked
  BY <1>1, <1>3 DEF Action
<1> HIDE DEF a
<1>6. /\ f \in [DOMAIN actions -> Action] /\ f[e] = a /\ DOMAIN f = DOMAIN actions
      /\ \A d \in DOMAIN actions : d # e => f[d] = actions[d]
  BY <1>1, <1>3, <1>5
<1> HIDE DEF f
<1>7. f \in Tables
  BY <1>3, <1>6, TableSet
<1>8. /\ r \in Side /\ r.actions = f /\ r.known = Now.known /\ r.panes = Now.panes
      /\ r.answers = Now.answers /\ r.todo = Now.todo
  BY <1>7, AtRest, SetActions
<1> HIDE DEF r
<1>9. /\ Good(Now, {} \union {<<"deny", e, 0>>}, Here) /\ e < Here.next
      /\ AnswersFit(Now.answers[e], Here.askers[e])
      /\ Fits(Texts(Now.answers[e]), Now.actions[e])
      /\ e \in Here.accepted => HonouredAt(Now, Here, e)
      /\ Served(Now, {}, Now.actions[e])
  <2>1. e \in DOMAIN Now.actions /\ Good(Now, {}, Here) /\ Now \in Side
    BY <1>1, AtRest, NowFields
  <2>2. Good(Now, {} \union {<<"deny", e, 0>>}, Here)
    BY <2>1, SameGood
  <2>3. Served(Now, {}, Now.actions[e])
    BY <2>1 DEF Good, Denied
  <2> QED BY <2>1, <2>2, <2>3, RequestFacts
<1>10. Moved(Now, r, Here, e)
  <2>1. Fits(Texts(r.answers[e]), r.actions[e])
    BY <1>5, <1>6, <1>8, <1>9, NowFields DEF Fits
  <2> QED BY <1>5, <1>6, <1>8, <1>9, <2>1, NowFields DEF Moved
<1>11. Served(r, {}, r.actions[e])
  <2>1. OwnerAlive(r, r.actions[e]) <=> OwnerAlive(Now, Now.actions[e])
    BY <1>5, <1>6, <1>8, NowFields DEF OwnerAlive
  <2> QED BY <1>5, <1>6, <1>8, <1>9, <2>1, NowFields DEF Served, Notification, Finished
<1>12. e \in Here.accepted => HonouredAt(r, Here, e)
  <2>1. Waiting(r, Here.askers[e]) <=> Waiting(Now, Here.askers[e])
    BY <1>8 DEF Waiting
  <2>2. Finished(r.actions[e]) <=> Finished(Now.actions[e])
    BY <1>5, <1>6, <1>8, NowFields DEF Finished
  <2> QED BY <1>5, <1>6, <1>8, <1>9, <2>1, <2>2, NowFields DEF HonouredAt
<1>13. Good(r, {}, Here)
  BY <1>9, <1>10, <1>11, <1>12, MovedKeeps
<1>14. Holds(r, Here)
  BY <1>8, <1>13, NowFields DEF Holds, Left
<1> QED BY <1>1, <1>4, <1>14, PlainKeeps

\* flush_notification_replies flushes every reply that is queued.
LEMMA FlushAllHolds ==
  ASSUME NEW o, NEW x, Holds(o, x)
  PROVE  Holds(FlushAll(o), x)
<1> DEFINE S == {e \in DOMAIN o.actions : o.actions[e].reply # <<>>}
           calls == Each("flush", S)
<1>1. FlushAll(o) = Run(Do(o, calls))
  BY DEF FlushAll, EventsOf
<1>2. calls \in Seq(Calls)
  <2>1. S \in SUBSET Requests
    BY GoodFields DEF Holds
  <2> HIDE DEF S
  <2>2. IsFiniteSet(S) /\ S \subseteq Nat
    BY <2>1, FiniteIds
  <2>3. \A e \in S : <<"flush", e, 0>> \in Calls
    BY <2>1, <2>2 DEF Calls, Call3, Names
  <2>4. "flush" \in Names
    BY DEF Names
  <2> QED BY <2>2, <2>3, <2>4, EachFields
<1> HIDE DEF calls
<1>3. Holds(Do(o, calls), x)
  BY <1>2, IdleHolds
<1> QED BY <1>1, <1>3, RunHolds

\* Leases and views of panes that are gone go with them.
LEMMA PrunedHolds ==
  ASSUME NEW o, NEW x, Holds(o, x)
  PROVE  Holds(Pruned(o), x)
<1> DEFINE f == [p \in Panes |-> IF o.panes[p].there THEN o.panes[p]
                                 ELSE [o.panes[p] EXCEPT !.owners = {}, !.views = {}]]
           r == [o EXCEPT !.panes = f]
           T == Left(o)
<1>1. o \in Side /\ Good(o, T, x) /\ \A p \in Panes : o.panes[p] \in Pane
  BY GoodFields DEF Holds
<1>2. Pruned(o) = r
  BY DEF Pruned
<1>3. /\ f \in [Panes -> Pane]
      /\ \A p \in Panes :
           /\ f[p].there = o.panes[p].there /\ f[p].gen = o.panes[p].gen
           /\ f[p].last = o.panes[p].last /\ f[p].ending = o.panes[p].ending
           /\ f[p].persistent = o.panes[p].persistent
           /\ f[p].owners \subseteq o.panes[p].owners
           /\ f[p].views \subseteq o.panes[p].views
           /\ f[p].there => f[p].owners = o.panes[p].owners
  <2>1. ASSUME NEW s \in Pane
        PROVE  LET g == [s EXCEPT !.owners = {}, !.views = {}]
               IN  /\ g \in Pane /\ g.there = s.there /\ g.gen = s.gen /\ g.last = s.last
                   /\ g.ending = s.ending /\ g.persistent = s.persistent
                   /\ g.owners = {} /\ g.views = {}
    BY DEF Pane
  <2>2. ASSUME NEW p \in Panes
        PROVE  /\ f[p] \in Pane
               /\ f[p].there = o.panes[p].there /\ f[p].gen = o.panes[p].gen
               /\ f[p].last = o.panes[p].last /\ f[p].ending = o.panes[p].ending
               /\ f[p].persistent = o.panes[p].persistent
               /\ f[p].owners \subseteq o.panes[p].owners
               /\ f[p].views \subseteq o.panes[p].views
               /\ f[p].there => f[p].owners = o.panes[p].owners
    <3> DEFINE s == o.panes[p]
               g == [s EXCEPT !.owners = {}, !.views = {}]
               h == f[p]
    <3>1. h = IF s.there THEN s ELSE g
      OBVIOUS
    <3>2. s \in Pane
      BY <1>1
    <3> HIDE DEF h, s
    <3>3. /\ g \in Pane /\ g.there = s.there /\ g.gen = s.gen /\ g.last = s.last
          /\ g.ending = s.ending /\ g.persistent = s.persistent
          /\ g.owners = {} /\ g.views = {}
      BY <2>1, <3>2
    <3> HIDE DEF g
    <3>4. /\ h \in Pane /\ h.there = s.there /\ h.gen = s.gen /\ h.last = s.last
          /\ h.ending = s.ending /\ h.persistent = s.persistent
          /\ h.owners \subseteq s.owners /\ h.views \subseteq s.views
          /\ h.there => h.owners = s.owners
      <4>1. CASE s.there
        BY <3>1, <3>2, <4>1
      <4>2. CASE ~s.there
        BY <3>1, <3>3, <4>2
      <4> QED BY <4>1, <4>2
    <3> QED BY <3>4 DEF h, s
  <2>3. f = [p \in Panes |-> f[p]]
    OBVIOUS
  <2> HIDE DEF f
  <2> QED BY <2>2, <2>3
<1> HIDE DEF f
<1>4. /\ r \in Side /\ r.panes = f /\ r.known = o.known /\ r.actions = o.actions
      /\ r.answers = o.answers /\ r.todo = o.todo
  BY <1>1, <1>3, SetPanes
<1> HIDE DEF r
<1>5. Changed(o, r)
  BY <1>3, <1>4 DEF Changed
<1>6. Denied(r, T)
  BY <1>1, <1>4, <1>5, DeniedStays
<1>7. Vacated(r, T)
  BY <1>1, <1>3, <1>4 DEF Good, Vacated
<1>8. Leased(r, T)
  BY <1>1, <1>3, <1>4, ZenonT(120) DEF Good, Leased
<1>9. Good(r, T, x)
  BY <1>1, <1>5, <1>6, <1>7, <1>8, ChangedKeeps
<1>10. Left(r) = T
  BY <1>4 DEF Left
<1> QED BY <1>2, <1>9, <1>10 DEF Holds

\* A turn of the owner's loop: replies, leases of panes that are gone, deadlines
LEMMA TickKeeps ==
  ASSUME IInv, Tick
  PROVE  IInv'
<1> DEFINE o == Pruned(FlushAll(Now))
           S == {e \in DOMAIN o.actions :
                   LET a == o.actions[e]
                   IN  \/ a.late \/ ~o.panes[a.pane].there
                       \/ Notification(a) /\ ~OwnerAlive(o, a)}
           calls == Each("deny", S)
<1>1. Holds(o, Here)
  BY AtRest, FlushAllHolds, PrunedHolds
<1>2. Commit(Do(o, Each("deny", Expired(o)))) /\ UNCHANGED <<severed, next, askers, accepted>>
  BY DEF Tick
<1> HIDE DEF o
<1>3. Expired(o) = S
  BY DEF Expired, EventsOf
<1>4. S \in SUBSET Requests
  BY <1>1, GoodFields DEF Holds
<1> HIDE DEF S
<1>5. calls \in Seq(Calls)
  BY <1>4, DenyCalls
<1>6. Commit(Do(o, calls))
  BY <1>2, <1>3
<1> HIDE DEF calls
<1>7. Holds(Do(o, calls), Here)
  BY <1>1, <1>5, IdleHolds
<1> QED BY <1>2, <1>6, <1>7, PlainKeeps

\* The invariant holds at first, ...
LEMMA InitHolds == Init => IInv
<1> SUFFICES ASSUME Init PROVE IInv
  OBVIOUS
<1>1. /\ known = Clients /\ severed = {} /\ panes = [p \in Panes |-> NewPane]
      /\ actions = <<>> /\ next = 1 /\ answers = [e \in Requests |-> <<>>]
      /\ askers = [e \in Requests |-> NoAsker] /\ accepted = {}
  BY DEF Init
<1>2. MaxGen \in Nat /\ MaxGen >= 1 /\ 0 \in 0 .. MaxGen /\ 1 \in 0 .. MaxGen
      /\ MaxRequests \in Nat /\ 1 \in 1 .. MaxRequests + 1 /\ MaxPending \in Nat /\ MaxShown \in Nat
  BY HostAssumption
<1>3. /\ NewPane \in Pane /\ NewPane.there = TRUE /\ NewPane.gen = 1 /\ NewPane.last = 1
      /\ NewPane.owners = {} /\ NewPane.views = {} /\ NewPane.persistent = TRUE
  BY <1>2 DEF NewPane, Pane
<1>4. panes \in [Panes -> Pane] /\ \A p \in Panes : panes[p] = NewPane
  BY <1>1, <1>3
<1>5. DOMAIN actions = {} /\ actions \in Tables
  <2>1. DOMAIN actions = {} /\ actions \in [{} -> Action]
    BY <1>1
  <2>2. {} \in SUBSET Requests
    OBVIOUS
  <2> QED BY <2>1, <2>2, TableSet
<1>6. answers \in [Requests -> Seq(Reply)] /\ \A e \in Requests : answers[e] = <<>>
  BY <1>1
<1>7. NoAsker \in Askers
  BY <1>2 DEF NoAsker, Askers, Kinds
<1>8. /\ askers \in [Requests -> Askers] /\ \A e \in Requests : askers[e] = NoAsker
  BY <1>1, <1>7
<1>9. Now \in Side
  BY <1>1, <1>4, <1>5, <1>6 DEF Now, Side
<1>10. Here \in Contexts
  <2> DEFINE f == [p \in Panes |-> panes[p].last]
  <2>1. f \in [Panes -> 0 .. MaxGen]
    BY <1>2, <1>3, <1>4
  <2> HIDE DEF f
  <2>2. Here = [next |-> next, askers |-> askers, accepted |-> accepted, last |-> f]
    BY DEF Here, f
  <2> QED BY <1>1, <1>2, <1>8, <2>1, <2>2 DEF Contexts
<1>11. Lives(Now, Here)
  BY <1>3, <1>4, NowFields DEF Lives
<1>12. Knows(Here) /\ Asked(Now, Here)
  BY <1>1, <1>5, NowFields DEF Knows, Asked, Requests
<1>13. Replied(Now, Here)
  <2>1. DOMAIN <<>> = {} /\ Texts(<<>>) = <<>>
    BY DEF Texts
  <2>2. ASSUME NEW asker PROVE AnswersFit(<<>>, asker)
    BY <2>1 DEF AnswersFit, Whole
  <2> QED BY <1>5, <1>6, <2>2, NowFields DEF Replied
<1>14. Honoured(Now, Here)
  BY <1>1, NowFields DEF Honoured
<1>15. Denied(Now, {})
  BY <1>5, NowFields DEF Denied
<1>16. Vacated(Now, {}) /\ Leased(Now, {})
  BY <1>3, <1>4, NowFields DEF Vacated, Leased
<1>17. Within(Now)
  <2>1. \A c \in Clients : ShownTo(Now, c) = {}
    BY <1>5, NowFields DEF ShownTo
  <2>2. Cardinality({}) = 0
    BY FS_EmptySet
  <2>3. 0 <= MaxPending /\ 0 <= MaxShown
    BY <1>2
  <2>4. DOMAIN Now.actions = {}
    BY <1>5, NowFields
  <2>5. Cardinality(DOMAIN Now.actions) <= MaxPending
    BY <2>2, <2>3, <2>4
  <2>6. \A c \in Clients : Cardinality(ShownTo(Now, c)) <= MaxShown
    BY <2>1, <2>2, <2>3
  <2> QED BY <2>5, <2>6 DEF Within
<1>18. Good(Now, {}, Here)
  BY <1>9, <1>10, <1>11, <1>12, <1>13, <1>14, <1>15, <1>16, <1>17 DEF Good
<1> QED BY <1>1, <1>18, NowFields DEF IInv, Holds

\* ... and every action keeps it.
LEMMA NextKeeps == IInv /\ [Next]_vars => IInv'
<1> SUFFICES ASSUME IInv, [Next]_vars PROVE IInv'
  OBVIOUS
<1>1. CASE UNCHANGED vars
  <2>1. Now' = Now /\ Here' = Here /\ severed' = severed
    BY <1>1 DEF vars, Now, Here
  <2>2. Holds(Now', Here')
    BY <2>1 DEF IInv
  <2> QED BY <2>1, <2>2 DEF IInv
<1>2. ASSUME NEW p \in Panes, NEW e \in Requests,
             RequestRead(p, e) \/ RequestShow(p, e, "show") \/ RequestShow(p, e, "toast")
      PROVE  IInv'
  BY <1>2, RequestReadKeeps, RequestShowKeeps
<1>3. ASSUME NEW c \in Clients, NEW e \in Requests,
             Answer(c, e, "untracked") \/ Answer(c, e, "final")
      PROVE  IInv'
  BY <1>3, AnswerKeeps
<1>4. ASSUME NEW c \in Clients, NEW p \in Panes,
             \/ RegisterView(c, p) \/ ReleasePane(c, p)
             \/ \E persistent \in BOOLEAN : Lease(c, p, persistent)
      PROVE  IInv'
  BY <1>4, RegisterViewKeeps, ReleasePaneKeeps, LeaseKeeps
<1>5. ASSUME NEW c \in Clients, Sever(c) \/ HandleDisconnect(c) PROVE IInv'
  BY <1>5, SeverKeeps, HandleDisconnectKeeps
<1>6. ASSUME NEW p \in Panes,
             \/ ProcessEnding(p) \/ ProcessEnds(p) \/ KillPane(p) \/ Respawn(p)
             \/ \E to \in {"open", "full", "broken"} : InputChanges(p, to)
      PROVE  IInv'
  BY <1>6, ProcessEndingKeeps, ProcessEndsKeeps, RespawnKeeps, InputChangesKeeps
<1>7. ASSUME NEW e \in Requests, TimePasses(e) PROVE IInv'
  BY <1>7, TimePassesKeeps
<1>8. CASE Tick
  BY <1>8, TickKeeps
<1> QED BY <1>1, <1>2, <1>3, <1>4, <1>5, <1>6, <1>7, <1>8 DEF Next

-----------------------------------------------------------------------------
(* The properties                                                            *)

\* The invariant holds in every state, and for every handler under way.
THEOREM AlwaysHeld == Spec => []IInv
<1> QED BY InitHolds, NextKeeps, PTL DEF Spec

\* The types are part of it.
LEMMA TypesFollow == IInv => TypeOK
<1> SUFFICES ASSUME IInv PROVE TypeOK
  OBVIOUS
<1>1. /\ known \in SUBSET Clients /\ severed \in SUBSET Clients
      /\ panes \in [Panes -> Pane] /\ Good(Now, {}, Here)
  BY AtRest
<1>2. DOMAIN actions \subseteq 1 .. next - 1
  <2>1. ASSUME NEW e \in DOMAIN actions PROVE e \in 1 .. next - 1
    <3>1. e \in Requests /\ e < next
      BY <1>1, NowFields, RequestFacts
    <3>2. next \in 1 .. MaxRequests + 1
      BY <1>1, NowFields, GoodFields
    <3> QED BY <3>1, <3>2, HostAssumption DEF Requests
  <2> QED BY <2>1
<1>3. ASSUME NEW e \in DOMAIN actions
      PROVE  [actions[e] EXCEPT !.reply = <<>>] \in Action /\ actions[e].reply \in Whole
  <2>1. actions[e] \in Action /\ Fits(Texts(answers[e]), actions[e])
    BY <1>1, NowFields, RequestFacts
  <2>2. <<>> \in Seq({"untracked", "final"})
    OBVIOUS
  <2> QED BY <2>1, <2>2 DEF Action, Fits
<1>4. /\ Cardinality(DOMAIN actions) <= MaxPending
      /\ \A c \in Clients : Cardinality(ShownTo(Now, c)) <= MaxShown
  BY <1>1, NowFields DEF Good, Within
<1>5. ASSUME NEW c \in Clients
      PROVE  Cardinality(EventsOf(Now, LAMBDA a : a.client = c /\ Notification(a))) <= MaxShown
  <2>1. EventsOf(Now, LAMBDA a : a.client = c /\ Notification(a)) = ShownTo(Now, c)
    BY DEF EventsOf, ShownTo
  <2> QED BY <1>4, <2>1
<1> QED BY <1>1, <1>2, <1>3, <1>4, <1>5 DEF TypeOK, Whole

\* Types, and the limits on what is pending and shown (host_actions, notifications)
THEOREM TypesHold == Spec => []TypeOK
<1> QED BY AlwaysHeld, TypesFollow, PTL

\* With no call left, nothing is waiting for one.
LEMMA ServedFollows == IInv => NothingWaitsForTheGone
<1> SUFFICES ASSUME IInv PROVE NothingWaitsForTheGone
  OBVIOUS
<1>1. Good(Now, {}, Here)
  BY AtRest
<1>2. ASSUME NEW e \in DOMAIN actions
      PROVE  \/ actions[e].client \in known
             \/ Finished(actions[e])
             \/ Notification(actions[e]) /\ ~OwnerAlive([panes |-> panes], actions[e])
  BY <1>1, NowFields DEF Good, Denied, Served, OwnerAlive
<1>3. ASSUME NEW p \in Panes PROVE panes[p].owners \union panes[p].views \subseteq known
  BY <1>1, NowFields DEF Good, Vacated
<1> QED BY <1>2, <1>3 DEF NothingWaitsForTheGone

\* What is pending, leased or viewed is so by a client the owner knows, however
\* the others went: by their own end, or by a message that found them gone.
THEOREM NothingWaits == Spec => []NothingWaitsForTheGone
<1> QED BY AlwaysHeld, ServedFollows, PTL

\* The property and the invariant speak of the same texts.
LEMMA RepliesAre ==
  \A e : Replies(e) = Texts(answers[e])
BY DEF Replies, Texts

\* A text is among the replies when one of them has it.
LEMMA ToldIsListed ==
  ASSUME NEW list, NEW texts, texts = Texts(list), Told(list)
  PROVE  "final" \in ToSet(texts)
<1>1. DOMAIN texts = DOMAIN list
  BY DEF Texts
<1>2. \A i \in DOMAIN list : texts[i] = list[i].reply
  BY DEF Texts
<1> QED BY <1>1, <1>2 DEF ToSet, Told

\* With no call left, the replies are those the property allows.
LEMMA AnsweredFollows == IInv => RepliesExactlyOnce
<1> SUFFICES ASSUME IInv PROVE RepliesExactlyOnce
  OBVIOUS
<1>1. Good(Now, {}, Here)
  BY AtRest
<1>2. ASSUME NEW e \in Requests
      PROVE  /\ Replies(e) \in Whole
             /\ e \in DOMAIN actions => "final" \notin ToSet(Replies(e))
             /\ askers[e].kind # "read" =>
                  \A i \in DOMAIN answers[e] : answers[e][i].gen = askers[e].gen
  <2>1. AnswersFit(answers[e], askers[e])
        /\ (e \in DOMAIN actions => Fits(Texts(answers[e]), actions[e]))
    BY <1>1, NowFields DEF Good, Replied
  <2>2. Replies(e) = Texts(answers[e])
    BY RepliesAre
  <2>3. ASSUME e \in DOMAIN actions PROVE "final" \notin ToSet(Replies(e))
    <3>1. Replies(e) \in {<<>>, <<"untracked">>}
      BY <2>1, <2>2, <2>3 DEF Fits
    <3> QED BY <3>1 DEF ToSet
  <2> QED BY <2>1, <2>2, <2>3 DEF AnswersFit
<1>3. ASSUME NEW e \in accepted, panes[askers[e].pane].gen = askers[e].gen,
             ~panes[askers[e].pane].ending, askers[e].kind = "show"
      PROVE  \/ "final" \in ToSet(Replies(e))
             \/ e \in DOMAIN actions /\ Finished(actions[e])
  <2>1. HonouredAt(Now, Here, e) /\ e \in Requests
    BY <1>1, NowFields, GoodFields DEF Good, Honoured
  <2>2. Waiting(Now, askers[e])
    BY <1>3, NowFields DEF Waiting
  <2>3. Told(answers[e]) \/ (e \in DOMAIN actions /\ Finished(actions[e]))
    BY <2>1, <2>2, NowFields DEF HonouredAt
  <2>4. Replies(e) = Texts(answers[e])
    BY RepliesAre
  <2>5. Told(answers[e]) => "final" \in ToSet(Replies(e))
    BY <2>4, ToldIsListed
  <2> QED BY <2>3, <2>5
<1> QED BY <1>2, <1>3 DEF RepliesExactlyOnce, Whole

\* A request is answered once, and a notification's process gets no other's reply;
\* an accepted reply is written or queued as long as its process lives.
THEOREM RepliesOnce == Spec => []RepliesExactlyOnce
<1> QED BY AlwaysHeld, AnsweredFollows, PTL

\* With no call left, no pane is about to be closed.
LEMMA LeasedFollows == IInv => EphemeralIsLeased
BY AtRest, NowFields DEF Good, Leased, EphemeralIsLeased

\* A pane that is not persistent does not outlive its last lease, however that
\* went (release_ephemeral).
THEOREM EphemeralStaysLeased == Spec => []EphemeralIsLeased
<1> QED BY AlwaysHeld, LeasedFollows, PTL
==============================================================================
