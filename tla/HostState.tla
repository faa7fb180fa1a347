----------------------------- MODULE HostState -----------------------------
(***************************************************************************)
(* What the owner keeps of host actions and pane leases                    *)
(* (tmuxx-runtime/src/lib.rs, notifications.rs), and what must hold of it. *)
(* HostActions has the handlers.  This is a module of its own so that a    *)
(* run which has HostActions as an instance, beside other components,      *)
(* evaluates the assumption and checks the properties that are proved.     *)
(***************************************************************************)
EXTENDS PaneIds, Naturals, FiniteSets, SequencesExt

CONSTANTS
  Clients,      \* subscribed GUI clients, by id
  Remaining,    \* panes with remain-on-exit
  MaxRequests,  \* bound on the requests of applications
  MaxGen,       \* bound on the processes of a pane
  MaxPending,   \* host_actions (1024)
  MaxShown,     \* notifications of one client (129)
  MaxCalls      \* bound on the calls of one handler

ASSUME HostAssumption ==
  /\ Clients \subseteq Nat \ {0} /\ IsFiniteSet(Clients)
  /\ Panes \subseteq Nat /\ IsFiniteSet(Panes) /\ Remaining \subseteq Panes
  /\ MaxRequests \in Nat /\ MaxGen \in Nat \ {0}
  /\ MaxPending \in Nat \ {0} /\ MaxShown \in Nat \ {0} /\ MaxCalls \in Nat

VARIABLES
  known,      \* the clients the owner knows of
  severed,    \* those whose writer has ended; the owner may not know yet
  panes,      \* panes[p]: the pane, its process, its leases and its views
  actions,    \* host_actions, by request
  next,       \* the next request
  answers,    \* answers[e]: what was written to a process for it (history)
  askers,     \* askers[e]: the process that asked (history)
  accepted    \* notifications whose final reply was accepted (history)

Requests == 1 .. MaxRequests

\* gen = 0: no process; ending: its output has ended or it has exited.
\* input: room in the channel to its writer, none for now, or no writer.
Pane == [there : BOOLEAN, gen : 0 .. MaxGen, last : 0 .. MaxGen, ending : BOOLEAN,
         input : {"open", "full", "broken"}, persistent : BOOLEAN,
         owners : SUBSET Clients, views : SUBSET Clients]

NewPane == [there |-> TRUE, gen |-> 1, last |-> 1, ending |-> FALSE,
            input |-> "open", persistent |-> TRUE, owners |-> {}, views |-> {}]

\* A clipboard read; a notification with an identifier, whose application
\* wants reports, and one with neither.
Kinds == {"read", "show", "toast"}

NoAsker == [pane |-> 0, gen |-> 0, kind |-> "toast"]

\* PendingHostAction.  late: past its deadline.  reply: the queued bytes.
Action == [kind : Kinds, client : Clients, pane : Panes, gen : 0 .. MaxGen,
           late : BOOLEAN, untracked : BOOLEAN,
           reply : Seq({"untracked", "final"})]

Notification(a) == a.kind # "read"
Finished(a) == a.reply # <<>> /\ Last(a.reply) = "final"

\* Mutant: any process of the pane is taken for the one that asked.
AnyOwnerAlive(o, a) ==
  LET s == o.panes[a.pane] IN s.there /\ s.gen # 0 /\ ~s.ending

\* notification_owner_alive
OwnerAlive(o, a) ==
  LET s == o.panes[a.pane] IN s.there /\ s.gen # 0 /\ s.gen = a.gen /\ ~s.ending

-----------------------------------------------------------------------------
(* Properties *)

\* What is pending, leased or viewed is so by a client the owner still knows:
\* nothing waits for a client that went, however it went, but a final reply
\* that was accepted and not yet written.
NothingWaitsForTheGone ==
  /\ \A e \in DOMAIN actions :
       \/ actions[e].client \in known
       \/ Finished(actions[e])
       \/ Notification(actions[e]) /\ ~OwnerAlive([panes |-> panes], actions[e])
  /\ \A p \in Panes : panes[p].owners \union panes[p].views \subseteq known

Replies(e) == [i \in DOMAIN answers[e] |-> answers[e][i].reply]

\* A request is answered once: a notification by at most one "untracked" and
\* then one final reply, and to the process that showed it, not to one that
\* was respawned in its pane.  A reply that was accepted from a view reaches its
\* process, although there was no room for it, the view went or its notification
\* was replaced, unless the process ends first.  (A toast wants no reply.)
RepliesExactlyOnce ==
  /\ \A e \in Requests :
       /\ Replies(e) \in {<<>>, <<"untracked">>, <<"final">>, <<"untracked", "final">>}
       /\ e \in DOMAIN actions => "final" \notin ToSet(Replies(e))
       /\ askers[e].kind # "read" =>
            \A i \in DOMAIN answers[e] : answers[e][i].gen = askers[e].gen
  /\ \A e \in accepted :
       LET s == panes[askers[e].pane]
       IN  s.gen = askers[e].gen /\ ~s.ending /\ askers[e].kind = "show" =>
             \/ "final" \in ToSet(Replies(e))
             \/ e \in DOMAIN actions /\ Finished(actions[e])

\* A pane that is not persistent does not outlive its last lease: whether that
\* is released, its client leaves, or is found gone by a message that another
\* pane's end sends it.
EphemeralIsLeased ==
  \A p \in Panes : panes[p].there /\ ~panes[p].persistent => panes[p].owners # {}

=============================================================================
