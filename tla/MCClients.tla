------------------------------ MODULE MCClients ------------------------------
(***************************************************************************)
(* ControlDelivery, HostActions and SystemClient for TLC: three parts that *)
(* share no state, explored by one run in several scopes.  A behaviour is  *)
(* one of a single part while the other two stand still.                   *)
(*   alone:   one pane with every command and flag, and three messages, of *)
(*            which a client that is detached or leaves has two; the pane  *)
(*            is turned off by itself or with all output, which no age     *)
(*            then pauses, and of who has left only the end is explored    *)
(*   beside:  two panes with an output each, one of which is turned off    *)
(*            and paused while the other goes on                           *)
(*   asking:  two clients, one of which may go, and requests of one pane,  *)
(*            whose process may fall behind, end and be replaced           *)
(*   leasing: two panes leased by two clients, and one request             *)
(*   graph:   a stock server whose windows come and go and whose name      *)
(*            changes, over a connection that holds; a new pane puts out   *)
(*   screen:  one window, whose pane puts out and is paused and continued, *)
(*            with a request or a refresh                                  *)
(*   link:    two requests, a new window and a new name, over a connection *)
(*            that may break or be ended                                   *)
(***************************************************************************)
EXTENDS ControlDelivery, HostState

CONSTANTS MaxNames, MaxPauses, MaxRefresh

ASSUME ServerAssumption ==
  1 \in Panes /\ MaxNames \in Nat \ {0} /\ MaxPauses \in Nat /\ MaxRefresh \in Nat

VARIABLES scope, srv, up, down, link, cl, app, ran

Host == INSTANCE HostActions
Sys == INSTANCE SystemClient

hostVars == <<known, severed, panes, actions, next, answers, askers, accepted>>
sysVars == <<srv, up, down, link, cl, app, ran>>

Alone ==
  /\ made'[2] = 0 /\ 2 \notin ctl'.off \union ctl'.paused
  /\ made'[1] + sent' <= 3
  /\ ctl'.closing \/ (live' /\ peer' = "gone") => made'[1] + sent' <= 2
  /\ ctl'.muted => 1 \notin ctl'.off /\ ~ctl'.aging
  /\ peer = "gone" => ~live'

Beside ==
  /\ \A p \in Panes : made'[p] <= 1
  /\ 2 \notin ctl'.off \union ctl'.paused
  /\ ~ctl'.aging /\ ~ctl'.muted /\ ~ctl'.closing
  /\ peer' = "open"

Asking ==
  /\ \A p \in Panes : panes'[p].owners = {}
  /\ \A p \in Panes \ {1} : panes'[p] = Host!NewPane
  /\ severed' \subseteq {1} /\ panes'[1].views \subseteq {2}
  /\ panes'[1].input # "broken"

Leasing ==
  /\ panes'[1].input # "broken" /\ panes'[2].input # "full"
  /\ next' <= 2
  /\ \A p \in Panes :
       panes'[p].views = {} /\ ~panes'[p].ending /\ panes'[p].last = 1
  /\ \A e \in 1 .. MaxRequests : askers'[e].kind # "show"

Graph ==
  /\ link' = "open" /\ app'.asked = 0 /\ app'.refreshes = 0 /\ srv'.pauses = 0
  /\ srv'.count[1] = 0 /\ srv'.count[2] <= 1

Screen ==
  /\ link' = "open" /\ srv'.ever = {1} /\ srv'.name = 1
  /\ app'.asked + app'.refreshes <= 1

Link ==
  /\ srv'.live = srv'.ever /\ srv'.count = [p \in Panes |-> 0]
  /\ srv'.pauses = 0 /\ app'.refreshes = 0

MCInit ==
  /\ Init /\ Host!Init /\ Sys!Init
  /\ scope \in {"alone", "beside", "asking", "leasing", "graph", "screen", "link"}

MCNext ==
  /\ scope' = scope
  /\ \/ /\ scope \in {"alone", "beside"}
        /\ Next /\ UNCHANGED <<hostVars, sysVars>>
        /\ scope = "alone" => Alone
        /\ scope = "beside" => Beside
     \/ /\ scope \in {"asking", "leasing"}
        /\ Host!Next /\ UNCHANGED <<vars, sysVars>>
        /\ scope = "asking" => Asking
        /\ scope = "leasing" => Leasing
     \/ /\ scope \in {"graph", "screen", "link"}
        /\ Sys!Next /\ UNCHANGED <<vars, hostVars>>
        /\ scope = "graph" => Graph
        /\ scope = "screen" => Screen
        /\ scope = "link" => Link

MCSpec == MCInit /\ [][MCNext]_<<vars, hostVars, sysVars, scope>>

-----------------------------------------------------------------------------
(* Types, and the properties of SystemClient, under names of this module; those *)
(* of HostActions are the ones of HostState.                                     *)

\* Every variable of the three sides holds what its declaration says.
ClientsTypeOK == TypeOK /\ Host!TypeOK /\ Sys!TypeOK

\* When everything has been said the client of a stock tmux shows the server as
\* it is, however replies and notifications raced.
QuietMeansCurrent == Sys!QuietMeansCurrent

\* A screen never shows an output of a stock server without the one before it.
ShownIsWhole == Sys!ShownIsWhole

\* A request to a stock server has one outcome at most, and it is true.
OutcomesAreTrue == Sys!OutcomesAreTrue
=============================================================================
