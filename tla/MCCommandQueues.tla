-------------------------- MODULE MCCommandQueues --------------------------
(***************************************************************************)
(* CommandQueues for TLC.  Safety: two scopes explored by one run.         *)
(* "channels": three clients meet on wait channels and locks.  "work": one *)
(* client, with a hook's queue and every other way to wait.  A behaviour   *)
(* of either is one of CommandQueues.  Liveness: every action, "answers".  *)
(***************************************************************************)
EXTENDS CommandQueues

CONSTANTS
  Busy,    \* the clients that ask twice, and for more than one command,
           \* in the first scope
  Worker   \* the client of the second

VARIABLE scope

Turns == \/ DriveBegins \/ DriveLost \/ DriveEnds \/ DriveDetaches
         \/ DriveCannotReply \/ InternalEnds

TopLevelOnly(commands) == \A i \in DOMAIN commands : commands[i] = TopLevel

NextChannels ==
  /\ \/ Turns \/ BatchEnds \/ RunError \/ WaitersFlushed
     \/ \E n \in Channels : \/ RunWait(n) \/ RunSignal(n) \/ RunLock(n)
                            \/ RunUnlock(n)
                            \/ \E who \in Ids : RunWake(n, who)
     \/ \E c \in Clients : ClientGoes(c)
     \/ \E c \in Clients :
          \E size \in IF c \in Busy THEN Sizes \ {0} ELSE {1} : RequestOf(c, size)
  /\ \A c \in Clients : asked'[c] <= IF c \in Busy THEN 2 ELSE 1
  /\ live' \cap Hooks = {}
  /\ \A i \in DOMAIN driving'.queue.pending :
       TopLevelOnly(driving'.queue.pending[i].commands)

NextWork ==
  /\ \/ Turns \/ BatchEnds \/ RunPlain \/ RunError \/ RunInsert \/ RunDetach
     \/ RunKick \/ RunAwait \/ RunFile \/ HookMonitorTick \/ WaitersFlushed
     \/ RunRouse(Worker)
     \/ \E background \in BOOLEAN : RunJob(background)
     \/ \E kind \in {"pane", "stdin"} : RunPane(kind)
     \/ \E j \in DOMAIN scheduler.jobs : JobFinished(j)
     \/ \E c \in DOMAIN scheduler.files : FileCompletes(c)
     \/ \E c \in DOMAIN outside : PaneEnds(c) \/ StdinEnds(c)
     \/ ClientGoes(Worker)
     \/ \E size \in Sizes \ {1} :
          (asked[Worker] = 2 => size = 0) /\ RequestOf(Worker, size)
  /\ Clients \ {Worker} \subseteq live' \ closing'

MCInit == Init /\ scope \in {"channels", "work"}

MCNext ==
  /\ scope' = scope
  /\ \/ scope = "channels" /\ NextChannels
     \/ scope = "work" /\ NextWork

MCSpec == MCInit /\ [][MCNext]_<<vars, scope>>

-----------------------------------------------------------------------------
\* Every action, under its fairness
MCInitFair == Init /\ scope = "answers"

MCNextFair == Next /\ scope' = scope

MCFairSpec == MCInitFair /\ [][MCNextFair]_<<vars, scope>> /\ Fairness
=============================================================================
