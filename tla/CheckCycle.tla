----------------------------- MODULE CheckCycle -----------------------------
(***************************************************************************)
(* What the scheduler promises about every check config, whatever the      *)
(* number of goroutines behind it: a config that is scheduled runs one     *)
(* check at a time, always with the settings it has when the check begins, *)
(* and a config that was dropped begins no check any more.                 *)
(*                                                                         *)
(* The module has no counterpart in the code: it is the specification that *)
(* Scheduler.tla is shown to implement.                                    *)
(***************************************************************************)
CONSTANTS
  Configs,     \* ids of the check configs
  Versions,    \* the settings a config may have (interval, timeout, target)
  NoVersion    \* the config is not scheduled, or nothing runs

VARIABLES
  job,         \* job[c]: the settings c is scheduled with, or NoVersion
  running,     \* running[c]: the settings of the check of c under way
  out          \* configs whose current check has not been accounted for

cycleVars == <<job, running, out>>

CycleInit ==
  /\ job \in [Configs -> Versions \cup {NoVersion}]
  /\ running = [c \in Configs |-> NoVersion]
  /\ out = {}

\* A configuration change is taken over.  A config dropped while its check is
\* out is not scheduled again before that check is accounted for.
Configure(c, v) ==
  /\ (job[c] = NoVersion /\ v # NoVersion) => c \notin out
  /\ job' = [job EXCEPT ![c] = v]
  /\ UNCHANGED <<running, out>>

\* A check begins: only of a scheduled config, with its present settings, and
\* never while an earlier check of the same config is out.
Begin(c) ==
  /\ job[c] # NoVersion
  /\ c \notin out
  /\ running' = [running EXCEPT ![c] = job[c]]
  /\ out' = out \cup {c}
  /\ UNCHANGED job

\* The check itself is over; its result is still on its way.
Finish(c) ==
  /\ running[c] # NoVersion
  /\ running' = [running EXCEPT ![c] = NoVersion]
  /\ UNCHANGED <<job, out>>

\* The result has been accounted for.  The next check may begin.
Rearm(c) ==
  /\ c \in out
  /\ running[c] = NoVersion
  /\ out' = out \ {c}
  /\ UNCHANGED <<job, running>>

\* Shutdown: a check is given up before any worker took it.
Abandon(c) ==
  /\ c \in out
  /\ running' = [running EXCEPT ![c] = NoVersion]
  /\ out' = out \ {c}
  /\ UNCHANGED job

CycleNext ==
  \E c \in Configs :
    \/ \E v \in Versions \cup {NoVersion} : Configure(c, v)
    \/ Begin(c) \/ Finish(c) \/ Rearm(c) \/ Abandon(c)

CycleSpec == CycleInit /\ [][CycleNext]_cycleVars

=============================================================================
