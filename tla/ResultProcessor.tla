-------------------------- MODULE ResultProcessor ---------------------------
(***************************************************************************)
(* What becomes of a check result: services/resultprocessor journals it    *)
(* and keeps the incidents, over the tables of storage/sqlite.             *)
(*                                                                         *)
(* A result takes up to four database operations, none in a transaction    *)
(* with another: insert the result, read the open incident, read its       *)
(* reasons, save the incident (this one is a transaction of its own).      *)
(* Between any two of them a request may delete the monitor or a config,   *)
(* the write deadline may pass, or the process may die.                    *)
(*                                                                         *)
(* The consumer of the scheduler is the only caller, so results come one   *)
(* at a time, but workers report in any order: a result may be handled     *)
(* after one that was obtained later.                                      *)
(*                                                                         *)
(* A check gets the next number of the clock, which stands for its time    *)
(* and for the id of its result; an incident is known by the result that   *)
(* opened it.                                                              *)
(***************************************************************************)
EXTENDS Naturals, FiniteSets, Functions

CONSTANTS
  Monitors,     \* ids of the monitors
  Configs,      \* ids of their check configs
  HTTPConfigs,  \* those that can be removed on their own
  MonitorOf,    \* MonitorOf[c]: the monitor c belongs to
  None,         \* nothing, NULL
  MaxChecks,    \* bound: checks made
  MaxFaults,    \* bound: failed operations and crashes
  MaxChanges    \* bound: requests that change monitors and configs

ASSUME ConfigAssumption ==
  /\ HTTPConfigs \subseteq Configs
  /\ MonitorOf \in [Configs -> Monitors]
  /\ None \notin Nat
ASSUME BoundAssumption ==
  /\ MaxChecks \in Nat /\ MaxFaults \in Nat /\ MaxChanges \in Nat

VARIABLES
  monitors,   \* table monitors
  configs,    \* tables ping_configs and http_configs
  enabled,    \* the configs with is_enabled = 1
  results,    \* table check_results: the row of each config inserted last, or None
  incidents,  \* tables incidents and incident_reasons
  pending,    \* results obtained by workers and not yet handled
  pc,         \* HandleCheckResult: "idle", "lookup", "reasons", "save"
  cur,        \* the result being handled
  inc,        \* the incident read or opened for it
  clock,      \* the time: how many checks were made
  faults,     \* operations that failed, and crashes
  changes,    \* requests that changed monitors or configs
  withdrawn,  \* configs that a request to this process turned off or removed
  stale       \* configs whose last journaled result did not reach the incidents

settings == <<monitors, configs, enabled, changes, withdrawn>>
handler == <<pc, cur, inc>>
vars == <<monitors, configs, enabled, results, incidents, pending, pc, cur, inc,
          clock, faults, changes, withdrawn, stale>>

Times == 1..MaxChecks
Statuses == {"success", "failure"}
Result == [cfg : Configs, status : Statuses, at : Times]
Reason == [since : Times, seen : Times, latest : Times]
Reasons == UNION {[S -> Reason] : S \in SUBSET Configs}
Incident == [id : Times, mon : Monitors, since : Times, until : Times \cup {None},
             why : {"", "recovered"}, reasons : Reasons]

ConfigsOf(m) == {c \in Configs : MonitorOf[c] = m}
NoReasons == [c \in {} |-> None]

Init ==
  /\ monitors = Monitors /\ configs = Configs /\ enabled = Configs
  /\ results = [c \in Configs |-> None] /\ incidents = {} /\ pending = {}
  /\ pc = "idle" /\ cur = None /\ inc = None
  /\ clock = 0 /\ faults = 0 /\ changes = 0
  /\ withdrawn = {} /\ stale = {}

-----------------------------------------------------------------------------
(***************************************************************************)
(* The domain: monitor.Incident.                                           *)
(***************************************************************************)
BuildReason(r) == [since |-> r.at, seen |-> r.at, latest |-> r.at]

OpenIncident(r) ==
  [id |-> r.at, mon |-> MonitorOf[r.cfg], since |-> r.at, until |-> None, why |-> "",
   reasons |-> [c \in {r.cfg} |-> BuildReason(r)]]

\* A reason that is there keeps the time it began.
RecordFailure(i, r) ==
  LET began == IF r.cfg \in DOMAIN i.reasons THEN i.reasons[r.cfg].since ELSE r.at
      new == [BuildReason(r) EXCEPT !.since = began]
  IN  [i EXCEPT !.reasons = [c \in DOMAIN @ \cup {r.cfg} |-> IF c = r.cfg THEN new ELSE @[c]]]

NeverCloses(i, at) == i

TryClose(i, at) ==
  IF DOMAIN i.reasons = {} /\ i.until = None
  THEN [i EXCEPT !.until = at, !.why = "recovered"]
  ELSE i

RecoverAtItsStart(i, r) ==
  TryClose([i EXCEPT !.reasons = Restrict(@, DOMAIN @ \ {r.cfg})], i.reasons[r.cfg].since)

RecoverReason(i, r) ==
  TryClose([i EXCEPT !.reasons = Restrict(@, DOMAIN @ \ {r.cfg})], r.at)

-----------------------------------------------------------------------------
(***************************************************************************)
(* HandleCheckResult.                                                      *)
(***************************************************************************)
Return == pc' = "idle" /\ cur' = None /\ inc' = None

\* The configs whose result is on its way.
InFlight == {r.cfg : r \in pending \cup (IF pc = "idle" THEN {} ELSE {cur})}

\* A worker obtains a result. A config that stayed in the schedule since the process
\* started has one check at a time (theorem OneFlight of SchedulerProofs). One that was
\* withdrawn may be checked a while longer, until the scheduler hears of it, or again,
\* when a request enables it or the event of an overlapping update brings it back; and
\* then its id is new to the scheduler, which begins a check beside the one still out.
Check(c, status) ==
  /\ clock < MaxChecks
  /\ c \in enabled \cup withdrawn
  /\ c \notin withdrawn => c \notin InFlight
  /\ clock' = clock + 1
  /\ pending' = pending \cup {[cfg |-> c, status |-> status, at |-> clock + 1]}
  /\ UNCHANGED <<settings, results, incidents, handler, faults, stale>>

\* The insert: the foreign keys refuse the result of a config that is gone.
SaveCheckResult ==
  /\ pc = "idle"
  /\ \E r \in pending :
       /\ pending' = pending \ {r}
       /\ IF r.cfg \in configs
          THEN /\ results' = [results EXCEPT ![r.cfg] = r]
               /\ pc' = "lookup" /\ cur' = r /\ inc' = None
          ELSE UNCHANGED <<results, handler>>
  /\ UNCHANGED <<settings, incidents, clock, faults, stale>>

OpenOf(m) == {i \in incidents : i.mon = m /\ i.until = None}

LatestOf(m) == {i \in incidents : i.mon = m}
Unexplained(m) == {i \in incidents : i.mon = m /\ i.why = None}

IncidentRow(m) == OpenOf(m)

\* GetOpenByMonitor, first query, and the cases where there is no incident.
FindOpen ==
  /\ pc = "lookup"
  /\ LET open == IncidentRow(MonitorOf[cur.cfg]) IN
       \/ /\ open # {}
          /\ \E i \in open : inc' = [i EXCEPT !.reasons = NoReasons]
          /\ pc' = "reasons" /\ UNCHANGED <<cur, stale>>
       \/ /\ open = {} /\ cur.status = "success"
          /\ Return
          /\ stale' = stale \ {cur.cfg}
       \/ /\ open = {} /\ cur.status = "failure"
          /\ inc' = OpenIncident(cur)
          /\ pc' = "save" /\ UNCHANGED <<cur, stale>>
  /\ UNCHANGED <<settings, results, incidents, pending, clock, faults>>

\* Its second query, and the cases where an incident is open. The query finds
\* nothing when the monitor was deleted in between.
ReadReasons ==
  /\ pc = "reasons"
  /\ LET rows == {i \in incidents : i.id = inc.id}
         found == [inc EXCEPT !.reasons =
                     IF rows = {} THEN NoReasons ELSE (CHOOSE i \in rows : TRUE).reasons]
     IN  \/ /\ cur.status = "success" /\ cur.cfg \notin DOMAIN found.reasons
            /\ Return
            /\ stale' = stale \ {cur.cfg}
         \/ /\ cur.status = "success" /\ cur.cfg \in DOMAIN found.reasons
            /\ inc' = RecoverReason(found, cur)
            /\ pc' = "save" /\ UNCHANGED <<cur, stale>>
         \/ /\ cur.status = "failure"
            /\ inc' = RecordFailure(found, cur)
            /\ pc' = "save" /\ UNCHANGED <<cur, stale>>
  /\ UNCHANGED <<settings, results, incidents, pending, clock, faults>>

\* What the upsert leaves of the row: it does not write started_at.
Upsert(old, new) == [new EXCEPT !.since = old.since]

UpsertKeepsReasons(old, new) == [Upsert(old, new) EXCEPT !.reasons = [
  c \in DOMAIN old.reasons \cup DOMAIN new.reasons |->
    IF c \in DOMAIN new.reasons THEN new.reasons[c] ELSE old.reasons[c]]]

SaveRow(old, new) == Upsert(old, new)

RefusesNone(i) == FALSE

\* A new row is refused when its monitor is gone or has an open incident already.
Refused(i) == i.mon \notin monitors \/ OpenOf(i.mon) # {}

\* The transaction of Save.
SaveIncident ==
  /\ pc = "save"
  /\ LET row == {i \in incidents : i.id = inc.id}
         refused == row = {} /\ Refused(inc)
     IN  \/ /\ refused
            /\ stale' = stale \cup {cur.cfg}
            /\ UNCHANGED incidents
         \/ /\ ~refused
            /\ incidents' = (incidents \ row) \cup
                 {IF row = {} THEN inc ELSE SaveRow(CHOOSE i \in row : TRUE, inc)}
            /\ stale' = stale \ {cur.cfg}
  /\ Return
  /\ UNCHANGED <<settings, results, pending, clock, faults>>

\* A database operation fails or passes its deadline: the result is given up.
GiveUp ==
  /\ faults < MaxFaults
  /\ faults' = faults + 1
  /\ \/ /\ pc = "idle"
        /\ \E r \in pending : pending' = pending \ {r}
        /\ UNCHANGED stale
     \/ /\ pc # "idle"
        /\ stale' = stale \cup {cur.cfg}
        /\ UNCHANGED pending
  /\ Return
  /\ UNCHANGED <<settings, results, incidents, clock>>

\* The process dies (or is stopped before it has drained) and starts again, with the
\* schedule of the tables and no check out.
Crash ==
  /\ faults < MaxFaults
  /\ faults' = faults + 1
  /\ pending' = {}
  /\ stale' = IF pc = "idle" THEN stale ELSE stale \cup {cur.cfg}
  /\ withdrawn' = {}
  /\ Return
  /\ UNCHANGED <<monitors, configs, enabled, changes, results, incidents, clock>>

-----------------------------------------------------------------------------
(***************************************************************************)
(* Requests that change the tables meanwhile.                              *)
(***************************************************************************)
Change ==
  /\ changes < MaxChanges
  /\ changes' = changes + 1
  /\ UNCHANGED <<pending, handler, clock, faults, stale>>

Enable(c) ==
  /\ Change
  /\ c \in configs \ enabled
  /\ enabled' = enabled \cup {c}
  /\ UNCHANGED <<monitors, configs, results, incidents, withdrawn>>

\* The configs of C leave the schedule, those that are in it.
Withdraw(C) ==
  /\ enabled' = enabled \ C
  /\ withdrawn' = withdrawn \cup (C \cap enabled)

Disable(c) ==
  /\ Change
  /\ c \in enabled
  /\ Withdraw({c})
  /\ UNCHANGED <<monitors, configs, results, incidents>>

\* The configs of C are deleted and their rows of check_results with them.
Remove(C) ==
  /\ configs' = configs \ C
  /\ results' = [c \in Configs |-> IF c \in C THEN None ELSE results[c]]
  /\ Withdraw(C)

\* incident_reasons has no foreign key to a config: its reason stays.
RemoveHTTPConfig(c) ==
  /\ Change
  /\ c \in configs \cap HTTPConfigs
  /\ Remove({c})
  /\ UNCHANGED <<monitors, incidents>>

DeleteMonitor(m) ==
  /\ Change
  /\ m \in monitors
  /\ monitors' = monitors \ {m}
  /\ Remove(ConfigsOf(m))
  /\ incidents' = {i \in incidents : i.mon # m}

Requests ==
  \/ \E c \in Configs : Enable(c) \/ Disable(c) \/ RemoveHTTPConfig(c)
  \/ \E m \in Monitors : DeleteMonitor(m)

Handle == SaveCheckResult \/ FindOpen \/ ReadReasons \/ SaveIncident

Next ==
  \/ \E c \in Configs, status \in Statuses : Check(c, status)
  \/ Handle
  \/ GiveUp
  \/ Crash
  \/ Requests

Spec == Init /\ [][Next]_vars
-----------------------------------------------------------------------------
(***************************************************************************)
(* Properties.                                                             *)
(***************************************************************************)

\* Every variable has its type, and the foreign keys hold: no row outlives the
\* config or the monitor it belongs to, whatever was deleted while a result was
\* being handled.
TypeOK ==
  /\ monitors \subseteq Monitors
  /\ configs \subseteq Configs /\ enabled \subseteq configs
  /\ results \in [Configs -> Result \cup {None}] /\ pending \subseteq Result
  /\ incidents \subseteq Incident
  /\ pc \in {"idle", "lookup", "reasons", "save"}
  /\ IF pc = "idle" THEN cur = None ELSE cur \in Result
  /\ IF pc \in {"idle", "lookup"} THEN inc = None ELSE inc \in Incident
  /\ clock \in 0..MaxChecks /\ faults \in 0..MaxFaults /\ changes \in 0..MaxChanges
  /\ withdrawn \subseteq Configs /\ stale \subseteq Configs
  /\ \A c \in configs : MonitorOf[c] \in monitors
  /\ \A c \in Configs : results[c] # None => c \in configs /\ results[c].cfg = c
  /\ \A i \in incidents : i.mon \in monitors

\* The status of a monitor, derived when it is read.
DeriveStatus(m) == IF OpenOf(m) # {} THEN "down" ELSE "up"

Handling(c) == pc # "idle" /\ cur.cfg = c
ReasonsOf(m) == UNION {DOMAIN i.reasons : i \in OpenOf(m)}

\* Journal and incidents tell the same story: outside the handling of a result of
\* c, and unless an operation on its last result failed, c is a reason of the open
\* incident of its monitor exactly when the result of c journaled last is a failure,
\* and the reason points at that result (HandleCheckResult, all four cases). That one
\* is also the latest, as TimesInOrder says, except for withdrawn configs.
LastResultAgrees ==
  \A c \in configs \ stale :
    ~Handling(c) /\ results[c] # None =>
      /\ c \in ReasonsOf(MonitorOf[c]) <=> results[c].status = "failure"
      /\ \A i \in OpenOf(MonitorOf[c]) :
           c \in DOMAIN i.reasons => i.reasons[c].latest = results[c].at

\* The lookup and the insert are two transactions, but nobody opens an incident in
\* between: the unique index never refuses one and no failure is dropped for it.
OpenIsFree ==
  pc = "save" /\ inc.mon \in monitors /\ (\A i \in incidents : i.id # inc.id)
    => OpenOf(inc.mon) = {}

\* At most one incident is open per monitor, and it is open as long as it has
\* reasons: its status can only come back to "up" when the last reason recovers
\* (RecoverReason, tryClose, the two statements of Save).
ClosedIffEmpty ==
  /\ \A m \in Monitors : Cardinality(OpenOf(m)) <= 1
  /\ \A i \in incidents : i.until # None <=> DOMAIN i.reasons = {}

\* A closed incident is history: it is never written again and goes only with its
\* monitor, and no step moves the start of one.
ClosedIsFinal ==
  [][\A i \in incidents : i.mon \in monitors' =>
       \E j \in incidents' : /\ j.id = i.id /\ j.since = i.since
                             /\ i.until # None => j = i]_vars

\* Although results are handled out of order, no incident is closed by a result
\* older than the failure that opened it, no reason is last seen before it began, and
\* the journal takes the results of a config in the order of their times. A withdrawn
\* config may have two checks out, whose results come in any order.
TimesInOrder ==
  [][\A c \in Configs \ withdrawn :
       /\ results[c] # None /\ results'[c] \notin {results[c], None} =>
            results[c].at < results'[c].at
       /\ Handling(c) => \A i \in incidents' \ incidents :
            /\ i.until # None => i.since < i.until
            /\ c \in DOMAIN i.reasons => i.reasons[c].since <= i.reasons[c].seen]_vars

\* A config that fails brings its monitor down and a recovery brings it up again:
\* once no result is left to handle, a monitor that is down has an enabled config
\* that fails. RemoveReason is there to "drop configID's reason when its config is
\* deleted or disabled", and nothing calls it.
DownHasCause ==
  pc = "idle" /\ pending = {} =>
    \A m \in monitors :
      DeriveStatus(m) = "down" => ReasonsOf(m) \cap enabled # {}
=============================================================================
