---------------------------- MODULE ResultProofs ----------------------------
(***************************************************************************)
(* Theorems about ResultProcessor, for every set of monitors and configs   *)
(* and every bound.                                                        *)
(***************************************************************************)
EXTENDS ResultProcessor, FiniteSetTheorems, TLAPS

Held == pc \in {"reasons", "save"}

\* Ids are never used twice: no incident, pending result or held incident has
\* the number of another one that is still to open an incident.
IdsFresh ==
  /\ \A i \in incidents : i.id <= clock
  /\ \A r \in pending : r.at <= clock /\ \A i \in incidents : i.id # r.at
  /\ \A r, q \in pending : r.at = q.at => r = q
  /\ pc # "idle" => cur.at <= clock /\ \A r \in pending : r.at # cur.at
  /\ pc = "lookup" => \A i \in incidents : i.id # cur.at
  /\ Held => inc.id <= clock /\ \A r \in pending : r.at # inc.id

\* The incidents in the table: an id names one, one is open per monitor, and it is
\* open as long as it has reasons.
TableOK ==
  /\ \A i, j \in incidents : i.id = j.id => i = j
  /\ \A i, j \in incidents : i.mon = j.mon /\ i.until = None /\ j.until = None => i = j
  /\ \A i \in incidents : i.until # None <=> DOMAIN i.reasons = {}

\* The incident the handler holds is the open one of its monitor, or its monitor
\* has none, or its monitor is gone.
HeldOK ==
  /\ Held =>
       /\ inc.mon = MonitorOf[cur.cfg]
       /\ \A i \in incidents : i.id = inc.id => i.mon = inc.mon /\ i.until = None
       /\ inc.mon \in monitors =>
            \A i \in incidents : i.mon = inc.mon /\ i.until = None => i.id = inc.id
  /\ pc = "reasons" => inc.until = None
  /\ pc = "save" => (inc.until # None <=> DOMAIN inc.reasons = {})

IncidentInv == TypeOK /\ IdsFresh /\ TableOK /\ HeldOK

-----------------------------------------------------------------------------
(* The domain operators.                                                     *)

LEMMA ReasonsIntro ==
  ASSUME NEW S \in SUBSET Configs, NEW f \in [S -> Reason]
  PROVE  f \in Reasons
BY DEF Reasons

LEMMA ReasonsElim ==
  ASSUME NEW f \in Reasons
  PROVE  DOMAIN f \in SUBSET Configs /\ f \in [DOMAIN f -> Reason]
<1>1. PICK S \in SUBSET Configs : f \in [S -> Reason]
  BY DEF Reasons
<1> QED
  BY <1>1

LEMMA BuildType ==
  ASSUME NEW r \in Result
  PROVE  BuildReason(r) \in Reason
BY DEF Result, Reason, BuildReason

\* OpenIncident gives an open incident with one reason.
LEMMA OpenType ==
  ASSUME NEW r \in Result
  PROVE  /\ OpenIncident(r) \in Incident
         /\ OpenIncident(r).id = r.at /\ OpenIncident(r).mon = MonitorOf[r.cfg]
         /\ OpenIncident(r).until = None
         /\ DOMAIN OpenIncident(r).reasons # {}
<1> DEFINE f == [c \in {r.cfg} |-> BuildReason(r)]
<1>1. f \in Reasons
  <2>1. {r.cfg} \in SUBSET Configs
    BY DEF Result
  <2>2. f \in [{r.cfg} -> Reason]
    BY BuildType
  <2> QED
    BY <2>1, <2>2, ReasonsIntro
<1>2. r.at \in Times /\ MonitorOf[r.cfg] \in Monitors
  BY ConfigAssumption DEF Result
<1> QED
  BY <1>1, <1>2 DEF OpenIncident, Incident

\* RecordFailure leaves an open incident open.
LEMMA FailureType ==
  ASSUME NEW i \in Incident, NEW r \in Result
  PROVE  /\ RecordFailure(i, r) \in Incident
         /\ RecordFailure(i, r).id = i.id /\ RecordFailure(i, r).mon = i.mon
         /\ RecordFailure(i, r).since = i.since /\ RecordFailure(i, r).until = i.until
         /\ DOMAIN RecordFailure(i, r).reasons # {}
<1> DEFINE D == DOMAIN i.reasons
           began == IF r.cfg \in D THEN i.reasons[r.cfg].since ELSE r.at
           new == [BuildReason(r) EXCEPT !.since = began]
           f == [c \in D \cup {r.cfg} |-> IF c = r.cfg THEN new ELSE i.reasons[c]]
<1>1. i.reasons \in Reasons
  BY DEF Incident
<1>2. D \in SUBSET Configs /\ i.reasons \in [D -> Reason]
  BY <1>1, ReasonsElim
<1>3. began \in Times
  BY <1>2 DEF Reason, Result
<1>4. new \in Reason
  BY <1>3, BuildType DEF Reason
<1>5. f \in Reasons
  <2>1. D \cup {r.cfg} \in SUBSET Configs
    BY <1>2 DEF Result
  <2>2. f \in [D \cup {r.cfg} -> Reason]
    BY <1>2, <1>4
  <2> HIDE DEF f
  <2> QED
    BY <2>1, <2>2, ReasonsIntro
<1>6. RecordFailure(i, r) = [i EXCEPT !.reasons = f]
  BY DEF RecordFailure
<1>7. DOMAIN f # {}
  OBVIOUS
<1> HIDE DEF f
<1> QED
  BY <1>5, <1>6, <1>7 DEF Incident

\* RecoverReason closes an open incident exactly when no reason is left.
LEMMA RecoverType ==
  ASSUME NEW i \in Incident, NEW r \in Result, i.until = None
  PROVE  /\ RecoverReason(i, r) \in Incident
         /\ RecoverReason(i, r).id = i.id /\ RecoverReason(i, r).mon = i.mon
         /\ RecoverReason(i, r).since = i.since
         /\ RecoverReason(i, r).until # None <=> DOMAIN RecoverReason(i, r).reasons = {}
<1> DEFINE f == Restrict(i.reasons, DOMAIN i.reasons \ {r.cfg})
           k == [i EXCEPT !.reasons = f]
<1>1. i.reasons \in Reasons
  BY DEF Incident
<1>2. DOMAIN i.reasons \in SUBSET Configs /\ i.reasons \in [DOMAIN i.reasons -> Reason]
  BY <1>1, ReasonsElim
<1>3. f \in Reasons
  <2>1. DOMAIN i.reasons \ {r.cfg} \in SUBSET Configs
    BY <1>2
  <2>2. f \in [DOMAIN i.reasons \ {r.cfg} -> Reason]
    BY <1>2 DEF Restrict
  <2> HIDE DEF f
  <2> QED
    BY <2>1, <2>2, ReasonsIntro
<1>4. RecoverReason(i, r) = TryClose(k, r.at)
  BY DEF RecoverReason
<1>5. r.at \in Times /\ r.at # None
  BY ConfigAssumption, BoundAssumption DEF Result, Times
<1> HIDE DEF f
<1>6. /\ k \in Incident /\ k.id = i.id /\ k.mon = i.mon /\ k.since = i.since
      /\ k.until = None /\ k.reasons = f
  BY <1>3 DEF Incident
<1> HIDE DEF k
<1>7. CASE DOMAIN f = {}
  <2> DEFINE n == [k EXCEPT !.until = r.at, !.why = "recovered"]
  <2>1. TryClose(k, r.at) = n
    BY <1>6, <1>7 DEF TryClose
  <2>2. n \in Incident
    BY <1>5, <1>6 DEF Incident
  <2>3. /\ n.id = k.id /\ n.mon = k.mon /\ n.since = k.since
        /\ n.until = r.at /\ n.reasons = k.reasons
    BY <1>6 DEF Incident
  <2> HIDE DEF n
  <2> QED
    BY <1>4, <1>5, <1>6, <1>7, <2>1, <2>2, <2>3
<1>8. CASE DOMAIN f # {}
  <2>1. TryClose(k, r.at) = k
    BY <1>6, <1>8 DEF TryClose
  <2> QED
    BY <1>4, <1>6, <1>8, <2>1
<1> QED
  BY <1>7, <1>8

-----------------------------------------------------------------------------
(* The invariant.                                                            *)

LEMMA IncidentInit == Init => IncidentInv
<1> SUFFICES ASSUME Init PROVE IncidentInv
  OBVIOUS
<1> USE DEF Init
<1>1. TypeOK
  BY ConfigAssumption, BoundAssumption DEF TypeOK
<1>2. IdsFresh /\ TableOK /\ HeldOK
  BY DEF IdsFresh, TableOK, HeldOK, Held
<1> QED
  BY <1>1, <1>2 DEF IncidentInv

\* The numbers in use, and the numbers to come.
LEMMA NumbersAreNat ==
  ASSUME TypeOK
  PROVE  /\ clock \in Nat
         /\ \A i \in incidents : i.id \in Nat
         /\ \A r \in pending : r.at \in Nat
         /\ pc # "idle" => cur.at \in Nat
         /\ Held => inc.id \in Nat
<1>1. Times \subseteq Nat /\ 0..MaxChecks \subseteq Nat
  BY BoundAssumption DEF Times
<1> QED
  BY <1>1 DEF TypeOK, Result, Incident, Held

\* A step that keeps the handler, the incidents and the monitors, and takes pending
\* results away at most.
LEMMA HandlerUntouched ==
  ASSUME IncidentInv, UNCHANGED <<handler, incidents, monitors, clock>>,
         pending' \subseteq pending
  PROVE  IdsFresh' /\ TableOK' /\ HeldOK'
BY DEF IncidentInv, IdsFresh, TableOK, HeldOK, Held, handler

\* A step after which the handler is idle and the table as it was.
LEMMA HandlerReturns ==
  ASSUME IncidentInv, Return, UNCHANGED <<incidents, clock>>, pending' \subseteq pending
  PROVE  IdsFresh' /\ TableOK' /\ HeldOK'
BY DEF IncidentInv, IdsFresh, TableOK, HeldOK, Held, Return

LEMMA CheckStep ==
  ASSUME IncidentInv, NEW c \in Configs, NEW status \in Statuses, Check(c, status)
  PROVE  IncidentInv'
<1> DEFINE r == [cfg |-> c, status |-> status, at |-> clock + 1]
<1> USE DEF IncidentInv, Check, settings, handler
<1>1. clock + 1 \in Times /\ clock + 1 \in 0..MaxChecks
  BY BoundAssumption DEF TypeOK, Times
<1>2. r \in Result
  BY <1>1 DEF Result
<1>3. TypeOK'
  BY <1>1, <1>2 DEF TypeOK
<1>4. IdsFresh'
  <2>1. pending' = pending \cup {r} /\ clock' = clock + 1 /\ r.at = clock + 1
    OBVIOUS
  <2> HIDE DEF r
  <2> QED
    BY <2>1, NumbersAreNat DEF IdsFresh, Held
<1>5. TableOK' /\ HeldOK'
  BY DEF TableOK, HeldOK, Held
<1> QED
  BY <1>3, <1>4, <1>5

LEMMA JournalStep == IncidentInv /\ SaveCheckResult => IncidentInv'
<1> SUFFICES ASSUME IncidentInv, SaveCheckResult PROVE IncidentInv'
  OBVIOUS
<1> USE DEF IncidentInv
<1>1. PICK r \in pending :
        /\ pending' = pending \ {r}
        /\ IF r.cfg \in configs
           THEN /\ results' = [results EXCEPT ![r.cfg] = r]
                /\ pc' = "lookup" /\ cur' = r /\ inc' = None
           ELSE UNCHANGED <<results, handler>>
  BY DEF SaveCheckResult
<1>2. pc = "idle" /\ UNCHANGED <<settings, incidents, clock, faults, stale>>
  BY DEF SaveCheckResult
<1>3. CASE r.cfg \in configs
  <2>1. TypeOK'
    BY <1>1, <1>2, <1>3 DEF TypeOK, settings
  <2>2. IdsFresh' /\ TableOK' /\ HeldOK'
    BY <1>1, <1>2, <1>3 DEF IdsFresh, TableOK, HeldOK, Held
  <2> QED
    BY <2>1, <2>2
<1>4. CASE r.cfg \notin configs
  <2>1. TypeOK'
    BY <1>1, <1>2, <1>4 DEF TypeOK, settings, handler
  <2>2. IdsFresh' /\ TableOK' /\ HeldOK'
    BY <1>1, <1>2, <1>4, HandlerUntouched DEF settings
  <2> QED
    BY <2>1, <2>2
<1> QED
  BY <1>3, <1>4

\* GetOpenByMonitor's row, or the new incident.
LEMMA LookupStep == IncidentInv /\ FindOpen => IncidentInv'
<1> SUFFICES ASSUME IncidentInv, FindOpen PROVE IncidentInv'
  OBVIOUS
<1> USE DEF IncidentInv
<1> DEFINE m == MonitorOf[cur.cfg]
           open == OpenOf(m)
<1>1. /\ pc = "lookup" /\ cur \in Result
      /\ UNCHANGED <<settings, results, incidents, pending, clock, faults>>
  BY DEF FindOpen, TypeOK
<1>2. CASE /\ open # {}
           /\ \E i \in open : inc' = [i EXCEPT !.reasons = NoReasons]
           /\ pc' = "reasons" /\ UNCHANGED <<cur, stale>>
  <2>1. PICK i \in open : inc' = [i EXCEPT !.reasons = NoReasons]
    BY <1>2
  <2>2. i \in incidents /\ i \in Incident /\ i.mon = m /\ i.until = None
    BY DEF OpenOf, TypeOK
  <2>3. NoReasons \in Reasons
    <3>1. {} \in SUBSET Configs /\ NoReasons \in [{} -> Reason]
      BY DEF NoReasons
    <3> QED
      BY <3>1, ReasonsIntro
  <2>4. /\ inc' \in Incident /\ inc'.id = i.id /\ inc'.mon = m /\ inc'.until = None
    BY <2>1, <2>2, <2>3 DEF Incident
  <2>5. TypeOK'
    BY <1>1, <1>2, <2>4 DEF TypeOK, settings
  <2>6. IdsFresh'
    BY <1>1, <1>2, <2>2, <2>4 DEF IdsFresh, Held
  <2>7. TableOK' /\ HeldOK'
    BY <1>1, <1>2, <2>2, <2>4 DEF TableOK, HeldOK, Held, settings
  <2> QED
    BY <2>5, <2>6, <2>7
<1>3. CASE open = {} /\ cur.status = "success" /\ Return /\ stale' = stale \ {cur.cfg}
  <2>1. TypeOK'
    BY <1>1, <1>3 DEF TypeOK, settings, Return
  <2> QED
    BY <1>1, <1>3, <2>1, HandlerReturns
<1>4. CASE /\ open = {} /\ cur.status = "failure"
           /\ inc' = OpenIncident(cur)
           /\ pc' = "save" /\ UNCHANGED <<cur, stale>>
  <2>1. /\ inc' \in Incident /\ inc'.id = cur.at /\ inc'.mon = m /\ inc'.until = None
        /\ DOMAIN inc'.reasons # {}
    BY <1>1, <1>4, OpenType
  <2>2. TypeOK'
    BY <1>1, <1>4, <2>1 DEF TypeOK, settings
  <2>3. IdsFresh'
    BY <1>1, <1>4, <2>1 DEF IdsFresh, Held
  <2>4. \A i \in incidents : ~(i.mon = m /\ i.until = None)
    BY <1>4 DEF OpenOf
  <2>5. TableOK' /\ HeldOK'
    BY <1>1, <1>4, <2>1, <2>4 DEF TableOK, HeldOK, Held, settings, IdsFresh
  <2> QED
    BY <2>2, <2>3, <2>5
<1> QED
  BY <1>2, <1>3, <1>4 DEF FindOpen, IncidentRow

\* What ReadReasons finds is the held incident with reasons of the table.
LEMMA ReadStep == IncidentInv /\ ReadReasons => IncidentInv'
<1> SUFFICES ASSUME IncidentInv, ReadReasons PROVE IncidentInv'
  OBVIOUS
<1> USE DEF IncidentInv
<1> DEFINE rows == {i \in incidents : i.id = inc.id}
           why == IF rows = {} THEN NoReasons ELSE (CHOOSE i \in rows : TRUE).reasons
           found == [inc EXCEPT !.reasons = why]
<1>1. /\ pc = "reasons" /\ cur \in Result /\ inc \in Incident /\ inc.until = None
      /\ UNCHANGED <<settings, results, incidents, pending, clock, faults>>
  BY DEF ReadReasons, TypeOK, HeldOK
<1>2. why \in Reasons
  <2>1. CASE rows = {}
    <3>1. {} \in SUBSET Configs /\ NoReasons \in [{} -> Reason]
      BY DEF NoReasons
    <3> QED
      BY <2>1, <3>1, ReasonsIntro
  <2>2. CASE rows # {}
    <3>1. (CHOOSE i \in rows : TRUE) \in rows
      BY <2>2
    <3>2. (CHOOSE i \in rows : TRUE) \in Incident
      BY <3>1 DEF TypeOK
    <3> QED
      BY <2>2, <3>2 DEF Incident
  <2> QED
    BY <2>1, <2>2
<1> HIDE DEF why
<1>3. /\ found \in Incident /\ found.id = inc.id /\ found.mon = inc.mon
      /\ found.until = None
  BY <1>1, <1>2 DEF Incident
<1> HIDE DEF found
<1>4. \/ /\ cur.status = "success" /\ cur.cfg \notin DOMAIN found.reasons
         /\ Return /\ stale' = stale \ {cur.cfg}
      \/ /\ inc' = RecoverReason(found, cur)
         /\ pc' = "save" /\ UNCHANGED <<cur, stale>>
      \/ /\ inc' = RecordFailure(found, cur)
         /\ pc' = "save" /\ UNCHANGED <<cur, stale>>
  BY DEF ReadReasons, found, why
<1>5. CASE Return /\ stale' = stale \ {cur.cfg}
  <2>1. TypeOK'
    BY <1>1, <1>5 DEF TypeOK, settings, Return
  <2> QED
    BY <1>1, <1>5, <2>1, HandlerReturns
<1>6. CASE /\ inc' = RecoverReason(found, cur) \/ inc' = RecordFailure(found, cur)
           /\ pc' = "save" /\ UNCHANGED <<cur, stale>>
  <2>1. /\ inc' \in Incident /\ inc'.id = inc.id /\ inc'.mon = inc.mon
        /\ inc'.until # None <=> DOMAIN inc'.reasons = {}
    BY <1>1, <1>3, <1>6, RecoverType, FailureType
  <2>2. TypeOK'
    BY <1>1, <1>6, <2>1 DEF TypeOK, settings
  <2>3. IdsFresh'
    BY <1>1, <1>6, <2>1 DEF IdsFresh, Held
  <2>4. TableOK'
    BY <1>1 DEF TableOK
  <2>5. HeldOK'
    BY <1>1, <1>6, <2>1 DEF HeldOK, Held, settings
  <2> QED
    BY <2>2, <2>3, <2>4, <2>5
<1> QED
  BY <1>4, <1>5, <1>6

\* What Save does to the table: nothing, or the held incident takes the place of its
\* row, which was open, or is added as the only open one.
LEMMA Saved ==
  ASSUME IncidentInv, SaveIncident
  PROVE  \/ incidents' = incidents
         \/ \E new \in Incident :
              /\ incidents' = {i \in incidents : i.id # inc.id} \cup {new}
              /\ new.id = inc.id /\ new.mon = inc.mon
              /\ new.until = inc.until /\ new.reasons = inc.reasons
              /\ \A i \in incidents : i.id = inc.id => i.since = new.since
              /\ inc.mon \in monitors
<1> USE DEF IncidentInv
<1> DEFINE row == {i \in incidents : i.id = inc.id}
           old == CHOOSE i \in row : TRUE
           new == IF row = {} THEN inc ELSE SaveRow(old, inc)
<1>1. pc = "save" /\ inc \in Incident
  BY DEF SaveIncident, TypeOK
<1>2. CASE ~(row = {} /\ Refused(inc))
  <2>1. incidents' = (incidents \ row) \cup {new}
    BY <1>2 DEF SaveIncident
  <2>2. incidents \ row = {i \in incidents : i.id # inc.id}
    OBVIOUS
  <2>3. CASE row = {}
    <3>1. inc.mon \in monitors
      BY <1>2, <2>3 DEF Refused
    <3> QED
      BY <1>1, <2>1, <2>2, <2>3, <3>1
  <2>4. CASE row # {}
    <3>1. old \in row
      BY <2>4
    <3>2. old \in incidents /\ old \in Incident /\ old.id = inc.id
      BY <3>1 DEF TypeOK
    <3>3. old.mon = inc.mon /\ old.mon \in monitors
      BY <1>1, <3>2 DEF HeldOK, Held, TypeOK
    <3>4. \A i \in incidents : i.id = inc.id => i = old
      BY <3>2 DEF TableOK
    <3> HIDE DEF old
    <3>5. new = [inc EXCEPT !.since = old.since]
      BY <2>4 DEF SaveRow, Upsert
    <3>6. /\ new \in Incident /\ new.id = inc.id /\ new.mon = inc.mon
          /\ new.until = inc.until /\ new.reasons = inc.reasons /\ new.since = old.since
      BY <1>1, <3>2, <3>5 DEF Incident
    <3> HIDE DEF new
    <3> QED
      BY <2>1, <2>2, <3>3, <3>4, <3>6
  <2> QED
    BY <2>3, <2>4
<1>3. CASE row = {} /\ Refused(inc)
  BY <1>3 DEF SaveIncident
<1> QED
  BY <1>2, <1>3

LEMMA SaveStep == IncidentInv /\ SaveIncident => IncidentInv'
<1> SUFFICES ASSUME IncidentInv, SaveIncident PROVE IncidentInv'
  OBVIOUS
<1> USE DEF IncidentInv
<1>1. /\ pc = "save" /\ inc \in Incident /\ cur \in Result /\ Return
      /\ stale' \subseteq stale \cup {cur.cfg}
      /\ UNCHANGED <<settings, results, pending, clock, faults>>
  BY DEF SaveIncident, TypeOK
<1>2. CASE incidents' = incidents
  <2>1. TypeOK'
    BY <1>1, <1>2 DEF TypeOK, settings, Return, Result
  <2> QED
    BY <1>1, <1>2, <2>1, HandlerReturns
<1>3. CASE \E new \in Incident :
             /\ incidents' = {i \in incidents : i.id # inc.id} \cup {new}
             /\ new.id = inc.id /\ new.mon = inc.mon
             /\ new.until = inc.until /\ new.reasons = inc.reasons
             /\ inc.mon \in monitors
  <2>1. PICK new \in Incident :
             /\ incidents' = {i \in incidents : i.id # inc.id} \cup {new}
             /\ new.id = inc.id /\ new.mon = inc.mon
             /\ new.until = inc.until /\ new.reasons = inc.reasons
             /\ inc.mon \in monitors
    BY <1>3
  <2>2. \A i \in incidents' : i = new \/ (i \in incidents /\ i.id # inc.id)
    BY <2>1
  <2>3. TypeOK'
    <3>1. incidents' \subseteq Incident /\ \A i \in incidents' : i.mon \in monitors
      BY <2>1, <2>2 DEF TypeOK
    <3> QED
      BY <1>1, <3>1 DEF TypeOK, settings, Return, Result
  <2>4. IdsFresh'
    <3>1. inc.id <= clock /\ \A r \in pending : r.at # inc.id
      BY <1>1 DEF IdsFresh, Held
    <3>2. \A i \in incidents' : i.id <= clock /\ \A r \in pending : i.id # r.at
      BY <2>1, <2>2, <3>1 DEF IdsFresh
    <3> QED
      BY <1>1, <3>2 DEF IdsFresh, Held, Return
  <2>5. TableOK'
    <3>1. \A i, j \in incidents' : i.id = j.id => i = j
      BY <2>1, <2>2 DEF TableOK
    <3>2. \A i \in incidents' : i.until # None <=> DOMAIN i.reasons = {}
      BY <1>1, <2>1, <2>2 DEF TableOK, HeldOK
    <3>3. \A i, j \in incidents' :
             i.mon = j.mon /\ i.until = None /\ j.until = None => i = j
      <4>1. \A i \in incidents : i.mon = inc.mon /\ i.until = None => i.id = inc.id
        BY <1>1, <2>1 DEF HeldOK, Held
      <4> QED
        BY <2>1, <2>2, <4>1 DEF TableOK
    <3> QED
      BY <3>1, <3>2, <3>3 DEF TableOK
  <2>6. HeldOK'
    BY <1>1 DEF HeldOK, Held, Return
  <2> QED
    BY <2>3, <2>4, <2>5, <2>6
<1> QED
  BY <1>2, <1>3, Saved

LEMMA FaultStep == IncidentInv /\ (GiveUp \/ Crash) => IncidentInv'
<1> SUFFICES ASSUME IncidentInv, GiveUp \/ Crash PROVE IncidentInv'
  OBVIOUS
<1> USE DEF IncidentInv
<1>1. /\ Return
      /\ UNCHANGED <<monitors, configs, enabled, changes, results, incidents, clock>>
      /\ faults < MaxFaults /\ faults' = faults + 1
      /\ pending' \subseteq pending /\ withdrawn' \in {withdrawn, {}}
  BY DEF GiveUp, Crash, settings
<1>2. stale' \subseteq Configs
  BY DEF GiveUp, Crash, TypeOK, Result
<1>3. faults' \in 0..MaxFaults
  BY <1>1, BoundAssumption DEF TypeOK
<1>4. TypeOK'
  BY <1>1, <1>2, <1>3 DEF TypeOK, Return
<1> QED
  BY <1>1, <1>4, HandlerReturns

\* A request takes rows away or turns a config on or off; no row outlives the one it
\* refers to.
LEMMA RequestStep == IncidentInv /\ Requests => IncidentInv'
<1> SUFFICES ASSUME IncidentInv, Requests PROVE IncidentInv'
  OBVIOUS
<1> USE DEF IncidentInv
<1>1. /\ UNCHANGED <<pending, handler, clock, faults, stale>>
      /\ changes' \in 0..MaxChanges
  <2>1. Change
    BY Zenon DEF Requests, Enable, Disable, RemoveHTTPConfig, DeleteMonitor
  <2> QED
    BY <2>1, BoundAssumption DEF Change, TypeOK
<1>2. CASE \E c \in Configs : Enable(c) \/ Disable(c)
  <2>1. TypeOK'
    BY <1>1, <1>2 DEF Enable, Disable, Withdraw, TypeOK, handler
  <2> QED
    BY <1>1, <1>2, <2>1, HandlerUntouched DEF Enable, Disable
<1>3. CASE \E c \in Configs : RemoveHTTPConfig(c)
  <2>1. TypeOK'
    BY <1>1, <1>3 DEF RemoveHTTPConfig, Remove, Withdraw, TypeOK, handler
  <2> QED
    BY <1>1, <1>3, <2>1, HandlerUntouched DEF RemoveHTTPConfig
<1>4. ASSUME NEW m \in Monitors, DeleteMonitor(m)
      PROVE  IncidentInv'
  <2>1. /\ monitors' = monitors \ {m}
        /\ incidents' = {i \in incidents : i.mon # m}
    BY <1>4 DEF DeleteMonitor
  <2>2. TypeOK'
    BY <1>1, <1>4 DEF DeleteMonitor, Remove, Withdraw, TypeOK, ConfigsOf, handler
  <2>3. IdsFresh' /\ TableOK'
    BY <1>1, <2>1 DEF IdsFresh, TableOK, Held, handler
  <2>4. HeldOK'
    BY <1>1, <2>1 DEF HeldOK, Held, handler
  <2> QED
    BY <2>2, <2>3, <2>4
<1> QED
  BY <1>2, <1>3, <1>4 DEF Requests

LEMMA IncidentStep == IncidentInv /\ [Next]_vars => IncidentInv'
<1> SUFFICES ASSUME IncidentInv, [Next]_vars PROVE IncidentInv'
  OBVIOUS
<1>1. CASE Next
  BY <1>1, CheckStep, JournalStep, LookupStep, ReadStep, SaveStep, FaultStep, RequestStep
     DEF Next, Handle
<1>2. CASE UNCHANGED vars
  BY <1>2 DEF vars, IncidentInv, TypeOK, IdsFresh, TableOK, HeldOK, Held
<1> QED
  BY <1>1, <1>2

LEMMA IncidentCorrect == Spec => []IncidentInv
BY IncidentInit, IncidentStep, PTL DEF Spec

-----------------------------------------------------------------------------
(* The theorems.                                                             *)

\* Every reachable state is well typed and no row outlives the config or the monitor
\* it belongs to, whatever is deleted between the operations of the handler.
THEOREM TypeCorrect == Spec => []TypeOK
<1>1. IncidentInv => TypeOK
  BY DEF IncidentInv
<1> QED
  BY <1>1, IncidentCorrect, PTL

\* The unique index of open incidents never refuses an insert: the check made by
\* GetOpenByMonitor still holds when Save runs.
THEOREM OpensOnce == Spec => []OpenIsFree
<1>1. IncidentInv => OpenIsFree
  BY DEF IncidentInv, HeldOK, Held, OpenIsFree, OpenOf
<1> QED
  BY <1>1, IncidentCorrect, PTL

\* At most one incident of a monitor is open, and one is open exactly as long as it
\* has a reason.
THEOREM ClosesWithLastReason == Spec => []ClosedIffEmpty
<1>1. IncidentInv => ClosedIffEmpty
  <2> SUFFICES ASSUME IncidentInv, NEW m \in Monitors PROVE Cardinality(OpenOf(m)) <= 1
    BY DEF ClosedIffEmpty, IncidentInv, TableOK
  <2>1. CASE OpenOf(m) = {}
    BY <2>1, FS_EmptySet
  <2>2. CASE OpenOf(m) # {}
    <3>1. PICK i : i \in OpenOf(m)
      BY <2>2
    <3>2. OpenOf(m) = {i}
      BY <3>1 DEF OpenOf, IncidentInv, TableOK
    <3>3. Cardinality({i}) = 1
      BY FS_Singleton
    <3> QED
      BY <3>2, <3>3
  <2> QED
    BY <2>1, <2>2
<1> QED
  BY <1>1, IncidentCorrect, PTL

\* History is not rewritten: a closed incident stays as it is until its monitor is
\* deleted, and no incident changes its start.
THEOREM HistoryStays == Spec => ClosedIsFinal
<1> DEFINE Keeps == \A i \in incidents : i.mon \in monitors' =>
              \E j \in incidents' : /\ j.id = i.id /\ j.since = i.since
                                    /\ i.until # None => j = i
<1>1. IncidentInv /\ [Next]_vars => [Keeps]_vars
  <2> SUFFICES ASSUME IncidentInv, [Next]_vars, NEW i \in incidents, i.mon \in monitors'
               PROVE  \E j \in incidents' : /\ j.id = i.id /\ j.since = i.since
                                            /\ i.until # None => j = i
    OBVIOUS
  <2>1. CASE SaveIncident
    <3>1. CASE incidents' = incidents
      BY <3>1
    <3>2. CASE incidents' # incidents
      <4>1. PICK new \in Incident :
              /\ incidents' = {k \in incidents : k.id # inc.id} \cup {new}
              /\ new.id = inc.id
              /\ \A k \in incidents : k.id = inc.id => k.since = new.since
        BY <2>1, <3>2, Saved
      <4>2. i.id = inc.id => i.until = None
        BY <2>1 DEF SaveIncident, IncidentInv, HeldOK, Held
      <4> QED
        BY <4>1, <4>2
    <3> QED
      BY <3>1, <3>2
  <2>2. CASE \E m \in Monitors : DeleteMonitor(m)
    BY <2>2 DEF DeleteMonitor, IncidentInv, TypeOK
  <2>3. CASE UNCHANGED incidents
    BY <2>3
  <2> QED
    BY <2>1, <2>2, <2>3
       DEF Next, Handle, Check, SaveCheckResult, FindOpen, ReadReasons, GiveUp, Crash,
           Requests, Enable, Disable, RemoveHTTPConfig, vars
<1> QED
  BY <1>1, IncidentCorrect, PTL DEF Spec, ClosedIsFinal

-----------------------------------------------------------------------------
(* From here on, results are related to one another: they are handled out of *)
(* order, but the results of a config that was not withdrawn come each after *)
(* the one before.  On that rest the times of incidents; the agreement of    *)
(* the journal with the incidents does not need it.                          *)

-----------------------------------------------------------------------------
(* The order of results and times.                                           *)

\* One result of a config is on its way at a time, unless it was withdrawn.
OneOnItsWay ==
  /\ \A r, q \in pending : r.cfg = q.cfg /\ r.cfg \notin withdrawn => r = q
  /\ pc # "idle" /\ cur.cfg \notin withdrawn => \A r \in pending : r.cfg # cur.cfg

\* The results on their way that no incident shows yet.
Unseen == pending \cup (IF pc \in {"lookup", "reasons"} THEN {cur} ELSE {})

\* Nothing began in the future.
Dated(i) == i.since <= clock /\ \A c \in DOMAIN i.reasons : i.reasons[c].since <= clock

\* A result of a config that is a reason already is younger than the reason and the
\* incident.
Older(i, r) ==
  r.cfg \in DOMAIN i.reasons => i.since < r.at /\ i.reasons[r.cfg].since < r.at

\* What TimesInOrder says of an incident saved for a result of c.
Sound(i, c) ==
  /\ i.until # None => i.since < i.until
  /\ c \in DOMAIN i.reasons => i.reasons[c].since <= i.reasons[c].seen

\* The journal has only older results than those to come.
JournalOrder ==
  \A c \in Configs :
    results[c] # None =>
      /\ results[c].at <= clock
      /\ c \notin withdrawn => \A r \in pending : r.cfg = c => results[c].at < r.at

OrderInv ==
  /\ OneOnItsWay /\ JournalOrder
  /\ \A i \in incidents :
       Dated(i) /\ \A r \in Unseen : r.cfg \notin withdrawn => Older(i, r)
  /\ pc = "reasons" => inc.since <= clock
  /\ pc = "save" =>
       /\ Dated(inc) /\ \A r \in pending : r.cfg \notin withdrawn => Older(inc, r)
       /\ cur.cfg \notin withdrawn => Sound(inc, cur.cfg)
  /\ Held => \A i \in incidents : i.id = inc.id => i.since = inc.since

\* What is known of the numbers compared below.
LEMMA TimesAreNat ==
  ASSUME TypeOK
  PROVE  /\ clock \in Nat
         /\ \A r \in pending : r.at \in Nat
         /\ \A c \in Configs : results[c] # None => results[c].at \in Nat
         /\ pc # "idle" => cur.at \in Nat
         /\ \A i \in Incident :
              /\ i.since \in Nat
              /\ \A c \in DOMAIN i.reasons : i.reasons[c].since \in Nat
<1>1. Times \subseteq Nat /\ 0..MaxChecks \subseteq Nat
  BY BoundAssumption DEF Times
<1>2. \A i \in Incident : \A c \in DOMAIN i.reasons : i.reasons[c] \in Reason
  BY ReasonsElim DEF Incident
<1> QED
  BY <1>1, <1>2 DEF TypeOK, Result, Incident, Reason

\* A step that keeps incidents or takes some away, and results likewise.
LEMMA OrderShrinks ==
  ASSUME OrderInv, incidents' \subseteq incidents, pending' \subseteq pending,
         clock' = clock, handler' = handler \/ Return,
         \A c \in Configs : results'[c] \in {results[c], None},
         withdrawn \subseteq withdrawn' \/ (pending' = {} /\ Return)
  PROVE  OrderInv'
<1>1. JournalOrder'
  BY DEF OrderInv, JournalOrder
<1>2. OneOnItsWay'
  BY DEF OrderInv, OneOnItsWay, handler, Return
<1>3. \A i \in incidents' :
        Dated(i)' /\ \A r \in Unseen' : r.cfg \notin withdrawn' => Older(i, r)
  BY DEF OrderInv, Unseen, Dated, handler, Return
<1>4. CASE Return
  BY <1>1, <1>2, <1>3, <1>4 DEF OrderInv, Older, Dated, Held, Return
<1>5. CASE handler' = handler /\ withdrawn \subseteq withdrawn'
  <2>1. pc' = "save" =>
          /\ Dated(inc)' /\ \A r \in pending' : r.cfg \notin withdrawn' => Older(inc, r)'
          /\ cur'.cfg \notin withdrawn' => Sound(inc, cur.cfg)'
    BY <1>5 DEF OrderInv, Dated, Older, Sound, handler
  <2> QED
    BY <1>1, <1>2, <1>3, <1>5, <2>1 DEF OrderInv, Older, Dated, Held, handler
<1> QED
  BY <1>4, <1>5

LEMMA OrderCheck ==
  ASSUME IncidentInv, OrderInv, NEW c \in Configs, NEW status \in Statuses, Check(c, status)
  PROVE  OrderInv'
<1> DEFINE r == [cfg |-> c, status |-> status, at |-> clock + 1]
<1>1. /\ pending' = pending \cup {r} /\ clock' = clock + 1
      /\ c \notin withdrawn => c \notin InFlight
      /\ UNCHANGED <<incidents, results, withdrawn, handler>>
  BY DEF Check, settings
<1>2. r.cfg = c /\ r.at = clock + 1
  OBVIOUS
<1> HIDE DEF r
<1>3. OneOnItsWay'
  BY <1>1, <1>2 DEF OrderInv, OneOnItsWay, InFlight, handler
<1>4. ASSUME NEW i \in Incident, Dated(i)
      PROVE  Dated(i)' /\ Older(i, r)
  BY <1>1, <1>2, <1>4, TimesAreNat DEF IncidentInv, Dated, Older
<1>5. incidents \subseteq Incident /\ (pc = "save" => inc \in Incident)
  BY DEF IncidentInv, TypeOK
<1>6. Unseen' = Unseen \cup {r}
  BY <1>1 DEF Unseen, handler
<1>7. \A i \in incidents :
        Dated(i)' /\ \A q \in Unseen' : q.cfg \notin withdrawn => Older(i, q)
  BY <1>4, <1>5, <1>6 DEF OrderInv
<1>8. pc = "save" =>
        /\ Dated(inc)' /\ \A q \in pending' : q.cfg \notin withdrawn => Older(inc, q)
        /\ cur.cfg \notin withdrawn => Sound(inc, cur.cfg)
  <2> SUFFICES ASSUME pc = "save"
               PROVE  Dated(inc)' /\ \A q \in pending' : q.cfg \notin withdrawn => Older(inc, q)
    BY DEF OrderInv
  <2>1. PICK i \in Incident : i = inc
    BY <1>5
  <2>2. Dated(i) /\ \A q \in pending : q.cfg \notin withdrawn => Older(i, q)
    BY <2>1 DEF OrderInv
  <2>3. Dated(i)' /\ \A q \in pending' : q.cfg \notin withdrawn => Older(i, q)
    BY <1>1, <1>4, <2>2
  <2>4. inc' = i
    BY <1>1, <2>1 DEF handler
  <2> QED
    BY <2>1, <2>3, <2>4 DEF Dated
<1>9. pc = "reasons" => inc.since <= clock + 1
  BY TimesAreNat DEF IncidentInv, TypeOK, OrderInv
<1>10. JournalOrder'
  BY <1>1, <1>2, TimesAreNat DEF IncidentInv, OrderInv, JournalOrder
<1> QED
  BY <1>1, <1>3, <1>7, <1>8, <1>9, <1>10 DEF OrderInv, Dated, Older, Sound, Held, handler

\* The result that enters the journal is younger than the row before it.
LEMMA OrderJournal == IncidentInv /\ OrderInv /\ SaveCheckResult => OrderInv'
<1> SUFFICES ASSUME IncidentInv, OrderInv, SaveCheckResult PROVE OrderInv'
  OBVIOUS
<1>1. PICK r \in pending :
        /\ pending' = pending \ {r}
        /\ IF r.cfg \in configs
           THEN /\ results' = [results EXCEPT ![r.cfg] = r]
                /\ pc' = "lookup" /\ cur' = r /\ inc' = None
           ELSE UNCHANGED <<results, handler>>
  BY DEF SaveCheckResult
<1>2. pc = "idle" /\ UNCHANGED <<incidents, clock, withdrawn>>
  BY DEF SaveCheckResult, settings
<1>3. CASE r.cfg \in configs
  <2>1. Unseen' = Unseen
    BY <1>1, <1>2, <1>3 DEF Unseen
  <2>2. OneOnItsWay'
    BY <1>1, <1>2, <1>3 DEF OrderInv, OneOnItsWay
  <2>3. JournalOrder'
    <3>1. \A c \in Configs : results'[c] = IF c = r.cfg THEN r ELSE results[c]
      BY <1>1, <1>3 DEF IncidentInv, TypeOK
    <3>2. r.at <= clock /\ (r.cfg \notin withdrawn => \A q \in pending' : q.cfg # r.cfg)
      BY <1>1 DEF IncidentInv, IdsFresh, OrderInv, OneOnItsWay
    <3> QED
      BY <1>1, <1>2, <3>1, <3>2 DEF OrderInv, JournalOrder
  <2> QED
    BY <1>1, <1>2, <1>3, <2>1, <2>2, <2>3 DEF OrderInv, Dated, Older, Held
<1>4. CASE r.cfg \notin configs
  BY <1>1, <1>2, <1>4, OrderShrinks
<1> QED
  BY <1>3, <1>4

LEMMA OrderLookup == IncidentInv /\ OrderInv /\ FindOpen => OrderInv'
<1> SUFFICES ASSUME IncidentInv, OrderInv, FindOpen PROVE OrderInv'
  OBVIOUS
<1> DEFINE open == OpenOf(MonitorOf[cur.cfg])
<1>1. /\ pc = "lookup" /\ cur \in Result
      /\ UNCHANGED <<incidents, results, pending, clock, withdrawn>>
  BY DEF FindOpen, IncidentInv, TypeOK, settings
<1>2. CASE /\ \E i \in open : inc' = [i EXCEPT !.reasons = NoReasons]
           /\ pc' = "reasons" /\ cur' = cur
  <2>1. PICK i \in incidents : inc' = [i EXCEPT !.reasons = NoReasons]
    BY <1>2 DEF OpenOf
  <2>2. inc'.id = i.id /\ inc'.since = i.since
    BY <2>1 DEF IncidentInv, TypeOK, Incident
  <2>3. \A j \in incidents : j.id = inc'.id => j.since = inc'.since
    BY <2>2 DEF IncidentInv, TableOK
  <2>4. inc'.since <= clock
    BY <2>2 DEF OrderInv, Dated
  <2>5. Unseen' = Unseen /\ OneOnItsWay' /\ JournalOrder'
    BY <1>1, <1>2 DEF Unseen, OrderInv, OneOnItsWay, JournalOrder
  <2> QED
    BY <1>1, <1>2, <2>3, <2>4, <2>5 DEF OrderInv, Dated, Older, Held
<1>3. CASE Return
  BY <1>1, <1>3, OrderShrinks
<1>4. CASE inc' = OpenIncident(cur) /\ pc' = "save" /\ cur' = cur
  <2>1. /\ inc'.id = cur.at /\ inc'.since = cur.at /\ inc'.until = None
        /\ inc'.reasons = [c \in {cur.cfg} |-> BuildReason(cur)]
    BY <1>4 DEF OpenIncident
  <2>2. cur.at <= clock /\ cur.at \in Nat /\ \A i \in incidents : i.id # cur.at
    BY <1>1, TimesAreNat DEF IncidentInv, IdsFresh
  <2>3. Dated(inc)' /\ Sound(inc', cur.cfg)
    BY <1>1, <2>1, <2>2 DEF Dated, Sound, BuildReason
  <2>4. \A r \in pending : r.cfg \notin withdrawn => Older(inc', r)
    BY <1>1, <2>1 DEF Older, OrderInv, OneOnItsWay
  <2>5. Unseen' \subseteq Unseen /\ OneOnItsWay' /\ JournalOrder'
    BY <1>1, <1>4 DEF Unseen, OrderInv, OneOnItsWay, JournalOrder
  <2> QED
    BY <1>1, <1>4, <2>1, <2>2, <2>3, <2>4, <2>5
       DEF OrderInv, Dated, Older, Sound, Held
<1> QED
  BY <1>2, <1>3, <1>4 DEF FindOpen, IncidentRow

\* The reasons that ReadReasons finds: those of the row, or none.
Found ==
  LET rows == {i \in incidents : i.id = inc.id}
  IN  [inc EXCEPT !.reasons = IF rows = {} THEN NoReasons ELSE (CHOOSE i \in rows : TRUE).reasons]

LEMMA WhatIsFound ==
  ASSUME IncidentInv, OrderInv, pc = "reasons"
  PROVE  /\ Found \in Incident /\ Found.id = inc.id /\ Found.mon = inc.mon
         /\ Found.since = inc.since /\ Found.until = None
         /\ \/ Found.reasons = NoReasons /\ \A i \in incidents : i.id # inc.id
            \/ \E i \in incidents : /\ i.id = inc.id /\ i.since = inc.since
                                    /\ Found.reasons = i.reasons
<1> DEFINE rows == {i \in incidents : i.id = inc.id}
           why == IF rows = {} THEN NoReasons ELSE (CHOOSE i \in rows : TRUE).reasons
<1>1. inc \in Incident /\ inc.until = None
  BY DEF IncidentInv, TypeOK, HeldOK
<1>2. \/ why = NoReasons /\ rows = {}
      \/ \E i \in rows : why = i.reasons
  BY Zenon
<1>3. why \in Reasons
  <2>1. NoReasons \in Reasons
    <3>1. {} \in SUBSET Configs /\ NoReasons \in [{} -> Reason]
      BY DEF NoReasons
    <3> QED
      BY <3>1, ReasonsIntro
  <2>2. \A i \in rows : i.reasons \in Reasons
    BY DEF IncidentInv, TypeOK, Incident
  <2> HIDE DEF why
  <2> QED
    BY <1>2, <2>1, <2>2
<1>4. Found = [inc EXCEPT !.reasons = why]
  BY DEF Found
<1> HIDE DEF why
<1>5. /\ Found \in Incident /\ Found.id = inc.id /\ Found.mon = inc.mon
      /\ Found.since = inc.since /\ Found.until = None /\ Found.reasons = why
  BY <1>1, <1>3, <1>4 DEF Incident
<1> QED
  BY <1>2, <1>5 DEF OrderInv, Held

\* What the domain makes of an incident's reasons.
LEMMA FailureReasons ==
  ASSUME NEW i \in Incident, NEW r \in Result
  PROVE  LET n == RecordFailure(i, r) IN
         /\ DOMAIN n.reasons = DOMAIN i.reasons \cup {r.cfg}
         /\ \A c \in DOMAIN i.reasons \ {r.cfg} : n.reasons[c] = i.reasons[c]
         /\ n.reasons[r.cfg].seen = r.at /\ n.reasons[r.cfg].latest = r.at
         /\ n.reasons[r.cfg].since =
              IF r.cfg \in DOMAIN i.reasons THEN i.reasons[r.cfg].since ELSE r.at
<1> DEFINE began == IF r.cfg \in DOMAIN i.reasons THEN i.reasons[r.cfg].since ELSE r.at
           new == [BuildReason(r) EXCEPT !.since = began]
           f == [c \in DOMAIN i.reasons \cup {r.cfg} |->
                   IF c = r.cfg THEN new ELSE i.reasons[c]]
<1>1. RecordFailure(i, r).reasons = f
  BY DEF RecordFailure, Incident
<1>2. new.seen = r.at /\ new.latest = r.at /\ new.since = began
  BY DEF BuildReason
<1> HIDE DEF new, began
<1>3. /\ DOMAIN f = DOMAIN i.reasons \cup {r.cfg} /\ f[r.cfg] = new
      /\ \A c \in DOMAIN i.reasons \ {r.cfg} : f[c] = i.reasons[c]
  OBVIOUS
<1> QED
  BY <1>1, <1>2, <1>3 DEF began

LEMMA RecoveryReasons ==
  ASSUME NEW i \in Incident, NEW r \in Result, i.until = None
  PROVE  LET n == RecoverReason(i, r) IN
         /\ DOMAIN n.reasons = DOMAIN i.reasons \ {r.cfg}
         /\ \A c \in DOMAIN n.reasons : n.reasons[c] = i.reasons[c]
         /\ n.until = None \/ n.until = r.at
<1> DEFINE f == Restrict(i.reasons, DOMAIN i.reasons \ {r.cfg})
           k == [i EXCEPT !.reasons = f]
<1>1. DOMAIN f = DOMAIN i.reasons \ {r.cfg} /\ \A c \in DOMAIN f : f[c] = i.reasons[c]
  BY DEF Restrict
<1> HIDE DEF f
<1>2. k.reasons = f /\ k.until = None
  BY DEF Incident
<1>3. TryClose(k, r.at).reasons = f /\ TryClose(k, r.at).until \in {None, r.at}
  <2>1. CASE TryClose(k, r.at) = k
    BY <1>2, <2>1
  <2>2. CASE TryClose(k, r.at) = [k EXCEPT !.until = r.at, !.why = "recovered"]
    BY <1>2, <2>2 DEF Incident
  <2> QED
    BY <2>1, <2>2 DEF TryClose
<1>4. RecoverReason(i, r) = TryClose(k, r.at)
  BY DEF RecoverReason, f
<1> QED
  BY <1>1, <1>3, <1>4

LEMMA OrderRead == IncidentInv /\ OrderInv /\ ReadReasons => OrderInv'
<1> SUFFICES ASSUME IncidentInv, OrderInv, ReadReasons PROVE OrderInv'
  OBVIOUS
<1>1. /\ pc = "reasons" /\ cur \in Result /\ inc \in Incident
      /\ UNCHANGED <<incidents, results, pending, clock, withdrawn>>
  BY DEF ReadReasons, IncidentInv, TypeOK, settings
<1>2. \/ Return
      \/ /\ inc' = RecoverReason(Found, cur) /\ cur.cfg \in DOMAIN Found.reasons
         /\ pc' = "save" /\ cur' = cur
      \/ inc' = RecordFailure(Found, cur) /\ pc' = "save" /\ cur' = cur
  BY DEF ReadReasons, Found
<1>3. Found \in Incident /\ Found.id = inc.id /\ Found.since = inc.since /\ Found.until = None
  BY <1>1, WhatIsFound
<1>4. /\ Dated(Found)
      /\ cur.cfg \notin withdrawn => Older(Found, cur)
      /\ \A r \in pending : r.cfg \notin withdrawn => Older(Found, r)
  <2>1. CASE Found.reasons = NoReasons
    BY <1>1, <1>3, <2>1 DEF NoReasons, OrderInv, Older, Dated
  <2>2. CASE \E i \in incidents : i.since = inc.since /\ Found.reasons = i.reasons
    BY <1>1, <1>3, <2>2 DEF OrderInv, Dated, Older, Unseen
  <2> QED
    BY <1>1, <2>1, <2>2, WhatIsFound
<1>5. cur.at <= clock /\ cur.at \in Nat /\ None # cur.at
  BY <1>1, TimesAreNat, ConfigAssumption DEF IncidentInv, IdsFresh
<1>6. cur.cfg \notin withdrawn => \A r \in pending : r.cfg # cur.cfg
  BY <1>1 DEF OrderInv, OneOnItsWay
<1>7. CASE Return
  BY <1>1, <1>7, OrderShrinks
<1>8. ASSUME pc' = "save", cur' = cur, inc'.id = inc.id, inc'.since = inc.since,
             Dated(inc)', cur.cfg \notin withdrawn => Sound(inc', cur.cfg),
             \A r \in pending : r.cfg \notin withdrawn => Older(inc', r)
      PROVE  OrderInv'
  <2>1. OneOnItsWay' /\ JournalOrder' /\ Unseen' = pending
    BY <1>1, <1>8 DEF OrderInv, OneOnItsWay, JournalOrder, Unseen
  <2>2. \A i \in incidents :
          Dated(i)' /\ \A r \in pending : r.cfg \notin withdrawn => Older(i, r)
    BY <1>1 DEF OrderInv, Unseen, Dated
  <2> QED
    BY <1>1, <1>8, <2>1, <2>2 DEF OrderInv, Dated, Older, Sound, Held
<1>9. CASE /\ inc' = RecoverReason(Found, cur) /\ cur.cfg \in DOMAIN Found.reasons
           /\ pc' = "save" /\ cur' = cur
  <2>1. inc'.id = inc.id /\ inc'.since = inc.since
    BY <1>1, <1>3, <1>9, RecoverType
  <2>2. /\ DOMAIN inc'.reasons = DOMAIN Found.reasons \ {cur.cfg}
        /\ \A c \in DOMAIN inc'.reasons : inc'.reasons[c] = Found.reasons[c]
        /\ inc'.until = None \/ inc'.until = cur.at
    BY <1>1, <1>3, <1>9, RecoveryReasons
  <2>3. cur.cfg \notin withdrawn => inc.since < cur.at
    BY <1>3, <1>4, <1>9 DEF Older
  <2>4. Dated(inc)' /\ (cur.cfg \notin withdrawn => Sound(inc', cur.cfg))
    BY <1>1, <1>3, <1>4, <2>1, <2>2, <2>3 DEF Dated, Sound
  <2>5. \A r \in pending : r.cfg \notin withdrawn => Older(inc', r)
    BY <1>3, <1>4, <2>1, <2>2 DEF Older
  <2> QED
    BY <1>8, <1>9, <2>1, <2>4, <2>5
<1>10. CASE inc' = RecordFailure(Found, cur) /\ pc' = "save" /\ cur' = cur
  <2>1. inc'.id = inc.id /\ inc'.since = inc.since /\ inc'.until = None
    BY <1>1, <1>3, <1>10, FailureType
  <2>2. /\ DOMAIN inc'.reasons = DOMAIN Found.reasons \cup {cur.cfg}
        /\ \A c \in DOMAIN Found.reasons \ {cur.cfg} : inc'.reasons[c] = Found.reasons[c]
        /\ inc'.reasons[cur.cfg].seen = cur.at
        /\ inc'.reasons[cur.cfg].since =
             IF cur.cfg \in DOMAIN Found.reasons THEN Found.reasons[cur.cfg].since ELSE cur.at
    BY <1>1, <1>3, <1>10, FailureReasons
  <2>3. cur.cfg \notin withdrawn => inc'.reasons[cur.cfg].since <= cur.at
    BY <1>1, <1>3, <1>4, <1>5, <2>2, TimesAreNat DEF Older, IncidentInv
  <2>4. Dated(inc)' /\ (cur.cfg \notin withdrawn => Sound(inc', cur.cfg))
    BY <1>1, <1>3, <1>4, <1>5, <2>1, <2>2, <2>3 DEF Dated, Sound
  <2>5. \A r \in pending : r.cfg \notin withdrawn => Older(inc', r)
    BY <1>3, <1>4, <1>6, <2>1, <2>2 DEF Older
  <2> QED
    BY <1>8, <1>10, <2>1, <2>4, <2>5
<1> QED
  BY <1>2, <1>7, <1>9, <1>10

\* Save writes the held incident as it is, since it began when its row did.
LEMMA SavedAsHeld ==
  ASSUME IncidentInv, OrderInv, SaveIncident
  PROVE  \/ incidents' = incidents /\ stale' = stale \cup {cur.cfg}
         \/ /\ incidents' = {i \in incidents : i.id # inc.id} \cup {inc}
            /\ inc.mon \in monitors
            /\ stale' = stale \ {cur.cfg}
<1> DEFINE row == {i \in incidents : i.id = inc.id}
           old == CHOOSE i \in row : TRUE
           new == IF row = {} THEN inc ELSE SaveRow(old, inc)
<1>1. pc = "save" /\ inc \in Incident
  BY DEF SaveIncident, IncidentInv, TypeOK
<1>2. CASE row = {} /\ Refused(inc)
  BY <1>2 DEF SaveIncident
<1>3. CASE ~(row = {} /\ Refused(inc))
  <2>1. incidents' = (incidents \ row) \cup {new} /\ stale' = stale \ {cur.cfg}
    BY <1>3 DEF SaveIncident
  <2>2. incidents \ row = {i \in incidents : i.id # inc.id}
    OBVIOUS
  <2>3. CASE row = {}
    BY <1>3, <2>1, <2>2, <2>3 DEF Refused
  <2>4. CASE row # {}
    <3>1. old \in row
      BY <2>4
    <3>2. old \in incidents /\ old.since = inc.since
      BY <1>1, <3>1 DEF OrderInv, Held
    <3>3. inc.mon \in monitors
      BY <1>1, <3>1 DEF IncidentInv, HeldOK, Held, TypeOK
    <3> HIDE DEF old
    <3>4. new = [inc EXCEPT !.since = inc.since]
      BY <2>4, <3>2 DEF SaveRow, Upsert
    <3>5. new = inc
      BY <1>1, <3>4 DEF Incident
    <3> HIDE DEF new
    <3> QED
      BY <2>1, <2>2, <3>3, <3>5
  <2> QED
    BY <2>3, <2>4
<1> QED
  BY <1>2, <1>3

LEMMA OrderSave == IncidentInv /\ OrderInv /\ SaveIncident => OrderInv'
<1> SUFFICES ASSUME IncidentInv, OrderInv, SaveIncident PROVE OrderInv'
  OBVIOUS
<1>1. pc = "save" /\ Return /\ UNCHANGED <<results, pending, clock, withdrawn>>
  BY DEF SaveIncident, settings
<1>2. incidents' \subseteq incidents \cup {inc}
  BY SavedAsHeld
<1>3. OneOnItsWay' /\ JournalOrder'
  BY <1>1 DEF OrderInv, OneOnItsWay, JournalOrder, Return
<1> QED
  BY <1>1, <1>2, <1>3 DEF OrderInv, Unseen, Dated, Older, Held, Return

\* What a request does to the journal and to the incidents.
LEMMA RequestEffect ==
  ASSUME IncidentInv, Requests
  PROVE  /\ UNCHANGED <<pending, handler, clock, faults, stale>>
         /\ incidents' \subseteq incidents /\ configs' \subseteq configs
         /\ withdrawn \subseteq withdrawn'
         /\ \A c \in Configs :
              results'[c] \in {results[c], None} /\ (c \in configs' => results'[c] = results[c])
<1>1. CASE \E c \in Configs : Enable(c) \/ Disable(c)
  BY <1>1 DEF Enable, Disable, Withdraw, Change
<1>2. CASE \E c \in Configs : RemoveHTTPConfig(c)
  BY <1>2 DEF RemoveHTTPConfig, Remove, Withdraw, Change
<1>3. CASE \E m \in Monitors : DeleteMonitor(m)
  BY <1>3 DEF DeleteMonitor, Remove, Withdraw, Change
<1> QED
  BY <1>1, <1>2, <1>3 DEF Requests

LEMMA OrderStep == IncidentInv /\ OrderInv /\ [Next]_vars => OrderInv'
<1> SUFFICES ASSUME IncidentInv, OrderInv, [Next]_vars PROVE OrderInv'
  OBVIOUS
<1>1. CASE GiveUp \/ Crash
  BY <1>1, OrderShrinks DEF GiveUp, Crash, settings
<1>2. CASE Requests
  BY <1>2, RequestEffect, OrderShrinks
<1>3. CASE UNCHANGED vars
  BY <1>3, OrderShrinks DEF vars, handler
<1> QED
  BY <1>1, <1>2, <1>3, OrderCheck, OrderJournal, OrderLookup, OrderRead, OrderSave
     DEF Next, Handle

LEMMA OrderInit == Init => OrderInv
BY DEF Init, OrderInv, OneOnItsWay, JournalOrder, Unseen, Held

LEMMA OrderCorrect == Spec => [](IncidentInv /\ OrderInv)
BY IncidentInit, IncidentStep, OrderInit, OrderStep, PTL DEF Spec

\* Config by config, and unless it was withdrawn, results are journaled in the order of
\* their times, and an incident is closed by a result younger than the failure that
\* opened it, although results of different configs are handled out of order: the config
\* that recovers has been checked again after the incident was opened.
THEOREM InOrder == Spec => TimesInOrder
<1> DEFINE Grows == \A c \in Configs \ withdrawn :
             /\ results[c] # None /\ results'[c] \notin {results[c], None} =>
                  results[c].at < results'[c].at
             /\ Handling(c) => \A i \in incidents' \ incidents :
                  /\ i.until # None => i.since < i.until
                  /\ c \in DOMAIN i.reasons => i.reasons[c].since <= i.reasons[c].seen
<1>1. IncidentInv /\ OrderInv /\ [Next]_vars => [Grows]_vars
  <2> SUFFICES ASSUME IncidentInv, OrderInv, [Next]_vars, NEW c \in Configs \ withdrawn
               PROVE  /\ results[c] # None /\ results'[c] \notin {results[c], None} =>
                           results[c].at < results'[c].at
                      /\ Handling(c) => \A i \in incidents' \ incidents : Sound(i, c)
    BY DEF Sound
  <2>1. CASE SaveCheckResult
    BY <2>1 DEF SaveCheckResult, IncidentInv, TypeOK, OrderInv, JournalOrder
  <2>2. CASE SaveIncident
    <3>1. pc = "save" /\ UNCHANGED results
      BY <2>2 DEF SaveIncident
    <3>2. incidents' \subseteq incidents \cup {inc}
      BY <2>2, SavedAsHeld
    <3> QED
      BY <3>1, <3>2 DEF OrderInv, Handling
  <2>3. CASE Requests
    BY <2>3, RequestEffect
  <2>4. CASE UNCHANGED <<results, incidents>>
    BY <2>4
  <2> QED
    BY <2>1, <2>2, <2>3, <2>4 DEF Next, Handle, Check, FindOpen, ReadReasons, GiveUp, Crash, vars
<1> QED
  BY <1>1, OrderCorrect, PTL DEF Spec, TimesInOrder

-----------------------------------------------------------------------------
(* The journal and the incidents agree.                                      *)

\* The incidents say of a config what this result says.
Agrees(r) ==
  /\ r.cfg \in ReasonsOf(MonitorOf[r.cfg]) <=> r.status = "failure"
  /\ \A i \in OpenOf(MonitorOf[r.cfg]) :
       r.cfg \in DOMAIN i.reasons => i.reasons[r.cfg].latest = r.at

\* The incident about to be saved has taken in the result, and is otherwise what
\* the table has.
SavesResult ==
  pc = "save" =>
    /\ cur.cfg \in DOMAIN inc.reasons <=> cur.status = "failure"
    /\ cur.status = "failure" => inc.reasons[cur.cfg].latest = cur.at
    /\ \A i \in incidents, c \in Configs \ {cur.cfg} :
         i.id = inc.id =>
           /\ c \in DOMAIN i.reasons <=> c \in DOMAIN inc.reasons
           /\ c \in DOMAIN i.reasons => i.reasons[c] = inc.reasons[c]
    /\ inc.mon \in monitors /\ (\A i \in incidents : i.id # inc.id) =>
         DOMAIN inc.reasons \subseteq {cur.cfg}

JournalInv ==
  /\ SavesResult
  /\ pc # "idle" /\ cur.cfg \in configs => results[cur.cfg] = cur
  /\ \A c \in configs \ stale : results[c] # None /\ ~Handling(c) => Agrees(results[c])

CaseInv == IncidentInv /\ OrderInv /\ JournalInv

\* Whether the incidents agree with a result depends on its monitor's open ones.
LEMMA AgreesStill ==
  ASSUME NEW r, OpenOf(MonitorOf[r.cfg])' = OpenOf(MonitorOf[r.cfg])
  PROVE  Agrees(r)' <=> Agrees(r)
BY DEF Agrees, ReasonsOf

\* A result that was journaled is that of a config there is.
LEMMA JournalType ==
  ASSUME CaseInv, NEW c \in Configs, results[c] # None
  PROVE  c \in configs /\ results[c] \in Result /\ results[c].cfg = c
BY DEF CaseInv, IncidentInv, TypeOK

\* A step that changes neither journal nor incidents and does not end the handling.
LEMMA JournalKeeps ==
  ASSUME CaseInv, UNCHANGED <<results, incidents, stale>>, configs' \subseteq configs,
         pc # "idle" => pc' # "idle" /\ cur' = cur, pc = "idle" => handler' = handler,
         SavesResult'
  PROVE  JournalInv'
<1>1. \A c : Handling(c) <=> Handling(c)'
  BY DEF Handling, handler
<1>2. \A r : Agrees(r)' <=> Agrees(r)
  BY AgreesStill DEF OpenOf
<1>3. pc' # "idle" /\ cur'.cfg \in configs' => results'[cur'.cfg] = cur'
  BY DEF CaseInv, JournalInv, handler
<1> QED
  BY <1>1, <1>2, <1>3 DEF CaseInv, JournalInv

\* A step that ends the handling, as it must when the incidents agree with the result.
LEMMA JournalReturns ==
  ASSUME CaseInv, Return, UNCHANGED <<configs, results, incidents>>,
         \A c \in stale \ stale' : pc # "idle" /\ c = cur.cfg,
         pc # "idle" /\ cur.cfg \in configs \ stale' => Agrees(cur)
  PROVE  JournalInv'
<1>1. SavesResult'
  BY DEF SavesResult, Return
<1>2. ASSUME NEW c \in configs, c \notin stale', results[c] # None
      PROVE  Agrees(results[c])
  <2>1. CASE Handling(c)
    BY <1>2, <2>1 DEF Handling, CaseInv, JournalInv
  <2>2. CASE ~Handling(c)
    BY <1>2, <2>2 DEF Handling, CaseInv, JournalInv
  <2> QED
    BY <2>1, <2>2
<1>3. \A r : Agrees(r)' <=> Agrees(r)
  BY AgreesStill DEF OpenOf
<1> QED
  BY <1>1, <1>2, <1>3 DEF JournalInv, Return

LEMMA JournalCheck ==
  ASSUME CaseInv, NEW c \in Configs, NEW status \in Statuses, Check(c, status)
  PROVE  JournalInv'
<1>1. UNCHANGED <<settings, results, incidents, handler, stale>>
  BY DEF Check
<1>2. SavesResult'
  BY <1>1 DEF CaseInv, JournalInv, SavesResult, handler, settings
<1> QED
  BY <1>1, <1>2, JournalKeeps DEF handler, settings

\* The result that enters the journal is the last one of its config.
LEMMA JournalEntry == CaseInv /\ SaveCheckResult => JournalInv'
<1> SUFFICES ASSUME CaseInv, SaveCheckResult PROVE JournalInv'
  OBVIOUS
<1>1. PICK r \in pending :
        IF r.cfg \in configs
        THEN /\ results' = [results EXCEPT ![r.cfg] = r]
             /\ pc' = "lookup" /\ cur' = r /\ inc' = None
        ELSE UNCHANGED <<results, handler>>
  BY DEF SaveCheckResult
<1>2. pc = "idle" /\ UNCHANGED <<settings, incidents, stale>>
  BY DEF SaveCheckResult
<1>3. CASE r.cfg \in configs
  <2>1. \A c \in Configs : results'[c] = IF c = r.cfg THEN r ELSE results[c]
    BY <1>1, <1>3 DEF CaseInv, IncidentInv, TypeOK
  <2>2. SavesResult'
    BY <1>1, <1>3 DEF SavesResult
  <2>3. \A q : Agrees(q)' <=> Agrees(q)
    BY <1>2, AgreesStill DEF OpenOf
  <2>4. \A c : Handling(c)' <=> c = r.cfg
    BY <1>1, <1>3 DEF Handling
  <2>5. \A c : ~Handling(c)
    BY <1>2 DEF Handling
  <2>6. configs' = configs /\ configs \subseteq Configs
    BY <1>2 DEF settings, CaseInv, IncidentInv, TypeOK
  <2>7. pc' # "idle" /\ cur'.cfg \in configs' => results'[cur'.cfg] = cur'
    BY <1>1, <1>3, <2>1, <2>6
  <2> QED
    BY <1>2, <2>1, <2>2, <2>3, <2>4, <2>5, <2>6, <2>7 DEF CaseInv, JournalInv
<1>4. CASE r.cfg \notin configs
  <2>1. SavesResult'
    BY <1>1, <1>2, <1>4 DEF SavesResult, handler
  <2> QED
    BY <1>1, <1>2, <1>4, <2>1, JournalKeeps DEF settings
<1> QED
  BY <1>3, <1>4

LEMMA JournalLookup == CaseInv /\ FindOpen => JournalInv'
<1> SUFFICES ASSUME CaseInv, FindOpen PROVE JournalInv'
  OBVIOUS
<1> DEFINE open == OpenOf(MonitorOf[cur.cfg])
<1>1. /\ pc = "lookup" /\ cur \in Result
      /\ UNCHANGED <<settings, results, incidents, pending, clock>>
  BY DEF FindOpen, CaseInv, IncidentInv, TypeOK
<1>2. CASE pc' = "reasons" /\ UNCHANGED <<cur, stale>>
  BY <1>1, <1>2, JournalKeeps DEF SavesResult, settings
<1>3. CASE open = {} /\ cur.status = "success" /\ Return /\ stale' = stale \ {cur.cfg}
  <2>1. Agrees(cur)
    BY <1>3 DEF Agrees, ReasonsOf
  <2> QED
    BY <1>1, <1>3, <2>1, JournalReturns DEF settings
<1>4. CASE /\ cur.status = "failure" /\ inc' = OpenIncident(cur)
           /\ pc' = "save" /\ UNCHANGED <<cur, stale>>
  <2>1. inc'.id = cur.at /\ inc'.reasons = [c \in {cur.cfg} |-> BuildReason(cur)]
    BY <1>4 DEF OpenIncident
  <2>2. \A i \in incidents : i.id # cur.at
    BY <1>1 DEF CaseInv, IncidentInv, IdsFresh
  <2>3. SavesResult'
    BY <1>1, <1>4, <2>1, <2>2 DEF SavesResult, BuildReason
  <2> QED
    BY <1>1, <1>4, <2>3, JournalKeeps DEF settings
<1> QED
  BY <1>2, <1>3, <1>4 DEF FindOpen, IncidentRow

LEMMA JournalRead == CaseInv /\ ReadReasons => JournalInv'
<1> SUFFICES ASSUME CaseInv, ReadReasons PROVE JournalInv'
  OBVIOUS
<1>1. /\ pc = "reasons" /\ cur \in Result /\ inc \in Incident
      /\ UNCHANGED <<settings, results, incidents, pending, clock>>
  BY DEF ReadReasons, CaseInv, IncidentInv, TypeOK
<1>2. /\ Found \in Incident /\ Found.id = inc.id /\ Found.mon = inc.mon /\ Found.until = None
      /\ \/ Found.reasons = NoReasons /\ \A i \in incidents : i.id # inc.id
         \/ \E i \in incidents : i.id = inc.id /\ Found.reasons = i.reasons
  BY <1>1, WhatIsFound DEF CaseInv
<1>3. \A i, j \in incidents : i.id = j.id => i = j
  BY DEF CaseInv, IncidentInv, TableOK
<1>4. \A i \in incidents : i.id = inc.id => i.reasons = Found.reasons
  BY <1>2, <1>3
<1>5. (\A i \in incidents : i.id # inc.id) => DOMAIN Found.reasons = {}
  BY <1>2 DEF NoReasons
<1>6. \/ /\ cur.status = "success" /\ cur.cfg \notin DOMAIN Found.reasons
         /\ Return /\ stale' = stale \ {cur.cfg}
      \/ /\ cur.status = "success" /\ inc' = RecoverReason(Found, cur)
         /\ pc' = "save" /\ UNCHANGED <<cur, stale>>
      \/ /\ cur.status = "failure" /\ inc' = RecordFailure(Found, cur)
         /\ pc' = "save" /\ UNCHANGED <<cur, stale>>
  BY DEF ReadReasons, Found
<1>7. CASE /\ cur.status = "success" /\ cur.cfg \notin DOMAIN Found.reasons
           /\ Return /\ stale' = stale \ {cur.cfg}
  <2>1. ASSUME cur.cfg \in configs PROVE Agrees(cur)
    <3>1. inc.mon \in monitors /\ inc.mon = MonitorOf[cur.cfg]
      BY <1>1, <2>1 DEF CaseInv, IncidentInv, TypeOK, HeldOK, Held
    <3>2. \A i \in OpenOf(inc.mon) : i \in incidents /\ i.id = inc.id
      BY <1>1, <3>1 DEF CaseInv, IncidentInv, HeldOK, Held, OpenOf
    <3>3. \A i \in OpenOf(inc.mon) : cur.cfg \notin DOMAIN i.reasons
      BY <1>4, <1>7, <3>2
    <3> QED
      BY <1>7, <3>1, <3>3 DEF Agrees, ReasonsOf
  <2> QED
    BY <1>1, <1>7, <2>1, JournalReturns DEF settings
<1>8. CASE /\ cur.status = "success" /\ inc' = RecoverReason(Found, cur)
           /\ pc' = "save" /\ UNCHANGED <<cur, stale>>
  <2>1. /\ DOMAIN inc'.reasons = DOMAIN Found.reasons \ {cur.cfg}
        /\ \A c \in DOMAIN inc'.reasons : inc'.reasons[c] = Found.reasons[c]
    BY <1>1, <1>2, <1>8, RecoveryReasons
  <2>2. inc'.id = inc.id
    BY <1>1, <1>2, <1>8, RecoverType
  <2>3. SavesResult'
    BY <1>1, <1>4, <1>5, <1>8, <2>1, <2>2 DEF SavesResult
  <2> QED
    BY <1>1, <1>8, <2>3, JournalKeeps DEF settings
<1>9. CASE /\ cur.status = "failure" /\ inc' = RecordFailure(Found, cur)
           /\ pc' = "save" /\ UNCHANGED <<cur, stale>>
  <2>1. /\ DOMAIN inc'.reasons = DOMAIN Found.reasons \cup {cur.cfg}
        /\ \A c \in DOMAIN Found.reasons \ {cur.cfg} : inc'.reasons[c] = Found.reasons[c]
        /\ inc'.reasons[cur.cfg].latest = cur.at
    BY <1>1, <1>2, <1>9, FailureReasons
  <2>2. inc'.id = inc.id
    BY <1>1, <1>2, <1>9, FailureType
  <2>3. SavesResult'
    BY <1>1, <1>4, <1>5, <1>9, <2>1, <2>2 DEF SavesResult
  <2> QED
    BY <1>1, <1>9, <2>3, JournalKeeps DEF settings
<1> QED
  BY <1>6, <1>7, <1>8, <1>9

\* The open incidents once the held one is saved: it, if it is open, is the only one
\* of its monitor; the row it replaces was.
LEMMA OpenWhenSaved ==
  ASSUME CaseInv, pc = "save", NEW m,
         incidents' = {i \in incidents : i.id # inc.id} \cup {inc}
  PROVE  /\ m # inc.mon => OpenOf(m)' = OpenOf(m)
         /\ m = inc.mon /\ m \in monitors =>
              /\ OpenOf(m)' = IF inc.until = None THEN {inc} ELSE {}
              /\ OpenOf(m) = {i \in incidents : i.id = inc.id}
<1>1. /\ \A i \in incidents : i.id = inc.id => i.mon = inc.mon /\ i.until = None
      /\ inc.mon \in monitors =>
           \A i \in incidents : i.mon = inc.mon /\ i.until = None => i.id = inc.id
  BY DEF CaseInv, IncidentInv, HeldOK, Held
<1>2. CASE m # inc.mon
  BY <1>1, <1>2 DEF OpenOf
<1>3. CASE m = inc.mon /\ m \in monitors
  BY <1>1, <1>3 DEF OpenOf
<1> QED
  BY <1>2, <1>3

\* The incidents agree with the result just saved, and with the others as before.
LEMMA JournalSave == CaseInv /\ SaveIncident => JournalInv'
<1> SUFFICES ASSUME CaseInv, SaveIncident PROVE JournalInv'
  OBVIOUS
<1>1. /\ pc = "save" /\ cur \in Result /\ inc \in Incident /\ Return
      /\ UNCHANGED <<settings, results, pending, clock, faults>>
  BY DEF SaveIncident, CaseInv, IncidentInv, TypeOK
<1>2. CASE incidents' = incidents /\ stale' = stale \cup {cur.cfg}
  BY <1>1, <1>2, JournalReturns DEF settings
<1>3. CASE /\ incidents' = {i \in incidents : i.id # inc.id} \cup {inc}
           /\ inc.mon \in monitors /\ stale' = stale \ {cur.cfg}
  <2>1. SavesResult'
    BY <1>1 DEF SavesResult, Return
  <2>2. inc.mon = MonitorOf[cur.cfg]
    BY <1>1 DEF CaseInv, IncidentInv, HeldOK, Held
  <2>3. inc.until # None <=> DOMAIN inc.reasons = {}
    BY <1>1 DEF CaseInv, IncidentInv, HeldOK
  <2>4. /\ cur.cfg \in DOMAIN inc.reasons <=> cur.status = "failure"
        /\ cur.status = "failure" => inc.reasons[cur.cfg].latest = cur.at
    BY <1>1 DEF CaseInv, JournalInv, SavesResult
  <2>5. ASSUME NEW c \in configs, c \notin stale', results[c] # None
        PROVE  Agrees(results[c])'
    <3>1. PICK r : r = results[c] /\ r = results'[c]
      BY <1>1
    <3> SUFFICES Agrees(r)'
      BY <3>1
    <3> DEFINE m == MonitorOf[r.cfg]
    <3>2. c \in Configs /\ r.cfg = c /\ m \in monitors
      BY <2>5, <3>1, JournalType DEF CaseInv, IncidentInv, TypeOK
    <3>3. CASE r.cfg = cur.cfg
      <4>1. r = cur
        BY <1>1, <3>2, <3>3, <3>1 DEF CaseInv, JournalInv
      <4>2. OpenOf(m)' = IF inc.until = None THEN {inc} ELSE {}
        BY <1>1, <1>3, <2>2, <4>1, OpenWhenSaved
      <4> QED
        BY <1>1, <2>3, <2>4, <4>1, <4>2 DEF Agrees, ReasonsOf
    <3>4. CASE r.cfg # cur.cfg
      <4>1. r.cfg \in Configs /\ Agrees(r)
        <5>1. c \notin stale /\ ~Handling(c)
          BY <1>3, <2>5, <3>2, <3>4 DEF Handling
        <5> QED
          BY <2>5, <3>2, <3>1, <5>1 DEF CaseInv, JournalInv
      <4>2. CASE m # inc.mon
        BY <1>1, <1>3, <4>1, <4>2, OpenWhenSaved, AgreesStill
      <4>3. CASE m = inc.mon
        <5>1. /\ OpenOf(m)' = IF inc.until = None THEN {inc} ELSE {}
              /\ OpenOf(m) = {i \in incidents : i.id = inc.id}
          BY <1>1, <1>3, <4>3, OpenWhenSaved
        <5>2. \A i \in OpenOf(m) :
                /\ r.cfg \in DOMAIN i.reasons <=> r.cfg \in DOMAIN inc.reasons
                /\ r.cfg \in DOMAIN i.reasons => i.reasons[r.cfg] = inc.reasons[r.cfg]
          BY <1>1, <3>4, <4>1, <5>1 DEF CaseInv, JournalInv, SavesResult
        <5>3. OpenOf(m) = {} => r.cfg \notin DOMAIN inc.reasons
          BY <1>1, <1>3, <3>4, <5>1 DEF CaseInv, JournalInv, SavesResult
        <5>4. r.cfg \in ReasonsOf(m) <=> r.cfg \in DOMAIN inc.reasons
          BY <5>2, <5>3 DEF ReasonsOf
        <5>5. r.cfg \in ReasonsOf(m)' <=> r.cfg \in DOMAIN inc.reasons
          BY <2>3, <5>1 DEF ReasonsOf
        <5>6. \A i \in OpenOf(m)' : r.cfg \in DOMAIN i.reasons => i.reasons[r.cfg].latest = r.at
          BY <4>1, <5>1, <5>2, <5>3 DEF Agrees
        <5> QED
          BY <4>1, <5>4, <5>5, <5>6 DEF Agrees
      <4> QED
        BY <4>2, <4>3
    <3> QED
      BY <3>3, <3>4, <3>1
  <2> QED
    BY <1>1, <2>1, <2>5 DEF JournalInv, Return, settings
<1> QED
  BY <1>2, <1>3, SavedAsHeld DEF CaseInv

LEMMA JournalFault == CaseInv /\ (GiveUp \/ Crash) => JournalInv'
<1> SUFFICES ASSUME CaseInv, GiveUp \/ Crash PROVE JournalInv'
  OBVIOUS
<1>1. /\ Return /\ UNCHANGED <<configs, results, incidents>>
      /\ stale \subseteq stale' /\ (pc # "idle" => cur.cfg \in stale')
  BY DEF GiveUp, Crash, settings
<1> QED
  BY <1>1, JournalReturns

\* A request takes the journal of a config away as a whole, and the incidents of a
\* monitor together with its configs.
LEMMA JournalRequest == CaseInv /\ Requests => JournalInv'
<1> SUFFICES ASSUME CaseInv, Requests PROVE JournalInv'
  OBVIOUS
<1>1. /\ UNCHANGED <<pending, handler, clock, faults, stale>>
      /\ incidents' \subseteq incidents /\ configs' \subseteq configs
      /\ \A c \in configs' : results'[c] = results[c]
  BY RequestEffect DEF CaseInv, IncidentInv, TypeOK
<1>2. \/ UNCHANGED <<monitors, incidents>>
      \/ \E m \in Monitors :
           /\ monitors' = monitors \ {m} /\ incidents' = {i \in incidents : i.mon # m}
           /\ configs' = configs \ ConfigsOf(m)
  <2>1. CASE \E c \in Configs : Enable(c) \/ Disable(c)
    BY <2>1 DEF Enable, Disable
  <2>2. CASE \E c \in Configs : RemoveHTTPConfig(c)
    BY <2>2 DEF RemoveHTTPConfig
  <2>3. CASE \E m \in Monitors : DeleteMonitor(m)
    BY <2>3 DEF DeleteMonitor, Remove
  <2> QED
    BY <2>1, <2>2, <2>3 DEF Requests
<1>3. SavesResult'
  <2>1. CASE UNCHANGED <<monitors, incidents>>
    BY <1>1, <2>1 DEF CaseInv, JournalInv, SavesResult, handler
  <2>2. ASSUME NEW m \in Monitors, monitors' = monitors \ {m},
               incidents' = {i \in incidents : i.mon # m}
        PROVE  SavesResult'
    <3>1. pc = "save" /\ inc.mon # m => \A i \in incidents : i.id = inc.id => i \in incidents'
      BY <2>2 DEF CaseInv, IncidentInv, HeldOK, Held
    <3> QED
      BY <1>1, <2>2, <3>1 DEF CaseInv, JournalInv, SavesResult, handler
  <2> QED
    BY <1>2, <2>1, <2>2
<1>4. ASSUME NEW c \in configs'
      PROVE  OpenOf(MonitorOf[c])' = OpenOf(MonitorOf[c])
  <2>1. CASE UNCHANGED incidents
    BY <2>1 DEF OpenOf
  <2>2. ASSUME NEW m \in Monitors, incidents' = {i \in incidents : i.mon # m},
               configs' = configs \ ConfigsOf(m)
        PROVE  OpenOf(MonitorOf[c])' = OpenOf(MonitorOf[c])
    <3>1. MonitorOf[c] # m
      BY <1>1, <1>4, <2>2 DEF ConfigsOf, CaseInv, IncidentInv, TypeOK
    <3> QED
      BY <2>2, <3>1 DEF OpenOf
  <2> QED
    BY <1>2, <2>1, <2>2
<1>5. pc' # "idle" /\ cur'.cfg \in configs' => results'[cur'.cfg] = cur'
  BY <1>1 DEF CaseInv, JournalInv, handler
<1>6. ASSUME NEW c \in configs', c \notin stale', results'[c] # None, ~Handling(c)'
      PROVE  Agrees(results[c])'
  <2>1. Agrees(results[c])
    BY <1>1, <1>6 DEF CaseInv, JournalInv, Handling, handler
  <2>2. PICK r : r = results[c] /\ r = results'[c]
    BY <1>1, <1>6
  <2>3. Agrees(r)' <=> Agrees(r)
    <3>1. r.cfg = c
      BY <1>1, <1>6, <2>2, JournalType DEF CaseInv, IncidentInv, TypeOK
    <3> QED
      BY <1>4, <1>6, <3>1, AgreesStill
  <2> QED
    BY <2>1, <2>2, <2>3
<1> QED
  BY <1>3, <1>5, <1>6 DEF JournalInv

LEMMA AgreementStep == CaseInv /\ [Next]_vars => JournalInv'
<1> SUFFICES ASSUME CaseInv, [Next]_vars PROVE JournalInv'
  OBVIOUS
<1>1. CASE UNCHANGED vars
  <2>1. SavesResult'
    BY <1>1 DEF vars, CaseInv, JournalInv, SavesResult
  <2> QED
    BY <1>1, <2>1, JournalKeeps DEF vars, handler
<1> QED
  BY <1>1, JournalCheck, JournalEntry, JournalLookup, JournalRead, JournalSave, JournalFault,
     JournalRequest DEF Next, Handle

LEMMA JournalInit == Init => JournalInv
BY DEF Init, JournalInv, SavesResult

LEMMA JournalCorrect == Spec => []CaseInv
<1>1. Init => CaseInv
  BY IncidentInit, OrderInit, JournalInit DEF CaseInv
<1>2. CaseInv /\ [Next]_vars => CaseInv'
  BY IncidentStep, OrderStep, AgreementStep DEF CaseInv
<1> QED
  BY <1>1, <1>2, PTL DEF Spec

\* Journal and incidents tell the same story: unless an operation on its last result
\* failed, a config is a reason of its monitor's open incident exactly when the result
\* of it that was journaled last is a failure.
THEOREM SameStory == Spec => []LastResultAgrees
<1>1. CaseInv => LastResultAgrees
  <2> SUFFICES ASSUME CaseInv, NEW c \in configs \ stale, ~Handling(c), results[c] # None
               PROVE  /\ c \in ReasonsOf(MonitorOf[c]) <=> results[c].status = "failure"
                      /\ \A i \in OpenOf(MonitorOf[c]) :
                           c \in DOMAIN i.reasons => i.reasons[c].latest = results[c].at
    BY DEF LastResultAgrees
  <2>1. Agrees(results[c]) /\ results[c].cfg = c
    BY JournalType DEF CaseInv, JournalInv, IncidentInv, TypeOK
  <2> QED
    BY <2>1 DEF Agrees
<1> QED
  BY <1>1, JournalCorrect, PTL
=============================================================================
