---------------------------- MODULE SettlingProofs ----------------------------
(***************************************************************************)
(* Theorems about Scheduler where something comes to rest: the config      *)
(* events have been applied, or the pipeline has been drained.  They hold  *)
(* in every mode, with config ids used again or not.                       *)
(***************************************************************************)
EXTENDS SchedulerProofs

USE NoneAssumption, SizeAssumption, ModeAssumption

-----------------------------------------------------------------------------
(* The schedule is what the service asked for.                               *)

\* The settings a config is scheduled with.
Planned(c) == IF Scheduled(c) THEN checkJob[states[c]].ver ELSE NoVersion

Ahead == 1..Len(configEvents)

\* No event about the config of event i comes after it.
IsLast(i) == \A j \in Ahead : configEvents[j].cfg = configEvents[i].cfg => j <= i

\* Of every config the last event on its way, or else the schedule, says what
\* is wanted.  SettledAsWanted speaks of the empty channel only, and does not
\* say which event will settle a config.
SettleInv ==
  /\ \A i \in Ahead : IsLast(i) => wanted[configEvents[i].cfg] = configEvents[i].ver
  /\ \A c \in Configs :
       (\A i \in Ahead : configEvents[i].cfg # c) => wanted[c] = Planned(c)

\* The event applied decides about its own config and touches no other.
LEMMA ApplySettles ==
  ASSUME TypeInv, NEW ev \in ConfigEvents, ApplyConfigEvent(ev)
  PROVE  /\ Planned(ev.cfg)' = ev.ver
         /\ \A c \in Configs \ {ev.cfg} : Planned(c)' = Planned(c)
<1> USE DEF TypeInv, TypeOK, Planned, Scheduled
<1>1. ev.cfg \in Configs /\ (ev.type = "deleted" => ev.ver = NoVersion)
  BY DEF ConfigEvents
<1>2. JobOf(ev).ver = ev.ver
  BY DEF JobOf
<1>3. CASE Adopt(ev)
  <2>1. PICK o \in Objs :
          /\ ~Live(o)
          /\ states' = [states EXCEPT ![ev.cfg] = o]
          /\ checkJob' = [checkJob EXCEPT ![o] = JobOf(ev)]
    BY <1>3 DEF Adopt
  <2>2. \A c \in Configs : states[c] # o
    BY <2>1 DEF Live
  <2>3. o # NoObj
    OBVIOUS
  <2> QED
    BY <1>1, <1>2, <2>1, <2>2, <2>3 DEF MapTypeOK
<1>4. CASE Retarget(ev)
  <2>1. states[ev.cfg] \in Objs
    BY <1>1, <1>4 DEF Retarget, MapTypeOK
  <2>2. /\ states' = states
        /\ checkJob' = [checkJob EXCEPT ![states[ev.cfg]] = JobOf(ev)]
    BY <1>4 DEF Retarget
  <2>3. \A c \in Configs \ {ev.cfg} : states[c] = NoObj \/ states[c] # states[ev.cfg]
    BY <1>1, <2>1 DEF Coherent
  <2>4. Planned(ev.cfg)' = ev.ver
    BY <1>1, <1>2, <2>1, <2>2 DEF MapTypeOK
  <2>5. \A c \in Configs \ {ev.cfg} : Planned(c)' = Planned(c)
    BY <2>1, <2>2, <2>3 DEF MapTypeOK
  <2> QED
    BY <2>4, <2>5
<1>5. CASE Drop(ev)
  BY <1>1, <1>5 DEF Drop, MapTypeOK
<1>6. CASE DropUnknown(ev)
  BY <1>1, <1>6 DEF DropUnknown, mapVars
<1> QED
  BY <1>3, <1>4, <1>5, <1>6 DEF ApplyConfigEvent

LEMMA SettleStill ==
  SettleInv /\ UNCHANGED <<states, checkJob, configEvents, wanted>> => SettleInv'
BY DEF SettleInv, Ahead, IsLast, Planned, Scheduled

LEMMA SettleStep == TypeInv /\ SettleInv /\ [Next]_vars => SettleInv'
<1> SUFFICES ASSUME TypeInv, SettleInv, [Next]_vars PROVE SettleInv'
  OBVIOUS
<1>1. CASE RecvConfigEvent
  <2> DEFINE n == Len(configEvents)
  <2>1. /\ configEvents \in Seq(ConfigEvents) /\ configEvents # <<>>
        /\ configEvents' = Tail(configEvents) /\ wanted' = wanted
    BY <1>1 DEF RecvConfigEvent, TypeInv, TypeOK, ServiceTypeOK
  <2>2. PICK ev \in ConfigEvents : ev = configEvents[1] /\ ApplyConfigEvent(ev)
    <3>1. Head(configEvents) \in ConfigEvents /\ Head(configEvents) = configEvents[1]
      BY <2>1
    <3> QED
      BY <1>1, <3>1 DEF RecvConfigEvent
  <2>3. /\ n \in Nat \ {0} /\ Len(configEvents') = n - 1
        /\ \A i \in 1..(n - 1) : configEvents'[i] = configEvents[i + 1]
    BY <2>1
  <2>4. ev.cfg \in Configs
    BY <2>2 DEF ConfigEvents
  <2>5. /\ Planned(ev.cfg)' = ev.ver
        /\ \A c \in Configs \ {ev.cfg} : Planned(c)' = Planned(c)
    BY <2>2, ApplySettles
  <2> HIDE DEF n
  <2>6. Ahead = 1..n /\ Ahead' = 1..(n - 1)
    BY <2>3 DEF Ahead, n
  <2>7. ASSUME NEW i \in Ahead', IsLast(i)'
        PROVE  wanted'[configEvents'[i].cfg] = configEvents'[i].ver
    <3>1. i + 1 \in Ahead /\ configEvents'[i] = configEvents[i + 1]
      BY <2>2, <2>3, <2>6
    <3>2. ASSUME NEW j \in Ahead, configEvents[j].cfg = configEvents[i + 1].cfg
          PROVE  j <= i + 1
      <4>1. CASE j = 1
        BY <2>2, <2>3, <2>6, <4>1
      <4>2. CASE j # 1
        <5>1. j - 1 \in Ahead' /\ configEvents'[j - 1] = configEvents[(j - 1) + 1]
          BY <2>2, <2>3, <2>6, <4>2
        <5>2. (j - 1) + 1 = j
          BY <2>2, <2>3, <2>6
        <5>3. configEvents'[j - 1].cfg = configEvents'[i].cfg
          BY <3>1, <3>2, <5>1, <5>2
        <5>4. j - 1 <= i
          BY <2>7, <5>1, <5>3 DEF IsLast
        <5> QED
          BY <2>2, <2>3, <2>6, <5>4
      <4> QED
        BY <4>1, <4>2
    <3>3. IsLast(i + 1)
      BY <3>2 DEF IsLast
    <3> QED
      BY <2>1, <3>1, <3>3 DEF SettleInv
  <2>8. ASSUME NEW c \in Configs, \A i \in Ahead' : configEvents'[i].cfg # c
        PROVE  wanted'[c] = Planned(c)'
    <3>1. ASSUME NEW j \in Ahead, configEvents[j].cfg = c PROVE j = 1
      <4>1. SUFFICES ASSUME j # 1 PROVE FALSE
        OBVIOUS
      <4>2. j - 1 \in Ahead' /\ configEvents'[j - 1] = configEvents[(j - 1) + 1]
        BY <2>2, <2>3, <2>6, <4>1
      <4>3. (j - 1) + 1 = j
        BY <2>2, <2>3, <2>6
      <4> QED
        BY <2>8, <3>1, <4>2, <4>3
    <3>2. CASE c = ev.cfg
      <4>1. 1 \in Ahead /\ configEvents[1].cfg = c
        BY <2>2, <2>3, <2>6, <3>2
      <4>2. IsLast(1)
        <5>1. \A j \in Ahead : configEvents[j].cfg = configEvents[1].cfg => j = 1
          BY <3>1, <4>1
        <5> QED
          BY <5>1 DEF IsLast
      <4>3. wanted[c] = ev.ver
        BY <2>2, <4>1, <4>2 DEF SettleInv
      <4> QED
        BY <2>1, <2>5, <3>2, <4>3
    <3>3. CASE c # ev.cfg
      <4>1. \A i \in Ahead : configEvents[i].cfg # c
        BY <2>2, <3>1, <3>3
      <4>2. wanted[c] = Planned(c)
        BY <4>1 DEF SettleInv
      <4> QED
        BY <2>1, <2>5, <3>3, <4>2
    <3> QED
      BY <3>2, <3>3
  <2> QED
    BY <2>7, <2>8 DEF SettleInv
<1>2. ASSUME NEW ev \in ConfigEvents, SendConfigEvent(ev) PROVE SettleInv'
  <2> DEFINE n == Len(configEvents)
  <2>1. /\ configEvents \in Seq(ConfigEvents) /\ wanted \in [Configs -> Versions \cup {NoVersion}]
        /\ configEvents' = Append(configEvents, ev)
        /\ wanted' = [wanted EXCEPT ![ev.cfg] = ev.ver]
        /\ UNCHANGED <<states, checkJob>> /\ ev.cfg \in Configs
    BY <1>2 DEF SendConfigEvent, TypeInv, TypeOK, ServiceTypeOK, mapVars, ConfigEvents
  <2>2. /\ n \in Nat /\ Len(configEvents') = n + 1 /\ configEvents'[n + 1] = ev
        /\ \A i \in 1..n : configEvents'[i] = configEvents[i] /\ configEvents[i] \in ConfigEvents
    BY <2>1
  <2> HIDE DEF n
  <2>3. Ahead = 1..n /\ Ahead' = 1..(n + 1) /\ Ahead \subseteq Ahead' /\ n + 1 \in Ahead'
    BY <2>2 DEF Ahead, n
  <2>4. ASSUME NEW i \in Ahead', IsLast(i)'
        PROVE  wanted'[configEvents'[i].cfg] = configEvents'[i].ver
    <3>1. CASE i = n + 1
      BY <2>1, <2>2, <3>1
    <3>2. CASE i # n + 1
      <4>1. i \in Ahead /\ configEvents'[i] = configEvents[i] /\ ~(n + 1 <= i)
        BY <2>2, <2>3, <3>2
      <4>2. configEvents[i].cfg # ev.cfg /\ configEvents[i].cfg \in Configs
        <5>1. configEvents'[n + 1].cfg # configEvents'[i].cfg
          BY <2>3, <2>4, <4>1 DEF IsLast
        <5> QED
          BY <2>2, <2>3, <4>1, <5>1 DEF ConfigEvents
      <4>3. IsLast(i)
        <5>1. \A j \in Ahead : j \in Ahead' /\ configEvents'[j] = configEvents[j]
          BY <2>2, <2>3
        <5> QED
          BY <2>4, <4>1, <5>1 DEF IsLast
      <4>4. wanted[configEvents[i].cfg] = configEvents[i].ver
        BY <4>1, <4>3 DEF SettleInv
      <4> QED
        BY <2>1, <4>1, <4>2, <4>4
    <3> QED
      BY <3>1, <3>2
  <2>5. ASSUME NEW c \in Configs, \A i \in Ahead' : configEvents'[i].cfg # c
        PROVE  wanted'[c] = Planned(c)'
    <3>1. c # ev.cfg
      BY <2>2, <2>3, <2>5
    <3>2. \A i \in Ahead : configEvents[i].cfg # c
      BY <2>2, <2>3, <2>5
    <3>3. wanted[c] = Planned(c)
      BY <3>2 DEF SettleInv
    <3>4. Planned(c)' = Planned(c)
      BY <2>1 DEF Planned, Scheduled
    <3> QED
      BY <2>1, <3>1, <3>3, <3>4
  <2> QED
    BY <2>4, <2>5 DEF SettleInv
<1>3. ASSUME ~RecvConfigEvent, \A ev \in ConfigEvents : ~SendConfigEvent(ev)
      PROVE  UNCHANGED <<states, checkJob, configEvents, wanted>>
  BY <1>3 DEF Next, Schedule, BecomeDue, TimerFires, RecvEvent, SelectCtxDone, AbandonSend,
    PopDue, Work, SendJob, FinishCheck, AbortCheck, Report, ExitWorker, CloseResults,
    Consume, ReceiveResult, Handle, DropEvent, ExitConsumer, Shutdown, Signal, StopCall,
    StopDeadline, StopReturn, Terminated, vars, mapVars, serviceVars
<1> QED
  BY <1>1, <1>2, <1>3, SettleStill

LEMMA SettleInit == Init => SettleInv
<1> SUFFICES ASSUME Init PROVE SettleInv
  OBVIOUS
<1>1. Ahead = {}
  BY DEF Init, Ahead
<1>2. ASSUME NEW c \in Configs PROVE wanted[c] = Planned(c)
  <2>1. CASE Scheduled(c)
    <3>1. states[c] \in Objs /\ \A d \in Configs : states[d] = states[c] => d = c
      BY <2>1 DEF Init, Scheduled
    <3>2. StartJob(states[c]) = [cfg |-> c, ver |-> wanted[c]]
      BY <3>1 DEF StartJob
    <3> QED
      BY <2>1, <3>1, <3>2 DEF Init, Planned
  <2>2. CASE ~Scheduled(c)
    BY <2>2 DEF Init, Planned, Scheduled
  <2> QED
    BY <2>1, <2>2
<1> QED
  BY <1>1, <1>2 DEF SettleInv

\* Once the events sent have been applied, the schedule has the configs the
\* service wants with the settings it wants, in whatever order the events came
\* and wherever the configs were when they were applied.
THEOREM Settles == Spec => []SettledAsWanted
<1>1. SettleInv => SettledAsWanted
  <2> SUFFICES ASSUME SettleInv, configEvents = <<>> PROVE \A c \in Configs : wanted[c] = Planned(c)
    BY DEF SettledAsWanted, Planned
  <2>1. Ahead = {}
    BY DEF Ahead
  <2> QED
    BY <2>1 DEF SettleInv
<1> QED
  BY TypeInit, TypeStep, SettleInit, SettleStep, <1>1, PTL DEF Spec

-----------------------------------------------------------------------------
(* The pipeline is drained from its head to its end.                         *)

\* Each goroutine ends only after the one that feeds it, and with nothing left
\* in the channel between them.
DrainInv ==
  /\ \A w \in Workers : worker[w].pc = "exited" => schedPc = "exited"
  /\ closer = "closed" => \A w \in Workers : worker[w].pc = "exited"
  /\ consumer.pc = "exited" => closer = "closed" /\ results = <<>>

LEMMA DrainStep == TypeInv /\ DrainInv /\ [Next]_vars => DrainInv'
<1> SUFFICES ASSUME TypeInv, DrainInv, [Next]_vars PROVE DrainInv'
  OBVIOUS
<1> USE DEF TypeInv, TypeOK, RingTypeOK
<1>1. ASSUME NEW w \in Workers, Work(w) PROVE DrainInv'
  <2>1. closer = "waiting" \/ worker[w].pc = "exited"
    BY DEF DrainInv
  <2>2. worker[w].pc # "exited" /\ UNCHANGED <<closer, consumer>>
    BY <1>1 DEF Work, SendJob, FinishCheck, AbortCheck, Report, ExitWorker
  <2>3. closer = "waiting" /\ consumer.pc # "exited"
    BY <2>1, <2>2 DEF DrainInv
  <2>4. \A v \in Workers : worker'[v].pc = "exited" => schedPc' = "exited"
    <3>1. CASE SendJob(w)
      BY <3>1 DEF SendJob, DrainInv
    <3>2. CASE FinishCheck(w) \/ AbortCheck(w)
      BY <3>2 DEF FinishCheck, AbortCheck, DrainInv
    <3>3. CASE Report(w)
      BY <3>3 DEF Report, DrainInv, Idle
    <3>4. CASE ExitWorker(w)
      BY <3>4 DEF ExitWorker, DrainInv
    <3> QED
      BY <1>1, <3>1, <3>2, <3>3, <3>4 DEF Work
  <2> QED
    BY <2>2, <2>3, <2>4 DEF DrainInv
<1>2. CASE CloseResults
  BY <1>2 DEF CloseResults, DrainInv
<1>3. CASE Consume
  BY <1>3 DEF Consume, ReceiveResult, Handle, DropEvent, ExitConsumer, DrainInv, Receiving
<1>4. CASE RecvEvent
  BY <1>4 DEF RecvEvent, DrainInv, AtSelect, Receiving
<1>5. CASE SelectCtxDone \/ AbandonSend \/ \E o \in Objs : PopDue(o)
  BY <1>5 DEF SelectCtxDone, AbandonSend, PopDue, DrainInv, ringVars
<1>6. ASSUME UNCHANGED <<schedPc, ringVars>> PROVE DrainInv'
  BY <1>6 DEF DrainInv, ringVars
<1>7. ASSUME \/ \E o \in Objs : BecomeDue(o)
             \/ TimerFires \/ RecvConfigEvent \/ Shutdown
             \/ \E ev \in ConfigEvents : SendConfigEvent(ev)
             \/ Terminated \/ UNCHANGED vars
      PROVE  UNCHANGED <<schedPc, ringVars>>
  BY <1>7 DEF BecomeDue, TimerFires, RecvConfigEvent, Shutdown, Signal, StopCall,
    StopDeadline, StopReturn, SendConfigEvent, Terminated, vars, ringVars
<1> QED
  BY <1>1, <1>2, <1>3, <1>4, <1>5, <1>6, <1>7 DEF Next, Schedule

\* done is closed only when nothing is left in the pipeline, for every number
\* of workers and however the drain is interleaved with Stop's deadline.
THEOREM DrainsFully == Spec => []DoneMeansDrained
<1>1. Init => DrainInv
  BY DEF Init, DrainInv, Idle, Receiving
<1>2. TypeInv /\ DrainInv => DoneMeansDrained
  <2> SUFFICES ASSUME TypeInv, DrainInv, consumer.pc = "exited"
               PROVE  /\ Taken = {} /\ schedPc = "exited"
                      /\ \A w \in Workers : worker[w].pc = "exited"
    BY DEF DoneMeansDrained
  <2> USE DEF TypeInv, TypeOK, RingTypeOK
  <2>1. \A w \in Workers : worker[w].pc = "exited"
    BY DEF DrainInv
  <2>2. schedPc = "exited"
    BY <2>1 DEF DrainInv
  <2>3. DOMAIN results = {}
    BY DEF DrainInv
  <2>4. /\ sending = NoJob /\ consumer.job = NoJob
        /\ \A w \in Workers : worker[w].job = NoJob
    BY <2>1, <2>2
  <2>5. ASSUME NEW p \in Places PROVE JobAt(p) = NoJob
    BY <2>3, <2>4 DEF Places, JobAt
  <2> QED
    BY <2>1, <2>2, <2>5 DEF Taken
<1> QED
  BY TypeInit, TypeStep, DrainStep, <1>1, <1>2, PTL DEF Spec

-----------------------------------------------------------------------------
(* Checks in flight are not cut short before Stop's deadline.                *)

LEMMA PatienceStep ==
  ~AppCtx /\ TypeInv /\ appCtx = "live" /\ DrainNotAborted /\ [Next]_vars
    => appCtx' = "live" /\ DrainNotAborted'
<1> SUFFICES ASSUME ~AppCtx, TypeInv, appCtx = "live", DrainNotAborted, [Next]_vars
             PROVE  appCtx' = "live" /\ DrainNotAborted'
  OBVIOUS
<1> DEFINE Forced == stopPc \in {"forced", "returnedErr"}
<1> USE DEF TypeInv, TypeOK, RingTypeOK
<1>1. appCtx' = "live" /\ (Forced => Forced')
  <2>1. CASE Shutdown
    BY <2>1 DEF Shutdown, Signal, StopCall, StopDeadline, StopReturn
  <2>2. ASSUME ~Shutdown PROVE UNCHANGED stopVars
    BY <2>2 DEF Next, Schedule, BecomeDue, TimerFires, RecvEvent, RecvConfigEvent,
      SelectCtxDone, AbandonSend, PopDue, Work, SendJob, FinishCheck, AbortCheck, Report,
      ExitWorker, CloseResults, Consume, ReceiveResult, Handle, DropEvent, ExitConsumer,
      SendConfigEvent, Terminated, vars, stopVars
  <2> QED
    BY <2>1, <2>2 DEF stopVars
<1>2. SUFFICES ASSUME ~Forced, ~Forced' PROVE DrainNotAborted'
  BY <1>1 DEF DrainNotAborted
<1>3. /\ \A w \in Workers : worker[w].out # "aborted"
      /\ \A i \in DOMAIN results : results[i].out # "aborted"
      /\ consumer.out # "aborted"
  BY <1>2 DEF DrainNotAborted
<1>4. ASSUME NEW w \in Workers, Work(w) PROVE DrainNotAborted'
  <2>1. ~AbortCheck(w)
    BY <1>2 DEF AbortCheck, CheckCtxDone
  <2>2. CASE SendJob(w) \/ FinishCheck(w) \/ ExitWorker(w)
    BY <1>3, <2>2 DEF SendJob, FinishCheck, ExitWorker, Gone, DrainNotAborted
  <2>3. CASE Report(w)
    <3>1. \A i \in DOMAIN results' : results'[i].out # "aborted"
      BY <1>3, <2>3 DEF Report
    <3>2. \A v \in Workers : worker'[v].out # "aborted"
      BY <1>3, <2>3 DEF Report, Idle
    <3> QED
      BY <1>3, <2>3, <3>1, <3>2 DEF Report, DrainNotAborted
  <2> QED
    BY <1>4, <2>1, <2>2, <2>3 DEF Work
<1>5. CASE ReceiveResult
  <2>1. results # <<>> /\ results' = Tail(results) /\ consumer'.out = Head(results).out
        /\ worker' = worker
    BY <1>5 DEF ReceiveResult
  <2>2. \A i \in DOMAIN results' : i + 1 \in DOMAIN results /\ results'[i] = results[i + 1]
    BY <2>1
  <2>3. 1 \in DOMAIN results /\ Head(results) = results[1]
    BY <2>1
  <2> QED
    BY <1>3, <2>1, <2>2, <2>3 DEF DrainNotAborted
<1>6. CASE RecvEvent \/ Handle \/ DropEvent \/ ExitConsumer
  BY <1>3, <1>6 DEF RecvEvent, Handle, DropEvent, ExitConsumer, Receiving, DrainNotAborted
<1>7. ASSUME UNCHANGED <<worker, results, consumer>> PROVE DrainNotAborted'
  BY <1>3, <1>7 DEF DrainNotAborted
<1>8. ASSUME \/ \E o \in Objs : BecomeDue(o)
             \/ TimerFires \/ RecvConfigEvent \/ SelectCtxDone \/ AbandonSend
             \/ \E o \in Objs : PopDue(o)
             \/ CloseResults \/ Shutdown
             \/ \E ev \in ConfigEvents : SendConfigEvent(ev)
             \/ Terminated \/ UNCHANGED vars
      PROVE  UNCHANGED <<worker, results, consumer>>
  BY <1>8 DEF BecomeDue, TimerFires, RecvConfigEvent, SelectCtxDone, AbandonSend, PopDue,
    CloseResults, Shutdown, Signal, StopCall, StopDeadline, StopReturn, SendConfigEvent,
    Terminated, vars, ringVars
<1> QED
  BY <1>4, <1>5, <1>6, <1>7, <1>8 DEF Next, Schedule, Consume

\* A scheduler that is not started under the signal's context cuts no check
\* short before the deadline of Stop.
THEOREM DrainsPatiently == ~AppCtx => (Spec => []DrainNotAborted)
<1> SUFFICES ASSUME ~AppCtx PROVE Spec => []DrainNotAborted
  OBVIOUS
<1>1. Init => appCtx = "live" /\ DrainNotAborted
  BY DEF Init, DrainNotAborted, Idle, Receiving
<1>2. TypeInv /\ (appCtx = "live" /\ DrainNotAborted) /\ [Next]_vars
        => (appCtx = "live" /\ DrainNotAborted)'
  BY PatienceStep
<1> QED
  BY TypeInit, TypeStep, <1>1, <1>2, PTL DEF Spec
=============================================================================
