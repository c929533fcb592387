--------------------------- MODULE SchedulerProofs ---------------------------
(***************************************************************************)
(* Theorems about Scheduler, for any number of configs, workers and        *)
(* addresses, any capacity of configEvents and any number of events.       *)
(***************************************************************************)
EXTENDS Scheduler, FiniteSetTheorems, TLAPS

USE NoneAssumption, SizeAssumption, ModeAssumption

-----------------------------------------------------------------------------
(* Type correctness.  heap stays within Nat only because heap.Remove is      *)
(* called for states that are in the heap, so the two come together.         *)

\* The state of a scheduled config has that config's job, and is in the heap
\* when it is not in flight.
Coherent ==
  \A c \in Configs : Scheduled(c) =>
    /\ checkJob[states[c]] # NoJob
    /\ checkJob[states[c]].cfg = c
    /\ states[c] \notin inFlight => heap[states[c]] > 0

TypeInv == TypeOK /\ Coherent

LEMMA TypeInit == Init => TypeInv
<1> SUFFICES ASSUME Init PROVE TypeInv
  OBVIOUS
<1> USE DEF Init, Scheduled
<1>1. \A o \in Objs : StartJob(o) \in Jobs \cup {NoJob}
  BY DEF StartJob, Jobs
<1>2. \A c \in Configs : Scheduled(c) => StartJob(states[c]) = [cfg |-> c, ver |-> wanted[c]]
  BY DEF StartJob
<1>3. \A o \in Objs : Live(o) => StartJob(o) # NoJob
  BY <1>2 DEF Live, Jobs
<1>4. MapTypeOK
  BY <1>1, <1>3 DEF MapTypeOK, Live
<1>5. RingTypeOK
  BY DEF RingTypeOK, Idle, Receiving, Outcomes
<1>6. ServiceTypeOK
  BY DEF ServiceTypeOK
<1>7. Coherent
  BY <1>2 DEF Coherent, Jobs
<1> QED
  BY <1>4, <1>5, <1>6, <1>7 DEF TypeInv, TypeOK

\* What the map, the heap and the batch promise is kept by every step that
\* leaves them alone; likewise for the ring and for the service's side.
LEMMA MapUntouched ==
  MapTypeOK /\ Coherent /\ UNCHANGED <<mapVars, batch>> => MapTypeOK' /\ Coherent'
BY DEF MapTypeOK, Coherent, mapVars, Live, Scheduled

LEMMA RingUntouched ==
  RingTypeOK /\ UNCHANGED <<schedPc, batch, sending, ringVars>> => RingTypeOK'
BY DEF RingTypeOK, ringVars

LEMMA ServiceUntouched ==
  ServiceTypeOK /\ UNCHANGED <<serviceVars, stopVars>> => ServiceTypeOK'
BY DEF ServiceTypeOK, serviceVars, stopVars

LEMMA TypeStep == TypeInv /\ [Next]_vars => TypeInv'
<1> SUFFICES ASSUME TypeInv, [Next]_vars PROVE TypeInv'
  OBVIOUS
<1> USE DEF TypeInv, TypeOK
<1>1. ASSUME NEW o \in Objs, BecomeDue(o) PROVE TypeInv'
  <2> USE <1>1 DEF BecomeDue
  <2>1. MapTypeOK'
    BY DEF MapTypeOK, Live
  <2>2. Coherent'
    BY DEF Coherent, Scheduled
  <2> QED
    BY <2>1, <2>2, RingUntouched, ServiceUntouched
<1>2. ASSUME TimerFires PROVE TypeInv'
  <2> USE <1>2 DEF TimerFires, AtSelect, DueIn, mapVars
  <2>1. MapTypeOK'
    BY DEF MapTypeOK, Live
  <2>2. RingTypeOK'
    BY DEF RingTypeOK, ringVars
  <2>3. Coherent'
    BY DEF Coherent, Scheduled
  <2> QED
    BY <2>1, <2>2, <2>3, ServiceUntouched
<1>3. ASSUME RecvEvent PROVE TypeInv'
  <2> USE <1>3 DEF RecvEvent, AtSelect, DueIn
  <2> DEFINE o == states[consumer.job.cfg]
  <2>1. consumer.job.cfg \in Configs
    BY DEF RingTypeOK, Jobs
  <2>2. RingTypeOK'
    BY DEF RingTypeOK, Receiving, Outcomes
  <2>3. CASE o = NoObj
    BY <2>1, <2>2, <2>3, ServiceUntouched
    DEF MapTypeOK, Live, Coherent, Scheduled
  <2>4. CASE o # NoObj
    <3>1. o \in Objs /\ Live(o)
      BY <2>1, <2>4 DEF MapTypeOK, Live
    <3> HIDE DEF o
    <3>2. /\ inFlight' = inFlight \ {o} /\ due' = due \ {o}
          /\ heap' = [heap EXCEPT ![o] = @ + 1]
          /\ batch' = {p \in due' : heap'[p] > 0}
          /\ UNCHANGED <<states, checkJob>>
      BY <2>4 DEF o
    <3>3. MapTypeOK'
      BY <3>1, <3>2 DEF MapTypeOK, Live
    <3>4. Coherent'
      BY <3>1, <3>2 DEF Coherent, Scheduled, MapTypeOK
    <3> QED
      BY <2>2, <3>3, <3>4, ServiceUntouched
  <2> QED
    BY <2>3, <2>4
<1>4. ASSUME RecvConfigEvent PROVE TypeInv'
  <2> DEFINE ev == Head(configEvents)
  <2>1. ev \in ConfigEvents /\ Tail(configEvents) \in Seq(ConfigEvents)
    BY <1>4 DEF RecvConfigEvent, ServiceTypeOK
  <2>2. ServiceTypeOK'
    BY <1>4, <2>1 DEF RecvConfigEvent, ServiceTypeOK, stopVars
  <2>3. RingTypeOK'
    BY <1>4 DEF RecvConfigEvent, AtSelect, RingTypeOK, ringVars
  <2>4. batch' = {p \in due' : heap'[p] > 0} /\ ApplyConfigEvent(ev)
    BY <1>4 DEF RecvConfigEvent, DueIn
  <2> HIDE DEF ev
  <2>5. ev.cfg \in Configs /\ (ev.type # "deleted" => JobOf(ev) \in Jobs)
    BY <2>1 DEF ConfigEvents, JobOf, Jobs
  <2>6. JobOf(ev).cfg = ev.cfg
    BY DEF JobOf
  <2>7. CASE Adopt(ev)
    <3>1. PICK o \in Objs :
            /\ ~Live(o)
            /\ states' = [states EXCEPT ![ev.cfg] = o]
            /\ checkJob' = [checkJob EXCEPT ![o] = JobOf(ev)]
            /\ inFlight' = inFlight \ {o} /\ due' = due \cup {o}
            /\ heap' = [heap EXCEPT ![o] = @ + 1]
      BY <2>7 DEF Adopt
    <3>2. JobOf(ev) # NoJob
      BY <2>5, <2>7 DEF Adopt, Jobs
    <3>3. MapTypeOK'
      BY <2>4, <2>5, <2>7, <3>1, <3>2 DEF Adopt, MapTypeOK, Live
    <3>4. Coherent'
      BY <2>5, <2>6, <3>1, <3>2 DEF MapTypeOK, Coherent, Scheduled, Live
    <3> QED
      BY <2>2, <2>3, <3>3, <3>4
  <2>8. CASE Retarget(ev)
    <3>1. states[ev.cfg] \in Objs /\ JobOf(ev) # NoJob
      BY <2>5, <2>8 DEF Retarget, Scheduled, MapTypeOK, Jobs
    <3>2. MapTypeOK'
      BY <2>4, <2>5, <2>8, <3>1 DEF Retarget, MapTypeOK, Live
    <3>3. Coherent'
      BY <2>5, <2>6, <2>8, <3>1 DEF Retarget, MapTypeOK, Coherent, Scheduled
    <3> QED
      BY <2>2, <2>3, <3>2, <3>3
  <2>9. CASE Drop(ev)
    <3> DEFINE o == states[ev.cfg]
    <3>1. o \in Objs /\ Live(o) /\ (o \notin inFlight => heap[o] > 0)
      BY <2>5, <2>9 DEF Drop, MapTypeOK, Coherent, Scheduled, Live
    <3>2. /\ states' = [states EXCEPT ![ev.cfg] = NoObj]
          /\ heap' = IF o \in inFlight THEN heap ELSE [heap EXCEPT ![o] = @ - 1]
          /\ UNCHANGED <<checkJob, inFlight, due>>
      BY <2>9 DEF Drop
    <3>3. \A c \in Configs : states'[c] # NoObj =>
            states'[c] = states[c] /\ states[c] # NoObj /\ states[c] # o
      BY <2>5, <2>9, <3>2 DEF Drop, Coherent, MapTypeOK, Scheduled
    <3> HIDE DEF o
    <3>4. heap' \in [Objs -> Nat] /\ \A p \in Objs : p # o => heap'[p] = heap[p]
      BY <3>1, <3>2 DEF MapTypeOK
    <3>5. MapTypeOK'
      <4>1. \A p \in Objs : Live(p)' => Live(p)
        BY <3>1, <3>3, <3>4 DEF Live
      <4>2. states' \in [Configs -> Objs \cup {NoObj}]
        BY <2>5, <3>2 DEF MapTypeOK
      <4>3. batch' \subseteq Objs /\ \A p \in batch' : heap'[p] > 0
        BY <2>4, <3>2 DEF MapTypeOK
      <4> QED
        BY <3>2, <3>4, <4>1, <4>2, <4>3 DEF MapTypeOK
    <3>6. Coherent'
      BY <3>2, <3>3, <3>4 DEF Coherent, Scheduled, MapTypeOK
    <3> QED
      BY <2>2, <2>3, <3>5, <3>6
  <2>10. CASE DropUnknown(ev)
    BY <2>2, <2>3, <2>4, <2>10
    DEF DropUnknown, mapVars, MapTypeOK, Coherent, Live, Scheduled
  <2> QED
    BY <2>4, <2>7, <2>8, <2>9, <2>10 DEF ApplyConfigEvent
<1>5. ASSUME NEW o \in Objs, PopDue(o) PROVE TypeInv'
  <2> USE <1>5 DEF PopDue
  <2>1. MapTypeOK'
    BY DEF MapTypeOK, Live
  <2>2. checkJob[o] \in Jobs
    BY DEF MapTypeOK, Live
  <2>3. sending' \in Jobs /\ sending' # NoJob
    BY <2>2 DEF Jobs
  <2>4. RingTypeOK'
    BY <2>3 DEF RingTypeOK, ringVars
  <2>5. Coherent'
    BY DEF Coherent, Scheduled, MapTypeOK
  <2> QED
    BY <2>1, <2>4, <2>5, ServiceUntouched
<1>6. ASSUME SelectCtxDone \/ AbandonSend PROVE TypeInv'
  <2> USE <1>6 DEF SelectCtxDone, AbandonSend, AtSelect, mapVars
  <2>1. MapTypeOK'
    BY DEF MapTypeOK, Live
  <2>2. RingTypeOK'
    BY DEF RingTypeOK, ringVars
  <2>3. Coherent'
    BY DEF Coherent, Scheduled
  <2> QED
    BY <2>1, <2>2, <2>3, ServiceUntouched
<1>7. ASSUME NEW w \in Workers, Work(w) PROVE TypeInv'
  <2>1. UNCHANGED <<mapVars, batch, serviceVars, stopVars>>
    BY <1>7 DEF Work, SendJob, FinishCheck, AbortCheck, Report, ExitWorker
  <2>2. RingTypeOK'
    <3>1. CASE SendJob(w)
      BY <3>1 DEF SendJob, RingTypeOK, Outcomes
    <3>2. CASE FinishCheck(w)
      BY <3>2 DEF FinishCheck, RingTypeOK, Outcomes
    <3>3. CASE AbortCheck(w)
      BY <3>3 DEF AbortCheck, RingTypeOK, Outcomes
    <3>4. CASE Report(w)
      BY <3>4 DEF Report, RingTypeOK, Outcomes, Results, Idle
    <3>5. CASE ExitWorker(w)
      BY <3>5 DEF ExitWorker, RingTypeOK, Outcomes, Gone
    <3> QED
      BY <1>7, <3>1, <3>2, <3>3, <3>4, <3>5 DEF Work
  <2> QED
    BY <2>1, <2>2, MapUntouched, ServiceUntouched
<1>8. ASSUME CloseResults \/ Consume PROVE TypeInv'
  <2>1. UNCHANGED <<mapVars, batch, serviceVars, stopVars>>
    BY <1>8
    DEF CloseResults, Consume, ReceiveResult, Handle, DropEvent, ExitConsumer
  <2>2. RingTypeOK'
    <3>1. CASE CloseResults
      BY <3>1 DEF CloseResults, RingTypeOK
    <3>2. CASE ReceiveResult
      <4>1. Head(results) \in Results /\ Tail(results) \in Seq(Results)
        BY <3>2 DEF ReceiveResult, RingTypeOK
      <4>2. Head(results).job \in Jobs /\ Head(results).job # NoJob
            /\ Head(results).out \in Outcomes
        BY <4>1 DEF Results, Jobs
      <4> QED
        BY <3>2, <4>1, <4>2 DEF ReceiveResult, RingTypeOK
    <3>3. CASE Handle
      BY <3>3 DEF Handle, RingTypeOK, Outcomes
    <3>4. CASE DropEvent
      BY <3>4 DEF DropEvent, RingTypeOK, Outcomes, Receiving
    <3>5. CASE ExitConsumer
      BY <3>5 DEF ExitConsumer, RingTypeOK, Outcomes
    <3> QED
      BY <1>8, <3>1, <3>2, <3>3, <3>4, <3>5 DEF Consume
  <2> QED
    BY <2>1, <2>2, MapUntouched, ServiceUntouched
<1>9. ASSUME Shutdown PROVE TypeInv'
  <2> USE <1>9 DEF Shutdown, Signal, StopCall, StopDeadline, StopReturn
  <2>1. UNCHANGED <<mapVars, schedPc, batch, sending, ringVars>>
    OBVIOUS
  <2>2. ServiceTypeOK'
    BY DEF ServiceTypeOK, serviceVars
  <2> QED
    BY <2>1, <2>2, MapUntouched, RingUntouched
<1>10. ASSUME NEW ev \in ConfigEvents, SendConfigEvent(ev) PROVE TypeInv'
  <2> USE <1>10 DEF SendConfigEvent
  <2>1. ev.cfg \in Configs /\ ev.ver \in Versions \cup {NoVersion}
    BY DEF ConfigEvents
  <2>2. retired' \subseteq Configs
    BY <2>1 DEF ServiceTypeOK
  <2>3. wanted' \in [Configs -> Versions \cup {NoVersion}]
    BY <2>1 DEF ServiceTypeOK
  <2>4. configEvents' \in Seq(ConfigEvents) /\ sent' \in Nat
    BY DEF ServiceTypeOK
  <2>5. ServiceTypeOK'
    BY <2>2, <2>3, <2>4 DEF ServiceTypeOK, stopVars
  <2> QED
    BY <2>5, MapUntouched, RingUntouched
<1>11. ASSUME UNCHANGED vars PROVE TypeInv'
  BY <1>11, MapUntouched, RingUntouched, ServiceUntouched
  DEF vars, mapVars, ringVars, serviceVars, stopVars
<1> QED
  BY <1>1, <1>2, <1>3, <1>4, <1>5, <1>6, <1>7, <1>8, <1>9, <1>10, <1>11
  DEF Next, Schedule, Terminated

\* The variables keep their types; with it, no entry is taken from a heap that
\* does not hold it.
THEOREM TypeCorrect == Spec => []TypeOK
<1>1. TypeInv => TypeOK
  BY DEF TypeInv
<1> QED
  BY TypeInit, TypeStep, <1>1, PTL DEF Spec

-----------------------------------------------------------------------------
(* Where a check of config c is on its way round the ring.                   *)

AtSend(c) == sending # NoJob /\ sending.cfg = c
AtWorker(w, c) == worker[w].job # NoJob /\ worker[w].job.cfg = c
AtResult(i, c) == i \in 1..Len(results) /\ results[i].job.cfg = c
AtConsume(c) == consumer.job # NoJob /\ consumer.job.cfg = c

UnderWay(c) ==
  \/ AtSend(c) \/ AtConsume(c)
  \/ \E w \in Workers : AtWorker(w, c)
  \/ \E i \in Nat : AtResult(i, c)

\* No two places of the ring have a check of c.
Alone(c) ==
  /\ AtSend(c) => /\ ~AtConsume(c)
                  /\ \A w \in Workers : ~AtWorker(w, c)
                  /\ \A i \in Nat : ~AtResult(i, c)
  /\ AtConsume(c) => /\ \A w \in Workers : ~AtWorker(w, c)
                     /\ \A i \in Nat : ~AtResult(i, c)
  /\ \A w \in Workers : AtWorker(w, c) =>
       /\ \A v \in Workers : AtWorker(v, c) => v = w
       /\ \A i \in Nat : ~AtResult(i, c)
  /\ \A i, j \in Nat : AtResult(i, c) /\ AtResult(j, c) => i = j

\* A step that leaves every job where it is.
LEMMA RingStill ==
  ASSUME NEW c \in Configs, UNCHANGED <<sending, results>>,
         consumer'.job = consumer.job,
         \A w \in Workers : worker'[w].job = worker[w].job
  PROVE  (Alone(c)' <=> Alone(c)) /\ (UnderWay(c)' <=> UnderWay(c))
<1>1. /\ AtSend(c)' <=> AtSend(c)
      /\ AtConsume(c)' <=> AtConsume(c)
      /\ \A w \in Workers : AtWorker(w, c)' <=> AtWorker(w, c)
      /\ \A i \in Nat : AtResult(i, c)' <=> AtResult(i, c)
  BY DEF AtSend, AtConsume, AtWorker, AtResult
<1> QED
  BY <1>1 DEF Alone, UnderWay

\* The steps of the workers, of the consumer and of the closer carry a job from
\* one place to the next: none appears, none is copied and none is lost.
CarriesOn(c) == (Alone(c) => Alone(c)') /\ (UnderWay(c)' <=> UnderWay(c))

Carry ==
  \/ \E w \in Workers : Work(w)
  \/ CloseResults \/ ReceiveResult \/ Handle \/ ExitConsumer

LEMMA RingFlow ==
  ASSUME TypeInv, NEW c \in Configs, Carry
  PROVE  CarriesOn(c)
<1> USE DEF TypeInv, TypeOK
<1>1. ASSUME NEW w \in Workers, SendJob(w) PROVE CarriesOn(c)
  <2> USE <1>1 DEF SendJob
  <2>1. /\ ~AtWorker(w, c) /\ ~AtSend(c)'
        /\ AtWorker(w, c)' <=> AtSend(c)
        /\ \A v \in Workers : v # w => (AtWorker(v, c)' <=> AtWorker(v, c))
    BY DEF RingTypeOK, AtWorker, AtSend
  <2>2. /\ AtConsume(c)' <=> AtConsume(c)
        /\ \A i \in Nat : AtResult(i, c)' <=> AtResult(i, c)
    BY DEF AtConsume, AtResult
  <2> QED
    BY <2>1, <2>2 DEF Alone, UnderWay, CarriesOn
<1>2. ASSUME NEW w \in Workers, FinishCheck(w) \/ AbortCheck(w) \/ ExitWorker(w)
      PROVE  CarriesOn(c)
  <2>1. \A v \in Workers : worker'[v].job = worker[v].job
    <3>1. CASE FinishCheck(w)
      BY <3>1 DEF FinishCheck, RingTypeOK
    <3>2. CASE AbortCheck(w)
      BY <3>2 DEF AbortCheck, RingTypeOK
    <3>3. CASE ExitWorker(w)
      BY <3>3 DEF ExitWorker, RingTypeOK, Gone
    <3> QED
      BY <1>2, <3>1, <3>2, <3>3
  <2> QED
    BY <1>2, <2>1, RingStill DEF CarriesOn, FinishCheck, AbortCheck, ExitWorker
<1>3. ASSUME NEW w \in Workers, Report(w) PROVE CarriesOn(c)
  <2> USE <1>3 DEF Report
  <2> DEFINE n == Len(results)
  <2>1. n \in Nat /\ Len(results)' = n + 1
    BY DEF RingTypeOK
  <2>2. \A i \in 1..n : results'[i] = results[i]
    BY DEF RingTypeOK
  <2>3. results'[n + 1].job = worker[w].job
    BY DEF RingTypeOK
  <2>4. worker[w].job # NoJob
    BY DEF RingTypeOK
  <2>5. /\ ~AtWorker(w, c)'
        /\ \A v \in Workers : v # w => (AtWorker(v, c)' <=> AtWorker(v, c))
    BY DEF RingTypeOK, AtWorker, Idle
  <2>6. PICK m \in Nat : m = n + 1
    BY <2>1
  <2>7. \A i \in Nat : AtResult(i, c) <=> i \in 1..n /\ results[i].job.cfg = c
    BY DEF AtResult
  <2>8. \A i \in Nat : AtResult(i, c)' <=> i \in 1..m /\ results'[i].job.cfg = c
    BY <2>1, <2>6 DEF AtResult
  <2> HIDE DEF n
  <2>9. m \in 1..m /\ m \notin 1..n /\ \A i \in Nat : i # m => (i \in 1..m <=> i \in 1..n)
    BY <2>1, <2>6
  <2>10. \A i \in Nat : i # m => (AtResult(i, c)' <=> AtResult(i, c))
    BY <2>2, <2>7, <2>8, <2>9
  <2>11. ~AtResult(m, c) /\ (AtResult(m, c)' <=> AtWorker(w, c))
    BY <2>3, <2>4, <2>6, <2>7, <2>8, <2>9 DEF AtWorker
  <2>12. (AtConsume(c)' <=> AtConsume(c)) /\ (AtSend(c)' <=> AtSend(c))
    BY DEF AtConsume, AtSend
  <2> QED
    BY <2>5, <2>10, <2>11, <2>12 DEF Alone, UnderWay, CarriesOn
<1>4. ASSUME CloseResults \/ Handle \/ ExitConsumer
      PROVE  CarriesOn(c)
  BY <1>4, RingStill DEF CarriesOn, CloseResults, Handle, ExitConsumer, RingTypeOK
<1>5. ASSUME ReceiveResult PROVE CarriesOn(c)
  <2> USE <1>5 DEF ReceiveResult
  <2>1. Len(results) \in Nat /\ Len(results) > 0 /\ Len(results)' = Len(results) - 1
    BY DEF RingTypeOK
  <2>2. \A i \in 1..Len(results)' : results'[i] = results[i + 1]
    BY DEF RingTypeOK
  <2>3. consumer'.job = results[1].job /\ results[1].job # NoJob
    <3>1. Head(results) = results[1] /\ results[1] \in Results
      BY <2>1 DEF RingTypeOK
    <3> QED
      BY <3>1 DEF Results, Jobs
  <2>4. \A i \in Nat : AtResult(i, c)' => AtResult(i + 1, c)
    BY <2>1, <2>2 DEF AtResult
  <2>5. ~AtResult(0, c)' /\ (AtConsume(c)' <=> AtResult(1, c)) /\ ~AtConsume(c)
    BY <2>1, <2>3 DEF AtResult, AtConsume, RingTypeOK
  <2>6. /\ AtSend(c)' <=> AtSend(c)
        /\ \A w \in Workers : AtWorker(w, c)' <=> AtWorker(w, c)
    BY DEF AtSend, AtWorker
  <2>7. \A i, j \in Nat : i + 1 = j + 1 => i = j
    OBVIOUS
  <2>8. \A i \in Nat : i # 0 => i + 1 # 1
    OBVIOUS
  <2>9. 1 \in Nat /\ \A i \in Nat : i + 1 \in Nat
    OBVIOUS
  <2>10. Alone(c) => Alone(c)'
    BY <2>4, <2>5, <2>6, <2>7, <2>8, <2>9 DEF Alone
  <2>11. UnderWay(c)' => UnderWay(c)
    BY <2>4, <2>5, <2>6, <2>9 DEF UnderWay
  <2>12. ASSUME NEW i \in Nat, AtResult(i, c), i # 1
         PROVE  i - 1 \in Nat /\ AtResult(i - 1, c)'
    BY <2>1, <2>2, <2>12 DEF AtResult
  <2>13. UnderWay(c) => UnderWay(c)'
    BY <2>5, <2>6, <2>12 DEF UnderWay
  <2> QED
    BY <2>10, <2>11, <2>13 DEF CarriesOn
<1> QED
  BY <1>1, <1>2, <1>3, <1>4, <1>5 DEF Carry, Work

\* The consumer ends a job, by handing its event over or by dropping it.
LEMMA RingEnd ==
  ASSUME UNCHANGED <<sending, worker, results>>, consumer' = Receiving,
         NEW c \in Configs
  PROVE  /\ Alone(c) => Alone(c)' /\ (AtConsume(c) => ~UnderWay(c)')
         /\ UnderWay(c)' => UnderWay(c)
         /\ ~AtConsume(c) => (UnderWay(c)' <=> UnderWay(c))
<1>1. ~AtConsume(c)'
  BY DEF AtConsume, Receiving
<1>2. /\ AtSend(c)' <=> AtSend(c)
      /\ \A w \in Workers : AtWorker(w, c)' <=> AtWorker(w, c)
      /\ \A i \in Nat : AtResult(i, c)' <=> AtResult(i, c)
  BY DEF AtSend, AtWorker, AtResult
<1> QED
  BY <1>1, <1>2 DEF Alone, UnderWay

-----------------------------------------------------------------------------
(* One check of a config at a time, when config ids are not used again.      *)

\* A state is in the heap once unless its check is under way, and inFlight
\* says which.  A config whose check outlives it will not be scheduled again:
\* of the events for it that are still to come, all are Deleted.
FlightInv ==
  /\ \A c \in Configs : Alone(c)
  /\ \A c \in Configs : Scheduled(c) =>
       /\ UnderWay(c) => states[c] \in inFlight
       /\ heap[states[c]] = IF states[c] \in inFlight THEN 0 ELSE 1
  /\ \A o \in Objs : heap[o] > 0 => \E c \in Configs : states[c] = o
  /\ \A c \in Configs : UnderWay(c) /\ ~Scheduled(c) =>
       /\ c \in retired
       /\ \A i \in 1..Len(configEvents) :
            configEvents[i].cfg = c => configEvents[i].type = "deleted"

\* Once a Deleted was sent for a config, nothing but Deleted follows.
QueueInv ==
  \A i \in 1..Len(configEvents) : configEvents[i].type = "deleted" =>
    /\ configEvents[i].cfg \in retired
    /\ \A j \in i..Len(configEvents) :
         configEvents[j].cfg = configEvents[i].cfg => configEvents[j].type = "deleted"

LEMMA QueueStep == ~Revival /\ TypeInv /\ QueueInv /\ [Next]_vars => QueueInv'
<1> SUFFICES ASSUME ~Revival, TypeInv, QueueInv, [Next]_vars PROVE QueueInv'
  OBVIOUS
<1> USE DEF TypeInv, TypeOK, ServiceTypeOK
<1>1. ASSUME NEW ev \in ConfigEvents, SendConfigEvent(ev) PROVE QueueInv'
  <2> DEFINE n == Len(configEvents)
  <2>1. /\ configEvents' = Append(configEvents, ev)
        /\ ev.cfg \in retired => ev.type = "deleted"
        /\ retired' = IF ev.type = "deleted" THEN retired \cup {ev.cfg} ELSE retired
    BY <1>1 DEF SendConfigEvent
  <2>2. /\ n \in Nat /\ Len(configEvents') = n + 1
        /\ configEvents'[n + 1] = ev
        /\ \A i \in 1..n : configEvents'[i] = configEvents[i]
    BY <2>1
  <2>3. \A i \in 1..n : configEvents[i].type = "deleted" => configEvents[i].cfg \in retired
    BY DEF QueueInv
  <2>4. ASSUME NEW i \in 1..Len(configEvents'), configEvents'[i].type = "deleted"
        PROVE  configEvents'[i].cfg \in retired'
    <3>1. CASE i = n + 1
      BY <2>1, <2>2, <2>4, <3>1
    <3>2. CASE i \in 1..n
      BY <2>1, <2>2, <2>3, <2>4, <3>2
    <3> QED
      BY <2>2, <3>1, <3>2
  <2>5. ASSUME NEW i \in 1..Len(configEvents'), configEvents'[i].type = "deleted",
               NEW j \in i..Len(configEvents'),
               configEvents'[j].cfg = configEvents'[i].cfg
        PROVE  configEvents'[j].type = "deleted"
    <3>1. CASE i = n + 1
      BY <2>2, <2>5, <3>1
    <3>2. CASE i \in 1..n /\ j = n + 1
      BY <2>1, <2>2, <2>3, <2>5, <3>2
    <3>3. CASE i \in 1..n /\ j \in i..n
      BY <2>2, <2>5, <3>3 DEF QueueInv
    <3> QED
      BY <2>2, <3>1, <3>2, <3>3
  <2> QED
    BY <2>4, <2>5 DEF QueueInv
<1>2. ASSUME RecvConfigEvent PROVE QueueInv'
  <2>1. /\ Len(configEvents) \in Nat /\ Len(configEvents') = Len(configEvents) - 1
        /\ \A i \in 1..Len(configEvents') : configEvents'[i] = configEvents[i + 1]
        /\ retired' = retired
    BY <1>2 DEF RecvConfigEvent
  <2>2. \A i \in 1..Len(configEvents') : i + 1 \in 1..Len(configEvents)
    BY <2>1
  <2>3. \A i \in 1..Len(configEvents'), j \in 1..Len(configEvents') :
          j \in i..Len(configEvents') => j + 1 \in i + 1..Len(configEvents)
    BY <2>1
  <2>4. \A i \in 1..Len(configEvents') : \A j \in i..Len(configEvents') :
          j \in 1..Len(configEvents')
    BY <2>1
  <2> QED
    BY <2>1, <2>2, <2>3, <2>4 DEF QueueInv
<1>3. CASE UNCHANGED <<configEvents, retired>>
  BY <1>3 DEF QueueInv
<1>4. ASSUME ~ \E ev \in ConfigEvents : SendConfigEvent(ev), ~RecvConfigEvent
      PROVE  UNCHANGED <<configEvents, retired>>
  BY <1>4 DEF Next, Schedule, BecomeDue, TimerFires, RecvEvent, SelectCtxDone,
    AbandonSend, PopDue, Work, SendJob, FinishCheck, AbortCheck, Report, ExitWorker,
    CloseResults, Consume, ReceiveResult, Handle, DropEvent, ExitConsumer, Shutdown,
    Signal, StopCall, StopDeadline, StopReturn, Terminated, vars, serviceVars
<1> QED
  BY <1>1, <1>2, <1>3, <1>4

\* The steps of the ring proper leave everything else of FlightInv alone.
LEMMA FlightRing ==
  ASSUME TypeInv, FlightInv,
         Carry \/ DropEvent
  PROVE  FlightInv'
<1>1. \A c \in Configs : Alone(c)' /\ (UnderWay(c)' => UnderWay(c))
  <2>1. CASE Carry
    BY <2>1, RingFlow DEF FlightInv, CarriesOn
  <2>2. CASE DropEvent
    BY <2>2, RingEnd DEF FlightInv, DropEvent
  <2> QED
    BY <2>1, <2>2
<1>2. UNCHANGED <<states, inFlight, heap, configEvents, retired>>
  BY DEF Carry, Work, SendJob, FinishCheck, AbortCheck, Report, ExitWorker, CloseResults,
    ReceiveResult, Handle, DropEvent, ExitConsumer, mapVars, serviceVars
<1> QED
  BY <1>1, <1>2 DEF FlightInv, Scheduled

\* The steps that neither move a job nor touch the map or the queue.
LEMMA FlightStill ==
  FlightInv /\ UNCHANGED <<states, inFlight, heap, sending, worker, results,
                           consumer, configEvents, retired>>
  => FlightInv'
<1> SUFFICES ASSUME FlightInv, UNCHANGED <<states, inFlight, heap, sending, worker,
                      results, consumer, configEvents, retired>>
             PROVE  FlightInv'
  OBVIOUS
<1>1. \A c \in Configs : (Alone(c)' <=> Alone(c)) /\ (UnderWay(c)' <=> UnderWay(c))
  BY RingStill
<1> QED
  BY <1>1 DEF FlightInv, Scheduled

LEMMA FlightStep ==
  ~Revival /\ TypeInv /\ QueueInv /\ FlightInv /\ [Next]_vars => FlightInv'
<1> SUFFICES ASSUME ~Revival, TypeInv, QueueInv, FlightInv, [Next]_vars PROVE FlightInv'
  OBVIOUS
<1> USE DEF TypeInv, TypeOK
<1>1. ASSUME RecvEvent PROVE FlightInv'
  <2>0. consumer.job.cfg \in Configs /\ AtConsume(consumer.job.cfg)
    BY <1>1 DEF RecvEvent, RingTypeOK, Jobs, AtConsume
  <2>1. PICK d \in Configs : d = consumer.job.cfg /\ AtConsume(d)
    BY <2>0
  <2> DEFINE o == states[d]
  <2>2. ASSUME NEW c \in Configs
        PROVE  /\ Alone(c)' /\ (UnderWay(c)' => UnderWay(c))
               /\ ~UnderWay(d)'
    BY <1>1, <2>1, RingEnd DEF RecvEvent, FlightInv
  <2>3. UNCHANGED <<states, configEvents, retired>>
    BY <1>1 DEF RecvEvent, serviceVars
  <2>4. CASE o = NoObj
    <3>1. UNCHANGED <<inFlight, heap>>
      BY <1>1, <2>1, <2>4 DEF RecvEvent
    <3> QED
      BY <2>1, <2>2, <2>3, <2>4, <3>1 DEF FlightInv, Scheduled
  <2>5. CASE o # NoObj
    <3>1. o \in Objs /\ inFlight' = inFlight \ {o} /\ heap' = [heap EXCEPT ![o] = @ + 1]
      BY <1>1, <2>1, <2>5 DEF RecvEvent, MapTypeOK
    <3>2. o \in inFlight /\ heap[o] = 0
      BY <2>1, <2>5 DEF FlightInv, Scheduled, UnderWay
    <3>3. \A c \in Configs : Scheduled(c) /\ states[c] = o => c = d
      BY <2>1, <2>5 DEF Coherent, Scheduled
    <3>4. heap \in [Objs -> Nat] /\ \A c \in Configs : Scheduled(c) => states[c] \in Objs
      BY DEF MapTypeOK, Scheduled
    <3>5. o = states[d]
      OBVIOUS
    <3> HIDE DEF o
    <3>6. heap'[o] = 1 /\ \A p \in Objs : p # o => heap'[p] = heap[p]
      BY <3>1, <3>2, <3>4
    <3>7. \A c \in Configs : Scheduled(c) =>
            /\ UnderWay(c)' => states[c] \in inFlight'
            /\ heap'[states[c]] = IF states[c] \in inFlight' THEN 0 ELSE 1
      <4>1. ASSUME NEW c \in Configs, c # d, Scheduled(c)
            PROVE  /\ UnderWay(c)' => states[c] \in inFlight'
                   /\ heap'[states[c]] = IF states[c] \in inFlight' THEN 0 ELSE 1
        BY <2>2, <3>1, <3>3, <3>4, <3>6, <4>1 DEF FlightInv
      <4>2. ~UnderWay(d)'
        BY <2>1, <2>2
      <4> QED
        BY <3>1, <3>5, <3>6, <4>1, <4>2
    <3>8. \A p \in Objs : heap'[p] > 0 => \E c \in Configs : states[c] = p
      BY <2>1, <3>5, <3>6 DEF FlightInv
    <3> QED
      BY <2>1, <2>2, <2>3, <3>7, <3>8 DEF FlightInv, Scheduled
  <2> QED
    BY <2>4, <2>5
<1>2. ASSUME RecvConfigEvent PROVE FlightInv'
  <2> DEFINE ev == Head(configEvents)
             d == ev.cfg
  <2>1. ev = configEvents[1] /\ ev \in ConfigEvents /\ 1 \in 1..Len(configEvents)
    BY <1>2 DEF RecvConfigEvent, ServiceTypeOK
  <2>2. d \in Configs
    BY <2>1 DEF ConfigEvents
  <2>3. /\ Len(configEvents) \in Nat /\ Len(configEvents') = Len(configEvents) - 1
        /\ \A i \in 1..Len(configEvents') : configEvents'[i] = configEvents[i + 1]
    BY <1>2 DEF RecvConfigEvent, ServiceTypeOK
  <2>4. UNCHANGED <<retired, sending, results, worker, consumer>>
    BY <1>2 DEF RecvConfigEvent, ringVars
  <2>5. \A c \in Configs : (Alone(c)' <=> Alone(c)) /\ (UnderWay(c)' <=> UnderWay(c))
    BY <2>4, RingStill
  <2>6. ApplyConfigEvent(ev)
    BY <1>2 DEF RecvConfigEvent
  <2>7. \A i \in 1..Len(configEvents') : i + 1 \in 1..Len(configEvents)
    BY <2>3
  <2>8. \A c \in Configs : UnderWay(c)' /\ states[c] = NoObj =>
          /\ c \in retired'
          /\ \A i \in 1..Len(configEvents') :
               configEvents'[i].cfg = c => configEvents'[i].type = "deleted"
    BY <2>3, <2>4, <2>5, <2>7 DEF FlightInv, Scheduled
  <2>9. \A c \in Configs : states[c] # NoObj => states[c] \in Objs
    BY DEF MapTypeOK
  <2> HIDE DEF ev, d
  <2>10. CASE Adopt(ev)
    <3>1. PICK o \in Objs :
            /\ ~Live(o)
            /\ states' = [states EXCEPT ![d] = o]
            /\ inFlight' = inFlight \ {o}
            /\ heap' = [heap EXCEPT ![o] = @ + 1]
      BY <2>10 DEF Adopt, d
    <3>2. states[d] = NoObj /\ ev.type # "deleted"
      BY <2>10 DEF Adopt, Scheduled, d
    <3>3. ~UnderWay(d)
      BY <2>1, <2>2, <3>2 DEF FlightInv, Scheduled, d
    <3>4. heap[o] = 0 /\ \A c \in Configs : states[c] # o
      BY <3>1 DEF Live, MapTypeOK
    <3>5. /\ heap'[o] = 1 /\ \A p \in Objs : p # o => heap'[p] = heap[p]
          /\ states'[d] = o /\ \A c \in Configs : c # d => states'[c] = states[c]
      BY <2>2, <3>1, <3>4 DEF MapTypeOK
    <3>6. o # NoObj
      OBVIOUS
    <3>7. \A c \in Configs : Scheduled(c)' =>
            /\ UnderWay(c)' => states'[c] \in inFlight'
            /\ heap'[states'[c]] = IF states'[c] \in inFlight' THEN 0 ELSE 1
      <4>1. ASSUME NEW c \in Configs, c # d, states[c] # NoObj
            PROVE  /\ UnderWay(c)' => states[c] \in inFlight'
                   /\ heap'[states[c]] = IF states[c] \in inFlight' THEN 0 ELSE 1
        BY <2>5, <2>9, <3>1, <3>4, <3>5, <4>1 DEF FlightInv, Scheduled
      <4> QED
        BY <2>5, <3>1, <3>3, <3>5, <4>1 DEF Scheduled
    <3>8. \A p \in Objs : heap'[p] > 0 => \E c \in Configs : states'[c] = p
      BY <2>2, <3>2, <3>5 DEF FlightInv
    <3> QED
      BY <2>2, <2>5, <2>8, <3>5, <3>6, <3>7, <3>8 DEF FlightInv, Scheduled
  <2>11. CASE Retarget(ev) \/ DropUnknown(ev)
    <3>1. UNCHANGED <<states, inFlight, heap>>
      BY <2>11 DEF Retarget, DropUnknown, mapVars
    <3> QED
      BY <2>5, <2>8, <3>1 DEF FlightInv, Scheduled
  <2>12. CASE Drop(ev)
    <3> DEFINE o == states[d]
    <3>1. /\ o # NoObj /\ o \in Objs /\ ev.type = "deleted"
          /\ states' = [states EXCEPT ![d] = NoObj]
          /\ heap' = IF o \in inFlight THEN heap ELSE [heap EXCEPT ![o] = @ - 1]
          /\ UNCHANGED inFlight
      BY <2>2, <2>9, <2>12 DEF Drop, Scheduled, d
    <3>2. \A c \in Configs : states[c] = o => c = d
      BY <2>2, <3>1 DEF Coherent, Scheduled
    <3>3. heap[o] = IF o \in inFlight THEN 0 ELSE 1
      BY <2>2, <3>1 DEF FlightInv, Scheduled
    <3>4. o = states[d]
      OBVIOUS
    <3> HIDE DEF o
    <3>5. heap'[o] = 0 /\ \A p \in Objs : p # o => heap'[p] = heap[p]
      BY <3>1, <3>3 DEF MapTypeOK
    <3>6. states'[d] = NoObj /\ \A c \in Configs : c # d => states'[c] = states[c]
      BY <2>2, <3>1 DEF MapTypeOK
    <3>7. \A c \in Configs : Scheduled(c)' =>
            /\ UnderWay(c)' => states'[c] \in inFlight'
            /\ heap'[states'[c]] = IF states'[c] \in inFlight' THEN 0 ELSE 1
      BY <2>5, <2>9, <3>1, <3>2, <3>5, <3>6 DEF FlightInv, Scheduled
    <3>8. \A p \in Objs : heap'[p] > 0 => \E c \in Configs : states'[c] = p
      BY <2>2, <3>4, <3>5, <3>6 DEF FlightInv
    <3>9. /\ d \in retired
          /\ \A j \in 1..Len(configEvents) :
               configEvents[j].cfg = d => configEvents[j].type = "deleted"
      BY <2>1, <3>1 DEF QueueInv, d
    <3>10. \A i \in 1..Len(configEvents') :
             configEvents'[i].cfg = d => configEvents'[i].type = "deleted"
      BY <2>3, <2>7, <3>9
    <3> QED
      BY <2>4, <2>5, <2>8, <3>6, <3>7, <3>8, <3>9, <3>10 DEF FlightInv, Scheduled
  <2> QED
    BY <2>6, <2>10, <2>11, <2>12 DEF ApplyConfigEvent
<1>3. ASSUME NEW o \in Objs, PopDue(o) PROVE FlightInv'
  <2>1. heap[o] > 0 /\ Live(o) /\ sending = NoJob
    BY <1>3 DEF PopDue, MapTypeOK, RingTypeOK, Live
  <2>2. PICK d \in Configs : states[d] = o
    BY <2>1 DEF FlightInv
  <2>3. Scheduled(d) /\ checkJob[o].cfg = d /\ checkJob[o] # NoJob
    BY <2>2 DEF Coherent, Scheduled
  <2>4. /\ heap' = [heap EXCEPT ![o] = @ - 1] /\ inFlight' = inFlight \cup {o}
        /\ sending' = checkJob[o]
        /\ UNCHANGED <<states, worker, results, consumer, configEvents, retired>>
    BY <1>3 DEF PopDue, ringVars, serviceVars
  <2>5. heap[o] = 1 /\ o \notin inFlight /\ ~UnderWay(d)
    BY <2>1, <2>2, <2>3 DEF FlightInv
  <2>6. heap'[o] = 0 /\ \A p \in Objs : p # o => heap'[p] = heap[p]
    BY <2>4, <2>5 DEF MapTypeOK
  <2>7. \A c \in Configs :
          /\ AtSend(c)' <=> c = d
          /\ AtConsume(c)' <=> AtConsume(c)
          /\ \A w \in Workers : AtWorker(w, c)' <=> AtWorker(w, c)
          /\ \A i \in Nat : AtResult(i, c)' <=> AtResult(i, c)
    BY <2>3, <2>4 DEF AtSend, AtConsume, AtWorker, AtResult
  <2>8. \A c \in Configs : Alone(c)' /\ (c # d => (UnderWay(c)' => UnderWay(c)))
    BY <2>5, <2>7 DEF Alone, UnderWay, FlightInv
  <2>9. \A c \in Configs : Scheduled(c) => states[c] \in Objs /\ (c # d => states[c] # o)
    BY <2>3 DEF MapTypeOK, Scheduled, Coherent
  <2>10. \A c \in Configs : Scheduled(c) =>
           /\ UnderWay(c)' => states[c] \in inFlight'
           /\ heap'[states[c]] = IF states[c] \in inFlight' THEN 0 ELSE 1
    BY <2>2, <2>4, <2>6, <2>8, <2>9 DEF FlightInv
  <2>11. \A p \in Objs : heap'[p] > 0 => \E c \in Configs : states[c] = p
    BY <2>6 DEF FlightInv
  <2> QED
    BY <2>3, <2>4, <2>8, <2>10, <2>11 DEF FlightInv, Scheduled
<1>4. ASSUME AbandonSend PROVE FlightInv'
  <2>1. \A c \in Configs :
          /\ ~AtSend(c)'
          /\ AtConsume(c)' <=> AtConsume(c)
          /\ \A w \in Workers : AtWorker(w, c)' <=> AtWorker(w, c)
          /\ \A i \in Nat : AtResult(i, c)' <=> AtResult(i, c)
    BY <1>4 DEF AbandonSend, ringVars, AtSend, AtConsume, AtWorker, AtResult
  <2>2. \A c \in Configs : Alone(c)' /\ (UnderWay(c)' => UnderWay(c))
    BY <2>1 DEF Alone, UnderWay, FlightInv
  <2>3. UNCHANGED <<states, inFlight, heap, configEvents, retired>>
    BY <1>4 DEF AbandonSend, mapVars, serviceVars
  <2> QED
    BY <2>2, <2>3 DEF FlightInv, Scheduled
<1>5. ASSUME NEW ev \in ConfigEvents, SendConfigEvent(ev) PROVE FlightInv'
  <2>1. UNCHANGED <<states, inFlight, heap, sending, worker, results, consumer>>
    BY <1>5 DEF SendConfigEvent, mapVars, ringVars
  <2>2. \A c \in Configs : (Alone(c)' <=> Alone(c)) /\ (UnderWay(c)' <=> UnderWay(c))
    BY <2>1, RingStill
  <2>3. /\ configEvents' = Append(configEvents, ev) /\ retired \subseteq retired'
        /\ ev.cfg \in retired => ev.type = "deleted"
    BY <1>5 DEF SendConfigEvent
  <2>4. /\ Len(configEvents) \in Nat /\ Len(configEvents') = Len(configEvents) + 1
        /\ configEvents'[Len(configEvents')] = ev
        /\ \A i \in 1..Len(configEvents) : configEvents'[i] = configEvents[i]
    BY <2>3 DEF ServiceTypeOK
  <2>5. \A i \in 1..Len(configEvents') :
          i \in 1..Len(configEvents) \/ i = Len(configEvents')
    BY <2>4
  <2>6. \A c \in Configs : UnderWay(c)' /\ ~Scheduled(c) =>
          /\ c \in retired'
          /\ \A i \in 1..Len(configEvents') :
               configEvents'[i].cfg = c => configEvents'[i].type = "deleted"
    BY <2>2, <2>3, <2>4, <2>5 DEF FlightInv
  <2> QED
    BY <2>1, <2>2, <2>6 DEF FlightInv, Scheduled
<1>6. ASSUME \/ \E o \in Objs : BecomeDue(o)
             \/ TimerFires \/ SelectCtxDone \/ Shutdown \/ UNCHANGED vars
      PROVE  FlightInv'
  BY <1>6, FlightStill DEF BecomeDue, TimerFires, SelectCtxDone, Shutdown, Signal,
    StopCall, StopDeadline, StopReturn, vars, mapVars, ringVars, serviceVars
<1> QED
  BY <1>1, <1>2, <1>3, <1>4, <1>5, <1>6, FlightRing
  DEF Next, Schedule, Terminated, Consume, Carry

LEMMA FlightInit == Init => QueueInv /\ FlightInv
<1> SUFFICES ASSUME Init PROVE QueueInv /\ FlightInv
  OBVIOUS
<1>1. QueueInv
  BY DEF Init, QueueInv
<1>2. \A c \in Configs : ~UnderWay(c) /\ Alone(c)
  BY DEF Init, UnderWay, Alone, AtSend, AtConsume, AtWorker, AtResult, Idle, Receiving
<1>3. \A c \in Configs : Scheduled(c) => states[c] \in Objs
  BY DEF Init, Scheduled
<1> QED
  BY <1>1, <1>2, <1>3 DEF Init, FlightInv, Scheduled

\* SingleFlight and Outstanding in the terms of this module.
LEMMA PlacesOf ==
  ASSUME RingTypeOK
  PROVE  /\ (\A c \in Configs : Alone(c)) => SingleFlight
         /\ \A c \in Configs : c \in Outstanding <=> UnderWay(c)
         /\ Outstanding \subseteq Configs
<1>1. ASSUME NEW p \in Taken
      PROVE  /\ JobAt(p).cfg \in Configs
             /\ \/ p = <<"send", 0>> /\ AtSend(JobAt(p).cfg)
                \/ p = <<"consume", 0>> /\ AtConsume(JobAt(p).cfg)
                \/ \E w \in Workers : p = <<"work", w>> /\ AtWorker(w, JobAt(p).cfg)
                \/ \E i \in Nat : p = <<"result", i>> /\ AtResult(i, JobAt(p).cfg)
  <2>1. p \in Places /\ JobAt(p) # NoJob
    BY DEF Taken
  <2>2. CASE p = <<"send", 0>>
    BY <2>1, <2>2 DEF JobAt, AtSend, RingTypeOK, Jobs
  <2>3. CASE p = <<"consume", 0>>
    BY <2>1, <2>3 DEF JobAt, AtConsume, RingTypeOK, Jobs
  <2>4. ASSUME NEW w \in Workers, p = <<"work", w>>
        PROVE  JobAt(p).cfg \in Configs /\ AtWorker(w, JobAt(p).cfg)
    BY <2>1, <2>4 DEF JobAt, AtWorker, RingTypeOK, Jobs
  <2>5. ASSUME NEW i \in DOMAIN results, p = <<"result", i>>
        PROVE  i \in Nat /\ JobAt(p).cfg \in Configs /\ AtResult(i, JobAt(p).cfg)
    <3>1. i \in 1..Len(results) /\ results[i] \in Results
      BY DEF RingTypeOK
    <3> QED
      BY <2>5, <3>1 DEF JobAt, AtResult, RingTypeOK, Results, Jobs
  <2>6. \/ p = <<"send", 0>> \/ p = <<"consume", 0>>
        \/ \E w \in Workers : p = <<"work", w>>
        \/ \E i \in DOMAIN results : p = <<"result", i>>
    BY <2>1 DEF Places
  <2> QED
    BY <2>2, <2>3, <2>4, <2>5, <2>6
<1>2. (\A c \in Configs : Alone(c)) => SingleFlight
  BY <1>1 DEF SingleFlight, Alone
<1>3. ASSUME NEW c \in Configs PROVE c \in Outstanding => UnderWay(c)
  BY <1>1 DEF Outstanding, UnderWay
<1>4. ASSUME NEW c \in Configs, UnderWay(c) PROVE c \in Outstanding
  <2>1. CASE AtSend(c)
    <3>1. <<"send", 0>> \in Taken /\ JobAt(<<"send", 0>>) = sending
      BY <2>1 DEF Taken, Places, JobAt, AtSend
    <3> QED
      BY <2>1, <3>1 DEF Outstanding, AtSend
  <2>2. CASE AtConsume(c)
    <3>1. <<"consume", 0>> \in Taken /\ JobAt(<<"consume", 0>>) = consumer.job
      BY <2>2 DEF Taken, Places, JobAt, AtConsume
    <3> QED
      BY <2>2, <3>1 DEF Outstanding, AtConsume
  <2>3. ASSUME NEW w \in Workers, AtWorker(w, c) PROVE c \in Outstanding
    <3>1. <<"work", w>> \in Taken /\ JobAt(<<"work", w>>) = worker[w].job
      BY <2>3 DEF Taken, Places, JobAt, AtWorker
    <3> QED
      BY <2>3, <3>1 DEF Outstanding, AtWorker
  <2>4. ASSUME NEW i \in Nat, AtResult(i, c) PROVE c \in Outstanding
    <3>1. i \in DOMAIN results /\ results[i].job # NoJob
      <4>1. i \in DOMAIN results /\ results[i] \in Results
        BY <2>4 DEF AtResult, RingTypeOK
      <4> QED
        BY <4>1 DEF Results, Jobs
    <3>2. <<"result", i>> \in Taken /\ JobAt(<<"result", i>>) = results[i].job
      BY <3>1 DEF Taken, Places, JobAt
    <3> QED
      BY <2>4, <3>2 DEF Outstanding, AtResult
  <2> QED
    BY <1>4, <2>1, <2>2, <2>3, <2>4 DEF UnderWay
<1>5. Outstanding \subseteq Configs
  BY <1>1 DEF Outstanding
<1> QED
  BY <1>2, <1>3, <1>4, <1>5

LEMMA FlightCorrect == ~Revival => (Spec => [](TypeInv /\ QueueInv /\ FlightInv))
<1> SUFFICES ASSUME ~Revival PROVE Spec => [](TypeInv /\ QueueInv /\ FlightInv)
  OBVIOUS
<1> QED
  BY TypeInit, FlightInit, TypeStep, QueueStep, FlightStep, PTL DEF Spec

\* When no config id is used again after it was dropped, a config has at most
\* one check on its way: no two workers check it at once.
THEOREM OneFlight == ~Revival => (Spec => []SingleFlight)
<1> SUFFICES ASSUME ~Revival PROVE Spec => []SingleFlight
  OBVIOUS
<1>1. TypeInv /\ FlightInv => SingleFlight
  BY PlacesOf DEF TypeInv, TypeOK, FlightInv
<1> QED
  BY FlightCorrect, <1>1, PTL

\* Under the same condition, what is in the heap belongs to a scheduled config.
THEOREM RemovedDropped == ~Revival => (Spec => []RemovedAreDropped)
<1> SUFFICES ASSUME ~Revival PROVE Spec => []RemovedAreDropped
  OBVIOUS
<1>1. TypeInv /\ FlightInv => RemovedAreDropped
  BY DEF TypeInv, FlightInv, Coherent, Scheduled, RemovedAreDropped
<1> QED
  BY FlightCorrect, <1>1, PTL

-----------------------------------------------------------------------------
(* No config is lost, whether or not config ids are used again.              *)

\* Until shutdown, a scheduled config in flight has a check under way.
KeptInv ==
  ~DispatchCtxDone =>
    \A c \in Configs : Scheduled(c) /\ states[c] \in inFlight => UnderWay(c)

\* The dispatch context stays done.
LEMMA CtxDoneStays == TypeInv /\ [Next]_vars /\ DispatchCtxDone => DispatchCtxDone'
<1> SUFFICES ASSUME TypeInv, [Next]_vars, DispatchCtxDone PROVE DispatchCtxDone'
  OBVIOUS
<1>1. CASE Shutdown
  BY <1>1 DEF Shutdown, Signal, StopCall, StopDeadline, StopReturn, DispatchCtxDone
<1>2. CASE UNCHANGED stopVars
  BY <1>2 DEF DispatchCtxDone, stopVars
<1>3. ASSUME ~Shutdown PROVE UNCHANGED stopVars
  BY <1>3 DEF Next, Schedule, BecomeDue, TimerFires, RecvEvent, RecvConfigEvent,
    SelectCtxDone, AbandonSend, PopDue, Work, SendJob, FinishCheck, AbortCheck, Report,
    ExitWorker, CloseResults, Consume, ReceiveResult, Handle, DropEvent, ExitConsumer,
    SendConfigEvent, Terminated, vars, stopVars
<1> QED
  BY <1>1, <1>2, <1>3

LEMMA KeptStep == TypeInv /\ KeptInv /\ [Next]_vars => KeptInv'
<1> SUFFICES ASSUME TypeInv, KeptInv, [Next]_vars, ~DispatchCtxDone',
                    NEW c \in Configs, Scheduled(c)', (states[c] \in inFlight)'
             PROVE  UnderWay(c)'
  BY DEF KeptInv
<1> USE DEF TypeInv, TypeOK
<1>1. ~DispatchCtxDone
  BY CtxDoneStays
<1>2. Scheduled(c) /\ states[c] \in inFlight => UnderWay(c)
  BY <1>1 DEF KeptInv
<1>3. CASE Carry
  <2>1. UNCHANGED <<states, inFlight>>
    BY <1>3 DEF Carry, Work, SendJob, FinishCheck, AbortCheck, Report, ExitWorker,
      CloseResults, ReceiveResult, Handle, ExitConsumer, mapVars
  <2> QED
    BY <1>2, <1>3, <2>1, RingFlow DEF CarriesOn, Scheduled
<1>4. CASE RecvEvent
  <2>1. consumer.job.cfg \in Configs /\ consumer.job # NoJob
    BY <1>4 DEF RecvEvent, RingTypeOK, Jobs
  <2>2. states' = states
    BY <1>4 DEF RecvEvent
  <2>3. consumer.job.cfg # c /\ states[c] \in inFlight
    <3>1. CASE states[consumer.job.cfg] = NoObj
      BY <1>4, <2>2, <3>1 DEF RecvEvent, Scheduled
    <3>2. CASE states[consumer.job.cfg] # NoObj
      BY <1>4, <2>2, <3>2 DEF RecvEvent
    <3> QED
      BY <3>1, <3>2
  <2>4. ~AtConsume(c)
    BY <2>3 DEF AtConsume
  <2> QED
    BY <1>2, <1>4, <2>2, <2>3, <2>4, RingEnd DEF RecvEvent, Scheduled
<1>5. CASE RecvConfigEvent
  <2> DEFINE ev == Head(configEvents)
  <2>1. ev.cfg \in Configs /\ ApplyConfigEvent(ev)
    BY <1>5 DEF RecvConfigEvent, ServiceTypeOK, ConfigEvents
  <2>2. UNCHANGED <<sending, results, worker, consumer>>
    BY <1>5 DEF RecvConfigEvent, ringVars
  <2> HIDE DEF ev
  <2>3. Scheduled(c) /\ states[c] \in inFlight
    <3>1. CASE Adopt(ev)
      BY <2>1, <3>1 DEF Adopt, MapTypeOK, Scheduled
    <3>2. CASE Retarget(ev)
      BY <3>2 DEF Retarget, Scheduled
    <3>3. CASE Drop(ev)
      BY <2>1, <3>3 DEF Drop, MapTypeOK, Scheduled
    <3>4. CASE DropUnknown(ev)
      BY <3>4 DEF DropUnknown, mapVars, Scheduled
    <3> QED
      BY <2>1, <3>1, <3>2, <3>3, <3>4 DEF ApplyConfigEvent
  <2> QED
    BY <1>2, <2>2, <2>3, RingStill
<1>6. ASSUME NEW o \in Objs, PopDue(o) PROVE UnderWay(c)'
  <2>1. /\ sending = NoJob /\ sending' = checkJob[o] /\ inFlight' = inFlight \cup {o}
        /\ UNCHANGED <<states, worker, results, consumer>>
    BY <1>6 DEF PopDue, RingTypeOK, ringVars
  <2>2. CASE states[c] = o
    <3>1. checkJob[o] # NoJob /\ checkJob[o].cfg = c
      BY <2>1, <2>2 DEF Coherent, Scheduled
    <3> QED
      BY <2>1, <3>1 DEF UnderWay, AtSend
  <2>3. CASE states[c] # o
    <3>1. UnderWay(c) /\ ~AtSend(c)
      BY <1>2, <2>1, <2>3 DEF Scheduled, AtSend
    <3>2. /\ AtConsume(c)' <=> AtConsume(c)
          /\ \A w \in Workers : AtWorker(w, c)' <=> AtWorker(w, c)
          /\ \A i \in Nat : AtResult(i, c)' <=> AtResult(i, c)
      BY <2>1 DEF AtConsume, AtWorker, AtResult
    <3> QED
      BY <3>1, <3>2 DEF UnderWay
  <2> QED
    BY <2>2, <2>3
<1>7. CASE AbandonSend \/ DropEvent
  BY <1>1, <1>7 DEF AbandonSend, DropEvent
<1>8. CASE \/ \E o \in Objs : BecomeDue(o)
           \/ TimerFires \/ SelectCtxDone \/ Shutdown
           \/ \E ev \in ConfigEvents : SendConfigEvent(ev)
           \/ UNCHANGED vars
  <2>1. UNCHANGED <<states, inFlight, sending, worker, results, consumer>>
    BY <1>8 DEF BecomeDue, TimerFires, SelectCtxDone, Shutdown, Signal, StopCall,
      StopDeadline, StopReturn, SendConfigEvent, vars, mapVars, ringVars
  <2> QED
    BY <1>2, <2>1, RingStill DEF Scheduled
<1> QED
  BY <1>3, <1>4, <1>5, <1>6, <1>7, <1>8 DEF Next, Schedule, Consume, Carry, Terminated

\* Until shutdown every scheduled config is in the heap or under way, in every
\* mode: with config ids used again a config may be checked twice at once, but
\* still none is lost.
THEOREM NothingLost == Spec => []NoConfigLost
<1>1. Init => KeptInv
  BY DEF Init, KeptInv
<1>2. TypeInv /\ KeptInv => NoConfigLost
  BY PlacesOf DEF TypeInv, TypeOK, Coherent, KeptInv, NoConfigLost
<1> QED
  BY TypeInit, TypeStep, KeptStep, <1>1, <1>2, PTL DEF Spec

-----------------------------------------------------------------------------
(* The ring of blocking sends.                                               *)

\* The ring has 2W+2 places when the results channel is full.
LEMMA PlacesCount ==
  ASSUME RingTypeOK, Len(results) = ResultsCap
  PROVE  IsFiniteSet(Places) /\ Cardinality(Places) = 2 * Cardinality(Workers) + 2
<1> DEFINE W == Cardinality(Workers)
           Ends == {<<"send", 0>>, <<"consume", 0>>}
           Works == {"work"} \X Workers
           Slots == {"result"} \X DOMAIN results
<1>1. W \in Nat /\ DOMAIN results = 1..W
  BY FS_CardinalityType DEF RingTypeOK, ResultsCap
<1>2. IsFiniteSet(Ends) /\ Cardinality(Ends) = 2
  <2> DEFINE S == {<<"send", 0>>}
  <2>1. IsFiniteSet(S) /\ Cardinality(S) = 1
    BY FS_Singleton
  <2>2. Ends = S \cup {<<"consume", 0>>} /\ <<"consume", 0>> \notin S
    OBVIOUS
  <2> HIDE DEF S, Ends
  <2>3. /\ IsFiniteSet(S \cup {<<"consume", 0>>})
        /\ Cardinality(S \cup {<<"consume", 0>>}) = Cardinality(S) + 1
    BY <2>1, <2>2, FS_AddElement
  <2> QED
    BY <2>1, <2>2, <2>3
<1>3. ASSUME NEW k, NEW T, IsFiniteSet(T), Cardinality(T) = W
      PROVE  IsFiniteSet({k} \X T) /\ Cardinality({k} \X T) = W
  <2>1. IsFiniteSet({k}) /\ Cardinality({k}) = 1
    BY FS_Singleton
  <2>2. IsFiniteSet({k} \X T) /\ Cardinality({k} \X T) = Cardinality({k}) * Cardinality(T)
    BY <1>3, <2>1, FS_Product
  <2> HIDE DEF W
  <2> QED
    BY <1>1, <1>3, <2>1, <2>2
<1>4. /\ IsFiniteSet(Works) /\ Cardinality(Works) = W
      /\ IsFiniteSet(Slots) /\ Cardinality(Slots) = W
  <2>1. IsFiniteSet(1..W) /\ Cardinality(1..W) = W
    BY <1>1, FS_Interval
  <2> QED
    BY <1>1, <1>3, <2>1
<1>5. Ends \cap Works = {} /\ (Ends \cup Works) \cap Slots = {}
  OBVIOUS
<1>6. Places = (Ends \cup Works) \cup Slots
  BY DEF Places
<1> HIDE DEF Ends, Works, Slots, W
<1>7. /\ IsFiniteSet(Ends \cup Works)
      /\ Cardinality(Ends \cup Works) = 2 + W - Cardinality(Ends \cap Works)
  BY <1>2, <1>4, FS_Union
<1>8. Cardinality(Ends \cup Works) = 2 + W
  <2>1. Cardinality(Ends \cap Works) = 0
    BY <1>5, FS_EmptySet
  <2> QED
    BY <1>1, <1>7, <2>1
<1>9. /\ IsFiniteSet(Places)
      /\ Cardinality(Places) = 2 + W + W - Cardinality((Ends \cup Works) \cap Slots)
  BY <1>4, <1>6, <1>7, <1>8, FS_Union
<1>10. Cardinality(Places) = 2 + W + W
  <2>1. Cardinality((Ends \cup Works) \cap Slots) = 0
    BY <1>5, FS_EmptySet
  <2> QED
    BY <1>1, <1>9, <2>1
<1> QED
  BY <1>1, <1>9, <1>10 DEF W

\* When the ring is stuck every one of its places holds a job.
LEMMA StuckIsFull ==
  ASSUME RingTypeOK, PipelineStuck
  PROVE  Taken = Places
<1> SUFFICES ASSUME NEW p \in Places PROVE JobAt(p) # NoJob
  BY DEF Taken
<1>1. sending # NoJob /\ consumer.job # NoJob /\ \A w \in Workers : worker[w].job # NoJob
  BY DEF PipelineStuck, RingTypeOK
<1>2. ASSUME NEW i \in DOMAIN results PROVE results[i].job # NoJob
  <2>1. results[i] \in Results
    BY DEF RingTypeOK
  <2> QED
    BY <2>1 DEF Results, Jobs
<1>3. CASE p = <<"send", 0>>
  BY <1>1, <1>3 DEF JobAt
<1>4. CASE p = <<"consume", 0>>
  BY <1>1, <1>4 DEF JobAt
<1>5. ASSUME NEW w \in Workers, p = <<"work", w>> PROVE JobAt(p) # NoJob
  BY <1>1, <1>5 DEF JobAt
<1>6. ASSUME NEW i \in DOMAIN results, p = <<"result", i>> PROVE JobAt(p) # NoJob
  BY <1>2, <1>6 DEF JobAt
<1> QED
  BY <1>3, <1>4, <1>5, <1>6 DEF Places

\* With at most 2W+1 configs the pipeline cannot lock itself up: a stuck ring
\* holds 2W+2 checks, all of different configs.
THEOREM RingNeverStuck ==
  ASSUME IsFiniteSet(Configs),
         Cardinality(Configs) < 2 * Cardinality(Workers) + 2,
         ~Revival
  PROVE  Spec => []NoPipelineDeadlock
<1>1. TypeInv /\ FlightInv => NoPipelineDeadlock
  <2> SUFFICES ASSUME TypeInv, FlightInv, PipelineStuck PROVE FALSE
    BY DEF NoPipelineDeadlock
  <2> USE DEF TypeInv, TypeOK
  <2>1. Taken = Places /\ SingleFlight
    BY StuckIsFull, PlacesOf DEF FlightInv
  <2>2. IsFiniteSet(Places) /\ Cardinality(Places) = 2 * Cardinality(Workers) + 2
    BY PlacesCount DEF PipelineStuck
  <2> DEFINE cfgAt == [p \in Places |-> JobAt(p).cfg]
  <2>3. cfgAt \in [Places -> Configs]
    <3>1. \A p \in Taken : JobAt(p).cfg \in Outstanding
      BY DEF Outstanding
    <3>2. Outstanding \subseteq Configs
      BY PlacesOf
    <3> QED
      BY <2>1, <3>1, <3>2
  <2>4. PICK p, q \in Places : p # q /\ cfgAt[p] = cfgAt[q]
    <3> HIDE DEF cfgAt
    <3>1. Cardinality(Configs) < Cardinality(Places)
      BY <2>2
    <3> QED
      BY <2>2, <2>3, <3>1, FS_PigeonHole
  <2> QED
    BY <2>1, <2>4 DEF SingleFlight
<1> QED
  BY FlightCorrect, <1>1, PTL

=============================================================================
