--------------------------- MODULE RefinementProofs ---------------------------
(***************************************************************************)
(* Scheduler implements CheckCycle, for any number of configs, workers and *)
(* events, as long as no config id is used again after it was dropped.     *)
(***************************************************************************)
EXTENDS SettlingProofs

USE NoneAssumption, SizeAssumption, ModeAssumption

-----------------------------------------------------------------------------
(* The variables of CheckCycle in the terms of the proofs.                   *)

CheckingAt(w, c) == worker[w].pc = "checking" /\ worker[w].job.cfg = c

\* What RunningVersion chooses: there is nothing to choose among.
RunFacts(c) ==
  /\ AtSend(c) => RunningVersion(c) = sending.ver
  /\ \A w \in Workers : CheckingAt(w, c) => RunningVersion(c) = worker[w].job.ver
  /\ ~AtSend(c) /\ (\A w \in Workers : ~CheckingAt(w, c)) => RunningVersion(c) = NoVersion

\* The variables of CheckCycle as functions.
JobMap == [c \in Configs |-> IF Scheduled(c) THEN checkJob[states[c]].ver ELSE NoVersion]
RunMap == [c \in Configs |-> RunningVersion(c)]

RunsFact == \A c \in Configs : TypeInv /\ Alone(c) => RunFacts(c)
OutFact == TypeInv => Outstanding = {c \in Configs : UnderWay(c)}

LEMMA RunsOf == RunsFact
<1> SUFFICES ASSUME NEW c \in Configs, TypeInv, Alone(c) PROVE RunFacts(c)
  BY DEF RunsFact
<1> USE DEF TypeInv, TypeOK, RingTypeOK
<1>1. \A w \in Workers : CheckingAt(w, c) => AtWorker(w, c)
  BY DEF CheckingAt, AtWorker
<1>2. ASSUME NEW w \in Workers, CheckingAt(w, c)
      PROVE  RunningVersion(c) = worker[w].job.ver
  <2>1. ~AtSend(c) /\ \A v \in Workers : CheckingAt(v, c) => v = w
    BY <1>1, <1>2 DEF Alone
  <2>2. (CHOOSE v \in Workers : worker[v].pc = "checking" /\ worker[v].job.cfg = c) = w
    BY <1>2, <2>1 DEF CheckingAt
  <2> QED
    BY <1>2, <2>1, <2>2 DEF RunningVersion, AtSend, CheckingAt
<1>3. AtSend(c) => RunningVersion(c) = sending.ver
  BY DEF RunningVersion, AtSend
<1>4. ~AtSend(c) /\ (\A w \in Workers : ~CheckingAt(w, c)) => RunningVersion(c) = NoVersion
  BY DEF RunningVersion, AtSend, CheckingAt
<1> QED
  BY <1>2, <1>3, <1>4 DEF RunFacts

LEMMA OutOf == OutFact
BY PlacesOf DEF OutFact, TypeInv, TypeOK

LEMMA FactsNext == RunsFact' /\ OutFact'
BY RunsOf, OutOf, PTL

\* A step that leaves the checks of c where they are, or passes them on.
LEMMA RunSame ==
  ASSUME NEW c \in Configs, RunFacts(c), RunFacts(c)', sending' = sending,
         \A w \in Workers : /\ CheckingAt(w, c)' <=> CheckingAt(w, c)
                            /\ CheckingAt(w, c) => worker'[w].job = worker[w].job
  PROVE  RunningVersion(c)' = RunningVersion(c)
<1>1. AtSend(c)' <=> AtSend(c)
  BY DEF AtSend
<1>2. CASE AtSend(c)
  BY <1>1, <1>2 DEF RunFacts
<1>3. ASSUME NEW w \in Workers, CheckingAt(w, c) PROVE RunningVersion(c)' = RunningVersion(c)
  BY <1>3 DEF RunFacts
<1>4. CASE ~AtSend(c) /\ \A w \in Workers : ~CheckingAt(w, c)
  BY <1>1, <1>4 DEF RunFacts
<1> QED
  BY <1>2, <1>3, <1>4

\* A step after which every config is as it was.
LEMMA CycleStill ==
  ASSUME TypeInv, TypeInv',
         \A c \in Configs : /\ Planned(c)' = Planned(c)
                            /\ RunningVersion(c)' = RunningVersion(c)
                            /\ UnderWay(c)' <=> UnderWay(c)
  PROVE  UNCHANGED Cycle!cycleVars
<1>1. Outstanding' = Outstanding
  BY OutOf, FactsNext DEF OutFact
<1> QED
  BY <1>1 DEF Cycle!cycleVars, Planned

\* A step that moves the config c only.
LEMMA CycleMove ==
  ASSUME TypeInv, TypeInv', NEW c \in Configs, NEW r, NEW u \in BOOLEAN,
         RunningVersion(c)' = r, UnderWay(c)' <=> u,
         \A d \in Configs : Planned(d)' = Planned(d),
         \A d \in Configs \ {c} : /\ RunningVersion(d)' = RunningVersion(d)
                                  /\ UnderWay(d)' <=> UnderWay(d)
  PROVE  /\ JobMap' = JobMap
         /\ RunMap' = [RunMap EXCEPT ![c] = r]
         /\ Outstanding' = IF u THEN Outstanding \cup {c} ELSE Outstanding \ {c}
<1>1. /\ Outstanding = {d \in Configs : UnderWay(d)}
      /\ Outstanding' = {d \in Configs : UnderWay(d)'}
  BY OutOf, FactsNext DEF OutFact
<1>2. Outstanding' = IF u THEN Outstanding \cup {c} ELSE Outstanding \ {c}
  BY <1>1
<1>3. JobMap' = JobMap
  BY DEF JobMap, Planned
<1>4. RunMap' = [RunMap EXCEPT ![c] = r]
  BY DEF RunMap
<1> QED
  BY <1>2, <1>3, <1>4

-----------------------------------------------------------------------------
(* Every step of the scheduler is a step of CheckCycle or none.              *)

CycleStep == [Cycle!CycleNext]_Cycle!cycleVars

\* The steps of the workers, of the consumer and of the closer.
LEMMA CarryStep ==
  ASSUME TypeInv, TypeInv', FlightInv, FlightInv', Carry
  PROVE  CycleStep
<1>1. \A c \in Configs : /\ Planned(c)' = Planned(c)
                         /\ UnderWay(c)' <=> UnderWay(c)
                         /\ RunFacts(c) /\ RunFacts(c)'
  <2>1. UNCHANGED <<states, checkJob>>
    BY DEF Carry, Work, SendJob, FinishCheck, AbortCheck, Report, ExitWorker, CloseResults,
      ReceiveResult, Handle, ExitConsumer, mapVars
  <2>2. \A c \in Configs : Alone(c) /\ Alone(c)'
    BY DEF FlightInv
  <2> QED
    BY <2>1, <2>2, RunsOf, FactsNext, RingFlow DEF RunsFact, CarriesOn, Planned, Scheduled
<1> USE DEF TypeInv, TypeOK, RingTypeOK
<1>2. ASSUME NEW w \in Workers, SendJob(w) PROVE CycleStep
  <2>1. /\ sending # NoJob /\ sending' = NoJob
        /\ worker' = [worker EXCEPT ![w] = [pc |-> "checking", job |-> sending, out |-> "done"]]
        /\ worker[w].pc = "idle"
    BY <1>2 DEF SendJob
  <2>2. ASSUME NEW c \in Configs PROVE RunningVersion(c)' = RunningVersion(c)
    <3>1. ~AtSend(c)'
      BY <2>1 DEF AtSend
    <3>2. CASE sending.cfg = c
      <4>1. CheckingAt(w, c)' /\ worker'[w].job = sending
        BY <2>1, <3>2 DEF CheckingAt
      <4>2. AtSend(c)
        BY <2>1, <3>2 DEF AtSend
      <4> QED
        BY <1>1, <4>1, <4>2 DEF RunFacts
    <3>3. CASE sending.cfg # c
      <4>1. ~AtSend(c)
        BY <3>3 DEF AtSend
      <4>2. \A v \in Workers : /\ CheckingAt(v, c)' <=> CheckingAt(v, c)
                               /\ CheckingAt(v, c) => worker'[v].job = worker[v].job
        BY <2>1, <3>3 DEF CheckingAt
      <4>3. ASSUME NEW v \in Workers, CheckingAt(v, c)
            PROVE  RunningVersion(c)' = RunningVersion(c)
        BY <1>1, <4>2, <4>3 DEF RunFacts
      <4>4. CASE \A v \in Workers : ~CheckingAt(v, c)
        BY <1>1, <3>1, <4>1, <4>2, <4>4 DEF RunFacts
      <4> QED
        BY <4>3, <4>4
    <3> QED
      BY <3>2, <3>3
  <2> QED
    BY <1>1, <2>2, CycleStill DEF CycleStep
<1>3. ASSUME NEW w \in Workers, FinishCheck(w) \/ AbortCheck(w) PROVE CycleStep
  <2>1. /\ worker[w].pc = "checking" /\ worker'[w].pc = "reporting"
        /\ worker'[w].job = worker[w].job
        /\ \A v \in Workers : v # w => worker'[v] = worker[v]
        /\ sending' = sending
    BY <1>3 DEF FinishCheck, AbortCheck
  <2>2. PICK c \in Configs : c = worker[w].job.cfg /\ worker[w].job.ver \in Versions
    <3>1. worker[w].job \in Jobs
      BY <2>1
    <3> QED
      BY <3>1 DEF Jobs
  <2>3. /\ CheckingAt(w, c) /\ AtWorker(w, c) /\ AtWorker(w, c)'
        /\ \A d \in Configs : ~CheckingAt(w, d)'
    BY <2>1, <2>2 DEF CheckingAt, AtWorker
  <2>4. /\ Alone(c)' /\ ~AtSend(c)'
        /\ \A v \in Workers : ~CheckingAt(v, c)'
    <3>1. Alone(c)'
      BY DEF FlightInv
    <3>2. \A v \in Workers : CheckingAt(v, c)' => AtWorker(v, c)'
      BY DEF CheckingAt, AtWorker
    <3> QED
      BY <2>3, <3>1, <3>2 DEF Alone
  <2>5. RunningVersion(c)' = NoVersion /\ RunningVersion(c) # NoVersion
    BY <1>1, <2>2, <2>3, <2>4 DEF RunFacts
  <2>6. ASSUME NEW d \in Configs \ {c} PROVE RunningVersion(d)' = RunningVersion(d)
    <3>1. \A v \in Workers : /\ CheckingAt(v, d)' <=> CheckingAt(v, d)
                             /\ CheckingAt(v, d) => worker'[v].job = worker[v].job
      BY <2>1, <2>2 DEF CheckingAt
    <3> QED
      BY <1>1, <2>1, <3>1, RunSame
  <2>7. UnderWay(c)
    BY <2>3 DEF UnderWay
  <2>8. /\ JobMap' = JobMap /\ RunMap' = [RunMap EXCEPT ![c] = NoVersion]
        /\ Outstanding' = Outstanding
    <3>1. UnderWay(c)' <=> TRUE
      BY <1>1, <2>7
    <3>2. /\ JobMap' = JobMap /\ RunMap' = [RunMap EXCEPT ![c] = NoVersion]
          /\ Outstanding' = IF TRUE THEN Outstanding \cup {c} ELSE Outstanding \ {c}
      BY <1>1, <2>5, <2>6, <3>1, CycleMove
    <3>3. c \in Outstanding
      BY <2>7, OutOf DEF OutFact
    <3> QED
      BY <3>2, <3>3
  <2>9. Cycle!Finish(c)
    BY <2>5, <2>8 DEF Cycle!Finish, JobMap, RunMap
  <2> QED
    BY <2>9 DEF CycleStep, Cycle!CycleNext
<1>4. ASSUME \/ \E w \in Workers : Report(w) \/ ExitWorker(w)
             \/ CloseResults \/ ReceiveResult \/ Handle \/ ExitConsumer
      PROVE  CycleStep
  <2>1. /\ sending' = sending
        /\ \A v \in Workers : /\ worker'[v].pc = "checking" <=> worker[v].pc = "checking"
                              /\ worker[v].pc = "checking" => worker'[v].job = worker[v].job
    <3>1. ASSUME NEW w \in Workers, Report(w) \/ ExitWorker(w)
          PROVE  /\ sending' = sending
                 /\ \A v \in Workers :
                      /\ worker'[v].pc = "checking" <=> worker[v].pc = "checking"
                      /\ worker[v].pc = "checking" => worker'[v].job = worker[v].job
      <4>1. /\ sending' = sending /\ worker[w].pc # "checking" /\ worker'[w].pc # "checking"
            /\ \A v \in Workers : v # w => worker'[v] = worker[v]
        BY <3>1 DEF Report, ExitWorker, Idle, Gone
      <4> QED
        BY <4>1
    <3>2. CASE CloseResults \/ ReceiveResult \/ Handle \/ ExitConsumer
      BY <3>2 DEF CloseResults, ReceiveResult, Handle, ExitConsumer
    <3> QED
      BY <1>4, <3>1, <3>2
  <2>2. ASSUME NEW c \in Configs PROVE RunningVersion(c)' = RunningVersion(c)
    <3>1. \A v \in Workers : /\ CheckingAt(v, c)' <=> CheckingAt(v, c)
                             /\ CheckingAt(v, c) => worker'[v].job = worker[v].job
      BY <2>1 DEF CheckingAt
    <3> QED
      BY <1>1, <2>1, <3>1, RunSame
  <2> QED
    BY <1>1, <2>2, CycleStill DEF CycleStep
<1> QED
  BY <1>2, <1>3, <1>4 DEF Carry, Work

\* schedule takes a state off the heap: a check begins.
LEMMA BeginStep ==
  ASSUME TypeInv, TypeInv', FlightInv, FlightInv', NEW o \in Objs, PopDue(o)
  PROVE  CycleStep
<1> USE DEF TypeInv, TypeOK, RingTypeOK
<1>1. heap[o] > 0 /\ sending = NoJob
  BY DEF PopDue, MapTypeOK
<1>2. PICK c \in Configs : states[c] = o
  BY <1>1 DEF FlightInv
<1>3. /\ Scheduled(c) /\ checkJob[o].cfg = c /\ checkJob[o] \in Jobs /\ checkJob[o] # NoJob
  BY <1>2 DEF Coherent, Scheduled, MapTypeOK
<1>4. ~UnderWay(c)
  BY <1>1, <1>2, <1>3 DEF FlightInv
<1>5. sending' = checkJob[o] /\ UNCHANGED <<states, checkJob, worker, results, consumer>>
  BY DEF PopDue, ringVars
<1>6. AtSend(c)' /\ \A d \in Configs \ {c} : ~AtSend(d)' /\ ~AtSend(d)
  BY <1>1, <1>3, <1>5 DEF AtSend
<1>7. \A d \in Configs : /\ RunFacts(d) /\ RunFacts(d)' /\ Planned(d)' = Planned(d)
                         /\ AtConsume(d)' <=> AtConsume(d)
                         /\ \A w \in Workers : /\ AtWorker(w, d)' <=> AtWorker(w, d)
                                               /\ CheckingAt(w, d)' <=> CheckingAt(w, d)
                         /\ \A i \in Nat : AtResult(i, d)' <=> AtResult(i, d)
  BY <1>5, RunsOf, FactsNext DEF RunsFact, FlightInv, Planned, Scheduled, AtConsume,
    AtWorker, CheckingAt, AtResult
<1>8. \A d \in Configs \ {c} : /\ RunningVersion(d)' = RunningVersion(d)
                               /\ UnderWay(d)' <=> UnderWay(d)
  BY <1>5, <1>6, <1>7 DEF RunFacts, UnderWay
<1>9. RunningVersion(c)' = Planned(c) /\ Planned(c) # NoVersion /\ UnderWay(c)'
  BY <1>2, <1>3, <1>5, <1>6, <1>7 DEF RunFacts, Planned, UnderWay, Jobs
<1>10. /\ JobMap' = JobMap /\ RunMap' = [RunMap EXCEPT ![c] = Planned(c)]
       /\ Outstanding' = Outstanding \cup {c} /\ c \notin Outstanding
  <2>1. UnderWay(c)' <=> TRUE
    BY <1>9
  <2> QED
    BY <1>4, <1>7, <1>8, <1>9, <2>1, CycleMove, OutOf DEF OutFact
<1>11. Cycle!Begin(c)
  BY <1>9, <1>10 DEF Cycle!Begin, JobMap, RunMap, Planned
<1> QED
  BY <1>11 DEF CycleStep, Cycle!CycleNext

\* A job leaves the ring: its completion is applied or dropped, or schedule
\* gives it up.
LEMMA EndStep ==
  ASSUME TypeInv, TypeInv', FlightInv, FlightInv', RecvEvent \/ DropEvent \/ AbandonSend
  PROVE  CycleStep
<1> USE DEF TypeInv, TypeOK, RingTypeOK
<1>1. /\ UNCHANGED <<states, checkJob, worker, results>>
      /\ \/ /\ consumer.job # NoJob /\ consumer' = Receiving /\ sending' = sending
         \/ /\ AbandonSend /\ sending' = NoJob /\ UNCHANGED consumer
  BY DEF RecvEvent, DropEvent, AbandonSend, mapVars, ringVars
<1>2. \A d \in Configs : /\ RunFacts(d) /\ RunFacts(d)' /\ Planned(d)' = Planned(d)
                         /\ \A w \in Workers : /\ AtWorker(w, d)' <=> AtWorker(w, d)
                                               /\ CheckingAt(w, d)' <=> CheckingAt(w, d)
                         /\ \A i \in Nat : AtResult(i, d)' <=> AtResult(i, d)
  BY <1>1, RunsOf, FactsNext DEF RunsFact, FlightInv, Planned, Scheduled,
    AtWorker, CheckingAt, AtResult
<1>3. \A d \in Configs : \A w \in Workers : CheckingAt(w, d) => AtWorker(w, d)
  BY DEF CheckingAt, AtWorker
<1>4. PICK c \in Configs :
        /\ UnderWay(c) /\ ~UnderWay(c)' /\ RunningVersion(c)' = NoVersion
        /\ \A d \in Configs \ {c} : /\ RunningVersion(d)' = RunningVersion(d)
                                    /\ UnderWay(d)' <=> UnderWay(d)
  <2>1. CASE consumer.job # NoJob /\ consumer' = Receiving /\ sending' = sending
    <3>1. PICK c \in Configs : c = consumer.job.cfg
      BY <2>1 DEF Jobs
    <3>2. AtConsume(c) /\ Alone(c) /\ \A d \in Configs \ {c} : ~AtConsume(d)
      BY <2>1, <3>1 DEF AtConsume, FlightInv
    <3>3. ~AtSend(c) /\ \A d \in Configs : ~AtConsume(d)' /\ (AtSend(d)' <=> AtSend(d))
      BY <2>1, <3>2 DEF AtConsume, AtSend, Receiving, Alone
    <3>4. \A w \in Workers : ~CheckingAt(w, c)
      BY <1>3, <3>2 DEF Alone
    <3>5. UnderWay(c) /\ ~UnderWay(c)' /\ RunningVersion(c)' = NoVersion
      BY <1>2, <3>2, <3>3, <3>4 DEF UnderWay, Alone, RunFacts
    <3>6. \A d \in Configs \ {c} : /\ RunningVersion(d)' = RunningVersion(d)
                                   /\ UnderWay(d)' <=> UnderWay(d)
      BY <1>1, <1>2, <2>1, <3>2, <3>3 DEF UnderWay, RunFacts
    <3> QED
      BY <3>5, <3>6
  <2>2. CASE AbandonSend /\ sending' = NoJob /\ UNCHANGED consumer
    <3>1. sending # NoJob
      BY <2>2 DEF AbandonSend
    <3>2. PICK c \in Configs : c = sending.cfg
      BY <3>1 DEF Jobs
    <3>3. AtSend(c) /\ Alone(c) /\ \A d \in Configs \ {c} : ~AtSend(d)
      BY <3>1, <3>2 DEF AtSend, FlightInv
    <3>4. \A d \in Configs : ~AtSend(d)' /\ (AtConsume(d)' <=> AtConsume(d))
      BY <2>2 DEF AtSend, AtConsume
    <3>5. \A w \in Workers : ~CheckingAt(w, c)
      BY <1>3, <3>3 DEF Alone
    <3>6. UnderWay(c) /\ ~UnderWay(c)' /\ RunningVersion(c)' = NoVersion
      BY <1>2, <3>3, <3>4, <3>5 DEF UnderWay, Alone, RunFacts
    <3>7. \A d \in Configs \ {c} : /\ RunningVersion(d)' = RunningVersion(d)
                                   /\ UnderWay(d)' <=> UnderWay(d)
      BY <1>1, <1>2, <3>3, <3>4 DEF UnderWay, RunFacts
    <3> QED
      BY <3>6, <3>7
  <2> QED
    BY <1>1, <2>1, <2>2
<1>5. /\ JobMap' = JobMap /\ RunMap' = [RunMap EXCEPT ![c] = NoVersion]
      /\ Outstanding' = Outstanding \ {c} /\ c \in Outstanding
  <2>1. UnderWay(c)' <=> FALSE
    BY <1>4
  <2> QED
    BY <1>2, <1>4, <2>1, CycleMove, OutOf DEF OutFact
<1>6. Cycle!Abandon(c)
  BY <1>5 DEF Cycle!Abandon, JobMap, RunMap
<1> QED
  BY <1>6 DEF CycleStep, Cycle!CycleNext

\* A config event is applied: one config is configured anew.
LEMMA ConfigureStep ==
  ASSUME TypeInv, TypeInv', FlightInv, FlightInv', RecvConfigEvent
  PROVE  CycleStep
<1> USE DEF TypeInv, TypeOK
<1>1. configEvents \in Seq(ConfigEvents) /\ configEvents # <<>>
  BY DEF RecvConfigEvent, ServiceTypeOK
<1>2. PICK ev \in ConfigEvents :
        ev = configEvents[1] /\ 1 \in 1..Len(configEvents) /\ ApplyConfigEvent(ev)
  <2>1. /\ Head(configEvents) \in ConfigEvents /\ Head(configEvents) = configEvents[1]
        /\ 1 \in 1..Len(configEvents)
    BY <1>1
  <2> QED
    BY <2>1 DEF RecvConfigEvent
<1>3. ev.cfg \in Configs /\ ev.ver \in Versions \cup {NoVersion}
      /\ (ev.type = "deleted" => ev.ver = NoVersion)
  BY DEF ConfigEvents
<1>4. /\ Planned(ev.cfg)' = ev.ver
      /\ \A d \in Configs \ {ev.cfg} : Planned(d)' = Planned(d)
  BY <1>2, ApplySettles
<1>5. UNCHANGED <<sending, worker, results, consumer>>
  BY DEF RecvConfigEvent, ringVars
<1>6. \A d \in Configs : /\ RunningVersion(d)' = RunningVersion(d)
                         /\ UnderWay(d)' <=> UnderWay(d)
  <2>1. \A d \in Configs : UnderWay(d)' <=> UnderWay(d)
    BY <1>5, RingStill
  <2>2. \A d \in Configs : RunningVersion(d)' = RunningVersion(d)
    BY <1>5 DEF RunningVersion
  <2> QED
    BY <2>1, <2>2
<1>7. Planned(ev.cfg) = NoVersion /\ ev.ver # NoVersion => ~UnderWay(ev.cfg)
  <2> SUFFICES ASSUME Planned(ev.cfg) = NoVersion, ev.ver # NoVersion, UnderWay(ev.cfg)
               PROVE  FALSE
    OBVIOUS
  <2>1. ~Scheduled(ev.cfg)
    <3>1. SUFFICES ASSUME Scheduled(ev.cfg) PROVE FALSE
      OBVIOUS
    <3>2. checkJob[states[ev.cfg]] \in Jobs
      BY <1>3, <3>1 DEF Coherent, MapTypeOK, Scheduled
    <3> QED
      BY <3>1, <3>2 DEF Planned, Jobs
  <2>2. ev.type = "deleted"
    BY <1>2, <1>3, <2>1 DEF FlightInv
  <2> QED
    BY <1>3, <2>2
<1>8. JobMap' = [JobMap EXCEPT ![ev.cfg] = ev.ver] /\ RunMap' = RunMap /\ Outstanding' = Outstanding
  <2>1. JobMap' = [JobMap EXCEPT ![ev.cfg] = ev.ver]
    BY <1>3, <1>4 DEF JobMap, Planned
  <2>2. RunMap' = RunMap
    BY <1>6 DEF RunMap
  <2>3. Outstanding' = Outstanding
    BY <1>6, OutOf, FactsNext DEF OutFact
  <2> QED
    BY <2>1, <2>2, <2>3
<1>9. ev.cfg \in Outstanding <=> UnderWay(ev.cfg)
  BY <1>3, OutOf DEF OutFact
<1>10. Cycle!Configure(ev.cfg, ev.ver)
  BY <1>3, <1>7, <1>8, <1>9 DEF Cycle!Configure, JobMap, RunMap, Planned
<1> QED
  BY <1>3, <1>10 DEF CycleStep, Cycle!CycleNext

\* However many goroutines take part, to whoever watches the configs the
\* pipeline behaves as CheckCycle says: one check of a config at a time, begun
\* with the settings of the moment, and none of a config that was dropped.
THEOREM Implements == ~Revival => (Spec => ImplementsCycle)
<1> SUFFICES ASSUME ~Revival PROVE Spec => ImplementsCycle
  OBVIOUS
<1>1. Init => Cycle!CycleInit
  <2> SUFFICES ASSUME Init PROVE Cycle!CycleInit
    OBVIOUS
  <2>1. TypeInv /\ \A c \in Configs : ~UnderWay(c)
    BY TypeInit DEF Init, UnderWay, AtSend, AtConsume, AtWorker, AtResult, Idle, Receiving
  <2>2. Outstanding = {}
    BY <2>1, OutOf DEF OutFact
  <2>3. \A c \in Configs : RunningVersion(c) = NoVersion
    BY DEF Init, RunningVersion, Idle
  <2>4. \A c \in Configs : Scheduled(c) => checkJob[states[c]].ver \in Versions
    <3>1. \A c \in Configs : Scheduled(c) => checkJob[states[c]] \in Jobs
      BY <2>1 DEF TypeInv, TypeOK, MapTypeOK, Coherent, Scheduled
    <3> QED
      BY <3>1 DEF Jobs
  <2> QED
    BY <2>2, <2>3, <2>4 DEF Cycle!CycleInit
<1>2. TypeInv /\ QueueInv /\ FlightInv /\ [Next]_vars => CycleStep
  <2> SUFFICES ASSUME TypeInv, QueueInv, FlightInv, [Next]_vars PROVE CycleStep
    OBVIOUS
  <2>1. TypeInv' /\ FlightInv'
    BY TypeStep, FlightStep
  <2>2. CASE Carry
    BY <2>1, <2>2, CarryStep
  <2>3. ASSUME NEW o \in Objs, PopDue(o) PROVE CycleStep
    BY <2>1, <2>3, BeginStep
  <2>4. CASE RecvEvent \/ DropEvent \/ AbandonSend
    BY <2>1, <2>4, EndStep
  <2>5. CASE RecvConfigEvent
    BY <2>1, <2>5, ConfigureStep
  <2>6. CASE \/ \E o \in Objs : BecomeDue(o)
             \/ TimerFires \/ SelectCtxDone \/ Shutdown
             \/ \E ev \in ConfigEvents : SendConfigEvent(ev)
             \/ Terminated \/ UNCHANGED vars
    <3>1. UNCHANGED <<states, checkJob, sending, worker, results, consumer>>
      BY <2>6 DEF BecomeDue, TimerFires, SelectCtxDone, Shutdown, Signal, StopCall,
        StopDeadline, StopReturn, SendConfigEvent, Terminated, vars, mapVars, ringVars
    <3>2. \A c \in Configs : UnderWay(c)' <=> UnderWay(c)
      BY <3>1, RingStill
    <3>3. \A c \in Configs : /\ Planned(c)' = Planned(c)
                             /\ RunningVersion(c)' = RunningVersion(c)
      BY <3>1 DEF Planned, Scheduled, RunningVersion
    <3> QED
      BY <2>1, <3>2, <3>3, CycleStill DEF CycleStep
  <2> QED
    BY <2>2, <2>3, <2>4, <2>5, <2>6 DEF Next, Schedule, Consume, Carry
<1> QED
  BY FlightCorrect, <1>1, <1>2, PTL DEF Spec, ImplementsCycle, Cycle!CycleSpec, CycleStep
=============================================================================
