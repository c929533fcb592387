------------------------------ MODULE Scheduler ------------------------------
(***************************************************************************)
(* The check scheduler of watchlight: internal/services/scheduler.  Four   *)
(* kinds of goroutines pass a check round a ring of channels:              *)
(*                                                                         *)
(*   schedule --jobs--> worker --results--> consume --events--> schedule   *)
(*                                                                         *)
(* and the configuration service feeds schedule through configEvents.      *)
(* jobs and events are unbuffered (a send is a rendezvous), results holds  *)
(* one entry per worker.  schedule owns the map of states and the heap of  *)
(* states; nothing is locked.                                              *)
(*                                                                         *)
(* The code works with pointers to State, and a pointer may sit in the     *)
(* heap twice or after its config was dropped from the map, so the model   *)
(* has addresses too (Objs) and the heap is the bag of addresses in it.    *)
(* Time is reduced to what dispatch asks of it: a state is due or not yet. *)
(***************************************************************************)
EXTENDS Naturals, Sequences, FiniteSets

CONSTANTS
  Configs,         \* ids of the check configs
  Versions,        \* settings a config may have
  NoVersion,       \* no settings: the config does not exist or is disabled
  Workers,         \* the worker goroutines
  Objs,            \* addresses a *State may have
  NoObj,           \* nil
  NoJob,           \* no job in this place
  ConfigEventCap,  \* capacity of the configEvents channel
  MaxConfigEvents, \* bound: config events sent in one behaviour
  AppCtx,          \* Start got the signal context, as in main
  Revival          \* a config id may be scheduled again after it was dropped

ASSUME NoneAssumption ==
  /\ NoObj \notin Objs
  /\ NoVersion \notin Versions
  /\ NoJob \notin [cfg : Configs, ver : Versions]
ASSUME SizeAssumption ==
  /\ IsFiniteSet(Workers) /\ Workers # {}
  /\ ConfigEventCap \in Nat /\ MaxConfigEvents \in Nat
ASSUME ModeAssumption == AppCtx \in BOOLEAN /\ Revival \in BOOLEAN

VARIABLES
  states,        \* s.states: config id -> address, or NoObj
  checkJob,      \* the checkJob of the State at each address
  inFlight,      \* the States whose inFlight flag is set
  due,           \* the States whose nextDue is not after the present time
  heap,          \* how many times each address is in s.heap
  schedPc,       \* schedule: "loop", "send" (blocked on jobs), "exited"
  batch,         \* the states that were due at the `now` of this dispatch
  sending,       \* the job schedule is blocked on, or NoJob
  worker,        \* the worker goroutines
  results,       \* the results channel
  closer,        \* the goroutine that closes results: "waiting", "closed"
  consumer,      \* the consume goroutine; done is closed when it has exited
  configEvents,  \* the configEvents channel
  sent,          \* number of config events sent so far
  wanted,        \* what the events sent so far ask for, per config
  retired,       \* configs a Deleted was sent for
  appCtx,        \* the context Start was given: "live", "done"
  stopPc         \* Stop: "running" (not called), "waiting", "forced", ...

mapVars == <<states, checkJob, inFlight, due, heap>>
ringVars == <<worker, results, closer, consumer>>
serviceVars == <<configEvents, sent, wanted, retired>>
stopVars == <<appCtx, stopPc>>
vars == <<states, checkJob, inFlight, due, heap, schedPc, batch, sending,
          worker, results, closer, consumer, configEvents, sent, wanted,
          retired, appCtx, stopPc>>

Jobs == [cfg : Configs, ver : Versions]
Outcomes == {"done", "aborted"}
Results == [job : Jobs, out : Outcomes]
ConfigEvents ==
  [type : {"created", "updated"}, cfg : Configs, ver : Versions]
    \cup [type : {"deleted"}, cfg : Configs, ver : {NoVersion}]
ResultsCap == Cardinality(Workers)

Idle == [pc |-> "idle", job |-> NoJob, out |-> "done"]
Gone == [pc |-> "exited", job |-> NoJob, out |-> "done"]
Receiving == [pc |-> "recv", job |-> NoJob, out |-> "done"]

\* Mutant: the checks run under the context that stops the dispatching.
OneContext == appCtx = "done" \/ stopPc # "running"

\* dispatchCtx and checkCtx, both derived from the context Start was given.
DispatchCtxDone == appCtx = "done" \/ stopPc # "running"
CheckCtxDone == appCtx = "done" \/ stopPc \in {"forced", "returnedErr"}

Scheduled(c) == states[c] # NoObj
Live(o) == heap[o] > 0 \/ \E c \in Configs : states[c] = o

\* What dispatch finds due when it reads the clock on entry.
DueIn(h, d) == {o \in d : h[o] > 0}

\* schedule waits in its select.
AtSelect == schedPc = "loop" /\ batch = {}

-----------------------------------------------------------------------------
(* Start: the enabled configs are loaded, every state is in the heap once,   *)
(* with a first check somewhere within its interval, and the goroutines run. *)

StartJob(o) ==
  IF \E c \in Configs : states[c] = o
  THEN LET c == CHOOSE d \in Configs : states[d] = o
       IN  [cfg |-> c, ver |-> wanted[c]]
  ELSE NoJob

Init ==
  /\ wanted \in [Configs -> Versions \cup {NoVersion}]
  /\ states \in [Configs -> Objs \cup {NoObj}]
  /\ \A c \in Configs : states[c] = NoObj <=> wanted[c] = NoVersion
  /\ \A c, d \in Configs : Scheduled(c) /\ states[c] = states[d] => c = d
  /\ checkJob = [o \in Objs |-> StartJob(o)]
  /\ inFlight = {} /\ due = {}
  /\ heap = [o \in Objs |-> IF \E c \in Configs : states[c] = o THEN 1 ELSE 0]
  /\ schedPc = "loop" /\ batch = {} /\ sending = NoJob
  /\ worker = [w \in Workers |-> Idle]
  /\ results = <<>> /\ closer = "waiting"
  /\ consumer = Receiving
  /\ configEvents = <<>> /\ sent = 0 /\ retired = {}
  /\ appCtx = "live" /\ stopPc = "running"

-----------------------------------------------------------------------------
(* schedule                                                                  *)

\* Time passes: a state in the heap becomes due.
BecomeDue(o) ==
  /\ heap[o] > 0 /\ o \notin due
  /\ due' = due \cup {o}
  /\ UNCHANGED <<states, checkJob, inFlight, heap, schedPc, batch, sending>>
  /\ UNCHANGED <<ringVars, serviceVars, stopVars>>

\* case <-timer.C: the timer was set to the head of the heap.
TimerFires ==
  /\ AtSelect
  /\ batch' = DueIn(heap, due)
  /\ batch' # {}
  /\ UNCHANGED <<mapVars, schedPc, sending, ringVars, serviceVars, stopVars>>

\* case ev := <-events: the consumer hands a completion over, applyEvent
\* re-arms the config's state, if the config still has one.
RecvEvent ==
  /\ AtSelect
  /\ consumer.pc = "post"
  /\ consumer' = Receiving
  /\ LET o == states[consumer.job.cfg] IN
       IF o = NoObj
       THEN UNCHANGED <<inFlight, due, heap>>
       ELSE /\ inFlight' = inFlight \ {o}
            /\ due' = due \ {o}
            /\ heap' = [heap EXCEPT ![o] = @ + 1]
  /\ batch' = DueIn(heap', due')
  /\ UNCHANGED <<states, checkJob, schedPc, sending, worker, results, closer>>
  /\ UNCHANGED <<serviceVars, stopVars>>

JobOf(ev) == [cfg |-> ev.cfg, ver |-> ev.ver]

\* applyConfigEvent: Created, or Updated for a config that has no state.
Adopt(ev) ==
  /\ ev.type # "deleted" /\ ~Scheduled(ev.cfg)
  /\ \E o \in Objs :
       /\ ~Live(o)
       /\ states' = [states EXCEPT ![ev.cfg] = o]
       /\ checkJob' = [checkJob EXCEPT ![o] = JobOf(ev)]
       /\ inFlight' = inFlight \ {o} /\ due' = due \cup {o}
       /\ heap' = [heap EXCEPT ![o] = @ + 1]

\* Mutant: heap.Push where heap.Fix is called.
RetargetPushes(ev) ==
  /\ ev.type # "deleted" /\ Scheduled(ev.cfg)
  /\ checkJob' = [checkJob EXCEPT ![states[ev.cfg]] = JobOf(ev)]
  /\ heap' = [heap EXCEPT ![states[ev.cfg]] = @ + 1]
  /\ UNCHANGED <<states, inFlight, due>>

\* Mutant: a config in flight keeps the settings it has.
RetargetIfIdle(ev) ==
  /\ ev.type # "deleted" /\ Scheduled(ev.cfg)
  /\ checkJob' = IF states[ev.cfg] \in inFlight THEN checkJob
                 ELSE [checkJob EXCEPT ![states[ev.cfg]] = JobOf(ev)]
  /\ UNCHANGED <<states, inFlight, due, heap>>

\* applyConfigEvent: Created or Updated for a config that has a state.
Retarget(ev) ==
  /\ ev.type # "deleted" /\ Scheduled(ev.cfg)
  /\ checkJob' = [checkJob EXCEPT ![states[ev.cfg]] = JobOf(ev)]
  /\ due' = IF ev.type = "updated" THEN due \cup {states[ev.cfg]} ELSE due
  /\ UNCHANGED <<states, inFlight, heap>>

\* Mutant: the map entry is deleted, the heap entry is not.
DropKeepsEntry(ev) ==
  /\ ev.type = "deleted" /\ Scheduled(ev.cfg)
  /\ states' = [states EXCEPT ![ev.cfg] = NoObj]
  /\ UNCHANGED <<checkJob, inFlight, due, heap>>

\* Mutant: heap.Remove without looking at inFlight.
DropRemovesAlways(ev) ==
  /\ ev.type = "deleted" /\ Scheduled(ev.cfg)
  /\ states' = [states EXCEPT ![ev.cfg] = NoObj]
  /\ heap' = [heap EXCEPT ![states[ev.cfg]] = @ - 1]
  /\ UNCHANGED <<checkJob, inFlight, due>>

\* applyConfigEvent: Deleted.  A state in flight is not in the heap.
Drop(ev) ==
  /\ ev.type = "deleted" /\ Scheduled(ev.cfg)
  /\ states' = [states EXCEPT ![ev.cfg] = NoObj]
  /\ LET o == states[ev.cfg] IN
       heap' = IF o \in inFlight THEN heap ELSE [heap EXCEPT ![o] = @ - 1]
  /\ UNCHANGED <<checkJob, inFlight, due>>

DropUnknown(ev) ==
  /\ ev.type = "deleted" /\ ~Scheduled(ev.cfg)
  /\ UNCHANGED mapVars

ApplyConfigEvent(ev) ==
  Adopt(ev) \/ Retarget(ev) \/ Drop(ev) \/ DropUnknown(ev)

\* case ev := <-s.configEvents
RecvConfigEvent ==
  /\ AtSelect
  /\ configEvents # <<>>
  /\ configEvents' = Tail(configEvents)
  /\ ApplyConfigEvent(Head(configEvents))
  /\ batch' = DueIn(heap', due')
  /\ UNCHANGED <<schedPc, sending, ringVars, sent, wanted, retired, stopVars>>

\* case <-ctx.Done(): schedule returns and closes jobs.
SelectCtxDone ==
  /\ AtSelect
  /\ DispatchCtxDone
  /\ schedPc' = "exited"
  /\ UNCHANGED <<mapVars, batch, sending, ringVars, serviceVars, stopVars>>

\* dispatch takes the next due state off the heap and blocks on jobs.
PopDue(o) ==
  /\ schedPc = "loop" /\ o \in batch
  /\ heap' = [heap EXCEPT ![o] = @ - 1]
  /\ inFlight' = inFlight \cup {o}
  /\ batch' = {p \in batch : heap'[p] > 0}
  /\ sending' = checkJob[o]
  /\ schedPc' = "send"
  /\ UNCHANGED <<states, checkJob, due, ringVars, serviceVars, stopVars>>

\* case s.jobs <- state.checkJob, received by an idle worker.
SendJob(w) ==
  /\ schedPc = "send" /\ worker[w].pc = "idle"
  /\ worker' = [worker EXCEPT ![w] =
                  [pc |-> "checking", job |-> sending, out |-> "done"]]
  /\ sending' = NoJob /\ schedPc' = "loop"
  /\ UNCHANGED <<mapVars, batch, results, closer, consumer>>
  /\ UNCHANGED <<serviceVars, stopVars>>

\* case <-ctx.Done() in dispatch: it returns, leaving the state in flight.
AbandonSend ==
  /\ schedPc = "send" /\ DispatchCtxDone
  /\ sending' = NoJob /\ batch' = {} /\ schedPc' = "loop"
  /\ UNCHANGED <<mapVars, ringVars, serviceVars, stopVars>>

-----------------------------------------------------------------------------
(* worker                                                                    *)

\* The check ends with an answer of its own: up, down or timed out.
FinishCheck(w) ==
  /\ worker[w].pc = "checking"
  /\ worker' = [worker EXCEPT ![w].pc = "reporting"]
  /\ UNCHANGED <<mapVars, schedPc, batch, sending, results, closer>>
  /\ UNCHANGED <<consumer, serviceVars, stopVars>>

\* The check was given a context that is done: it fails without an answer.
AbortCheck(w) ==
  /\ worker[w].pc = "checking" /\ CheckCtxDone
  /\ worker' = [worker EXCEPT ![w].pc = "reporting", ![w].out = "aborted"]
  /\ UNCHANGED <<mapVars, schedPc, batch, sending, results, closer>>
  /\ UNCHANGED <<consumer, serviceVars, stopVars>>

\* s.results <- result: blocks while the channel is full.
Report(w) ==
  /\ worker[w].pc = "reporting"
  /\ Len(results) < ResultsCap
  /\ results' = Append(results, [job |-> worker[w].job, out |-> worker[w].out])
  /\ worker' = [worker EXCEPT ![w] = Idle]
  /\ UNCHANGED <<mapVars, schedPc, batch, sending, closer, consumer>>
  /\ UNCHANGED <<serviceVars, stopVars>>

\* Mutant: a worker serves one job and returns.
ExitWorkerEarly(w) ==
  /\ worker[w].pc = "idle"
  /\ worker' = [worker EXCEPT ![w] = Gone]
  /\ UNCHANGED <<mapVars, schedPc, batch, sending, results, closer>>
  /\ UNCHANGED <<consumer, serviceVars, stopVars>>

\* range s.jobs ends: jobs is closed.
ExitWorker(w) ==
  /\ worker[w].pc = "idle" /\ schedPc = "exited"
  /\ worker' = [worker EXCEPT ![w] = Gone]
  /\ UNCHANGED <<mapVars, schedPc, batch, sending, results, closer>>
  /\ UNCHANGED <<consumer, serviceVars, stopVars>>

\* Mutant: results is closed when jobs is, without waiting for the workers.
CloseResultsEarly ==
  /\ closer = "waiting" /\ schedPc = "exited"
  /\ closer' = "closed"
  /\ UNCHANGED <<mapVars, schedPc, batch, sending, worker, results, consumer>>
  /\ UNCHANGED <<serviceVars, stopVars>>

\* s.wg.Wait() returns.
CloseResults ==
  /\ closer = "waiting"
  /\ \A w \in Workers : worker[w].pc = "exited"
  /\ closer' = "closed"
  /\ UNCHANGED <<mapVars, schedPc, batch, sending, worker, results, consumer>>
  /\ UNCHANGED <<serviceVars, stopVars>>

-----------------------------------------------------------------------------
(* consume                                                                   *)

ReceiveResult ==
  /\ consumer.pc = "recv" /\ results # <<>>
  /\ consumer' = [pc |-> "handle", job |-> Head(results).job,
                  out |-> Head(results).out]
  /\ results' = Tail(results)
  /\ UNCHANGED <<mapVars, schedPc, batch, sending, worker, closer>>
  /\ UNCHANGED <<serviceVars, stopVars>>

\* HandleCheckResult returns, with or without an error, before writeTimeout.
Handle ==
  /\ consumer.pc = "handle"
  /\ consumer' = [consumer EXCEPT !.pc = "post"]
  /\ UNCHANGED <<mapVars, schedPc, batch, sending, worker, results>>
  /\ UNCHANGED <<closer, serviceVars, stopVars>>

\* Mutant: the event is dropped when schedule is busy (a default case).
DropEventIfBusy ==
  /\ consumer.pc = "post" /\ ~AtSelect
  /\ consumer' = Receiving
  /\ UNCHANGED <<mapVars, schedPc, batch, sending, worker, results>>
  /\ UNCHANGED <<closer, serviceVars, stopVars>>

\* Mutant: the event is sent without a way out at shutdown.
DropEventNever == FALSE /\ UNCHANGED vars

\* case <-ctx.Done(): the completion event is dropped.
DropEvent ==
  /\ consumer.pc = "post" /\ DispatchCtxDone
  /\ consumer' = Receiving
  /\ UNCHANGED <<mapVars, schedPc, batch, sending, worker, results>>
  /\ UNCHANGED <<closer, serviceVars, stopVars>>

\* range s.results ends: done, then events, are closed.
ExitConsumer ==
  /\ consumer.pc = "recv" /\ results = <<>> /\ closer = "closed"
  /\ consumer' = [consumer EXCEPT !.pc = "exited"]
  /\ UNCHANGED <<mapVars, schedPc, batch, sending, worker, results>>
  /\ UNCHANGED <<closer, serviceVars, stopVars>>

-----------------------------------------------------------------------------
(* Stop, the signal, and the service that sends config events                *)

Signal ==
  /\ AppCtx /\ appCtx = "live"
  /\ appCtx' = "done"
  /\ UNCHANGED <<mapVars, schedPc, batch, sending, ringVars, serviceVars>>
  /\ UNCHANGED stopPc

\* main calls Stop once the signal context is done.
StopCall ==
  /\ stopPc = "running" /\ (AppCtx => appCtx = "done")
  /\ stopPc' = "waiting"
  /\ UNCHANGED <<mapVars, schedPc, batch, sending, ringVars, serviceVars>>
  /\ UNCHANGED appCtx

\* case <-ctx.Done() in Stop: the checks are cancelled too.
StopDeadline ==
  /\ stopPc = "waiting"
  /\ stopPc' = "forced"
  /\ UNCHANGED <<mapVars, schedPc, batch, sending, ringVars, serviceVars>>
  /\ UNCHANGED appCtx

\* <-s.done
StopReturn ==
  /\ stopPc \in {"waiting", "forced"} /\ consumer.pc = "exited"
  /\ stopPc' = IF stopPc = "waiting" THEN "returned" ELSE "returnedErr"
  /\ UNCHANGED <<mapVars, schedPc, batch, sending, ringVars, serviceVars>>
  /\ UNCHANGED appCtx

\* The service sends a config event.  Requests are not serialized, so the
\* events of one config come in any order; a config that was deleted or
\* disabled comes back only when Revival says so.
SendConfigEvent(ev) ==
  /\ sent < MaxConfigEvents /\ Len(configEvents) < ConfigEventCap
  /\ (~Revival /\ ev.cfg \in retired) => ev.type = "deleted"
  /\ configEvents' = Append(configEvents, ev)
  /\ sent' = sent + 1
  /\ wanted' = [wanted EXCEPT ![ev.cfg] = ev.ver]
  /\ retired' = IF ev.type = "deleted" THEN retired \cup {ev.cfg} ELSE retired
  /\ UNCHANGED <<mapVars, schedPc, batch, sending, ringVars, stopVars>>

\* All goroutines have ended and Stop has returned.
Terminated ==
  /\ consumer.pc = "exited" /\ stopPc \in {"returned", "returnedErr"}
  /\ UNCHANGED vars

-----------------------------------------------------------------------------
Schedule ==
  \/ TimerFires \/ RecvEvent \/ RecvConfigEvent \/ SelectCtxDone \/ AbandonSend
  \/ \E o \in Objs : PopDue(o)

Work(w) ==
  SendJob(w) \/ FinishCheck(w) \/ AbortCheck(w) \/ Report(w) \/ ExitWorker(w)

Consume == ReceiveResult \/ Handle \/ DropEvent \/ ExitConsumer

Shutdown == Signal \/ StopCall \/ StopDeadline \/ StopReturn

Next ==
  \/ \E o \in Objs : BecomeDue(o)
  \/ Schedule
  \/ \E w \in Workers : Work(w)
  \/ CloseResults
  \/ Consume
  \/ Shutdown
  \/ \E ev \in ConfigEvents : SendConfigEvent(ev)
  \/ Terminated

Spec == Init /\ [][Next]_vars

\* Goroutines that can run do run, time passes, checks and result handling
\* end (both are called with a timeout).  select picks at random among its
\* ready cases, so a case that is ready again and again is taken.  Nothing is
\* assumed of the signal, of Stop being called, of its deadline, or of the
\* service.
Fairness ==
  /\ \A o \in Objs : WF_vars(BecomeDue(o))
  /\ WF_vars(TimerFires) /\ WF_vars(\E o \in Objs : PopDue(o))
  /\ SF_vars(RecvEvent) /\ SF_vars(RecvConfigEvent) /\ SF_vars(SelectCtxDone)
  /\ \A w \in Workers :
       WF_vars(FinishCheck(w)) /\ SF_vars(Report(w)) /\ WF_vars(ExitWorker(w))
  /\ WF_vars(\E w \in Workers : SendJob(w))
  /\ WF_vars(AbandonSend) /\ WF_vars(CloseResults)
  /\ WF_vars(ReceiveResult) /\ WF_vars(Handle) /\ WF_vars(DropEvent)
  /\ WF_vars(ExitConsumer) /\ WF_vars(StopReturn)

FairSpec == Spec /\ Fairness

-----------------------------------------------------------------------------
(* Properties                                                                *)

\* The types of the variables; a job is where the pc says it is.
MapTypeOK ==
  /\ states \in [Configs -> Objs \cup {NoObj}]
  /\ checkJob \in [Objs -> Jobs \cup {NoJob}]
  /\ inFlight \subseteq Objs /\ due \subseteq Objs
  /\ heap \in [Objs -> Nat]
  /\ \A o \in Objs : Live(o) => checkJob[o] # NoJob
  /\ batch \subseteq Objs /\ \A o \in batch : heap[o] > 0

RingTypeOK ==
  /\ schedPc \in {"loop", "send", "exited"} /\ sending \in Jobs \cup {NoJob}
  /\ sending # NoJob <=> schedPc = "send"
  /\ schedPc = "exited" => batch = {}
  /\ worker \in [Workers -> [pc : {"idle", "checking", "reporting", "exited"},
                            job : Jobs \cup {NoJob}, out : Outcomes]]
  /\ \A w \in Workers :
       worker[w].job # NoJob <=> worker[w].pc \in {"checking", "reporting"}
  /\ results \in Seq(Results) /\ closer \in {"waiting", "closed"}
  /\ consumer \in [pc : {"recv", "handle", "post", "exited"},
                   job : Jobs \cup {NoJob}, out : Outcomes]
  /\ consumer.job # NoJob <=> consumer.pc \in {"handle", "post"}

ServiceTypeOK ==
  /\ configEvents \in Seq(ConfigEvents)
  /\ sent \in Nat /\ retired \subseteq Configs
  /\ wanted \in [Configs -> Versions \cup {NoVersion}]
  /\ appCtx \in {"live", "done"}
  /\ stopPc \in {"running", "waiting", "forced", "returned", "returnedErr"}

TypeOK == MapTypeOK /\ RingTypeOK /\ ServiceTypeOK

\* The places round the ring where a job can be, and the job there.
Places == {<<"send", 0>>, <<"consume", 0>>}
          \cup ({"work"} \X Workers) \cup ({"result"} \X DOMAIN results)

JobAt(p) ==
  CASE p[1] = "send"    -> sending
    [] p[1] = "work"    -> worker[p[2]].job
    [] p[1] = "result"  -> results[p[2]].job
    [] p[1] = "consume" -> consumer.job

Taken == {p \in Places : JobAt(p) # NoJob}
Outstanding == {JobAt(p).cfg : p \in Taken}

\* A config has at most one check on its way round the ring: no two workers
\* ever check the same config, and no completion is applied twice.  The code
\* has no lock or set for this: it follows from popping the state off the
\* heap and pushing it back only on the completion.
SingleFlight ==
  \A p, q \in Taken : JobAt(p).cfg = JobAt(q).cfg => p = q

\* A scheduled config is never forgotten: until shutdown it waits in the heap
\* or its check is on the way round, and inFlight says which.  With it,
\* state.index is valid whenever heap.Fix or heap.Remove is called.
NoConfigLost ==
  ~DispatchCtxDone =>
    \A c \in Configs : Scheduled(c) =>
      IF states[c] \in inFlight THEN c \in Outstanding ELSE heap[states[c]] > 0

\* Removed configs are dropped: what is in the heap, and so what will be
\* checked, belongs to a config that is scheduled, with its settings.
RemovedAreDropped ==
  \A o \in Objs : heap[o] > 0 => \E c \in Configs :
                     states[c] = o /\ checkJob[o].cfg = c

\* Once the events sent have been applied, the schedule is what the service
\* asked for: the configs it wants, with the settings it wants.
SettledAsWanted ==
  configEvents = <<>> =>
    \A c \in Configs :
      wanted[c] = IF Scheduled(c) THEN checkJob[states[c]].ver ELSE NoVersion

\* Everyone waits for everyone: schedule for a worker, the workers for room in
\* results, consume for schedule to take its event.
PipelineStuck ==
  /\ ~DispatchCtxDone
  /\ schedPc = "send" /\ consumer.pc = "post"
  /\ \A w \in Workers : worker[w].pc = "reporting"
  /\ Len(results) = ResultsCap

\* The ring of blocking sends never closes on itself before shutdown.
NoPipelineDeadlock == ~PipelineStuck

\* done is closed, and so Stop returns, only when nothing is left in the
\* pipeline: no goroutine of it runs and no result is unhandled.
DoneMeansDrained ==
  consumer.pc = "exited" =>
    /\ Taken = {} /\ schedPc = "exited"
    /\ \A w \in Workers : worker[w].pc = "exited"

\* In-flight checks drain on shutdown: one is cut short only after the
\* deadline of Stop.
DrainNotAborted ==
  \/ stopPc \in {"forced", "returnedErr"}
  \/ /\ \A w \in Workers : worker[w].out # "aborted"
     /\ \A i \in DOMAIN results : results[i].out # "aborted"
     /\ consumer.out # "aborted"

\* The scheduler implements CheckCycle: however many goroutines take part, a
\* config runs one check at a time, begun with the settings of the moment, and
\* a dropped config begins none.
RunningVersion(c) ==
  IF sending # NoJob /\ sending.cfg = c THEN sending.ver
  ELSE IF \E w \in Workers : worker[w].pc = "checking" /\ worker[w].job.cfg = c
  THEN worker[CHOOSE w \in Workers :
                worker[w].pc = "checking" /\ worker[w].job.cfg = c].job.ver
  ELSE NoVersion

Cycle == INSTANCE CheckCycle WITH
  job <- [c \in Configs |->
            IF Scheduled(c) THEN checkJob[states[c]].ver ELSE NoVersion],
  running <- [c \in Configs |-> RunningVersion(c)],
  out <- Outstanding

ImplementsCycle == Cycle!CycleSpec

\* A scheduled config keeps being checked: as long as it stays scheduled and
\* nobody stops the program, a result of it reaches the handler again and
\* again.
SteadyStream ==
  \A c \in Configs :
    Scheduled(c) ~> \/ consumer.pc = "handle" /\ consumer.job.cfg = c
                    \/ ~Scheduled(c) \/ DispatchCtxDone

\* Every config event sent is applied, unless the program stops first.
EventsApplied ==
  configEvents # <<>> ~> configEvents = <<>> \/ DispatchCtxDone

\* Stop returns.
StopCompletes == stopPc = "waiting" ~> stopPc \in {"returned", "returnedErr"}
=============================================================================
