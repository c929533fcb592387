-------------------------------- MODULE Server --------------------------------
(***************************************************************************)
(* cmd/server: how the process starts, serves, and stops.  run builds the  *)
(* scheduler and the HTTP server round one storage and one channel of      *)
(* config events, waits for a signal, and then stops the parts in order:   *)
(* scheduler.Stop, server.Shutdown, storage.Close, the first two under one *)
(* deadline.  The scheduler is reduced to what run sees of it (Scheduler   *)
(* has the detail): it takes events while it dispatches, and is done when  *)
(* every result it still owes has been written.                            *)
(***************************************************************************)
EXTENDS Naturals, FiniteSets

CONSTANTS
  Handlers,   \* requests that may be served at the same time
  EventCap,   \* EventChannelSize
  MaxPending  \* bound: checks and results in the pipeline

ASSUME ServerAssumption ==
  IsFiniteSet(Handlers) /\ EventCap \in Nat \ {0} /\ MaxPending \in Nat

VARIABLES
  mainPc,    \* run: "starting", "serving", "stopping", "shutdown",
             \* "returning" (deferred calls), "exited"
  appCtx,    \* the context of signal.NotifyContext: "live", "done"
  deadline,  \* shutdownCtx: "unset", "running", "passed"
  code,      \* the exit code of the process
  listener,  \* the HTTP listener: "none", "open", "failed", "closed"
  handler,   \* each handler: "idle", "query", "send", "answer"
  refused,   \* handlers whose request failed because storage was closed
  queued,    \* events in eventsChan
  sched,     \* scheduler: "off", "running", "draining", "done"
  pending,   \* checks and results in the pipeline
  lost,      \* "some" once a result could not be written: storage was closed
  storage    \* the database: "open", "closed"

requestVars == <<listener, handler, refused>>
schedVars == <<sched, pending, lost>>
vars == <<mainPc, appCtx, deadline, code, listener, handler, refused, queued,
          sched, pending, lost, storage>>

Init ==
  /\ mainPc = "starting" /\ appCtx = "live" /\ deadline = "unset" /\ code = 0
  /\ listener = "none" /\ handler = [h \in Handlers |-> "idle"] /\ refused = {}
  /\ queued = 0 /\ sched = "off" /\ pending = 0 /\ lost = "none"
  /\ storage = "open"

Alive == mainPc # "exited"

-----------------------------------------------------------------------------
(* run                                                                       *)

\* scheduler.Start loads the configs and starts its goroutines.
StartScheduler ==
  /\ mainPc = "starting"
  /\ mainPc' = "serving" /\ sched' = "running"
  /\ UNCHANGED <<appCtx, deadline, code, requestVars, queued, pending, lost, storage>>

\* The initial load fails: run returns the error, and Close was not deferred yet.
StartFails ==
  /\ mainPc = "starting"
  /\ mainPc' = "exited" /\ code' = 1
  /\ UNCHANGED <<appCtx, deadline, requestVars, queued, schedVars, storage>>

\* The goroutine of ListenAndServe gets its listener, or logs why not.  It may
\* come late: after Shutdown it finds the server closed.
Listen ==
  /\ mainPc \in {"serving", "stopping"} /\ listener = "none"
  /\ listener' \in {"open", "failed"}
  /\ UNCHANGED <<mainPc, appCtx, deadline, code, handler, refused, queued,
                 schedVars, storage>>

Signal ==
  /\ Alive /\ appCtx = "live"
  /\ appCtx' = "done"
  /\ UNCHANGED <<mainPc, deadline, code, requestVars, queued, schedVars, storage>>

\* <-appCtx.Done(): the deadline starts to run and Stop is called.
BeginStop ==
  /\ mainPc = "serving" /\ appCtx = "done"
  /\ mainPc' = "stopping" /\ deadline' = "running"
  /\ UNCHANGED <<appCtx, code, requestVars, queued, schedVars, storage>>

DeadlinePasses ==
  /\ deadline = "running" /\ Alive
  /\ deadline' = "passed"
  /\ UNCHANGED <<mainPc, appCtx, code, requestVars, queued, schedVars, storage>>

\* Mutant: Stop gives up at the deadline without waiting for <-s.done.
StopGivesUp ==
  /\ mainPc = "stopping" /\ (sched = "done" \/ deadline = "passed")
  /\ mainPc' = "shutdown"
  /\ listener' = "closed"
  /\ UNCHANGED <<appCtx, deadline, code, handler, refused, queued, schedVars, storage>>

\* Mutant: storage is closed before the HTTP server is shut down.
CloseFirst ==
  /\ mainPc = "stopping" /\ sched = "done"
  /\ mainPc' = "shutdown"
  /\ listener' = "closed" /\ storage' = "closed"
  /\ UNCHANGED <<appCtx, deadline, code, handler, refused, queued, schedVars>>

\* Stop returns, before or after the deadline, when done is closed; Shutdown is
\* called and closes the listener.
StopReturns ==
  /\ mainPc = "stopping" /\ sched = "done"
  /\ mainPc' = "shutdown"
  /\ listener' = "closed"
  /\ UNCHANGED <<appCtx, deadline, code, handler, refused, queued, schedVars, storage>>

\* Shutdown returns nil: no connection is active.
ShutdownClean ==
  /\ mainPc = "shutdown" /\ \A h \in Handlers : handler[h] = "idle"
  /\ mainPc' = "returning" /\ code' = 0
  /\ UNCHANGED <<appCtx, deadline, requestVars, queued, schedVars, storage>>

\* Mutant: Shutdown is called without a deadline.
ShutdownNeverFails == FALSE /\ UNCHANGED vars

\* Shutdown returns the context's error: run will report it.
ShutdownFails ==
  /\ mainPc = "shutdown" /\ deadline = "passed"
  /\ \E h \in Handlers : handler[h] # "idle"
  /\ mainPc' = "returning" /\ code' = 1
  /\ UNCHANGED <<appCtx, deadline, requestVars, queued, schedVars, storage>>

\* The deferred storage.Close.
CloseStorage ==
  /\ mainPc = "returning" /\ storage = "open"
  /\ storage' = "closed"
  /\ UNCHANGED <<mainPc, appCtx, deadline, code, requestVars, queued, schedVars>>

\* The process ends, with whatever its goroutines were doing.
Exit ==
  /\ mainPc = "returning" /\ storage = "closed"
  /\ mainPc' = "exited"
  /\ UNCHANGED <<appCtx, deadline, code, requestVars, queued, schedVars, storage>>

-----------------------------------------------------------------------------
(* The handlers                                                              *)

Accept(h) ==
  /\ Alive /\ listener = "open" /\ handler[h] = "idle"
  /\ handler' = [handler EXCEPT ![h] = "query"]
  /\ refused' = refused \ {h}
  /\ UNCHANGED <<mainPc, appCtx, deadline, code, listener, queued, schedVars, storage>>

\* The service reads and writes; a change of the schedule has an event to send.
Query(h) ==
  /\ Alive /\ handler[h] = "query"
  /\ IF storage = "open"
     THEN /\ \E next \in {"send", "answer"} : handler' = [handler EXCEPT ![h] = next]
          /\ UNCHANGED refused
     ELSE /\ handler' = [handler EXCEPT ![h] = "answer"]
          /\ refused' = refused \cup {h}
  /\ UNCHANGED <<mainPc, appCtx, deadline, code, listener, queued, schedVars, storage>>

\* Mutant: events are queued without a bound.
SendEventUnbounded(h) ==
  /\ Alive /\ handler[h] = "send" /\ queued < EventCap + 1
  /\ queued' = queued + 1
  /\ handler' = [handler EXCEPT ![h] = "answer"]
  /\ UNCHANGED <<mainPc, appCtx, deadline, code, listener, refused, schedVars, storage>>

\* sendEvent: room in eventsChan; a request may have more events to send.
SendEvent(h) ==
  /\ Alive /\ handler[h] = "send" /\ queued < EventCap
  /\ queued' = queued + 1
  /\ \E next \in {"send", "answer"} : handler' = [handler EXCEPT ![h] = next]
  /\ UNCHANGED <<mainPc, appCtx, deadline, code, listener, refused, schedVars, storage>>

\* sendEvent: the client is gone, the event is dropped.
DropEvent(h) ==
  /\ Alive /\ handler[h] = "send"
  /\ handler' = [handler EXCEPT ![h] = "answer"]
  /\ UNCHANGED <<mainPc, appCtx, deadline, code, listener, refused, queued,
                 schedVars, storage>>

Answer(h) ==
  /\ Alive /\ handler[h] = "answer"
  /\ handler' = [handler EXCEPT ![h] = "idle"]
  /\ UNCHANGED <<mainPc, appCtx, deadline, code, listener, refused, queued,
                 schedVars, storage>>

-----------------------------------------------------------------------------
(* The scheduler, as run sees it                                             *)

\* Mutant: config events are not among the cases of schedule's select.
TakeNoEvent == FALSE /\ UNCHANGED vars

TakeEvent ==
  /\ Alive /\ sched = "running" /\ queued > 0
  /\ queued' = queued - 1
  /\ UNCHANGED <<mainPc, appCtx, deadline, code, requestVars, schedVars, storage>>

BeginCheck ==
  /\ Alive /\ sched = "running" /\ pending < MaxPending
  /\ pending' = pending + 1
  /\ UNCHANGED <<mainPc, appCtx, deadline, code, requestVars, queued, sched, lost, storage>>

\* A check ends and its result is written, both within their own timeouts.
WriteResult ==
  /\ Alive /\ pending > 0
  /\ pending' = pending - 1
  /\ lost' = IF storage = "closed" THEN "some" ELSE lost
  /\ UNCHANGED <<mainPc, appCtx, deadline, code, requestVars, queued, sched, storage>>

\* dispatchCtx is done, by the signal or by Stop: schedule returns.
StopDispatching ==
  /\ Alive /\ sched = "running" /\ appCtx = "done"
  /\ sched' = "draining"
  /\ UNCHANGED <<mainPc, appCtx, deadline, code, requestVars, queued, pending, lost, storage>>

\* The workers are gone and the last result is handled: done is closed.
Drained ==
  /\ Alive /\ sched = "draining" /\ pending = 0
  /\ sched' = "done"
  /\ UNCHANGED <<mainPc, appCtx, deadline, code, requestVars, queued, pending, lost, storage>>

-----------------------------------------------------------------------------
Run ==
  \/ StartScheduler \/ StartFails \/ Listen \/ Signal \/ BeginStop
  \/ DeadlinePasses \/ StopReturns \/ ShutdownClean \/ ShutdownFails
  \/ CloseStorage \/ Exit

Serve(h) == Accept(h) \/ Query(h) \/ SendEvent(h) \/ DropEvent(h) \/ Answer(h)

Pipeline == TakeEvent \/ BeginCheck \/ WriteResult \/ StopDispatching \/ Drained

\* The process has ended.
Exited == mainPc = "exited" /\ UNCHANGED vars

Next == Run \/ (\E h \in Handlers : Serve(h)) \/ Pipeline \/ Exited

Spec == Init /\ [][Next]_vars

\* Goroutines that can run do run, queries and checks end, the deadline passes.
\* A select that has both the context and other cases ready takes the context
\* sooner or later; a sender waiting in a channel's queue is served in turn.
\* Nothing is assumed of the signal, of requests coming, or of clients going.
Fairness ==
  /\ WF_vars(StartScheduler \/ StartFails) /\ WF_vars(BeginStop)
  /\ WF_vars(DeadlinePasses) /\ WF_vars(StopReturns)
  /\ WF_vars(ShutdownClean \/ ShutdownFails) /\ WF_vars(CloseStorage)
  /\ WF_vars(Exit)
  /\ \A h \in Handlers :
       /\ WF_vars(Query(h)) /\ WF_vars(Answer(h))
       /\ SF_vars(SendEvent(h) /\ handler'[h] = "answer")
  /\ WF_vars(TakeEvent) /\ WF_vars(WriteResult)
  /\ WF_vars(StopDispatching) /\ WF_vars(Drained)

FairSpec == Spec /\ Fairness

-----------------------------------------------------------------------------
(* Properties                                                                *)

\* The types of the variables.
TypeOK ==
  /\ mainPc \in {"starting", "serving", "stopping", "shutdown", "returning", "exited"}
  /\ appCtx \in {"live", "done"} /\ deadline \in {"unset", "running", "passed"}
  /\ code \in {0, 1} /\ listener \in {"none", "open", "failed", "closed"}
  /\ handler \in [Handlers -> {"idle", "query", "send", "answer"}]
  /\ refused \subseteq Handlers
  /\ queued \in 0..EventCap
  /\ sched \in {"off", "running", "draining", "done"}
  /\ pending \in 0..MaxPending
  /\ lost \in {"none", "some"} /\ storage \in {"open", "closed"}

\* Every result the scheduler obtained is written before the database is
\* closed, even when its drain outlasts the deadline that Stop was given: Stop
\* returns only when done is closed, and Close comes after it.
ResultsSafe == lost = "none"

\* Exit code 0 means what it says: the requests accepted, those that came while
\* the scheduler drained included, were served from an open database and have
\* been answered.
CleanExit ==
  mainPc \in {"returning", "exited"} /\ code = 0 =>
    refused = {} /\ \A h \in Handlers : handler[h] = "idle"

\* A signal ends the process, although a handler may wait for ever for room in
\* eventsChan once the scheduler takes no more events, and although the drain
\* itself has no deadline.
ProcessExits == appCtx = "done" ~> mainPc = "exited"

\* A request is answered or the process ends: a handler waits for the scheduler
\* to take an event only as long as there is a scheduler.
RequestsEnd ==
  \A h \in Handlers : handler[h] # "idle" ~> handler[h] = "idle" \/ ~Alive
=============================================================================
