---------------------------- MODULE ServerProofs ----------------------------
(***************************************************************************)
(* Theorems about Server, for any number of requests, any capacity of      *)
(* eventsChan and any number of checks in the pipeline.                    *)
(***************************************************************************)
EXTENDS Server, TLAPS

USE ServerAssumption DEF ServerAssumption

\* The order in which run takes the process apart: the database is closed
\* last, after a scheduler that owes nothing, behind a closed listener, and
\* the exit code 0 was chosen when nobody was being served.
StopOrder ==
  /\ sched = "done" => pending = 0
  /\ mainPc \in {"shutdown", "returning"} => sched = "done" /\ listener = "closed"
  /\ storage = "closed" => mainPc \in {"returning", "exited"}
  /\ refused # {} => storage = "closed"
  /\ ResultsSafe /\ CleanExit

Inv == TypeOK /\ StopOrder

LEMMA InvInit == Init => Inv
<1> SUFFICES ASSUME Init PROVE Inv
  OBVIOUS
<1>1. TypeOK
  BY DEF Init, TypeOK
<1>2. StopOrder
  BY DEF Init, StopOrder, ResultsSafe, CleanExit
<1> QED
  BY <1>1, <1>2 DEF Inv

\* The scheduler's own steps: only a result that is owed is written, and
\* nothing is owed once it is done.
LEMMA PipelineStep == Inv /\ Pipeline => Inv'
<1> SUFFICES ASSUME Inv, Pipeline PROVE Inv'
  OBVIOUS
<1> USE DEF Inv, TypeOK, StopOrder, ResultsSafe, CleanExit, requestVars, schedVars, Alive
<1>1. CASE TakeEvent
  BY <1>1 DEF TakeEvent
<1>2. CASE BeginCheck
  BY <1>2 DEF BeginCheck
<1>3. CASE WriteResult
  BY <1>3 DEF WriteResult
<1>4. CASE StopDispatching
  BY <1>4 DEF StopDispatching
<1>5. CASE Drained
  BY <1>5 DEF Drained
<1> QED
  BY <1>1, <1>2, <1>3, <1>4, <1>5 DEF Pipeline

\* A handler's step: none begins behind a closed listener, and only a closed
\* database refuses one.
LEMMA ServeStep == ASSUME Inv, NEW h \in Handlers, Serve(h) PROVE Inv'
<1> USE DEF Inv, TypeOK, StopOrder, ResultsSafe, CleanExit, requestVars, schedVars, Alive
<1>1. CASE Accept(h)
  BY <1>1 DEF Accept
<1>2. CASE Query(h)
  <2>1. CASE storage = "open"
    BY <1>2, <2>1 DEF Query
  <2>2. CASE storage # "open"
    BY <1>2, <2>2 DEF Query
  <2> QED
    BY <2>1, <2>2
<1>3. CASE SendEvent(h)
  BY <1>3 DEF SendEvent
<1>4. CASE DropEvent(h)
  BY <1>4 DEF DropEvent
<1>5. CASE Answer(h)
  BY <1>5 DEF Answer
<1> QED
  BY <1>1, <1>2, <1>3, <1>4, <1>5 DEF Serve

\* A step of run.
LEMMA RunStep == Inv /\ Run => Inv'
<1> SUFFICES ASSUME Inv, Run PROVE Inv'
  OBVIOUS
<1> USE DEF Inv, TypeOK, StopOrder, ResultsSafe, CleanExit, requestVars, schedVars, Alive
<1>1. CASE StartScheduler \/ StartFails
  BY <1>1 DEF StartScheduler, StartFails
<1>2. CASE Listen \/ Signal \/ BeginStop \/ DeadlinePasses
  BY <1>2 DEF Listen, Signal, BeginStop, DeadlinePasses
<1>3. CASE StopReturns
  BY <1>3 DEF StopReturns
<1>4. CASE ShutdownClean \/ ShutdownFails
  BY <1>4 DEF ShutdownClean, ShutdownFails
<1>5. CASE CloseStorage \/ Exit
  BY <1>5 DEF CloseStorage, Exit
<1> QED
  BY <1>1, <1>2, <1>3, <1>4, <1>5 DEF Run

LEMMA InvStep == Inv /\ [Next]_vars => Inv'
<1>1. Inv /\ (Exited \/ UNCHANGED vars) => Inv'
  BY DEF Inv, TypeOK, StopOrder, ResultsSafe, CleanExit, Exited, vars
<1> QED
  BY <1>1, PipelineStep, ServeStep, RunStep DEF Next

LEMMA InvAlways == Spec => []Inv
<1> QED
  BY InvInit, InvStep, PTL DEF Spec

\* The variables keep their types.
THEOREM ServerTyped == Spec => []TypeOK
<1>1. Inv => TypeOK
  BY DEF Inv
<1> QED
  BY <1>1, InvAlways, PTL

\* However long the drain takes, no result meets a closed database.
THEOREM ResultsAreSafe == Spec => []ResultsSafe
<1>1. Inv => ResultsSafe
  BY DEF Inv, StopOrder
<1> QED
  BY <1>1, InvAlways, PTL

\* Exit code 0 means that every accepted request was served and answered.
THEOREM ExitIsClean == Spec => []CleanExit
<1>1. Inv => CleanExit
  BY DEF Inv, StopOrder
<1> QED
  BY <1>1, InvAlways, PTL
=============================================================================
