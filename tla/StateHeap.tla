------------------------------ MODULE StateHeap ------------------------------
(***************************************************************************)
(* The scheduler's heap of states with real times: heap.go under           *)
(* container/heap, and what schedule does to it.  Scheduler reduces time   *)
(* to due or not due and the heap to a bag; here the heap is the slice     *)
(* with the index every State keeps of its place in it, nextDue is a time, *)
(* and the timer is what sleepUntilNext makes of the head.  The workers    *)
(* and the consumer are reduced to checks that end and report in any order.*)
(***************************************************************************)
EXTENDS Integers, Sequences, FiniteSets, SequencesExt

CONSTANTS
  Configs,         \* ids of the check configs
  Intervals,       \* intervals a config may have
  Objs,            \* addresses a *State may have
  NoObj,           \* nil
  NoJob,           \* nothing at this address yet
  JitterMax,       \* buildEntries: a first check is due within this time
  Hour,            \* sleepUntilNext: the sleep when the heap is empty
  MaxNow,          \* bound: the clock
  MaxConfigEvents, \* bound: config events in one behaviour
  MaxHeap          \* bound: entries in the heap, doubled ones included

ASSUME HeapAssumption ==
  /\ Intervals \subseteq Nat \ {0}
  /\ NoObj \notin Objs \cup Configs /\ NoJob \notin [cfg : Configs, int : Intervals]
  /\ IsFiniteSet(Configs) /\ \E f \in [Configs -> Objs] : IsInjective(f)
  /\ {JitterMax, Hour, MaxNow, MaxConfigEvents, MaxHeap} \subseteq Nat

VARIABLES
  now,       \* the clock
  states,    \* s.states: config id -> address, or NoObj
  job,       \* checkJob of the State at each address: its config and interval
  nextDue,   \* nextDue of each State
  inFlight,  \* the States whose inFlight flag is set
  hp,        \* the heap: the slice q and the field index of each State
  schedPc,   \* schedule: "dispatch", "send" (blocked on jobs), "select"
  cut,       \* the `now` dispatch read on entry
  sending,   \* the config whose job schedule is blocked on, or NoObj
  timer,     \* when the timer fires
  checking,  \* how many checks of each config are under way
  reports,   \* completions on their way to schedule
  sent,      \* number of config events so far
  doubled    \* history: a State was pushed that was in the heap already

vars == <<now, states, job, nextDue, inFlight, hp, schedPc, cut, sending,
          timer, checking, reports, sent, doubled>>

Jobs == [cfg : Configs, int : Intervals]
LesserOf(a, b) == IF a < b THEN a ELSE b
GreaterOf(a, b) == IF a < b THEN b ELSE a

-----------------------------------------------------------------------------
(* heap.go and container/heap.  Places count from 0, as in the code; due is  *)
(* the nextDue of every State at the time of the call.                       *)

Len0(h) == Len(h.q)
At(h, i) == h.q[i + 1]

\* Mutant: a max-heap.
LessInverted(h, due, i, j) == due[At(h, j)] < due[At(h, i)]

Less(h, due, i, j) == due[At(h, i)] < due[At(h, j)]

\* Mutant: only the first of the two States is told its new place.
SwapHalfIndexed(h, i, j) ==
  [q  |-> [h.q EXCEPT ![i + 1] = At(h, j), ![j + 1] = At(h, i)],
   ix |-> [h.ix EXCEPT ![At(h, j)] = i]]

Swap(h, i, j) ==
  [q  |-> [h.q EXCEPT ![i + 1] = At(h, j), ![j + 1] = At(h, i)],
   ix |-> [h.ix EXCEPT ![At(h, j)] = i, ![At(h, i)] = j]]

\* Pop takes the last State and forgets its place.
DropLast(h) ==
  [q  |-> Front(h.q), ix |-> [h.ix EXCEPT ![Last(h.q)] = -1]]

AppendState(h, o) ==
  [q |-> Append(h.q, o), ix |-> [h.ix EXCEPT ![o] = Len0(h)]]

\* A loop of container/heap: the heap and the place the loop has come to, and
\* round, which leaves them as they are once the loop is over.  No loop has more
\* rounds than the heap has places.
Cursors == [heap : [q : Seq(Objs), ix : [Objs -> Int]], at : Int]
Loop(round, start) ==
  LET after[n \in Nat] == IF n = 0 THEN start ELSE round[after[n - 1]]
  IN  after[Len0(start.heap)]

UpRound(due) ==
  [x \in Cursors |->
    LET i == (x.at - 1) \div 2 IN
    IF x.at = 0 \/ ~Less(x.heap, due, x.at, i) THEN x
    ELSE [heap |-> Swap(x.heap, i, x.at), at |-> i]]
SiftUp(h, due, j) == Loop(UpRound(due), [heap |-> h, at |-> j]).heap

\* The child to compare with: the right one if there is one and it is due first.
LesserChild(h, due, i, n) ==
  LET left == 2 * i + 1 IN
  IF left + 1 < n /\ Less(h, due, left + 1, left) THEN left + 1 ELSE left

DownRound(due, n) ==
  [x \in Cursors |->
    LET j == LesserChild(x.heap, due, x.at, n) IN
    IF 2 * x.at + 1 >= n \/ ~Less(x.heap, due, j, x.at) THEN x
    ELSE [heap |-> Swap(x.heap, x.at, j), at |-> j]]
SiftDown(h, due, i, n) == Loop(DownRound(due, n), [heap |-> h, at |-> i])

\* down, and up when down left the State where it was.
Settle(h, due, i, n) ==
  LET below == SiftDown(h, due, i, n)
  IN  IF below.at > i THEN below.heap ELSE SiftUp(below.heap, due, i)

HeapPush(h, due, o) == SiftUp(AppendState(h, o), due, Len0(h))
HeapPop(h, due) ==
  LET n == Len0(h) - 1 IN DropLast(SiftDown(Swap(h, 0, n), due, 0, n).heap)

\* Mutant: the new nextDue is not told to the heap.
NoFix(h, due, i) == h

HeapFix(h, due, i) == Settle(h, due, i, Len0(h))
HeapRemove(h, due, i) ==
  LET n == Len0(h) - 1 IN
  DropLast(IF i = n THEN h ELSE Settle(Swap(h, i, n), due, i, n))

BuildRound(due) ==
  [x \in Cursors |->
    IF x.at < 0 THEN x
    ELSE [heap |-> SiftDown(x.heap, due, x.at, Len0(x.heap)).heap, at |-> x.at - 1]]
HeapInit(h, due) ==
  Loop(BuildRound(due), [heap |-> h, at |-> Len0(h) \div 2 - 1]).heap

-----------------------------------------------------------------------------
(* Start: every enabled config gets a State, due within its jitter window;   *)
(* the slice is filled in the order of a map and made a heap.                *)

InHeap == ToSet(hp.q)
Entries == {states[c] : c \in Configs} \ {NoObj}
NotLive(o) == o \notin InHeap /\ o \notin Entries

Init ==
  /\ now = 0
  /\ states = CHOOSE f \in [Configs -> Objs] : IsInjective(f)
  /\ job \in [Objs -> Jobs \cup {NoJob}] /\ nextDue \in [Objs -> 0..(JitterMax - 1)]
  /\ \A o \in Objs :
       IF o \in Entries
       THEN /\ job[o] # NoJob /\ states[job[o].cfg] = o
            /\ nextDue[o] < LesserOf(job[o].int, JitterMax)
       ELSE job[o] = NoJob /\ nextDue[o] = 0
  /\ \E f \in SetToSeqs(Entries) :
       hp = HeapInit([q |-> f, ix |-> [o \in Objs |->
                        IF \E i \in DOMAIN f : f[i] = o
                        THEN (CHOOSE i \in DOMAIN f : f[i] = o) - 1 ELSE -1]],
                     nextDue)
  /\ inFlight = {} /\ schedPc = "dispatch" /\ cut = 0 /\ sending = NoObj
  /\ timer = Hour /\ checking = [c \in Configs |-> 0] /\ reports = <<>>
  /\ sent = 0 /\ doubled = FALSE

Tick ==
  /\ now < MaxNow
  /\ now' = now + 1
  /\ UNCHANGED <<states, job, nextDue, inFlight, hp, schedPc, cut, sending,
                 timer, checking, reports, sent, doubled>>

-----------------------------------------------------------------------------
(* schedule                                                                  *)

\* The loop begins again: dispatch reads the clock.
LoopAgain ==
  /\ schedPc' = "dispatch" /\ cut' = now
  /\ UNCHANGED <<now, sending, timer, checking>>

HeadDue == hp.q # <<>> /\ nextDue[At(hp, 0)] <= cut

PopDue ==
  /\ schedPc = "dispatch" /\ HeadDue
  /\ hp' = HeapPop(hp, nextDue)
  /\ inFlight' = inFlight \cup {At(hp, 0)}
  /\ sending' = job[At(hp, 0)].cfg
  /\ schedPc' = "send"
  /\ UNCHANGED <<now, states, job, nextDue, cut, timer, checking, reports,
                 sent, doubled>>

\* A worker takes the job.
SendJob ==
  /\ schedPc = "send"
  /\ checking' = [checking EXCEPT ![sending] = @ + 1]
  /\ sending' = NoObj /\ schedPc' = "dispatch"
  /\ UNCHANGED <<now, states, job, nextDue, inFlight, hp, cut, timer, reports,
                 sent, doubled>>

\* sleepUntilNext, as the time the timer is set to.
SleepUntilNext ==
  IF hp.q = <<>> THEN now + Hour ELSE GreaterOf(now, nextDue[At(hp, 0)])

\* dispatch returns and the timer is reset.
Sleep ==
  /\ schedPc = "dispatch" /\ ~HeadDue
  /\ timer' = SleepUntilNext
  /\ schedPc' = "select" /\ cut' = 0
  /\ UNCHANGED <<now, states, job, nextDue, inFlight, hp, sending, checking,
                 reports, sent, doubled>>

TimerFires ==
  /\ schedPc = "select" /\ timer <= now
  /\ LoopAgain
  /\ UNCHANGED <<states, job, nextDue, inFlight, hp, reports, sent, doubled>>

\* case ev := <-events: applyEvent.
RecvEvent(i) ==
  /\ schedPc = "select"
  /\ reports' = RemoveAt(reports, i)
  /\ LET o == states[reports[i].cfg] IN
       IF o = NoObj
       THEN UNCHANGED <<nextDue, inFlight, hp, doubled>>
       ELSE /\ Len0(hp) < MaxHeap
            /\ nextDue' = [nextDue EXCEPT ![o] = reports[i].at + job[o].int]
            /\ inFlight' = inFlight \ {o}
            /\ hp' = HeapPush(hp, nextDue', o)
            /\ doubled' = (doubled \/ o \in InHeap)
  /\ LoopAgain
  /\ UNCHANGED <<states, job, sent>>

\* applyConfigEvent: Created, or Updated for a config that has no state.
Adopt(c, int) ==
  /\ states[c] = NoObj /\ Len0(hp) < MaxHeap
  /\ \E o \in Objs :
       /\ NotLive(o)
       /\ states' = [states EXCEPT ![c] = o]
       /\ job' = [job EXCEPT ![o] = [cfg |-> c, int |-> int]]
       /\ nextDue' = [nextDue EXCEPT ![o] = now]
       /\ inFlight' = inFlight \ {o}
       /\ hp' = HeapPush(hp, nextDue', o)

\* applyConfigEvent: Created or Updated for a config that has a state.
Retarget(c, int, updated) ==
  LET o == states[c] IN
  /\ o # NoObj
  /\ job' = [job EXCEPT ![o].int = int]
  /\ nextDue' = IF updated THEN [nextDue EXCEPT ![o] = now] ELSE nextDue
  /\ hp' = IF o \in inFlight THEN hp ELSE HeapFix(hp, nextDue', hp.ix[o])
  /\ UNCHANGED <<states, inFlight>>

\* Mutant: the heap entry is left behind.
DropNoRemove(c) ==
  LET o == states[c] IN
  /\ o # NoObj
  /\ states' = [states EXCEPT ![c] = NoObj]
  /\ job' = [job EXCEPT ![o] = NoJob]
  /\ UNCHANGED <<hp, nextDue, inFlight>>

\* applyConfigEvent: Deleted.  A State that is left in no place is garbage.
Drop(c) ==
  LET o == states[c] IN
  /\ o # NoObj
  /\ states' = [states EXCEPT ![c] = NoObj]
  /\ hp' = IF o \in inFlight THEN hp ELSE HeapRemove(hp, nextDue, hp.ix[o])
  /\ IF o \in ToSet(hp'.q)
     THEN UNCHANGED <<job, nextDue, inFlight>>
     ELSE /\ job' = [job EXCEPT ![o] = NoJob]
          /\ nextDue' = [nextDue EXCEPT ![o] = 0]
          /\ inFlight' = inFlight \ {o}

\* case ev := <-s.configEvents, whatever the service has sent.
RecvConfigEvent(c) ==
  /\ schedPc = "select"
  /\ sent < MaxConfigEvents
  /\ \/ \E int \in Intervals :
          Adopt(c, int) \/ \E updated \in BOOLEAN : Retarget(c, int, updated)
     \/ Drop(c)
  /\ sent' = sent + 1
  /\ LoopAgain
  /\ UNCHANGED <<reports, doubled>>

\* The check ends and CheckedAt is read; the completion travels to schedule.
CheckEnds(c) ==
  /\ checking[c] > 0
  /\ checking' = [checking EXCEPT ![c] = @ - 1]
  /\ reports' = Append(reports, [cfg |-> c, at |-> now])
  /\ UNCHANGED <<now, states, job, nextDue, inFlight, hp, schedPc, cut, sending,
                 timer, sent, doubled>>

Next ==
  \/ Tick \/ PopDue \/ SendJob \/ Sleep \/ TimerFires
  \/ \E i \in DOMAIN reports : RecvEvent(i)
  \/ \E c \in Configs : RecvConfigEvent(c) \/ CheckEnds(c)

Spec == Init /\ [][Next]_vars

-----------------------------------------------------------------------------
(* Properties                                                                *)

\* The types of the variables; what is in the heap or the map has a job.
TypeOK ==
  /\ now \in 0..MaxNow /\ cut \in 0..now /\ timer \in Nat /\ sent \in Nat
  /\ states \in [Configs -> Objs \cup {NoObj}]
  /\ job \in [Objs -> Jobs \cup {NoJob}] /\ nextDue \in [Objs -> Nat]
  /\ \A o \in Objs : job[o] = NoJob => NotLive(o)
  /\ inFlight \subseteq Objs /\ doubled \in BOOLEAN
  /\ hp.q \in Seq(Objs) /\ hp.ix \in [Objs -> -1..(Len0(hp) - 1)]
  /\ schedPc \in {"dispatch", "send", "select"}
  /\ sending \in Configs \cup {NoObj} /\ (sending # NoObj <=> schedPc = "send")
  /\ checking \in [Configs -> Nat] /\ reports \in Seq([cfg : Configs, at : Nat])

\* Whenever applyConfigEvent calls heap.Fix or heap.Remove for a State, the
\* place the State remembers is a place where it is: Remove takes out the
\* config it was told to and never panics.  This holds even when a State sits
\* in the heap twice.
IndexOK ==
  \A c \in Configs : states[c] \in Objs \ inFlight =>
    /\ hp.ix[states[c]] \in 0..(Len0(hp) - 1)
    /\ At(hp, hp.ix[states[c]]) = states[c]

\* schedule never sleeps past a check: nothing in the heap is due before the
\* timer fires, unless the timer is firing already.  It needs the earliest
\* State at the head whatever was pushed, fixed and removed before, and is
\* claimed as long as no State was pushed twice (its two entries share one
\* nextDue and heap.Fix moves one of them).
NoOversleep ==
  ~doubled /\ schedPc = "select" =>
    \A o \in InHeap : timer <= nextDue[o] \/ timer <= now

\* Overdue checks are taken in the order they were due: none overtakes one
\* that is in the heap and was due before it.
OldestFirst ==
  [][\A o \in Objs :
       o \in inFlight' \ inFlight /\ ~doubled =>
         \A p \in InHeap : nextDue[o] <= nextDue[p]]_vars
=============================================================================
