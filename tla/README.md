# Watchlight in TLA+

Watchlight is a single-process uptime monitor written in Go: HTTP handlers edit monitors and their
check configs in SQLite, a scheduler checks every enabled config again and again, and a result
processor journals the results and keeps incidents. This directory holds TLA+ models of its parts,
the TLC configurations that check them on small instances, and TLAPS proofs for every size.
Paths are relative to the repository; line numbers of every modelled definition are in
`PROJECT.json` under `map`.

## 1. The system

| Part | State | Operations | Talks to |
|---|---|---|---|
| Scheduler, `internal/services/scheduler` | map of states, heap ordered by next due time, channels `jobs` (unbuffered), `results` (W slots), `events` (unbuffered), two contexts | `Start`, `Stop`; goroutines `schedule`, W × `worker`, `consume`, and one that closes `results` | reads the configs once, takes config events, calls checkers and the result processor |
| Result processor, `internal/services/resultprocessor`, `internal/monitor/incident.go` | none of its own; tables `check_results`, `incidents`, `incident_reasons` | `HandleCheckResult` (journal, look up the open incident, save) | called by `consume` only |
| Monitor service, `internal/monitor` | tables `monitors`, `ping_configs`, `http_configs` | `Create`, `Update`, `Delete`, `AddHTTPCheck`, `UpdateHTTPCheck`, `RemoveHTTPCheck`, `UpdatePing`, `Get`, `List` | called by handlers concurrently; sends one event per changed job on `eventsChan` (100 slots) |
| Storage, `internal/storage/sqlite` | the database | one statement or transaction per method, foreign keys with cascade, unique indexes | called by all the others, with no lock above it |
| Server, `cmd/server/main.go` | signal context | starts the parts, waits for the signal, `Stop`, `Shutdown`, `Close` | all |
| Handlers, `internal/http-server`, and value objects, `internal/monitor/vo.go` | none | validate a request, turn raw fields into values, call the service, answer | the service; `List` and `Find` the storage |
| Checkers, config, logging, `cmd/watch`, `cmd/seed` | none | one network request, reading files, printing | |

What is hard here, and what makes each part correct:

* **Scheduler.** Five kinds of goroutines and a ring of bounded channels with no lock. A config must
  never be checked twice at once, never be lost between heap and channels, be dropped when it is
  removed, and have its newest settings; the ring must not lock up; `Stop` must drain, and come back.
  The heap must stay in order and know where each entry is, or the timer sleeps past a check.
* **Result processor.** Three or four transactions per result, results out of order, monitors deleted
  in between, failures and crashes at any point. The journal and the incidents must tell the same
  story, at most one incident is open per monitor, and it closes exactly when its last reason recovers.
* **Monitor service.** Requests run concurrently on private copies of an aggregate. After the last
  one the scheduler must check exactly what is stored.
* **Handlers and values.** A PATCH writes every column from a copy, a listing is put together from
  three queries, and a number passes a validator, a constructor, a multiplication that can overflow and
  an integer column. Rows must stay valid and unique and say what was asked; listings be complete.
* **Server.** The scheduler is stopped, then the HTTP server, then the database, under one deadline,
  while handlers may wait for the scheduler that is gone. No write may meet a closed database, the
  exit code must be true, and the process must end.

`PROJECT.json` lists each hazard at the line where it bites, with the properties that cover it.

## 2. The modules

| Module | What it is |
|---|---|
| `CheckCycle` | abstract: one config is configured, begins a check with its present settings, ends it, is re-armed |
| `Scheduler` | the scheduler in detail; implements `CheckCycle` |
| `StateHeap` | the heap as an array with indices, and a clock: what `Scheduler` leaves out |
| `ResultProcessor` | `HandleCheckResult` over the tables |
| `MonitorService` | requests over the tables, their events, and the schedule those events build |
| `Settings` | the value objects as functions: hosts, paths, numbers of seconds |
| `Catalog` | extends `Settings`: what each route stores and lists |
| `Server` | `cmd/server`: start, signal, stop, exit, with the handlers that are being served |
| `SchedulerProofs`, `SettlingProofs`, `RefinementProofs` | theorems about `Scheduler`, each extending the one before |
| `HeapProofs` | theorems about `StateHeap` |
| `ResultProofs` | theorems about `ResultProcessor` |
| `ServerProofs` | theorems about `Server` |
| `CatalogProofs` | theorems about `Settings` and `Catalog` |
| `ServiceProofs` | theorems about `MonitorService` |
| `MC...` | constants and symmetries for TLC |

### Scheduler

`schedPc`, `batch`, `sending` are the program point of `schedule`: in its loop, with the states that
were due when `dispatch` last read the clock still to be popped, or blocked on `jobs <-`. `worker[w]`,
`consumer` and `closer` are the other goroutines. `states` is the map, from config ids to addresses;
`checkJob` and `inFlight` are the fields of the `State` at an address; `heap` counts how often each
address is in the heap. Addresses matter: a `State` may outlive its entry in the map, and may be on
the heap twice. An unbuffered channel is a joint step of sender and receiver (`SendJob`, `RecvEvent`);
`results` is a sequence. Time is reduced to `due`: any state on the heap may become due at any moment,
which includes every order of the timed heap. `AppCtx` says whether `Start` was given the signal
context (as `main` does) or one of its own (as the tests do). `Revival` says whether a config id may
be scheduled again after a Deleted (disabled, then enabled).

A nil `configEvents`, a missing checker (it reports a failure, like a failing check) and jitter are
not distinguished.

### StateHeap

`hp` is the slice of `heap.go` with the `index` field of every `State`; `Less`, `Swap`, `AppendState`
and `DropLast` are its methods, and `SiftUp`, `SiftDown`, `HeapPush`, `HeapPop`, `HeapFix`,
`HeapRemove`, `HeapInit` are `container/heap`, modelled from the standard library and marked external.
Its three loops are functions (`UpRound`, `DownRound`, `BuildRound`) from a heap and a place to the next
ones, which change nothing once the loop is over; `Loop` takes as many rounds as the heap has places, and
that this is enough is a lemma (`LoopEnds`). A state that was popped has index -1. `nextDue` is a time; `Tick` moves the clock at any moment, so everything
may happen late. `dispatch` reads the clock once (`cut`) and compares every head with that. The workers, the results channel and the consumer shrink to
`checking` (checks under way) and `reports` (completions, received in any order). `JitterMax` is how
far buildEntries spreads the first checks. `doubled` is a history variable: the program has pushed a
`State` that was in the heap (finding 2).

### ResultProcessor

`pc` is the point of `HandleCheckResult` between two database operations: before the journal
(`SaveCheckResult`), before the open-incident query (`FindOpen`), before the query for its reasons
(`ReadReasons`), before `Save` (`SaveIncident`). The domain methods `OpenIncident`, `RecordFailure`,
`RecoverReason`, `tryClose` are operators on records. An action never spans two transactions. Between
them `Requests` disable (`Disable`), enable (`Enable`) and remove (`Remove`) configs or delete the monitor, with
the cascades of the schema (`incident_reasons` has no foreign key to a config). `GiveUp` is any operation that fails or
runs past its deadline, `Crash` a restart of the process. The clock counts checks; the number of a
check serves as its time, as the id of its result, and as the id of the incident it opens. `stale`
is a history variable: configs whose last journaled result did not reach the incidents because of a
fault. `results` keeps the row of each config inserted last, which is all that the properties look at.

A config that stayed in the schedule since the process started has one check at a time, and `Check`
says so. One that a request of this process turned off or removed (`withdrawn`) has no such limit: it
may be checked until the scheduler hears of it, and once it is enabled again its id is new to the
scheduler, which begins a check beside the one still out (finding 2). An overlapping update can do the
same to a removed one (finding 5). So results of a withdrawn config come in any number and any order. A
restart begins a new schedule, and nothing is withdrawn from that.

### MonitorService

A request is `Begin...` (the first query of `GetMonitor`, or the new aggregate for `Create`),
`ReadHTTPConfigs` (the second query, then the domain's checks), one of the
writes `CreateMonitor` ... `RemoveHTTPConfig` (one statement or transaction, with the unique indexes and
"row not found" deciding again), then `SendEvent` until the
diff of `syncScheduler` is sent. An UPDATE of a config (`UpdateConfig`)
writes every column from the private copy. `plan` is the scheduler, reduced to the map that
`applyConfigEvent` maintains. `muddled` is a history variable: monitors on which two requests
overlapped, or one of whose events was given up. A PATCH sets one field; `Create` comes with
at most one HTTP config, which shares its settings with the ping config. `Restart` is a crash followed by `ListEnabledCheckConfigs`.

### Settings and Catalog

`Settings` has the functions a raw field goes through. A `time.Duration` has `Modulus` values and a
second `Second` units, instead of 2^64 and 10^9, and multiplication wraps. A host or a path is a pair
of a name and a spelling; normalising makes the spelling plain, and one spelling of each is refused (a
bare IPv6 address, a path with a scheme). `Catalog` has one action per route. A POST or a DELETE is one
step, since its outcome depends only on the rows it meets; a PATCH of a config is two, the copy
(`BeginPatchCheck`, `BeginPatchPing`) and the UPDATE of every column (`WriteCheck`, `WritePing`); a
listing is its three queries, each of which may fail (`QueryFails`). A monitor and its ping config are one row, which one transaction writes.
History variables: `asked` is each row as the accepted requests asked for it, field by field;
`muddled` are rows written from a copy that was stale by then, and `overflowed` rows that were asked
for an interval that does not fit into a duration. `AsAsked` excepts both, so it says exactly where the
code stops keeping its word; `RowsValid` holds even of muddled rows.

### Server

`mainPc` is where `run` stands, `code` the exit code. A handler is reading and writing (`"query"`),
waiting for room in `eventsChan` (`"send"`), or about to answer; a client that goes makes `sendEvent`
give up. The scheduler is reduced to `sched` and to the number of checks and results it still owes
(`pending`): it takes events while it runs, and is done when nothing is pending, which is theorem
`DrainsFully` of `Scheduler`. One deadline covers `Stop` and `Shutdown`, as in the code. What becomes
of a check when its context is cancelled is not told apart here (`Scheduler` does).

### How they fit

`Scheduler` takes any stream of config events; theorem `StreamWellFormed` of `ServiceProofs` says which
streams the service produces, and `Revival = TRUE` is the case "disabled and enabled again".
`ResultProcessor` takes the results of different configs in any order, but one check at a time of a
config that was not withdrawn: that is theorem `OneFlight` of `SchedulerProofs`, which needs that ids are not
used again. A withdrawn config, whose id may be used again, is checked without that limit. `StateHeap` and `Scheduler` translate the same handlers, one with
times and places, the other with the threads. `Server` relies on two facts about the scheduler: that
it drains (`DrainsFully`, `StopCompletes`), and that it keeps taking events (`EventsApplied`), which
holds with at most 2W+1 configs. `Catalog` and `MonitorService` split the same requests differently:
`MonitorService` has every query and event with few values, `Catalog` the values with few steps.

## 3. The runs

| Run | Bounds | Shows |
|---|---|---|
| `scheduler_safety` | 2 workers, 2 configs, 2 settings, 3 config events | the safety properties of the scheduler, with `Stop` in time and late, and that it implements `CheckCycle` |
| `scheduler_steady` | 1 worker, 3 configs, 1 event, which fills the channel, signal context | the ring does not lock; every scheduled config is handled again and again; events are applied; `Stop` returns |
| `scheduler_overload` *(violated)* | 1 worker, 4 configs | the ring locks up |
| `scheduler_removed` *(violated)* | 2 configs, ids used again | a removed config stays on the heap |
| `scheduler_signal` *(violated)* | 2 configs, signal context | the signal aborts checks |
| `heap_order` | 3 configs, 4 heap entries, 2 intervals, 2 config events, ids used again | indices are right, no oversleeping, oldest first |
| `results_safety` | 2 monitors, 3 configs, 4 checks, 1 fault, 2 requests | all properties of the result processor |
| `results_orphan` *(violated)* | as `results_safety`, 1 request | a disabled config keeps its monitor down |
| `service_overlap` | 2 threads, 2 monitors, 2 HTTP configs of one key, 3 requests, 1 crash, disconnects | convergence of monitors whose requests do not overlap |
| `service_race` *(violated)* | 2 threads, 3 requests | a deleted config is scheduled again |
| `catalog` | 2 monitors, 2 checks, 2 PATCHes at once, 3 requests, a listing at any time | rows stay valid and unique and say what was asked; listings are complete |
| `server_shutdown` | 3 requests, `eventsChan` of 1, 2 results pending | nothing is written to a closed database; exit code 0 is true; the process ends; requests end |

Why the bounds are enough. With W workers the ring holds 2W+1 jobs outside the heap plus the one
`schedule` is sending, so 2W+1 configs fill it as far as it can be filled without locking; W = 1 gives
every place of the ring and W = 2 two workers racing. Three events through a channel of two let a
config be created, changed and removed while it is checked (the scheduler's map keeps only the last).
A heap of four has a head, two children and a grandchild, so entries sift up and down two levels and
the removal of an inner one moves another into its place; two ticks make a check overdue. For results:
a failure, a recovery and a second failure or another config's failure, with a fault or requests
between any two operations, make every path of the handler; four checks allow an incident to open,
close and be followed by another; two requests disable and enable a config while its check is out. For requests: three of them allow two to overlap after one that set
up the state; a channel of two slots gets full. In `catalog` the four hosts are two names, a second
spelling and one that is refused, likewise the paths; the intervals asked for are the default (0), one
below the minimum (1), the largest that fits (10) and the first that wraps (11). In `server_shutdown`
three handlers and one slot let a handler wait while another is answered and a third is accepted.
Configs, addresses, settings, workers, monitors, hosts and keys are symmetric where a run checks safety
only (in `service_overlap` monitors change places together with their ping configs).

`CHECK_DEADLOCK FALSE` is used for `ResultProcessor`, `MonitorService`, `StateHeap` and `Catalog`, whose
bounded inputs or clock run out. The runs of `Scheduler` and `Server` check deadlock: the program ends
in `Terminated` and `Exited`.

Fairness. A goroutine that can run does run (weak). A `select` picks at random among its ready cases,
so a case that is ready again and again is taken (strong, for `RecvEvent`, `RecvConfigEvent`,
`SelectCtxDone`); blocked channel senders are queued (strong, for `Report`). Checks and
result handling have timeouts, so they end. In `Server`, queries end, the deadline passes, and the
scheduler takes events while it runs; that last one (`WF(TakeEvent)`) is what `EventsApplied` shows of
`Scheduler`, and is true only while the ring has not locked. Nothing is assumed of the signal, of
`Stop` being called, of clients, of crashes or of failures.

### What was found

1. **The ring can lock up** (`scheduler_overload`). With 2W+2 configs due at once, every worker waits
   to report, `consume` waits for `schedule`, `schedule` waits for a worker. In production W = 50, so
   102 configs due together are enough. `SteadyStream` holds for 2W+1 configs, and theorem
   `RingNeverStuck` shows that bound is exact from below for every W.
2. **A removed config may stay** (`scheduler_removed`): disabled and enabled again while its check is
   out, it gets two heap entries, and a later removal takes one.
3. **The signal aborts checks** (`scheduler_signal`): `main` starts the scheduler with the signal
   context, so the two-context shutdown never gets its chance.
4. **Nothing removes the reason of a disabled config** (`results_orphan`): its incident stays open.
5. **Concurrent requests leave the schedule different from the tables** (`service_race`), until a
   restart.

Each of these contradicts a line of the repository, quoted in `PROJECT.json` under `findings`. The
following was also met; the models have it, and the properties are stated so as to say where it bites.

* A config enabled again while its check is out may have its results handled out of order: an older
  success then closes an incident that a younger failure opened, with `closed_at` before `started_at`.
  `TimesInOrder` excepts withdrawn configs for that.
* A client that disconnects after its write and before its event (`service.go:203`): the change is
  stored, the client may see an error, and the schedule does not change until a restart. `Converges`
  counts such a monitor as muddled.
* A write that fails is taken to have left no row. If a commit did succeed whose error the client got, its
  monitor would belong with the muddled ones.
* Two PATCHes of one config: the later UPDATE writes every column from its copy and undoes the
  other's field, although "an omitted field leaves the stored value untouched"
  (`httpchecks.go:18-19`). No row becomes invalid by it (`RowsValid`), it only differs from what was
  asked (`AsAsked` excepts it).
* An interval has no upper bound: 9223372037 s and more overflow int64 nanoseconds. Such an interval is
  stored wrapped round (18446744074 s becomes 0), and `rand.Int63n` panics at the next start when the
  value is not positive, although the stored value counts as "trusted, already-validated" (`vo.go:38-40`).
* `GET /monitors` fails with 500 when a monitor with an HTTP check is created between its first two
  queries; `ListFailsOnlyForNew` shows that no other request makes it fail (a database error does).
* A request that came while the scheduler drained may wait for room in `eventsChan` that nobody makes.
  `Shutdown` then uses up the deadline and the process exits with 1; the change is stored. `Stop` has the
  same deadline, so a slow drain leaves `Shutdown` none.
* A second signal is swallowed by `signal.NotifyContext`, so `ProcessExits` is what an operator relies on.
* An `EventUpdated` for a config in flight moves its `nextDue`, and its report overwrites that.
* Not visible in these models: a PATCH with an empty name is stored although `New` refuses one; a bare
  IPv6 host is refused by `NewHost` and a bracketed one by the validator, so no IPv6 monitor can be
  created; `NewPath` refuses blanks and tabs but no other white space; a 5xx answer or a missing keyword
  counts as a success; `Find` and `List` answer `monitor.Monitor`, whose values have unexported fields.

## 4. The proofs

All but `RoundTrip` are about the `Spec` of their module, for every value of the constants that meets the named
assumptions of the module (the workers finite and not empty, every config of one monitor, ids distinct
from `None`, intervals above zero, an address for every config of a finite set, a minimum interval of at least
one second, every host and path with a plain spelling). TLC
evaluates those assumptions in every run.

### SchedulerProofs

| Theorem | Says | Needs |
|---|---|---|
| `TypeCorrect` | `[]TypeOK` | |
| `OneFlight` | `[]SingleFlight` | no id used again |
| `RemovedDropped` | `[]RemovedAreDropped` | no id used again |
| `NothingLost` | `[]NoConfigLost` | |
| `RingNeverStuck` | `[]NoPipelineDeadlock` | no id used again, fewer than 2W+2 configs |

`TypeOK` is not inductive: dispatching needs that an entry of the map points to a `State` whose job is
that config's (`Coherent`); `TypeInv` adds it. `SingleFlight` alone is not inductive either, since
nothing in it stops the heap from holding a config that is also out. `FlightInv` says where a config
may be: under way in at most one place (`Alone`), and then its state is flagged in flight and not on
the heap, and not under way exactly once on the heap; entries of the heap belong to the map; a retired
config is not created again. It holds because of `QueueInv`: after a Deleted in the channel
nothing but further Deleted of that config follows. Both need that ids are not used again, and the
run `scheduler_removed` shows that they must. `KeptInv` (a state flagged in flight really is under way
until shutdown) needs no such assumption. `RingNeverStuck` counts: a stuck ring holds 2W+2 jobs in
distinct places (`PlacesCount`), `SingleFlight` makes their configs distinct.

Lemmas on the ring (`RingStill`, `RingFlow`, `RingEnd`) say what a step does to the places of jobs,
so that the step lemmas do not repeat it for each action.

### SettlingProofs

| Theorem | Says |
|---|---|
| `Settles` | `[]SettledAsWanted` |
| `DrainsFully` | `[]DoneMeansDrained` |
| `DrainsPatiently` | `[]DrainNotAborted` |

They hold with ids used again, too. `SettledAsWanted` speaks of an empty channel only; the invariant
`SettleInv` says which event will settle a config: the last one on its way, or, if none is on its way,
the map already has what is wanted. `DoneMeansDrained` needs the order in which the goroutines end: the
dispatcher closes `jobs` when it has nothing to send, a worker leaves only when it has nothing in hand,
`results` is closed when every worker has left. `DrainNotAborted` needs that the check context is done
only by the signal or by the deadline.

### RefinementProofs

`Implements` is `ImplementsCycle`: under the mapping `Cycle`, every step of `Scheduler` is a step of
`CheckCycle` for some config or changes nothing of it, provided ids are not used again. The step lemmas
say for each action what becomes of the places and settings of a job; `FlightInv` is what excludes that
a second check begins, and `QueueInv` that a removed config comes back.

### HeapProofs

| Theorem | Says |
|---|---|
| `TypeCorrect` | `[]TypeOK` |
| `IndexIsPlace` | `[]IndexOK` |
| `NeverSleepsPast` | `[]NoOversleep` |
| `TakesOldest` | `OldestFirst` |

They hold for any number of configs, addresses, intervals and entries. The first half of the module is
about `container/heap` alone. A loop is a function iterated, so what it computes is shown by induction on
the rounds; the library's induction takes an operator, which no installed prover can instantiate, so
`Inductive` states it for sets instead, from the least element of a set of numbers (`WFMin`).
`LoopEnds` is what every loop needs: rounds that keep an invariant and lessen a measure get to the end.
The invariants of the loops:

* `Shuffled(h, g, n)`: `g` has the states of `h` in other places, those from `n` on untouched, and an
  index that was right is right. This half needs no order and no distinct entries.
* `NearUp` and `NearDown`: every place but one is due no earlier than its parent, and the children of that
  one no earlier than its parent. Going up or down moves the exception; `UpDone` and `DownDone` say that
  where the loop stops there is none. `SettleOrders` is `heap.Fix`: `down`, then `up` if that did nothing.

The second half is the invariant of `schedule`, `HeapInv`. `IndexFits` (in `HeapOK`) says that every index
is -1 or a place where that state is: `IndexOK` then has to show only that a state which is in the map
and not in flight is never at -1. That stays true when a state has been pushed twice, since its index names
the place it was moved to last. `Sorted`, the order of the heap, is claimed only while nothing has
been pushed twice: it needs `Distinct`, as a new `nextDue` must disturb one place and not two, and that
nothing in flight is in the heap, as `Retarget` changes the `nextDue` of such a state without telling the
heap. `TimerSet` is `NoOversleep` for a state of `select`, kept because no step that stays
in `select` touches the heap. The bounds on the clock, events and entries play no part in the argument.

### ResultProofs

| Theorem | Says |
|---|---|
| `TypeCorrect` | `[]TypeOK` |
| `OpensOnce` | `[]OpenIsFree` |
| `ClosesWithLastReason` | `[]ClosedIffEmpty` |
| `HistoryStays` | `ClosedIsFinal` |

They hold with any number of checks, faults, restarts and requests. All four follow from one
invariant, `IncidentInv`. `OpenIsFree` and `ClosedIsFinal` are about what `Save` does with an incident
that was read two transactions earlier, so the invariant has to say what the handler holds:
`HeldOK`, the incident in hand is the open one of its monitor, or the monitor has none, or the monitor
is gone. That survives the other requests because they only remove incidents, and only with their
monitor. `TableOK` is what the unique index and the domain keep together: an id names one incident,
one is open per monitor, and it is open as long as it has reasons. `IdsFresh` says that no result still
to be handled can reuse the number of an incident; without it an upsert could overwrite history.
`Saved` is the lemma on the upsert, `SaveStep` the step that needs all three parts.

| Theorem | Says |
|---|---|
| `InOrder` | `TimesInOrder` |
| `SameStory` | `[]LastResultAgrees` |

These too hold with any number of requests, including those that disable and enable a config while its
check is out. What then can no longer be said is that results of this config come in the order of
their times; `TimesInOrder` is an action property that speaks of configs which are not withdrawn when the
step is taken. `LastResultAgrees` has no such exception, because it speaks of the order of insertion: the
result inserted last decides, whether or not it is the youngest.

`OrderInv` is what `InOrder` needs. A config that was not withdrawn has one result on its way
(`OneOnItsWay`), so its results are handled in the order of their times, though not those of different
configs; the journal has only older ones (`JournalOrder`). A result on its way is younger than the
incident of which its config is a reason (`Older`): the config was checked again after its failure was
handled. So the incident about to be saved for a config that was not withdrawn has its times in order
(`Sound`), also when reasons of withdrawn ones are in it. `JournalInv` is what `SameStory` adds: the result
in hand is the row inserted last for its config, and what the handler is about to save (`SavesResult`)
is the row of the table with the result taken in and every other reason as it is in the table, although
the row was read a transaction earlier. `Save` replaces all reasons of an incident, so without that
last part it could bring back, or lose, the reason of another config.

### ServerProofs

| Theorem | Says |
|---|---|
| `ServerTyped` | `[]TypeOK` |
| `ResultsAreSafe` | `[]ResultsSafe` |
| `ExitIsClean` | `[]CleanExit` |

`StopOrder` is the invariant: a scheduler that is done owes nothing; past `Stop` it is done and the
listener is closed; the database is closed only after that; and no request has been refused by a
database that is open. Each of the three safety properties is a corollary of that order.

### CatalogProofs

`RoundTrip`: a number of seconds that fits into a duration comes back from `NewInterval` and its column
unchanged, for every unit and every width. `Wrapped` is then the identity, and the division exact. It is
the only theorem about `Settings`.

| Theorem | Says |
|---|---|
| `TypeCorrect` | `[]TypeOK` |
| `RowsStayValid` | `[]RowsValid` |
| `KeysUnique` | `[]NoAliases` |
| `StoredAsAsked` | `[]AsAsked` |
| `ListsAll` | `[]ListComplete` |
| `ListsFailRarely` | `[]ListFailsOnlyForNew` |

None of these is inductive, because of the PATCH that is about to write a row it computed earlier. The
invariant `Rows` adds what that PATCH holds (`Pending`): its row was made from a copy that was valid,
and of a monitor that a check keeps for life. Hence the row it writes is valid whatever happened in between.
`NoAliases` compares names; the indexes compare strings. `Written` (every stored host and path is spelled
plainly) makes the two the same, and `UniqueHosts` and `UniqueChecks` are what the indexes keep. For
`StoredAsAsked`, a row that is not muddled has not changed since it was copied, so the PATCH is one
to what is stored. `Listed` says of a listing between its queries that what it saw is stored, has been
deleted, or has been created since.

### ServiceProofs

| Theorem | Says |
|---|---|
| `TypeCorrect` | `[]TypeOK` |
| `ScheduleFollowsTables` | `[]Converges` |
| `StreamWellFormed` | `[]StreamAlternates` |

They hold for any number of monitors, configs and handlers, with crashes and given-up sends. `Converges`
speaks only of monitors at rest, and `StreamAlternates` of the head of the queue; the invariant
`ServiceInv` says what keeps them so at every moment in between, for the monitors that are not muddled:

* `Owned`: there is an assignment of configs to monitors that everything obeys, the rows, the handlers'
  copies, the queue and the schedule. Without it an event of a muddled monitor could be about a config
  of one that is not. It is existential, since a config id no one has used yet belongs to nobody: `FreshId`
  gives it to the monitor of the request that draws it.
* `Alone` and `Copies`: handlers of one monitor do not overlap, hence what a handler read is still
  stored when it writes. This is what makes the diff of `syncScheduler`, between two private
  copies, a diff between the tables before and after.
* `Stream` and `Sending`: the events in the queue are well formed one after the other, those a handler has
  still to send continue them, and tell what is stored.
* `Settled`: a config with no event left to send is known to the scheduler, counting the queue, exactly
  as the tables have it.

What the scheduler will know once it has taken the first `i` events is `After(plan, events, i, c)`: the
last of these events about `c` decides, and `plan` if there is none. Stated that way it needs no induction over the
queue; `AppliedEntry`, `AfterAppend` and `AfterTail` say what sending and taking an event do to it.
The eight kinds of write differ in what they store; `Writes` says that each either fails and ends the request or
leaves a row and a diff that fit (`Wrote`), and the rest of the proof is about `Wrote` only.

### Model-checked only

* Liveness: `SteadyStream`, `EventsApplied`, `StopCompletes`, `ProcessExits`, `RequestsEnd`. Fairness and
  ENABLED are beyond the prover.
* What `Scheduler` and `StateHeap` have in common is translated twice; that the second implements the
  first is neither proved nor checked.

## 5. Not modelled

* Timeouts and attempts (bounded and stored like intervals), the scheme of a check (part of its key, like
  the path), names, keywords as such: `Catalog` keeps one field of each kind.
* Strings character by character: which spellings normalise to what is given by `Settings`.
* Decoding and encoding JSON, status codes, logging.
* Checkers: one request each, with a timeout; for the scheduler a check is a step that succeeds, fails or
  is aborted. The dashboard, configuration and seeding keep no state.
* `RemoveReason`: it has no caller.
* `Get` and `Find` read one monitor and change nothing; `DeriveStatus` is used in properties.

## 6. Plan

1. Done: `CheckCycle`, `Scheduler`, `StateHeap`, `ResultProcessor`, `MonitorService`, `Settings`,
   `Catalog`, `Server` and their runs; a proof of every safety property and action property the passing
   runs check, and of the refinement of `CheckCycle`.
2. Left: `plan` of `MonitorService` as an abstraction of `states` of `Scheduler`, so that
   `StreamWellFormed` becomes a theorem about the scheduler's input and not a remark.
