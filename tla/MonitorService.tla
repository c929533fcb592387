--------------------------- MODULE MonitorService ---------------------------
(***************************************************************************)
(* The requests that change monitors: internal/monitor (Service and the    *)
(* Monitor aggregate) over storage/sqlite, and the config events they send *)
(* to the scheduler.                                                       *)
(*                                                                         *)
(* Handlers run concurrently and nothing orders them: each reads the       *)
(* aggregate (two queries), changes its own copy, writes the rows that     *)
(* changed, and then sends one event per check job that its copy gained,   *)
(* lost or changed. The scheduler is here the map those events build.      *)
(*                                                                         *)
(* Ids are fresh uuids. A request for an unknown monitor, or one whose     *)
(* input is malformed, ends before it changes anything and is left out.    *)
(***************************************************************************)
EXTENDS Naturals, Sequences, FiniteSets, Functions

CONSTANTS
  Threads,      \* goroutines that serve requests
  Monitors,     \* ids for monitors to create
  PingOf,       \* PingOf[m]: the id of the ping config of m
  HTTPIds,      \* ids for HTTP configs to create
  Hosts,        \* host names
  Keys,         \* (scheme, path, method) of an HTTP check
  Values,       \* the other settings: interval, timeout, attempts, port, keywords
  None,         \* a field that a PATCH leaves out; the key of a ping config
  EventsCap,    \* capacity of eventsChan
  Cancels,      \* clients may disconnect while events are sent
  MaxRequests,  \* bound: requests served
  MaxRestarts   \* bound: crashes of the process

Configs == Range(PingOf) \cup HTTPIds

ASSUME IdAssumption ==
  /\ PingOf \in [Monitors -> Range(PingOf)]
  /\ \A m, n \in Monitors : m # n => PingOf[m] # PingOf[n]
  /\ Range(PingOf) \cap HTTPIds = {}
  /\ None \notin Keys \cup Values \cup Hosts \cup BOOLEAN
ASSUME BoundAssumption ==
  /\ EventsCap \in Nat \ {0} /\ MaxRequests \in Nat /\ MaxRestarts \in Nat
  /\ Cancels \in BOOLEAN

VARIABLES
  db,         \* the tables: an aggregate per stored monitor
  used,       \* ids given out
  pc,         \* per thread: "idle", "rows", "write", "send"
  req,        \* the request it serves
  seen,       \* the aggregate it has read
  out,        \* the events it has yet to send
  events,     \* eventsChan
  plan,       \* the schedule: config id -> job
  requests,   \* how many were served
  restarts,   \* how many crashes there were
  muddled     \* monitors with overlapping requests or an event given up

threads == <<pc, req, seen, out>>
vars == <<db, used, pc, req, seen, out, events, plan, requests, restarts, muddled>>

Config == [key : Keys \cup {None}, on : BOOLEAN, val : Values]
ConfigTable == UNION {[S -> Config] : S \in SUBSET Configs}
Aggregate == [host : Hosts, cfgs : ConfigTable]
Job == [mon : Monitors, host : Hosts, key : Keys \cup {None}, val : Values]
Event == [type : {"created", "updated", "deleted"}, cfg : Configs, job : Job]

\* A PATCH sets one field: the fields are independent of each other.
Patches ==
  {[key |-> None, on |-> b, val |-> None] : b \in BOOLEAN} \cup
  {[key |-> None, on |-> None, val |-> v] : v \in Values} \cup
  {[key |-> k, on |-> None, val |-> None] : k \in Keys}

Put(f, x, y) == [z \in DOMAIN f \cup {x} |-> IF z = x THEN y ELSE f[z]]
Without(f, S) == Restrict(f, DOMAIN f \ S)
NoConfigs == [c \in {} |-> None]

-----------------------------------------------------------------------------
(***************************************************************************)
(* The aggregate: Monitor.                                                 *)
(***************************************************************************)
JobOf(m, host, g) == [mon |-> m, host |-> host, key |-> g.key, val |-> g.val]

ProjectJobs(m, a) ==
  [c \in {d \in DOMAIN a.cfgs : a.cfgs[d].on} |-> JobOf(m, a.host, a.cfgs[c])]

Merge(g, p) == [f \in DOMAIN g |-> IF p[f] = None THEN g[f] ELSE p[f]]

Clash(a, c, key) == \E d \in DOMAIN a.cfgs \ {c} : key # None /\ a.cfgs[d].key = key

\* Whether the domain accepts request q on the aggregate a.
Accepts(a, q) ==
  CASE q.op = "add"    -> ~Clash(a, q.cfg, q.new.key)
    [] q.op = "patch"  -> /\ q.cfg \in DOMAIN a.cfgs
                          /\ ~Clash(a, q.cfg, Merge(a.cfgs[q.cfg], q.patch).key)
    [] q.op = "remove" -> q.cfg \in DOMAIN a.cfgs
    [] OTHER           -> TRUE

\* The aggregate after it.
Changed(a, q) ==
  CASE q.op = "host"   -> [a EXCEPT !.host = q.host]
    [] q.op = "add"    -> [a EXCEPT !.cfgs = Put(@, q.cfg, q.new)]
    [] q.op = "patch"  -> [a EXCEPT !.cfgs[q.cfg] = Merge(@, q.patch)]
    [] q.op = "remove" -> [a EXCEPT !.cfgs = Without(@, {q.cfg})]
    [] q.op = "delete" -> [a EXCEPT !.cfgs = NoConfigs]
    [] OTHER           -> a

EqualButHost(j, k) == [j EXCEPT !.host = k.host] = k

Equal(j, k) == j = k

\* syncScheduler: the events that turn the jobs before into the jobs after.
Diff(before, after) ==
  {[type |-> "created", cfg |-> c, job |-> after[c]] : c \in DOMAIN after \ DOMAIN before} \cup
  {[type |-> "updated", cfg |-> c, job |-> after[c]] :
     c \in {d \in DOMAIN after \cap DOMAIN before : ~Equal(after[d], before[d])}} \cup
  {[type |-> "deleted", cfg |-> c, job |-> before[c]] : c \in DOMAIN before \ DOMAIN after}

-----------------------------------------------------------------------------
\* What ListEnabledCheckConfigs returns.
EnabledJobs ==
  LET owner(c) == CHOOSE m \in DOMAIN db : c \in DOMAIN ProjectJobs(m, db[m])
  IN  [c \in UNION {DOMAIN ProjectJobs(m, db[m]) : m \in DOMAIN db} |->
         ProjectJobs(owner(c), db[owner(c)])[c]]

\* The process has started on tables that hold a monitor or none.
Init ==
  /\ \E S \in {{}} \cup {{m} : m \in Monitors}, h \in Hosts, v \in Values :
       /\ db = [m \in S |-> [host |-> h, cfgs |->
                  [c \in {PingOf[m]} |-> [key |-> None, on |-> TRUE, val |-> v]]]]
       /\ used = S
  /\ pc = [t \in Threads |-> "idle"] /\ req = [t \in Threads |-> None]
  /\ seen = [t \in Threads |-> None] /\ out = [t \in Threads |-> {}]
  /\ events = <<>> /\ plan = EnabledJobs
  /\ requests = 0 /\ restarts = 0 /\ muddled = {}

Goto(t, label) == pc' = [pc EXCEPT ![t] = label]

Return(t) ==
  /\ Goto(t, "idle")
  /\ req' = [req EXCEPT ![t] = None]
  /\ seen' = [seen EXCEPT ![t] = None]
  /\ out' = [out EXCEPT ![t] = {}]

-----------------------------------------------------------------------------
(***************************************************************************)
(* A request arrives.                                                      *)
(***************************************************************************)
Begin(t, q) ==
  /\ pc[t] = "idle"
  /\ requests < MaxRequests
  /\ requests' = requests + 1
  /\ req' = [req EXCEPT ![t] = q]
  /\ muddled' = IF \E u \in Threads \ {t} : pc[u] # "idle" /\ req[u].mon = q.mon
                THEN muddled \cup {q.mon} ELSE muddled
  /\ UNCHANGED <<db, out, events, plan, restarts>>

\* POST /monitors, with an HTTP config or without. The aggregate is built with no
\* read.
BeginCreate(t) ==
  \E m \in Monitors \ used, h \in Hosts, v \in Values, b \in BOOLEAN, k \in Keys :
  \E S \in {{}} \cup {{c} : c \in HTTPIds \ used} :
    /\ Begin(t, [op |-> "create", mon |-> m])
    /\ used' = used \cup {m} \cup S
    /\ seen' = [seen EXCEPT ![t] = [host |-> h, cfgs |->
                  [c \in {PingOf[m]} \cup S |->
                     [key |-> IF c \in S THEN k ELSE None, on |-> b, val |-> v]]]]
    /\ Goto(t, "write")

RequestsOn(m) ==
  {[op |-> "host", mon |-> m, host |-> h] : h \in Hosts} \cup
  {[op |-> "delete", mon |-> m]} \cup
  {[op |-> "add", mon |-> m, cfg |-> c, new |-> [key |-> k, on |-> b, val |-> v]] :
     c \in HTTPIds \ used, k \in Keys, b \in BOOLEAN, v \in Values} \cup
  {[op |-> "patch", mon |-> m, cfg |-> c, patch |-> p] :
     c \in HTTPIds \cap used, p \in Patches} \cup
  {[op |-> "patch", mon |-> m, cfg |-> PingOf[m], patch |-> p] :
     p \in {r \in Patches : r.key = None}} \cup
  {[op |-> "remove", mon |-> m, cfg |-> c] : c \in HTTPIds \cap used}

\* GetMonitor, first query: the monitor and its ping config.
BeginOther(t) ==
  \E m \in DOMAIN db : \E q \in RequestsOn(m) :
    /\ Begin(t, q)
    /\ used' = IF q.op = "add" THEN used \cup {q.cfg} ELSE used
    /\ seen' = [seen EXCEPT ![t] = [db[m] EXCEPT !.cfgs = Restrict(@, {PingOf[m]})]]
    /\ Goto(t, "rows")

\* Its second query: the HTTP configs, none when the monitor has gone; then the
\* domain accepts the change or the request ends.
ReadHTTPConfigs(t) ==
  /\ pc[t] = "rows"
  /\ LET m == req[t].mon
         rows == IF m \in DOMAIN db THEN Without(db[m].cfgs, {PingOf[m]}) ELSE NoConfigs
         ping == seen[t].cfgs
         a == [seen[t] EXCEPT !.cfgs = [c \in DOMAIN ping \cup DOMAIN rows |->
                 IF c \in DOMAIN ping THEN ping[c] ELSE rows[c]]]
     IN  \/ /\ Accepts(a, req[t])
            /\ seen' = [seen EXCEPT ![t] = a]
            /\ Goto(t, "write")
            /\ UNCHANGED <<req, out>>
         \/ /\ ~Accepts(a, req[t])
            /\ Return(t)
  /\ UNCHANGED <<db, used, events, plan, requests, restarts, muddled>>

-----------------------------------------------------------------------------
(***************************************************************************)
(* The write. Rows are found by id, and the unique indexes decide again.   *)
(***************************************************************************)
HostFreeAlways(m, h) == TRUE

HostFree(m, h) == \A n \in DOMAIN db \ {m} : db[n].host # h

JobsBeforeForgotten(t) == NoConfigs

\* The jobs of the aggregate as it was read; Create starts from none.
JobsBefore(t) ==
  IF req[t].op = "create" THEN NoConfigs ELSE ProjectJobs(req[t].mon, seen[t])

JobsAfter(t) == ProjectJobs(req[t].mon, Changed(seen[t], req[t]))

\* Request op of t writes: when the tables take it they become rows and events
\* follow, otherwise the request ends with an error and sends none.
WriteRows(t, op, accepted, rows) ==
  /\ pc[t] = "write" /\ req[t].op = op
  /\ IF accepted
     THEN /\ db' = rows
          /\ out' = [out EXCEPT ![t] = Diff(JobsBefore(t), JobsAfter(t))]
          /\ seen' = [seen EXCEPT ![t] = None]
          /\ Goto(t, "send")
          /\ UNCHANGED req
     ELSE Return(t) /\ UNCHANGED db
  /\ UNCHANGED <<used, events, plan, requests, restarts, muddled>>

CreateMonitor(t) ==
  WriteRows(t, "create", HostFree(req[t].mon, seen[t].host), Put(db, req[t].mon, seen[t]))

UpdateMonitor(t) ==
  LET m == req[t].mon IN
  WriteRows(t, "host", m \in DOMAIN db /\ HostFree(m, req[t].host),
            [db EXCEPT ![m].host = req[t].host])

DeleteMonitor(t) ==
  WriteRows(t, "delete", req[t].mon \in DOMAIN db, Without(db, {req[t].mon}))

AddHTTPConfig(t) ==
  LET m == req[t].mon
      c == req[t].cfg
  IN  WriteRows(t, "add", m \in DOMAIN db /\ ~Clash(db[m], c, req[t].new.key),
                [db EXCEPT ![m].cfgs = Put(@, c, req[t].new)])

\* UPDATE ... WHERE id = ? writes every column of the config, from the copy.
UpdateConfig(t) ==
  LET m == req[t].mon
      c == req[t].cfg
      new == Changed(seen[t], req[t]).cfgs[c]
  IN  WriteRows(t, "patch",
                m \in DOMAIN db /\ c \in DOMAIN db[m].cfgs /\ ~Clash(db[m], c, new.key),
                [db EXCEPT ![m].cfgs[c] = new])

RemoveHTTPConfig(t) ==
  LET m == req[t].mon
      c == req[t].cfg
  IN  WriteRows(t, "remove", m \in DOMAIN db /\ c \in DOMAIN db[m].cfgs,
                [db EXCEPT ![m].cfgs = Without(@, {c})])

Write(t) ==
  \/ CreateMonitor(t) \/ UpdateMonitor(t) \/ DeleteMonitor(t)
  \/ AddHTTPConfig(t) \/ UpdateConfig(t) \/ RemoveHTTPConfig(t)

\* A query or the write fails, or the client has disconnected by then.
Fail(t) ==
  /\ pc[t] \in {"rows", "write"}
  /\ Return(t)
  /\ UNCHANGED <<db, used, events, plan, requests, restarts, muddled>>

-----------------------------------------------------------------------------
(***************************************************************************)
(* syncScheduler: created and updated jobs in any order (they come from a  *)
(* map), then deleted ones.                                                *)
(***************************************************************************)
Sendable(t) ==
  {e \in out[t] : e.type = "deleted" => \A f \in out[t] : f.type = "deleted"}

SendEvent(t) ==
  /\ pc[t] = "send"
  /\ Len(events) < EventsCap
  /\ \E e \in Sendable(t) :
       /\ events' = Append(events, e)
       /\ out' = [out EXCEPT ![t] = @ \ {e}]
  /\ UNCHANGED <<db, used, pc, req, seen, plan, requests, restarts, muddled>>

\* The client has disconnected: the select may take ctx.Done().
LoseEvent(t) ==
  /\ pc[t] = "send"
  /\ Cancels
  /\ \E e \in Sendable(t) : out' = [out EXCEPT ![t] = @ \ {e}]
  /\ muddled' = muddled \cup {req[t].mon}
  /\ UNCHANGED <<db, used, pc, req, seen, events, plan, requests, restarts>>

Finish(t) ==
  /\ pc[t] = "send" /\ out[t] = {}
  /\ Return(t)
  /\ UNCHANGED <<db, used, events, plan, requests, restarts, muddled>>

\* The scheduler's side: applyConfigEvent as far as the set of jobs goes.
ApplyEvent ==
  /\ events # <<>>
  /\ plan' = IF Head(events).type = "deleted" THEN Without(plan, {Head(events).cfg})
             ELSE Put(plan, Head(events).cfg, Head(events).job)
  /\ events' = Tail(events)
  /\ UNCHANGED <<db, used, threads, requests, restarts, muddled>>

\* The process dies and starts again from the tables.
Restart ==
  /\ restarts < MaxRestarts
  /\ restarts' = restarts + 1
  /\ pc' = [t \in Threads |-> "idle"] /\ req' = [t \in Threads |-> None]
  /\ seen' = [t \in Threads |-> None] /\ out' = [t \in Threads |-> {}]
  /\ events' = <<>>
  /\ plan' = EnabledJobs
  /\ muddled' = {}
  /\ UNCHANGED <<db, used, requests>>

Serve(t) == ReadHTTPConfigs(t) \/ Write(t) \/ SendEvent(t) \/ Finish(t)

Next ==
  \/ \E t \in Threads : \/ BeginCreate(t) \/ BeginOther(t) \/ Serve(t)
                        \/ Fail(t) \/ LoseEvent(t)
  \/ ApplyEvent
  \/ Restart

Spec == Init /\ [][Next]_vars

-----------------------------------------------------------------------------
(***************************************************************************)
(* Properties.                                                             *)
(***************************************************************************)
\* Types, and what the schema promises: every monitor has its ping config, no host
\* is used twice, nor a (scheme, path, method) within a monitor.
TypeOK ==
  /\ DOMAIN db \subseteq Monitors
  /\ \A m \in DOMAIN db :
       /\ db[m] \in Aggregate
       /\ PingOf[m] \in DOMAIN db[m].cfgs
       /\ \A c \in DOMAIN db[m].cfgs : ~Clash(db[m], c, db[m].cfgs[c].key)
       /\ \A n \in DOMAIN db : db[n].host = db[m].host => n = m
  /\ used \subseteq Monitors \cup HTTPIds
  /\ \A t \in Threads :
       /\ pc[t] \in {"idle", "rows", "write", "send"}
       /\ IF pc[t] = "idle" THEN req[t] = None ELSE req[t].mon \in Monitors
       /\ IF pc[t] \in {"rows", "write"} THEN seen[t] \in Aggregate ELSE seen[t] = None
       /\ out[t] \subseteq Event
  /\ events \in Seq(Event) /\ Len(events) <= EventsCap
  /\ DOMAIN plan \subseteq Configs /\ \A c \in DOMAIN plan : plan[c] \in Job
  /\ requests \in 0..MaxRequests /\ restarts \in 0..MaxRestarts
  /\ muddled \subseteq Monitors

Busy(m) == \/ \E t \in Threads : pc[t] # "idle" /\ req[t].mon = m
           \/ \E i \in DOMAIN events : events[i].job.mon = m
Quiet == events = <<>> /\ \A t \in Threads : pc[t] = "idle"

StoredJobs(m) == IF m \in DOMAIN db THEN ProjectJobs(m, db[m]) ELSE NoConfigs
PlannedJobs(m) == Restrict(plan, {c \in DOMAIN plan : plan[c].mon = m})

\* The schedule follows the tables: once the requests on a monitor have ended and
\* their events are applied, exactly its enabled configs are scheduled, with the
\* settings stored, unless requests on it overlapped or an event was given up
\* (syncScheduler, projectJobs, ListEnabledCheckConfigs). Requests on other
\* monitors, failed ones and crashes between write and event do not disturb it.
Converges ==
  \A m \in Monitors \ muddled : ~Busy(m) => PlannedJobs(m) = StoredJobs(m)

\* For such a monitor the scheduler gets a well-formed stream: "created" only for a
\* config it does not know, "updated" and "deleted" only for one it knows. The
\* scheduler relies on it: applyConfigEvent pushes an entry for an id it does not know.
StreamAlternates ==
  events # <<>> /\ Head(events).job.mon \notin muddled =>
    (Head(events).type = "created" <=> Head(events).cfg \notin DOMAIN plan)

\* Removed configs are dropped: once all is quiet the scheduler checks nothing that
\* is not stored.
RemovedAreUnplanned ==
  Quiet => DOMAIN plan \subseteq UNION {DOMAIN db[m].cfgs : m \in DOMAIN db}
=============================================================================
