---------------------------- MODULE ServiceProofs ----------------------------
(***************************************************************************)
(* Proofs of MonitorService, for any numbers of handlers, monitors and     *)
(* configs, any capacity of eventsChan, any number of requests and         *)
(* restarts, with or without clients that disconnect.                      *)
(*                                                                         *)
(* The schedule follows the tables through two queues: the events in the   *)
(* channel, and those a handler has yet to send. The inductive invariant   *)
(* says, config by config, what the scheduler will know once it has taken  *)
(* the events of the channel (After), and that this and the last events of *)
(* the handler together give what is stored.                               *)
(***************************************************************************)
EXTENDS MonitorService, TLAPS

-----------------------------------------------------------------------------
(* The inductive invariant: types                                            *)

\* What the tables, and an aggregate that Create built, promise of a monitor.
Valid(m, a) ==
  /\ a \in Aggregate
  /\ PingOf[m] \in DOMAIN a.cfgs
  /\ \A c \in DOMAIN a.cfgs : ~Clash(a, c, a.cfgs[c].key)

Tables ==
  /\ DOMAIN db \subseteq Monitors \cap used
  /\ \A m \in DOMAIN db : Valid(m, db[m])
  /\ \A m, n \in DOMAIN db : db[n].host = db[m].host => n = m

Asked(q) ==
  /\ q.op \in {"create", "host", "delete", "add", "patch", "remove"}
  /\ q.mon \in Monitors \cap used
  /\ q.op = "host" => q.host \in Hosts
  /\ q.op = "add" => q.cfg \in HTTPIds \cap used /\ q.new \in Config
  /\ q.op = "patch" => q.cfg \in Configs /\ q.patch \in Patches
  /\ q.op = "remove" => q.cfg \in HTTPIds

ThreadOK(t) ==
  /\ pc[t] \in {"idle", "rows", "write", "send"}
  /\ IF pc[t] = "idle" THEN req[t] = None ELSE Asked(req[t])
  /\ IF pc[t] \in {"rows", "write"} THEN seen[t] \in Aggregate ELSE seen[t] = None
  /\ out[t] \subseteq Event
  /\ pc[t] # "send" => out[t] = {}
  /\ pc[t] = "rows" => req[t].op # "create"
  /\ pc[t] = "write" => /\ req[t].op = "create" => Valid(req[t].mon, seen[t])
                        /\ req[t].op = "patch" => req[t].cfg \in DOMAIN seen[t].cfgs

Queues ==
  /\ events \in Seq(Event) /\ Len(events) <= EventsCap
  /\ DOMAIN plan \subseteq Configs /\ \A c \in DOMAIN plan : plan[c] \in Job

Counts ==
  /\ requests \in 0..MaxRequests /\ restarts \in 0..MaxRestarts
  /\ muddled \subseteq Monitors /\ used \subseteq Monitors \cup HTTPIds

TypeInv ==
  /\ DOMAIN pc = Threads /\ DOMAIN req = Threads
  /\ DOMAIN seen = Threads /\ DOMAIN out = Threads
  /\ Tables /\ Queues /\ Counts
  /\ \A t \in Threads : ThreadOK(t)

-----------------------------------------------------------------------------
(* The inductive invariant: a config belongs to one monitor for life         *)

Given(c) == c \in HTTPIds => c \in used
Owns(own, m, c) == own[c] = m /\ Given(c)

OwnedBy(own, t) ==
  LET m == req[t].mon IN
  /\ pc[t] \in {"rows", "write"} => \A c \in DOMAIN seen[t].cfgs : Owns(own, m, c)
  /\ pc[t] # "idle" /\ req[t].op = "add" => Owns(own, m, req[t].cfg)
  /\ \A e \in out[t] : e.job.mon = m /\ Owns(own, m, e.cfg)

Owned(own) ==
  /\ \A m \in Monitors : own[PingOf[m]] = m
  /\ \A m \in DOMAIN db : \A c \in DOMAIN db[m].cfgs : Owns(own, m, c)
  /\ \A t \in Threads : OwnedBy(own, t)
  /\ \A i \in DOMAIN events : Owns(own, events[i].job.mon, events[i].cfg)
  /\ \A c \in DOMAIN plan : Owns(own, plan[c].mon, c)

-----------------------------------------------------------------------------
(* The inductive invariant: what a monitor that is not muddled can rely on   *)

\* Handlers of one monitor do not overlap.
Alone ==
  \A t, u \in Threads :
    pc[t] # "idle" /\ pc[u] # "idle" /\ req[t].mon = req[u].mon
      /\ req[t].mon \notin muddled => t = u

\* What a handler has read is what is stored.
Current(t) ==
  LET m == req[t].mon
      ping == PingOf[m]
  IN  /\ pc[t] = "rows" =>
           /\ m \in DOMAIN db /\ seen[t].host = db[m].host
           /\ DOMAIN seen[t].cfgs = {ping} /\ seen[t].cfgs[ping] = db[m].cfgs[ping]
      /\ pc[t] = "write" =>
           IF req[t].op = "create" THEN m \notin DOMAIN db
           ELSE m \in DOMAIN db /\ seen[t] = db[m]

Copies == \A t \in Threads : pc[t] # "idle" /\ req[t].mon \notin muddled => Current(t)

\* The job of c in a map of jobs, as a set of one or none.
Entry(f, c) == {f[d] : d \in DOMAIN f \cap {c}}

\* What the scheduler knows of a config once it has taken event e of it.
Effect(e) == IF e.type = "deleted" THEN {} ELSE {e.job}

\* What schedule p knows of c after the first i events of q: the last one of c counts.
Touching(q, i, c) == {k \in 1..i : q[k].cfg = c}
Latest(q, i, c) == {k \in Touching(q, i, c) : \A l \in Touching(q, i, c) : l <= k}
After(p, q, i, c) ==
  IF Touching(q, i, c) = {} THEN Entry(p, c)
  ELSE UNION {Effect(q[k]) : k \in Latest(q, i, c)}

Known(c) == After(plan, events, Len(events), c)

\* The events in the channel are well formed.
Stream ==
  \A i \in DOMAIN events : events[i].job.mon \notin muddled =>
    (events[i].type = "created" <=> After(plan, events, i - 1, events[i].cfg) = {})

\* So are those a handler has yet to send, and they tell what is stored.
Telling(e) ==
  /\ e.type = "created" <=> Known(e.cfg) = {}
  /\ Effect(e) = Entry(StoredJobs(e.job.mon), e.cfg)

Sending ==
  \A t \in Threads : \A e \in out[t] :
    /\ \A f \in out[t] : f.cfg = e.cfg => f = e
    /\ e.job.mon \notin muddled => Telling(e)

\* A config of which no event is left to send is known as it is stored.
Settled(own) ==
  \A c \in Configs : own[c] \notin muddled =>
    \/ \E t \in Threads : \E e \in out[t] : e.cfg = c
    \/ Known(c) = Entry(StoredJobs(own[c]), c)

Follows(own) ==
  Owned(own) /\ Alone /\ Copies /\ Stream /\ Sending /\ Settled(own)

Owners == [Configs -> Monitors \cup {None}]

ServiceInv == TypeInv /\ \E own \in Owners : Follows(own)

-----------------------------------------------------------------------------
(* Configs, tables of configs, aggregates                                    *)

LEMMA TableIntro ==
  ASSUME NEW f, f = [c \in DOMAIN f |-> f[c]], DOMAIN f \subseteq Configs,
         \A c \in DOMAIN f : f[c] \in Config
  PROVE  f \in ConfigTable
<1>1. f \in [DOMAIN f -> Config]
  OBVIOUS
<1> QED
  BY <1>1 DEF ConfigTable

LEMMA TableElim ==
  ASSUME NEW f \in ConfigTable
  PROVE  /\ f = [c \in DOMAIN f |-> f[c]] /\ DOMAIN f \subseteq Configs
         /\ \A c \in DOMAIN f : f[c] \in Config
<1>1. PICK S \in SUBSET Configs : f \in [S -> Config]
  BY DEF ConfigTable
<1> QED
  BY <1>1

LEMMA TableRestrict ==
  ASSUME NEW f \in ConfigTable, NEW S, S \subseteq DOMAIN f
  PROVE  Restrict(f, S) \in ConfigTable
<1>1. DOMAIN Restrict(f, S) = S /\ \A c \in S : Restrict(f, S)[c] = f[c]
  BY DEF Restrict
<1>2. Restrict(f, S) = [c \in DOMAIN Restrict(f, S) |-> Restrict(f, S)[c]]
  BY DEF Restrict
<1> QED
  BY <1>1, <1>2, TableIntro, TableElim

LEMMA TableWithout ==
  ASSUME NEW f \in ConfigTable, NEW S
  PROVE  Without(f, S) \in ConfigTable
BY TableRestrict DEF Without

LEMMA TablePut ==
  ASSUME NEW f \in ConfigTable, NEW c \in Configs, NEW g \in Config
  PROVE  Put(f, c, g) \in ConfigTable
<1> DEFINE p == Put(f, c, g)
<1>1. DOMAIN p = DOMAIN f \cup {c} /\ \A d \in DOMAIN p : p[d] = IF d = c THEN g ELSE f[d]
  BY DEF Put
<1>2. p = [d \in DOMAIN p |-> p[d]]
  BY DEF Put
<1> HIDE DEF p
<1>3. \A d \in DOMAIN p : p[d] \in Config
  BY <1>1, TableElim
<1>4. DOMAIN p \subseteq Configs
  BY <1>1, TableElim
<1>5. p \in ConfigTable
  BY <1>2, <1>3, <1>4, TableIntro
<1> QED
  BY <1>5 DEF p

LEMMA TableEmpty == NoConfigs \in ConfigTable
<1>1. DOMAIN NoConfigs = {} /\ NoConfigs = [c \in DOMAIN NoConfigs |-> NoConfigs[c]]
  BY DEF NoConfigs
<1> QED
  BY <1>1, TableIntro

\* A PATCH leaves a config a config; one without a key leaves the key.
LEMMA MergeType ==
  ASSUME NEW g \in Config, NEW p \in Patches
  PROVE  Merge(g, p) \in Config
<1>1. p \in [key : Keys \cup {None}, on : BOOLEAN \cup {None}, val : Values \cup {None}]
  BY DEF Patches
<1>2. DOMAIN g = {"key", "on", "val"}
  BY DEF Config
<1>3. Merge(g, p) = [key |-> IF p.key = None THEN g.key ELSE p.key,
                     on  |-> IF p.on = None THEN g.on ELSE p.on,
                     val |-> IF p.val = None THEN g.val ELSE p.val]
  BY <1>2 DEF Merge
<1>4. g.key \in Keys \cup {None} /\ g.on \in BOOLEAN /\ g.val \in Values
  BY DEF Config
<1>5. (IF p.on = None THEN g.on ELSE p.on) \in BOOLEAN
  BY <1>1, <1>4
<1> QED
  BY <1>1, <1>3, <1>4, <1>5 DEF Config

-----------------------------------------------------------------------------
(* What a schedule knows after some events                                   *)

LEMMA EntryIs ==
  ASSUME NEW f, NEW c
  PROVE  Entry(f, c) = IF c \in DOMAIN f THEN {f[c]} ELSE {}
BY DEF Entry

Applied(p, e) ==
  IF e.type = "deleted" THEN Without(p, {e.cfg}) ELSE Put(p, e.cfg, e.job)

\* One event is taken: its own config is known as it says, the others as before.
LEMMA AppliedEntry ==
  ASSUME NEW p, NEW e, NEW c
  PROVE  Entry(Applied(p, e), c) = IF e.cfg = c THEN Effect(e) ELSE Entry(p, c)
<1>1. CASE e.type = "deleted"
  <2>1. DOMAIN Applied(p, e) = DOMAIN p \ {e.cfg}
    BY <1>1 DEF Applied, Without, Restrict
  <2>2. \A d \in DOMAIN p \ {e.cfg} : Applied(p, e)[d] = p[d]
    BY <1>1 DEF Applied, Without, Restrict
  <2> QED
    BY <1>1, <2>1, <2>2, EntryIs DEF Effect
<1>2. CASE e.type # "deleted"
  <2>1. DOMAIN Applied(p, e) = DOMAIN p \cup {e.cfg}
    BY <1>2 DEF Applied, Put
  <2>2. \A d \in DOMAIN p \cup {e.cfg} : Applied(p, e)[d] = IF d = e.cfg THEN e.job ELSE p[d]
    BY <1>2 DEF Applied, Put
  <2> QED
    BY <1>2, <2>1, <2>2, EntryIs DEF Effect
<1> QED
  BY <1>1, <1>2

LEMMA AfterNothing ==
  ASSUME NEW p, NEW q, NEW c
  PROVE  After(p, q, 0, c) = Entry(p, c)
BY DEF After, Touching

LEMMA AfterHit ==
  ASSUME NEW p, NEW q, NEW i \in Nat \ {0}, NEW c, q[i].cfg = c
  PROVE  After(p, q, i, c) = Effect(q[i])
<1>1. i \in Touching(q, i, c) /\ \A l \in Touching(q, i, c) : l <= i /\ l \in Nat
  BY DEF Touching
<1>2. Latest(q, i, c) = {i}
  BY <1>1 DEF Latest
<1> QED
  BY <1>1, <1>2 DEF After

LEMMA AfterMiss ==
  ASSUME NEW p, NEW q, NEW i \in Nat \ {0}, NEW c, q[i].cfg # c
  PROVE  After(p, q, i, c) = After(p, q, i - 1, c)
<1>1. Touching(q, i, c) = Touching(q, i - 1, c)
  BY DEF Touching
<1> QED
  BY <1>1 DEF After, Latest

\* An event at the end is not seen before its turn.
LEMMA AfterAppend ==
  ASSUME NEW S, NEW p, NEW q \in Seq(S), NEW e, NEW i \in 0..Len(q), NEW c
  PROVE  After(p, Append(q, e), i, c) = After(p, q, i, c)
<1> DEFINE r == Append(q, e)
<1>1. \A k \in 1..i : r[k] = q[k]
  OBVIOUS
<1> HIDE DEF r
<1>2. Touching(r, i, c) = Touching(q, i, c) /\ Touching(q, i, c) \subseteq 1..i
  BY <1>1 DEF Touching
<1>3. Latest(r, i, c) = Latest(q, i, c) /\ Latest(q, i, c) \subseteq 1..i
  BY <1>2 DEF Latest
<1>4. \A k \in Latest(q, i, c) : Effect(r[k]) = Effect(q[k])
  BY <1>1, <1>3
<1>5. After(p, r, i, c) = After(p, q, i, c)
  BY <1>2, <1>3, <1>4 DEF After
<1> QED
  BY <1>5 DEF r

\* Taking the first event and waiting for the rest come to the same.
LEMMA AfterTail ==
  ASSUME NEW S, NEW p, NEW q \in Seq(S), q # <<>>, NEW i \in 0..(Len(q) - 1), NEW c
  PROVE  After(Applied(p, Head(q)), Tail(q), i, c) = After(p, q, i + 1, c)
<1> DEFINE r == Tail(q)
           h == Head(q)
<1>1. h = q[1] /\ \A k \in 1..i : r[k] = q[k + 1]
  OBVIOUS
<1>2. Len(q) \in Nat /\ i \in Nat
  OBVIOUS
<1> HIDE DEF r, h
<1>3. \A k \in Touching(q, i + 1, c) : k = 1 \/ k - 1 \in Touching(r, i, c)
  BY <1>1, <1>2 DEF Touching
<1>4. \A k \in Touching(r, i, c) : k \in 1..i /\ k + 1 \in Touching(q, i + 1, c)
  BY <1>1, <1>2 DEF Touching
<1>5. 1 \in Touching(q, i + 1, c) <=> h.cfg = c
  BY <1>1, <1>2 DEF Touching
<1>6. Touching(q, i + 1, c) \subseteq 1..(i + 1)
  BY DEF Touching
<1>7. CASE Touching(r, i, c) = {}
  <2>1. CASE h.cfg = c
    <3>1. Latest(q, i + 1, c) = {1}
      BY <1>3, <1>5, <1>7, <2>1 DEF Latest
    <3>2. After(p, q, i + 1, c) = Effect(h)
      BY <1>1, <1>5, <2>1, <3>1 DEF After
    <3> QED
      BY <1>7, <2>1, <3>2, AppliedEntry DEF After, r, h
  <2>2. CASE h.cfg # c
    <3>1. Touching(q, i + 1, c) = {}
      BY <1>3, <1>5, <1>7, <2>2
    <3> QED
      BY <1>7, <2>2, <3>1, AppliedEntry DEF After, r, h
  <2> QED
    BY <2>1, <2>2
<1>8. CASE Touching(r, i, c) # {}
  <2>1. PICK k0 \in Touching(r, i, c) : TRUE
    BY <1>8
  <2>2. Touching(q, i + 1, c) # {}
    BY <1>4, <2>1
  <2>3. ASSUME NEW k \in Latest(r, i, c)
        PROVE  k + 1 \in Latest(q, i + 1, c) /\ q[k + 1] = r[k]
    <3>1. k \in Touching(r, i, c) /\ \A l \in Touching(r, i, c) : l <= k
      BY DEF Latest
    <3>2. \A l \in Touching(q, i + 1, c) : l <= k + 1
      BY <1>2, <1>3, <1>4, <1>6, <3>1
    <3> QED
      BY <1>1, <1>4, <3>1, <3>2 DEF Latest
  <2>4. ASSUME NEW k \in Latest(q, i + 1, c)
        PROVE  k - 1 \in Latest(r, i, c) /\ q[k] = r[k - 1]
    <3>1. k \in Touching(q, i + 1, c) /\ \A l \in Touching(q, i + 1, c) : l <= k
      BY DEF Latest
    <3>2. k # 1
      BY <1>4, <2>1, <3>1
    <3>3. k - 1 \in Touching(r, i, c)
      BY <1>3, <3>1, <3>2
    <3>4. \A l \in Touching(r, i, c) : l <= k - 1
      BY <1>4, <1>6, <3>1
    <3> QED
      BY <1>1, <1>4, <1>6, <3>1, <3>3, <3>4 DEF Latest
  <2>5. UNION {Effect(r[k]) : k \in Latest(r, i, c)} = UNION {Effect(q[k]) : k \in Latest(q, i + 1, c)}
    BY <2>3, <2>4
  <2> QED
    BY <1>8, <2>2, <2>5 DEF After, r, h
<1> QED
  BY <1>7, <1>8

-----------------------------------------------------------------------------
(* Jobs, and the events that syncScheduler makes of them                     *)

LEMMA JobsOf ==
  ASSUME NEW m \in Monitors, NEW a \in Aggregate
  PROVE  LET j == ProjectJobs(m, a) IN
         /\ DOMAIN j \subseteq DOMAIN a.cfgs /\ DOMAIN j \subseteq Configs
         /\ \A c \in DOMAIN j : j[c] \in Job /\ j[c].mon = m
<1> DEFINE j == ProjectJobs(m, a)
<1>1. DOMAIN j = {d \in DOMAIN a.cfgs : a.cfgs[d].on}
  BY DEF ProjectJobs
<1>2. a.host \in Hosts /\ a.cfgs \in ConfigTable
  BY DEF Aggregate
<1>3. DOMAIN a.cfgs \subseteq Configs /\ \A c \in DOMAIN a.cfgs : a.cfgs[c] \in Config
  BY <1>2, TableElim
<1>4. ASSUME NEW c \in DOMAIN j PROVE j[c] \in Job /\ j[c].mon = m
  <2>1. j[c] = [mon |-> m, host |-> a.host, key |-> a.cfgs[c].key, val |-> a.cfgs[c].val]
    BY <1>1 DEF ProjectJobs, JobOf
  <2>2. a.cfgs[c].key \in Keys \cup {None} /\ a.cfgs[c].val \in Values
    BY <1>1, <1>3 DEF Config
  <2> QED
    BY <1>2, <2>1, <2>2 DEF Job
<1> QED
  BY <1>1, <1>3, <1>4

LEMMA NoJobs == \A m, a : a.cfgs = NoConfigs => ProjectJobs(m, a) = NoConfigs
BY DEF ProjectJobs, NoConfigs

\* The events are one for each config whose job differs, and they tell the job after.
LEMMA DiffTells ==
  ASSUME NEW before, NEW after
  PROVE  /\ \A e \in Diff(before, after) :
              /\ e.type \in {"created", "updated", "deleted"}
              /\ e.cfg \in DOMAIN before \cup DOMAIN after
              /\ e.job = IF e.cfg \in DOMAIN after THEN after[e.cfg] ELSE before[e.cfg]
              /\ e = [type |-> e.type, cfg |-> e.cfg, job |-> e.job]
              /\ Effect(e) = Entry(after, e.cfg)
              /\ e.type = "created" <=> Entry(before, e.cfg) = {}
         /\ \A e, f \in Diff(before, after) : e.cfg = f.cfg => e = f
         /\ \A c : (\A e \in Diff(before, after) : e.cfg # c) => Entry(before, c) = Entry(after, c)
<1> DEFINE new == {[type |-> "created", cfg |-> c, job |-> after[c]] : c \in DOMAIN after \ DOMAIN before}
           same == {d \in DOMAIN after \cap DOMAIN before : ~Equal(after[d], before[d])}
           changed == {[type |-> "updated", cfg |-> c, job |-> after[c]] : c \in same}
           gone == {[type |-> "deleted", cfg |-> c, job |-> before[c]] : c \in DOMAIN before \ DOMAIN after}
<1>1. Diff(before, after) = new \cup changed \cup gone
  BY DEF Diff
<1>2. \A e \in new : /\ e.type = "created" /\ e.cfg \in DOMAIN after \ DOMAIN before
                     /\ e.job = after[e.cfg] /\ e = [type |-> e.type, cfg |-> e.cfg, job |-> e.job]
  OBVIOUS
<1>3. \A e \in changed : /\ e.type = "updated" /\ e.cfg \in DOMAIN after \cap DOMAIN before
                         /\ e.job = after[e.cfg] /\ e = [type |-> e.type, cfg |-> e.cfg, job |-> e.job]
  OBVIOUS
<1>4. \A e \in gone : /\ e.type = "deleted" /\ e.cfg \in DOMAIN before \ DOMAIN after
                      /\ e.job = before[e.cfg] /\ e = [type |-> e.type, cfg |-> e.cfg, job |-> e.job]
  OBVIOUS
<1>5. \A c \in DOMAIN after \ DOMAIN before :
        \E e \in new : e = [type |-> "created", cfg |-> c, job |-> after[c]]
  OBVIOUS
<1>6. \A c \in DOMAIN after \cap DOMAIN before : after[c] # before[c] =>
        \E e \in changed : e = [type |-> "updated", cfg |-> c, job |-> after[c]]
  BY DEF Equal
<1>7. \A c \in DOMAIN before \ DOMAIN after :
        \E e \in gone : e = [type |-> "deleted", cfg |-> c, job |-> before[c]]
  OBVIOUS
<1> HIDE DEF new, changed, gone
<1>8. ASSUME NEW e \in Diff(before, after)
      PROVE  /\ e.type \in {"created", "updated", "deleted"}
             /\ e.cfg \in DOMAIN before \cup DOMAIN after
             /\ e.job = IF e.cfg \in DOMAIN after THEN after[e.cfg] ELSE before[e.cfg]
             /\ e = [type |-> e.type, cfg |-> e.cfg, job |-> e.job]
             /\ Effect(e) = Entry(after, e.cfg)
             /\ e.type = "created" <=> Entry(before, e.cfg) = {}
  <2>1. Entry(after, e.cfg) = IF e.cfg \in DOMAIN after THEN {after[e.cfg]} ELSE {}
    BY EntryIs
  <2>2. Entry(before, e.cfg) = IF e.cfg \in DOMAIN before THEN {before[e.cfg]} ELSE {}
    BY EntryIs
  <2> QED
    BY <1>1, <1>2, <1>3, <1>4, <2>1, <2>2 DEF Effect
<1>9. \A e, f \in Diff(before, after) : e.cfg = f.cfg => e = f
  BY <1>1, <1>2, <1>3, <1>4
<1>10. ASSUME NEW c, \A e \in Diff(before, after) : e.cfg # c
       PROVE  Entry(before, c) = Entry(after, c)
  <2>1. \A e \in new \cup changed \cup gone : e.cfg # c
    BY <1>1, <1>10
  <2>2. c \notin DOMAIN after \ DOMAIN before
    BY <1>5, <2>1
  <2>3. c \in DOMAIN after \cap DOMAIN before => after[c] = before[c]
    BY <1>6, <2>1
  <2>4. c \notin DOMAIN before \ DOMAIN after
    BY <1>7, <2>1
  <2> QED
    BY <2>2, <2>3, <2>4, EntryIs
<1> QED
  BY <1>8, <1>9, <1>10

-----------------------------------------------------------------------------
(* What a request makes of an aggregate                                      *)

\* A table with g at c has no clash if c had none.
LEMMA PutValid ==
  ASSUME NEW m \in Monitors, NEW a, Valid(m, a), NEW c \in Configs, NEW g \in Config,
         ~Clash(a, c, g.key)
  PROVE  Valid(m, [a EXCEPT !.cfgs = Put(@, c, g)])
<1> DEFINE p == Put(a.cfgs, c, g)
           b == [a EXCEPT !.cfgs = p]
<1>1. a.host \in Hosts /\ a.cfgs \in ConfigTable
  BY DEF Valid, Aggregate
<1>2. p \in ConfigTable
  BY <1>1, TablePut
<1>3. DOMAIN p = DOMAIN a.cfgs \cup {c} /\ \A d \in DOMAIN p : p[d] = IF d = c THEN g ELSE a.cfgs[d]
  BY DEF Put
<1> HIDE DEF p
<1>4. b \in Aggregate /\ b.cfgs = p /\ b = [host |-> a.host, cfgs |-> p]
  BY <1>1, <1>2 DEF Valid, Aggregate
<1>5. ASSUME NEW d \in DOMAIN p PROVE ~Clash(b, d, p[d].key)
  BY <1>3, <1>4 DEF Clash, Valid
<1>6. Valid(m, b)
  BY <1>3, <1>4, <1>5 DEF Valid
<1> QED
  BY <1>6 DEF p

LEMMA WithoutValid ==
  ASSUME NEW m \in Monitors, NEW a, Valid(m, a), NEW c, c # PingOf[m]
  PROVE  Valid(m, [a EXCEPT !.cfgs = Without(@, {c})])
<1> DEFINE p == Without(a.cfgs, {c})
           b == [a EXCEPT !.cfgs = p]
<1>1. a.host \in Hosts /\ a.cfgs \in ConfigTable
  BY DEF Valid, Aggregate
<1>2. p \in ConfigTable
  BY <1>1, TableWithout
<1>3. DOMAIN p = DOMAIN a.cfgs \ {c} /\ \A d \in DOMAIN p : p[d] = a.cfgs[d]
  BY DEF Without, Restrict
<1> HIDE DEF p
<1>4. b \in Aggregate /\ b.cfgs = p
  BY <1>1, <1>2 DEF Valid, Aggregate
<1>5. ASSUME NEW d \in DOMAIN p PROVE ~Clash(b, d, p[d].key)
  BY <1>3, <1>4 DEF Clash, Valid
<1>6. Valid(m, b)
  BY <1>3, <1>4, <1>5 DEF Valid
<1> QED
  BY <1>6 DEF p

LEMMA HostValid ==
  ASSUME NEW m \in Monitors, NEW a, Valid(m, a), NEW h \in Hosts
  PROVE  Valid(m, [a EXCEPT !.host = h])
<1> DEFINE b == [a EXCEPT !.host = h]
<1>1. a.cfgs \in ConfigTable
  BY DEF Valid, Aggregate
<1>2. b \in Aggregate /\ b.cfgs = a.cfgs
  BY <1>1 DEF Valid, Aggregate
<1> HIDE DEF b
<1>3. Valid(m, b)
  BY <1>2 DEF Valid, Clash
<1> QED
  BY <1>3 DEF b

\* Writing a row that exists is putting it.
LEMMA PutExisting ==
  ASSUME NEW a \in Aggregate, NEW c \in DOMAIN a.cfgs, NEW g
  PROVE  [a EXCEPT !.cfgs[c] = g] = [a EXCEPT !.cfgs = Put(@, c, g)]
<1>1. a.cfgs = [d \in DOMAIN a.cfgs |-> a.cfgs[d]]
  BY TableElim DEF Aggregate
<1>2. [a.cfgs EXCEPT ![c] = g] = Put(a.cfgs, c, g)
  BY <1>1 DEF Put
<1> QED
  BY <1>2

\* What the domain accepted is an aggregate, of the configs that were read and the
\* one that was added.
LEMMA ChangedType ==
  ASSUME TypeInv, NEW t \in Threads, pc[t] = "write"
  PROVE  LET a == Changed(seen[t], req[t]) IN
         /\ a \in Aggregate
         /\ \A c \in DOMAIN a.cfgs :
              c \in DOMAIN seen[t].cfgs \/ (req[t].op = "add" /\ c = req[t].cfg)
<1> DEFINE a == Changed(seen[t], req[t])
<1>1. ThreadOK(t) /\ Asked(req[t]) /\ seen[t] \in Aggregate
  BY DEF TypeInv, ThreadOK
<1>2. seen[t].host \in Hosts /\ seen[t].cfgs \in ConfigTable
  BY <1>1 DEF Aggregate
<1>3. CASE req[t].op = "create"
  BY <1>1, <1>3 DEF Changed
<1>4. CASE req[t].op = "host"
  <2>1. a = [seen[t] EXCEPT !.host = req[t].host]
    BY <1>4 DEF Changed
  <2> QED
    BY <1>1, <1>2, <1>4, <2>1 DEF Aggregate, Asked
<1>5. CASE req[t].op = "delete"
  <2>1. a = [seen[t] EXCEPT !.cfgs = NoConfigs]
    BY <1>5 DEF Changed
  <2>2. a \in Aggregate /\ a.cfgs = NoConfigs
    BY <1>1, <1>2, <2>1, TableEmpty DEF Aggregate
  <2> QED
    BY <2>2 DEF NoConfigs
<1>6. CASE req[t].op = "add"
  <2>1. a = [seen[t] EXCEPT !.cfgs = Put(seen[t].cfgs, req[t].cfg, req[t].new)]
    BY <1>6 DEF Changed
  <2>2. req[t].cfg \in Configs /\ req[t].new \in Config
    BY <1>1, <1>6 DEF Asked, Configs
  <2>3. Put(seen[t].cfgs, req[t].cfg, req[t].new) \in ConfigTable
    BY <1>2, <2>2, TablePut
  <2>4. a \in Aggregate /\ a.cfgs = Put(seen[t].cfgs, req[t].cfg, req[t].new)
    BY <1>1, <1>2, <2>1, <2>3 DEF Aggregate
  <2> QED
    BY <1>6, <2>4 DEF Put
<1>7. CASE req[t].op = "patch"
  <2> DEFINE new == Merge(seen[t].cfgs[req[t].cfg], req[t].patch)
  <2>1. req[t].cfg \in DOMAIN seen[t].cfgs /\ req[t].cfg \in Configs /\ req[t].patch \in Patches
    BY <1>1, <1>7 DEF ThreadOK, Asked
  <2>2. new \in Config
    BY <1>2, <2>1, MergeType, TableElim
  <2>3. a = [seen[t] EXCEPT !.cfgs[req[t].cfg] = new]
    BY <1>7 DEF Changed
  <2> HIDE DEF new
  <2>4. a = [seen[t] EXCEPT !.cfgs = Put(seen[t].cfgs, req[t].cfg, new)]
    BY <1>1, <2>1, <2>3, PutExisting
  <2>5. Put(seen[t].cfgs, req[t].cfg, new) \in ConfigTable
    BY <1>2, <2>1, <2>2, TablePut
  <2>6. a \in Aggregate /\ a.cfgs = Put(seen[t].cfgs, req[t].cfg, new)
    BY <1>1, <1>2, <2>4, <2>5 DEF Aggregate
  <2> QED
    BY <2>1, <2>6 DEF Put
<1>8. CASE req[t].op = "remove"
  <2>1. a = [seen[t] EXCEPT !.cfgs = Without(seen[t].cfgs, {req[t].cfg})]
    BY <1>8 DEF Changed
  <2>2. a \in Aggregate /\ a.cfgs = Without(seen[t].cfgs, {req[t].cfg})
    BY <1>1, <1>2, <2>1, TableWithout DEF Aggregate
  <2> QED
    BY <2>2 DEF Without, Restrict
<1> QED
  BY <1>1, <1>3, <1>4, <1>5, <1>6, <1>7, <1>8 DEF Asked

-----------------------------------------------------------------------------
(* The writes come to two cases                                              *)

\* The request ends and leaves nothing behind.
Ends(t) ==
  Return(t) /\ UNCHANGED <<db, used, events, plan, requests, restarts, muddled>>

\* rows differ from the tables in the monitor of t's request, whose row is valid; if
\* t's copy was current they hold what t made of it.
RowsFit(t, rows) ==
  LET m == req[t].mon IN
  /\ DOMAIN rows \subseteq DOMAIN db \cup {m}
  /\ \A n \in DOMAIN db \ {m} : n \in DOMAIN rows /\ rows[n] = db[n]
  /\ m \in DOMAIN rows =>
       /\ Valid(m, rows[m])
       /\ \A n \in DOMAIN db \ {m} : db[n].host # rows[m].host
       /\ \A c \in DOMAIN rows[m].cfgs :
            \/ m \in DOMAIN db /\ c \in DOMAIN db[m].cfgs
            \/ c \in DOMAIN seen[t].cfgs
            \/ req[t].op = "add" /\ c = req[t].cfg
  /\ Current(t) =>
       /\ StoredJobs(m) = JobsBefore(t)
       /\ JobsAfter(t) = IF m \in DOMAIN rows THEN ProjectJobs(m, rows[m]) ELSE NoConfigs

Wrote(t) ==
  /\ pc[t] = "write" /\ Goto(t, "send")
  /\ seen' = [seen EXCEPT ![t] = None]
  /\ out' = [out EXCEPT ![t] = Diff(JobsBefore(t), JobsAfter(t))]
  /\ RowsFit(t, db')
  /\ UNCHANGED <<used, req, events, plan, requests, restarts, muddled>>

LEMMA CreateWrites ==
  ASSUME TypeInv, NEW t \in Threads, CreateMonitor(t)
  PROVE  Ends(t) \/ Wrote(t)
<1> DEFINE m == req[t].mon
<1>1. pc[t] = "write" /\ req[t].op = "create"
  BY DEF CreateMonitor, WriteRows
<1>2. Valid(m, seen[t]) /\ m \in Monitors
  BY <1>1 DEF TypeInv, ThreadOK, Asked
<1>3. CASE ~HostFree(m, seen[t].host)
  BY <1>3 DEF CreateMonitor, WriteRows, Ends
<1>4. CASE HostFree(m, seen[t].host)
  <2>1. DOMAIN db' = DOMAIN db \cup {m} /\ \A n \in DOMAIN db' : db'[n] = IF n = m THEN seen[t] ELSE db[n]
    BY <1>4 DEF CreateMonitor, WriteRows, Put
  <2>2. \A n \in DOMAIN db \ {m} : db[n].host # seen[t].host
    BY <1>4 DEF HostFree
  <2>3. JobsAfter(t) = ProjectJobs(m, seen[t]) /\ JobsBefore(t) = NoConfigs
    BY <1>1 DEF JobsAfter, JobsBefore, Changed
  <2>4. Current(t) => StoredJobs(m) = NoConfigs
    BY <1>1 DEF Current, StoredJobs
  <2>5. RowsFit(t, db')
    BY <1>2, <2>1, <2>2, <2>3, <2>4 DEF RowsFit
  <2> QED
    BY <1>4, <2>5 DEF CreateMonitor, WriteRows, Wrote
<1> QED
  BY <1>3, <1>4

LEMMA DeleteWrites ==
  ASSUME TypeInv, NEW t \in Threads, DeleteMonitor(t)
  PROVE  Ends(t) \/ Wrote(t)
<1> DEFINE m == req[t].mon
<1>1. pc[t] = "write" /\ req[t].op = "delete"
  BY DEF DeleteMonitor, WriteRows
<1>2. CASE m \notin DOMAIN db
  BY <1>2 DEF DeleteMonitor, WriteRows, Ends
<1>3. CASE m \in DOMAIN db
  <2>1. DOMAIN db' = DOMAIN db \ {m} /\ \A n \in DOMAIN db' : db'[n] = db[n]
    BY <1>3 DEF DeleteMonitor, WriteRows, Without, Restrict
  <2>2. seen[t] \in Aggregate
    BY <1>1 DEF TypeInv, ThreadOK
  <2>3. [seen[t] EXCEPT !.cfgs = NoConfigs].cfgs = NoConfigs
    BY <2>2 DEF Aggregate
  <2>4. JobsAfter(t) = NoConfigs /\ JobsBefore(t) = ProjectJobs(m, seen[t])
    BY <1>1, <2>3, NoJobs DEF JobsAfter, JobsBefore, Changed
  <2>5. Current(t) => StoredJobs(m) = ProjectJobs(m, seen[t])
    BY <1>1, <1>3 DEF Current, StoredJobs
  <2>6. RowsFit(t, db')
    BY <2>1, <2>4, <2>5 DEF RowsFit
  <2> QED
    BY <1>3, <2>6 DEF DeleteMonitor, WriteRows, Wrote
<1> QED
  BY <1>2, <1>3

\* The other requests change the row of a monitor that is stored.
LEMMA ChangeFits ==
  ASSUME TypeInv, NEW t \in Threads, pc[t] = "write", req[t].op # "create",
         req[t].mon \in DOMAIN db, NEW a,
         Valid(req[t].mon, a), \A n \in DOMAIN db \ {req[t].mon} : db[n].host # a.host,
         \A c \in DOMAIN a.cfgs : \/ c \in DOMAIN db[req[t].mon].cfgs
                                  \/ req[t].op = "add" /\ c = req[t].cfg,
         seen[t] = db[req[t].mon] => a = Changed(seen[t], req[t])
  PROVE  RowsFit(t, [db EXCEPT ![req[t].mon] = a])
<1> DEFINE m == req[t].mon
           rows == [db EXCEPT ![m] = a]
<1>1. DOMAIN rows = DOMAIN db /\ \A n \in DOMAIN db : rows[n] = IF n = m THEN a ELSE db[n]
  OBVIOUS
<1> HIDE DEF rows
<1>2. Current(t) => /\ StoredJobs(m) = JobsBefore(t)
                    /\ JobsAfter(t) = ProjectJobs(m, a)
  BY DEF Current, StoredJobs, JobsBefore, JobsAfter
<1>3. RowsFit(t, rows)
  BY <1>1, <1>2 DEF RowsFit
<1> QED
  BY <1>3 DEF rows

LEMMA UpdateWrites ==
  ASSUME TypeInv, NEW t \in Threads, UpdateMonitor(t)
  PROVE  Ends(t) \/ Wrote(t)
<1> DEFINE m == req[t].mon
           h == req[t].host
           a == [db[m] EXCEPT !.host = h]
<1>1. pc[t] = "write" /\ req[t].op = "host" /\ h \in Hosts
  BY DEF UpdateMonitor, WriteRows, TypeInv, ThreadOK, Asked
<1>2. CASE ~(m \in DOMAIN db /\ HostFree(m, h))
  BY <1>2 DEF UpdateMonitor, WriteRows, Ends
<1>3. CASE m \in DOMAIN db /\ HostFree(m, h)
  <2>1. Valid(m, db[m]) /\ m \in Monitors
    BY <1>3 DEF TypeInv, Tables
  <2>2. Valid(m, a)
    BY <1>1, <2>1, HostValid
  <2>3. a.host = h /\ a.cfgs = db[m].cfgs
    BY <2>1 DEF Valid, Aggregate
  <2>4. \A n \in DOMAIN db \ {m} : db[n].host # a.host
    BY <1>3, <2>3 DEF HostFree
  <2>5. seen[t] = db[m] => a = Changed(seen[t], req[t])
    BY <1>1 DEF Changed
  <2>6. db' = [db EXCEPT ![m] = a]
    BY <1>3 DEF UpdateMonitor, WriteRows
  <2> HIDE DEF a
  <2>7. RowsFit(t, [db EXCEPT ![m] = a])
    BY <1>1, <1>3, <2>2, <2>3, <2>4, <2>5, ChangeFits
  <2> QED
    BY <1>3, <2>6, <2>7 DEF UpdateMonitor, WriteRows, Wrote
<1> QED
  BY <1>2, <1>3

LEMMA AddWrites ==
  ASSUME TypeInv, NEW t \in Threads, AddHTTPConfig(t)
  PROVE  Ends(t) \/ Wrote(t)
<1> DEFINE m == req[t].mon
           c == req[t].cfg
           g == req[t].new
           a == [db[m] EXCEPT !.cfgs = Put(@, c, g)]
<1>1. /\ pc[t] = "write" /\ req[t].op = "add"
      /\ c \in Configs /\ g \in Config
  BY DEF AddHTTPConfig, WriteRows, TypeInv, ThreadOK, Asked, Configs
<1>2. CASE ~(m \in DOMAIN db /\ ~Clash(db[m], c, g.key))
  BY <1>2 DEF AddHTTPConfig, WriteRows, Ends
<1>3. CASE m \in DOMAIN db /\ ~Clash(db[m], c, g.key)
  <2>1. Valid(m, db[m]) /\ m \in Monitors
    BY <1>3 DEF TypeInv, Tables
  <2>2. Valid(m, a)
    BY <1>1, <1>3, <2>1, PutValid
  <2>3. a.host = db[m].host /\ DOMAIN a.cfgs = DOMAIN db[m].cfgs \cup {c}
    BY <2>1 DEF Valid, Aggregate, Put
  <2>4. \A n \in DOMAIN db \ {m} : db[n].host # a.host
    BY <1>3, <2>3 DEF TypeInv, Tables
  <2>5. seen[t] = db[m] => a = Changed(seen[t], req[t])
    BY <1>1 DEF Changed
  <2>6. db' = [db EXCEPT ![m] = a]
    BY <1>3 DEF AddHTTPConfig, WriteRows
  <2> HIDE DEF a
  <2>7. RowsFit(t, [db EXCEPT ![m] = a])
    BY <1>1, <1>3, <2>2, <2>3, <2>4, <2>5, ChangeFits
  <2> QED
    BY <1>3, <2>6, <2>7 DEF AddHTTPConfig, WriteRows, Wrote
<1> QED
  BY <1>2, <1>3

LEMMA ConfigWrites ==
  ASSUME TypeInv, NEW t \in Threads, UpdateConfig(t)
  PROVE  Ends(t) \/ Wrote(t)
<1> DEFINE m == req[t].mon
           c == req[t].cfg
           b == Changed(seen[t], req[t])
           g == b.cfgs[c]
           a == [db[m] EXCEPT !.cfgs[c] = g]
<1>1. /\ pc[t] = "write" /\ req[t].op = "patch"
      /\ c \in Configs /\ c \in DOMAIN seen[t].cfgs /\ seen[t] \in Aggregate
  BY DEF UpdateConfig, WriteRows, TypeInv, ThreadOK, Asked
<1>2. g \in Config /\ b = [seen[t] EXCEPT !.cfgs[c] = g]
  <2>1. b = [seen[t] EXCEPT !.cfgs[c] = Merge(seen[t].cfgs[c], req[t].patch)]
    BY <1>1 DEF Changed
  <2>2. g = Merge(seen[t].cfgs[c], req[t].patch)
    BY <1>1, <2>1 DEF Aggregate
  <2>3. b \in Aggregate /\ c \in DOMAIN b.cfgs
    <3>1. b \in Aggregate
      BY <1>1, ChangedType
    <3> QED
      BY <1>1, <2>1, <3>1 DEF Aggregate
  <2>4. b.cfgs \in ConfigTable
    BY <2>3 DEF Aggregate
  <2> QED
    BY <2>1, <2>2, <2>3, <2>4, TableElim
<1> HIDE DEF b, g
<1>3. CASE ~(m \in DOMAIN db /\ c \in DOMAIN db[m].cfgs /\ ~Clash(db[m], c, g.key))
  BY <1>3 DEF UpdateConfig, WriteRows, Ends, b, g
<1>4. CASE m \in DOMAIN db /\ c \in DOMAIN db[m].cfgs /\ ~Clash(db[m], c, g.key)
  <2>1. Valid(m, db[m]) /\ m \in Monitors /\ db[m] \in Aggregate
    BY <1>4 DEF TypeInv, Tables, Valid
  <2>2. a = [db[m] EXCEPT !.cfgs = Put(@, c, g)]
    <3>1. PICK r \in Aggregate : r = db[m]
      BY <2>1
    <3>2. c \in DOMAIN r.cfgs
      BY <1>4, <3>1
    <3> HIDE DEF m, c
    <3>3. [r EXCEPT !.cfgs[c] = g] = [r EXCEPT !.cfgs = Put(@, c, g)]
      BY ONLY r \in Aggregate, <3>2, PutExisting
    <3> QED
      BY <3>1, <3>3
  <2>3. Valid(m, a)
    BY <1>1, <1>2, <1>4, <2>1, <2>2, PutValid
  <2>4. a.host = db[m].host /\ DOMAIN a.cfgs = DOMAIN db[m].cfgs
    BY <2>1 DEF Aggregate
  <2>5. \A n \in DOMAIN db \ {m} : db[n].host # a.host
    BY <1>4, <2>4 DEF TypeInv, Tables
  <2>6. seen[t] = db[m] => a = Changed(seen[t], req[t])
    BY <1>2 DEF b
  <2>7. db' = [db EXCEPT ![m] = a]
    BY <1>4 DEF UpdateConfig, WriteRows, b, g
  <2> HIDE DEF a
  <2>8. RowsFit(t, [db EXCEPT ![m] = a])
    BY <1>1, <1>4, <2>3, <2>4, <2>5, <2>6, ChangeFits
  <2> QED
    BY <1>4, <2>7, <2>8 DEF UpdateConfig, WriteRows, Wrote, b, g
<1> QED
  BY <1>3, <1>4

LEMMA RemoveWrites ==
  ASSUME TypeInv, NEW t \in Threads, RemoveHTTPConfig(t)
  PROVE  Ends(t) \/ Wrote(t)
<1> DEFINE m == req[t].mon
           c == req[t].cfg
           a == [db[m] EXCEPT !.cfgs = Without(@, {c})]
<1>1. pc[t] = "write" /\ req[t].op = "remove" /\ c \in HTTPIds
  BY DEF RemoveHTTPConfig, WriteRows, TypeInv, ThreadOK, Asked
<1>2. CASE ~(m \in DOMAIN db /\ c \in DOMAIN db[m].cfgs)
  BY <1>2 DEF RemoveHTTPConfig, WriteRows, Ends
<1>3. CASE m \in DOMAIN db /\ c \in DOMAIN db[m].cfgs
  <2>1. Valid(m, db[m]) /\ m \in Monitors
    BY <1>3 DEF TypeInv, Tables
  <2>2. c # PingOf[m]
    BY <1>1, <2>1, IdAssumption
  <2>3. Valid(m, a)
    BY <2>1, <2>2, WithoutValid
  <2>4. a.host = db[m].host /\ DOMAIN a.cfgs \subseteq DOMAIN db[m].cfgs
    BY <2>1 DEF Valid, Aggregate, Without, Restrict
  <2>5. \A n \in DOMAIN db \ {m} : db[n].host # a.host
    BY <1>3, <2>4 DEF TypeInv, Tables
  <2>6. seen[t] = db[m] => a = Changed(seen[t], req[t])
    BY <1>1 DEF Changed
  <2>7. db' = [db EXCEPT ![m] = a]
    BY <1>3 DEF RemoveHTTPConfig, WriteRows
  <2> HIDE DEF a
  <2>8. RowsFit(t, [db EXCEPT ![m] = a])
    BY <1>1, <1>3, <2>3, <2>4, <2>5, <2>6, ChangeFits
  <2> QED
    BY <1>3, <2>7, <2>8 DEF RemoveHTTPConfig, WriteRows, Wrote
<1> QED
  BY <1>2, <1>3

LEMMA Writes ==
  ASSUME TypeInv, NEW t \in Threads, Write(t)
  PROVE  Ends(t) \/ Wrote(t)
BY CreateWrites, DeleteWrites, UpdateWrites, AddWrites, ConfigWrites, RemoveWrites DEF Write

-----------------------------------------------------------------------------
(* What ListEnabledCheckConfigs returns                                      *)

LEMMA PlannedFromTables ==
  ASSUME Tables
  PROVE  /\ DOMAIN EnabledJobs \subseteq Configs
         /\ \A m \in DOMAIN db : DOMAIN ProjectJobs(m, db[m]) \subseteq DOMAIN EnabledJobs
         /\ \A c \in DOMAIN EnabledJobs :
              /\ EnabledJobs[c] \in Job
              /\ \E m \in DOMAIN db : /\ c \in DOMAIN ProjectJobs(m, db[m])
                                      /\ EnabledJobs[c] = ProjectJobs(m, db[m])[c]
<1> DEFINE owner(c) == CHOOSE m \in DOMAIN db : c \in DOMAIN ProjectJobs(m, db[m])
           all == UNION {DOMAIN ProjectJobs(m, db[m]) : m \in DOMAIN db}
<1>1. DOMAIN EnabledJobs = all
  BY DEF EnabledJobs
<1>2. \A m \in DOMAIN db : m \in Monitors /\ db[m] \in Aggregate
  BY DEF Tables, Valid
<1>3. ASSUME NEW c \in all
      PROVE  /\ owner(c) \in DOMAIN db /\ c \in DOMAIN ProjectJobs(owner(c), db[owner(c)])
             /\ EnabledJobs[c] = ProjectJobs(owner(c), db[owner(c)])[c]
  <2>1. \E m \in DOMAIN db : c \in DOMAIN ProjectJobs(m, db[m])
    OBVIOUS
  <2>2. owner(c) \in DOMAIN db /\ c \in DOMAIN ProjectJobs(owner(c), db[owner(c)])
    BY <2>1
  <2>3. EnabledJobs[c] = ProjectJobs(owner(c), db[owner(c)])[c]
    BY DEF EnabledJobs
  <2> QED
    BY <2>2, <2>3
<1> HIDE DEF owner, all
<1>4. ASSUME NEW c \in all
      PROVE  c \in Configs /\ EnabledJobs[c] \in Job
  BY <1>2, <1>3, JobsOf
<1>5. \A m \in DOMAIN db : DOMAIN ProjectJobs(m, db[m]) \subseteq all
  BY DEF all
<1> QED
  BY <1>1, <1>3, <1>4, <1>5

-----------------------------------------------------------------------------
(* Type correctness                                                          *)

\* Entry t of the threads' variables changes, the others stay as they are.
OnlyThread(t) ==
  /\ DOMAIN pc' = DOMAIN pc /\ DOMAIN req' = DOMAIN req
  /\ DOMAIN seen' = DOMAIN seen /\ DOMAIN out' = DOMAIN out
  /\ \A u \in Threads \ {t} :
       pc'[u] = pc[u] /\ req'[u] = req[u] /\ seen'[u] = seen[u] /\ out'[u] = out[u]

LEMMA OthersTyped ==
  ASSUME TypeInv, NEW t \in Threads, OnlyThread(t), used \subseteq used', ThreadOK(t)'
  PROVE  /\ DOMAIN pc' = Threads /\ DOMAIN req' = Threads
         /\ DOMAIN seen' = Threads /\ DOMAIN out' = Threads
         /\ \A u \in Threads : ThreadOK(u)'
<1>1. ASSUME NEW u \in Threads \ {t} PROVE ThreadOK(u)'
  BY DEF TypeInv, OnlyThread, ThreadOK, Asked
<1> QED
  BY <1>1 DEF TypeInv, OnlyThread

LEMMA InitTyped == Init => TypeInv
<1> SUFFICES ASSUME Init PROVE TypeInv
  OBVIOUS
<1>1. PICK S \in {{}} \cup {{m} : m \in Monitors}, h \in Hosts, v \in Values :
        /\ db = [m \in S |-> [host |-> h, cfgs |->
                   [c \in {PingOf[m]} |-> [key |-> None, on |-> TRUE, val |-> v]]]]
        /\ used = S
  BY DEF Init
<1>2. S \subseteq Monitors /\ \A m, n \in S : m = n
  OBVIOUS
<1>3. ASSUME NEW m \in S PROVE Valid(m, db[m])
  <2> DEFINE f == [c \in {PingOf[m]} |-> [key |-> None, on |-> TRUE, val |-> v]]
  <2>1. PingOf[m] \in Configs
    BY <1>2, <1>3, IdAssumption DEF Configs, Range
  <2>2. [key |-> None, on |-> TRUE, val |-> v] \in Config
    BY DEF Config
  <2>3. f = [c \in DOMAIN f |-> f[c]] /\ DOMAIN f \subseteq Configs /\ \A c \in DOMAIN f : f[c] \in Config
    BY <2>1, <2>2
  <2>4. f \in ConfigTable
    BY <2>3, TableIntro
  <2>5. db[m] = [host |-> h, cfgs |-> f]
    BY <1>1, <1>3
  <2>6. DOMAIN f = {PingOf[m]} /\ f[PingOf[m]].key = None
    OBVIOUS
  <2> HIDE DEF f
  <2>7. db[m] \in Aggregate /\ db[m].cfgs = f
    BY <2>4, <2>5 DEF Aggregate
  <2> QED
    BY <2>6, <2>7 DEF Valid, Clash
<1>4. Tables
  <2>1. DOMAIN db = S
    BY <1>1
  <2> QED
    BY <1>1, <1>2, <1>3, <2>1 DEF Tables
<1>5. DOMAIN plan \subseteq Configs /\ \A c \in DOMAIN plan : plan[c] \in Job
  BY <1>4, PlannedFromTables DEF Init
<1>6. Queues /\ Counts
  BY <1>1, <1>2, <1>5, BoundAssumption DEF Init, Queues, Counts
<1>7. \A t \in Threads : ThreadOK(t)
  BY DEF Init, ThreadOK
<1> QED
  BY <1>4, <1>6, <1>7 DEF Init, TypeInv

LEMMA TypeEnds ==
  ASSUME TypeInv, NEW t \in Threads, Ends(t)
  PROVE  TypeInv'
<1>1. OnlyThread(t) /\ used' = used
  BY DEF TypeInv, Ends, Return, Goto, OnlyThread
<1>2. ThreadOK(t)'
  BY DEF TypeInv, Ends, Return, Goto, ThreadOK
<1>3. Tables' /\ Queues' /\ Counts'
  BY DEF TypeInv, Ends, Tables, Queues, Counts, Valid, Clash
<1> QED
  BY <1>1, <1>2, <1>3, OthersTyped DEF TypeInv

LEMMA TypeCreates ==
  ASSUME TypeInv, NEW t \in Threads, BeginCreate(t)
  PROVE  TypeInv'
<1>1. PICK m \in Monitors \ used, h \in Hosts, v \in Values, b \in BOOLEAN, k \in Keys :
      \E S \in {{}} \cup {{c} : c \in HTTPIds \ used} :
        /\ Begin(t, [op |-> "create", mon |-> m])
        /\ used' = used \cup {m} \cup S
        /\ seen' = [seen EXCEPT ![t] = [host |-> h, cfgs |->
                      [c \in {PingOf[m]} \cup S |->
                         [key |-> IF c \in S THEN k ELSE None, on |-> b, val |-> v]]]]
        /\ Goto(t, "write")
  BY DEF BeginCreate
<1>2. PICK S \in {{}} \cup {{c} : c \in HTTPIds \ used} :
        /\ Begin(t, [op |-> "create", mon |-> m])
        /\ used' = used \cup {m} \cup S
        /\ seen' = [seen EXCEPT ![t] = [host |-> h, cfgs |->
                      [c \in {PingOf[m]} \cup S |->
                         [key |-> IF c \in S THEN k ELSE None, on |-> b, val |-> v]]]]
        /\ Goto(t, "write")
  BY <1>1
<1> DEFINE f == [c \in {PingOf[m]} \cup S |->
                   [key |-> IF c \in S THEN k ELSE None, on |-> b, val |-> v]]
<1>3. S \subseteq HTTPIds \ used /\ \A c, d \in S : c = d
  OBVIOUS
<1>4. Valid(m, [host |-> h, cfgs |-> f])
  <2>1. PingOf[m] \in Configs /\ PingOf[m] \notin HTTPIds
    BY IdAssumption DEF Configs, Range
  <2>2. \A c \in DOMAIN f : f[c] \in Config
    BY DEF Config
  <2>3. f = [c \in DOMAIN f |-> f[c]] /\ DOMAIN f \subseteq Configs
    BY <1>3, <2>1 DEF Configs
  <2>4. f \in ConfigTable
    BY <2>2, <2>3, TableIntro
  <2>5. /\ DOMAIN f = {PingOf[m]} \cup S /\ \A c \in S : f[c].key = k
        /\ f[PingOf[m]].key = None
    BY <1>3, <2>1
  <2> HIDE DEF f
  <2>6. [host |-> h, cfgs |-> f] \in Aggregate
    BY <2>4 DEF Aggregate
  <2>7. ASSUME NEW c \in DOMAIN f PROVE ~Clash([host |-> h, cfgs |-> f], c, f[c].key)
    BY <1>3, <2>5 DEF Clash
  <2> QED
    BY <2>5, <2>6, <2>7 DEF Valid
<1>5. OnlyThread(t) /\ used \subseteq used'
  BY <1>2 DEF TypeInv, Begin, Goto, OnlyThread
<1>6. ThreadOK(t)'
  <2>1. /\ pc'[t] = "write" /\ req'[t] = [op |-> "create", mon |-> m]
        /\ seen'[t] = [host |-> h, cfgs |-> f] /\ out'[t] = {} /\ m \in used'
    BY <1>2 DEF TypeInv, Begin, Goto, ThreadOK
  <2> HIDE DEF f
  <2> QED
    BY <1>4, <2>1 DEF ThreadOK, Asked, Valid
<1>7. Tables' /\ Queues'
  BY <1>2 DEF TypeInv, Begin, Tables, Queues, Valid, Clash
<1>8. Counts'
  <2>1. requests + 1 \in 0..MaxRequests
    BY <1>2, BoundAssumption DEF TypeInv, Counts, Begin
  <2> QED
    BY <1>2, <1>3, <2>1 DEF TypeInv, Counts, Begin
<1> QED
  BY <1>5, <1>6, <1>7, <1>8, OthersTyped DEF TypeInv

\* What a request may ask of a stored monitor.
LEMMA Requested ==
  ASSUME NEW m \in Monitors, m \in used, NEW q \in RequestsOn(m)
  PROVE  /\ q.mon = m /\ q.op \in {"host", "delete", "add", "patch", "remove"}
         /\ q.op = "host" => q.host \in Hosts
         /\ q.op = "add" => q.cfg \in HTTPIds \ used /\ q.new \in Config
         /\ q.op = "patch" => q.cfg \in Configs /\ q.patch \in Patches
         /\ q.op = "remove" => q.cfg \in HTTPIds
<1>1. PingOf[m] \in Configs
  BY IdAssumption DEF Configs, Range
<1>2. CASE q \in {[op |-> "host", mon |-> m, host |-> h] : h \in Hosts}
  BY <1>2
<1>3. CASE q \in {[op |-> "delete", mon |-> m]}
  BY <1>3
<1>4. CASE q \in {[op |-> "add", mon |-> m, cfg |-> c, new |-> [key |-> k, on |-> b, val |-> v]] :
                    c \in HTTPIds \ used, k \in Keys, b \in BOOLEAN, v \in Values}
  <2>1. PICK c \in HTTPIds \ used, k \in Keys, b \in BOOLEAN, v \in Values :
          q = [op |-> "add", mon |-> m, cfg |-> c, new |-> [key |-> k, on |-> b, val |-> v]]
    BY <1>4
  <2>2. [key |-> k, on |-> b, val |-> v] \in Config
    BY DEF Config
  <2> QED
    BY <2>1, <2>2
<1>5. CASE q \in {[op |-> "patch", mon |-> m, cfg |-> c, patch |-> p] :
                    c \in HTTPIds \cap used, p \in Patches}
  BY <1>5 DEF Configs
<1>6. CASE q \in {[op |-> "patch", mon |-> m, cfg |-> PingOf[m], patch |-> p] :
                    p \in {r \in Patches : r.key = None}}
  BY <1>1, <1>6
<1>7. CASE q \in {[op |-> "remove", mon |-> m, cfg |-> c] : c \in HTTPIds \cap used}
  BY <1>7
<1> QED
  BY <1>2, <1>3, <1>4, <1>5, <1>6, <1>7 DEF RequestsOn

LEMMA TypeBegins ==
  ASSUME TypeInv, NEW t \in Threads, BeginOther(t)
  PROVE  TypeInv'
<1>0. PICK m \in DOMAIN db : \E q \in RequestsOn(m) :
        /\ Begin(t, q)
        /\ used' = IF q.op = "add" THEN used \cup {q.cfg} ELSE used
        /\ seen' = [seen EXCEPT ![t] = [db[m] EXCEPT !.cfgs = Restrict(@, {PingOf[m]})]]
        /\ Goto(t, "rows")
  BY DEF BeginOther
<1>1. PICK q \in RequestsOn(m) :
        /\ Begin(t, q)
        /\ used' = IF q.op = "add" THEN used \cup {q.cfg} ELSE used
        /\ seen' = [seen EXCEPT ![t] = [db[m] EXCEPT !.cfgs = Restrict(@, {PingOf[m]})]]
        /\ Goto(t, "rows")
  BY <1>0
<1>2. m \in Monitors \cap used /\ Valid(m, db[m])
  BY DEF TypeInv, Tables
<1>3. /\ q.mon = m /\ q.op \in {"host", "delete", "add", "patch", "remove"}
      /\ q.op = "host" => q.host \in Hosts
      /\ q.op = "add" => q.cfg \in HTTPIds \ used /\ q.new \in Config
      /\ q.op = "patch" => q.cfg \in Configs /\ q.patch \in Patches
      /\ q.op = "remove" => q.cfg \in HTTPIds
  BY <1>2, Requested
<1>4. [db[m] EXCEPT !.cfgs = Restrict(@, {PingOf[m]})] \in Aggregate
  <2>1. db[m].cfgs \in ConfigTable /\ {PingOf[m]} \subseteq DOMAIN db[m].cfgs
    BY <1>2 DEF Valid, Aggregate
  <2>2. Restrict(db[m].cfgs, {PingOf[m]}) \in ConfigTable
    BY <2>1, TableRestrict
  <2> QED
    BY <1>2, <2>2 DEF Valid, Aggregate
<1>5. OnlyThread(t) /\ used \subseteq used'
  BY <1>1 DEF TypeInv, Begin, Goto, OnlyThread
<1>6. ThreadOK(t)'
  <2>1. /\ pc'[t] = "rows" /\ req'[t] = q /\ seen'[t] \in Aggregate /\ out'[t] = {}
    BY <1>1, <1>4 DEF TypeInv, Begin, Goto, ThreadOK
  <2>2. Asked(q)'
    BY <1>1, <1>2, <1>3 DEF Asked
  <2>3. q.op # "create"
    BY <1>3
  <2> QED
    BY <2>1, <2>2, <2>3 DEF ThreadOK, Asked
<1>7. Tables' /\ Queues'
  BY <1>1 DEF TypeInv, Begin, Tables, Queues, Valid, Clash
<1>8. Counts'
  <2>1. requests + 1 \in 0..MaxRequests
    BY <1>1, BoundAssumption DEF TypeInv, Counts, Begin
  <2>2. muddled' \subseteq Monitors /\ restarts' = restarts /\ requests' = requests + 1
    BY <1>1, <1>2, <1>3 DEF TypeInv, Counts, Begin
  <2>3. used' \subseteq Monitors \cup HTTPIds
    BY <1>1, <1>3 DEF TypeInv, Counts
  <2> QED
    BY <2>1, <2>2, <2>3 DEF TypeInv, Counts
<1> QED
  BY <1>5, <1>6, <1>7, <1>8, OthersTyped DEF TypeInv

\* The aggregate that a handler has after its second query.
HTTPRows(m) == IF m \in DOMAIN db THEN Without(db[m].cfgs, {PingOf[m]}) ELSE NoConfigs
Read(t) ==
  [seen[t] EXCEPT !.cfgs = [c \in DOMAIN seen[t].cfgs \cup DOMAIN HTTPRows(req[t].mon) |->
     IF c \in DOMAIN seen[t].cfgs THEN seen[t].cfgs[c] ELSE HTTPRows(req[t].mon)[c]]]

LEMMA ReadIs ==
  ASSUME TypeInv, NEW t \in Threads, ReadHTTPConfigs(t)
  PROVE  /\ pc[t] = "rows" /\ seen[t] \in Aggregate /\ req[t].op # "create" /\ Asked(req[t])
         /\ \/ Ends(t)
            \/ /\ Accepts(Read(t), req[t])
               /\ seen' = [seen EXCEPT ![t] = Read(t)]
               /\ Goto(t, "write")
               /\ UNCHANGED <<db, used, req, out, events, plan, requests, restarts, muddled>>
         /\ Read(t) \in Aggregate /\ Read(t).host = seen[t].host
         /\ \A c \in DOMAIN Read(t).cfgs :
              \/ c \in DOMAIN seen[t].cfgs
              \/ req[t].mon \in DOMAIN db /\ c \in DOMAIN db[req[t].mon].cfgs
<1> DEFINE m == req[t].mon
           rows == HTTPRows(m)
           f == [c \in DOMAIN seen[t].cfgs \cup DOMAIN rows |->
                   IF c \in DOMAIN seen[t].cfgs THEN seen[t].cfgs[c] ELSE rows[c]]
<1>1. pc[t] = "rows"
  BY DEF ReadHTTPConfigs
<1>2. seen[t] \in Aggregate /\ req[t].op # "create" /\ Asked(req[t])
  BY <1>1 DEF TypeInv, ThreadOK
<1>3. \/ Ends(t)
      \/ /\ Accepts(Read(t), req[t])
         /\ seen' = [seen EXCEPT ![t] = Read(t)]
         /\ Goto(t, "write")
         /\ UNCHANGED <<db, used, req, out, events, plan, requests, restarts, muddled>>
  BY DEF ReadHTTPConfigs, Ends, Read, HTTPRows
<1>4. rows \in ConfigTable /\ (rows # NoConfigs => m \in DOMAIN db)
      /\ \A c \in DOMAIN rows : m \in DOMAIN db /\ c \in DOMAIN db[m].cfgs
  <2>1. CASE m \in DOMAIN db
    <3>1. db[m].cfgs \in ConfigTable
      BY <2>1 DEF TypeInv, Tables, Valid, Aggregate
    <3>2. rows = Without(db[m].cfgs, {PingOf[m]})
      BY <2>1 DEF HTTPRows
    <3> QED
      BY <2>1, <3>1, <3>2, TableWithout DEF Without, Restrict
  <2>2. CASE m \notin DOMAIN db
    <3>1. rows = NoConfigs
      BY <2>2 DEF HTTPRows
    <3> QED
      BY <3>1, TableEmpty DEF NoConfigs
  <2> QED
    BY <2>1, <2>2
<1>5. f \in ConfigTable
  <2>1. seen[t].cfgs \in ConfigTable
    BY <1>2 DEF Aggregate
  <2>2. \A c \in DOMAIN f : c \in Configs /\ f[c] \in Config
    BY <1>4, <2>1, TableElim
  <2>3. f = [c \in DOMAIN f |-> f[c]]
    OBVIOUS
  <2> HIDE DEF f
  <2> QED
    BY <2>2, <2>3, TableIntro
<1>6. DOMAIN f = DOMAIN seen[t].cfgs \cup DOMAIN rows
  OBVIOUS
<1> HIDE DEF rows
<1>7. Read(t) = [seen[t] EXCEPT !.cfgs = f]
  BY DEF Read, rows
<1> HIDE DEF f
<1>8. Read(t) \in Aggregate /\ Read(t).host = seen[t].host /\ Read(t).cfgs = f
  BY <1>2, <1>5, <1>7 DEF Aggregate
<1> QED
  BY <1>1, <1>2, <1>3, <1>4, <1>6, <1>8

LEMMA TypeReads ==
  ASSUME TypeInv, NEW t \in Threads, ReadHTTPConfigs(t)
  PROVE  TypeInv'
<1>1. CASE Ends(t)
  BY <1>1, TypeEnds
<1>2. CASE /\ Accepts(Read(t), req[t])
           /\ seen' = [seen EXCEPT ![t] = Read(t)]
           /\ Goto(t, "write")
           /\ UNCHANGED <<db, used, req, out, events, plan, requests, restarts, muddled>>
  <2>1. Read(t) \in Aggregate /\ Asked(req[t]) /\ req[t].op # "create" /\ pc[t] = "rows"
    BY ReadIs
  <2>2. req[t].op = "patch" => req[t].cfg \in DOMAIN Read(t).cfgs
    BY <1>2 DEF Accepts
  <2>3. OnlyThread(t)
    BY <1>2 DEF TypeInv, Goto, OnlyThread
  <2>4. /\ pc'[t] = "write" /\ req'[t] = req[t] /\ seen'[t] = Read(t) /\ out'[t] = out[t]
        /\ out[t] = {} /\ used' = used
    BY <1>2, <2>1 DEF TypeInv, Goto, ThreadOK
  <2>5. ThreadOK(t)'
    BY <2>1, <2>2, <2>4 DEF ThreadOK, Asked
  <2>6. Tables' /\ Queues' /\ Counts'
    BY <1>2 DEF TypeInv, Tables, Queues, Counts, Valid, Clash
  <2> QED
    BY <2>3, <2>4, <2>5, <2>6, OthersTyped DEF TypeInv
<1> QED
  BY <1>1, <1>2, ReadIs

\* The jobs before and after a write are jobs of its monitor.
LEMMA JobsWritten ==
  ASSUME TypeInv, NEW t \in Threads, pc[t] = "write"
  PROVE  LET before == JobsBefore(t)
             after == JobsAfter(t)
         IN  /\ \A c \in DOMAIN before :
                  /\ c \in Configs /\ c \in DOMAIN seen[t].cfgs
                  /\ before[c] \in Job /\ before[c].mon = req[t].mon
             /\ \A c \in DOMAIN after :
                  /\ c \in Configs
                  /\ c \in DOMAIN seen[t].cfgs \/ (req[t].op = "add" /\ c = req[t].cfg)
                  /\ after[c] \in Job /\ after[c].mon = req[t].mon
<1>1. seen[t] \in Aggregate /\ req[t].mon \in Monitors
  BY DEF TypeInv, ThreadOK, Asked
<1> DEFINE a == Changed(seen[t], req[t])
<1>2. /\ a \in Aggregate
      /\ \A c \in DOMAIN a.cfgs :
           c \in DOMAIN seen[t].cfgs \/ (req[t].op = "add" /\ c = req[t].cfg)
  BY ChangedType
<1> HIDE DEF a
<1>3. CASE req[t].op = "create"
  <2>1. DOMAIN JobsBefore(t) = {}
    BY <1>3 DEF JobsBefore, NoConfigs
  <2> QED
    BY <1>1, <1>2, <2>1, JobsOf DEF JobsAfter, a
<1>4. CASE req[t].op # "create"
  <2>1. JobsBefore(t) = ProjectJobs(req[t].mon, seen[t])
    BY <1>4 DEF JobsBefore
  <2> QED
    BY <1>1, <1>2, <2>1, JobsOf DEF JobsAfter, a
<1> QED
  BY <1>3, <1>4

LEMMA TypeWrites ==
  ASSUME TypeInv, NEW t \in Threads, Wrote(t)
  PROVE  TypeInv'
<1> DEFINE m == req[t].mon
           events1 == Diff(JobsBefore(t), JobsAfter(t))
<1>1. pc[t] = "write" /\ Asked(req[t]) /\ m \in Monitors \cap used
  BY DEF Wrote, TypeInv, ThreadOK, Asked
<1>2. events1 \subseteq Event
  <2>1. ASSUME NEW e \in events1 PROVE e \in Event
    <3>1. /\ e.type \in {"created", "updated", "deleted"}
          /\ e.cfg \in DOMAIN JobsBefore(t) \cup DOMAIN JobsAfter(t)
          /\ e.job = IF e.cfg \in DOMAIN JobsAfter(t) THEN JobsAfter(t)[e.cfg] ELSE JobsBefore(t)[e.cfg]
          /\ e = [type |-> e.type, cfg |-> e.cfg, job |-> e.job]
      BY DiffTells
    <3>2. e.cfg \in Configs /\ e.job \in Job
      BY <1>1, <3>1, JobsWritten
    <3> QED
      BY <3>1, <3>2 DEF Event
  <2> QED
    BY <2>1
<1>3. OnlyThread(t) /\ used' = used
  BY DEF TypeInv, Wrote, Goto, OnlyThread
<1>4. ThreadOK(t)'
  <2>1. pc'[t] = "send" /\ req'[t] = req[t] /\ seen'[t] = None /\ out'[t] = events1 /\ used' = used
    BY DEF TypeInv, Wrote, Goto
  <2> HIDE DEF events1
  <2> QED
    BY <1>1, <1>2, <2>1 DEF ThreadOK, Asked
<1>5. Tables'
  <2>1. RowsFit(t, db') /\ used' = used
    BY DEF Wrote
  <2>2. DOMAIN db' \subseteq DOMAIN db \cup {m} /\ \A n \in DOMAIN db \ {m} : n \in DOMAIN db' /\ db'[n] = db[n]
    BY <2>1 DEF RowsFit
  <2>3. m \in DOMAIN db' => Valid(m, db'[m]) /\ \A n \in DOMAIN db \ {m} : db[n].host # db'[m].host
    BY <2>1 DEF RowsFit
  <2>4. \A n \in DOMAIN db' : Valid(n, db'[n])
    BY <2>2, <2>3 DEF TypeInv, Tables
  <2>5. \A n, o \in DOMAIN db' : db'[o].host = db'[n].host => o = n
    BY <2>2, <2>3 DEF TypeInv, Tables
  <2>6. DOMAIN db' \subseteq Monitors \cap used'
    BY <1>1, <2>1, <2>2 DEF TypeInv, Tables
  <2> QED
    BY <2>4, <2>5, <2>6 DEF Tables, Valid, Clash
<1>6. Queues' /\ Counts'
  BY DEF TypeInv, Wrote, Queues, Counts
<1> QED
  BY <1>3, <1>4, <1>5, <1>6, OthersTyped DEF TypeInv

LEMMA TypeSends ==
  ASSUME TypeInv, NEW t \in Threads, SendEvent(t)
  PROVE  TypeInv'
<1>1. PICK e \in Sendable(t) : events' = Append(events, e) /\ out' = [out EXCEPT ![t] = @ \ {e}]
  BY DEF SendEvent
<1>2. pc[t] = "send" /\ e \in out[t] /\ e \in Event
  BY <1>1 DEF SendEvent, Sendable, TypeInv, ThreadOK
<1>3. OnlyThread(t) /\ used' = used
  BY <1>1 DEF TypeInv, SendEvent, OnlyThread
<1>4. ThreadOK(t)'
  BY <1>1, <1>2 DEF TypeInv, SendEvent, ThreadOK, Asked
<1>5. Queues'
  <2>1. events' \in Seq(Event) /\ Len(events') = Len(events) + 1
    BY <1>1, <1>2 DEF TypeInv, Queues
  <2>2. Len(events) < EventsCap /\ Len(events) \in Nat /\ plan' = plan
    BY DEF SendEvent, TypeInv, Queues
  <2> QED
    BY <2>1, <2>2, BoundAssumption DEF TypeInv, Queues
<1>6. Tables' /\ Counts'
  BY DEF TypeInv, SendEvent, Tables, Counts, Valid, Clash
<1> QED
  BY <1>3, <1>4, <1>5, <1>6, OthersTyped DEF TypeInv

LEMMA TypeLoses ==
  ASSUME TypeInv, NEW t \in Threads, LoseEvent(t)
  PROVE  TypeInv'
<1>1. PICK e \in Sendable(t) : out' = [out EXCEPT ![t] = @ \ {e}]
  BY DEF LoseEvent
<1>2. pc[t] = "send" /\ req[t].mon \in Monitors
  BY DEF LoseEvent, TypeInv, ThreadOK, Asked
<1>3. OnlyThread(t) /\ used' = used
  BY <1>1 DEF TypeInv, LoseEvent, OnlyThread
<1>4. ThreadOK(t)'
  BY <1>1, <1>2 DEF TypeInv, LoseEvent, ThreadOK, Asked
<1>5. Tables' /\ Queues'
  BY DEF TypeInv, LoseEvent, Tables, Queues, Valid, Clash
<1>6. Counts'
  BY <1>2 DEF TypeInv, LoseEvent, Counts
<1> QED
  BY <1>3, <1>4, <1>5, <1>6, OthersTyped DEF TypeInv

LEMMA TypeApplies == TypeInv /\ ApplyEvent => TypeInv'
<1> SUFFICES ASSUME TypeInv, ApplyEvent PROVE TypeInv'
  OBVIOUS
<1> DEFINE e == Head(events)
<1>1. events \in Seq(Event) /\ events # <<>> /\ events' = Tail(events)
  BY DEF ApplyEvent, TypeInv, Queues
<1>2. e \in Event /\ events' \in Seq(Event) /\ Len(events') = Len(events) - 1
  BY <1>1
<1>3. Len(events') <= EventsCap
  BY <1>1, <1>2, BoundAssumption DEF TypeInv, Queues
<1>4. DOMAIN plan' \subseteq Configs /\ \A c \in DOMAIN plan' : plan'[c] \in Job
  <2>1. CASE e.type = "deleted"
    <3>1. plan' = Without(plan, {e.cfg})
      BY <2>1 DEF ApplyEvent
    <3> QED
      BY <3>1 DEF Without, Restrict, TypeInv, Queues
  <2>2. CASE e.type # "deleted"
    <3>1. plan' = Put(plan, e.cfg, e.job)
      BY <2>2 DEF ApplyEvent
    <3>2. e.cfg \in Configs /\ e.job \in Job
      BY <1>2 DEF Event
    <3> QED
      BY <3>1, <3>2 DEF Put, TypeInv, Queues
  <2> QED
    BY <2>1, <2>2
<1>5. Queues'
  BY <1>2, <1>3, <1>4 DEF Queues
<1> QED
  BY <1>5 DEF ApplyEvent, threads, TypeInv, Tables, Counts, ThreadOK, Asked, Valid, Clash

LEMMA TypeRestarts == TypeInv /\ Restart => TypeInv'
<1> SUFFICES ASSUME TypeInv, Restart PROVE TypeInv'
  OBVIOUS
<1>1. Tables'
  BY DEF TypeInv, Restart, Tables, Valid, Clash
<1>2. DOMAIN plan' \subseteq Configs /\ \A c \in DOMAIN plan' : plan'[c] \in Job
  BY PlannedFromTables DEF TypeInv, Restart
<1>3. Queues'
  BY <1>2, BoundAssumption DEF Restart, Queues
<1>4. Counts'
  BY BoundAssumption DEF TypeInv, Restart, Counts
<1>5. \A t \in Threads : ThreadOK(t)'
  BY DEF Restart, ThreadOK
<1> QED
  BY <1>1, <1>3, <1>4, <1>5 DEF Restart, TypeInv

LEMMA FailEnds ==
  ASSUME TypeInv, NEW t \in Threads, Fail(t) \/ Finish(t)
  PROVE  Ends(t)
BY DEF Fail, Finish, Ends

LEMMA TypeStep == TypeInv /\ [Next]_vars => TypeInv'
<1> SUFFICES ASSUME TypeInv, [Next]_vars PROVE TypeInv'
  OBVIOUS
<1>1. ASSUME NEW t \in Threads,
             BeginCreate(t) \/ BeginOther(t) \/ Serve(t) \/ Fail(t) \/ LoseEvent(t)
      PROVE  TypeInv'
  BY <1>1, TypeCreates, TypeBegins, TypeReads, Writes, TypeWrites, TypeSends, TypeEnds,
     FailEnds, TypeLoses DEF Serve
<1>2. CASE ApplyEvent
  BY <1>2, TypeApplies
<1>3. CASE Restart
  BY <1>3, TypeRestarts
<1>4. CASE UNCHANGED vars
  BY <1>4 DEF vars, threads, TypeInv, Tables, Queues, Counts, ThreadOK, Asked, Valid, Clash
<1> QED
  BY <1>1, <1>2, <1>3, <1>4 DEF Next

LEMMA TypeInvHolds == Spec => []TypeInv
BY InitTyped, TypeStep, PTL DEF Spec

\* Requests, queues and the schedule keep their shapes, and the tables what the
\* schema promises: every monitor has its ping config, no host is used twice, nor a
\* (scheme, path, method) within a monitor.
THEOREM TypeCorrect == Spec => []TypeOK
<1>1. TypeInv => TypeOK
  BY DEF TypeInv, Tables, Queues, Counts, ThreadOK, Asked, Valid, TypeOK
<1> QED
  BY <1>1, TypeInvHolds, PTL

-----------------------------------------------------------------------------
(* The schedule follows the tables: what does not touch either               *)

LEMMA StoredOf ==
  ASSUME TypeInv, NEW m
  PROVE  /\ DOMAIN StoredJobs(m) \subseteq Configs
         /\ \A c \in DOMAIN StoredJobs(m) : m \in DOMAIN db /\ c \in DOMAIN db[m].cfgs
<1>1. CASE m \in DOMAIN db
  <2>1. m \in Monitors /\ db[m] \in Aggregate
    BY <1>1 DEF TypeInv, Tables, Valid
  <2> QED
    BY <1>1, <2>1, JobsOf DEF StoredJobs
<1>2. CASE m \notin DOMAIN db
  BY <1>2 DEF StoredJobs, NoConfigs
<1> QED
  BY <1>1, <1>2

LEMMA EventsTyped ==
  ASSUME TypeInv
  PROVE  /\ Len(events) \in Nat /\ DOMAIN events = 1..Len(events)
         /\ \A i \in DOMAIN events : events[i].cfg \in Configs /\ events[i].job.mon \in Monitors
<1>1. events \in Seq(Event)
  BY DEF TypeInv, Queues
<1>2. ASSUME NEW i \in DOMAIN events
      PROVE  events[i].cfg \in Configs /\ events[i].job.mon \in Monitors
  <2>1. events[i] \in Event
    BY <1>1
  <2> QED
    BY <2>1 DEF Event, Job
<1> QED
  BY <1>1, <1>2

\* A fresh id may be given to any monitor.
LEMMA FreshId ==
  ASSUME TypeInv, NEW own \in Owners, Follows(own), NEW c \in HTTPIds \ used, NEW m \in Monitors
  PROVE  [own EXCEPT ![c] = m] \in Owners /\ Follows([own EXCEPT ![c] = m])
<1> DEFINE new == [own EXCEPT ![c] = m]
<1>1. c \in Configs /\ \A n \in Monitors : PingOf[n] \in Configs /\ PingOf[n] # c
  BY IdAssumption DEF Configs, Range
<1>2. new \in Owners
  BY DEF Owners
<1>3. new[c] = m /\ \A d \in Configs \ {c} : new[d] = own[d]
  BY <1>1 DEF Owners
<1> HIDE DEF new
<1>4. ASSUME NEW n, NEW d \in Configs, Owns(own, n, d) PROVE d # c /\ Owns(new, n, d)
  BY <1>3, <1>4 DEF Owns, Given
<1>5. \A n \in DOMAIN db : \A d \in DOMAIN db[n].cfgs : d \in Configs
  BY TableElim DEF TypeInv, Tables, Valid, Aggregate
<1>6. \A i \in DOMAIN events : events[i].cfg \in Configs
  BY EventsTyped
<1>7. ASSUME NEW t \in Threads PROVE OwnedBy(new, t)
  <2>1. OwnedBy(own, t) /\ ThreadOK(t)
    BY DEF Follows, Owned, TypeInv
  <2>2. pc[t] \in {"rows", "write"} => \A d \in DOMAIN seen[t].cfgs : d \in Configs
    BY <2>1, TableElim DEF ThreadOK, Aggregate
  <2>3. pc[t] # "idle" /\ req[t].op = "add" => req[t].cfg \in Configs
    BY <2>1 DEF ThreadOK, Asked, Configs
  <2>4. \A e \in out[t] : e.cfg \in Configs
    BY <2>1 DEF ThreadOK, Event
  <2> QED
    BY <1>4, <2>1, <2>2, <2>3, <2>4 DEF OwnedBy
<1>8. Owned(new)
  <2>1. \A n \in Monitors : new[PingOf[n]] = n
    BY <1>1, <1>3 DEF Follows, Owned
  <2>2. \A d \in DOMAIN plan : d \in Configs
    BY DEF TypeInv, Queues
  <2> QED
    BY <1>4, <1>5, <1>6, <1>7, <2>1, <2>2 DEF Follows, Owned
<1>9. Settled(new)
  <2>1. Known(c) = {}
    <3>1. \A i \in DOMAIN events : events[i].cfg # c
      BY <1>4, <1>6 DEF Follows, Owned
    <3>2. c \notin DOMAIN plan
      BY <1>4 DEF Follows, Owned, TypeInv, Queues
    <3>3. Touching(events, Len(events), c) = {}
      BY <3>1 DEF Touching, TypeInv, Queues
    <3> QED
      BY <3>2, <3>3, EntryIs DEF Known, After
  <2>2. Entry(StoredJobs(m), c) = {}
    BY <1>4, <1>5, StoredOf, EntryIs DEF Follows, Owned
  <2> QED
    BY <1>3, <2>1, <2>2 DEF Follows, Settled
<1>10. Follows(new)
  BY <1>8, <1>9 DEF Follows
<1> QED
  BY <1>2, <1>10 DEF new

\* A step that moves no event and no row.
LEMMA NothingMoves ==
  ASSUME NEW own, Follows(own), UNCHANGED <<db, events, plan>>, muddled \subseteq muddled',
         \A t \in Threads : out'[t] = out[t]
  PROVE  Stream' /\ Sending' /\ Settled(own)'
<1>1. \A c : Known(c)' = Known(c)
  BY DEF Known
<1>2. \A m : StoredJobs(m)' = StoredJobs(m)
  BY DEF StoredJobs
<1> QED
  BY <1>1, <1>2 DEF Follows, Stream, Sending, Settled, Telling

\* A step of another handler that writes no row.
LEMMA StaysCurrent ==
  ASSUME Copies, NEW u \in Threads, pc'[u] = pc[u], req'[u] = req[u], seen'[u] = seen[u],
         db' = db, muddled \subseteq muddled', pc'[u] # "idle", req'[u].mon \notin muddled'
  PROVE  Current(u)'
<1>1. Current(u)
  BY DEF Copies
<1> QED
  BY <1>1 DEF Current

LEMMA FollowsEnds ==
  ASSUME TypeInv, NEW own, Follows(own), NEW t \in Threads, Ends(t), out[t] = {}
  PROVE  Follows(own)'
<1>1. OnlyThread(t) /\ pc'[t] = "idle" /\ out'[t] = {}
  BY DEF TypeInv, Ends, Return, Goto, OnlyThread
<1>2. \A u \in Threads : out'[u] = out[u]
  BY <1>1 DEF OnlyThread
<1>3. Stream' /\ Sending' /\ Settled(own)'
  BY <1>2, NothingMoves DEF Ends
<1>4. Alone'
  BY <1>1 DEF Follows, Ends, OnlyThread, Alone
<1>5. ASSUME NEW u \in Threads, pc'[u] # "idle", req'[u].mon \notin muddled'
      PROVE  Current(u)'
  BY <1>1, <1>5, StaysCurrent DEF Follows, Ends, OnlyThread
<1>6. Copies'
  BY <1>5 DEF Copies
<1>7. \A u \in Threads : OwnedBy(own, u)'
  BY <1>1 DEF Follows, Ends, OnlyThread, Owned, OwnedBy, Owns, Given
<1>8. Owned(own)'
  BY <1>7 DEF Follows, Ends, Owned, Owns, Given
<1> QED
  BY <1>3, <1>4, <1>8, <1>6 DEF Follows

-----------------------------------------------------------------------------
(* The schedule follows the tables: the steps of a request                   *)

\* A handler begins on a monitor that is stored or new, with configs of it.
LEMMA FollowsBegins ==
  ASSUME TypeInv, NEW own, Follows(own), NEW t \in Threads, NEW q, Begin(t, q),
         OnlyThread(t), used \subseteq used', OwnedBy(own, t)',
         q.mon \notin muddled => Current(t)'
  PROVE  Follows(own)'
<1>1. /\ pc[t] = "idle" /\ out[t] = {} /\ req'[t] = q
      /\ UNCHANGED <<db, out, events, plan>>
  BY DEF Begin, TypeInv, ThreadOK
<1>2. /\ muddled \subseteq muddled'
      /\ \A u \in Threads \ {t} : pc[u] # "idle" /\ req[u].mon = q.mon => q.mon \in muddled'
  BY DEF Begin
<1>3. Stream' /\ Sending' /\ Settled(own)'
  BY <1>1, <1>2, NothingMoves
<1>4. Alone'
  BY <1>1, <1>2 DEF Follows, Alone, OnlyThread
<1>5. ASSUME NEW u \in Threads, pc'[u] # "idle", req'[u].mon \notin muddled'
      PROVE  Current(u)'
  <2>1. CASE u = t
    BY <1>1, <1>2, <1>5, <2>1
  <2>2. CASE u # t
    BY <1>1, <1>2, <1>5, <2>2, StaysCurrent DEF Follows, OnlyThread
  <2> QED
    BY <2>1, <2>2
<1>6. Copies'
  BY <1>5 DEF Copies
<1>7. ASSUME NEW u \in Threads PROVE OwnedBy(own, u)'
  BY <1>1 DEF Follows, Owned, OnlyThread, OwnedBy, Owns, Given
<1>8. Owned(own)'
  BY <1>1, <1>7 DEF Follows, Owned, Owns, Given
<1> QED
  BY <1>3, <1>4, <1>6, <1>8 DEF Follows

LEMMA FollowsCreates ==
  ASSUME TypeInv, NEW own \in Owners, Follows(own), NEW t \in Threads, BeginCreate(t)
  PROVE  \E new \in Owners : Follows(new)'
<1>1. PICK m \in Monitors \ used, h \in Hosts, v \in Values, b \in BOOLEAN, k \in Keys :
      \E S \in {{}} \cup {{c} : c \in HTTPIds \ used} :
        /\ Begin(t, [op |-> "create", mon |-> m])
        /\ used' = used \cup {m} \cup S
        /\ seen' = [seen EXCEPT ![t] = [host |-> h, cfgs |->
                      [c \in {PingOf[m]} \cup S |->
                         [key |-> IF c \in S THEN k ELSE None, on |-> b, val |-> v]]]]
        /\ Goto(t, "write")
  BY DEF BeginCreate
<1>2. PICK S \in {{}} \cup {{c} : c \in HTTPIds \ used} :
        /\ Begin(t, [op |-> "create", mon |-> m])
        /\ used' = used \cup {m} \cup S
        /\ seen' = [seen EXCEPT ![t] = [host |-> h, cfgs |->
                      [c \in {PingOf[m]} \cup S |->
                         [key |-> IF c \in S THEN k ELSE None, on |-> b, val |-> v]]]]
        /\ Goto(t, "write")
  BY <1>1
<1>3. PICK new \in Owners : Follows(new) /\ \A c \in S : new[c] = m
  <2>1. CASE S = {}
    BY <2>1
  <2>2. CASE S # {}
    <3>1. PICK c \in HTTPIds \ used : S = {c}
      BY <2>2
    <3>2. [own EXCEPT ![c] = m] \in Owners /\ Follows([own EXCEPT ![c] = m])
      BY FreshId
    <3>3. c \in DOMAIN own
      BY DEF Owners, Configs
    <3> QED
      BY <3>1, <3>2, <3>3
  <2> QED
    BY <2>1, <2>2
<1> DEFINE q == [op |-> "create", mon |-> m]
           f == [c \in {PingOf[m]} \cup S |->
                   [key |-> IF c \in S THEN k ELSE None, on |-> b, val |-> v]]
<1>4. OnlyThread(t) /\ used \subseteq used'
  BY <1>2 DEF TypeInv, Begin, Goto, OnlyThread
<1>5. /\ pc'[t] = "write" /\ req'[t] = q /\ out'[t] = {} /\ m \notin DOMAIN db
      /\ seen'[t] = [host |-> h, cfgs |-> f] /\ db' = db
  BY <1>2 DEF TypeInv, Begin, Goto, ThreadOK, Tables
<1>6. DOMAIN f = {PingOf[m]} \cup S
  OBVIOUS
<1> HIDE DEF f
<1>7. Current(t)'
  BY <1>5 DEF Current
<1>8. ASSUME NEW c \in DOMAIN f PROVE Owns(new, m, c)'
  <2>1. CASE c \in S
    BY <1>2, <1>3, <2>1 DEF Owns, Given
  <2>2. CASE c = PingOf[m]
    BY <1>3, <2>2, IdAssumption DEF Owns, Given, Follows, Owned, Range
  <2> QED
    BY <1>6, <2>1, <2>2
<1>9. OwnedBy(new, t)'
  BY <1>5, <1>8 DEF OwnedBy, Owns, Given
<1>10. Follows(new)'
  BY <1>2, <1>3, <1>4, <1>7, <1>9, FollowsBegins
<1> QED
  BY <1>3, <1>10

LEMMA FollowsOthers ==
  ASSUME TypeInv, NEW own \in Owners, Follows(own), NEW t \in Threads, BeginOther(t)
  PROVE  \E new \in Owners : Follows(new)'
<1>1. PICK m \in DOMAIN db : \E q \in RequestsOn(m) :
        /\ Begin(t, q)
        /\ used' = IF q.op = "add" THEN used \cup {q.cfg} ELSE used
        /\ seen' = [seen EXCEPT ![t] = [db[m] EXCEPT !.cfgs = Restrict(@, {PingOf[m]})]]
        /\ Goto(t, "rows")
  BY DEF BeginOther
<1>2. PICK q \in RequestsOn(m) :
        /\ Begin(t, q)
        /\ used' = IF q.op = "add" THEN used \cup {q.cfg} ELSE used
        /\ seen' = [seen EXCEPT ![t] = [db[m] EXCEPT !.cfgs = Restrict(@, {PingOf[m]})]]
        /\ Goto(t, "rows")
  BY <1>1
<1>3. /\ m \in Monitors \cap used /\ Valid(m, db[m])
      /\ q.mon = m /\ (q.op = "add" => q.cfg \in HTTPIds \ used)
  BY Requested DEF TypeInv, Tables
<1>4. PICK new \in Owners : Follows(new) /\ (q.op = "add" => new[q.cfg] = m)
  <2>1. CASE q.op = "add"
    <3>1. [own EXCEPT ![q.cfg] = m] \in Owners /\ Follows([own EXCEPT ![q.cfg] = m])
      BY <1>3, <2>1, FreshId
    <3>2. q.cfg \in DOMAIN own
      BY <1>3, <2>1 DEF Owners, Configs
    <3> QED
      BY <3>1, <3>2
  <2>2. CASE q.op # "add"
    BY <2>2
  <2> QED
    BY <2>1, <2>2
<1> DEFINE a == [db[m] EXCEPT !.cfgs = Restrict(@, {PingOf[m]})]
<1>5. OnlyThread(t) /\ used \subseteq used'
  BY <1>2 DEF TypeInv, Begin, Goto, OnlyThread
<1>6. /\ pc'[t] = "rows" /\ req'[t] = q /\ out'[t] = {} /\ seen'[t] = a /\ db' = db
  BY <1>2 DEF TypeInv, Begin, Goto, ThreadOK
<1>7. /\ a.host = db[m].host /\ DOMAIN a.cfgs = {PingOf[m]}
      /\ a.cfgs[PingOf[m]] = db[m].cfgs[PingOf[m]]
  BY <1>3 DEF Valid, Aggregate, Restrict
<1> HIDE DEF a
<1>8. Current(t)'
  BY <1>3, <1>6, <1>7 DEF Current
<1>9. OwnedBy(new, t)'
  <2>1. Owns(new, m, PingOf[m])'
    BY <1>3, <1>4, IdAssumption DEF Owns, Given, Follows, Owned, Range
  <2>2. q.op = "add" => Owns(new, m, q.cfg)'
    BY <1>2, <1>4 DEF Owns, Given
  <2> QED
    BY <1>3, <1>6, <1>7, <2>1, <2>2 DEF OwnedBy, Owns, Given
<1>10. Follows(new)'
  BY <1>2, <1>4, <1>5, <1>8, <1>9, FollowsBegins
<1> QED
  BY <1>4, <1>10

\* The two queries of a handler that is alone give what is stored.
LEMMA ReadCurrent ==
  ASSUME TypeInv, NEW t \in Threads, pc[t] = "rows", Current(t)
  PROVE  Read(t) = db[req[t].mon]
<1> DEFINE m == req[t].mon
           ping == PingOf[m]
           rows == HTTPRows(m)
           f == [c \in DOMAIN seen[t].cfgs \cup DOMAIN rows |->
                   IF c \in DOMAIN seen[t].cfgs THEN seen[t].cfgs[c] ELSE rows[c]]
<1>1. /\ m \in DOMAIN db /\ seen[t].host = db[m].host /\ seen[t] \in Aggregate
      /\ DOMAIN seen[t].cfgs = {ping} /\ seen[t].cfgs[ping] = db[m].cfgs[ping]
  BY DEF Current, TypeInv, ThreadOK
<1>2. db[m] \in Aggregate /\ ping \in DOMAIN db[m].cfgs
  BY <1>1 DEF TypeInv, Tables, Valid
<1>3. DOMAIN rows = DOMAIN db[m].cfgs \ {ping} /\ \A c \in DOMAIN rows : rows[c] = db[m].cfgs[c]
  BY <1>1 DEF HTTPRows, Without, Restrict
<1>4. db[m].cfgs = [c \in DOMAIN db[m].cfgs |-> db[m].cfgs[c]]
  BY <1>2, TableElim DEF Aggregate
<1> HIDE DEF rows
<1>5. DOMAIN f = DOMAIN db[m].cfgs /\ \A c \in DOMAIN f : f[c] = db[m].cfgs[c]
  BY <1>1, <1>2, <1>3
<1>6. f = [c \in DOMAIN f |-> f[c]]
  OBVIOUS
<1>7. Read(t) = [seen[t] EXCEPT !.cfgs = f]
  BY DEF Read, rows
<1> HIDE DEF f
<1>8. f = db[m].cfgs
  BY <1>4, <1>5, <1>6
<1> QED
  BY <1>1, <1>2, <1>7, <1>8 DEF Aggregate

LEMMA FollowsReads ==
  ASSUME TypeInv, NEW own, Follows(own), NEW t \in Threads, ReadHTTPConfigs(t)
  PROVE  Follows(own)'
<1>1. pc[t] = "rows" /\ out[t] = {} /\ req[t].op # "create"
  BY ReadIs DEF TypeInv, ThreadOK
<1>2. CASE Ends(t)
  BY <1>1, <1>2, FollowsEnds
<1>3. CASE /\ Accepts(Read(t), req[t])
           /\ seen' = [seen EXCEPT ![t] = Read(t)]
           /\ Goto(t, "write")
           /\ UNCHANGED <<db, used, req, out, events, plan, requests, restarts, muddled>>
  <2>1. OnlyThread(t) /\ pc'[t] = "write" /\ seen'[t] = Read(t)
    BY <1>3 DEF TypeInv, Goto, OnlyThread
  <2>2. Stream' /\ Sending' /\ Settled(own)'
    BY <1>3, NothingMoves
  <2>3. Alone'
    BY <1>1, <1>3, <2>1 DEF Follows, Alone, OnlyThread
  <2>4. ASSUME NEW u \in Threads, pc'[u] # "idle", req'[u].mon \notin muddled'
        PROVE  Current(u)'
    <3>1. CASE u = t
      <4>1. Current(t)
        BY <1>1, <1>3, <2>4, <3>1 DEF Follows, Copies
      <4>2. Read(t) = db[req[t].mon] /\ req[t].mon \in DOMAIN db
        BY <1>1, <4>1, ReadCurrent DEF Current
      <4> QED
        BY <1>1, <1>3, <2>1, <3>1, <4>2 DEF Current
    <3>2. CASE u # t
      BY <1>3, <2>1, <2>4, <3>2, StaysCurrent DEF Follows, OnlyThread
    <3> QED
      BY <3>1, <3>2
  <2>5. Copies'
    BY <2>4 DEF Copies
  <2>6. \A c \in DOMAIN Read(t).cfgs : Owns(own, req[t].mon, c)
    <3>1. \A c \in DOMAIN seen[t].cfgs : Owns(own, req[t].mon, c)
      BY <1>1 DEF Follows, Owned, OwnedBy
    <3> QED
      BY <3>1, ReadIs DEF Follows, Owned
  <2>7. ASSUME NEW u \in Threads PROVE OwnedBy(own, u)'
    BY <1>1, <1>3, <2>1, <2>6 DEF Follows, Owned, OwnedBy, OnlyThread, Owns, Given
  <2>8. Owned(own)'
    BY <1>3, <2>7 DEF Follows, Owned, Owns, Given
  <2> QED
    BY <2>2, <2>3, <2>5, <2>8 DEF Follows
<1> QED
  BY <1>2, <1>3, ReadIs

\* An event that a handler has yet to send is of its own monitor.
LEMMA OwnEvents ==
  ASSUME TypeInv, NEW own, Follows(own), NEW t \in Threads, NEW e \in out[t]
  PROVE  /\ pc[t] = "send" /\ req[t].mon = e.job.mon /\ own[e.cfg] = e.job.mon
         /\ e.job.mon \in Monitors /\ e.cfg \in Configs
<1>1. pc[t] = "send" /\ e \in Event
  BY DEF TypeInv, ThreadOK
<1>2. req[t].mon = e.job.mon /\ own[e.cfg] = e.job.mon
  BY DEF Follows, Owned, OwnedBy, Owns
<1>3. e.job.mon \in Monitors /\ e.cfg \in Configs
  BY <1>1 DEF Event, Job
<1> QED
  BY <1>1, <1>2, <1>3

LEMMA FollowsWrites ==
  ASSUME TypeInv, NEW own, Follows(own), NEW t \in Threads, Wrote(t)
  PROVE  Follows(own)'
<1> DEFINE m == req[t].mon
           before == JobsBefore(t)
           after == JobsAfter(t)
           new == Diff(before, after)
<1>1. /\ pc[t] = "write" /\ Asked(req[t]) /\ m \in Monitors /\ out[t] = {}
      /\ UNCHANGED <<used, req, events, plan, muddled>>
  BY DEF Wrote, TypeInv, ThreadOK, Asked
<1>2. OnlyThread(t) /\ pc'[t] = "send" /\ out'[t] = new
  BY DEF TypeInv, Wrote, Goto, OnlyThread
<1>3. /\ DOMAIN db' \subseteq DOMAIN db \cup {m}
      /\ \A n \in DOMAIN db \ {m} : n \in DOMAIN db' /\ db'[n] = db[n]
      /\ m \in DOMAIN db' =>
           \A c \in DOMAIN db'[m].cfgs :
             \/ m \in DOMAIN db /\ c \in DOMAIN db[m].cfgs
             \/ c \in DOMAIN seen[t].cfgs
             \/ req[t].op = "add" /\ c = req[t].cfg
  BY DEF Wrote, RowsFit
<1>4. \A n : n # m => StoredJobs(n)' = StoredJobs(n)
  BY <1>3 DEF StoredJobs
<1>5. \A n : n = m /\ m \notin muddled => before = StoredJobs(n) /\ after = StoredJobs(n)'
  <2>1. m \notin muddled => Current(t)
    BY <1>1 DEF Follows, Copies
  <2>2. RowsFit(t, db')
    BY DEF Wrote
  <2> QED
    BY <2>1, <2>2, <1>1 DEF RowsFit, StoredJobs
<1>6. \A e \in new : /\ e.job.mon = m /\ e.cfg \in Configs
                     /\ e.cfg \in DOMAIN seen[t].cfgs \/ (req[t].op = "add" /\ e.cfg = req[t].cfg)
  <2>1. \A e \in new : /\ e.cfg \in DOMAIN before \cup DOMAIN after
                       /\ e.job = IF e.cfg \in DOMAIN after THEN after[e.cfg] ELSE before[e.cfg]
    BY DiffTells
  <2> HIDE DEF before, after, new
  <2> QED
    BY <1>1, <2>1, JobsWritten DEF before, after
<1>7. /\ \A e \in new : /\ Effect(e) = Entry(after, e.cfg)
                        /\ e.type = "created" <=> Entry(before, e.cfg) = {}
      /\ \A e, f \in new : e.cfg = f.cfg => e = f
      /\ \A c : (\A e \in new : e.cfg # c) => Entry(before, c) = Entry(after, c)
  BY DiffTells
<1> HIDE DEF before, after, new
<1>8. \A c : Owns(own, m, c) => Owns(own, m, c)'
  BY <1>1 DEF Owns, Given
<1>9. Owned(own)'
  <2>1. /\ \A c \in DOMAIN seen[t].cfgs : Owns(own, m, c)
        /\ req[t].op = "add" => Owns(own, m, req[t].cfg)
    BY <1>1 DEF Follows, Owned, OwnedBy
  <2>2. ASSUME NEW n \in DOMAIN db', NEW c \in DOMAIN db'[n].cfgs PROVE Owns(own, n, c)
    BY <1>3, <2>1 DEF Follows, Owned
  <2>3. ASSUME NEW u \in Threads PROVE OwnedBy(own, u)'
    <3>1. CASE u = t
      BY <1>1, <1>2, <1>6, <2>1, <3>1 DEF OwnedBy, Owns, Given
    <3>2. CASE u # t
      BY <1>1, <1>2, <3>2 DEF Follows, Owned, OwnedBy, OnlyThread, Owns, Given
    <3> QED
      BY <3>1, <3>2
  <2> QED
    BY <1>1, <2>2, <2>3 DEF Follows, Owned, Owns, Given
<1>10. Alone'
  BY <1>1, <1>2 DEF Follows, Alone, OnlyThread
<1>11. \A u \in Threads \ {t} : pc[u] # "idle" /\ req[u].mon \notin muddled => req[u].mon # m
  BY <1>1 DEF Follows, Alone
<1>12. Copies'
  <2>1. ASSUME NEW u \in Threads \ {t}, pc[u] # "idle", req[u].mon \notin muddled
        PROVE  Current(u)'
    <3>1. Current(u) /\ req[u].mon # m
      BY <1>11, <2>1 DEF Follows, Copies
    <3> QED
      BY <1>1, <1>2, <1>3, <3>1 DEF Current, OnlyThread
  <2>2. Current(t)'
    BY <1>2 DEF Current
  <2> QED
    BY <1>1, <1>2, <2>1, <2>2 DEF Copies, OnlyThread
<1>13. \A c : Known(c)' = Known(c)
  BY <1>1 DEF Known
<1>14. Stream'
  BY <1>1 DEF Follows, Stream
<1>15. ASSUME NEW c \in Configs, own[c] = m, m \notin muddled
       PROVE  /\ Known(c) = Entry(before, c)
              /\ \A u \in Threads : \A e \in out[u] : e.cfg # c
  <2>1. \A u \in Threads : \A e \in out[u] : e.cfg # c
    BY <1>1, <1>11, <1>15, OwnEvents
  <2> QED
    BY <1>5, <1>15, <2>1 DEF Follows, Settled
<1>16. Sending'
  <2>1. ASSUME NEW e \in new, m \notin muddled PROVE Telling(e)'
    <3>1. own[e.cfg] = m
      BY <1>1, <1>6 DEF Follows, Owned, OwnedBy, Owns
    <3>2. Known(e.cfg) = Entry(before, e.cfg)
      BY <1>6, <1>15, <2>1, <3>1
    <3> QED
      BY <1>5, <1>6, <1>7, <1>13, <2>1, <3>2 DEF Telling
  <2>2. ASSUME NEW u \in Threads \ {t}, NEW e \in out[u], e.job.mon \notin muddled PROVE Telling(e)'
    <3>1. e.job.mon # m
      BY <1>11, <2>2, OwnEvents
    <3>2. Telling(e)
      BY <2>2 DEF Follows, Sending
    <3> QED
      BY <1>4, <1>13, <3>1, <3>2 DEF Telling
  <2> QED
    BY <1>1, <1>2, <1>6, <1>7, <2>1, <2>2 DEF Follows, Sending, OnlyThread
<1>17. Settled(own)'
  <2> SUFFICES ASSUME NEW c \in Configs, own[c] \notin muddled,
                      \A u \in Threads : \A e \in out'[u] : e.cfg # c
               PROVE  Known(c) = Entry(StoredJobs(own[c])', c)
    BY <1>1, <1>13 DEF Settled
  <2>1. CASE own[c] = m
    BY <1>2, <1>5, <1>7, <1>15, <2>1
  <2>2. CASE own[c] # m
    <3>1. \A u \in Threads : \A e \in out[u] : e.cfg # c
      BY <1>1, <1>2 DEF OnlyThread
    <3> QED
      BY <1>4, <2>2, <3>1 DEF Follows, Settled
  <2> QED
    BY <2>1, <2>2
<1> QED
  BY <1>9, <1>10, <1>12, <1>14, <1>16, <1>17 DEF Follows

LEMMA FollowsSends ==
  ASSUME TypeInv, NEW own, Follows(own), NEW t \in Threads, SendEvent(t)
  PROVE  Follows(own)'
<1>1. PICK e \in Sendable(t) : events' = Append(events, e) /\ out' = [out EXCEPT ![t] = @ \ {e}]
  BY DEF SendEvent
<1>2. UNCHANGED <<db, used, pc, req, seen, plan, muddled>>
  BY DEF SendEvent
<1>3. /\ e \in out[t] /\ pc[t] = "send" /\ req[t].mon = e.job.mon /\ own[e.cfg] = e.job.mon
      /\ e.cfg \in Configs /\ e.job.mon \in Monitors /\ e \in Event
  BY OwnEvents DEF Sendable, TypeInv, ThreadOK
<1>4. out'[t] = out[t] \ {e} /\ \A u \in Threads \ {t} : out'[u] = out[u]
  BY <1>1 DEF TypeInv
<1>5. events \in Seq(Event) /\ Len(events) \in Nat
  BY DEF TypeInv, Queues
<1>6. /\ Len(events') = Len(events) + 1 /\ events'[Len(events) + 1] = e
      /\ \A i \in 1..Len(events) : events'[i] = events[i]
      /\ DOMAIN events' = 1..(Len(events) + 1) /\ DOMAIN events = 1..Len(events)
  BY <1>1, <1>3, <1>5
<1>7. \A i \in 0..Len(events) : \A c : After(plan, events', i, c) = After(plan, events, i, c)
  BY <1>1, <1>5, AfterAppend
<1>8. \A c : Known(c)' = IF e.cfg = c THEN Effect(e) ELSE Known(c)
  <2> SUFFICES ASSUME NEW c
               PROVE  After(plan, events', Len(events) + 1, c) =
                        IF e.cfg = c THEN Effect(e) ELSE After(plan, events, Len(events), c)
    BY <1>2, <1>6 DEF Known
  <2> DEFINE n == Len(events) + 1
  <2>1. n \in Nat \ {0} /\ n - 1 = Len(events) /\ Len(events) \in 0..Len(events)
    BY <1>5
  <2> HIDE DEF n
  <2>2. CASE e.cfg = c
    <3>1. events'[n].cfg = c
      BY <1>6, <2>2 DEF n
    <3>2. After(plan, events', n, c) = Effect(events'[n])
      BY <2>1, <3>1, AfterHit
    <3> QED
      BY <1>6, <2>2, <3>2 DEF n
  <2>3. CASE e.cfg # c
    <3>1. events'[n].cfg # c
      BY <1>6, <2>3 DEF n
    <3>2. After(plan, events', n, c) = After(plan, events', n - 1, c)
      BY <2>1, <3>1, AfterMiss
    <3> QED
      BY <1>7, <2>1, <2>3, <3>2 DEF n
  <2> QED
    BY <2>2, <2>3
<1>9. \A n : StoredJobs(n)' = StoredJobs(n)
  BY <1>2 DEF StoredJobs
<1>10. Owned(own)'
  <2>1. Owns(own, e.job.mon, e.cfg)
    BY <1>3 DEF Follows, Owned, OwnedBy
  <2>2. \A i \in DOMAIN events' : Owns(own, events'[i].job.mon, events'[i].cfg)
    BY <1>5, <1>6, <2>1 DEF Follows, Owned
  <2>3. ASSUME NEW u \in Threads PROVE OwnedBy(own, u)'
    <3>1. OwnedBy(own, u) /\ out'[u] \subseteq out[u]
      BY <1>4 DEF Follows, Owned
    <3> QED
      BY <1>2, <3>1 DEF OwnedBy, Owns, Given
  <2> QED
    BY <1>2, <2>2, <2>3 DEF Follows, Owned, Owns, Given
<1>11. Alone' /\ Copies'
  BY <1>2 DEF Follows, Alone, Copies, Current
<1>12. e.job.mon \notin muddled => Telling(e)
  BY <1>3 DEF Follows, Sending
<1>13. Stream'
  <2> SUFFICES ASSUME NEW i \in DOMAIN events', events'[i].job.mon \notin muddled
               PROVE  events'[i].type = "created" <=> After(plan, events', i - 1, events'[i].cfg) = {}
    BY <1>2 DEF Stream
  <2>1. CASE i \in 1..Len(events)
    <3>1. i - 1 \in 0..Len(events) /\ events'[i] = events[i]
      BY <1>5, <1>6, <2>1
    <3> QED
      BY <1>6, <1>7, <2>1, <3>1 DEF Follows, Stream
  <2>2. CASE i = Len(events) + 1
    <3>1. events'[i] = e /\ i - 1 = Len(events) /\ Len(events) \in 0..Len(events)
      BY <1>5, <1>6, <2>2
    <3> QED
      BY <1>7, <1>12, <3>1 DEF Telling, Known
  <2> QED
    BY <1>5, <1>6, <2>1, <2>2
<1>14. Sending'
  <2>1. ASSUME NEW u \in Threads, NEW f \in out'[u], f.job.mon \notin muddled
        PROVE  Telling(f)'
    <3>1. f \in out[u] /\ (u = t => f # e)
      BY <1>4
    <3>2. Telling(f)
      BY <2>1, <3>1 DEF Follows, Sending
    <3>3. f.cfg # e.cfg
      <4>1. CASE u = t
        BY <1>3, <3>1, <4>1 DEF Follows, Sending
      <4>2. CASE u # t
        BY <1>3, <2>1, <3>1, <4>2, OwnEvents DEF Follows, Alone
      <4> QED
        BY <4>1, <4>2
    <3> QED
      BY <1>8, <1>9, <3>2, <3>3 DEF Telling
  <2>2. \A u \in Threads : out'[u] \subseteq out[u]
    BY <1>4
  <2> QED
    BY <1>2, <2>1, <2>2 DEF Follows, Sending
<1>15. Settled(own)'
  <2> SUFFICES ASSUME NEW c \in Configs, own[c] \notin muddled,
                      \A u \in Threads : \A f \in out'[u] : f.cfg # c
               PROVE  Known(c)' = Entry(StoredJobs(own[c]), c)
    BY <1>2, <1>9 DEF Settled
  <2>1. CASE c = e.cfg
    BY <1>3, <1>8, <1>12, <2>1 DEF Telling
  <2>2. CASE c # e.cfg
    <3>1. \A u \in Threads : \A f \in out[u] : f.cfg # c
      BY <1>4, <2>2
    <3> QED
      BY <1>8, <2>2, <3>1 DEF Follows, Settled
  <2> QED
    BY <2>1, <2>2
<1> QED
  BY <1>10, <1>11, <1>13, <1>14, <1>15 DEF Follows

LEMMA FollowsLoses ==
  ASSUME TypeInv, NEW own, Follows(own), NEW t \in Threads, LoseEvent(t)
  PROVE  Follows(own)'
<1>1. PICK e \in Sendable(t) : out' = [out EXCEPT ![t] = @ \ {e}]
  BY DEF LoseEvent
<1>2. /\ UNCHANGED <<db, used, pc, req, seen, events, plan>>
      /\ muddled' = muddled \cup {req[t].mon}
  BY DEF LoseEvent
<1>3. e \in out[t] /\ req[t].mon = e.job.mon /\ own[e.cfg] = e.job.mon
  BY OwnEvents DEF Sendable
<1>4. out'[t] = out[t] \ {e} /\ \A u \in Threads \ {t} : out'[u] = out[u]
  BY <1>1 DEF TypeInv
<1>5. \A u \in Threads : out'[u] \subseteq out[u]
  BY <1>4
<1>6. \A c : Known(c)' = Known(c)
  BY <1>2 DEF Known
<1>7. \A m : StoredJobs(m)' = StoredJobs(m)
  BY <1>2 DEF StoredJobs
<1>8. ASSUME NEW u \in Threads PROVE OwnedBy(own, u)'
  BY <1>2, <1>5 DEF Follows, Owned, OwnedBy, Owns, Given
<1>9. Owned(own)'
  BY <1>2, <1>8 DEF Follows, Owned, Owns, Given
<1>10. Alone' /\ Copies' /\ Stream'
  BY <1>2 DEF Follows, Alone, Copies, Current, Stream
<1>11. Sending'
  BY <1>2, <1>5, <1>6, <1>7 DEF Follows, Sending, Telling
<1>12. Settled(own)'
  <2> SUFFICES ASSUME NEW c \in Configs, own[c] \notin muddled',
                      \A u \in Threads : \A f \in out'[u] : f.cfg # c
               PROVE  Known(c) = Entry(StoredJobs(own[c]), c)
    BY <1>6, <1>7 DEF Settled
  <2>1. c # e.cfg
    BY <1>2, <1>3
  <2>2. \A u \in Threads : \A f \in out[u] : f.cfg # c
    BY <1>4, <2>1
  <2> QED
    BY <1>2, <2>2 DEF Follows, Settled
<1> QED
  BY <1>9, <1>10, <1>11, <1>12 DEF Follows

-----------------------------------------------------------------------------
(* The schedule follows the tables: the scheduler, and a restart             *)

LEMMA FollowsApplies ==
  ASSUME TypeInv, NEW own, Follows(own), ApplyEvent
  PROVE  Follows(own)'
<1> DEFINE e == Head(events)
           n == Len(events)
<1>1. /\ events \in Seq(Event) /\ events # <<>> /\ events' = Tail(events)
      /\ UNCHANGED <<db, used, pc, req, seen, out, muddled>>
  BY DEF ApplyEvent, threads, TypeInv, Queues
<1>2. plan' = Applied(plan, e)
  BY DEF ApplyEvent, Applied
<1>3. /\ n \in Nat /\ n > 0 /\ Len(events') = n - 1 /\ e = events[1] /\ 1 \in DOMAIN events
      /\ DOMAIN events' = 1..(n - 1) /\ DOMAIN events = 1..n
      /\ \A i \in 1..(n - 1) : events'[i] = events[i + 1]
  BY <1>1
<1>4. \A i \in 0..(n - 1) : \A c : After(plan', events', i, c) = After(plan, events, i + 1, c)
  BY <1>1, <1>2, AfterTail
<1>5. \A c : Known(c)' = Known(c)
  <2>1. n - 1 \in 0..(n - 1) /\ n - 1 + 1 = n
    BY <1>3
  <2> QED
    BY <1>3, <1>4, <2>1 DEF Known
<1>6. \A m : StoredJobs(m)' = StoredJobs(m)
  BY <1>1 DEF StoredJobs
<1>7. Owned(own)'
  <2>1. \A i \in DOMAIN events : Owns(own, events[i].job.mon, events[i].cfg)
    BY DEF Follows, Owned
  <2>2. \A c \in DOMAIN plan' : Owns(own, plan'[c].mon, c)
    <3>1. CASE e.type = "deleted"
      BY <1>2, <3>1 DEF Applied, Without, Restrict, Follows, Owned
    <3>2. CASE e.type # "deleted"
      <4>1. DOMAIN plan' = DOMAIN plan \cup {e.cfg}
            /\ \A c \in DOMAIN plan' : plan'[c] = IF c = e.cfg THEN e.job ELSE plan[c]
        BY <1>2, <3>2 DEF Applied, Put
      <4> QED
        BY <1>3, <2>1, <4>1 DEF Follows, Owned
    <3> QED
      BY <3>1, <3>2
  <2>3. ASSUME NEW i \in DOMAIN events' PROVE Owns(own, events'[i].job.mon, events'[i].cfg)
    <3>1. i + 1 \in DOMAIN events /\ events'[i] = events[i + 1]
      BY <1>3
    <3> QED
      BY <2>1, <3>1
  <2>4. \A u \in Threads : OwnedBy(own, u)'
    BY <1>1 DEF Follows, Owned, OwnedBy, Owns, Given
  <2> QED
    BY <1>1, <2>2, <2>3, <2>4 DEF Follows, Owned, Owns, Given
<1>8. Alone' /\ Copies'
  BY <1>1 DEF Follows, Alone, Copies, Current
<1>9. Stream'
  <2> SUFFICES ASSUME NEW i \in DOMAIN events', events'[i].job.mon \notin muddled
               PROVE  events'[i].type = "created" <=> After(plan', events', i - 1, events'[i].cfg) = {}
    BY <1>1 DEF Stream
  <2>1. /\ i + 1 \in DOMAIN events /\ events'[i] = events[i + 1]
        /\ i - 1 \in 0..(n - 1) /\ (i - 1) + 1 = (i + 1) - 1
    BY <1>3
  <2> QED
    BY <1>4, <2>1 DEF Follows, Stream
<1>10. Sending' /\ Settled(own)'
  BY <1>1, <1>5, <1>6 DEF Follows, Sending, Telling, Settled
<1> QED
  BY <1>7, <1>8, <1>9, <1>10 DEF Follows

\* A process that starts from the tables schedules what is stored.
LEMMA PlannedAsStored ==
  ASSUME TypeInv, NEW own,
         \A m \in DOMAIN db : \A c \in DOMAIN db[m].cfgs : Owns(own, m, c)
  PROVE  /\ \A c : Entry(EnabledJobs, c) = Entry(StoredJobs(own[c]), c)
         /\ \A c \in DOMAIN EnabledJobs : Owns(own, EnabledJobs[c].mon, c)
<1>1. /\ \A m \in DOMAIN db : DOMAIN ProjectJobs(m, db[m]) \subseteq DOMAIN EnabledJobs
      /\ \A c \in DOMAIN EnabledJobs :
           \E m \in DOMAIN db : /\ c \in DOMAIN ProjectJobs(m, db[m])
                                /\ EnabledJobs[c] = ProjectJobs(m, db[m])[c]
  BY PlannedFromTables DEF TypeInv
<1>2. \A m \in DOMAIN db : /\ DOMAIN ProjectJobs(m, db[m]) \subseteq DOMAIN db[m].cfgs
                           /\ \A c \in DOMAIN ProjectJobs(m, db[m]) : ProjectJobs(m, db[m])[c].mon = m
  BY JobsOf DEF TypeInv, Tables, Valid
<1>3. ASSUME NEW c \in DOMAIN EnabledJobs
      PROVE  /\ own[c] \in DOMAIN db /\ c \in DOMAIN StoredJobs(own[c])
             /\ EnabledJobs[c] = StoredJobs(own[c])[c]
             /\ Owns(own, EnabledJobs[c].mon, c)
  <2>1. PICK m \in DOMAIN db : /\ c \in DOMAIN ProjectJobs(m, db[m])
                               /\ EnabledJobs[c] = ProjectJobs(m, db[m])[c]
    BY <1>1
  <2>2. Owns(own, m, c) /\ own[c] = m
    BY <1>2, <2>1 DEF Owns
  <2> QED
    BY <1>2, <2>1, <2>2 DEF StoredJobs
<1>4. ASSUME NEW c, c \notin DOMAIN EnabledJobs PROVE c \notin DOMAIN StoredJobs(own[c])
  BY <1>1, <1>4 DEF StoredJobs, NoConfigs
<1> QED
  BY <1>3, <1>4, EntryIs

LEMMA FollowsAnew ==
  ASSUME TypeInv, NEW own,
         \A m \in Monitors : own[PingOf[m]] = m,
         \A m \in DOMAIN db : \A c \in DOMAIN db[m].cfgs : Owns(own, m, c),
         events = <<>>, plan = EnabledJobs,
         \A t \in Threads : pc[t] = "idle" /\ out[t] = {}
  PROVE  Follows(own)
<1>1. DOMAIN events = {} /\ Len(events) = 0
  OBVIOUS
<1>2. /\ \A c : Entry(EnabledJobs, c) = Entry(StoredJobs(own[c]), c)
      /\ \A c \in DOMAIN EnabledJobs : Owns(own, EnabledJobs[c].mon, c)
  BY PlannedAsStored
<1>3. Owned(own)
  BY <1>1, <1>2 DEF Owned, OwnedBy
<1>4. Alone /\ Copies /\ Stream /\ Sending
  BY <1>1 DEF Alone, Copies, Stream, Sending
<1>5. Settled(own)
  BY <1>1, <1>2, AfterNothing DEF Settled, Known
<1> QED
  BY <1>3, <1>4, <1>5 DEF Follows

LEMMA FollowsRestarts ==
  ASSUME TypeInv, NEW own, Follows(own), Restart
  PROVE  Follows(own)'
<1>1. /\ UNCHANGED <<db, used>> /\ events' = <<>> /\ plan' = EnabledJobs
      /\ \A t \in Threads : pc'[t] = "idle" /\ out'[t] = {}
  BY DEF Restart
<1>2. DOMAIN events' = {} /\ Len(events') = 0
  BY <1>1
<1>3. /\ \A c : Entry(EnabledJobs, c) = Entry(StoredJobs(own[c]), c)
      /\ \A c \in DOMAIN EnabledJobs : Owns(own, EnabledJobs[c].mon, c)
  BY PlannedAsStored DEF Follows, Owned
<1>4. \A m : StoredJobs(m)' = StoredJobs(m)
  BY <1>1 DEF StoredJobs
<1>5. Owned(own)'
  BY <1>1, <1>2, <1>3 DEF Follows, Owned, OwnedBy, Owns, Given
<1>6. Alone' /\ Copies' /\ Stream' /\ Sending'
  BY <1>1, <1>2 DEF Alone, Copies, Stream, Sending
<1>7. Settled(own)'
  BY <1>1, <1>2, <1>3, <1>4, AfterNothing DEF Settled, Known
<1> QED
  BY <1>5, <1>6, <1>7 DEF Follows

LEMMA InitFollows == Init => \E own \in Owners : Follows(own)
<1> SUFFICES ASSUME Init PROVE \E own \in Owners : Follows(own)
  OBVIOUS
<1> DEFINE own == [c \in Configs |-> IF \E m \in Monitors : PingOf[m] = c
                                     THEN CHOOSE m \in Monitors : PingOf[m] = c ELSE None]
<1>1. own \in Owners
  BY DEF Owners
<1>2. ASSUME NEW m \in Monitors PROVE own[PingOf[m]] = m
  <2>1. PingOf[m] \in Configs
    BY IdAssumption DEF Configs, Range
  <2>2. \A n \in Monitors : PingOf[n] = PingOf[m] => n = m
    BY IdAssumption
  <2> QED
    BY <2>1, <2>2
<1> HIDE DEF own
<1>3. PICK S \in {{}} \cup {{m} : m \in Monitors}, h \in Hosts, v \in Values :
        db = [m \in S |-> [host |-> h, cfgs |->
                [c \in {PingOf[m]} |-> [key |-> None, on |-> TRUE, val |-> v]]]]
  BY DEF Init
<1>4. \A m \in DOMAIN db : m \in Monitors /\ DOMAIN db[m].cfgs = {PingOf[m]}
  BY <1>3
<1>5. \A m \in DOMAIN db : \A c \in DOMAIN db[m].cfgs : Owns(own, m, c)
  BY <1>2, <1>4, IdAssumption DEF Owns, Given, Range
<1>6. events = <<>> /\ plan = EnabledJobs /\ \A t \in Threads : pc[t] = "idle" /\ out[t] = {}
  BY DEF Init
<1>7. TypeInv
  BY InitTyped
<1> QED
  BY <1>1, <1>2, <1>5, <1>6, <1>7, FollowsAnew

LEMMA ServiceStep == ServiceInv /\ [Next]_vars => ServiceInv'
<1> SUFFICES ASSUME TypeInv, NEW own \in Owners, Follows(own), [Next]_vars
             PROVE  \E new \in Owners : Follows(new)'
  BY TypeStep DEF ServiceInv, Owners
<1>1. ASSUME NEW t \in Threads, BeginCreate(t) \/ BeginOther(t)
      PROVE  \E new \in Owners : Follows(new)'
  BY <1>1, FollowsCreates, FollowsOthers
<1>2. ASSUME NEW t \in Threads, Serve(t) PROVE Follows(own)'
  <2>1. CASE ReadHTTPConfigs(t)
    BY <2>1, FollowsReads
  <2>2. CASE Write(t)
    <3>1. out[t] = {}
      BY <2>2 DEF Write, CreateMonitor, UpdateMonitor, DeleteMonitor, AddHTTPConfig,
                  UpdateConfig, RemoveHTTPConfig, WriteRows, TypeInv, ThreadOK
    <3> QED
      BY <2>2, <3>1, Writes, FollowsEnds, FollowsWrites
  <2>3. CASE SendEvent(t)
    BY <2>3, FollowsSends
  <2>4. CASE Finish(t)
    BY <2>4, FailEnds, FollowsEnds DEF Finish
  <2> QED
    BY <1>2, <2>1, <2>2, <2>3, <2>4 DEF Serve
<1>3. ASSUME NEW t \in Threads, Fail(t) PROVE Follows(own)'
  <2>1. out[t] = {}
    BY <1>3 DEF Fail, TypeInv, ThreadOK
  <2> QED
    BY <1>3, <2>1, FailEnds, FollowsEnds
<1>4. ASSUME NEW t \in Threads, LoseEvent(t) PROVE Follows(own)'
  BY <1>4, FollowsLoses
<1>5. CASE ApplyEvent
  BY <1>5, FollowsApplies
<1>6. CASE Restart
  BY <1>6, FollowsRestarts
<1>7. CASE UNCHANGED vars
  <2>1. Stream' /\ Sending' /\ Settled(own)'
    BY <1>7, NothingMoves DEF vars, threads
  <2>2. Owned(own)'
    BY <1>7 DEF vars, threads, Follows, Owned, OwnedBy, Owns, Given
  <2>3. Alone' /\ Copies'
    BY <1>7 DEF vars, threads, Follows, Alone, Copies, Current
  <2> QED
    BY <2>1, <2>2, <2>3 DEF Follows
<1> QED
  BY <1>1, <1>2, <1>3, <1>4, <1>5, <1>6, <1>7 DEF Next

LEMMA ServiceInvHolds == Spec => []ServiceInv
<1>1. Init => ServiceInv
  BY InitTyped, InitFollows DEF ServiceInv
<1> QED
  BY <1>1, ServiceStep, PTL DEF Spec

\* Once the requests on a monitor have ended and their events are applied, exactly its
\* enabled configs are scheduled, with the settings stored, unless requests on it
\* overlapped or an event was given up: whatever other requests did in between, and
\* wherever the process died.
THEOREM ScheduleFollowsTables == Spec => []Converges
<1>1. ServiceInv => Converges
  <2> SUFFICES ASSUME TypeInv, NEW own \in Owners, Follows(own),
                      NEW m \in Monitors \ muddled, ~Busy(m)
               PROVE  PlannedJobs(m) = StoredJobs(m)
    BY DEF ServiceInv, Converges
  <2>1. ASSUME NEW c \in Configs, own[c] = m
        PROVE  Entry(plan, c) = Entry(StoredJobs(m), c)
    <3>1. \A t \in Threads : \A e \in out[t] : e.cfg # c
      BY <2>1, OwnEvents DEF Busy
    <3>2. \A i \in DOMAIN events : events[i].cfg # c
      BY <2>1 DEF Follows, Owned, Owns, Busy
    <3>3. Touching(events, Len(events), c) = {}
      BY <3>2, EventsTyped DEF Touching
    <3> QED
      BY <2>1, <3>1, <3>3 DEF Follows, Settled, Known, After
  <2>2. \A c \in DOMAIN plan : c \in Configs /\ own[c] = plan[c].mon
    BY DEF Follows, Owned, Owns, TypeInv, Queues
  <2>3. \A c \in DOMAIN StoredJobs(m) : c \in Configs /\ own[c] = m
    BY StoredOf DEF Follows, Owned, Owns
  <2> DEFINE p == PlannedJobs(m)
             s == StoredJobs(m)
  <2>4. /\ DOMAIN p = {c \in DOMAIN plan : plan[c].mon = m}
        /\ \A c \in DOMAIN p : p[c] = plan[c]
        /\ p = [c \in DOMAIN p |-> p[c]]
    BY DEF PlannedJobs, Restrict
  <2>5. s = [c \in DOMAIN s |-> s[c]]
    BY DEF StoredJobs, ProjectJobs, NoConfigs
  <2> HIDE DEF p, s
  <2>6. DOMAIN p = DOMAIN s /\ \A c \in DOMAIN p : p[c] = s[c]
    <3>1. ASSUME NEW c \in Configs, own[c] = m
          PROVE  (c \in DOMAIN plan <=> c \in DOMAIN s) /\ (c \in DOMAIN plan => plan[c] = s[c])
      <4>1. Entry(plan, c) = Entry(s, c)
        BY <2>1, <3>1 DEF s
      <4> QED
        BY <4>1, EntryIs
    <3>2. \A c \in DOMAIN s : c \in Configs /\ own[c] = m
      BY <2>3 DEF s
    <3> QED
      BY <2>2, <2>4, <3>1, <3>2
  <2>7. p = s
    BY <2>4, <2>5, <2>6
  <2> QED
    BY <2>7 DEF p, s
<1> QED
  BY <1>1, ServiceInvHolds, PTL

\* For such a monitor the scheduler is told that a config was created exactly when it
\* does not know it.
THEOREM StreamWellFormed == Spec => []StreamAlternates
<1>1. ServiceInv => StreamAlternates
  <2> SUFFICES ASSUME TypeInv, NEW own \in Owners, Follows(own),
                      events # <<>>, Head(events).job.mon \notin muddled
               PROVE  Head(events).type = "created" <=> Head(events).cfg \notin DOMAIN plan
    BY DEF ServiceInv, StreamAlternates
  <2>1. events \in Seq(Event)
    BY DEF TypeInv, Queues
  <2>2. 1 \in DOMAIN events /\ Head(events) = events[1] /\ 1 - 1 = 0
    BY <2>1
  <2>3. events[1].type = "created" <=> After(plan, events, 0, events[1].cfg) = {}
    BY <2>2 DEF Follows, Stream
  <2> QED
    BY <2>2, <2>3, AfterNothing, EntryIs
<1> QED
  BY <1>1, ServiceInvHolds, PTL
=============================================================================
