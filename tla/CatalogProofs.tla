---------------------------- MODULE CatalogProofs ----------------------------
(***************************************************************************)
(* Proofs of what Catalog's rows promise, for any numbers of monitors,     *)
(* checks, requests and overlapping PATCHes, any unit and width of a       *)
(* duration, and any hosts and paths.                                      *)
(*                                                                         *)
(* The inductive invariant adds to the rows what a PATCH under way holds:  *)
(* a row made from a valid copy, whose monitor is still the same. It needs *)
(* what the conversions of Settings do, which is proved first.             *)
(***************************************************************************)
EXTENDS Catalog, TLAPS

-----------------------------------------------------------------------------
(* What the conversions between seconds and durations do                     *)

\* A duration that exists is not changed by wrapping.
LEMMA WrapsNothing ==
  ASSUME NEW n \in Nat, n < Half
  PROVE  Wrapped(n) = n
<1>1. Modulus \in Nat /\ Modulus > 0 /\ Modulus = 2 * Half /\ Half \in Nat
  BY NumberAssumption, SMT DEF Half
<1>2. (n + Half) % Modulus = n + Half
  <2>1. n + Half \in 0..(Modulus - 1)
    BY <1>1
  <2> QED BY <1>1, <2>1
<1> QED BY <1>1, <1>2 DEF Wrapped

\* Division undoes multiplication.
LEMMA Undone ==
  ASSUME NEW i \in Nat
  PROVE  i * Second \in Nat /\ (i * Second) \div Second = i
BY NumberAssumption, SMTT(30)

\* A number of seconds that fits is stored as it was given: Seconds takes back
\* what NewInterval and ReconstructInterval multiplied, whatever the unit is.
THEOREM RoundTrip ==
  ASSUME NEW i \in Nat, Fits(i)
  PROVE  Seconds(Duration(i)) = i
<1>1. i * Second \in Nat /\ (i * Second) \div Second = i
  BY Undone
<1>2. Duration(i) = i * Second
  BY <1>1, WrapsNothing DEF Duration, Fits
<1> QED BY <1>1, <1>2 DEF Seconds

\* A positive number of seconds that fits is a positive duration.
LEMMA PositiveStays ==
  ASSUME NEW i \in Nat \ {0}, Fits(i)
  PROVE  Duration(i) > 0
<1>1. i * Second \in Nat /\ i * Second > 0
  BY Undone, NumberAssumption, SMTT(30)
<1> QED BY <1>1, WrapsNothing DEF Duration, Fits

-----------------------------------------------------------------------------
(* The inductive invariant                                                   *)

GoodInterval(i) == i \in Nat /\ i >= MinInterval /\ Fits(i)
GoodCheck(row) == row.path.spelling = "plain" /\ (row.kw => row.method = "GET")

Typed ==
  /\ monitors \in [Monitors -> MonitorRows \cup {None}]
  /\ checks \in [Checks -> CheckRows \cup {None}]
  /\ used \subseteq Monitors \cup Checks
  /\ Stored \subseteq used /\ StoredChecks \subseteq used
  /\ \A c \in StoredChecks : checks[c].mon \in Stored
  /\ DOMAIN patching = Threads /\ DOMAIN asked = Monitors \cup Checks
  /\ muddled \subseteq used /\ overflowed \subseteq used
  /\ requests \in 0..MaxRequests

Written ==
  /\ \A m \in Stored : monitors[m].host.spelling = "plain"
  /\ \A m \in Stored \ overflowed : GoodInterval(monitors[m].interval)
  /\ \A c \in StoredChecks : GoodCheck(checks[c])

CheckPending(w) ==
  /\ w.id \in Checks \cap used
  /\ w.copy \in CheckRows /\ GoodCheck(w.copy) /\ w.patch \in CheckPatches
  /\ w.row = UpdatedCheck(w.copy, w.patch) /\ w.row # Refused
  /\ w.id \in StoredChecks => checks[w.id].mon = w.copy.mon

PingPending(w) ==
  /\ w.id \in Monitors \cap used
  /\ w.copy \in MonitorRows /\ w.patch \in PingPatches
  /\ w.patch.interval # None => ValidInPatch(w.patch.interval)
  /\ w.row = UpdatedPing(w.copy, w.patch)
  /\ w.id \in Stored \ overflowed => GoodInterval(w.copy.interval)

Pending ==
  \A t \in Threads :
    patching[t] # None => CheckPending(patching[t]) \/ PingPending(patching[t])

Rows == Typed /\ Written /\ Pending

-----------------------------------------------------------------------------
(* What the conversions make of their input                                  *)

LEMMA NoneIsNoRow == None \notin MonitorRows /\ None \notin CheckRows
BY CatalogAssumption DEF MonitorRows, CheckRows, Methods

LEMMA PlainHost ==
  ASSUME NEW raw \in RawHosts, NewHost(raw) # Refused
  PROVE  NewHost(raw) \in RawHosts /\ NewHost(raw).spelling = "plain"
BY CatalogAssumption DEF NewHost

LEMMA PlainPath ==
  ASSUME NEW raw \in RawPaths, NewPath(raw) # Refused
  PROVE  NewPath(raw) \in RawPaths /\ NewPath(raw).spelling = "plain"
BY CatalogAssumption DEF NewPath

\* A host or a path is its name once it is spelled plainly.
LEMMA PlainIsItsName ==
  ASSUME NEW a \in RawHosts \cup RawPaths, NEW b \in RawHosts \cup RawPaths,
         a.spelling = b.spelling, a.name = b.name
  PROVE  a = b
BY CatalogAssumption

LEMMA IntervalStored ==
  ASSUME NEW i \in Int
  PROVE  /\ Seconds(Duration(i)) \in Int
         /\ GoodInterval(i) => Seconds(Duration(i)) = i
<1>1. Duration(i) \in Int
  BY NumberAssumption, SMTT(30) DEF Duration, Wrapped, Half
<1>2. Seconds(Duration(i)) \in Int
  BY <1>1, NumberAssumption, SMTT(30) DEF Seconds
<1> QED BY <1>2, RoundTrip DEF GoodInterval

LEMMA IntervalOfPost ==
  ASSUME NEW i \in Numbers, ValidInPost(i)
  PROVE  /\ Seconds(NewInterval(i)) \in Int
         /\ Fits(AskedInterval(i)) =>
              /\ GoodInterval(AskedInterval(i))
              /\ Seconds(NewInterval(i)) = AskedInterval(i)
<1>1. AskedInterval(i) \in Nat /\ AskedInterval(i) >= MinInterval
  BY NumberAssumption, CatalogAssumption DEF AskedInterval, ValidInPost
<1>2. NewInterval(i) = Duration(AskedInterval(i))
  BY NumberAssumption, CatalogAssumption DEF NewInterval, AskedInterval, ValidInPost
<1> QED BY <1>1, <1>2, IntervalStored DEF GoodInterval

LEMMA IntervalOfPatch ==
  ASSUME NEW i \in Numbers, ValidInPatch(i)
  PROVE  /\ Seconds(NewInterval(i)) \in Int
         /\ Fits(i) => GoodInterval(i) /\ Seconds(NewInterval(i)) = i
<1>1. i \in Nat /\ i >= MinInterval /\ i # 0
  BY NumberAssumption, CatalogAssumption DEF ValidInPatch
<1>2. NewInterval(i) = Duration(i)
  BY <1>1, NumberAssumption DEF NewInterval
<1> QED BY <1>1, <1>2, IntervalStored DEF GoodInterval

LEMMA NewCheckIsGood ==
  ASSUME NEW m \in Monitors, NEW in \in CheckInputs, NewCheck(m, in) # Refused
  PROVE  /\ NewCheck(m, in) \in CheckRows /\ NewCheck(m, in) # None
         /\ NewCheck(m, in).mon = m /\ GoodCheck(NewCheck(m, in))
<1>1. /\ NewPath(in.path) # Refused /\ ~(in.method = "HEAD" /\ in.kw)
      /\ NewCheck(m, in) = [mon |-> m, path |-> NewPath(in.path),
                            method |-> in.method, kw |-> in.kw]
  BY DEF NewCheck
<1>2. NewPath(in.path) \in RawPaths /\ NewPath(in.path).spelling = "plain"
  BY <1>1, PlainPath DEF CheckInputs
<1>3. NewCheck(m, in) \in CheckRows
  BY <1>1, <1>2 DEF CheckInputs, CheckRows
<1>4. NewCheck(m, in) # None
  BY <1>3, NoneIsNoRow
<1> QED BY <1>1, <1>2, <1>3, <1>4 DEF GoodCheck, CheckInputs, Methods

LEMMA UpdatedCheckIsGood ==
  ASSUME NEW row \in CheckRows, GoodCheck(row), NEW p \in CheckPatches,
         UpdatedCheck(row, p) # Refused
  PROVE  /\ UpdatedCheck(row, p) \in CheckRows /\ UpdatedCheck(row, p) # None
         /\ UpdatedCheck(row, p).mon = row.mon /\ GoodCheck(UpdatedCheck(row, p))
         /\ UpdatedCheck(row, p) = AskedCheck(row, p)
<1> DEFINE path == IF p.path = None THEN row.path ELSE NewPath(p.path)
           new == [mon |-> row.mon, path |-> path, method |-> Given(p.method, row.method),
                   kw |-> Given(p.kw, row.kw)]
<1>1. path # Refused /\ ~(new.method = "HEAD" /\ new.kw) /\ UpdatedCheck(row, p) = new
  BY DEF UpdatedCheck
<1>2. path \in RawPaths /\ path.spelling = "plain"
  <2>1. CASE p.path = None
    BY <2>1 DEF GoodCheck, CheckRows
  <2>2. CASE p.path # None
    BY <1>1, <2>2, PlainPath DEF CheckPatches
  <2> QED BY <2>1, <2>2
<1>3. Given(p.method, row.method) \in Methods /\ Given(p.kw, row.kw) \in BOOLEAN
  BY DEF Given, CheckPatches, CheckRows
<1>4. row.mon \in Monitors
  BY DEF CheckRows
<1> HIDE DEF path
<1>5. new \in CheckRows
  BY <1>2, <1>3, <1>4 DEF CheckRows
<1>6. new # None
  BY <1>5, NoneIsNoRow
<1>7. GoodCheck(new)
  BY <1>1, <1>2, <1>3, <1>4 DEF GoodCheck, Methods
<1>8. new = AskedCheck(row, p)
  BY DEF path, AskedCheck
<1> QED BY <1>1, <1>4, <1>5, <1>6, <1>7, <1>8

LEMMA UpdatedPingIsGood ==
  ASSUME NEW row \in MonitorRows, NEW p \in PingPatches,
         p.interval # None => ValidInPatch(p.interval)
  PROVE  /\ UpdatedPing(row, p).on \in BOOLEAN /\ UpdatedPing(row, p).interval \in Int
         /\ UpdatedPing(row, p).on = Given(p.on, row.on)
         /\ (IF p.interval = None THEN GoodInterval(row.interval) ELSE Fits(p.interval)) =>
              /\ GoodInterval(UpdatedPing(row, p).interval)
              /\ UpdatedPing(row, p).interval = Given(p.interval, row.interval)
<1>1. row.on \in BOOLEAN /\ row.interval \in Int
  BY DEF MonitorRows
<1>2. /\ UpdatedPing(row, p).on = Given(p.on, row.on)
      /\ UpdatedPing(row, p).interval = IF p.interval = None
           THEN Seconds(Duration(row.interval)) ELSE Seconds(NewInterval(p.interval))
  BY DEF UpdatedPing, MonitorRows
<1>3. Given(p.on, row.on) \in BOOLEAN
  BY <1>1 DEF Given, PingPatches
<1>4. CASE p.interval = None
  BY <1>1, <1>2, <1>3, <1>4, IntervalStored DEF Given
<1>5. CASE p.interval # None
  BY <1>2, <1>3, <1>5, IntervalOfPatch DEF Given, PingPatches
<1> QED BY <1>4, <1>5

-----------------------------------------------------------------------------
(* Every request preserves the invariant                                     *)

LEMMA InitRows == Init => Rows
<1> SUFFICES ASSUME Init PROVE Rows
  OBVIOUS
<1>1. Typed
  BY CatalogAssumption DEF Init, Typed, Stored, StoredChecks
<1>2. Written
  BY DEF Init, Written, Stored, StoredChecks
<1>3. Pending
  BY DEF Init, Pending
<1> QED BY <1>1, <1>2, <1>3 DEF Rows

\* What is pending is decided thread by thread.
LEMMA PendingNext ==
  ASSUME \A t \in Threads : \A w : w = patching'[t] /\ w # None =>
           CheckPending(w)' \/ PingPending(w)'
  PROVE  Pending'
BY DEF Pending, CheckPending, PingPending

\* A PATCH under way stays what it is when its row keeps its monitor or is removed,
\* and no row comes back from those that overflowed.
LEMMA PendingStays ==
  ASSUME Rows, used \subseteq used',
         \A t \in Threads : patching'[t] = patching[t] \/ patching'[t] = None,
         \A c \in Checks \cap used :
           c \in StoredChecks' => c \in StoredChecks /\ checks'[c].mon = checks[c].mon,
         \A m \in Monitors \cap used :
           m \in (Stored \ overflowed)' => m \in Stored \ overflowed
  PROVE  Pending'
<1>1. ASSUME NEW t \in Threads, NEW w, w = patching'[t], w # None
      PROVE  CheckPending(w)' \/ PingPending(w)'
  <2>1. CheckPending(w) \/ PingPending(w)
    BY <1>1 DEF Rows, Pending
  <2>2. CASE CheckPending(w)
    BY <2>2 DEF CheckPending
  <2>3. CASE PingPending(w)
    BY <2>3 DEF PingPending
  <2> QED BY <2>1, <2>2, <2>3
<1> QED BY <1>1, PendingNext

LEMMA CreateKeepsRows ==
  ASSUME Rows, requests' \in 0..MaxRequests,
         NEW m \in Monitors, NEW raw \in RawHosts, NEW i \in Numbers,
         NEW new \in NewChecks, Create(m, raw, i, new)
  PROVE  Rows'
<1> DEFINE row == [host |-> NewHost(raw), on |-> TRUE, interval |-> Seconds(NewInterval(i))]
<1>1. row \in MonitorRows /\ row # None /\ row.host.spelling = "plain"
  <2>1. NewHost(raw) \in RawHosts /\ NewHost(raw).spelling = "plain"
    BY PlainHost DEF Create
  <2>2. Seconds(NewInterval(i)) \in Int
    BY IntervalOfPost DEF Create
  <2>3. row \in MonitorRows
    BY <2>1, <2>2 DEF MonitorRows
  <2> QED BY <2>1, <2>3, NoneIsNoRow
<1>2. Fits(AskedInterval(i)) => GoodInterval(row.interval)
  BY IntervalOfPost DEF Create
<1> HIDE DEF row
<1>3. /\ monitors' = [monitors EXCEPT ![m] = row] /\ m \notin used
      /\ checks' = [c \in Checks |-> IF c \in DOMAIN new THEN NewCheck(m, new[c])
                                    ELSE checks[c]]
      /\ used' = used \cup {m} \cup DOMAIN new /\ DOMAIN new \cap used = {}
      /\ overflowed' = IF Fits(AskedInterval(i)) THEN overflowed ELSE overflowed \cup {m}
      /\ DOMAIN asked' = DOMAIN asked /\ UNCHANGED <<patching, muddled>>
  BY DEF Create, row
<1>4. DOMAIN new \subseteq Checks /\ \A c \in DOMAIN new : new[c] \in CheckInputs
  BY DEF NewChecks
<1>5. \A c \in DOMAIN new :
        /\ NewCheck(m, new[c]) \in CheckRows /\ NewCheck(m, new[c]) # None
        /\ NewCheck(m, new[c]).mon = m /\ GoodCheck(NewCheck(m, new[c]))
  BY <1>4, NewCheckIsGood DEF Create
<1>6. Stored' = Stored \cup {m} /\ m \notin Stored
  BY <1>1, <1>3 DEF Stored, Rows, Typed
<1>7. StoredChecks' = StoredChecks \cup DOMAIN new /\ StoredChecks \cap DOMAIN new = {}
  BY <1>3, <1>4, <1>5 DEF StoredChecks, Rows, Typed
<1>8. Typed'
  <2>1. monitors' \in [Monitors -> MonitorRows \cup {None}]
    BY <1>1, <1>3 DEF Rows, Typed
  <2>2. checks' \in [Checks -> CheckRows \cup {None}]
    BY <1>3, <1>5 DEF Rows, Typed
  <2>3. \A c \in StoredChecks' : checks'[c].mon \in Stored'
    BY <1>3, <1>4, <1>5, <1>6, <1>7 DEF Rows, Typed, StoredChecks
  <2>4. Stored' \subseteq used' /\ StoredChecks' \subseteq used'
    BY <1>3, <1>6, <1>7 DEF Rows, Typed
  <2>5. /\ used' \subseteq Monitors \cup Checks
        /\ muddled' \subseteq used' /\ overflowed' \subseteq used'
        /\ DOMAIN patching' = Threads /\ DOMAIN asked' = Monitors \cup Checks
    BY <1>3, <1>4 DEF Rows, Typed
  <2> HIDE DEF Stored, StoredChecks
  <2> QED BY <2>1, <2>2, <2>3, <2>4, <2>5 DEF Typed
<1>9. Written'
  <2>1. \A n \in Stored' : monitors'[n].host.spelling = "plain"
    BY <1>1, <1>3, <1>6 DEF Rows, Typed, Written
  <2>2. \A n \in Stored' \ overflowed' : GoodInterval(monitors'[n].interval)
    BY <1>2, <1>3, <1>6 DEF Rows, Typed, Written
  <2>3. \A c \in StoredChecks' : GoodCheck(checks'[c])
    <3> SUFFICES ASSUME NEW c \in StoredChecks' PROVE GoodCheck(checks'[c])
      OBVIOUS
    <3>1. CASE c \in DOMAIN new
      BY <1>3, <1>4, <1>5, <3>1
    <3>2. CASE c \in StoredChecks /\ c \notin DOMAIN new
      <4>1. checks'[c] = checks[c] /\ GoodCheck(checks[c])
        BY <1>3, <3>2 DEF Rows, Written, StoredChecks
      <4> QED BY <4>1
    <3> QED BY <1>7, <3>1, <3>2
  <2> QED BY <2>1, <2>2, <2>3 DEF Written
<1>10. Pending'
  <2>1. \A c \in Checks \cap used :
          c \in StoredChecks' => c \in StoredChecks /\ checks'[c].mon = checks[c].mon
    BY <1>3, <1>7
  <2>2. \A n \in Monitors \cap used :
          n \in (Stored \ overflowed)' => n \in Stored \ overflowed
    BY <1>3, <1>6
  <2> QED BY <1>3, <2>1, <2>2, PendingStays
<1> QED BY <1>8, <1>9, <1>10 DEF Rows

LEMMA UpdateMonitorKeepsRows ==
  ASSUME Rows, requests' \in 0..MaxRequests,
         NEW m \in Monitors, NEW raw \in RawHosts, UpdateMonitor(m, raw)
  PROVE  Rows'
<1> DEFINE host == NewHost(raw)
           row == [monitors[m] EXCEPT !.host = host]
<1>1. /\ m \in Stored /\ host \in RawHosts /\ host.spelling = "plain"
      /\ monitors' = [monitors EXCEPT ![m] = row]
      /\ DOMAIN asked' = DOMAIN asked
      /\ UNCHANGED <<checks, used, patching, muddled, overflowed>>
  BY PlainHost DEF UpdateMonitor
<1>2. monitors[m] \in MonitorRows
  BY <1>1 DEF Rows, Typed, Stored
<1>3. row \in MonitorRows /\ row.host = host /\ row.interval = monitors[m].interval
  BY <1>1, <1>2 DEF MonitorRows
<1> HIDE DEF row, host
<1>4. row # None
  BY <1>3, NoneIsNoRow
<1>5. Stored' = Stored /\ StoredChecks' = StoredChecks
  BY <1>1, <1>4 DEF Stored, StoredChecks, Rows, Typed
<1>6. monitors' \in [Monitors -> MonitorRows \cup {None}]
  BY <1>1, <1>3 DEF Rows, Typed
<1>7. Typed'
  BY <1>1, <1>5, <1>6 DEF Rows, Typed
<1>8. Written'
  <2>1. \A n \in Stored : /\ monitors'[n].host.spelling = "plain"
                          /\ monitors'[n].interval = monitors[n].interval
    BY <1>1, <1>3 DEF Rows, Typed, Written, Stored
  <2> QED BY <1>1, <1>5, <2>1 DEF Rows, Written
<1>9. Pending'
  BY <1>1, <1>5, PendingStays DEF StoredChecks
<1> QED BY <1>7, <1>8, <1>9 DEF Rows

Removal(mons, cs) ==
  /\ mons \subseteq Monitors /\ cs \subseteq Checks
  /\ \A m \in mons : ChecksOf(m) \subseteq cs
  /\ monitors' = [m \in Monitors |-> IF m \in mons THEN None ELSE monitors[m]]
  /\ checks' = [c \in Checks |-> IF c \in cs THEN None ELSE checks[c]]
  /\ UNCHANGED <<used, patching>> /\ DOMAIN asked' = DOMAIN asked
  /\ muddled' \subseteq muddled /\ overflowed' \subseteq overflowed
  /\ overflowed \ overflowed' \subseteq mons \cup cs

\* Removing rows, with what hangs on them, is harmless.
LEMMA RemovalKeepsRows ==
  ASSUME Rows, requests' \in 0..MaxRequests, NEW mons, NEW cs, Removal(mons, cs)
  PROVE  Rows'
<1> USE DEF Removal
<1>1. Stored' = Stored \ mons /\ \A m \in Stored' : monitors'[m] = monitors[m]
  BY DEF Stored, Rows, Typed
<1>2. StoredChecks' = StoredChecks \ cs /\ \A c \in StoredChecks' : checks'[c] = checks[c]
  BY DEF StoredChecks, Rows, Typed
<1>3. Typed'
  <2>1. /\ monitors' \in [Monitors -> MonitorRows \cup {None}]
        /\ checks' \in [Checks -> CheckRows \cup {None}]
    BY DEF Rows, Typed
  <2>2. \A c \in StoredChecks' : checks'[c].mon \in Stored'
    BY <1>1, <1>2 DEF Rows, Typed, ChecksOf
  <2>3. Stored' \subseteq used' /\ StoredChecks' \subseteq used'
    BY <1>1, <1>2 DEF Rows, Typed
  <2> QED BY <2>1, <2>2, <2>3 DEF Rows, Typed
<1>4. Stored' \ overflowed' \subseteq Stored \ overflowed
  BY <1>1, CatalogAssumption DEF Stored
<1>5. Written'
  BY <1>1, <1>2, <1>4 DEF Rows, Written
<1>6. Pending'
  <2>1. \A c \in Checks \cap used :
          c \in StoredChecks' => c \in StoredChecks /\ checks'[c].mon = checks[c].mon
    BY <1>2
  <2>2. \A m \in Monitors \cap used :
          m \in (Stored \ overflowed)' => m \in Stored \ overflowed
    BY <1>4
  <2> QED BY <2>1, <2>2, PendingStays
<1> QED BY <1>3, <1>5, <1>6 DEF Rows

LEMMA DeleteMonitorKeepsRows ==
  ASSUME Rows, requests' \in 0..MaxRequests, NEW m \in Monitors, DeleteMonitor(m)
  PROVE  Rows'
<1>1. /\ ChecksOf(m) \in SUBSET Checks /\ {m} \cap Checks = {}
      /\ \A n \in {m} : ChecksOf(n) \subseteq ChecksOf(m)
  BY CatalogAssumption DEF ChecksOf, StoredChecks
<1>2. /\ monitors' = [n \in Monitors |-> IF n \in {m} THEN None ELSE monitors[n]]
      /\ checks' = [c \in Checks |-> IF c \in ChecksOf(m) THEN None ELSE checks[c]]
  <2>1. checks' = [c \in Checks |-> IF c \in {m} \cup ChecksOf(m) THEN None ELSE checks[c]]
    BY DEF DeleteMonitor
  <2>2. monitors' = [monitors EXCEPT ![m] = None]
    BY DEF DeleteMonitor
  <2> QED BY <1>1, <2>1, <2>2 DEF Rows, Typed
<1>3. /\ UNCHANGED <<used, patching>> /\ DOMAIN asked' = DOMAIN asked
      /\ muddled' \subseteq muddled /\ overflowed' \subseteq overflowed
      /\ overflowed \ overflowed' \subseteq {m} \cup ChecksOf(m)
  BY DEF DeleteMonitor
<1>4. Removal({m}, ChecksOf(m))
  BY <1>1, <1>2, <1>3 DEF Removal
<1> QED BY <1>4, RemovalKeepsRows

LEMMA RemoveCheckKeepsRows ==
  ASSUME Rows, requests' \in 0..MaxRequests, NEW c \in Checks, RemoveCheck(c)
  PROVE  Rows'
<1>1. /\ monitors' = [n \in Monitors |-> IF n \in {} THEN None ELSE monitors[n]]
      /\ checks' = [d \in Checks |-> IF d \in {c} THEN None ELSE checks[d]]
      /\ UNCHANGED <<used, patching, overflowed>>
      /\ DOMAIN asked' = DOMAIN asked /\ muddled' \subseteq muddled
  BY DEF RemoveCheck, Rows, Typed
<1>2. Removal({}, {c})
  BY <1>1 DEF Removal
<1> QED BY <1>2, RemovalKeepsRows

LEMMA AddCheckKeepsRows ==
  ASSUME Rows, requests' \in 0..MaxRequests,
         NEW m \in Monitors, NEW c \in Checks, NEW in \in CheckInputs, AddCheck(m, c, in)
  PROVE  Rows'
<1> DEFINE row == NewCheck(m, in)
<1>1. /\ m \in Stored /\ c \notin used
      /\ row \in CheckRows /\ row # None /\ row.mon = m /\ GoodCheck(row)
  BY NewCheckIsGood DEF AddCheck
<1>2. /\ checks' = [checks EXCEPT ![c] = row] /\ used' = used \cup {c}
      /\ DOMAIN asked' = DOMAIN asked
      /\ UNCHANGED <<monitors, patching, muddled, overflowed>>
  BY DEF AddCheck
<1> HIDE DEF row
<1>3. /\ Stored' = Stored /\ StoredChecks' = StoredChecks \cup {c} /\ c \notin StoredChecks
      /\ checks'[c] = row /\ \A d \in StoredChecks : checks'[d] = checks[d]
  BY <1>1, <1>2 DEF Stored, StoredChecks, Rows, Typed
<1>4. Typed'
  <2>1. checks' \in [Checks -> CheckRows \cup {None}]
    BY <1>1, <1>2 DEF Rows, Typed
  <2>2. \A d \in StoredChecks' : checks'[d].mon \in Stored'
    BY <1>1, <1>3 DEF Rows, Typed
  <2> QED BY <1>2, <1>3, <2>1, <2>2 DEF Rows, Typed
<1>5. Written'
  BY <1>1, <1>2, <1>3 DEF Rows, Written
<1>6. Pending'
  BY <1>1, <1>2, <1>3, PendingStays
<1> QED BY <1>4, <1>5, <1>6 DEF Rows

\* A thread begins or ends its PATCH; the tables stay.
Swapped(t, w) ==
  /\ patching' = [patching EXCEPT ![t] = w]
  /\ w # None => CheckPending(w) \/ PingPending(w)
  /\ UNCHANGED <<monitors, checks, used, asked, muddled, overflowed>>

LEMMA SwappedKeepsRows ==
  ASSUME Rows, requests' \in 0..MaxRequests, NEW t \in Threads, NEW w, Swapped(t, w)
  PROVE  Rows'
<1> USE DEF Swapped
<1>1. Stored' = Stored /\ StoredChecks' = StoredChecks
  BY DEF Stored, StoredChecks
<1>2. Typed' /\ Written'
  BY <1>1 DEF Rows, Typed, Written
<1>3. Pending'
  <2>1. ASSUME NEW u \in Threads, NEW v, v = patching'[u], v # None
        PROVE  CheckPending(v)' \/ PingPending(v)'
    <3>1. CheckPending(v) \/ PingPending(v)
      BY <2>1 DEF Rows, Typed, Pending
    <3>2. CASE CheckPending(v)
      BY <1>1, <3>2 DEF CheckPending
    <3>3. CASE PingPending(v)
      BY <1>1, <3>3 DEF PingPending
    <3> QED BY <3>1, <3>2, <3>3
  <2> QED BY <2>1, PendingNext
<1> QED BY <1>2, <1>3 DEF Rows

LEMMA BeginPatchCheckKeepsRows ==
  ASSUME Rows, requests' \in 0..MaxRequests,
         NEW t \in Threads, NEW c \in Checks, NEW p \in CheckPatches, BeginPatchCheck(t, c, p)
  PROVE  Rows'
<1> DEFINE w == [id |-> c, copy |-> checks[c], row |-> UpdatedCheck(checks[c], p), patch |-> p]
<1>1. /\ w.id \in Checks \cap used /\ w.copy \in CheckRows /\ GoodCheck(w.copy)
      /\ w.patch \in CheckPatches /\ w.row = UpdatedCheck(w.copy, w.patch)
      /\ w.row # Refused /\ checks[w.id].mon = w.copy.mon
  BY DEF BeginPatchCheck, Rows, Typed, Written, StoredChecks
<1>2. /\ patching' = [patching EXCEPT ![t] = w]
      /\ UNCHANGED <<monitors, checks, used, asked, muddled, overflowed>>
  BY DEF BeginPatchCheck, tables, history
<1> HIDE DEF w
<1>3. Swapped(t, w)
  BY <1>1, <1>2 DEF Swapped, CheckPending
<1> QED BY <1>3, SwappedKeepsRows

LEMMA BeginPatchPingKeepsRows ==
  ASSUME Rows, requests' \in 0..MaxRequests,
         NEW t \in Threads, NEW m \in Monitors, NEW p \in PingPatches, BeginPatchPing(t, m, p)
  PROVE  Rows'
<1> DEFINE w == [id |-> m, copy |-> monitors[m], row |-> UpdatedPing(monitors[m], p),
                 patch |-> p]
<1>1. /\ w.id \in Monitors \cap used /\ w.copy \in MonitorRows /\ w.patch \in PingPatches
      /\ w.patch.interval # None => ValidInPatch(w.patch.interval)
      /\ w.row = UpdatedPing(w.copy, w.patch)
      /\ w.id \in Stored \ overflowed => GoodInterval(w.copy.interval)
  BY DEF BeginPatchPing, Rows, Typed, Written, Stored
<1>2. /\ patching' = [patching EXCEPT ![t] = w]
      /\ UNCHANGED <<monitors, checks, used, asked, muddled, overflowed>>
  BY DEF BeginPatchPing, tables, history
<1> HIDE DEF w
<1>3. Swapped(t, w)
  BY <1>1, <1>2 DEF Swapped, PingPending
<1> QED BY <1>3, SwappedKeepsRows

LEMMA PatchFailsKeepsRows ==
  ASSUME Rows, requests' = requests, NEW t \in Threads, PatchFails(t)
  PROVE  Rows'
<1>1. Swapped(t, None)
  BY DEF PatchFails, EndPatch, Swapped, tables, history
<1> QED BY <1>1, SwappedKeepsRows DEF Rows, Typed

\* A thread that writes a check has one in its hands.
LEMMA WritesCheck ==
  ASSUME Rows, NEW t \in Threads, WriteCheck(t)
  PROVE  /\ CheckPending(patching[t]) /\ patching[t].id \in StoredChecks
         /\ patching[t].row \in CheckRows /\ patching[t].row # None
         /\ patching[t].row.mon = checks[patching[t].id].mon /\ GoodCheck(patching[t].row)
         /\ patching[t].row = AskedCheck(patching[t].copy, patching[t].patch)
<1>1. patching[t] # None /\ patching[t].id \in StoredChecks
  BY DEF WriteCheck
<1>2. CheckPending(patching[t])
  BY <1>1, CatalogAssumption DEF Rows, Pending, PingPending, StoredChecks
<1> QED BY <1>1, <1>2, UpdatedCheckIsGood DEF CheckPending

LEMMA WriteCheckKeepsRows ==
  ASSUME Rows, NEW t \in Threads, WriteCheck(t)
  PROVE  Rows'
<1> DEFINE c == patching[t].id
           row == patching[t].row
<1>1. /\ c \in StoredChecks /\ row \in CheckRows /\ row # None
      /\ row.mon = checks[c].mon /\ GoodCheck(row) /\ c \in used
  BY WritesCheck DEF Rows, Typed
<1>2. /\ checks' = [checks EXCEPT ![c] = row] /\ patching' = [patching EXCEPT ![t] = None]
      /\ DOMAIN asked' = DOMAIN asked /\ muddled' \subseteq muddled \cup {c}
      /\ UNCHANGED <<monitors, used, overflowed, requests>>
  BY DEF WriteCheck, EndPatch
<1> HIDE DEF c, row
<1>3. /\ Stored' = Stored /\ StoredChecks' = StoredChecks /\ checks'[c] = row
      /\ \A d \in StoredChecks : d # c => checks'[d] = checks[d]
  BY <1>1, <1>2 DEF Stored, StoredChecks, Rows, Typed
<1>4. Typed'
  <2>1. checks' \in [Checks -> CheckRows \cup {None}]
    BY <1>1, <1>2 DEF Rows, Typed
  <2>2. \A d \in StoredChecks' : checks'[d].mon \in Stored'
    BY <1>1, <1>3 DEF Rows, Typed
  <2> QED BY <1>1, <1>2, <1>3, <2>1, <2>2 DEF Rows, Typed
<1>5. Written'
  BY <1>1, <1>2, <1>3 DEF Rows, Written
<1>6. Pending'
  <2>1. \A u \in Threads : patching'[u] = patching[u] \/ patching'[u] = None
    BY <1>2 DEF Rows, Typed
  <2>2. \A d \in StoredChecks : checks'[d].mon = checks[d].mon
    BY <1>1, <1>3
  <2> QED BY <1>2, <1>3, <2>1, <2>2, PendingStays
<1> QED BY <1>4, <1>5, <1>6 DEF Rows

\* A thread that writes a ping config has one in its hands; what it writes is
\* what was asked for, unless the interval overflows.
LEMMA WritesPing ==
  ASSUME Rows, NEW t \in Threads, WritePing(t)
  PROVE  /\ PingPending(patching[t]) /\ patching[t].id \in Stored
         /\ patching[t].row.on = Given(patching[t].patch.on, patching[t].copy.on)
         /\ patching[t].row.on \in BOOLEAN /\ patching[t].row.interval \in Int
         /\ patching[t].id \notin overflowed' =>
              /\ patching[t].id \notin overflowed
              /\ GoodInterval(patching[t].row.interval)
              /\ patching[t].row.interval =
                   Given(patching[t].patch.interval, patching[t].copy.interval)
<1>1. patching[t] # None /\ patching[t].id \in Stored
  BY DEF WritePing
<1>2. PingPending(patching[t])
  BY <1>1, CatalogAssumption DEF Rows, Pending, CheckPending, Stored
<1>3. ASSUME patching[t].id \notin overflowed'
      PROVE  /\ patching[t].id \notin overflowed
             /\ IF patching[t].patch.interval = None
                THEN GoodInterval(patching[t].copy.interval)
                ELSE Fits(patching[t].patch.interval)
  BY <1>1, <1>2, <1>3 DEF WritePing, PingPending
<1> QED BY <1>1, <1>2, <1>3, UpdatedPingIsGood DEF PingPending

LEMMA WritePingKeepsRows ==
  ASSUME Rows, NEW t \in Threads, WritePing(t)
  PROVE  Rows'
<1> DEFINE m == patching[t].id
           new == [monitors[m] EXCEPT !.on = patching[t].row.on,
                                      !.interval = patching[t].row.interval]
<1>1. /\ m \in Stored /\ m \in used /\ patching[t].row.on \in BOOLEAN
      /\ patching[t].row.interval \in Int
      /\ m \notin overflowed' => GoodInterval(patching[t].row.interval)
  BY WritesPing DEF Rows, Typed
<1>2. /\ monitors' = [monitors EXCEPT ![m] = new] /\ patching' = [patching EXCEPT ![t] = None]
      /\ DOMAIN asked' = DOMAIN asked /\ muddled' \subseteq muddled \cup {m}
      /\ overflowed \subseteq overflowed' /\ overflowed' \subseteq overflowed \cup {m}
      /\ UNCHANGED <<checks, used, requests>>
  BY DEF WritePing, EndPatch
<1>3. monitors[m] \in MonitorRows
  BY <1>1 DEF Rows, Typed, Stored
<1>4. /\ new \in MonitorRows /\ new.host = monitors[m].host
      /\ new.interval = patching[t].row.interval
  BY <1>1, <1>3 DEF MonitorRows
<1> HIDE DEF m, new
<1>5. new # None
  BY <1>4, NoneIsNoRow
<1>6. /\ Stored' = Stored /\ StoredChecks' = StoredChecks /\ monitors'[m] = new
      /\ \A n \in Stored : n # m => monitors'[n] = monitors[n]
  BY <1>1, <1>2, <1>5 DEF Stored, StoredChecks, Rows, Typed
<1>7. Typed'
  <2>1. monitors' \in [Monitors -> MonitorRows \cup {None}]
    BY <1>2, <1>4 DEF Rows, Typed
  <2> QED BY <1>1, <1>2, <1>6, <2>1 DEF Rows, Typed
<1>8. Written'
  <2>1. \A n \in Stored : monitors'[n].host.spelling = "plain"
    BY <1>1, <1>4, <1>6 DEF Rows, Written
  <2>2. \A n \in Stored \ overflowed' : GoodInterval(monitors'[n].interval)
    BY <1>1, <1>2, <1>4, <1>6 DEF Rows, Written
  <2> QED BY <1>2, <1>6, <2>1, <2>2 DEF Rows, Written
<1>9. Pending'
  <2>1. \A u \in Threads : patching'[u] = patching[u] \/ patching'[u] = None
    BY <1>2 DEF Rows, Typed
  <2> QED BY <1>2, <1>6, <2>1, PendingStays
<1> QED BY <1>7, <1>8, <1>9 DEF Rows

LEMMA ListingKeepsRows ==
  ASSUME Rows, UNCHANGED <<tables, used, patching, history, requests>>
  PROVE  Rows'
<1>1. Stored' = Stored /\ StoredChecks' = StoredChecks
  BY DEF Stored, StoredChecks, tables
<1>2. Typed' /\ Written'
  BY <1>1 DEF Rows, Typed, Written, tables, history
<1>3. Pending'
  BY <1>1, PendingStays DEF tables, history
<1> QED BY <1>2, <1>3 DEF Rows

LEMMA NextKeepsRows == Rows /\ [Next]_vars => Rows'
<1> SUFFICES ASSUME Rows, [Next]_vars PROVE Rows'
  OBVIOUS
<1>1. CASE requests < MaxRequests /\ requests' = requests + 1 /\ Arrival
  <2>1. requests' \in 0..MaxRequests
    BY <1>1, CatalogAssumption DEF Rows, Typed
  <2> QED BY <1>1, <2>1, CreateKeepsRows, UpdateMonitorKeepsRows, DeleteMonitorKeepsRows,
             AddCheckKeepsRows, RemoveCheckKeepsRows, BeginPatchCheckKeepsRows,
             BeginPatchPingKeepsRows DEF Arrival
<1>2. ASSUME NEW t \in Threads, WriteCheck(t) \/ WritePing(t) \/ PatchFails(t)
      PROVE  Rows'
  <2>1. CASE PatchFails(t)
    BY <2>1, PatchFailsKeepsRows DEF PatchFails
  <2> QED BY <1>2, <2>1, WriteCheckKeepsRows, WritePingKeepsRows
<1>3. CASE Listing
  BY <1>3, ListingKeepsRows
     DEF Listing, ListMonitors, ListChecks, ListIncidents, QueryFails, EndList
<1>4. CASE UNCHANGED vars
  BY <1>4, ListingKeepsRows DEF vars, tables, history
<1> QED BY <1>1, <1>2, <1>3, <1>4 DEF Next

THEOREM RowsAlways == Spec => []Rows
BY InitRows, NextKeepsRows, PTL DEF Spec

\* Every reachable row is well typed, and a stored check's monitor is stored: no
\* request, overlapping PATCH or deletion leaves a check without its monitor.
THEOREM TypeCorrect == Spec => []TypeOK
<1>1. Rows => TypeOK
  <2> SUFFICES ASSUME Rows PROVE TypeOK
    OBVIOUS
  <2>1. \A m \in Stored : m \in used /\ monitors[m] \in MonitorRows
    BY DEF Rows, Typed, Stored
  <2>2. \A c \in StoredChecks : /\ c \in used /\ checks[c] \in CheckRows
                                /\ checks[c].mon \in Stored
    BY DEF Rows, Typed, StoredChecks
  <2>3. \A t \in Threads : patching[t] # None => patching[t].id \in used
    BY DEF Rows, Pending, CheckPending, PingPending
  <2> QED BY <2>1, <2>2, <2>3 DEF Rows, Typed, TypeOK
<1> QED BY <1>1, RowsAlways, PTL

\* A stored row is one the domain would accept, whatever PATCHes overlapped and
\* whatever they were given, with the one exception of intervals that do not fit
\* into a duration.
THEOREM RowsStayValid == Spec => []RowsValid
<1>1. Rows => RowsValid
  <2> SUFFICES ASSUME Rows PROVE RowsValid
    OBVIOUS
  <2>1. \A c \in StoredChecks : checks[c].kw => checks[c].method = "GET"
    BY DEF Rows, Written, GoodCheck
  <2>2. ASSUME NEW m \in Stored \ overflowed
        PROVE  monitors[m].interval >= MinInterval /\ JitterWindow(m) > 0
    <3>1. GoodInterval(monitors[m].interval)
      BY DEF Rows, Written
    <3> QED BY <3>1, PositiveStays, NumberAssumption DEF GoodInterval, JitterWindow
  <2> QED BY <2>1, <2>2 DEF RowsValid
<1> QED BY <1>1, RowsAlways, PTL

-----------------------------------------------------------------------------
(* Keys.  Spelled plainly, hosts and paths are equal when their names are.   *)

UniqueHosts == \A m, n \in Stored : monitors[m].host = monitors[n].host => m = n
UniqueChecks == \A c, d \in StoredChecks : SameKey(checks[c], checks[d]) => c = d

LEMMA KeysAreNames == Rows /\ UniqueHosts /\ UniqueChecks => NoAliases
<1> SUFFICES ASSUME Rows, UniqueHosts, UniqueChecks PROVE NoAliases
  OBVIOUS
<1>1. ASSUME NEW m \in Stored, NEW n \in Stored,
             monitors[m].host.name = monitors[n].host.name
      PROVE  m = n
  <2>1. monitors[m].host \in RawHosts /\ monitors[n].host \in RawHosts
    BY DEF Rows, Typed, Stored, MonitorRows
  <2>2. monitors[m].host.spelling = monitors[n].host.spelling
    BY DEF Rows, Written
  <2> QED BY <1>1, <2>1, <2>2, PlainIsItsName DEF UniqueHosts
<1>2. ASSUME NEW c \in StoredChecks, NEW d \in StoredChecks,
             checks[c].mon = checks[d].mon, checks[c].method = checks[d].method,
             checks[c].path.name = checks[d].path.name
      PROVE  c = d
  <2>1. checks[c].path \in RawPaths /\ checks[d].path \in RawPaths
    BY DEF Rows, Typed, StoredChecks, CheckRows
  <2>2. checks[c].path.spelling = checks[d].path.spelling
    BY DEF Rows, Written, GoodCheck
  <2>3. checks[c].path = checks[d].path
    BY <1>2, <2>1, <2>2, PlainIsItsName
  <2> QED BY <1>2, <2>3 DEF UniqueChecks, SameKey
<1> QED BY <1>1, <1>2 DEF NoAliases

\* One host changes or comes, and it was free.
LEMMA HostWritten ==
  ASSUME Rows, UniqueHosts, NEW m \in Monitors, NEW row,
         monitors' = [monitors EXCEPT ![m] = row], HostFree(m, row.host)
  PROVE  UniqueHosts'
<1> SUFFICES ASSUME NEW a \in Stored', NEW b \in Stored', a # b
             PROVE  monitors'[a].host # monitors'[b].host
  BY DEF UniqueHosts
<1>1. \A n \in Stored' : n # m => n \in Stored /\ monitors'[n] = monitors[n]
  BY DEF Stored, Rows, Typed
<1>2. m \in Stored' => monitors'[m] = row
  BY DEF Stored, Rows, Typed
<1> QED BY <1>1, <1>2 DEF UniqueHosts, HostFree

\* One check changes or comes, and its key was free.
LEMMA CheckWritten ==
  ASSUME Rows, UniqueChecks, NEW c \in Checks, NEW row,
         checks' = [checks EXCEPT ![c] = row], KeyFree(c, row)
  PROVE  UniqueChecks'
<1> SUFFICES ASSUME NEW a \in StoredChecks', NEW b \in StoredChecks', a # b,
                    SameKey(checks'[a], checks'[b])
             PROVE  FALSE
  BY DEF UniqueChecks, SameKey
<1>1. \A d \in StoredChecks' : d # c => d \in StoredChecks /\ checks'[d] = checks[d]
  BY DEF StoredChecks, Rows, Typed
<1>2. c \in StoredChecks' => checks'[c] = row
  BY DEF StoredChecks, Rows, Typed
<1>3. CASE a = c
  BY <1>1, <1>2, <1>3 DEF KeyFree, SameKey
<1>4. CASE b = c
  BY <1>1, <1>2, <1>4 DEF KeyFree, SameKey
<1>5. CASE a # c /\ b # c
  BY <1>1, <1>5 DEF UniqueChecks, SameKey
<1> QED BY <1>3, <1>4, <1>5

LEMMA CreateKeepsKeys ==
  ASSUME Rows, UniqueHosts, UniqueChecks,
         NEW m \in Monitors, NEW raw \in RawHosts, NEW i \in Numbers,
         NEW new \in NewChecks, Create(m, raw, i, new)
  PROVE  UniqueHosts' /\ UniqueChecks'
<1>1. UniqueHosts'
  <2> DEFINE row == [host |-> NewHost(raw), on |-> TRUE, interval |-> Seconds(NewInterval(i))]
  <2>1. monitors' = [monitors EXCEPT ![m] = row] /\ HostFree(m, row.host)
    BY DEF Create
  <2> HIDE DEF row
  <2> QED BY <2>1, HostWritten
<1>2. UniqueChecks'
  <2>1. /\ DOMAIN new = {} \/ \E c \in Checks : DOMAIN new = {c}
        /\ \A c \in DOMAIN new : new[c] \in CheckInputs
    BY DEF NewChecks
  <2>2. /\ m \notin Stored
        /\ checks' = [c \in Checks |-> IF c \in DOMAIN new THEN NewCheck(m, new[c])
                                      ELSE checks[c]]
    BY DEF Create, Rows, Typed
  <2>3. CASE DOMAIN new = {}
    <3>1. checks' = checks
      BY <2>2, <2>3 DEF Rows, Typed
    <3> QED BY <3>1 DEF UniqueChecks, StoredChecks, SameKey
  <2>4. ASSUME NEW c \in Checks, DOMAIN new = {c}
        PROVE  UniqueChecks'
    <3> DEFINE row == NewCheck(m, new[c])
    <3>1. checks' = [checks EXCEPT ![c] = row]
      BY <2>2, <2>4 DEF Rows, Typed
    <3>2. row.mon = m
      BY <2>1, <2>4, NewCheckIsGood DEF Create
    <3> HIDE DEF row
    <3>3. KeyFree(c, row)
      BY <2>2, <3>2 DEF KeyFree, SameKey, Rows, Typed
    <3> QED BY <3>1, <3>3, CheckWritten
  <2> QED BY <2>1, <2>3, <2>4
<1> QED BY <1>1, <1>2

LEMMA ArrivalKeepsKeys ==
  ASSUME Rows, UniqueHosts, UniqueChecks, Arrival
  PROVE  UniqueHosts' /\ UniqueChecks'
<1>1. ASSUME NEW m \in Monitors, NEW raw \in RawHosts, UpdateMonitor(m, raw)
      PROVE  UniqueHosts' /\ UniqueChecks'
  <2> DEFINE row == [monitors[m] EXCEPT !.host = NewHost(raw)]
  <2>1. monitors' = [monitors EXCEPT ![m] = row] /\ checks' = checks
    BY <1>1 DEF UpdateMonitor
  <2>2. monitors[m] \in MonitorRows
    BY <1>1 DEF UpdateMonitor, Rows, Typed, Stored
  <2>3. row.host = NewHost(raw)
    BY <2>2 DEF MonitorRows
  <2>4. HostFree(m, row.host)
    BY <1>1, <2>3 DEF UpdateMonitor
  <2> HIDE DEF row
  <2> QED BY <2>1, <2>4, HostWritten DEF UniqueChecks, StoredChecks, SameKey
<1>2. ASSUME NEW m \in Monitors, DeleteMonitor(m)
      PROVE  UniqueHosts' /\ UniqueChecks'
  <2>1. /\ \A n \in Stored' : n \in Stored /\ monitors'[n] = monitors[n]
        /\ \A c \in StoredChecks' : c \in StoredChecks /\ checks'[c] = checks[c]
    BY <1>2 DEF DeleteMonitor, Stored, StoredChecks, Rows, Typed
  <2> QED BY <2>1 DEF UniqueHosts, UniqueChecks, SameKey
<1>3. ASSUME NEW m \in Monitors, NEW c \in Checks, NEW in \in CheckInputs, AddCheck(m, c, in)
      PROVE  UniqueHosts' /\ UniqueChecks'
  <2>1. /\ monitors' = monitors /\ checks' = [checks EXCEPT ![c] = NewCheck(m, in)]
        /\ KeyFree(c, NewCheck(m, in))
    BY <1>3 DEF AddCheck
  <2> QED BY <2>1, CheckWritten DEF UniqueHosts, Stored
<1>4. ASSUME NEW c \in Checks, RemoveCheck(c)
      PROVE  UniqueHosts' /\ UniqueChecks'
  <2>1. /\ monitors' = monitors
        /\ \A d \in StoredChecks' : d \in StoredChecks /\ checks'[d] = checks[d]
    BY <1>4 DEF RemoveCheck, StoredChecks, Rows, Typed
  <2> QED BY <2>1 DEF UniqueHosts, UniqueChecks, SameKey, Stored
<1>5. ASSUME UNCHANGED tables
      PROVE  UniqueHosts' /\ UniqueChecks'
  BY <1>5 DEF tables, UniqueHosts, UniqueChecks, SameKey, Stored, StoredChecks
<1> QED BY <1>1, <1>2, <1>3, <1>4, <1>5, CreateKeepsKeys
        DEF Arrival, BeginPatchCheck, BeginPatchPing

\* No two monitors have the same host and no two checks of a monitor the same path
\* and method, however they were spelled.
THEOREM KeysUnique == Spec => []NoAliases
<1>1. Init => UniqueHosts /\ UniqueChecks
  BY DEF Init, UniqueHosts, UniqueChecks, Stored, StoredChecks
<1>2. Rows /\ UniqueHosts /\ UniqueChecks /\ [Next]_vars => UniqueHosts' /\ UniqueChecks'
  <2> SUFFICES ASSUME Rows, UniqueHosts, UniqueChecks, [Next]_vars
               PROVE  UniqueHosts' /\ UniqueChecks'
    OBVIOUS
  <2>1. CASE Arrival
    BY <2>1, ArrivalKeepsKeys
  <2>2. ASSUME NEW t \in Threads, WriteCheck(t)
        PROVE  UniqueHosts' /\ UniqueChecks'
    <3>1. /\ monitors' = monitors /\ patching[t].id \in Checks
          /\ checks' = [checks EXCEPT ![patching[t].id] = patching[t].row]
          /\ KeyFree(patching[t].id, patching[t].row)
      BY <2>2 DEF WriteCheck, StoredChecks
    <3> QED BY <3>1, CheckWritten DEF UniqueHosts, Stored
  <2>3. ASSUME NEW t \in Threads, WritePing(t)
        PROVE  UniqueHosts' /\ UniqueChecks'
    <3> DEFINE m == patching[t].id
               row == [monitors[m] EXCEPT !.on = patching[t].row.on,
                                          !.interval = patching[t].row.interval]
    <3>1. m \in Stored /\ monitors' = [monitors EXCEPT ![m] = row] /\ checks' = checks
      BY <2>3 DEF WritePing
    <3>2. monitors[m] \in MonitorRows
      BY <3>1 DEF Rows, Typed, Stored
    <3>3. row.host = monitors[m].host
      BY <3>2 DEF MonitorRows
    <3> HIDE DEF row, m
    <3>4. HostFree(m, row.host)
      BY <3>1, <3>3 DEF HostFree, UniqueHosts
    <3> QED BY <3>1, <3>4, HostWritten DEF UniqueChecks, StoredChecks, SameKey, Stored
  <2>4. CASE UNCHANGED tables
    BY <2>4 DEF tables, UniqueHosts, UniqueChecks, SameKey, Stored, StoredChecks
  <2> QED BY <2>1, <2>2, <2>3, <2>4
          DEF Next, PatchFails, Listing, ListMonitors, ListChecks, ListIncidents, QueryFails,
              EndList, vars, tables
<1> QED BY <1>1, <1>2, RowsAlways, KeysAreNames, PTL DEF Spec

-----------------------------------------------------------------------------
(* What was asked for                                                        *)

LEMMA CreateKeepsAsked ==
  ASSUME Rows, AsAsked, NEW m \in Monitors, NEW raw \in RawHosts, NEW i \in Numbers,
         NEW new \in NewChecks, Create(m, raw, i, new)
  PROVE  AsAsked'
<1>1. /\ monitors' = [monitors EXCEPT ![m] =
                        [host |-> NewHost(raw), on |-> TRUE, interval |-> Seconds(NewInterval(i))]]
      /\ checks' = [c \in Checks |-> IF c \in DOMAIN new THEN NewCheck(m, new[c])
                                    ELSE checks[c]]
      /\ asked' = [x \in DOMAIN asked |->
           CASE x = m -> [host |-> NewHost(raw), on |-> TRUE, interval |-> AskedInterval(i)]
             [] x \in DOMAIN new -> NewCheck(m, new[x])
             [] OTHER -> asked[x]]
      /\ overflowed' = IF Fits(AskedInterval(i)) THEN overflowed ELSE overflowed \cup {m}
      /\ muddled' = muddled /\ ValidInPost(i)
  BY DEF Create
<1>2. DOMAIN new \subseteq Checks /\ DOMAIN asked = Monitors \cup Checks
      /\ Monitors \cap Checks = {}
  BY CatalogAssumption DEF NewChecks, Rows, Typed
<1>3. ASSUME NEW c \in StoredChecks' \ muddled'
      PROVE  checks'[c] = asked'[c]
  <2>1. c \in Checks /\ c # m
    BY <1>2 DEF StoredChecks
  <2>2. CASE c \in DOMAIN new
    BY <1>1, <1>2, <2>1, <2>2
  <2>3. CASE c \notin DOMAIN new
    <3>1. checks'[c] = checks[c] /\ asked'[c] = asked[c]
      BY <1>1, <1>2, <2>1, <2>3
    <3> QED BY <1>1, <1>3, <3>1 DEF AsAsked, StoredChecks
  <2> QED BY <2>2, <2>3
<1>4. ASSUME NEW n \in Stored' \ (muddled' \cup overflowed')
      PROVE  monitors'[n] = asked'[n]
  <2>1. n \in Monitors /\ n \notin DOMAIN new
    BY <1>2 DEF Stored
  <2>2. CASE n = m
    <3>1. Seconds(NewInterval(i)) = AskedInterval(i)
      BY <1>1, <1>4, <2>2, IntervalOfPost
    <3> QED BY <1>1, <1>2, <2>1, <2>2, <3>1 DEF Rows, Typed
  <2>3. CASE n # m
    <3>1. monitors'[n] = monitors[n] /\ asked'[n] = asked[n]
      BY <1>1, <1>2, <2>1, <2>3 DEF Rows, Typed
    <3> QED BY <1>1, <1>4, <3>1 DEF AsAsked, Stored
  <2> QED BY <2>2, <2>3
<1> QED BY <1>3, <1>4 DEF AsAsked

LEMMA ArrivalKeepsAsked ==
  ASSUME Rows, AsAsked, Arrival
  PROVE  AsAsked'
<1> USE CatalogAssumption
<1>1. ASSUME NEW m \in Monitors, NEW raw \in RawHosts, UpdateMonitor(m, raw)
      PROVE  AsAsked'
  <2>1. /\ monitors' = [monitors EXCEPT ![m].host = NewHost(raw)]
        /\ asked' = [asked EXCEPT ![m].host = NewHost(raw)]
        /\ UNCHANGED <<checks, muddled, overflowed>>
    BY <1>1 DEF UpdateMonitor
  <2>2. m \notin Checks /\ m \in DOMAIN asked /\ m \in Stored
    BY <1>1 DEF Rows, Typed, UpdateMonitor
  <2>3. \A c \in Checks : asked'[c] = asked[c] /\ checks'[c] = checks[c]
    BY <2>1, <2>2 DEF Rows, Typed
  <2>4. \A n \in Monitors : n # m => asked'[n] = asked[n] /\ monitors'[n] = monitors[n]
    BY <2>1 DEF Rows, Typed
  <2>5. monitors[m] = asked[m] => monitors'[m] = asked'[m]
    BY <2>1, <2>2 DEF Rows, Typed
  <2>6. StoredChecks' = StoredChecks /\ \A n \in Stored' : n # m => n \in Stored
    BY <2>1, <2>4 DEF Stored, StoredChecks
  <2>7. \A c \in StoredChecks' \ muddled' : checks'[c] = asked'[c]
    BY <2>1, <2>3, <2>6 DEF AsAsked, StoredChecks
  <2>8. ASSUME NEW n \in Stored' \ (muddled' \cup overflowed')
        PROVE  monitors'[n] = asked'[n]
    BY <2>1, <2>2, <2>4, <2>5, <2>6, <2>8 DEF AsAsked, Stored
  <2> QED BY <2>7, <2>8 DEF AsAsked
<1>2. ASSUME NEW m \in Monitors, DeleteMonitor(m)
      PROVE  AsAsked'
  <2> DEFINE gone == {m} \cup ChecksOf(m)
  <2>1. /\ monitors' = [monitors EXCEPT ![m] = None]
        /\ checks' = [c \in Checks |-> IF c \in gone THEN None ELSE checks[c]]
        /\ asked' = [x \in DOMAIN asked |-> IF x \in gone THEN None ELSE asked[x]]
        /\ muddled' = muddled \ gone /\ overflowed' = overflowed \ gone
    BY <1>2 DEF DeleteMonitor
  <2>2. gone \cap Monitors = {m}
    BY DEF ChecksOf, StoredChecks
  <2> HIDE DEF gone
  <2>3. ASSUME NEW c \in StoredChecks' \ muddled'
        PROVE  checks'[c] = asked'[c]
    BY <2>1, <2>3 DEF AsAsked, Rows, Typed, StoredChecks
  <2>4. ASSUME NEW n \in Stored' \ (muddled' \cup overflowed')
        PROVE  monitors'[n] = asked'[n]
    <3>1. n # m /\ n \notin gone /\ n \in Monitors
      BY <2>1, <2>2, <2>4 DEF Rows, Typed, Stored
    <3>2. monitors'[n] = monitors[n] /\ asked'[n] = asked[n]
      BY <2>1, <3>1 DEF Rows, Typed
    <3> QED BY <2>1, <2>4, <3>1, <3>2 DEF AsAsked, Stored
  <2> QED BY <2>3, <2>4 DEF AsAsked
<1>3. ASSUME NEW c \in Checks, NEW row,
             checks' = [checks EXCEPT ![c] = row], asked' = [asked EXCEPT ![c] = row],
             monitors' = monitors, muddled' = muddled \/ muddled' = muddled \ {c},
             overflowed' = overflowed
      PROVE  AsAsked'
  <2>1. ASSUME NEW d \in StoredChecks' \ muddled'
        PROVE  checks'[d] = asked'[d]
    <3>1. CASE d = c
      BY <1>3, <2>1, <3>1 DEF Rows, Typed, StoredChecks
    <3>2. CASE d # c
      BY <1>3, <2>1, <3>2 DEF AsAsked, Rows, Typed, StoredChecks
    <3> QED BY <3>1, <3>2
  <2>2. ASSUME NEW n \in Stored' \ (muddled' \cup overflowed')
        PROVE  monitors'[n] = asked'[n]
    BY <1>3, <2>2 DEF AsAsked, Rows, Typed, Stored
  <2> QED BY <2>1, <2>2 DEF AsAsked
<1>4. ASSUME UNCHANGED <<tables, history>>
      PROVE  AsAsked'
  BY <1>4 DEF tables, history, AsAsked, Stored, StoredChecks
<1>5. ASSUME NEW m \in Monitors, NEW c \in Checks, NEW in \in CheckInputs, AddCheck(m, c, in)
      PROVE  AsAsked'
  BY <1>3, <1>5 DEF AddCheck
<1>6. ASSUME NEW c \in Checks, RemoveCheck(c)
      PROVE  AsAsked'
  BY <1>3, <1>6 DEF RemoveCheck
<1> QED BY <1>1, <1>2, <1>4, <1>5, <1>6, CreateKeepsAsked
        DEF Arrival, BeginPatchCheck, BeginPatchPing

LEMMA WriteCheckKeepsAsked ==
  ASSUME Rows, AsAsked, NEW t \in Threads, WriteCheck(t)
  PROVE  AsAsked'
<1> DEFINE w == patching[t]
           c == patching[t].id
<1>1. /\ c \in StoredChecks /\ c \in Checks /\ c \notin Monitors
      /\ w.row = AskedCheck(w.copy, w.patch)
  BY WritesCheck, CatalogAssumption DEF StoredChecks
<1>2. /\ checks' = [checks EXCEPT ![c] = w.row]
      /\ asked' = [asked EXCEPT ![c] = AskedCheck(asked[c], w.patch)]
      /\ muddled' = IF checks[c] = w.copy THEN muddled ELSE muddled \cup {c}
      /\ monitors' = monitors /\ overflowed' = overflowed
  BY DEF WriteCheck
<1> HIDE DEF w, c
<1>3. ASSUME NEW d \in StoredChecks' \ muddled'
      PROVE  checks'[d] = asked'[d]
  <2>1. CASE d = c
    <3>1. checks[c] = w.copy /\ checks[c] = asked[c]
      BY <1>1, <1>2, <1>3, <2>1 DEF AsAsked
    <3>2. checks'[c] = AskedCheck(w.copy, w.patch) /\ asked'[c] = AskedCheck(asked[c], w.patch)
      BY <1>1, <1>2 DEF Rows, Typed
    <3> QED BY <2>1, <3>1, <3>2
  <2>2. CASE d # c
    BY <1>2, <1>3, <2>2 DEF AsAsked, Rows, Typed, StoredChecks
  <2> QED BY <2>1, <2>2
<1>4. ASSUME NEW n \in Stored' \ (muddled' \cup overflowed')
      PROVE  monitors'[n] = asked'[n]
  BY <1>1, <1>2, <1>4 DEF AsAsked, Rows, Typed, Stored
<1> QED BY <1>3, <1>4 DEF AsAsked

LEMMA WritePingKeepsAsked ==
  ASSUME Rows, AsAsked, NEW t \in Threads, WritePing(t)
  PROVE  AsAsked'
<1> DEFINE w == patching[t]
           m == patching[t].id
           mnew == [monitors[m] EXCEPT !.on = w.row.on, !.interval = w.row.interval]
           anew == [asked[m] EXCEPT !.on = Given(w.patch.on, asked[m].on),
                                    !.interval = Given(w.patch.interval, asked[m].interval)]
<1>1. /\ m \in Stored /\ m \in Monitors /\ m \notin Checks /\ w.copy \in MonitorRows
      /\ w.row.on = Given(w.patch.on, w.copy.on)
      /\ m \notin overflowed' =>
           m \notin overflowed /\ w.row.interval = Given(w.patch.interval, w.copy.interval)
  BY WritesPing, CatalogAssumption DEF PingPending
<1>2. /\ monitors' = [monitors EXCEPT ![m] = mnew]
      /\ asked' = [asked EXCEPT ![m] = anew]
      /\ muddled' = IF PingColumns(monitors[m]) = PingColumns(w.copy)
                    THEN muddled ELSE muddled \cup {m}
      /\ overflowed \subseteq overflowed' /\ overflowed' \subseteq overflowed \cup {m}
      /\ checks' = checks
  BY DEF WritePing
<1>3. monitors[m] \in MonitorRows
  BY <1>1 DEF Rows, Typed, Stored
<1>4. ASSUME m \notin muddled' \cup overflowed'
      PROVE  mnew = anew
  <2>1. /\ monitors[m] = asked[m]
        /\ monitors[m].on = w.copy.on /\ monitors[m].interval = w.copy.interval
    BY <1>1, <1>2, <1>4 DEF AsAsked, PingColumns
  <2> QED BY <1>1, <1>3, <1>4, <2>1 DEF MonitorRows
<1> HIDE DEF w, m, mnew, anew
<1>5. ASSUME NEW n \in Stored' \ (muddled' \cup overflowed')
      PROVE  monitors'[n] = asked'[n]
  <2>1. CASE n = m
    BY <1>1, <1>2, <1>4, <1>5, <2>1 DEF Rows, Typed
  <2>2. CASE n # m
    BY <1>2, <1>5, <2>2 DEF AsAsked, Rows, Typed, Stored
  <2> QED BY <2>1, <2>2
<1>6. ASSUME NEW c \in StoredChecks' \ muddled'
      PROVE  checks'[c] = asked'[c]
  BY <1>1, <1>2, <1>6 DEF AsAsked, Rows, Typed, StoredChecks
<1> QED BY <1>5, <1>6 DEF AsAsked

\* A row says, field by field, what the accepted requests asked for, unless it was
\* written from a stale copy or was asked for an interval that does not fit.
THEOREM StoredAsAsked == Spec => []AsAsked
<1>1. Init => AsAsked
  BY DEF Init, AsAsked, Stored, StoredChecks
<1>2. Rows /\ AsAsked /\ [Next]_vars => AsAsked'
  <2> SUFFICES ASSUME Rows, AsAsked, [Next]_vars PROVE AsAsked'
    OBVIOUS
  <2>1. CASE UNCHANGED <<tables, history>>
    BY <2>1 DEF tables, history, AsAsked, Stored, StoredChecks
  <2> QED BY <2>1, ArrivalKeepsAsked, WriteCheckKeepsAsked, WritePingKeepsAsked
          DEF Next, PatchFails, Listing, ListMonitors, ListChecks, ListIncidents, QueryFails,
              EndList, vars, tables, history
<1> QED BY <1>1, <1>2, RowsAlways, PTL DEF Spec

-----------------------------------------------------------------------------
(* Listings                                                                  *)

\* Between its queries a listing knows every monitor that is stored, but for the
\* new ones; what it must list is what was stored all along.
Listed ==
  /\ listing.pc = "rows" =>
       /\ listing.kept \subseteq listing.seen
       /\ Stored \subseteq listing.seen \cup listing.born
       /\ listing.keptChecks \subseteq StoredChecks
       /\ \A c \in listing.keptChecks : checks[c].mon \in listing.seen
  /\ ListComplete /\ ListFailsOnlyForNew
  /\ listing = [pc |-> listing.pc, seen |-> listing.seen, kept |-> listing.kept,
                keptChecks |-> listing.keptChecks, born |-> listing.born,
                answer |-> listing.answer]

\* A request removes rows and adds others; what it removes is kept no longer.
LEMMA DisturbedStaysListed ==
  ASSUME Rows, Listed, NEW mons, NEW cs, NEW new, Disturb(mons, cs, new),
         Stored' \subseteq Stored \cup new, StoredChecks \ cs \subseteq StoredChecks',
         \A c \in StoredChecks \ cs : checks'[c].mon = checks[c].mon
  PROVE  Listed'
<1>1. CASE listing.pc # "rows"
  <2>1. listing' = listing
    BY <1>1 DEF Disturb
  <2> QED BY <1>1, <2>1 DEF Listed, ListComplete, ListFailsOnlyForNew
<1>2. CASE listing.pc = "rows"
  <2>1. listing' = [pc |-> "rows", seen |-> listing.seen, kept |-> listing.kept \ mons,
                    keptChecks |-> listing.keptChecks \ cs, born |-> listing.born \cup new,
                    answer |-> listing.answer]
    BY <1>2 DEF Disturb, Listed
  <2> QED BY <1>2, <2>1 DEF Listed, ListComplete, ListFailsOnlyForNew
<1> QED BY <1>1, <1>2

\* A request that removes nothing and adds no monitor does not concern a listing.
LEMMA UndisturbedStaysListed ==
  ASSUME Rows, Listed, listing' = listing,
         Stored' \subseteq Stored, StoredChecks \subseteq StoredChecks',
         \A c \in StoredChecks : checks'[c].mon = checks[c].mon
  PROVE  Listed'
BY DEF Listed, ListComplete, ListFailsOnlyForNew

LEMMA ArrivalKeepsListed ==
  ASSUME Rows, Listed, Arrival
  PROVE  Listed'
<1>1. ASSUME NEW m \in Monitors, NEW raw \in RawHosts, NEW i \in Numbers,
             NEW new \in NewChecks, Create(m, raw, i, new)
      PROVE  Listed'
  <2>1. DOMAIN new \cap StoredChecks = {} /\ Disturb({}, {}, {m})
    BY <1>1 DEF Create, Rows, Typed
  <2>2. Stored' \subseteq Stored \cup {m}
    BY <1>1 DEF Create, Rows, Typed, Stored
  <2>3. \A c \in StoredChecks : checks'[c] = checks[c]
    BY <1>1, <2>1 DEF Create, Rows, Typed, StoredChecks
  <2>4. StoredChecks \subseteq StoredChecks'
    BY <2>3 DEF StoredChecks
  <2> QED BY <2>1, <2>2, <2>3, <2>4, DisturbedStaysListed
<1>2. ASSUME NEW m \in Monitors, NEW raw \in RawHosts, UpdateMonitor(m, raw)
      PROVE  Listed'
  <2>1. listing' = listing /\ Stored' \subseteq Stored /\ checks' = checks
    BY <1>2 DEF UpdateMonitor, Rows, Typed, Stored
  <2> QED BY <2>1, UndisturbedStaysListed DEF StoredChecks
<1>3. ASSUME NEW m \in Monitors, DeleteMonitor(m)
      PROVE  Listed'
  <2>1. m \notin Checks
    BY CatalogAssumption
  <2>2. Disturb({m}, {m} \cup ChecksOf(m), {}) /\ Stored' \subseteq Stored
    BY <1>3 DEF DeleteMonitor, Rows, Typed, Stored
  <2>3. \A c \in StoredChecks \ ({m} \cup ChecksOf(m)) : checks'[c] = checks[c]
    BY <1>3 DEF DeleteMonitor, StoredChecks
  <2>4. StoredChecks \ ({m} \cup ChecksOf(m)) \subseteq StoredChecks'
    BY <2>3 DEF StoredChecks
  <2> QED BY <2>2, <2>3, <2>4, DisturbedStaysListed
<1>4. ASSUME NEW m \in Monitors, NEW c \in Checks, NEW in \in CheckInputs, AddCheck(m, c, in)
      PROVE  Listed'
  <2>1. listing' = listing /\ monitors' = monitors /\ c \notin StoredChecks
    BY <1>4 DEF AddCheck, Rows, Typed
  <2>2. \A d \in StoredChecks : checks'[d] = checks[d]
    BY <1>4, <2>1 DEF AddCheck, Rows, Typed, StoredChecks
  <2>3. StoredChecks \subseteq StoredChecks'
    BY <2>2 DEF StoredChecks
  <2> QED BY <2>1, <2>2, <2>3, UndisturbedStaysListed DEF Stored
<1>5. ASSUME NEW c \in Checks, RemoveCheck(c)
      PROVE  Listed'
  <2>1. Disturb({}, {c}, {}) /\ monitors' = monitors
    BY <1>5 DEF RemoveCheck
  <2>2. \A d \in StoredChecks \ {c} : checks'[d] = checks[d]
    BY <1>5 DEF RemoveCheck, Rows, Typed, StoredChecks
  <2>3. StoredChecks \ {c} \subseteq StoredChecks'
    BY <2>2 DEF StoredChecks
  <2> QED BY <2>1, <2>2, <2>3, DisturbedStaysListed DEF Stored
<1>6. ASSUME UNCHANGED <<tables, listing>>
      PROVE  Listed'
  BY <1>6 DEF tables, Listed, ListComplete, ListFailsOnlyForNew, Stored, StoredChecks
<1> QED BY <1>1, <1>2, <1>3, <1>4, <1>5, <1>6 DEF Arrival, BeginPatchCheck, BeginPatchPing

LEMMA NextKeepsListed == Rows /\ Listed /\ [Next]_vars => Listed'
<1> SUFFICES ASSUME Rows, Listed, [Next]_vars PROVE Listed'
  OBVIOUS
<1>1. CASE UNCHANGED <<tables, listing>>
  BY <1>1 DEF tables, Listed, ListComplete, ListFailsOnlyForNew, Stored, StoredChecks
<1>2. ASSUME NEW t \in Threads, WriteCheck(t)
      PROVE  Listed'
  <2>1. /\ checks' = [checks EXCEPT ![patching[t].id] = patching[t].row]
        /\ patching[t].row # None /\ patching[t].row.mon = checks[patching[t].id].mon
        /\ UNCHANGED <<monitors, listing>>
    BY <1>2, WritesCheck DEF WriteCheck
  <2>2. StoredChecks \subseteq StoredChecks' /\ Stored' = Stored
        /\ \A c \in StoredChecks : checks'[c].mon = checks[c].mon
    BY <2>1 DEF StoredChecks, Stored, Rows, Typed
  <2> QED BY <2>1, <2>2, UndisturbedStaysListed
<1>3. ASSUME NEW t \in Threads, WritePing(t)
      PROVE  Listed'
  <2>1. Stored' \subseteq Stored /\ UNCHANGED <<checks, listing>>
    BY <1>3 DEF WritePing, Stored, Rows, Typed
  <2> QED BY <2>1, UndisturbedStaysListed DEF StoredChecks
<1>4. CASE ListMonitors
  <2>1. /\ listing' = [pc |-> "rows", seen |-> Stored, kept |-> Stored,
                       keptChecks |-> StoredChecks, born |-> {}, answer |-> {}]
        /\ UNCHANGED tables
    BY <1>4 DEF ListMonitors, NotListing
  <2> QED BY <2>1 DEF tables, Listed, ListComplete, ListFailsOnlyForNew, Stored, StoredChecks,
                      Rows, Typed
<1>5. CASE ListChecks
  <2>1. /\ listing.pc = "rows" /\ UNCHANGED tables
        /\ listing' = IF \A c \in StoredChecks : checks[c].mon \in listing.seen
                      THEN [listing EXCEPT !.pc = "checks",
                              !.answer = {<<checks[c].mon, c>> : c \in StoredChecks}]
                      ELSE [listing EXCEPT !.pc = "unknown"]
    BY <1>5 DEF ListChecks
  <2>2. CASE \A c \in StoredChecks : checks[c].mon \in listing.seen
    <3> DEFINE answer == {<<checks[c].mon, c>> : c \in StoredChecks}
    <3>1. listing' = [pc |-> "checks", seen |-> listing.seen, kept |-> listing.kept,
                      keptChecks |-> listing.keptChecks, born |-> listing.born,
                      answer |-> answer]
      BY <2>1, <2>2 DEF Listed
    <3>2. /\ listing.kept \subseteq listing.seen
          /\ \A c \in listing.keptChecks : \E m \in listing.seen : <<m, c>> \in answer
      BY <2>1, <2>2 DEF Listed
    <3> HIDE DEF answer
    <3> QED BY <3>1, <3>2 DEF Listed, ListComplete, ListFailsOnlyForNew
  <2>3. CASE ~\A c \in StoredChecks : checks[c].mon \in listing.seen
    <3>1. listing' = [pc |-> "unknown", seen |-> listing.seen, kept |-> listing.kept,
                      keptChecks |-> listing.keptChecks, born |-> listing.born,
                      answer |-> listing.answer]
      BY <2>1, <2>3 DEF Listed
    <3>2. listing.born # {}
      BY <2>1, <2>3 DEF Listed, Rows, Typed
    <3> QED BY <3>1, <3>2 DEF Listed, ListComplete, ListFailsOnlyForNew
  <2> QED BY <2>2, <2>3
<1>6. CASE ListIncidents
  <2>1. /\ listing.pc = "checks"
        /\ listing' = [pc |-> "answered", seen |-> listing.seen, kept |-> listing.kept,
                       keptChecks |-> listing.keptChecks, born |-> listing.born,
                       answer |-> listing.answer]
    BY <1>6 DEF ListIncidents, Listed
  <2> QED BY <2>1 DEF Listed, ListComplete, ListFailsOnlyForNew
<1>7. CASE QueryFails \/ EndList
  <2>1. listing' = [pc |-> "idle", seen |-> {}, kept |-> {}, keptChecks |-> {}, born |-> {},
                    answer |-> {}]
    BY <1>7 DEF QueryFails, EndList, NotListing
  <2> QED BY <2>1 DEF Listed, ListComplete, ListFailsOnlyForNew
<1>8. CASE Arrival
  BY <1>8, ArrivalKeepsListed
<1> QED BY <1>1, <1>2, <1>3, <1>4, <1>5, <1>6, <1>7, <1>8
        DEF Next, Listing, PatchFails, vars, tables

\* A listing that answers has every monitor and every check that was there all along,
\* whatever is created, changed and removed between its two queries.
THEOREM ListsAll == Spec => []ListComplete
<1>1. Init => Listed
  BY DEF Init, NotListing, Listed, ListComplete, ListFailsOnlyForNew
<1>2. Listed => ListComplete
  BY DEF Listed
<1> QED BY <1>1, <1>2, RowsAlways, NextKeepsListed, PTL DEF Spec

\* Database errors apart, a listing fails only when a monitor was created between its
\* first two queries.
THEOREM ListsFailRarely == Spec => []ListFailsOnlyForNew
<1>1. Init => Listed
  BY DEF Init, NotListing, Listed, ListComplete, ListFailsOnlyForNew
<1>2. Listed => ListFailsOnlyForNew
  BY DEF Listed
<1> QED BY <1>1, <1>2, RowsAlways, NextKeepsListed, PTL DEF Spec
=============================================================================
