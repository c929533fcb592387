------------------------------- MODULE Catalog -------------------------------
(***************************************************************************)
(* What the API stores and lists: the handlers, the domain's conversions   *)
(* and the rows of the monitor tables.  MonitorService has the requests    *)
(* query by query with the events they send; here the values count, and a  *)
(* request is split only where its outcome depends on what it read: a      *)
(* PATCH of a config writes every column from its copy, and a listing is   *)
(* put together from three queries.                                        *)
(*                                                                         *)
(* A monitor and its ping config are one row (one transaction writes both, *)
(* one delete removes both).  Of a config's numbers the interval is kept,  *)
(* and of scheme and path the path: the others are handled alike.          *)
(***************************************************************************)
EXTENDS Settings

CONSTANTS
  Monitors,    \* ids for monitors to create
  Checks,      \* ids for HTTP configs to create
  Threads,     \* goroutines that serve a PATCH of a config
  RawHosts,    \* hosts as clients write them: [name, spelling]
  RawPaths,    \* paths as clients write them: [name, spelling]
  Numbers,     \* intervals that clients ask for, in seconds
  None,        \* no row; a field that a PATCH leaves out; no request
  MaxRequests  \* bound: requests that reach the tables

\* Every host and path that clients write has a plain spelling; None is no row.
ASSUME CatalogAssumption ==
  /\ Numbers \subseteq Nat /\ MaxRequests \in Nat /\ Monitors \cap Checks = {}
  /\ \A raw \in RawHosts \cup RawPaths :
       raw = [name |-> raw.name, spelling |-> raw.spelling]
  /\ \A raw \in RawHosts : [raw EXCEPT !.spelling = "plain"] \in RawHosts
  /\ \A raw \in RawPaths : [raw EXCEPT !.spelling = "plain"] \in RawPaths
  /\ None \notin [host : RawHosts, on : BOOLEAN, interval : Int]
  /\ None \notin [mon : Monitors, path : RawPaths, method : {"GET", "HEAD"}, kw : BOOLEAN]

VARIABLES
  monitors,    \* monitors joined with ping_configs: [host, on, interval]
  checks,      \* http_configs: [mon, path, method, kw]
  used,        \* ids given out
  patching,    \* per thread: the PATCH of a config it is about to write
  listing,     \* the listing under way and what has gone on meanwhile
  asked,       \* history: each row as the accepted requests asked for it
  muddled,     \* history: rows written from a copy that was stale
  overflowed,  \* history: rows that were asked for an interval that does not fit
  requests     \* how many requests reached the tables

tables == <<monitors, checks>>
history == <<asked, muddled, overflowed>>
vars == <<monitors, checks, used, patching, listing, asked, muddled, overflowed, requests>>

Stored == {m \in Monitors : monitors[m] # None}
StoredChecks == {c \in Checks : checks[c] # None}
ChecksOf(m) == {c \in StoredChecks : checks[c].mon = m}

Methods == {"GET", "HEAD"}
CheckInputs == [path : RawPaths, method : Methods, kw : BOOLEAN]
CheckPatches == [path : RawPaths \cup {None}, method : Methods \cup {None},
                 kw : BOOLEAN \cup {None}]
PingPatches == [on : BOOLEAN \cup {None}, interval : Numbers \cup {None}]

NotListing == [pc |-> "idle", seen |-> {}, kept |-> {}, keptChecks |-> {}, born |-> {},
               answer |-> {}]

Init ==
  /\ monitors = [m \in Monitors |-> None] /\ checks = [c \in Checks |-> None]
  /\ used = {} /\ patching = [t \in Threads |-> None] /\ listing = NotListing
  /\ asked = [x \in Monitors \cup Checks |-> None]
  /\ muddled = {} /\ overflowed = {} /\ requests = 0

-----------------------------------------------------------------------------
(* The domain                                                                *)

\* NewHTTPConfig
NewCheck(m, in) ==
  IF NewPath(in.path) = Refused \/ (in.method = "HEAD" /\ in.kw) THEN Refused
  ELSE [mon |-> m, path |-> NewPath(in.path), method |-> in.method, kw |-> in.kw]

Given(new, old) == IF new = None THEN old ELSE new

\* HTTPConfig.Update: what was left out stays as it is.
UpdatedCheck(row, p) ==
  LET path == IF p.path = None THEN row.path ELSE NewPath(p.path)
      new == [mon |-> row.mon, path |-> path, method |-> Given(p.method, row.method),
              kw |-> Given(p.kw, row.kw)]
  IN  IF path = Refused \/ (new.method = "HEAD" /\ new.kw) THEN Refused ELSE new

\* Mutant: a flag that was left out is taken for its default.
UpdatedPingDefaults(row, p) ==
  [row EXCEPT !.on = Given(p.on, TRUE),
              !.interval = IF p.interval = None THEN @
                           ELSE Seconds(NewInterval(p.interval))]

\* PingConfig.Update, and the columns that UpdatePingConfig makes of it.
UpdatedPing(row, p) ==
  [row EXCEPT !.on = Given(p.on, @),
              !.interval = IF p.interval = None THEN Seconds(Duration(@))
                           ELSE Seconds(NewInterval(p.interval))]

SameKey(row, other) ==
  row.mon = other.mon /\ row.path = other.path /\ row.method = other.method

\* The domain looks for the key among the copy's checks, the unique index among
\* the rows.
KeyFree(c, row) == \A d \in StoredChecks \ {c} : ~SameKey(row, checks[d])
HostFree(m, host) == \A n \in Stored \ {m} : monitors[n].host # host

-----------------------------------------------------------------------------
(* The requests                                                              *)

\* Rows that a request changes or adds are not as the listing found them.
Disturb(mons, cs, new) ==
  listing' = IF listing.pc = "rows"
             THEN [listing EXCEPT !.kept = @ \ mons, !.keptChecks = @ \ cs,
                                  !.born = @ \cup new]
             ELSE listing

AskedInterval(i) == IF i = 0 THEN DefaultInterval ELSE i

\* The HTTP checks a POST brings along, by the id each will get: at most one.
NewChecks == UNION {[C -> CheckInputs] : C \in {{}} \cup {{c} : c \in Checks}}

\* POST /monitors: one transaction.  The flag is left to its default, enabled.
Create(m, raw, i, new) ==
  LET host == NewHost(raw) IN
  /\ m \notin used /\ DOMAIN new \cap used = {}
  /\ ValidInPost(i) /\ host # Refused /\ HostFree(m, host)
  /\ \A c \in DOMAIN new : NewCheck(m, new[c]) # Refused
  /\ used' = used \cup {m} \cup DOMAIN new
  /\ monitors' = [monitors EXCEPT ![m] =
                    [host |-> host, on |-> TRUE, interval |-> Seconds(NewInterval(i))]]
  /\ checks' = [c \in Checks |-> IF c \in DOMAIN new THEN NewCheck(m, new[c]) ELSE checks[c]]
  /\ asked' = [x \in DOMAIN asked |->
                 CASE x = m -> [host |-> host, on |-> TRUE, interval |-> AskedInterval(i)]
                   [] x \in DOMAIN new -> NewCheck(m, new[x])
                   [] OTHER -> asked[x]]
  /\ overflowed' = IF Fits(AskedInterval(i)) THEN overflowed ELSE overflowed \cup {m}
  /\ Disturb({}, {}, {m})
  /\ UNCHANGED <<patching, muddled>>

\* Mutant: the host is stored as it was written.
UpdateMonitorRaw(m, raw) ==
  /\ m \in Stored /\ NewHost(raw) # Refused /\ HostFree(m, raw)
  /\ monitors' = [monitors EXCEPT ![m].host = raw]
  /\ asked' = [asked EXCEPT ![m].host = raw]
  /\ UNCHANGED <<checks, used, patching, listing, muddled, overflowed>>

\* PATCH /monitors/{id}: COALESCE leaves the columns that were left out.
UpdateMonitor(m, raw) ==
  LET host == NewHost(raw) IN
  /\ m \in Stored /\ host # Refused /\ HostFree(m, host)
  /\ monitors' = [monitors EXCEPT ![m].host = host]
  /\ asked' = [asked EXCEPT ![m].host = host]
  /\ UNCHANGED <<checks, used, patching, listing, muddled, overflowed>>

\* Mutant: foreign keys are off.
DeleteNoCascade(m) ==
  /\ m \in Stored
  /\ monitors' = [monitors EXCEPT ![m] = None]
  /\ asked' = [asked EXCEPT ![m] = None]
  /\ muddled' = muddled \ {m} /\ overflowed' = overflowed \ {m}
  /\ Disturb({m}, {}, {})
  /\ UNCHANGED <<checks, used, patching>>

\* DELETE /monitors/{id} takes its configs along (ON DELETE CASCADE).
DeleteMonitor(m) ==
  LET gone == {m} \cup ChecksOf(m) IN
  /\ m \in Stored
  /\ monitors' = [monitors EXCEPT ![m] = None]
  /\ checks' = [c \in Checks |-> IF c \in gone THEN None ELSE checks[c]]
  /\ asked' = [x \in DOMAIN asked |-> IF x \in gone THEN None ELSE asked[x]]
  /\ muddled' = muddled \ gone /\ overflowed' = overflowed \ gone
  /\ Disturb({m}, gone, {})
  /\ UNCHANGED <<used, patching>>

\* POST .../http-checks
AddCheck(m, c, in) ==
  LET row == NewCheck(m, in) IN
  /\ m \in Stored /\ c \in Checks \ used
  /\ row # Refused /\ KeyFree(c, row)
  /\ used' = used \cup {c}
  /\ checks' = [checks EXCEPT ![c] = row]
  /\ asked' = [asked EXCEPT ![c] = row]
  /\ UNCHANGED <<monitors, patching, listing, muddled, overflowed>>

\* DELETE .../http-checks/{id}
RemoveCheck(c) ==
  /\ c \in StoredChecks
  /\ checks' = [checks EXCEPT ![c] = None]
  /\ asked' = [asked EXCEPT ![c] = None]
  /\ muddled' = muddled \ {c}
  /\ Disturb({}, {c}, {})
  /\ UNCHANGED <<monitors, used, patching, overflowed>>

\* PATCH .../http-checks/{id}: the copy is read and updated.
BeginPatchCheck(t, c, p) ==
  LET row == UpdatedCheck(checks[c], p) IN
  /\ patching[t] = None /\ c \in StoredChecks
  /\ row # Refused /\ KeyFree(c, row)
  /\ patching' = [patching EXCEPT ![t] =
                    [id |-> c, copy |-> checks[c], row |-> row, patch |-> p]]
  /\ UNCHANGED <<tables, used, listing, history>>

\* PATCH .../ping: the copy is read and updated.
BeginPatchPing(t, m, p) ==
  /\ patching[t] = None /\ m \in Stored
  /\ p.interval # None => ValidInPatch(p.interval)
  /\ patching' = [patching EXCEPT ![t] =
                    [id |-> m, copy |-> monitors[m], row |-> UpdatedPing(monitors[m], p),
                     patch |-> p]]
  /\ UNCHANGED <<tables, used, listing, history>>

EndPatch(t) == patching' = [patching EXCEPT ![t] = None]

\* The columns of a ping config.
PingColumns(row) == [on |-> row.on, interval |-> row.interval]

AskedCheck(row, p) ==
  [mon |-> row.mon, path |-> IF p.path = None THEN row.path ELSE NewPath(p.path),
   method |-> Given(p.method, row.method), kw |-> Given(p.kw, row.kw)]

\* Mutant: only the columns that the PATCH gives are written.
WriteCheckColumns(t) ==
  LET w == patching[t] IN
  /\ w # None /\ w.id \in StoredChecks
  /\ KeyFree(w.id, AskedCheck(checks[w.id], w.patch))
  /\ checks' = [checks EXCEPT ![w.id] = AskedCheck(@, w.patch)]
  /\ asked' = [asked EXCEPT ![w.id] = AskedCheck(@, w.patch)]
  /\ EndPatch(t)
  /\ UNCHANGED <<monitors, used, listing, muddled, overflowed, requests>>

\* UpdateHTTPConfig: every column, from the copy.
WriteCheck(t) ==
  LET w == patching[t] IN
  /\ w # None /\ w.id \in StoredChecks
  /\ KeyFree(w.id, w.row)
  /\ checks' = [checks EXCEPT ![w.id] = w.row]
  /\ asked' = [asked EXCEPT ![w.id] = AskedCheck(@, w.patch)]
  /\ muddled' = IF checks[w.id] = w.copy THEN muddled ELSE muddled \cup {w.id}
  /\ EndPatch(t)
  /\ UNCHANGED <<monitors, used, listing, overflowed, requests>>

\* UpdatePingConfig: every column of the ping config, from the copy.
WritePing(t) ==
  LET w == patching[t] IN
  /\ w # None /\ w.id \in Stored
  /\ monitors' = [monitors EXCEPT ![w.id].on = w.row.on, ![w.id].interval = w.row.interval]
  /\ asked' = [asked EXCEPT ![w.id].on = Given(w.patch.on, @),
                            ![w.id].interval = Given(w.patch.interval, @)]
  /\ muddled' = IF PingColumns(monitors[w.id]) = PingColumns(w.copy)
                THEN muddled ELSE muddled \cup {w.id}
  /\ overflowed' = IF w.patch.interval # None /\ ~Fits(w.patch.interval)
                   THEN overflowed \cup {w.id} ELSE overflowed
  /\ EndPatch(t)
  /\ UNCHANGED <<checks, used, listing, requests>>

\* The row has gone, its new key is taken, or the statement fails.
PatchFails(t) ==
  /\ patching[t] # None
  /\ EndPatch(t)
  /\ UNCHANGED <<tables, used, listing, history, requests>>

-----------------------------------------------------------------------------
(* GET /monitors                                                             *)

\* Mutant: monitors are found through their HTTP checks.
ListMonitorsJoined ==
  /\ listing.pc = "idle"
  /\ listing' = [NotListing EXCEPT !.pc = "rows", !.kept = Stored,
                   !.seen = {m \in Stored : ChecksOf(m) # {}}, !.keptChecks = StoredChecks]
  /\ UNCHANGED <<tables, used, patching, history, requests>>

\* First query: the monitors and their ping configs.
ListMonitors ==
  /\ listing.pc = "idle"
  /\ listing' = [NotListing EXCEPT !.pc = "rows", !.seen = Stored, !.kept = Stored,
                                   !.keptChecks = StoredChecks]
  /\ UNCHANGED <<tables, used, patching, history, requests>>

\* Second query: every HTTP config, hung on its monitor; one whose monitor was
\* not among the first query's rows fails the listing ("references unknown monitor").
ListChecks ==
  /\ listing.pc = "rows"
  /\ listing' =
       IF \A c \in StoredChecks : checks[c].mon \in listing.seen
       THEN [listing EXCEPT !.pc = "checks",
                            !.answer = {<<checks[c].mon, c>> : c \in StoredChecks}]
       ELSE [listing EXCEPT !.pc = "unknown"]
  /\ UNCHANGED <<tables, used, patching, history, requests>>

\* Third query: the monitors with an open incident, for the status of each listed.
ListIncidents ==
  /\ listing.pc = "checks"
  /\ listing' = [listing EXCEPT !.pc = "answered"]
  /\ UNCHANGED <<tables, used, patching, history, requests>>

\* A query or the scan of its rows fails, and the request with it. (When it is the
\* first there is nothing to undo.)
QueryFails ==
  /\ listing.pc \in {"rows", "checks"}
  /\ listing' = NotListing
  /\ UNCHANGED <<tables, used, patching, history, requests>>

EndList ==
  /\ listing.pc \in {"answered", "unknown"}
  /\ listing' = NotListing
  /\ UNCHANGED <<tables, used, patching, history, requests>>

Listing == ListMonitors \/ ListChecks \/ ListIncidents \/ QueryFails \/ EndList

-----------------------------------------------------------------------------
\* A request that reaches the tables.
Arrival ==
  \/ \E m \in Monitors, raw \in RawHosts, i \in Numbers, new \in NewChecks :
       Create(m, raw, i, new)
  \/ \E m \in Monitors, raw \in RawHosts : UpdateMonitor(m, raw)
  \/ \E m \in Monitors : DeleteMonitor(m)
  \/ \E m \in Monitors, c \in Checks, in \in CheckInputs : AddCheck(m, c, in)
  \/ \E c \in Checks : RemoveCheck(c)
  \/ \E t \in Threads, c \in Checks, p \in CheckPatches : BeginPatchCheck(t, c, p)
  \/ \E t \in Threads, m \in Monitors, p \in PingPatches : BeginPatchPing(t, m, p)

Next ==
  \/ requests < MaxRequests /\ requests' = requests + 1 /\ Arrival
  \/ \E t \in Threads : WriteCheck(t) \/ WritePing(t) \/ PatchFails(t)
  \/ Listing

Spec == Init /\ [][Next]_vars

-----------------------------------------------------------------------------
(* Properties                                                                *)

MonitorRows == [host : RawHosts, on : BOOLEAN, interval : Int]
CheckRows == [mon : Monitors, path : RawPaths, method : Methods, kw : BOOLEAN]

\* The types of the rows, and that every check's monitor is stored.
TypeOK ==
  /\ \A m \in Stored : m \in used /\ monitors[m] \in MonitorRows
  /\ \A c \in StoredChecks : c \in used /\ checks[c] \in CheckRows
                             /\ checks[c].mon \in Stored
  /\ \A t \in Threads : patching[t] # None => patching[t].id \in used
  /\ muddled \subseteq used /\ overflowed \subseteq used /\ requests \in 0..MaxRequests

\* The jitter window that buildEntries draws the first check from.
JitterWindow(m) == Duration(monitors[m].interval)

\* Whatever requests overlap, a stored row is one the domain would accept: no
\* keywords for HEAD, an interval that is not below the minimum and that the
\* scheduler can load.  A row is written whole, from one copy; writing only the
\* columns that changed would let two PATCHes meet in a row neither asked for.
\* The intervals asked for must fit into a duration: the code does not check it.
RowsValid ==
  /\ \A c \in StoredChecks : checks[c].kw => checks[c].method = "GET"
  /\ \A m \in Stored \ overflowed :
       monitors[m].interval >= MinInterval /\ JitterWindow(m) > 0

\* No two monitors watch the same host and no two checks of a monitor the same
\* path with the same method, however clients spelled them: the unique indexes
\* compare what NewHost and NewPath have made of the input, in every request.
NoAliases ==
  /\ \A m, n \in Stored : monitors[m].host.name = monitors[n].host.name => m = n
  /\ \A c, d \in StoredChecks :
       /\ checks[c].mon = checks[d].mon /\ checks[c].method = checks[d].method
       /\ checks[c].path.name = checks[d].path.name
       => c = d

\* A row is what the accepted requests asked for, field by field: a PATCH leaves
\* alone what it leaves out, and an interval comes back from the columns as it
\* was asked for.  Excepted are rows written from a stale copy, and intervals
\* that do not fit.
AsAsked ==
  /\ \A c \in StoredChecks \ muddled : checks[c] = asked[c]
  /\ \A m \in Stored \ (muddled \cup overflowed) : monitors[m] = asked[m]

\* A monitor that is there from a listing's first query to its last is listed,
\* and every check that stays, under its own monitor.
ListComplete ==
  listing.pc \in {"checks", "answered"} =>
    /\ listing.kept \subseteq listing.seen
    /\ \A c \in listing.keptChecks : \E m \in listing.seen : <<m, c>> \in listing.answer

\* Database errors apart, a listing fails only when a monitor was created between its
\* first two queries: no other request makes it find a check of an unknown monitor.
ListFailsOnlyForNew == listing.pc = "unknown" => listing.born # {}
=============================================================================
