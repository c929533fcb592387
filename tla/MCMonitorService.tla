-------------------------- MODULE MCMonitorService --------------------------
(***************************************************************************)
(* Small instances of MonitorService for TLC.                              *)
(***************************************************************************)
EXTENDS MonitorService, TLC
CONSTANTS m1, m2, p1, p2

MCPingOf == [m \in {m1, m2} |-> IF m = m1 THEN p1 ELSE p2]

\* The two monitors change places together with their ping configs.
SwapMonitors == {m1 :> m2 @@ m2 :> m1 @@ p1 :> p2 @@ p2 :> p1}

Symmetry == Permutations(Threads) \cup Permutations(Hosts) \cup Permutations(HTTPIds)
              \cup Permutations(Keys) \cup Permutations(Values) \cup SwapMonitors
=============================================================================
