------------------------------ MODULE MCCatalog ------------------------------
(***************************************************************************)
(* Instance of Catalog for TLC.  A second has 3 units and a duration 64    *)
(* values, so that 10 seconds are the most that fit and 11 wrap round.     *)
(***************************************************************************)
EXTENDS Catalog, TLC

MCHosts == {[name |-> "a", spelling |-> "plain"], [name |-> "a", spelling |-> "upper"],
            [name |-> "b", spelling |-> "plain"], [name |-> "a", spelling |-> "colons"]}
MCPaths == {[name |-> "/", spelling |-> "plain"], [name |-> "/", spelling |-> "slashes"],
            [name |-> "/x", spelling |-> "plain"], [name |-> "/x", spelling |-> "scheme"]}

Symmetry == Permutations(Monitors) \cup Permutations(Checks) \cup Permutations(Threads)
=============================================================================
