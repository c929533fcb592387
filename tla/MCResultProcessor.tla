------------------------- MODULE MCResultProcessor --------------------------
(***************************************************************************)
(* Small instances of ResultProcessor for TLC: a monitor with a ping and   *)
(* an HTTP config, and one with a ping config alone.                       *)
(***************************************************************************)
EXTENDS ResultProcessor
CONSTANTS m1, m2, p1, h1, p2

MCConfigs == {p1, h1, p2}
MCMonitorOf == [c \in MCConfigs |-> IF c = p2 THEN m2 ELSE m1]
SoloConfigs == {p1, h1}
SoloMonitorOf == [c \in SoloConfigs |-> m1]
=============================================================================
