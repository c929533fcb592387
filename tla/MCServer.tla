------------------------------ MODULE MCServer ------------------------------
(***************************************************************************)
(* Instance of Server for TLC: more requests than eventsChan has room.     *)
(***************************************************************************)
EXTENDS Server
=============================================================================
