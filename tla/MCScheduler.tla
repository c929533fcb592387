---------------------------- MODULE MCScheduler ----------------------------
(***************************************************************************)
(* Instances of Scheduler for TLC.                                         *)
(***************************************************************************)
EXTENDS Scheduler, TLC

\* Addresses, config ids and settings are interchangeable.
Symmetry ==
  Permutations(Objs) \cup Permutations(Configs) \cup Permutations(Versions)
WorkerSymmetry == Symmetry \cup Permutations(Workers)

\* Start found every config enabled; where it put their states is immaterial.
MCInit ==
  /\ Init
  /\ states = CHOOSE f \in [Configs -> Objs] :
                \A c, d \in Configs : f[c] = f[d] => c = d

MCSpec == MCInit /\ [][Next]_vars
MCFairSpec == MCSpec /\ Fairness
=============================================================================
