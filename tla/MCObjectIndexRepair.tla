------------------------ MODULE MCObjectIndexRepair ------------------------
(***************************************************************************)
(* Instances of ObjectIndexRepair for TLC.                                 *)
(***************************************************************************)
EXTENDS ObjectIndexRepair, TLC

Symmetry == Permutations(Procs) \cup Permutations(Keys) \cup Permutations(Bodies)

=============================================================================
