---------------------------- MODULE MCControlPlane ----------------------------
(***************************************************************************)
(* Instances of ControlPlane for TLC.                                      *)
(***************************************************************************)
EXTENDS ControlPlane, TLC

\* Nothing orders ids.
Symmetry == Permutations(Procs) \cup Permutations(Projects) \cup Permutations(Slugs)
                \cup Permutations(Creds) \cup Permutations(Kids) \cup Permutations(Links)

=============================================================================
