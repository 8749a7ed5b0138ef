------------------------------ MODULE MCGallery ------------------------------
(***************************************************************************)
(* Instances of Gallery for TLC.                                           *)
(***************************************************************************)
EXTENDS Gallery, TLC

\* Nothing orders ids.
Symmetry == Permutations(Procs) \cup Permutations(Files) \cup Permutations(Shorts)
                \cup Permutations(AlbumIds) \cup Permutations(AlbumNames)

=============================================================================
