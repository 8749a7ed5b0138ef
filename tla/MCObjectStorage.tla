--------------------------- MODULE MCObjectStorage ---------------------------
(***************************************************************************)
(* Instances of ObjectStorage for TLC.                                     *)
(***************************************************************************)
EXTENDS ObjectStorage, TLC

\* Handlers, keys and bodies are interchangeable; revision ids are ordered.
Symmetry == Permutations(Procs) \cup Permutations(Keys) \cup Permutations(Bodies)

VO == INSTANCE VersionedObjects WITH manifest <- manifest, Objects <- Objects, Manifest <- Manifest, NULL <- NULL, NoParent <- NoParent

\* Clients whose requests do not overlap see the registers of VersionedObjects,
\* whatever fails in between.
ImplementsVersionedObjects == VO!Spec

=============================================================================
