------------------------- MODULE MCDocumentDatabase -------------------------
(***************************************************************************)
(* Instances of DocumentDatabase for TLC.                                  *)
(***************************************************************************)
EXTENDS DocumentDatabase, TLC

\* Handlers, keys, record ids and field values are interchangeable; event ids
\* are not, their order decides ties.
Symmetry == Permutations(Procs) \cup Permutations(Keys) \cup Permutations(Records)
                \cup Permutations(Vals)

VR == INSTANCE VersionedRecords WITH record <- record, Records <- Records, Revision <- Revision, NULL <- NULL

\* Clients whose requests do not overlap see the registers of VersionedRecords,
\* whatever fails in between.
ImplementsVersionedRecords == VR!Spec

=============================================================================
