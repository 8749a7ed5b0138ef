---------------------------- MODULE MCDriveConsole ----------------------------
(***************************************************************************)
(* DriveConsole over one folder with an object in it and one beside it.    *)
(***************************************************************************)
EXTENDS DriveConsole, TLC

\* Nothing orders handlers or contents.
Symmetry == Permutations(Procs) \cup Permutations(Contents)

MCKeys == {<<"a">>, <<"b">>, <<"f", "a">>}

MCFolders == {<<"f">>}

MCPatterns == {[starred |-> TRUE, trashed |-> NULL], [starred |-> FALSE, trashed |-> NULL],
               [starred |-> NULL, trashed |-> TRUE], [starred |-> NULL, trashed |-> FALSE]}

=============================================================================
