-------------------------- MODULE VersionedRecords --------------------------
(***************************************************************************)
(* What the document database promises to clients whose requests do not    *)
(* overlap: each record is a register that is created once, moves one      *)
(* version at a time to a child of what it holds, and ends in a tombstone. *)
(* The one exception is the documented tie-break: a revision can be        *)
(* replaced by a sibling with a smaller event id as long as it has no      *)
(* child.                                                                  *)
(***************************************************************************)
EXTENDS Integers

CONSTANTS Records, Revision, NULL

VARIABLE record

Init == record = [r \in Records |-> NULL]

Create(r, x) ==
    /\ record[r] = NULL
    /\ x.op = "create"
    /\ x.version = 1
    /\ record' = [record EXCEPT ![r] = x]

Commit(r, x) ==
    /\ record[r] # NULL
    /\ record[r].op # "delete"
    /\ x.op \in {"update", "delete"}
    /\ x.version = record[r].version + 1
    /\ x.parent = record[r].event
    /\ record' = [record EXCEPT ![r] = x]

Overtake(r, x) ==
    /\ record[r] # NULL
    /\ x.op \in {"update", "delete"}
    /\ x.version = record[r].version
    /\ x.parent = record[r].parent
    /\ x.event < record[r].event
    /\ record' = [record EXCEPT ![r] = x]

Next == \E r \in Records :
            LET x == record'[r] IN
            /\ x \in Revision
            /\ x.rec = r
            /\ Create(r, x) \/ Commit(r, x) \/ Overtake(r, x)

Spec == Init /\ [][Next]_record

=============================================================================
