-------------------------- MODULE VersionedObjects --------------------------
(***************************************************************************)
(* What the object engine promises to clients whose requests do not        *)
(* overlap: each object is a register whose versions form one chain.  A    *)
(* PUT starts or extends it, also over a tombstone; a DELETE extends it    *)
(* only over an active version and keeps its bytes; the last version can   *)
(* be replaced by a sibling with a smaller revision id.                    *)
(***************************************************************************)
EXTENDS Integers

CONSTANTS Objects, Manifest, NULL, NoParent

VARIABLE manifest

Init == manifest = [o \in Objects |-> NULL]

Extends(x, cur) == IF cur = NULL
                   THEN x.version = 1 /\ x.parent = NoParent
                   ELSE x.version = cur.version + 1 /\ x.parent = cur.rev

Put(o, x) == x.state = "active" /\ Extends(x, manifest[o])

Delete(o, x) == /\ x.state = "deleted"
                /\ manifest[o] # NULL
                /\ manifest[o].state = "active"
                /\ Extends(x, manifest[o])
                /\ x.storage = manifest[o].storage

Overtake(o, x) == /\ manifest[o] # NULL
                  /\ x.version = manifest[o].version
                  /\ x.parent = manifest[o].parent
                  /\ x.rev < manifest[o].rev

Next == \E o \in Objects :
            LET x == manifest'[o] IN
            /\ x \in Manifest
            /\ x.obj = o
            /\ manifest' = [manifest EXCEPT ![o] = x]
            /\ Put(o, x) \/ Delete(o, x) \/ Overtake(o, x)

Spec == Init /\ [][Next]_manifest

=============================================================================
