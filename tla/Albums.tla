-------------------------------- MODULE Albums --------------------------------
(***************************************************************************)
(* The albums of the legacy gallery: functions/utils/albums.js and         *)
(* functions/api/manage/albums.  An album is one entry of the namespace    *)
(* img_url that names its parent.  A request reads the whole list, decides *)
(* from it, and then writes; nothing is conditional.                       *)
(*                                                                         *)
(* Abstractions: names are values; the list is complete; times left out.   *)
(***************************************************************************)
EXTENDS CloudRequests, FiniteSets

CONSTANTS
    AlbumIds,   \* ids, chosen by clients or fresh
    AlbumNames, \* normalized names
    MaxDepth    \* MAX_ALBUM_DEPTH

\* An album's record. NULL, no parent or no record, is neither an id nor a record.
Album == [name : AlbumNames, parent : AlbumIds \cup {NULL}]

ASSUME AlbumsAssumption == MaxDepth \in Nat \ {0} /\ NULL \notin AlbumIds \cup Album

VARIABLE albums \* the record of each id, NULL if there is none

Existing == {a \in AlbumIds : albums[a] # NULL}

InitAlbums == albums = [a \in AlbumIds |-> NULL]

-----------------------------------------------------------------------------
(* The tree *)

\* Walks up stop after MAX_ALBUM_DEPTH + 2 albums, so a cycle ends them too.
Steps == 0 .. MaxDepth + 1

\* The album n levels above a, NULL beyond the root or a record that is missing.
Above(a) ==
    LET up[n \in Steps] ==
            IF n = 0 THEN a
            ELSE IF up[n - 1] \notin Existing THEN NULL
            ELSE albums[up[n - 1]].parent
    IN up

\* depthOf, the length of pathOf.
DepthOf(a) == Cardinality({Above(a)[n] : n \in Steps} \cap Existing)

IsDescendant(c, a) == \E n \in Steps \ {0} : Above(c)[n] = a

Levels(a) == {n \in Steps : \E x \in Existing : Above(x)[n] = a}

\* subtreeHeight
HeightOf(a) == CHOOSE h \in {n + 1 : n \in Levels(a)} : \A n \in Levels(a) : n + 1 <= h

ChildrenOf(a) == {c \in Existing : albums[c].parent = a}

\* self_parent and cycle
Cyclic(id, parent) == id = parent \/ IsDescendant(parent, id)

\* validateParent; id is NULL for a new album, parent is NULL for the root.
ValidParent(id, parent, name) ==
    /\ parent # NULL =>
        /\ parent \in Existing
        /\ id # NULL => ~Cyclic(id, parent)
    /\ (IF parent = NULL THEN 0 ELSE DepthOf(parent)) +
       (IF id = NULL THEN 1 ELSE HeightOf(id)) <= MaxDepth
    /\ \A a \in ChildrenOf(parent) \ {id} : albums[a].name # name

-----------------------------------------------------------------------------
(* Requests *)

\* Mutant of Lifted: the children stay where they are.
NoChildren(a) == {}

\* The direct children go to the parent of what is deleted.
Lifted(a) == ChildrenOf(a)

PutsAlbum(p, a, name, parent) ==
    Begin(p, [pc |-> "putAlbum", id |-> a, album |-> [name |-> name, parent |-> parent]])

\* POST: a known id is answered with its record, and nothing is written.
CreateAlbum(p) ==
    /\ \E a \in AlbumIds \ Existing, name \in AlbumNames, parent \in AlbumIds \cup {NULL} :
        /\ ValidParent(NULL, parent, name)
        /\ PutsAlbum(p, a, name, parent)
    /\ UNCHANGED albums

\* PATCH with a parent, or with another name only: the parent is kept then.
PatchAlbum(p) ==
    /\ \E a \in Existing, name \in AlbumNames, parent \in AlbumIds \cup {NULL} :
        /\ parent # albums[a].parent \/ name # albums[a].name
        /\ ValidParent(a, parent, name)
        /\ PutsAlbum(p, a, name, parent)
    /\ UNCHANGED albums

DeleteAlbum(p) ==
    /\ \E a \in Existing :
        Begin(p, [pc |-> "lift", id |-> a,
                  lifted |-> {[id |-> c, album |-> [albums[c] EXCEPT !.parent = albums[a].parent]]
                                : c \in Lifted(a)}])
    /\ UNCHANGED albums

WritesAlbum(p, a, record, done) ==
    Write(albums' = [albums EXCEPT ![a] = record], UNCHANGED albums, done, Finish(p))

PutAlbum(p) ==
    /\ proc[p].pc = "putAlbum"
    /\ WritesAlbum(p, proc[p].id, proc[p].album, Finish(p))

\* reparentChildren writes the children as they were listed, one by one.
LiftChild(p) ==
    /\ proc[p].pc = "lift"
    /\ \E c \in proc[p].lifted :
        WritesAlbum(p, c.id, c.album, proc' = [proc EXCEPT ![p].lifted = @ \ {c}])

DropAlbum(p) ==
    /\ proc[p].pc = "lift"
    /\ proc[p].lifted = {}
    /\ WritesAlbum(p, proc[p].id, NULL, Finish(p))

AlbumStart(p) == CreateAlbum(p) \/ PatchAlbum(p) \/ DeleteAlbum(p)
AlbumStep(p) == PutAlbum(p) \/ LiftChild(p) \/ DropAlbum(p)

-----------------------------------------------------------------------------
(* Properties *)

\* Every album hangs from the root, no deeper than the limit, so that the
\* dashboard can show it and a walk up ends: whatever moves, deletions and
\* failures between their writes, as long as requests do not overlap.
Rooted ==
    ~overlapped =>
        \A a \in Existing :
            /\ DepthOf(a) <= MaxDepth
            /\ \E n \in Steps : Above(a)[n] \in Existing /\ albums[Above(a)[n]].parent = NULL

=============================================================================
