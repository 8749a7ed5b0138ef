--------------------------- MODULE CollectionShares ---------------------------
(***************************************************************************)
(* Public links to a collection: functions/cloud/public-collection-share.js. *)
(*                                                                         *)
(* A link is one record under the digest of its id, by which visitors      *)
(* resolve it, and one under the collection, by which it is found again to *)
(* be shown or revoked.                                                    *)
(***************************************************************************)
EXTENDS CloudRequests

CONSTANTS
    Shared, \* collections, each of a project
    Links   \* ids of links

ASSUME LinksAssumption == NULL \notin Shared \cup Links

VARIABLES
    linkRecord, \* the collection a link resolves to
    linkOf,     \* the link stored under a collection
    published   \* history: links that somebody was given

shareVars == <<linkRecord, linkOf, published>>

InitShares ==
    /\ linkRecord = [l \in Links |-> NULL]
    /\ linkOf = [c \in Shared |-> NULL]
    /\ published = {}

\* resolve: the visitor of a link sees its collection.
Resolves(l) == linkRecord[l] # NULL

\* readByCollection: the entry of the collection, then the record of its link.
StatusOf(c) == IF linkOf[c] # NULL /\ Resolves(linkOf[c]) THEN linkOf[c] ELSE NULL

UnusedLinks == {l \in Links :
    /\ linkRecord[l] = NULL
    /\ l \notin published
    /\ \A c \in Shared : linkOf[c] # l
    /\ \A p \in Busy : "link" \in DOMAIN proc[p] => proc[p].link # l}

Sharing(pc, c, l) == [pc |-> pc, collection |-> c, link |-> l]

\* publish makes a link only when the collection has none.
Publish(p, c) ==
    /\ StatusOf(c) = NULL
    /\ \E l \in UnusedLinks : Begin(p, Sharing("putLink", c, l))
    /\ UNCHANGED shareVars

PutLink(p) ==
    /\ proc[p].pc = "putLink"
    /\ Write(linkRecord' = [linkRecord EXCEPT ![proc[p].link] = proc[p].collection],
             UNCHANGED linkRecord, GoTo(p, "putLinkOf"), Finish(p))
    /\ UNCHANGED <<linkOf, published>>

\* Mutant of PutLinkOf: the entry under the collection is left to the next request.
PutLinkNowhere(p) ==
    /\ proc[p].pc = "putLinkOf"
    /\ published' = published \cup {proc[p].link}
    /\ Finish(p)
    /\ UNCHANGED <<requests, faults, overlapped, lateEffect, linkRecord, linkOf>>

PutLinkOf(p) ==
    /\ proc[p].pc = "putLinkOf"
    /\ Write(linkOf' = [linkOf EXCEPT ![proc[p].collection] = proc[p].link], UNCHANGED linkOf,
             Finish(p) /\ published' = published \cup {proc[p].link},
             GoTo(p, "undoLink") /\ UNCHANGED published)
    /\ UNCHANGED linkRecord

UndoLink(p) ==
    /\ proc[p].pc = "undoLink"
    /\ Read(linkRecord' = [linkRecord EXCEPT ![proc[p].link] = NULL], UNCHANGED linkRecord)
    /\ Finish(p)
    /\ UNCHANGED <<linkOf, published>>

\* revoke removes the link first, then the entry of the collection.
Revoke(p, c) ==
    /\ StatusOf(c) # NULL
    /\ Begin(p, Sharing("dropLink", c, StatusOf(c)))
    /\ UNCHANGED shareVars

DropLink(p) ==
    /\ proc[p].pc = "dropLink"
    /\ Write(linkRecord' = [linkRecord EXCEPT ![proc[p].link] = NULL], UNCHANGED linkRecord,
             GoTo(p, "dropLinkOf"), Finish(p))
    /\ UNCHANGED <<linkOf, published>>

DropLinkOf(p) ==
    /\ proc[p].pc = "dropLinkOf"
    /\ Write(linkOf' = [linkOf EXCEPT ![proc[p].collection] = NULL], UNCHANGED linkOf,
             Finish(p), Finish(p))
    /\ UNCHANGED <<linkRecord, published>>

ShareStart(p) == \E c \in Shared : Publish(p, c) \/ Revoke(p, c)

ShareStep(p) == PutLink(p) \/ PutLinkOf(p) \/ UndoLink(p) \/ DropLink(p) \/ DropLinkOf(p)

-----------------------------------------------------------------------------
(* Properties *)

\* A link that somebody was given and that still resolves is the one its collection
\* names, so that revoking the collection puts it out; for requests that do not
\* overlap, wherever they fail.
LinksCanBeRevoked ==
    ~overlapped => \A l \in published : Resolves(l) => linkOf[linkRecord[l]] = l

=============================================================================
