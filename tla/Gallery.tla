------------------------------- MODULE Gallery -------------------------------
(***************************************************************************)
(* The legacy gallery: functions/upload.js, functions/file/[id].js and     *)
(* functions/api/manage over the namespace img_url, with short links       *)
(* (functions/utils/shortlink.js) and the albums.                          *)
(*                                                                         *)
(* A file's metadata is one entry.  Every request that changes it reads it *)
(* and writes it back whole, and so does every view of the file: between   *)
(* its read and its write a view asks the moderation service.              *)
(*                                                                         *)
(* Abstractions: the name and the like are one field, `note`; the bytes    *)
(* are always there; a view is by a visitor, the dashboard's own go        *)
(* around the metadata; WhiteList_Mode is off and short links are on.      *)
(***************************************************************************)
EXTENDS Albums

CONSTANTS
    Files,  \* long ids that the provider gives out
    Shorts  \* short ids

VARIABLES
    meta,      \* metadata of each file, NULL if there is none
    links,     \* the file that each short id points to, NULL if none
    used,      \* long ids given out
    answered,  \* history: the short id each upload was answered with
    blocked,   \* history: files whose blocking was answered, and not undone since
    contended  \* history: files and short ids that two requests had in hand at once,
               \* and short ids of uploads that failed half way

galleryVars == <<meta, links, used, answered, blocked, contended>>
vars == <<requestVars, albums, galleryVars>>

Metadata == [list : {"None", "Block", "White"}, label : {"None", "adult"}, note : BOOLEAN,
             album : AlbumIds \cup {NULL}, short : Shorts \cup {NULL}]

ASSUME IdsAssumption == NULL \notin Files \cup Shorts \cup Metadata

Fresh == [list |-> "None", label |-> "None", note |-> FALSE, album |-> NULL, short |-> NULL]

Init ==
    /\ InitRequests
    /\ InitAlbums
    /\ meta = [f \in Files |-> NULL]
    /\ links = [s \in Shorts |-> NULL]
    /\ used = {}
    /\ answered = [f \in Files |-> NULL]
    /\ blocked = {}
    /\ contended = {}

\* isBlocked and isWhitelisted
IsBlocked(m) == m.list = "Block" \/ m.label = "adult"
IsWhitelisted(m) == m.list = "White"

\* When two handlers have a file or a short id in hand, all that they have
\* becomes contended.
HandsOf(p) == IF "hands" \in DOMAIN proc[p] THEN proc[p].hands ELSE {}
Contends(hands) ==
    contended' = contended \cup
        UNION {hands \cup HandsOf(q) : q \in {q \in Busy : hands \cap HandsOf(q) # {}}}

Asks(p, h) == Begin(p, h) /\ Contends(h.hands)

WritesMeta(p, m, done) ==
    Write(meta' = [meta EXCEPT ![proc[p].file] = m], UNCHANGED meta, done, Finish(p))

-----------------------------------------------------------------------------
(* POST /upload *)

\* Mutant of Taken: no look at the candidate.
TakenNever(s) == FALSE

\* allocateShortId looks a candidate up; after a few it goes without.
Taken(s) == links[s] # NULL

Upload(p) ==
    /\ \E f \in Files \ used :
        /\ used' = used \cup {f}
        /\ \E s \in {s \in Shorts : ~Taken(s)} \cup {NULL} :
            Asks(p, [pc |-> "putMeta", file |-> f, hands |-> {f, s} \ {NULL}, short |-> s])
    /\ UNCHANGED <<albums, meta, links, answered, blocked>>

\* The upload fails; what is written stays.
FailUpload(p) == Finish(p) /\ contended' = contended \cup (HandsOf(p) \cap Shorts)

PutMeta(p) ==
    /\ proc[p].pc = "putMeta"
    /\ Write(meta' = [meta EXCEPT ![proc[p].file] = [Fresh EXCEPT !.short = proc[p].short]],
             UNCHANGED meta,
             /\ IF proc[p].short = NULL THEN Finish(p) ELSE GoTo(p, "putLink")
             /\ UNCHANGED contended,
             FailUpload(p))
    /\ UNCHANGED <<albums, links, used, answered, blocked>>

\* Only an upload that got this far is answered with its short id.
PutLink(p) ==
    /\ proc[p].pc = "putLink"
    /\ Write(links' = [links EXCEPT ![proc[p].short] = proc[p].file], UNCHANGED links,
             /\ Finish(p)
             /\ answered' = [answered EXCEPT ![proc[p].file] = proc[p].short]
             /\ UNCHANGED contended,
             FailUpload(p) /\ UNCHANGED answered)
    /\ UNCHANGED <<albums, meta, used, blocked>>

-----------------------------------------------------------------------------
(* GET /file/:id *)

\* A file without metadata gets fresh metadata, also when it was deleted.
View(p) ==
    /\ \E f \in used :
        Asks(p, IF meta[f] = NULL
                THEN [pc |-> "create", file |-> f, hands |-> {f}, seen |-> Fresh]
                ELSE [pc |-> "decide", file |-> f, hands |-> {f}, seen |-> meta[f]])
    /\ UNCHANGED <<albums, meta, links, used, answered, blocked>>

CreateMeta(p) ==
    /\ proc[p].pc = "create"
    /\ WritesMeta(p, proc[p].seen, GoTo(p, "decide"))
    /\ UNCHANGED <<albums, links, used, answered, blocked, contended>>

\* moderateFile asks about files without a label, and fails open.
Labels(m) == IF m.label = "None" THEN {"None", "adult"} ELSE {m.label}

Labelled(m, label) == [m EXCEPT !.label = label]

\* Whitelisted files are sent and blocked ones are not, and nothing is written.
Decide(p) ==
    /\ proc[p].pc = "decide"
    /\ IF IsWhitelisted(proc[p].seen) \/ IsBlocked(proc[p].seen) THEN Finish(p)
       ELSE \E label \in Labels(proc[p].seen) :
                proc' = [proc EXCEPT ![p] = [pc |-> "putSeen", file |-> proc[p].file,
                                             hands |-> proc[p].hands,
                                             seen |-> Labelled(proc[p].seen, label)]]
    /\ UNCHANGED <<requests, faults, overlapped, lateEffect, albums, galleryVars>>

\* The metadata is written as it was read, with the label.
PutSeen(p) ==
    /\ proc[p].pc = "putSeen"
    /\ WritesMeta(p, proc[p].seen, Finish(p))
    /\ UNCHANGED <<albums, links, used, answered, blocked, contended>>

-----------------------------------------------------------------------------
(* /api/manage: block, white, toggleLike, editName, albums/assign, delete *)

ListedAs(m, list) == [m EXCEPT !.list = list]

Noted(m) == [m EXCEPT !.note = ~@]

\* Mutant of Assigned: the fields that normalizeMetadata knows, from scratch.
AssignedFresh(m, a) == [Fresh EXCEPT !.label = m.label, !.note = m.note, !.short = m.short, !.album = a]

Assigned(m, a) == [m EXCEPT !.album = a]

\* updateMetadata and assign: nothing is done for a file without metadata.
Update(p) ==
    /\ \E f \in {f \in used : meta[f] # NULL} :
        \E m \in {ListedAs(meta[f], "Block"), ListedAs(meta[f], "White"), Noted(meta[f])}
                    \cup {Assigned(meta[f], a) : a \in Existing \cup {NULL}} :
            /\ Asks(p, [pc |-> "putUpdated", file |-> f, hands |-> {f}, next |-> m,
                        was |-> meta[f].list])
            /\ blocked' = IF m.list = "White" THEN blocked \ {f} ELSE blocked
    /\ UNCHANGED <<albums, meta, links, used, answered>>

PutUpdated(p) ==
    /\ proc[p].pc = "putUpdated"
    /\ LET f == proc[p].file
           toBlock == proc[p].next.list = "Block" /\ proc[p].was # "Block" IN
        Write(meta' = [meta EXCEPT ![f] = proc[p].next], UNCHANGED meta,
              Finish(p) /\ blocked' = IF toBlock THEN blocked \cup {f} ELSE blocked,
              Finish(p) /\ UNCHANGED blocked)
    /\ UNCHANGED <<albums, links, used, answered, contended>>

\* The metadata says which short link goes with it.
DeleteFile(p) ==
    /\ \E f \in used :
        LET s == IF meta[f] = NULL THEN NULL ELSE meta[f].short IN
        /\ Asks(p, [pc |-> "dropMeta", file |-> f, hands |-> {f, s} \ {NULL}, short |-> s])
        /\ answered' = [answered EXCEPT ![f] = NULL]
        /\ blocked' = blocked \ {f}
    /\ UNCHANGED <<albums, meta, links, used>>

DropMeta(p) ==
    /\ proc[p].pc = "dropMeta"
    /\ WritesMeta(p, NULL, IF proc[p].short = NULL THEN Finish(p) ELSE GoTo(p, "dropLink"))
    /\ UNCHANGED <<albums, links, used, answered, blocked, contended>>

DropLink(p) ==
    /\ proc[p].pc = "dropLink"
    /\ Write(links' = [links EXCEPT ![proc[p].short] = NULL], UNCHANGED links, Finish(p), Finish(p))
    /\ UNCHANGED <<albums, meta, used, answered, blocked, contended>>

FileStart(p) == Upload(p) \/ View(p) \/ Update(p) \/ DeleteFile(p)

FileStep(p) ==
    \/ PutMeta(p) \/ PutLink(p) \/ CreateMeta(p) \/ Decide(p) \/ PutSeen(p)
    \/ PutUpdated(p) \/ DropMeta(p) \/ DropLink(p)

GalleryEvict(p) ==
    /\ Evict(p)
    /\ IF proc[p].pc \in {"putMeta", "putLink"} THEN FailUpload(p) ELSE UNCHANGED contended
    /\ UNCHANGED <<albums, meta, links, used, answered, blocked>>

Next == \E p \in Procs :
    \/ FileStart(p) \/ FileStep(p)
    \/ (AlbumStart(p) \/ AlbumStep(p)) /\ UNCHANGED galleryVars
    \/ GalleryEvict(p)

Spec == Init /\ [][Next]_vars

-----------------------------------------------------------------------------
(* Properties *)

\* A file whose blocking was answered is refused to visitors until it is
\* whitelisted or deleted, whatever else is done to it: views that label it,
\* likes, moves between albums; unless another request had the file in hand.
BlockSticks ==
    \A f \in blocked \ contended : meta[f] # NULL /\ IsBlocked(meta[f])

\* The short id that an upload was answered with points to that upload's file
\* until its deletion is asked for, unless another request had the id in hand or failed with it.
LinksResolve ==
    \A f \in Files : (answered[f] # NULL /\ answered[f] \notin contended) => links[answered[f]] = f

=============================================================================
