---------------------------- MODULE Gallery_proofs ----------------------------
(***************************************************************************)
(* Theorems about Gallery: what was blocked stays blocked, what an upload  *)
(* was answered with leads to its file, and albums stay a tree, for any    *)
(* numbers of handlers, files, short ids and albums and any depth.         *)
(*                                                                         *)
(* The first two rest on who has what in hand: a file or a short id that   *)
(* is not contended is in the hands of one handler at most, so that what   *)
(* the handler read about it is still so when it writes. The third rests   *)
(* on levels: albums are a tree exactly when each can be given a number    *)
(* greater than its parent's.                                              *)
(***************************************************************************)
EXTENDS Gallery, FiniteSetTheorems, WellFoundedInduction, TLAPS

-----------------------------------------------------------------------------
(* Types *)

Entry == [id : AlbumIds, album : Album]

Uploads == [pc : {"putMeta", "putLink"}, file : Files, hands : SUBSET (Files \cup Shorts),
            short : Shorts \cup {NULL}]
Views == [pc : {"create", "decide", "putSeen"}, file : Files, hands : SUBSET (Files \cup Shorts),
          seen : Metadata]
Updates == [pc : {"putUpdated"}, file : Files, hands : SUBSET (Files \cup Shorts),
            next : Metadata, was : {"None", "Block", "White"}]
Deletions == [pc : {"dropMeta", "dropLink"}, file : Files, hands : SUBSET (Files \cup Shorts),
              short : Shorts \cup {NULL}]
Puts == [pc : {"putAlbum"}, id : AlbumIds, album : Album]
Lifts == [pc : {"lift"}, id : AlbumIds, lifted : SUBSET Entry]

FileHandler == Uploads \cup Views \cup Updates \cup Deletions
Handler == {Idle} \cup FileHandler \cup Puts \cup Lifts

Typed ==
    /\ proc \in [Procs -> Handler]
    /\ requests \in Nat
    /\ faults \in Nat
    /\ overlapped \in BOOLEAN
    /\ lateEffect \in BOOLEAN
    /\ albums \in [AlbumIds -> Album \cup {NULL}]
    /\ meta \in [Files -> Metadata \cup {NULL}]
    /\ links \in [Shorts -> Files \cup {NULL}]
    /\ used \subseteq Files
    /\ answered \in [Files -> Shorts \cup {NULL}]
    /\ blocked \subseteq Files
    /\ contended \subseteq Files \cup Shorts

At(p, pcs) == proc[p] \in FileHandler /\ proc[p].pc \in pcs

\* What a handler has in hand; only a handler past its choice of a link is without one.
InHand ==
    \A p \in Procs : proc[p] \in FileHandler =>
        /\ proc[p].file \in used
        /\ proc[p].file \in proc[p].hands
        /\ At(p, {"putMeta", "putLink", "dropMeta", "dropLink"}) =>
                proc[p].short \in proc[p].hands \cup {NULL}
        /\ At(p, {"putLink", "dropLink"}) => proc[p].short # NULL

Disjoint ==
    \A p, q \in Procs : p # q /\ HandsOf(p) \cap HandsOf(q) # {} =>
        HandsOf(p) \cup HandsOf(q) \subseteq contended

\* What a handler will write about a file that is blocked and that nobody else has.
WillBlock(p) ==
    proc[p].file \in blocked /\ proc[p].file \notin contended =>
        \/ At(p, {"decide"}) /\ IsBlocked(proc[p].seen)
        \/ At(p, {"putUpdated"}) /\ IsBlocked(proc[p].next)

BlocksKept ==
    /\ BlockSticks
    /\ blocked \subseteq used
    /\ \A p \in Procs : proc[p] \in FileHandler => WillBlock(p)

\* The metadata that a handler has read or is to write.
Copy(p) == IF At(p, {"putUpdated"}) THEN proc[p].next
           ELSE IF At(p, {"create", "decide", "putSeen"}) THEN proc[p].seen
           ELSE NULL

\* The short id s is given as that of f, in the index or by a handler.
Names(f, s) ==
    \/ meta[f] # NULL /\ meta[f].short = s
    \/ \E p \in Procs : Copy(p) # NULL /\ proc[p].file = f /\ Copy(p).short = s

Linking(p, s) == At(p, {"putMeta", "putLink"}) /\ proc[p].short = s
Dropping(p, s) == At(p, {"dropMeta", "dropLink"}) /\ proc[p].short = s

LinkOK(s) ==
    /\ \A f \in Files : answered[f] = s => links[s] = f
    /\ \A p \in Procs : Linking(p, s) => links[s] = NULL
    /\ \A p \in Procs : Dropping(p, s) =>
        /\ links[s] = proc[p].file
        /\ answered[proc[p].file] # s
        /\ At(p, {"dropLink"}) => ~Names(proc[p].file, s)
    /\ \A f \in Files : Names(f, s) =>
        \/ links[s] = f
        \/ \E p \in Procs : At(p, {"putLink"}) /\ Linking(p, s) /\ proc[p].file = f

LinksKept == \A s \in Shorts \ contended : LinkOK(s)

Inv == Typed /\ InHand /\ Disjoint /\ BlocksKept /\ LinksKept

-----------------------------------------------------------------------------
(* Types *)

LEMMA TypeInit == Init => Typed
  <1> SUFFICES ASSUME Init PROVE Typed
    OBVIOUS
  <1>1. Idle \in Handler
    BY DEF Handler
  <1>2. proc \in [Procs -> Handler]
    BY <1>1 DEF Init, InitRequests
  <1>3. /\ requests \in Nat /\ faults \in Nat
        /\ overlapped \in BOOLEAN /\ lateEffect \in BOOLEAN
    BY DEF Init, InitRequests
  <1>4. /\ albums \in [AlbumIds -> Album \cup {NULL}]
        /\ meta \in [Files -> Metadata \cup {NULL}]
        /\ links \in [Shorts -> Files \cup {NULL}]
        /\ answered \in [Files -> Shorts \cup {NULL}]
    BY DEF Init, InitAlbums
  <1> QED BY <1>2, <1>3, <1>4 DEF Init, Typed

\* The pc of a handler says what it is.
LEMMA HandlerKinds ==
    ASSUME NEW h \in Handler
    PROVE  /\ h.pc \in {"putMeta", "putLink"} <=> h \in Uploads
           /\ h.pc \in {"create", "decide", "putSeen"} <=> h \in Views
           /\ h.pc = "putUpdated" <=> h \in Updates
           /\ h.pc \in {"dropMeta", "dropLink"} <=> h \in Deletions
           /\ h.pc = "putAlbum" <=> h \in Puts
           /\ h.pc = "lift" <=> h \in Lifts
           /\ h.pc = "idle" <=> h = Idle
  BY DEF Handler, FileHandler, Uploads, Views, Updates, Deletions, Puts, Lifts, Idle

LEMMA MetadataFields ==
    ASSUME NEW m \in Metadata
    PROVE  /\ m.list \in {"None", "Block", "White"}
           /\ m.label \in {"None", "adult"}
           /\ m.note \in BOOLEAN
           /\ m.album \in AlbumIds \cup {NULL}
           /\ m.short \in Shorts \cup {NULL}
           /\ m # NULL
  BY IdsAssumption DEF Metadata

\* What the changes of a file's metadata change.
LEMMA Edits ==
    ASSUME NEW m \in Metadata
    PROVE  /\ Fresh \in Metadata /\ Fresh.short = NULL /\ Fresh.label = "None" /\ Fresh.list = "None"
           /\ [Fresh EXCEPT !.short = m.short] \in Metadata
           /\ [Fresh EXCEPT !.short = m.short].short = m.short
           /\ \A l \in {"None", "adult"} : /\ Labelled(m, l) \in Metadata
                                           /\ Labelled(m, l).short = m.short
           /\ \A l \in {"Block", "White"} : /\ ListedAs(m, l) \in Metadata
                                            /\ ListedAs(m, l).short = m.short
                                            /\ ListedAs(m, l).list = l
           /\ Noted(m) \in Metadata /\ Noted(m).short = m.short
           /\ Noted(m).list = m.list /\ Noted(m).label = m.label
           /\ \A a \in AlbumIds \cup {NULL} : /\ Assigned(m, a) \in Metadata
                                              /\ Assigned(m, a).short = m.short
                                              /\ Assigned(m, a).list = m.list
                                              /\ Assigned(m, a).label = m.label
  BY DEF Fresh, Labelled, ListedAs, Noted, Assigned, Metadata

\* A request that begins, and what follows for the variables that all requests share.
LEMMA Begins ==
    ASSUME Typed, NEW p \in Procs, NEW h \in Handler, Begin(p, h)
    PROVE  /\ proc[p] = Idle
           /\ proc' = [proc EXCEPT ![p] = h]
           /\ proc' \in [Procs -> Handler]
           /\ requests' \in Nat /\ faults' \in Nat
           /\ overlapped' \in BOOLEAN /\ lateEffect' \in BOOLEAN
  BY DEF Begin, Typed

LEMMA HandsTyped ==
    ASSUME Typed, NEW p \in Procs
    PROVE  /\ proc[p] \in FileHandler => HandsOf(p) = proc[p].hands
           /\ proc[p] \notin FileHandler => HandsOf(p) = {}
           /\ HandsOf(p) \subseteq Files \cup Shorts
  <1>1. proc[p] \in Handler
    BY DEF Typed
  <1>2. CASE proc[p] = Idle
    BY <1>2 DEF HandsOf, Idle, FileHandler, Uploads, Views, Updates, Deletions
  <1>3. CASE proc[p] \in Puts \cup Lifts
    BY <1>3 DEF HandsOf, Puts, Lifts, FileHandler, Uploads, Views, Updates, Deletions
  <1>4. CASE proc[p] \in FileHandler
    BY <1>4 DEF HandsOf, FileHandler, Uploads, Views, Updates, Deletions
  <1> QED BY <1>1, <1>2, <1>3, <1>4 DEF Handler

\* A request for a file begins; what it shares with others becomes contended.
LEMMA AsksFor ==
    ASSUME Typed, NEW p \in Procs, NEW h \in FileHandler, Asks(p, h)
    PROVE  /\ proc[p] = Idle
           /\ proc' = [proc EXCEPT ![p] = h]
           /\ proc' \in [Procs -> Handler]
           /\ requests' \in Nat /\ faults' \in Nat
           /\ overlapped' \in BOOLEAN /\ lateEffect' \in BOOLEAN
           /\ contended \subseteq contended'
           /\ contended' \subseteq Files \cup Shorts
           /\ \A q \in Procs : h.hands \cap HandsOf(q) # {} =>
                    h.hands \cup HandsOf(q) \subseteq contended'
  <1>1. h \in Handler /\ h.hands \subseteq Files \cup Shorts
    BY DEF Handler, FileHandler, Uploads, Views, Updates, Deletions
  <1>2. Begin(p, h) /\ Contends(h.hands)
    BY DEF Asks
  <1>3. \A q \in Procs : HandsOf(q) \subseteq Files \cup Shorts
    BY HandsTyped
  <1>4. \A q \in Procs : HandsOf(q) # {} => q \in Busy
    BY DEF Busy, HandsOf, Idle
  <1>5. /\ contended \subseteq contended'
        /\ contended' \subseteq Files \cup Shorts
    BY <1>1, <1>2, <1>3 DEF Contends, Typed, Busy
  <1>6. \A q \in Procs : h.hands \cap HandsOf(q) # {} =>
            h.hands \cup HandsOf(q) \subseteq contended'
    BY <1>2, <1>4 DEF Contends
  <1> QED BY <1>1, <1>2, <1>5, <1>6, Begins


\* The type invariant without the handlers' records.
Bookkeeping ==
    /\ requests \in Nat /\ faults \in Nat
    /\ overlapped \in BOOLEAN /\ lateEffect \in BOOLEAN

LEMMA UploadType ==
    ASSUME Typed, NEW p \in Procs, Upload(p)
    PROVE  Typed'
  <1>1. PICK f \in Files \ used, s \in Shorts \cup {NULL} :
            /\ used' = used \cup {f}
            /\ Asks(p, [pc |-> "putMeta", file |-> f, hands |-> {f, s} \ {NULL}, short |-> s])
    BY DEF Upload, Taken
  <1>2. [pc |-> "putMeta", file |-> f, hands |-> {f, s} \ {NULL}, short |-> s] \in FileHandler
    BY <1>1 DEF FileHandler, Uploads
  <1> QED BY <1>1, <1>2, AsksFor DEF Upload, Typed

LEMMA ViewType ==
    ASSUME Typed, NEW p \in Procs, View(p)
    PROVE  Typed'
  <1> DEFINE h(f) == IF meta[f] = NULL
                     THEN [pc |-> "create", file |-> f, hands |-> {f}, seen |-> Fresh]
                     ELSE [pc |-> "decide", file |-> f, hands |-> {f}, seen |-> meta[f]]
  <1>1. PICK f \in used : Asks(p, h(f))
    BY DEF View
  <1>2. f \in Files /\ (meta[f] = NULL \/ meta[f] \in Metadata)
    BY DEF Typed
  <1>3. Fresh \in Metadata
    BY DEF Fresh, Metadata
  <1>4. h(f) \in FileHandler
    BY <1>2, <1>3 DEF FileHandler, Views
  <1> HIDE DEF h
  <1> QED BY <1>1, <1>4, AsksFor DEF View, Typed

LEMMA UpdateType ==
    ASSUME Typed, NEW p \in Procs, Update(p)
    PROVE  /\ Typed'
           /\ \E f \in used, m \in Metadata :
                /\ meta[f] \in Metadata
                /\ m.short = meta[f].short
                /\ m.list \in {meta[f].list, "Block", "White"}
                /\ m.list # "White" => (IsBlocked(meta[f]) => IsBlocked(m))
                /\ Asks(p, [pc |-> "putUpdated", file |-> f, hands |-> {f}, next |-> m,
                            was |-> meta[f].list])
                /\ blocked' = IF m.list = "White" THEN blocked \ {f} ELSE blocked
  <1>1. PICK f \in used :
            /\ meta[f] # NULL
            /\ \E m \in {ListedAs(meta[f], "Block"), ListedAs(meta[f], "White"), Noted(meta[f])}
                            \cup {Assigned(meta[f], a) : a \in Existing \cup {NULL}} :
                /\ Asks(p, [pc |-> "putUpdated", file |-> f, hands |-> {f}, next |-> m,
                            was |-> meta[f].list])
                /\ blocked' = IF m.list = "White" THEN blocked \ {f} ELSE blocked
    BY DEF Update
  <1>2. f \in Files /\ meta[f] \in Metadata
    BY <1>1 DEF Typed
  <1>3. PICK m :
            /\ \/ m = ListedAs(meta[f], "Block")
               \/ m = ListedAs(meta[f], "White")
               \/ m = Noted(meta[f])
               \/ \E a \in AlbumIds \cup {NULL} : m = Assigned(meta[f], a)
            /\ Asks(p, [pc |-> "putUpdated", file |-> f, hands |-> {f}, next |-> m,
                        was |-> meta[f].list])
            /\ blocked' = IF m.list = "White" THEN blocked \ {f} ELSE blocked
    BY <1>1 DEF Existing
  <1>4. /\ m \in Metadata
        /\ m.short = meta[f].short
        /\ m.list \in {meta[f].list, "Block", "White"}
        /\ m.list = "Block" \/ m.list = "White" \/ (m.list = meta[f].list /\ m.label = meta[f].label)
    <2>1. CASE m = ListedAs(meta[f], "Block")
      BY <1>2, <2>1, Edits
    <2>2. CASE m = ListedAs(meta[f], "White")
      BY <1>2, <2>2, Edits
    <2>3. CASE m = Noted(meta[f])
      BY <1>2, <2>3, Edits
    <2>4. CASE \E a \in AlbumIds \cup {NULL} : m = Assigned(meta[f], a)
      <3>1. PICK a \in AlbumIds \cup {NULL} : m = Assigned(meta[f], a)
        BY <2>4
      <3>2. /\ Assigned(meta[f], a) \in Metadata
            /\ Assigned(meta[f], a).short = meta[f].short
            /\ Assigned(meta[f], a).list = meta[f].list
            /\ Assigned(meta[f], a).label = meta[f].label
        BY <1>2, Edits
      <3> QED BY <3>1, <3>2
    <2> QED BY <1>3, <2>1, <2>2, <2>3, <2>4
  <1>5. m.list # "White" => (IsBlocked(meta[f]) => IsBlocked(m))
    BY <1>4 DEF IsBlocked
  <1> DEFINE h == [pc |-> "putUpdated", file |-> f, hands |-> {f}, next |-> m, was |-> meta[f].list]
  <1>6. h \in FileHandler
    BY <1>2, <1>4, MetadataFields DEF FileHandler, Updates
  <1>7. Asks(p, h)
    BY <1>3
  <1>8. blocked' \subseteq blocked
    BY <1>3
  <1> HIDE DEF h
  <1>9. Typed'
    BY <1>6, <1>7, <1>8, AsksFor DEF Update, Typed
  <1> QED BY <1>1, <1>2, <1>3, <1>4, <1>5, <1>9

\* A deletion: the file it is asked for and the short id its metadata names.
LEMMA Deletes ==
    ASSUME Typed, NEW p \in Procs, DeleteFile(p)
    PROVE  \E f \in used, s \in Shorts \cup {NULL} :
            /\ s = IF meta[f] = NULL THEN NULL ELSE meta[f].short
            /\ Asks(p, [pc |-> "dropMeta", file |-> f, hands |-> {f, s} \ {NULL}, short |-> s])
            /\ answered' = [answered EXCEPT ![f] = NULL]
            /\ blocked' = blocked \ {f}
  <1> DEFINE ShortOf(f) == IF meta[f] = NULL THEN NULL ELSE meta[f].short
             Deleted(f, s) ==
                /\ Asks(p, [pc |-> "dropMeta", file |-> f, hands |-> {f, s} \ {NULL}, short |-> s])
                /\ answered' = [answered EXCEPT ![f] = NULL]
                /\ blocked' = blocked \ {f}
  <1>1. \E f \in used : Deleted(f, ShortOf(f))
    BY DEF DeleteFile
  <1>2. PICK f \in used : Deleted(f, ShortOf(f))
    BY <1>1
  <1>3. meta[f] \in Metadata \cup {NULL}
    BY DEF Typed
  <1>4. ShortOf(f) \in Shorts \cup {NULL}
    BY <1>3, MetadataFields
  <1>5. PICK s \in Shorts \cup {NULL} : s = ShortOf(f)
    BY <1>4
  <1> HIDE DEF Deleted
  <1>6. Deleted(f, s)
    BY <1>2, <1>5
  <1> QED BY <1>5, <1>6 DEF Deleted

LEMMA DeleteFileType ==
    ASSUME Typed, NEW p \in Procs, DeleteFile(p)
    PROVE  Typed'
  <1>1. PICK f \in used, s \in Shorts \cup {NULL} :
            /\ s = IF meta[f] = NULL THEN NULL ELSE meta[f].short
            /\ Asks(p, [pc |-> "dropMeta", file |-> f, hands |-> {f, s} \ {NULL}, short |-> s])
            /\ answered' = [answered EXCEPT ![f] = NULL]
            /\ blocked' = blocked \ {f}
    BY Deletes
  <1>2. f \in Files /\ s \in Shorts \cup {NULL}
    BY <1>1, MetadataFields DEF Typed
  <1> DEFINE h == [pc |-> "dropMeta", file |-> f, hands |-> {f, s} \ {NULL}, short |-> s]
  <1>3. h \in FileHandler
    BY <1>2 DEF FileHandler, Deletions
  <1>4. Asks(p, h)
    BY <1>1
  <1> HIDE DEF h
  <1> QED BY <1>1, <1>2, <1>3, <1>4, AsksFor DEF DeleteFile, Typed

LEMMA AlbumStarts ==
    ASSUME Typed, NEW p \in Procs, AlbumStart(p)
    PROVE  /\ proc[p] = Idle
           /\ \E h \in Puts \cup Lifts : Begin(p, h) /\ proc' = [proc EXCEPT ![p] = h]
           /\ UNCHANGED albums
  <1>1. PICK h \in Puts \cup Lifts : Begin(p, h) /\ UNCHANGED albums
    <2>1. CASE CreateAlbum(p)
      BY <2>1 DEF CreateAlbum, PutsAlbum, Puts, Album
    <2>2. CASE PatchAlbum(p)
      BY <2>2 DEF PatchAlbum, PutsAlbum, Puts, Album, Existing
    <2>3. CASE DeleteAlbum(p)
      <3>1. PICK a \in Existing :
                Begin(p, [pc |-> "lift", id |-> a,
                  lifted |-> {[id |-> c, album |-> [albums[c] EXCEPT !.parent = albums[a].parent]]
                                : c \in Lifted(a)}])
        BY <2>3 DEF DeleteAlbum
      <3>2. a \in AlbumIds /\ albums[a] \in Album
        BY DEF Typed, Existing
      <3>3. \A c \in Lifted(a) : c \in AlbumIds /\ albums[c] \in Album
        BY DEF Typed, Existing, Lifted, ChildrenOf
      <3>4. \A c \in Lifted(a) : [albums[c] EXCEPT !.parent = albums[a].parent] \in Album
        BY <3>2, <3>3 DEF Album
      <3>5. {[id |-> c, album |-> [albums[c] EXCEPT !.parent = albums[a].parent]]
                                : c \in Lifted(a)} \in SUBSET Entry
        BY <3>3, <3>4 DEF Entry
      <3> QED BY <3>1, <3>2, <3>5, <2>3 DEF Lifts, DeleteAlbum
    <2> QED BY <2>1, <2>2, <2>3 DEF AlbumStart
  <1> QED BY <1>1 DEF Begin

LEMMA AlbumStartType ==
    ASSUME Typed, NEW p \in Procs, AlbumStart(p), UNCHANGED galleryVars
    PROVE  Typed'
  <1>1. PICK h \in Puts \cup Lifts : Begin(p, h) /\ UNCHANGED albums
    BY AlbumStarts
  <1>2. h \in Handler
    BY DEF Handler
  <1> QED BY <1>1, <1>2, Begins DEF Typed, galleryVars


\* What a call to the index does to what all requests share.
Called ==
    /\ UNCHANGED <<requests, overlapped>>
    /\ \/ UNCHANGED <<faults, lateEffect>>
       \/ Fails /\ UNCHANGED lateEffect
       \/ Fails /\ lateEffect' = TRUE

LEMMA Counted ==
    ASSUME Typed, Called
    PROVE  Bookkeeping'
  <1>1. requests' \in Nat /\ faults' \in Nat
    BY DEF Typed, Called, Fails
  <1>2. overlapped' \in BOOLEAN /\ lateEffect' \in BOOLEAN
    BY DEF Typed, Called
  <1> QED BY <1>1, <1>2 DEF Bookkeeping

\* A handler that takes a step about a file is one for a file.
LEMMA FileStepHandler ==
    ASSUME Typed, NEW p \in Procs, FileStep(p)
    PROVE  proc[p] \in FileHandler
  <1>1. proc[p] \in Handler
    BY DEF Typed
  <1>2. proc[p].pc \in {"putMeta", "putLink", "create", "decide", "putSeen", "putUpdated",
                        "dropMeta", "dropLink"}
    BY DEF FileStep, PutMeta, PutLink, CreateMeta, Decide, PutSeen, PutUpdated, DropMeta, DropLink
  <1> QED BY <1>1, <1>2, HandlerKinds DEF FileHandler

LEMMA FileStepType ==
    ASSUME Typed, NEW p \in Procs, FileStep(p) \/ GalleryEvict(p)
    PROVE  Typed'
  <1> DEFINE e == proc[p]
  <1>0. e \in Handler /\ Idle \in Handler
    BY DEF Typed, Handler
  <1> HIDE DEF e
  <1>1. CASE PutMeta(p)
    <2>1. e \in Uploads /\ proc[p] = e
      BY <1>0, <1>1, HandlerKinds DEF PutMeta, e
    <2>2. e.file \in Files /\ e.short \in Shorts \cup {NULL}
      BY <2>1 DEF Uploads
    <2>3. [Fresh EXCEPT !.short = e.short] \in Metadata
      BY <2>2 DEF Fresh, Metadata
    <2>4. [e EXCEPT !.pc = "putLink"] \in Handler
      BY <2>1 DEF Uploads, FileHandler, Handler
    <2>5. proc' \in [Procs -> Handler]
      BY <1>0, <1>1, <2>1, <2>4 DEF PutMeta, Write, GoTo, Finish, FailUpload, Typed
    <2>6. Bookkeeping'
      BY <1>1, Counted DEF PutMeta, Write, Called
    <2>7. /\ meta' \in [Files -> Metadata \cup {NULL}]
          /\ contended' \subseteq Files \cup Shorts
      BY <1>1, <2>1, <2>2, <2>3 DEF PutMeta, Write, FailUpload, Typed
    <2> QED BY <1>1, <2>5, <2>6, <2>7 DEF PutMeta, Typed, Bookkeeping
  <1>2. CASE PutLink(p)
    <2>1. e \in Uploads /\ proc[p] = e
      BY <1>0, <1>2, HandlerKinds DEF PutLink, e
    <2>2. e.file \in Files /\ e.short \in Shorts \cup {NULL}
      BY <2>1 DEF Uploads
    <2>5. proc' \in [Procs -> Handler]
      BY <1>0, <1>2 DEF PutLink, Write, GoTo, Finish, FailUpload, Typed
    <2>6. Bookkeeping'
      BY <1>2, Counted DEF PutLink, Write, Called
    <2>7. /\ links' \in [Shorts -> Files \cup {NULL}]
          /\ contended' \subseteq Files \cup Shorts
          /\ answered' \in [Files -> Shorts \cup {NULL}]
      BY <1>2, <2>1, <2>2 DEF PutLink, Write, FailUpload, Typed
    <2> QED BY <1>2, <2>5, <2>6, <2>7 DEF PutLink, Typed, Bookkeeping
  <1>3. CASE CreateMeta(p)
    <2>1. e \in Views /\ proc[p] = e
      BY <1>0, <1>3, HandlerKinds DEF CreateMeta, e
    <2>2. e.file \in Files /\ e.seen \in Metadata
      BY <2>1 DEF Views
    <2>4. [e EXCEPT !.pc = "decide"] \in Handler
      BY <2>1 DEF Views, FileHandler, Handler
    <2>5. proc' \in [Procs -> Handler]
      BY <1>0, <1>3, <2>1, <2>4 DEF CreateMeta, WritesMeta, Write, GoTo, Finish, Typed
    <2>6. Bookkeeping'
      BY <1>3, Counted DEF CreateMeta, WritesMeta, Write, Called
    <2>7. meta' \in [Files -> Metadata \cup {NULL}]
      BY <1>3, <2>1, <2>2 DEF CreateMeta, WritesMeta, Write, Typed
    <2> QED BY <1>3, <2>5, <2>6, <2>7 DEF CreateMeta, Typed, Bookkeeping
  <1>4. CASE Decide(p)
    <2>1. e \in Views /\ proc[p] = e
      BY <1>0, <1>4, HandlerKinds DEF Decide, e
    <2>2. e.file \in Files /\ e.seen \in Metadata /\ e.hands \subseteq Files \cup Shorts
      BY <2>1 DEF Views
    <2>3. \A l \in Labels(e.seen) : l \in {"None", "adult"}
      BY <2>2, MetadataFields DEF Labels
    <2>4. \A l \in Labels(e.seen) : [pc |-> "putSeen", file |-> e.file, hands |-> e.hands,
                                    seen |-> Labelled(e.seen, l)] \in Handler
      BY <2>2, <2>3, Edits DEF Views, FileHandler, Handler
    <2>5. \/ Finish(p)
          \/ \E l \in Labels(e.seen) :
                proc' = [proc EXCEPT ![p] = [pc |-> "putSeen", file |-> e.file, hands |-> e.hands,
                                             seen |-> Labelled(e.seen, l)]]
      BY <1>4, <2>1 DEF Decide
    <2>6. proc' \in [Procs -> Handler]
      BY <1>0, <2>4, <2>5 DEF Finish, Typed
    <2> QED BY <1>4, <2>6 DEF Decide, Typed, galleryVars
  <1>5. CASE PutSeen(p)
    <2>1. e \in Views /\ proc[p] = e
      BY <1>0, <1>5, HandlerKinds DEF PutSeen, e
    <2>2. e.file \in Files /\ e.seen \in Metadata
      BY <2>1 DEF Views
    <2>5. proc' \in [Procs -> Handler]
      BY <1>0, <1>5 DEF PutSeen, WritesMeta, Write, Finish, Typed
    <2>6. Bookkeeping'
      BY <1>5, Counted DEF PutSeen, WritesMeta, Write, Called
    <2>7. meta' \in [Files -> Metadata \cup {NULL}]
      BY <1>5, <2>1, <2>2 DEF PutSeen, WritesMeta, Write, Typed
    <2> QED BY <1>5, <2>5, <2>6, <2>7 DEF PutSeen, Typed, Bookkeeping
  <1>6. CASE PutUpdated(p)
    <2>1. e \in Updates /\ proc[p] = e
      BY <1>0, <1>6, HandlerKinds DEF PutUpdated, e
    <2>2. e.file \in Files /\ e.next \in Metadata
      BY <2>1 DEF Updates
    <2>5. proc' \in [Procs -> Handler]
      BY <1>0, <1>6 DEF PutUpdated, Write, Finish, Typed
    <2>6. Bookkeeping'
      BY <1>6, Counted DEF PutUpdated, Write, Called
    <2>7. meta' \in [Files -> Metadata \cup {NULL}]
      BY <1>6, <2>1, <2>2 DEF PutUpdated, Write, Typed
    <2>8. blocked' \subseteq Files
      BY <1>6, <2>1, <2>2 DEF PutUpdated, Write, Typed
    <2> QED BY <1>6, <2>5, <2>6, <2>7, <2>8 DEF PutUpdated, Typed, Bookkeeping
  <1>7. CASE DropMeta(p)
    <2>1. e \in Deletions /\ proc[p] = e
      BY <1>0, <1>7, HandlerKinds DEF DropMeta, e
    <2>2. e.file \in Files /\ e.short \in Shorts \cup {NULL}
      BY <2>1 DEF Deletions
    <2>4. [e EXCEPT !.pc = "dropLink"] \in Handler
      BY <2>1 DEF Deletions, FileHandler, Handler
    <2>5. proc' \in [Procs -> Handler]
      BY <1>0, <1>7, <2>1, <2>4 DEF DropMeta, WritesMeta, Write, GoTo, Finish, Typed
    <2>6. Bookkeeping'
      BY <1>7, Counted DEF DropMeta, WritesMeta, Write, Called
    <2>7. meta' \in [Files -> Metadata \cup {NULL}]
      BY <1>7, <2>1, <2>2 DEF DropMeta, WritesMeta, Write, Typed
    <2> QED BY <1>7, <2>5, <2>6, <2>7 DEF DropMeta, Typed, Bookkeeping
  <1>8. CASE DropLink(p)
    <2>1. e \in Deletions /\ proc[p] = e
      BY <1>0, <1>8, HandlerKinds DEF DropLink, e
    <2>5. proc' \in [Procs -> Handler]
      BY <1>0, <1>8 DEF DropLink, Write, Finish, Typed
    <2>6. Bookkeeping'
      BY <1>8, Counted DEF DropLink, Write, Called
    <2>7. links' \in [Shorts -> Files \cup {NULL}]
      BY <1>8 DEF DropLink, Write, Typed
    <2> QED BY <1>8, <2>5, <2>6, <2>7 DEF DropLink, Typed, Bookkeeping
  <1>9. CASE GalleryEvict(p)
    <2>5. proc' \in [Procs -> Handler]
      BY <1>0, <1>9 DEF GalleryEvict, Evict, Finish, Typed
    <2>6. Bookkeeping'
      BY <1>9 DEF GalleryEvict, Evict, Fails, Typed, Bookkeeping
    <2>7. contended' \subseteq Files \cup Shorts
      BY <1>9 DEF GalleryEvict, FailUpload, Typed
    <2> QED BY <1>9, <2>5, <2>6, <2>7 DEF GalleryEvict, Typed, Bookkeeping
  <1> QED BY <1>1, <1>2, <1>3, <1>4, <1>5, <1>6, <1>7, <1>8, <1>9 DEF FileStep

LEMMA AlbumStepType ==
    ASSUME Typed, NEW p \in Procs, AlbumStep(p), UNCHANGED galleryVars
    PROVE  /\ Typed'
           /\ \E h \in {Idle} \cup Lifts : proc' = [proc EXCEPT ![p] = h]
           /\ proc[p] \in Puts \cup Lifts
  <1> DEFINE e == proc[p]
  <1>0. e \in Handler /\ Idle \in Handler
    BY DEF Typed, Handler
  <1> HIDE DEF e
  <1>1. CASE PutAlbum(p)
    <2>1. e \in Puts /\ proc[p] = e
      BY <1>0, <1>1, HandlerKinds DEF PutAlbum, e
    <2>2. e.id \in AlbumIds /\ e.album \in Album
      BY <2>1 DEF Puts
    <2>3. Bookkeeping'
      BY <1>1, Counted DEF PutAlbum, WritesAlbum, Write, Called
    <2>4. proc' = [proc EXCEPT ![p] = Idle]
      BY <1>1 DEF PutAlbum, WritesAlbum, Write, Finish
    <2>5. albums' \in [AlbumIds -> Album \cup {NULL}]
      BY <1>1, <2>1, <2>2 DEF PutAlbum, WritesAlbum, Write, Typed
    <2>6. proc' \in [Procs -> Handler]
      BY <1>0, <2>4 DEF Typed
    <2> QED BY <2>1, <2>3, <2>4, <2>5, <2>6 DEF Typed, Bookkeeping, galleryVars
  <1>2. CASE LiftChild(p)
    <2>1. e \in Lifts /\ proc[p] = e
      BY <1>0, <1>2, HandlerKinds DEF LiftChild, e
    <2>2. PICK c \in e.lifted :
            WritesAlbum(p, c.id, c.album, proc' = [proc EXCEPT ![p].lifted = @ \ {c}])
      BY <1>2, <2>1 DEF LiftChild
    <2>3. c.id \in AlbumIds /\ c.album \in Album
      BY <2>1 DEF Lifts, Entry
    <2>4. Bookkeeping'
      BY <2>2, Counted DEF WritesAlbum, Write, Called
    <2>5. albums' \in [AlbumIds -> Album \cup {NULL}]
      BY <2>2, <2>3 DEF WritesAlbum, Write, Typed
    <2>6. [e EXCEPT !.lifted = e.lifted \ {c}] \in Lifts
      BY <2>1 DEF Lifts
    <2>7. PICK h \in {Idle} \cup Lifts : proc' = [proc EXCEPT ![p] = h]
      BY <2>1, <2>2, <2>6 DEF WritesAlbum, Write, Finish, Typed
    <2>8. proc' \in [Procs -> Handler]
      BY <1>0, <2>7 DEF Typed, Handler
    <2> QED BY <2>1, <2>4, <2>5, <2>7, <2>8 DEF Typed, Bookkeeping, galleryVars
  <1>3. CASE DropAlbum(p)
    <2>1. e \in Lifts /\ proc[p] = e
      BY <1>0, <1>3, HandlerKinds DEF DropAlbum, e
    <2>2. e.id \in AlbumIds
      BY <2>1 DEF Lifts
    <2>3. Bookkeeping'
      BY <1>3, Counted DEF DropAlbum, WritesAlbum, Write, Called
    <2>4. proc' = [proc EXCEPT ![p] = Idle]
      BY <1>3 DEF DropAlbum, WritesAlbum, Write, Finish
    <2>5. albums' \in [AlbumIds -> Album \cup {NULL}]
      BY <1>3, <2>1, <2>2 DEF DropAlbum, WritesAlbum, Write, Typed
    <2>6. proc' \in [Procs -> Handler]
      BY <1>0, <2>4 DEF Typed
    <2> QED BY <2>1, <2>3, <2>4, <2>5, <2>6 DEF Typed, Bookkeeping, galleryVars
  <1> QED BY <1>1, <1>2, <1>3 DEF AlbumStep

LEMMA TypeStep == Typed /\ [Next]_vars => Typed'
  <1> SUFFICES ASSUME Typed, [Next]_vars PROVE Typed'
    OBVIOUS
  <1>1. CASE UNCHANGED vars
    BY <1>1 DEF vars, requestVars, galleryVars, Typed
  <1>2. CASE Next
    BY <1>2, UploadType, ViewType, UpdateType, DeleteFileType, FileStepType, AlbumStartType,
       AlbumStepType DEF Next, FileStart
  <1> QED BY <1>1, <1>2

\* Every variable keeps its type, and a handler has the locals its program counter needs.
THEOREM TypeCorrectness == Spec => []Typed
  BY TypeInit, TypeStep, PTL DEF Spec


-----------------------------------------------------------------------------
(* Who has what in hand *)

\* The handler e goes on as h.
GoesOn(e, h) ==
    /\ e \in FileHandler /\ h \in FileHandler
    /\ h.file = e.file /\ h.hands = e.hands
    /\ \/ /\ e.pc = "putMeta" /\ h.pc = "putLink"
          /\ h.short = e.short /\ e.short # NULL
       \/ /\ e.pc = "create" /\ h.pc = "decide"
          /\ h.seen = e.seen
       \/ /\ e.pc = "decide" /\ h.pc = "putSeen"
          /\ ~IsBlocked(e.seen)
          /\ h.seen.short = e.seen.short
       \/ /\ e.pc = "dropMeta" /\ h.pc = "dropLink"
          /\ h.short = e.short /\ e.short # NULL

Moves(p, h) ==
    /\ proc' = [proc EXCEPT ![p] = h]
    /\ proc'[p] = h
    /\ \A q \in Procs : q # p => proc'[q] = proc[q]
    /\ h = Idle \/ GoesOn(proc[p], h)

LEMMA FileMoves ==
    ASSUME Typed, NEW p \in Procs, FileStep(p) \/ GalleryEvict(p)
    PROVE  /\ \E h \in {Idle} \cup FileHandler : Moves(p, h)
           /\ UNCHANGED used
           /\ contended \subseteq contended'
  <1> DEFINE e == proc[p]
  <1>0. e \in Handler /\ proc \in [Procs -> Handler]
    BY DEF Typed, Handler
  <1> HIDE DEF e
  <1>a. ASSUME proc' = [proc EXCEPT ![p] = Idle]
        PROVE  \E h \in {Idle} \cup FileHandler : Moves(p, h)
    BY <1>0, <1>a DEF Moves
  <1>b. ASSUME NEW h \in FileHandler, proc' = [proc EXCEPT ![p] = h], GoesOn(e, h)
        PROVE  Moves(p, h)
    BY <1>0, <1>b DEF Moves, e
  <1>1. CASE PutMeta(p)
    <2>1. e \in Uploads /\ proc[p] = e /\ e.pc = "putMeta"
      BY <1>0, <1>1, HandlerKinds DEF PutMeta, e
    <2> DEFINE h == [e EXCEPT !.pc = "putLink"]
    <2>2. h \in FileHandler /\ e \in FileHandler
      BY <2>1 DEF Uploads, FileHandler
    <2>3. h.pc = "putLink" /\ h.file = e.file /\ h.hands = e.hands /\ h.short = e.short
      BY <2>1 DEF Uploads
    <2>4. \/ proc' = [proc EXCEPT ![p] = Idle]
          \/ proc' = [proc EXCEPT ![p] = h] /\ e.short # NULL
      BY <1>1, <2>1 DEF PutMeta, Write, GoTo, Finish, FailUpload
    <2> HIDE DEF h
    <2>5. \E g \in {Idle} \cup FileHandler : Moves(p, g)
      BY <1>a, <1>b, <2>1, <2>2, <2>3, <2>4 DEF GoesOn
    <2> QED BY <1>1, <2>5 DEF PutMeta, Write, FailUpload
  <1>2. CASE PutLink(p)
    <2>1. proc' = [proc EXCEPT ![p] = Idle]
      BY <1>2 DEF PutLink, Write, Finish, FailUpload
    <2> QED BY <1>2, <1>a, <2>1 DEF PutLink, Write, FailUpload
  <1>3. CASE CreateMeta(p)
    <2>1. e \in Views /\ proc[p] = e /\ e.pc = "create"
      BY <1>0, <1>3, HandlerKinds DEF CreateMeta, e
    <2> DEFINE h == [e EXCEPT !.pc = "decide"]
    <2>2. h \in FileHandler /\ e \in FileHandler
      BY <2>1 DEF Views, FileHandler
    <2>3. h.pc = "decide" /\ h.file = e.file /\ h.hands = e.hands /\ h.seen = e.seen
      BY <2>1 DEF Views
    <2>4. \/ proc' = [proc EXCEPT ![p] = Idle]
          \/ proc' = [proc EXCEPT ![p] = h]
      BY <1>3, <2>1 DEF CreateMeta, WritesMeta, Write, GoTo, Finish
    <2> HIDE DEF h
    <2>5. \E g \in {Idle} \cup FileHandler : Moves(p, g)
      BY <1>a, <1>b, <2>1, <2>2, <2>3, <2>4 DEF GoesOn
    <2> QED BY <1>3, <2>5 DEF CreateMeta
  <1>4. CASE Decide(p)
    <2>1. e \in Views /\ proc[p] = e /\ e.pc = "decide"
      BY <1>0, <1>4, HandlerKinds DEF Decide, e
    <2>2. /\ e.file \in Files /\ e.seen \in Metadata /\ e.hands \subseteq Files \cup Shorts
          /\ e \in FileHandler
      BY <2>1 DEF Views, FileHandler
    <2>3. \A l \in Labels(e.seen) : l \in {"None", "adult"}
      BY <2>2, MetadataFields DEF Labels
    <2> DEFINE h(l) == [pc |-> "putSeen", file |-> e.file, hands |-> e.hands,
                        seen |-> Labelled(e.seen, l)]
    <2>4. \A l \in Labels(e.seen) : h(l) \in FileHandler
      BY <2>2, <2>3, Edits DEF Views, FileHandler
    <2>5. \A l \in Labels(e.seen) : /\ h(l).pc = "putSeen" /\ h(l).file = e.file
                                    /\ h(l).hands = e.hands /\ h(l).seen = Labelled(e.seen, l)
      OBVIOUS
    <2>6. \A l \in Labels(e.seen) : Labelled(e.seen, l).short = e.seen.short
      <3>1. \A l \in {"None", "adult"} : Labelled(e.seen, l).short = e.seen.short
        BY <2>2, Edits
      <3> QED BY <2>3, <3>1
    <2>7. \/ proc' = [proc EXCEPT ![p] = Idle]
          \/ \E l \in Labels(e.seen) : proc' = [proc EXCEPT ![p] = h(l)] /\ ~IsBlocked(e.seen)
      BY <1>4, <2>1 DEF Decide, Finish
    <2> HIDE DEF h
    <2>8. ASSUME NEW l \in Labels(e.seen), proc' = [proc EXCEPT ![p] = h(l)], ~IsBlocked(e.seen)
          PROVE  \E g \in {Idle} \cup FileHandler : Moves(p, g)
      <3>1. GoesOn(e, h(l)) /\ h(l) \in FileHandler
        BY <2>1, <2>2, <2>4, <2>5, <2>6, <2>8 DEF GoesOn
      <3> QED BY <1>b, <2>8, <3>1
    <2> QED BY <1>4, <1>a, <2>7, <2>8 DEF Decide, galleryVars
  <1>5. CASE PutSeen(p)
    <2>1. proc' = [proc EXCEPT ![p] = Idle]
      BY <1>5 DEF PutSeen, WritesMeta, Write, Finish
    <2> QED BY <1>5, <1>a, <2>1 DEF PutSeen
  <1>6. CASE PutUpdated(p)
    <2>1. proc' = [proc EXCEPT ![p] = Idle]
      BY <1>6 DEF PutUpdated, Write, Finish
    <2> QED BY <1>6, <1>a, <2>1 DEF PutUpdated
  <1>7. CASE DropMeta(p)
    <2>1. e \in Deletions /\ proc[p] = e /\ e.pc = "dropMeta"
      BY <1>0, <1>7, HandlerKinds DEF DropMeta, e
    <2> DEFINE h == [e EXCEPT !.pc = "dropLink"]
    <2>2. h \in FileHandler /\ e \in FileHandler
      BY <2>1 DEF Deletions, FileHandler
    <2>3. h.pc = "dropLink" /\ h.file = e.file /\ h.hands = e.hands /\ h.short = e.short
      BY <2>1 DEF Deletions
    <2>4. \/ proc' = [proc EXCEPT ![p] = Idle]
          \/ proc' = [proc EXCEPT ![p] = h] /\ e.short # NULL
      BY <1>7, <2>1 DEF DropMeta, WritesMeta, Write, GoTo, Finish
    <2> HIDE DEF h
    <2>5. \E g \in {Idle} \cup FileHandler : Moves(p, g)
      BY <1>a, <1>b, <2>1, <2>2, <2>3, <2>4 DEF GoesOn
    <2> QED BY <1>7, <2>5 DEF DropMeta
  <1>8. CASE DropLink(p)
    <2>1. proc' = [proc EXCEPT ![p] = Idle]
      BY <1>8 DEF DropLink, Write, Finish
    <2> QED BY <1>8, <1>a, <2>1 DEF DropLink
  <1>9. CASE GalleryEvict(p)
    <2>1. proc' = [proc EXCEPT ![p] = Idle]
      BY <1>9 DEF GalleryEvict, Evict, Finish
    <2> QED BY <1>9, <1>a, <2>1 DEF GalleryEvict, FailUpload
  <1> QED BY <1>1, <1>2, <1>3, <1>4, <1>5, <1>6, <1>7, <1>8, <1>9 DEF FileStep

Hands == Typed /\ InHand /\ Disjoint

\* Requests for a file begin with what they name in hand.
Takes(h) ==
    /\ h \in FileHandler
    /\ h.file \in h.hands
    /\ h.pc \in {"putMeta", "dropMeta"} => h.short \in h.hands \cup {NULL}
    /\ h.pc \notin {"putLink", "dropLink"}

LEMMA IdleIsNone == Idle \notin FileHandler
  BY DEF Idle, FileHandler, Uploads, Views, Updates, Deletions

LEMMA HandsAsk ==
    ASSUME Hands, Typed', NEW p \in Procs, NEW h, Takes(h), Asks(p, h),
           used \subseteq used', h.file \in used'
    PROVE  Hands'
  <1>1. /\ proc[p] = Idle
        /\ proc' = [proc EXCEPT ![p] = h]
        /\ contended \subseteq contended'
        /\ \A q \in Procs : h.hands \cap HandsOf(q) # {} =>
                    h.hands \cup HandsOf(q) \subseteq contended'
    BY AsksFor DEF Hands, Takes
  <1>2. \A q \in Procs : proc'[q] = IF q = p THEN h ELSE proc[q]
    BY <1>1 DEF Hands, Typed
  <1>3. InHand'
    BY <1>2 DEF InHand, At, Takes, Hands
  <1>4. /\ HandsOf(p)' = h.hands
        /\ \A q \in Procs \ {p} : HandsOf(q)' = HandsOf(q)
    <2>1. proc'[p] \in FileHandler => HandsOf(p)' = proc'[p].hands
      BY HandsTyped DEF HandsOf, FileHandler, Uploads, Views, Updates, Deletions
    <2> QED BY <1>2, <2>1 DEF HandsOf, Takes
  <1>5. Disjoint'
    BY <1>1, <1>4 DEF Disjoint, Hands
  <1> QED BY <1>3, <1>5 DEF Hands

LEMMA HandsStep ==
    ASSUME Hands, [Next]_vars
    PROVE  Hands'
  <1>0. Typed'
    BY TypeStep DEF Hands
  <1>1. ASSUME NEW p \in Procs, Upload(p) PROVE Hands'
    <2>1. PICK f \in Files \ used, s \in Shorts \cup {NULL} :
            /\ used' = used \cup {f}
            /\ Asks(p, [pc |-> "putMeta", file |-> f, hands |-> {f, s} \ {NULL}, short |-> s])
      BY <1>1 DEF Upload, Taken
    <2>2. Takes([pc |-> "putMeta", file |-> f, hands |-> {f, s} \ {NULL}, short |-> s])
      BY IdsAssumption DEF Takes, FileHandler, Uploads
    <2> QED BY <1>0, <2>1, <2>2, HandsAsk
  <1>2. ASSUME NEW p \in Procs, View(p) PROVE Hands'
    <2> DEFINE h(f) == IF meta[f] = NULL
                       THEN [pc |-> "create", file |-> f, hands |-> {f}, seen |-> Fresh]
                       ELSE [pc |-> "decide", file |-> f, hands |-> {f}, seen |-> meta[f]]
    <2>1. PICK f \in used : Asks(p, h(f))
      BY <1>2 DEF View
    <2>2. f \in Files /\ (meta[f] = NULL \/ meta[f] \in Metadata)
      BY DEF Hands, Typed
    <2>3. Fresh \in Metadata
      BY DEF Fresh, Metadata
    <2>4. Takes(h(f)) /\ h(f).file = f
      BY <2>2, <2>3 DEF FileHandler, Views, Takes
    <2> HIDE DEF h
    <2> QED BY <1>0, <1>2, <2>1, <2>4, HandsAsk DEF View
  <1>3. ASSUME NEW p \in Procs, Update(p) PROVE Hands'
    <2>1. PICK f \in used, m \in Metadata :
            /\ meta[f] \in Metadata
            /\ Asks(p, [pc |-> "putUpdated", file |-> f, hands |-> {f}, next |-> m,
                        was |-> meta[f].list])
      BY <1>3, UpdateType DEF Hands
    <2>2. f \in Files /\ meta[f].list \in {"None", "Block", "White"}
      BY <2>1, MetadataFields DEF Hands, Typed
    <2>3. Takes([pc |-> "putUpdated", file |-> f, hands |-> {f}, next |-> m, was |-> meta[f].list])
      BY <2>2 DEF Takes, FileHandler, Updates
    <2> QED BY <1>0, <1>3, <2>1, <2>3, HandsAsk DEF Update
  <1>4. ASSUME NEW p \in Procs, DeleteFile(p) PROVE Hands'
    <2>1. PICK f \in used, s \in Shorts \cup {NULL} :
            /\ s = IF meta[f] = NULL THEN NULL ELSE meta[f].short
            /\ Asks(p, [pc |-> "dropMeta", file |-> f, hands |-> {f, s} \ {NULL}, short |-> s])
      BY <1>4, Deletes DEF Hands
    <2>2. f \in Files /\ s \in Shorts \cup {NULL}
      BY <2>1, MetadataFields DEF Typed, Hands
    <2>3. Takes([pc |-> "dropMeta", file |-> f, hands |-> {f, s} \ {NULL}, short |-> s])
      BY <2>2, IdsAssumption DEF Takes, FileHandler, Deletions
    <2> QED BY <1>0, <1>4, <2>1, <2>3, HandsAsk DEF DeleteFile
  <1>5. ASSUME NEW p \in Procs, FileStep(p) \/ GalleryEvict(p) PROVE Hands'
    <2>1. PICK h \in {Idle} \cup FileHandler : Moves(p, h)
      BY <1>5, FileMoves DEF Hands
    <2>2. UNCHANGED used /\ contended \subseteq contended'
      BY <1>5, FileMoves DEF Hands
    <2>3. \A q \in Procs \ {p} : proc'[q] = proc[q] /\ HandsOf(q)' = HandsOf(q)
      BY <2>1 DEF Moves, HandsOf
    <2>4. proc'[p] = h
      BY <2>1 DEF Moves
    <2>5. HandsOf(p)' \subseteq HandsOf(p)
      <3>1. CASE h = Idle
        BY <2>4, <3>1 DEF HandsOf, Idle
      <3>2. CASE GoesOn(proc[p], h)
        <4>1. HandsOf(p) = proc[p].hands
          BY <3>2, HandsTyped DEF GoesOn, Hands
        <4>2. HandsOf(p)' = h.hands
          BY <2>4, <3>2 DEF GoesOn, HandsOf, FileHandler, Uploads, Views, Updates, Deletions
        <4> QED BY <4>1, <4>2, <3>2 DEF GoesOn
      <3> QED BY <2>1, <3>1, <3>2 DEF Moves
    <2>6. Disjoint'
      BY <2>2, <2>3, <2>5 DEF Disjoint, Hands
    <2>7. InHand'
      BY <2>1, <2>2, <2>3, <2>4, IdleIsNone DEF InHand, At, Hands, Moves, GoesOn
    <2> QED BY <1>0, <2>6, <2>7 DEF Hands
  <1>6. ASSUME NEW p \in Procs, AlbumStart(p) \/ AlbumStep(p), UNCHANGED galleryVars
        PROVE  Hands'
    <2>1. PICK h \in {Idle} \cup Puts \cup Lifts : proc' = [proc EXCEPT ![p] = h]
      BY <1>6, AlbumStepType, AlbumStarts DEF Hands
    <2>2. \A q \in Procs : proc'[q] = IF q = p THEN h ELSE proc[q]
      BY <2>1 DEF Hands, Typed
    <2>3. HandsOf(p)' = {}
      BY <2>2 DEF HandsOf, Idle, Puts, Lifts
    <2>4. \A q \in Procs \ {p} : HandsOf(q)' = HandsOf(q)
      BY <2>2 DEF HandsOf
    <2>5. h \notin FileHandler
      BY DEF Idle, FileHandler, Uploads, Views, Updates, Deletions, Puts, Lifts
    <2>6. Disjoint'
      BY <1>6, <2>3, <2>4 DEF Disjoint, Hands, galleryVars
    <2>7. InHand'
      BY <1>6, <2>2, <2>5 DEF InHand, At, Hands, galleryVars
    <2> QED BY <1>0, <2>6, <2>7 DEF Hands
  <1>7. CASE UNCHANGED vars
    BY <1>0, <1>7 DEF vars, requestVars, galleryVars, Hands, InHand, Disjoint, HandsOf, At
  <1> QED BY <1>1, <1>2, <1>3, <1>4, <1>5, <1>6, <1>7 DEF Next, FileStart


-----------------------------------------------------------------------------
(* What was blocked *)

LEMMA BlocksAsk ==
    ASSUME Hands, BlocksKept, NEW p \in Procs, NEW h, Takes(h), Asks(p, h),
           UNCHANGED meta, blocked' \subseteq blocked, used \subseteq used',
           h.file \in blocked' /\ h.file \notin contended =>
               \/ h.pc = "decide" /\ IsBlocked(h.seen)
               \/ h.pc = "putUpdated" /\ IsBlocked(h.next)
    PROVE  BlocksKept'
  <1>1. /\ proc' = [proc EXCEPT ![p] = h]
        /\ contended \subseteq contended'
    BY AsksFor DEF Hands, Takes
  <1>2. \A q \in Procs : proc'[q] = IF q = p THEN h ELSE proc[q]
    BY <1>1 DEF Hands, Typed
  <1>3. BlockSticks' /\ blocked' \subseteq used'
    BY <1>1 DEF BlocksKept, BlockSticks
  <1>4. ASSUME NEW q \in Procs, proc'[q] \in FileHandler PROVE WillBlock(q)'
    <2>1. CASE q = p
      BY <1>1, <1>2, <2>1 DEF WillBlock, At, Takes
    <2>2. CASE q # p
      <3>1. proc'[q] = proc[q] /\ WillBlock(q)
        BY <1>2, <1>4, <2>2 DEF BlocksKept
      <3> QED BY <1>1, <3>1 DEF WillBlock, At
    <2> QED BY <2>1, <2>2
  <1> QED BY <1>3, <1>4 DEF BlocksKept

LEMMA BlocksWrite ==
    ASSUME Hands, BlocksKept, NEW p \in Procs, NEW h, Moves(p, h),
           proc[p] \in FileHandler, contended \subseteq contended', UNCHANGED used,
           \A f \in Files \ {proc[p].file} :
                meta'[f] = meta[f] /\ (f \in blocked' => f \in blocked),
           blocked' \subseteq Files,
           proc[p].file \in blocked' /\ proc[p].file \notin contended =>
               /\ meta'[proc[p].file] # NULL /\ IsBlocked(meta'[proc[p].file])
               /\ h # Idle => h.pc = "decide" /\ IsBlocked(h.seen)
    PROVE  BlocksKept'
  <1>1. BlockSticks'
    BY DEF BlocksKept, BlockSticks
  <1>2. proc[p].file \in used
    BY DEF Hands, InHand
  <1>3. blocked' \subseteq used'
    BY <1>2 DEF BlocksKept
  <1>4. ASSUME NEW q \in Procs, proc'[q] \in FileHandler PROVE WillBlock(q)'
    <2>1. CASE q = p
      <3>1. h # Idle /\ h.file = proc[p].file /\ proc'[q] = h
        BY <1>4, <2>1, IdleIsNone DEF Moves, GoesOn
      <3> QED BY <1>4, <2>1, <3>1 DEF WillBlock, At
    <2>2. CASE q # p
      <3>1. proc'[q] = proc[q] /\ WillBlock(q)
        BY <1>4, <2>2 DEF BlocksKept, Moves
      <3>2. proc[q].file = proc[p].file => proc[q].file \in contended
        <4>1. proc[q].file \in HandsOf(q) /\ proc[p].file \in HandsOf(p)
          BY <1>4, <3>1, HandsTyped DEF Hands, InHand
        <4> QED BY <2>2, <4>1 DEF Hands, Disjoint
      <3>3. proc[q].file \in Files
        BY <1>4, <3>1 DEF Hands, InHand, Typed
      <3> QED BY <3>1, <3>2, <3>3 DEF WillBlock, At
    <2> QED BY <2>1, <2>2
  <1> QED BY <1>1, <1>3, <1>4 DEF BlocksKept

LEMMA BlocksStep ==
    ASSUME Hands, BlocksKept, [Next]_vars
    PROVE  BlocksKept'
  <1>0. Typed' /\ Typed
    BY TypeStep DEF Hands
  <1>1. ASSUME NEW p \in Procs, Upload(p) PROVE BlocksKept'
    <2>1. PICK f \in Files \ used, s \in Shorts \cup {NULL} :
            /\ used' = used \cup {f}
            /\ Asks(p, [pc |-> "putMeta", file |-> f, hands |-> {f, s} \ {NULL}, short |-> s])
      BY <1>1 DEF Upload, Taken
    <2>2. Takes([pc |-> "putMeta", file |-> f, hands |-> {f, s} \ {NULL}, short |-> s])
      BY IdsAssumption DEF Takes, FileHandler, Uploads
    <2>3. f \notin blocked /\ UNCHANGED <<meta, blocked>>
      BY <1>1 DEF BlocksKept, Upload
    <2> QED BY <2>1, <2>2, <2>3, BlocksAsk
  <1>2. ASSUME NEW p \in Procs, View(p) PROVE BlocksKept'
    <2> DEFINE h(f) == IF meta[f] = NULL
                       THEN [pc |-> "create", file |-> f, hands |-> {f}, seen |-> Fresh]
                       ELSE [pc |-> "decide", file |-> f, hands |-> {f}, seen |-> meta[f]]
    <2>1. PICK f \in used : Asks(p, h(f))
      BY <1>2 DEF View
    <2>2. f \in Files /\ (meta[f] = NULL \/ meta[f] \in Metadata)
      BY DEF Hands, Typed
    <2>3. Fresh \in Metadata
      BY DEF Fresh, Metadata
    <2>4. Takes(h(f)) /\ h(f).file = f
      BY <2>2, <2>3 DEF FileHandler, Views, Takes
    <2>5. meta[f] # NULL => h(f).pc = "decide" /\ h(f).seen = meta[f]
      OBVIOUS
    <2> HIDE DEF h
    <2>6. f \in blocked /\ f \notin contended => meta[f] # NULL /\ IsBlocked(meta[f])
      BY DEF BlocksKept, BlockSticks
    <2> QED BY <1>2, <2>1, <2>2, <2>4, <2>5, <2>6, BlocksAsk DEF View
  <1>3. ASSUME NEW p \in Procs, Update(p) PROVE BlocksKept'
    <2>1. PICK f \in used, m \in Metadata :
            /\ meta[f] \in Metadata
            /\ m.list # "White" => (IsBlocked(meta[f]) => IsBlocked(m))
            /\ Asks(p, [pc |-> "putUpdated", file |-> f, hands |-> {f}, next |-> m,
                        was |-> meta[f].list])
            /\ blocked' = IF m.list = "White" THEN blocked \ {f} ELSE blocked
      BY <1>3, UpdateType DEF Hands
    <2>2. f \in Files /\ meta[f].list \in {"None", "Block", "White"}
      BY <2>1, MetadataFields DEF Hands, Typed
    <2> DEFINE h == [pc |-> "putUpdated", file |-> f, hands |-> {f}, next |-> m, was |-> meta[f].list]
    <2>3. Takes(h) /\ h.file = f /\ h.pc = "putUpdated" /\ h.next = m /\ Asks(p, h)
      BY <2>1, <2>2 DEF Takes, FileHandler, Updates
    <2> HIDE DEF h
    <2>4. f \in blocked' /\ f \notin contended => IsBlocked(m)
      BY <2>1 DEF BlocksKept, BlockSticks
    <2>5. blocked' \subseteq blocked
      BY <2>1
    <2> QED BY <1>3, <2>3, <2>4, <2>5, BlocksAsk DEF Update
  <1>4. ASSUME NEW p \in Procs, DeleteFile(p) PROVE BlocksKept'
    <2>1. PICK f \in used, s \in Shorts \cup {NULL} :
            /\ s = IF meta[f] = NULL THEN NULL ELSE meta[f].short
            /\ Asks(p, [pc |-> "dropMeta", file |-> f, hands |-> {f, s} \ {NULL}, short |-> s])
            /\ blocked' = blocked \ {f}
      BY <1>4, Deletes DEF Hands
    <2>2. f \in Files /\ s \in Shorts \cup {NULL}
      BY <2>1, MetadataFields DEF Typed, Hands
    <2>3. Takes([pc |-> "dropMeta", file |-> f, hands |-> {f, s} \ {NULL}, short |-> s])
      BY <2>2, IdsAssumption DEF Takes, FileHandler, Deletions
    <2> QED BY <1>4, <2>1, <2>3, BlocksAsk DEF DeleteFile
  <1>5. ASSUME NEW p \in Procs, FileStep(p)
        PROVE  BlocksKept'
    <2>0. proc[p] \in FileHandler
      BY <1>0, <1>5, FileStepHandler
    <2> DEFINE g == proc[p].file
    <2>1. PICK h \in {Idle} \cup FileHandler : Moves(p, h)
      BY <1>5, <2>0, FileMoves DEF Hands
    <2>2. UNCHANGED used /\ contended \subseteq contended' /\ blocked' \subseteq Files
      BY <1>0, <1>5, FileMoves DEF Typed
    <2>3. /\ g \in Files /\ proc[p] \in Handler
          /\ meta \in [Files -> Metadata \cup {NULL}]
          /\ g \in blocked /\ g \notin contended => meta[g] # NULL /\ IsBlocked(meta[g])
          /\ g \in blocked /\ g \notin contended =>
                \/ proc[p].pc = "decide" /\ IsBlocked(proc[p].seen)
                \/ proc[p].pc = "putUpdated" /\ IsBlocked(proc[p].next)
      BY <2>0 DEF Hands, InHand, Typed, BlocksKept, BlockSticks, WillBlock, At
    <2>4. h # Idle => GoesOn(proc[p], h)
      BY <2>1 DEF Moves
    <2>5. ASSUME proc[p].pc \in {"putMeta", "create", "putSeen", "dropMeta"}
          PROVE  BlocksKept'
      <3>1. PutMeta(p) \/ CreateMeta(p) \/ PutSeen(p) \/ DropMeta(p)
        BY <1>5, <2>0, <2>5 DEF FileStep, PutLink, Decide, PutUpdated, DropLink
      <3>2. \A f \in Files \ {g} : meta'[f] = meta[f]
        BY <2>3, <3>1 DEF PutMeta, CreateMeta, PutSeen, DropMeta, WritesMeta, Write
      <3>3. UNCHANGED blocked
        BY <3>1 DEF PutMeta, CreateMeta, PutSeen, DropMeta
      <3>4. g \in contended \/ g \notin blocked
        BY <2>3, <2>5
      <3> QED BY <1>5, <2>0, <2>1, <2>2, <3>2, <3>3, <3>4, BlocksWrite
    <2>6. ASSUME proc[p].pc \in {"putLink", "decide", "dropLink"}
          PROVE  BlocksKept'
      <3>1. PutLink(p) \/ Decide(p) \/ DropLink(p)
        BY <1>5, <2>0, <2>6 DEF FileStep, PutMeta, CreateMeta, PutSeen, DropMeta, PutUpdated
      <3>2. UNCHANGED <<meta, blocked>>
        BY <3>1 DEF PutLink, Decide, DropLink, galleryVars
      <3>3. h # Idle => g \in contended \/ g \notin blocked
        BY <2>3, <2>4, <2>6 DEF GoesOn
      <3> QED BY <1>5, <2>0, <2>1, <2>2, <2>3, <3>2, <3>3, BlocksWrite
    <2>7. CASE PutUpdated(p)
      <3>1. /\ meta' = [meta EXCEPT ![g] = proc[p].next] \/ UNCHANGED meta
            /\ \A f \in Files \ {g} : f \in blocked' => f \in blocked
            /\ g \in blocked' /\ g \notin blocked =>
                    /\ proc[p].next.list = "Block"
                    /\ meta' = [meta EXCEPT ![g] = proc[p].next]
            /\ Finish(p)
        BY <2>7 DEF PutUpdated, Write
      <3>2. proc[p] \in Updates
        BY <2>3, <2>7, HandlerKinds DEF PutUpdated
      <3>3. proc[p].next # NULL /\ proc[p].pc = "putUpdated"
        BY <3>2, MetadataFields DEF Updates
      <3>4. h = Idle
        BY <2>1, <3>1 DEF Finish, Moves, Hands, Typed
      <3>5. \A f \in Files \ {g} : meta'[f] = meta[f]
        BY <2>3, <3>1
      <3>6. g \in blocked' /\ g \notin contended => meta'[g] # NULL /\ IsBlocked(meta'[g])
        BY <2>3, <3>1, <3>3 DEF IsBlocked
      <3> QED BY <1>5, <2>0, <2>1, <2>2, <3>1, <3>4, <3>5, <3>6, BlocksWrite
    <2>8. proc[p].pc \in {"putMeta", "create", "putSeen", "dropMeta", "putLink", "decide", "dropLink"}
             \/ PutUpdated(p)
      BY <1>5 DEF FileStep, PutMeta, CreateMeta, PutSeen, DropMeta, PutLink, Decide, DropLink
    <2> QED BY <2>5, <2>6, <2>7, <2>8
  <1>6. ASSUME NEW p \in Procs, NEW h \in {Idle} \cup Puts \cup Lifts,
               proc' = [proc EXCEPT ![p] = h],
               UNCHANGED <<meta, used, blocked>>, contended \subseteq contended'
        PROVE  BlocksKept'
    <2>2. \A q \in Procs : proc'[q] = IF q = p THEN h ELSE proc[q]
      BY <1>6 DEF Hands, Typed
    <2>3. h \notin FileHandler
      BY DEF Idle, FileHandler, Uploads, Views, Updates, Deletions, Puts, Lifts
    <2> QED BY <1>6, <2>2, <2>3 DEF BlocksKept, BlockSticks, WillBlock, At
  <1>7. CASE UNCHANGED vars
    BY <1>7 DEF vars, requestVars, galleryVars, BlocksKept, BlockSticks, WillBlock, At
  <1>8. ASSUME NEW p \in Procs, AlbumStart(p) \/ AlbumStep(p), UNCHANGED galleryVars
        PROVE  BlocksKept'
    <2>1. PICK h \in {Idle} \cup Puts \cup Lifts : proc' = [proc EXCEPT ![p] = h]
      BY <1>0, <1>8, AlbumStepType, AlbumStarts
    <2> QED BY <1>6, <1>8, <2>1 DEF galleryVars
  <1>9. ASSUME NEW p \in Procs, GalleryEvict(p)
        PROVE  BlocksKept'
    BY <1>6, <1>9 DEF GalleryEvict, Evict, Finish, FailUpload
  <1> QED BY <1>1, <1>2, <1>3, <1>4, <1>5, <1>7, <1>8, <1>9 DEF Next, FileStart


-----------------------------------------------------------------------------
(* What an upload was answered with *)

\* What the other handlers do with a short id stays as it is when p moves.
LEMMA Others ==
    ASSUME NEW p \in Procs, NEW q \in Procs, proc'[q] = proc[q], NEW s
    PROVE  /\ Linking(q, s)' <=> Linking(q, s)
           /\ At(q, {"putLink"})' <=> At(q, {"putLink"})
           /\ At(q, {"dropLink"})' <=> At(q, {"dropLink"})
           /\ Dropping(q, s)' <=> Dropping(q, s)
           /\ Copy(q)' = Copy(q)
  BY DEF Linking, Dropping, Copy, At

\* A handler with a short id or a file in hand has it in its hands.
LEMMA Holds ==
    ASSUME Hands, NEW p \in Procs, NEW s \in Shorts
    PROVE  /\ Linking(p, s) \/ Dropping(p, s) => s \in HandsOf(p) /\ proc[p].file \in HandsOf(p)
           /\ Copy(p) # NULL => proc[p].file \in HandsOf(p)
           /\ proc[p] \in FileHandler => proc[p].file \in Files
  BY HandsTyped, IdsAssumption DEF Hands, InHand, Linking, Dropping, Copy, At, Typed

\* With links and metadata as they are, a request begins.
LEMMA LinksAsk ==
    ASSUME Hands, LinksKept, NEW p \in Procs, NEW h, Takes(h), Asks(p, h),
           UNCHANGED <<meta, links>>,
           \A f \in Files : answered'[f] \in {answered[f], NULL},
           h.pc \in {"create", "decide", "putSeen"} =>
               \/ h.seen.short = NULL
               \/ meta[h.file] # NULL /\ meta[h.file].short = h.seen.short,
           h.pc = "putUpdated" => meta[h.file] # NULL /\ meta[h.file].short = h.next.short,
           h.pc = "putMeta" => h.short = NULL \/ links[h.short] = NULL,
           h.pc = "dropMeta" =>
               /\ answered'[h.file] = NULL
               /\ h.short # NULL => meta[h.file] # NULL /\ meta[h.file].short = h.short
    PROVE  LinksKept'
  <1>1. /\ proc[p] = Idle
        /\ proc' = [proc EXCEPT ![p] = h]
        /\ contended \subseteq contended'
        /\ \A q \in Procs : h.hands \cap HandsOf(q) # {} =>
                    h.hands \cup HandsOf(q) \subseteq contended'
    BY AsksFor DEF Hands, Takes
  <1>2. proc'[p] = h /\ \A q \in Procs \ {p} : proc'[q] = proc[q]
    BY <1>1 DEF Hands, Typed
  <1> SUFFICES ASSUME NEW s \in Shorts, s \notin contended' PROVE LinkOK(s)'
    BY DEF LinksKept
  <1>3. LinkOK(s) /\ s # NULL
    BY <1>1, IdsAssumption DEF LinksKept
  <1>4. ASSUME NEW q \in Procs, q # p
        PROVE  /\ Linking(q, s)' <=> Linking(q, s)
               /\ At(q, {"putLink"})' <=> At(q, {"putLink"})
               /\ At(q, {"dropLink"})' <=> At(q, {"dropLink"})
               /\ Dropping(q, s)' <=> Dropping(q, s)
               /\ Copy(q)' = Copy(q)
               /\ proc'[q] = proc[q]
    BY <1>2, <1>4, Others
  <1>5. ~Linking(p, s) /\ ~Dropping(p, s) /\ Copy(p) = NULL
    BY <1>1, IdleIsNone DEF Linking, Dropping, Copy, At
  <1>6. ASSUME NEW f \in Files, Names(f, s)' PROVE Names(f, s)
    <2>1. Copy(p)' # NULL /\ h.file = f /\ (Copy(p)').short = s => meta[f] # NULL /\ meta[f].short = s
      BY <1>2, <1>3 DEF Copy, At, Takes
    <2> QED BY <1>2, <1>4, <1>6, <2>1 DEF Names
  <1>7. \A f \in Files : answered'[f] = s => links'[s] = f
    BY <1>3 DEF LinkOK
  <1>8. \A q \in Procs : Linking(q, s)' => links'[s] = NULL
    <2>1. Linking(p, s)' => links'[s] = NULL
      BY <1>2, <1>3 DEF Linking, At, Takes
    <2> QED BY <1>3, <1>4, <2>1 DEF LinkOK
  <1>9. ASSUME NEW q \in Procs, Dropping(q, s)'
        PROVE  (/\ links[s] = proc[q].file
                /\ answered[proc[q].file] # s
                /\ At(q, {"dropLink"}) => ~Names(proc[q].file, s))'
    <2>1. CASE q # p
      <3>1. PICK e : e = proc[q] /\ e = proc'[q]
        BY <1>4, <2>1
      <3>2. Dropping(q, s) /\ e.file \in Files
        BY <1>4, <1>9, <2>1, <3>1, Holds DEF Dropping, At
      <3>3. /\ links[s] = e.file /\ answered[e.file] # s
            /\ At(q, {"dropLink"}) => ~Names(e.file, s)
        BY <1>3, <3>1, <3>2 DEF LinkOK
      <3>4. ~Names(e.file, s) => ~Names(e.file, s)'
        BY <1>6, <3>2
      <3>5. answered'[e.file] # s
        BY <1>3, <3>2, <3>3
      <3> QED BY <1>4, <2>1, <3>1, <3>3, <3>4, <3>5
    <2>2. CASE q = p
      <3>1. h.pc = "dropMeta" /\ h.short = s /\ h.file \in Files /\ s \in h.hands
        BY <1>2, <1>3, <1>9, <2>2 DEF Dropping, At, Takes, FileHandler, Uploads, Views, Updates,
              Deletions
      <3>2. Names(h.file, s)
        BY <1>3, <3>1 DEF Names
      <3>3. ASSUME NEW r \in Procs, Linking(r, s) PROVE FALSE
        BY <1>1, <3>1, <3>3, Holds
      <3>4. links[s] = h.file
        BY <1>3, <3>1, <3>2, <3>3 DEF LinkOK
      <3>5. ~At(p, {"dropLink"})'
        BY <1>2, <3>1 DEF At
      <3> QED BY <1>2, <1>3, <2>2, <3>1, <3>4, <3>5
    <2> QED BY <2>1, <2>2
  <1>10. ASSUME NEW f \in Files, Names(f, s)'
         PROVE  \/ links'[s] = f
                \/ \E q \in Procs : (At(q, {"putLink"}) /\ Linking(q, s) /\ proc[q].file = f)'
    <2>1. CASE links[s] = f
      BY <2>1
    <2>2. CASE links[s] # f
      <3>1. PICK q \in Procs : At(q, {"putLink"}) /\ Linking(q, s) /\ proc[q].file = f
        BY <1>3, <1>6, <1>10, <2>2 DEF LinkOK
      <3> QED BY <1>4, <1>5, <3>1
    <2> QED BY <2>1, <2>2
  <1> QED BY <1>7, <1>8, <1>9, <1>10 DEF LinkOK


\* Links and answers stay as they are, a handler goes on, and no short id gets a name
\* that it did not have.
LEMMA LinksQuiet ==
    ASSUME Hands, NEW p \in Procs, NEW h, Moves(p, h), NEW s \in Shorts, LinkOK(s),
           UNCHANGED <<links, answered>>,
           \A f \in Files : Names(f, s)' => Names(f, s),
           ~Linking(p, s), ~Linking(p, s)',
           Dropping(p, s)' => /\ Dropping(p, s)
                              /\ h.file = proc[p].file
                              /\ ~Names(h.file, s)'
    PROVE  LinkOK(s)'
  <1>1. proc'[p] = h /\ \A q \in Procs \ {p} : proc'[q] = proc[q]
    BY DEF Moves
  <1>2. ASSUME NEW q \in Procs, q # p
        PROVE  /\ Linking(q, s)' <=> Linking(q, s)
               /\ At(q, {"putLink"})' <=> At(q, {"putLink"})
               /\ At(q, {"dropLink"})' <=> At(q, {"dropLink"})
               /\ Dropping(q, s)' <=> Dropping(q, s)
               /\ proc'[q] = proc[q]
    BY <1>1, <1>2, Others
  <1>3. \A q \in Procs : Linking(q, s)' => links'[s] = NULL
    BY <1>2 DEF LinkOK
  <1>4. ASSUME NEW q \in Procs, Dropping(q, s)'
        PROVE  (/\ links[s] = proc[q].file
                /\ answered[proc[q].file] # s
                /\ At(q, {"dropLink"}) => ~Names(proc[q].file, s))'
    <2>1. CASE q # p
      <3>1. PICK e : e = proc[q] /\ e = proc'[q]
        BY <1>2, <2>1
      <3>2. Dropping(q, s) /\ e.file \in Files
        BY <1>2, <1>4, <2>1, <3>1, Holds DEF Dropping, At
      <3>3. /\ links[s] = e.file /\ answered[e.file] # s
            /\ At(q, {"dropLink"}) => ~Names(e.file, s)
        BY <3>1, <3>2 DEF LinkOK
      <3>4. ~Names(e.file, s) => ~Names(e.file, s)'
        BY <3>2
      <3> QED BY <1>2, <2>1, <3>1, <3>3, <3>4
    <2>2. CASE q = p
      <3>1. Dropping(p, s) /\ h.file = proc[p].file /\ ~Names(h.file, s)'
        BY <1>4, <2>2
      <3>2. links[s] = h.file /\ answered[h.file] # s
        BY <3>1 DEF LinkOK
      <3> QED BY <1>1, <2>2, <3>1, <3>2
    <2> QED BY <2>1, <2>2
  <1>5. ASSUME NEW f \in Files, Names(f, s)'
        PROVE  \/ links'[s] = f
               \/ \E q \in Procs : (At(q, {"putLink"}) /\ Linking(q, s) /\ proc[q].file = f)'
    <2>1. CASE links[s] = f
      BY <2>1
    <2>2. CASE links[s] # f
      <3>1. PICK q \in Procs : At(q, {"putLink"}) /\ Linking(q, s) /\ proc[q].file = f
        BY <1>5, <2>2 DEF LinkOK
      <3> QED BY <1>2, <3>1
    <2> QED BY <2>1, <2>2
  <1>6. \A f \in Files : answered'[f] = s => links'[s] = f
    BY DEF LinkOK
  <1> QED BY <1>3, <1>4, <1>5, <1>6 DEF LinkOK

\* When metadata changes only to what the handler has of it, or goes, nothing new is named.
LEMMA NamesQuiet ==
    ASSUME Hands, NEW p \in Procs, NEW h, Moves(p, h), NEW s \in Shorts,
           Copy(p)' # NULL => /\ Copy(p) # NULL
                              /\ (Copy(p)').short = Copy(p).short
                              /\ h.file = proc[p].file,
           \A f \in Files : \/ meta'[f] \in {meta[f], NULL}
                            \/ Copy(p) # NULL /\ f = proc[p].file /\ meta'[f] = Copy(p)
    PROVE  \A f \in Files : Names(f, s)' => Names(f, s)
  <1> TAKE f \in Files
  <1>1. proc'[p] = h /\ \A q \in Procs \ {p} : proc'[q] = proc[q] /\ Copy(q)' = Copy(q)
    BY Others DEF Moves
  <1>2. CASE meta'[f] # NULL /\ (meta'[f]).short = s
    BY <1>2 DEF Names
  <1>3. ASSUME NEW q \in Procs, (Copy(q) # NULL /\ proc[q].file = f /\ Copy(q).short = s)'
        PROVE  Names(f, s)
    <2>1. CASE q = p
      BY <1>1, <1>3, <2>1 DEF Names
    <2>2. CASE q # p
      BY <1>1, <1>3, <2>2 DEF Names
    <2> QED BY <2>1, <2>2
  <1> QED BY <1>2, <1>3 DEF Names


LEMMA Copies ==
    ASSUME Hands, NEW p \in Procs
    PROVE  /\ proc[p] \in Views => Copy(p) = proc[p].seen /\ Copy(p) # NULL
           /\ proc[p] \in Updates => Copy(p) = proc[p].next /\ Copy(p) # NULL
           /\ proc[p] \notin Views \cup Updates => Copy(p) = NULL
           /\ proc[p] \in Views \cup Updates => \A s : ~Linking(p, s) /\ ~Dropping(p, s)
  <1>1. proc[p] \in Handler
    BY DEF Hands, Typed
  <1>2. proc[p] \in FileHandler => proc[p].pc \in {"create", "decide", "putSeen"} <=> proc[p] \in Views
    BY <1>1, HandlerKinds
  <1>3. proc[p] \in FileHandler => proc[p].pc \in {"putUpdated"} <=> proc[p] \in Updates
    BY <1>1, HandlerKinds
  <1>4. \A e \in Views : e.seen # NULL
    BY IdsAssumption DEF Views
  <1>5. \A e \in Updates : e.next # NULL
    BY IdsAssumption DEF Updates
  <1>6. proc[p] \in Views \cup Updates => proc[p] \in FileHandler
    BY DEF FileHandler
  <1>7. proc[p] \in Views => ~(proc[p] \in Updates)
    BY DEF Views, Updates
  <1> QED BY <1>2, <1>3, <1>4, <1>5, <1>6, <1>7 DEF Copy, At, Linking, Dropping, Views, Updates

\* What others have in hand is none of p's, for a short id that is not contended.
LEMMA Alone ==
    ASSUME Hands, NEW p \in Procs, NEW q \in Procs, q # p, NEW s \in Shorts,
           s \notin contended, Linking(p, s) \/ Dropping(p, s)
    PROVE  ~Linking(q, s) /\ ~Dropping(q, s) /\ (Copy(q) # NULL => proc[q].file # proc[p].file)
  <1>1. s \in HandsOf(p) /\ proc[p].file \in HandsOf(p)
    BY Holds
  <1>2. HandsOf(p) \cap HandsOf(q) = {}
    BY <1>1 DEF Hands, Disjoint
  <1> QED BY <1>1, <1>2, Holds

\* The upload's metadata names its short id.
LEMMA LinksPutMeta ==
    ASSUME Hands, LinksKept, NEW p \in Procs, PutMeta(p)
    PROVE  LinksKept'
  <1> DEFINE e == proc[p]
             g == proc[p].file
  <1>1. e \in Uploads /\ e \in FileHandler /\ e.pc = "putMeta"
    BY HandlerKinds DEF Hands, Typed, PutMeta, FileHandler
  <1>2. g \in Files /\ e.short \in Shorts \cup {NULL}
    BY <1>1 DEF Uploads
  <1>3. PICK h \in {Idle} \cup FileHandler : Moves(p, h)
    BY FileMoves DEF Hands, FileStep
  <1>4. contended \subseteq contended' /\ UNCHANGED <<links, answered>>
    BY FileMoves DEF Hands, FileStep, PutMeta
  <1>5. PICK m : m = [Fresh EXCEPT !.short = e.short]
    OBVIOUS
  <1>6. m.short = e.short
    BY <1>5 DEF Fresh
  <1>7. meta' = [meta EXCEPT ![g] = m] \/ UNCHANGED meta
    BY <1>5 DEF PutMeta, Write
  <1>8. Copy(p) = NULL
    BY <1>1, Copies DEF Uploads, Views, Updates
  <1>9. proc'[p] = h /\ \A q \in Procs \ {p} : proc'[q] = proc[q] /\ Copy(q)' = Copy(q)
    BY <1>3, Others DEF Moves
  <1>10. h = Idle \/ (h.pc = "putLink" /\ h.short = e.short /\ h.file = g /\ h \in FileHandler)
    BY <1>1, <1>3 DEF Moves, GoesOn
  <1>11. Copy(p)' = NULL
    BY <1>9, <1>10, IdleIsNone DEF Copy, At
  <1> SUFFICES ASSUME NEW s \in Shorts, s \notin contended' PROVE LinkOK(s)'
    BY DEF LinksKept
  <1>12. LinkOK(s) /\ s # NULL /\ s \notin contended
    BY <1>4, IdsAssumption DEF LinksKept
  <1>13. ASSUME s # e.short PROVE LinkOK(s)'
    <2>1. ASSUME NEW f \in Files, Names(f, s)' PROVE Names(f, s)
      <3>1. CASE meta'[f] # NULL /\ (meta'[f]).short = s
        <4>1. meta[f] # NULL /\ meta[f].short = s
          BY <1>2, <1>6, <1>7, <1>13, <3>1 DEF Hands, Typed
        <4> QED BY <4>1 DEF Names
      <3>2. CASE \E q \in Procs : (Copy(q) # NULL /\ proc[q].file = f /\ Copy(q).short = s)'
        BY <1>8, <1>9, <1>11, <3>2 DEF Names
      <3> QED BY <2>1, <3>1, <3>2 DEF Names
    <2>2. ~Linking(p, s) /\ ~Linking(p, s)' /\ ~Dropping(p, s)'
      BY <1>1, <1>9, <1>10, <1>13, IdleIsNone DEF Linking, Dropping, At
    <2> QED BY <1>3, <1>4, <1>12, <2>1, <2>2, LinksQuiet
  <1>14. ASSUME s = e.short PROVE LinkOK(s)'
    <2>1. Linking(p, s) /\ links[s] = NULL
      BY <1>1, <1>12, <1>14 DEF Linking, At, LinkOK
    <2>2. h # Idle
      <3>1. s \in HandsOf(p)
        BY <2>1, Holds
      <3>2. proc' = [proc EXCEPT ![p] = h] /\ proc[p] # Idle /\ h = Idle => FailUpload(p)
        <4>1. h = Idle => ~GoTo(p, "putLink")
          BY <1>1, <1>9 DEF GoTo, Idle, Hands, Typed, Uploads
        <4> QED BY <1>12, <1>14, <4>1 DEF PutMeta, Write
      <3> QED BY <1>1, <1>3, <3>1, <3>2, IdleIsNone DEF FailUpload, Moves
    <2>3. At(p, {"putLink"})' /\ Linking(p, s)' /\ proc'[p].file = g /\ ~Dropping(p, s)'
      BY <1>9, <1>10, <1>14, <2>2 DEF At, Linking, Dropping
    <2>4. \A q \in Procs \ {p} : ~Linking(q, s)' /\ ~Dropping(q, s)'
      BY <1>9, <1>12, <2>1, Alone, Others
    <2>5. ASSUME NEW f \in Files, Names(f, s)' PROVE f = g
      <3>1. ~Names(f, s)
        <4>1. links[s] # f
          BY <2>1, IdsAssumption
        <4>2. ASSUME NEW q \in Procs, At(q, {"putLink"}), Linking(q, s) PROVE FALSE
          <5>1. q # p
            BY <1>1, <4>2 DEF At
          <5> QED BY <1>12, <2>1, <4>2, <5>1, Alone
        <4> QED BY <1>12, <4>1, <4>2 DEF LinkOK
      <3>2. CASE f # g
        <4>1. meta'[f] = meta[f]
          BY <1>2, <1>7, <3>2 DEF Hands, Typed
        <4> QED BY <1>9, <1>11, <2>5, <3>1, <4>1 DEF Names
      <3> QED BY <3>2
    <2>6. \A f \in Files : answered'[f] # s
      BY <1>4, <1>12, <2>1, IdsAssumption DEF LinkOK
    <2>7. links'[s] = NULL
      BY <1>4, <2>1
    <2> QED BY <2>3, <2>4, <2>5, <2>6, <2>7 DEF LinkOK
  <1> QED BY <1>13, <1>14

\* The link is written, and the upload answered with it.
LEMMA LinksPutLink ==
    ASSUME Hands, LinksKept, NEW p \in Procs, PutLink(p)
    PROVE  LinksKept'
  <1> DEFINE e == proc[p]
             g == proc[p].file
             t == proc[p].short
  <1>1. e \in Uploads /\ e \in FileHandler /\ e.pc = "putLink"
    BY HandlerKinds DEF Hands, Typed, PutLink, FileHandler
  <1>2. g \in Files /\ t \in Shorts
    <2>1. t # NULL
      BY <1>1 DEF Hands, InHand, At
    <2> QED BY <1>1, <2>1 DEF Uploads
  <1>3. Moves(p, Idle)
    BY DEF PutLink, Write, Finish, FailUpload, Moves, Hands, Typed
  <1>4. contended \subseteq contended' /\ UNCHANGED meta
    BY FileMoves DEF Hands, FileStep, PutLink
  <1>5. proc'[p] = Idle /\ \A q \in Procs \ {p} : proc'[q] = proc[q] /\ Copy(q)' = Copy(q)
    BY <1>3, Others DEF Moves
  <1>6. Copy(p) = NULL /\ Copy(p)' = NULL
    <2>1. Copy(p) = NULL
      BY <1>1, Copies DEF Uploads, Views, Updates
    <2> QED BY <1>5, <2>1, IdleIsNone DEF Copy, At
  <1>7. \A f \in Files, s \in Shorts : Names(f, s)' <=> Names(f, s)
    BY <1>4, <1>5, <1>6 DEF Names
  <1>8. \A s : ~Linking(p, s)' /\ ~Dropping(p, s)'
    BY <1>5, IdleIsNone DEF Linking, Dropping, At
  <1> SUFFICES ASSUME NEW s \in Shorts, s \notin contended' PROVE LinkOK(s)'
    BY DEF LinksKept
  <1>9. LinkOK(s) /\ s # NULL /\ s \notin contended
    BY <1>4, IdsAssumption DEF LinksKept
  <1>10. ASSUME s # t PROVE LinkOK(s)'
    <2>1. links'[s] = links[s] /\ \A f \in Files : answered'[f] = s => answered[f] = s
      BY <1>2, <1>10 DEF PutLink, Write, Hands, Typed
    <2>2. ~Linking(p, s)
      BY <1>10 DEF Linking
    <2>3. \A q \in Procs : Linking(q, s)' => links'[s] = NULL
      BY <1>5, <1>8, <1>9, <2>1, Others DEF LinkOK
    <2>4. ASSUME NEW q \in Procs, Dropping(q, s)'
          PROVE  (/\ links[s] = proc[q].file
                  /\ answered[proc[q].file] # s
                  /\ At(q, {"dropLink"}) => ~Names(proc[q].file, s))'
      <3>1. PICK d : d = proc[q] /\ d = proc'[q] /\ q # p
        BY <1>5, <1>8, <2>4
      <3>2. Dropping(q, s) /\ d.file \in Files /\ (At(q, {"dropLink"})' <=> At(q, {"dropLink"}))
        BY <2>4, <3>1, Others, Holds DEF Dropping, At
      <3>3. /\ links[s] = d.file /\ answered[d.file] # s
            /\ At(q, {"dropLink"}) => ~Names(d.file, s)
        BY <1>9, <3>1, <3>2 DEF LinkOK
      <3>4. ~Names(d.file, s) => ~Names(d.file, s)'
        BY <1>7, <3>2
      <3>5. links'[s] = d.file /\ answered'[d.file] # s
        BY <2>1, <3>2, <3>3
      <3> QED BY <3>1, <3>2, <3>3, <3>4, <3>5
    <2>5. ASSUME NEW f \in Files, Names(f, s)'
          PROVE  \/ links'[s] = f
                 \/ \E q \in Procs : (At(q, {"putLink"}) /\ Linking(q, s) /\ proc[q].file = f)'
      <3>1. CASE links[s] = f
        BY <2>1, <3>1
      <3>2. CASE links[s] # f
        <4>1. PICK q \in Procs : At(q, {"putLink"}) /\ Linking(q, s) /\ proc[q].file = f
          BY <1>7, <1>9, <2>5, <3>2 DEF LinkOK
        <4>2. q # p
          BY <2>2, <4>1
        <4> QED BY <1>5, <4>1, <4>2, Others
      <3> QED BY <3>1, <3>2
    <2>6. \A f \in Files : answered'[f] = s => links'[s] = f
      BY <1>9, <2>1 DEF LinkOK
    <2> QED BY <2>3, <2>4, <2>5, <2>6 DEF LinkOK
  <1>11. ASSUME s = t PROVE LinkOK(s)'
    <2>1. Linking(p, s) /\ links[s] = NULL
      BY <1>1, <1>9, <1>11 DEF Linking, At, LinkOK
    <2>2. s \in HandsOf(p)
      BY <2>1, Holds
    <2>3. ~FailUpload(p)
      BY <2>2 DEF FailUpload
    <2>4. links'[s] = g /\ answered' = [answered EXCEPT ![g] = s]
      BY <1>2, <1>11, <2>3 DEF PutLink, Write, Hands, Typed
    <2>5. \A q \in Procs : ~Linking(q, s)' /\ ~Dropping(q, s)'
      BY <1>5, <1>8, <1>9, <2>1, Alone, Others
    <2>6. \A f \in Files : answered'[f] = s => links'[s] = f
      BY <1>2, <1>9, <2>1, <2>4, IdsAssumption DEF LinkOK, Hands, Typed
    <2>7. ASSUME NEW f \in Files, Names(f, s) PROVE f = g
      <3>1. links[s] # f
        BY <2>1, IdsAssumption
      <3>2. PICK q \in Procs : Linking(q, s) /\ proc[q].file = f
        BY <1>9, <2>7, <3>1 DEF LinkOK
      <3> QED BY <1>9, <2>1, <3>2, Alone
    <2> QED BY <1>7, <2>4, <2>5, <2>6, <2>7 DEF LinkOK
  <1> QED BY <1>10, <1>11

\* The link goes, or a failed call leaves it.
LEMMA LinksDropLink ==
    ASSUME Hands, LinksKept, NEW p \in Procs, DropLink(p)
    PROVE  LinksKept'
  <1> DEFINE e == proc[p]
             g == proc[p].file
             t == proc[p].short
  <1>1. e \in Deletions /\ e \in FileHandler /\ e.pc = "dropLink"
    BY HandlerKinds DEF Hands, Typed, DropLink, FileHandler
  <1>2. g \in Files /\ t \in Shorts
    <2>1. t # NULL
      BY <1>1 DEF Hands, InHand, At
    <2> QED BY <1>1, <2>1 DEF Deletions
  <1>3. Moves(p, Idle)
    BY DEF DropLink, Write, Finish, Moves, Hands, Typed
  <1>4. UNCHANGED <<meta, contended, answered>>
    BY DEF DropLink
  <1>5. proc'[p] = Idle /\ \A q \in Procs \ {p} : proc'[q] = proc[q] /\ Copy(q)' = Copy(q)
    BY <1>3, Others DEF Moves
  <1>6. Copy(p) = NULL /\ Copy(p)' = NULL
    <2>1. Copy(p) = NULL
      BY <1>1, Copies DEF Deletions, Views, Updates
    <2> QED BY <1>5, <2>1, IdleIsNone DEF Copy, At
  <1>7. \A f \in Files, s \in Shorts : Names(f, s)' <=> Names(f, s)
    BY <1>4, <1>5, <1>6 DEF Names
  <1>8. \A s : ~Linking(p, s)' /\ ~Dropping(p, s)' /\ ~Linking(p, s)
    BY <1>1, <1>5, IdleIsNone DEF Linking, Dropping, At
  <1>9. links' = [links EXCEPT ![t] = NULL] \/ UNCHANGED links
    BY DEF DropLink, Write
  <1> SUFFICES ASSUME NEW s \in Shorts, s \notin contended' PROVE LinkOK(s)'
    BY DEF LinksKept
  <1>10. LinkOK(s) /\ s # NULL /\ s \notin contended
    BY <1>4, IdsAssumption DEF LinksKept
  <1>11. ASSUME links'[s] = links[s] PROVE LinkOK(s)'
    <2>3. \A q \in Procs : Linking(q, s)' => links'[s] = NULL
      BY <1>5, <1>8, <1>10, <1>11, Others DEF LinkOK
    <2>4. ASSUME NEW q \in Procs, Dropping(q, s)'
          PROVE  (/\ links[s] = proc[q].file
                  /\ answered[proc[q].file] # s
                  /\ At(q, {"dropLink"}) => ~Names(proc[q].file, s))'
      <3>1. PICK d : d = proc[q] /\ d = proc'[q] /\ q # p
        BY <1>5, <1>8, <2>4
      <3>2. Dropping(q, s) /\ d.file \in Files /\ (At(q, {"dropLink"})' <=> At(q, {"dropLink"}))
        BY <2>4, <3>1, Others, Holds DEF Dropping, At
      <3>3. /\ links[s] = d.file /\ answered[d.file] # s
            /\ At(q, {"dropLink"}) => ~Names(d.file, s)
        BY <1>10, <3>1, <3>2 DEF LinkOK
      <3>4. ~Names(d.file, s) => ~Names(d.file, s)'
        BY <1>7, <3>2
      <3>5. links'[s] = d.file /\ answered'[d.file] # s
        BY <1>4, <1>11, <3>2, <3>3
      <3> QED BY <3>1, <3>2, <3>3, <3>4, <3>5
    <2>5. ASSUME NEW f \in Files, Names(f, s)'
          PROVE  \/ links'[s] = f
                 \/ \E q \in Procs : (At(q, {"putLink"}) /\ Linking(q, s) /\ proc[q].file = f)'
      <3>1. CASE links[s] = f
        BY <1>11, <3>1
      <3>2. CASE links[s] # f
        <4>1. PICK q \in Procs : At(q, {"putLink"}) /\ Linking(q, s) /\ proc[q].file = f
          BY <1>7, <1>10, <2>5, <3>2 DEF LinkOK
        <4>2. q # p
          BY <1>8, <4>1
        <4> QED BY <1>5, <4>1, <4>2, Others
      <3> QED BY <3>1, <3>2
    <2>6. \A f \in Files : answered'[f] = s => links'[s] = f
      BY <1>4, <1>10, <1>11 DEF LinkOK
    <2> QED BY <2>3, <2>4, <2>5, <2>6 DEF LinkOK
  <1>12. ASSUME links'[s] # links[s] PROVE LinkOK(s)'
    <2>1. s = t /\ links'[s] = NULL
      BY <1>2, <1>9, <1>12 DEF Hands, Typed
    <2>2. Dropping(p, s) /\ At(p, {"dropLink"})
      BY <1>1, <2>1 DEF Dropping, At
    <2>3. links[s] = g /\ answered[g] # s /\ ~Names(g, s)
      BY <1>10, <2>2 DEF LinkOK
    <2>4. \A q \in Procs : ~Linking(q, s)' /\ ~Dropping(q, s)'
      BY <1>5, <1>8, <1>10, <2>2, Alone, Others
    <2>5. \A f \in Files : answered'[f] # s
      BY <1>4, <1>10, <2>3 DEF LinkOK
    <2>6. ASSUME NEW f \in Files, Names(f, s) PROVE FALSE
      <3>1. links[s] # f
        BY <2>3, <2>6
      <3>2. PICK q \in Procs : Linking(q, s)
        BY <1>10, <2>6, <3>1 DEF LinkOK
      <3> QED BY <1>8, <1>10, <2>2, <3>2, Alone
    <2> QED BY <1>7, <2>4, <2>5, <2>6 DEF LinkOK
  <1> QED BY <1>11, <1>12


\* Views and changes write what they have read of the short id.
LEMMA LinksKeptByCopies ==
    ASSUME Hands, LinksKept, NEW p \in Procs,
           CreateMeta(p) \/ Decide(p) \/ PutSeen(p) \/ PutUpdated(p)
    PROVE  LinksKept'
  <1>0. FileStep(p) /\ Typed /\ Typed'
    BY FileStepType DEF FileStep, Hands
  <1>1. PICK h \in {Idle} \cup FileHandler : Moves(p, h)
    BY <1>0, FileMoves
  <1>2. contended \subseteq contended' /\ UNCHANGED <<links, answered>>
    BY <1>0, FileMoves DEF CreateMeta, Decide, PutSeen, PutUpdated, galleryVars
  <1>3. proc[p] \in Views \cup Updates /\ proc[p].file \in Files
    <2>1. proc[p] \in Handler
      BY DEF Hands, Typed
    <2> QED BY <2>1, HandlerKinds DEF CreateMeta, Decide, PutSeen, PutUpdated, Views, Updates
  <1>4. Copy(p) # NULL /\ \A s : ~Linking(p, s) /\ ~Dropping(p, s)
    BY <1>3, Copies
  <1>5. proc'[p] = h
    BY <1>1 DEF Moves
  <1>6. Copy(p)' # NULL => (Copy(p)').short = Copy(p).short /\ h.file = proc[p].file
    <2>1. CASE h = Idle
      BY <1>5, <2>1, IdleIsNone DEF Copy, At
    <2>2. CASE GoesOn(proc[p], h)
      BY <1>3, <1>5, <2>2 DEF GoesOn, Copy, At, Views, Updates
    <2> QED BY <1>1, <2>1, <2>2 DEF Moves
  <1>7. \A s : ~Linking(p, s)' /\ ~Dropping(p, s)'
    <2>1. CASE h = Idle
      BY <1>5, <2>1, IdleIsNone DEF Linking, Dropping, At
    <2>2. CASE GoesOn(proc[p], h)
      BY <1>3, <1>5, <2>2 DEF GoesOn, Linking, Dropping, At, Views, Updates
    <2> QED BY <1>1, <2>1, <2>2 DEF Moves
  <1>8. \A f \in Files : \/ meta'[f] \in {meta[f], NULL}
                         \/ Copy(p) # NULL /\ f = proc[p].file /\ meta'[f] = Copy(p)
    <2>1. UNCHANGED meta \/ meta' = [meta EXCEPT ![proc[p].file] = Copy(p)]
      <3>1. CASE CreateMeta(p) \/ PutSeen(p)
        <4>1. proc[p] \in Views
          BY <1>3, <3>1 DEF CreateMeta, PutSeen, Updates
        <4> QED BY <3>1, <4>1, Copies DEF CreateMeta, PutSeen, WritesMeta, Write
      <3>2. CASE PutUpdated(p)
        <4>1. proc[p] \in Updates
          BY <1>3, <3>2 DEF PutUpdated, Views
        <4> QED BY <3>2, <4>1, Copies DEF PutUpdated, Write
      <3>3. CASE Decide(p)
        BY <3>3 DEF Decide, galleryVars
      <3> QED BY <3>1, <3>2, <3>3
    <2> QED BY <1>3, <1>4, <2>1 DEF Hands, Typed
  <1>9. ASSUME NEW s \in Shorts, s \notin contended' PROVE LinkOK(s)'
    <2>1. LinkOK(s)
      BY <1>2, <1>9 DEF LinksKept
    <2>2. \A f \in Files : Names(f, s)' => Names(f, s)
      BY <1>1, <1>4, <1>6, <1>8, NamesQuiet
    <2> QED BY <1>1, <1>2, <1>4, <1>7, <2>1, <2>2, LinksQuiet
  <1> QED BY <1>9 DEF LinksKept

\* The metadata goes, and with it the name of the short id.
LEMMA LinksDropMeta ==
    ASSUME Hands, LinksKept, NEW p \in Procs, DropMeta(p)
    PROVE  LinksKept'
  <1> DEFINE g == proc[p].file
  <1>1. proc[p] \in Deletions /\ proc[p].pc = "dropMeta" /\ proc[p] \in FileHandler /\ g \in Files
    BY HandlerKinds DEF Hands, Typed, DropMeta, FileHandler, Deletions
  <1>2. PICK h \in {Idle} \cup FileHandler : Moves(p, h)
    BY FileMoves DEF FileStep, Hands
  <1>3. UNCHANGED <<links, answered, contended>>
    BY DEF DropMeta
  <1>4. proc'[p] = h /\ \A q \in Procs \ {p} : proc'[q] = proc[q] /\ Copy(q)' = Copy(q)
    BY <1>2, Others DEF Moves
  <1>5. h = Idle \/ (/\ h.pc = "dropLink" /\ h.short = proc[p].short /\ h.file = g
                     /\ meta' = [meta EXCEPT ![g] = NULL])
    <2>1. h # Idle => h.pc = "dropLink" /\ h.short = proc[p].short /\ h.file = g
      BY <1>1, <1>2 DEF Moves, GoesOn
    <2>2. h # Idle => ~Finish(p)
      BY <1>4 DEF Finish, Hands, Typed
    <2> QED BY <2>1, <2>2 DEF DropMeta, WritesMeta, Write
  <1>6. \A f \in Files : meta'[f] \in {meta[f], NULL}
    BY <1>1 DEF DropMeta, WritesMeta, Write, Hands, Typed
  <1>7. Copy(p) = NULL /\ Copy(p)' = NULL
    <2>1. Copy(p) = NULL
      BY <1>1, Copies DEF Deletions, Views, Updates
    <2> QED BY <1>4, <1>5, <2>1, IdleIsNone DEF Copy, At
  <1>8. \A s : ~Linking(p, s) /\ ~Linking(p, s)'
    BY <1>1, <1>4, <1>5, IdleIsNone DEF Linking, At
  <1>9. ASSUME NEW s \in Shorts, s \notin contended PROVE LinkOK(s)'
    <2>1. LinkOK(s)
      BY <1>9 DEF LinksKept
    <2>2. \A f \in Files : Names(f, s)' => Names(f, s)
      BY <1>2, <1>6, <1>7, NamesQuiet
    <2>3. ASSUME Dropping(p, s)'
          PROVE  Dropping(p, s) /\ h.file = proc[p].file /\ ~Names(h.file, s)'
      <3>1. h # Idle /\ h.short = s
        BY <1>4, <2>3, IdleIsNone DEF Dropping, At
      <3>2. Dropping(p, s)
        BY <1>1, <1>5, <3>1 DEF Dropping, At
      <3>3. meta'[g] = NULL
        BY <1>1, <1>5, <3>1 DEF Hands, Typed
      <3>5. PICK c : c = g
        OBVIOUS
      <3>4. ASSUME NEW q \in Procs, (Copy(q) # NULL /\ proc[q].file = c /\ Copy(q).short = s)'
            PROVE  FALSE
        <4>1. q # p
          BY <1>7, <3>4
        <4>2. Copy(q) # NULL /\ proc[q].file # proc[p].file
          BY <1>4, <1>9, <3>2, <3>4, <4>1, Alone
        <4>3. proc'[q].file # c
          BY <1>4, <3>5, <4>1, <4>2
        <4> QED BY <3>4, <4>3
      <3>6. ~Names(c, s)'
        BY <3>3, <3>4, <3>5 DEF Names
      <3> QED BY <1>5, <3>1, <3>2, <3>5, <3>6
    <2> QED BY <1>2, <1>3, <1>8, <2>1, <2>2, <2>3, LinksQuiet
  <1> QED BY <1>3, <1>9 DEF LinksKept

\* A handler that is gone leaves what is written; an upload's short id is contended then.
LEMMA LinksEvict ==
    ASSUME Hands, LinksKept, NEW p \in Procs, GalleryEvict(p)
    PROVE  LinksKept'
  <1>1. Moves(p, Idle)
    BY DEF GalleryEvict, Evict, Finish, Moves, Hands, Typed
  <1>2. contended \subseteq contended' /\ UNCHANGED <<links, answered, meta>>
    BY FileMoves DEF GalleryEvict, Hands
  <1>3. Copy(p)' = NULL /\ \A s : ~Linking(p, s)' /\ ~Dropping(p, s)'
    BY <1>1, IdleIsNone DEF Moves, Copy, Linking, Dropping, At
  <1>4. ASSUME NEW s \in Shorts, s \notin contended' PROVE LinkOK(s)'
    <2>1. LinkOK(s)
      BY <1>2, <1>4 DEF LinksKept
    <2>2. \A f \in Files : Names(f, s)' => Names(f, s)
      BY <1>1, <1>2, <1>3, NamesQuiet
    <2>3. ~Linking(p, s)
      BY <1>4, Holds DEF GalleryEvict, FailUpload, Linking, At
    <2> QED BY <1>1, <1>2, <1>3, <2>1, <2>2, <2>3, LinksQuiet
  <1> QED BY <1>4 DEF LinksKept

\* The albums' handlers have no file in hand.
LEMMA LinksAlbums ==
    ASSUME Hands, LinksKept, NEW p \in Procs, AlbumStart(p) \/ AlbumStep(p), UNCHANGED galleryVars
    PROVE  LinksKept'
  <1>1. PICK h \in {Idle} \cup Puts \cup Lifts : proc' = [proc EXCEPT ![p] = h]
    BY AlbumStepType, AlbumStarts DEF Hands
  <1>2. proc'[p] = h /\ \A q \in Procs \ {p} : proc'[q] = proc[q]
    BY <1>1 DEF Hands, Typed
  <1>3. h \notin FileHandler
    BY DEF Idle, FileHandler, Uploads, Views, Updates, Deletions, Puts, Lifts
  <1>4. proc[p] \notin FileHandler
    <2>1. proc[p] \in {Idle} \cup Puts \cup Lifts
      BY AlbumStepType, AlbumStarts DEF Hands
    <2> QED BY <2>1 DEF Idle, FileHandler, Uploads, Views, Updates, Deletions, Puts, Lifts
  <1>5. /\ Copy(p) = NULL /\ Copy(p)' = NULL
        /\ \A s : /\ ~Linking(p, s) /\ ~Dropping(p, s)
                  /\ ~Linking(p, s)' /\ ~Dropping(p, s)'
    BY <1>2, <1>3, <1>4 DEF Copy, Linking, Dropping, At
  <1>6. ~At(p, {"putLink"}) /\ ~At(p, {"dropLink"})
    BY <1>4 DEF At
  <1>7. \A q \in Procs \ {p} : Copy(q)' = Copy(q)
    BY <1>2, Others
  <1>8. \A f \in Files, s \in Shorts : Names(f, s)' <=> Names(f, s)
    BY <1>2, <1>5, <1>7 DEF Names, galleryVars
  <1>9. UNCHANGED <<links, answered, contended>>
    BY DEF galleryVars
  <1>10. ASSUME NEW s \in Shorts, s \notin contended PROVE LinkOK(s)'
    <2>1. LinkOK(s)
      BY <1>10 DEF LinksKept
    <2>2. \A q \in Procs : Linking(q, s)' => links'[s] = NULL
      BY <1>2, <1>5, <1>9, <2>1, Others DEF LinkOK
    <2>3. ASSUME NEW q \in Procs, Dropping(q, s)'
          PROVE  (/\ links[s] = proc[q].file
                  /\ answered[proc[q].file] # s
                  /\ At(q, {"dropLink"}) => ~Names(proc[q].file, s))'
      <3>1. PICK d : d = proc[q] /\ d = proc'[q] /\ q # p
        BY <1>2, <1>5, <2>3
      <3>2. Dropping(q, s) /\ d.file \in Files /\ (At(q, {"dropLink"})' <=> At(q, {"dropLink"}))
        BY <2>3, <3>1, Others, Holds DEF Dropping, At
      <3>3. /\ links[s] = d.file /\ answered[d.file] # s
            /\ At(q, {"dropLink"}) => ~Names(d.file, s)
        BY <2>1, <3>1, <3>2 DEF LinkOK
      <3>4. ~Names(d.file, s) => ~Names(d.file, s)'
        BY <1>8, <3>2
      <3> QED BY <1>9, <3>1, <3>2, <3>3, <3>4
    <2>4. ASSUME NEW f \in Files, Names(f, s)'
          PROVE  \/ links'[s] = f
                 \/ \E q \in Procs : (At(q, {"putLink"}) /\ Linking(q, s) /\ proc[q].file = f)'
      <3>1. CASE links[s] = f
        BY <1>9, <3>1
      <3>2. CASE links[s] # f
        <4>1. PICK q \in Procs : At(q, {"putLink"}) /\ Linking(q, s) /\ proc[q].file = f
          BY <1>8, <2>1, <2>4, <3>2 DEF LinkOK
        <4>2. q # p
          BY <1>6, <4>1
        <4> QED BY <1>2, <4>1, <4>2, Others
      <3> QED BY <3>1, <3>2
    <2>5. \A f \in Files : answered'[f] = s => links'[s] = f
      BY <1>9, <2>1 DEF LinkOK
    <2> QED BY <2>2, <2>3, <2>4, <2>5 DEF LinkOK
  <1> QED BY <1>9, <1>10 DEF LinksKept

LEMMA LinksStep ==
    ASSUME Hands, LinksKept, [Next]_vars
    PROVE  LinksKept'
  <1>1. ASSUME NEW p \in Procs, Upload(p) PROVE LinksKept'
    <2>1. PICK f \in Files \ used, s \in Shorts \cup {NULL} :
            /\ s = NULL \/ links[s] = NULL
            /\ Asks(p, [pc |-> "putMeta", file |-> f, hands |-> {f, s} \ {NULL}, short |-> s])
      BY <1>1 DEF Upload, Taken
    <2> DEFINE h == [pc |-> "putMeta", file |-> f, hands |-> {f, s} \ {NULL}, short |-> s]
    <2>2. Takes(h) /\ h.pc = "putMeta" /\ h.short = s /\ Asks(p, h)
      BY <2>1, IdsAssumption DEF Takes, FileHandler, Uploads
    <2> HIDE DEF h
    <2> QED BY <1>1, <2>1, <2>2, LinksAsk DEF Upload
  <1>2. ASSUME NEW p \in Procs, View(p) PROVE LinksKept'
    <2> DEFINE h(f) == IF meta[f] = NULL
                       THEN [pc |-> "create", file |-> f, hands |-> {f}, seen |-> Fresh]
                       ELSE [pc |-> "decide", file |-> f, hands |-> {f}, seen |-> meta[f]]
    <2>1. PICK f \in used : Asks(p, h(f))
      BY <1>2 DEF View
    <2>2. f \in Files /\ (meta[f] = NULL \/ meta[f] \in Metadata)
      BY DEF Hands, Typed
    <2>3. Fresh \in Metadata /\ Fresh.short = NULL
      BY DEF Fresh, Metadata
    <2>4. Takes(h(f)) /\ h(f).file = f /\ h(f).pc \in {"create", "decide"}
      BY <2>2, <2>3 DEF FileHandler, Views, Takes
    <2>5. h(f).seen.short = NULL \/ (meta[f] # NULL /\ meta[f].short = h(f).seen.short)
      BY <2>3
    <2> HIDE DEF h
    <2> QED BY <1>2, <2>1, <2>4, <2>5, LinksAsk DEF View
  <1>3. ASSUME NEW p \in Procs, Update(p) PROVE LinksKept'
    <2>1. PICK f \in used, m \in Metadata :
            /\ meta[f] \in Metadata
            /\ m.short = meta[f].short
            /\ Asks(p, [pc |-> "putUpdated", file |-> f, hands |-> {f}, next |-> m,
                        was |-> meta[f].list])
      BY <1>3, UpdateType DEF Hands
    <2>2. f \in Files /\ meta[f].list \in {"None", "Block", "White"} /\ meta[f] # NULL
      BY <2>1, MetadataFields DEF Hands, Typed
    <2> DEFINE h == [pc |-> "putUpdated", file |-> f, hands |-> {f}, next |-> m, was |-> meta[f].list]
    <2>3. Takes(h) /\ h.file = f /\ h.pc = "putUpdated" /\ h.next = m /\ Asks(p, h)
      BY <2>1, <2>2 DEF Takes, FileHandler, Updates
    <2> HIDE DEF h
    <2> QED BY <1>3, <2>1, <2>2, <2>3, LinksAsk DEF Update
  <1>4. ASSUME NEW p \in Procs, DeleteFile(p) PROVE LinksKept'
    <2>1. PICK f \in used, s \in Shorts \cup {NULL} :
            /\ s = IF meta[f] = NULL THEN NULL ELSE meta[f].short
            /\ Asks(p, [pc |-> "dropMeta", file |-> f, hands |-> {f, s} \ {NULL}, short |-> s])
            /\ answered' = [answered EXCEPT ![f] = NULL]
      BY <1>4, Deletes DEF Hands
    <2>2. f \in Files /\ s \in Shorts \cup {NULL}
      BY <2>1, MetadataFields DEF Typed, Hands
    <2> DEFINE h == [pc |-> "dropMeta", file |-> f, hands |-> {f, s} \ {NULL}, short |-> s]
    <2>3. Takes(h) /\ h.pc = "dropMeta" /\ h.file = f /\ h.short = s /\ Asks(p, h)
      BY <2>1, <2>2, IdsAssumption DEF Takes, FileHandler, Deletions
    <2> HIDE DEF h
    <2>4. answered'[f] = NULL /\ \A x \in Files : answered'[x] \in {answered[x], NULL}
      BY <2>1, <2>2 DEF Hands, Typed
    <2>5. s # NULL => meta[f] # NULL /\ meta[f].short = s
      BY <2>1
    <2> QED BY <1>4, <2>3, <2>4, <2>5, LinksAsk DEF DeleteFile
  <1>5. CASE UNCHANGED vars
    BY <1>5 DEF vars, requestVars, galleryVars, LinksKept, LinkOK, Names, Copy, Linking, Dropping, At
  <1> QED BY <1>1, <1>2, <1>3, <1>4, <1>5, LinksPutMeta, LinksPutLink, LinksDropLink,
         LinksKeptByCopies, LinksDropMeta, LinksEvict, LinksAlbums DEF Next, FileStart, FileStep

-----------------------------------------------------------------------------
(* The theorems *)

\* What the properties rest on holds in every reachable state: who has what in hand,
\* what is blocked, and where short ids lead.
THEOREM Invariance == Spec => []Inv
  <1>1. Init => Hands /\ BlocksKept /\ LinksKept
    <2> SUFFICES ASSUME Init PROVE Hands /\ BlocksKept /\ LinksKept
      OBVIOUS
    <2>1. Typed
      BY TypeInit
    <2>2. \A p \in Procs : proc[p] = Idle /\ proc[p] \notin FileHandler
      BY IdleIsNone DEF Init, InitRequests
    <2>3. \A p \in Procs : HandsOf(p) = {}
      BY <2>1, <2>2, HandsTyped
    <2>4. \A p \in Procs : \A s : ~Linking(p, s) /\ ~Dropping(p, s) /\ Copy(p) = NULL
      BY <2>2 DEF Linking, Dropping, Copy, At
    <2>5. InHand /\ Disjoint
      BY <2>2, <2>3 DEF InHand, Disjoint
    <2>6. BlocksKept
      BY <2>2 DEF BlocksKept, BlockSticks, Init
    <2>7. \A f \in Files : \A s : ~Names(f, s) /\ answered[f] = NULL
      BY <2>4 DEF Names, Init
    <2>8. LinksKept
      BY <2>4, <2>7, IdsAssumption DEF LinksKept, LinkOK
    <2> QED BY <2>1, <2>5, <2>6, <2>8 DEF Hands
  <1>2. Hands /\ BlocksKept /\ LinksKept /\ [Next]_vars => (Hands /\ BlocksKept /\ LinksKept)'
    BY HandsStep, BlocksStep, LinksStep
  <1>3. Hands /\ BlocksKept /\ LinksKept => Inv
    BY DEF Hands, Inv
  <1> QED BY <1>1, <1>2, <1>3, PTL DEF Spec

\* A file whose blocking was answered stays blocked until it is whitelisted or deleted,
\* whatever views, likes, moves and failures come between, unless two requests had it
\* in hand.
THEOREM BlockSticksHolds == Spec => []BlockSticks
  <1>1. Inv => BlockSticks
    BY DEF Inv, BlocksKept
  <1> QED BY <1>1, Invariance, PTL

\* The short id that an upload was answered with leads to its file until its deletion
\* is asked for, unless two requests had the id in hand or an upload failed with it.
THEOREM LinksResolveHolds == Spec => []LinksResolve
  <1>1. Inv => LinksResolve
    BY DEF Inv, LinksKept, LinkOK, LinksResolve, Typed
  <1> QED BY <1>1, Invariance, PTL

-----------------------------------------------------------------------------
(* Least numbers *)

\* For arguments about the first step of a walk at which something fails.
LEMMA LeastNumber ==
    ASSUME NEW S, S \subseteq Nat, S # {}
    PROVE  \E j \in S : \A k \in S : j <= k
  <1> DEFINE R == {ss \in Nat \X Nat : ss[1] < ss[2]}
  <1>1. IsWellFoundedOn(R, Nat)
    BY NatLessThanWellFounded DEF OpToRel
  <1>2. PICK j \in S : \A k \in S : ~(<<k, j>> \in R)
    BY <1>1, WFMin
  <1>3. \A k \in S : k \in Nat /\ j \in Nat /\ <<k, j>> \in Nat \X Nat
    OBVIOUS
  <1>4. \A k \in S : ~(k < j)
    BY <1>2, <1>3
  <1> QED BY <1>3, <1>4

-----------------------------------------------------------------------------
(* Walks up *)

\* The parent of an album, NULL above the root.
Up(b) == IF b \notin Existing THEN NULL ELSE albums[b].parent

Walk(g, a, m) == g = [n \in 0 .. m |-> IF n = 0 THEN a ELSE Up(g[n - 1])]

LEMMA WalkExists ==
    ASSUME NEW a, NEW m \in Nat
    PROVE  \E g : Walk(g, a, m)
  <1> DEFINE Bad == {k \in Nat : ~\E g : Walk(g, a, k)}
  <1>1. ASSUME Bad # {} PROVE FALSE
    <2>1. PICK k \in Bad : \A j \in Bad : k <= j
      <3>1. Bad \subseteq Nat
        OBVIOUS
      <3> HIDE DEF Bad
      <3> QED BY <1>1, <3>1, LeastNumber
    <2>2. CASE k = 0
      <3> DEFINE g == [n \in 0 .. 0 |-> a]
      <3>1. Walk(g, a, 0)
        BY DEF Walk
      <3> QED BY <2>2, <3>1
    <2>3. CASE k # 0
      <3>1. k \in Nat /\ k - 1 \in Nat /\ ~(k <= k - 1)
        BY <2>3
      <3>2. k - 1 \notin Bad
        BY <2>1, <3>1
      <3>3. PICK g : Walk(g, a, k - 1)
        BY <3>1, <3>2
      <3> DEFINE h == [n \in 0 .. k |-> IF n = k THEN Up(g[k - 1]) ELSE g[n]]
      <3>4. \A n \in 0 .. k - 1 : h[n] = g[n] /\ g[n] = IF n = 0 THEN a ELSE Up(g[n - 1])
        BY <3>1, <3>3 DEF Walk
      <3>5. h[k] = Up(g[k - 1]) /\ h[k - 1] = g[k - 1]
        BY <3>1, <3>4
      <3>6. ASSUME NEW n \in 0 .. k PROVE h[n] = IF n = 0 THEN a ELSE Up(h[n - 1])
        <4>1. CASE n = k
          BY <2>3, <3>1, <3>5, <4>1
        <4>2. CASE n = 0
          <5>1. n \in 0 .. k - 1
            BY <3>1, <4>2
          <5> QED BY <3>4, <4>2, <5>1
        <4>3. CASE n # k /\ n # 0
          <5>1. n \in 0 .. k - 1 /\ n - 1 \in 0 .. k - 1
            BY <3>1, <4>3
          <5> QED BY <3>4, <4>3, <5>1
        <4> QED BY <4>1, <4>2, <4>3
      <3>7. h = [n \in 0 .. k |-> h[n]]
        OBVIOUS
      <3> HIDE DEF h
      <3>8. Walk(h, a, k)
        BY <3>6, <3>7 DEF Walk
      <3> QED BY <3>8
    <2> QED BY <2>2, <2>3
  <1> QED BY <1>1

\* The recursive function of Above is there, and does what its equation says.
LEMMA AboveIs ==
    ASSUME NEW a
    PROVE  /\ Above(a)[0] = a
           /\ \A n \in Steps : n # 0 => n - 1 \in Steps /\ Above(a)[n] = Up(Above(a)[n - 1])
  <1>1. MaxDepth \in Nat \ {0} /\ MaxDepth + 1 \in Nat
    BY AlbumsAssumption
  <1>2. PICK g : Walk(g, a, MaxDepth + 1)
    BY <1>1, WalkExists
  <1>3. Walk(Above(a), a, MaxDepth + 1)
    BY <1>2 DEF Above, Walk, Up, Steps
  <1> DEFINE h == Above(a)
  <1> HIDE DEF h
  <1>4. h = [n \in Steps |-> IF n = 0 THEN a ELSE Up(h[n - 1])]
    BY <1>3 DEF Walk, Steps, h
  <1>5. 0 \in Steps /\ \A n \in Steps : n # 0 => n - 1 \in Steps
    BY <1>1 DEF Steps
  <1>6. h[0] = a /\ \A n \in Steps : n # 0 => h[n] = Up(h[n - 1])
    BY <1>4, <1>5
  <1> QED BY <1>5, <1>6 DEF h

-----------------------------------------------------------------------------
(* Trees *)

\* Albums hang from the root within the limit: there is a level for each.
Levelled(A, d) ==
    /\ d \in [AlbumIds -> 1 .. MaxDepth]
    /\ \A a \in AlbumIds : A[a] # NULL /\ A[a].parent # NULL =>
          A[A[a].parent] # NULL /\ d[A[a].parent] < d[a]

Tree(A) == \E d \in [AlbumIds -> 1 .. MaxDepth] : Levelled(A, d)

LEMMA LevelsMakeTree ==
    ASSUME NEW A, NEW d, Levelled(A, d)
    PROVE  Tree(A)
  BY DEF Tree, Levelled

AlbumsTyped == albums \in [AlbumIds -> Album \cup {NULL}]

LEMMA Ups ==
    ASSUME AlbumsTyped, NEW d, Levelled(albums, d)
    PROVE  /\ Up(NULL) = NULL
           /\ \A a \in Existing : a \in AlbumIds /\ a # NULL /\ d[a] \in 1 .. MaxDepth
           /\ \A a \in Existing : Up(a) = NULL \/ (Up(a) \in Existing /\ d[Up(a)] < d[a])
  BY AlbumsAssumption DEF AlbumsTyped, Levelled, Up, Existing, Album

\* Each step up is to a lower level, until the walk is above the root and stays there.
LEMMA WalkUp ==
    ASSUME AlbumsTyped, NEW d, Levelled(albums, d), NEW a \in Existing \cup {NULL}
    PROVE  \A n \in Steps :
              \/ Above(a)[n] = NULL
              \/ Above(a)[n] \in Existing /\ a # NULL /\ d[Above(a)[n]] + n <= d[a]
  <1> DEFINE h == Above(a)
             OK(n) == h[n] = NULL \/ (h[n] \in Existing /\ a # NULL /\ d[h[n]] + n <= d[a])
             Bad == {n \in Steps : ~OK(n)}
  <1>1. h[0] = a /\ \A n \in Steps : n # 0 => n - 1 \in Steps /\ h[n] = Up(h[n - 1])
    BY AboveIs
  <1>2. Steps \subseteq Nat
    BY AlbumsAssumption DEF Steps
  <1> HIDE DEF h
  <1>3. ASSUME Bad # {} PROVE FALSE
    <2>1. PICK n \in Bad : \A j \in Bad : n <= j
      <3>1. Bad \subseteq Nat
        BY <1>2
      <3> HIDE DEF Bad
      <3> QED BY <1>3, <3>1, LeastNumber
    <2>2. n \in Steps /\ n \in Nat /\ ~OK(n)
      BY <1>2
    <2>3. CASE n = 0
      <3>1. a = NULL \/ (a # NULL /\ a \in Existing /\ d[a] \in Nat)
        BY Ups
      <3> QED BY <1>1, <2>2, <2>3, <3>1
    <2>4. CASE n # 0
      <3>1. n - 1 \in Steps /\ n - 1 \in Nat /\ ~(n <= n - 1) /\ h[n] = Up(h[n - 1])
        BY <1>1, <2>2, <2>4
      <3>2. OK(n - 1)
        BY <2>1, <3>1
      <3>3. CASE h[n - 1] = NULL
        BY <2>2, <3>1, <3>3, Ups
      <3>4. CASE h[n - 1] # NULL
        <4> DEFINE b == h[n - 1]
        <4>1. b \in Existing /\ a # NULL /\ a \in Existing /\ d[b] + (n - 1) <= d[a]
          BY <3>2, <3>4
        <4> HIDE DEF b
        <4>2. h[n] = Up(b) /\ d[b] \in Nat /\ d[a] \in Nat
          BY <3>1, <4>1, Ups DEF b
        <4>3. Up(b) = NULL \/ (Up(b) \in Existing /\ d[Up(b)] \in Nat /\ d[Up(b)] < d[b])
          BY <4>1, Ups
        <4> QED BY <2>2, <4>1, <4>2, <4>3
      <3> QED BY <3>3, <3>4
    <2> QED BY <2>3, <2>4
  <1> QED BY <1>3 DEF h

\* A walk from the album above is a step ahead.
LEMMA WalkShifts ==
    ASSUME NEW a
    PROVE  \A n \in Steps : n + 1 \in Steps => Above(a)[n + 1] = Above(Up(a))[n]
  <1> DEFINE h == Above(a)
             g == Above(Up(a))
             Bad == {n \in Steps : n + 1 \in Steps /\ h[n + 1] # g[n]}
  <1>1. h[0] = a /\ \A n \in Steps : n # 0 => n - 1 \in Steps /\ h[n] = Up(h[n - 1])
    BY AboveIs
  <1>2. g[0] = Up(a) /\ \A n \in Steps : n # 0 => n - 1 \in Steps /\ g[n] = Up(g[n - 1])
    BY AboveIs
  <1>3. Steps \subseteq Nat
    BY AlbumsAssumption DEF Steps
  <1> HIDE DEF h, g
  <1>4. ASSUME Bad # {} PROVE FALSE
    <2>1. PICK n \in Bad : \A j \in Bad : n <= j
      <3>1. Bad \subseteq Nat
        BY <1>3
      <3> HIDE DEF Bad
      <3> QED BY <1>4, <3>1, LeastNumber
    <2>2. n \in Nat /\ n \in Steps /\ n + 1 \in Steps /\ n + 1 # 0 /\ (n + 1) - 1 = n
      BY <1>3
    <2>3. h[n + 1] = Up(h[n])
      BY <1>1, <2>2
    <2>4. CASE n = 0
      BY <1>1, <1>2, <2>1, <2>3, <2>4
    <2>5. CASE n # 0
      <3>1. n - 1 \in Steps /\ n - 1 \in Nat /\ ~(n <= n - 1) /\ (n - 1) + 1 = n
        BY <1>1, <2>2, <2>5
      <3>2. h[n] = g[n - 1]
        BY <2>1, <2>2, <3>1
      <3>3. g[n] = Up(g[n - 1])
        BY <1>2, <2>2, <2>5
      <3> QED BY <2>1, <2>3, <3>2, <3>3
    <2> QED BY <2>4, <2>5
  <1> QED BY <1>4 DEF h, g

-----------------------------------------------------------------------------
(* Depths and heights *)

\* The albums of a walk are within the limit, and what is above them too.
LEMMA WalkEnds ==
    ASSUME AlbumsTyped, NEW d, Levelled(albums, d), NEW a \in Existing, NEW n \in Steps,
           Above(a)[n] # NULL
    PROVE  /\ Above(a)[n] \in Existing /\ n \in 0 .. MaxDepth - 1 /\ n + 1 \in Steps
           /\ Above(a)[n + 1] = Up(Above(a)[n])
           /\ n # 0 => d[Above(a)[n]] < d[a]
  <1>1. Above(a)[n] \in Existing /\ d[Above(a)[n]] + n <= d[a]
    BY WalkUp
  <1>2. d[Above(a)[n]] \in 1 .. MaxDepth /\ d[a] \in 1 .. MaxDepth
    BY <1>1, Ups
  <1>3. MaxDepth \in Nat /\ n \in Nat
    BY AlbumsAssumption DEF Steps
  <1>4. n \in 0 .. MaxDepth - 1 /\ (n # 0 => d[Above(a)[n]] < d[a])
    BY <1>1, <1>2, <1>3
  <1>5. n + 1 \in Steps /\ n + 1 # 0 /\ (n + 1) - 1 = n
    BY <1>3, <1>4 DEF Steps
  <1>6. Above(a)[n + 1] = Up(Above(a)[n])
    BY <1>5, AboveIs
  <1> QED BY <1>1, <1>4, <1>5, <1>6

\* The path of an album: pathOf.
Chain(a) == {Above(a)[n] : n \in Steps} \cap Existing

LEMMA Depths ==
    ASSUME AlbumsTyped, NEW d, Levelled(albums, d), NEW a \in Existing
    PROVE  /\ IsFiniteSet(Chain(a)) /\ DepthOf(a) = Cardinality(Chain(a))
           /\ DepthOf(a) \in 1 .. MaxDepth
           /\ \A b \in Chain(a) : b = a \/ d[b] < d[a]
           /\ a \in Chain(a)
  <1> DEFINE h == Above(a)
             T == {h[n] : n \in 0 .. MaxDepth - 1}
  <1>1. MaxDepth \in Nat /\ MaxDepth >= 1
    BY AlbumsAssumption
  <1>2. IsFiniteSet(T) /\ Cardinality(T) <= MaxDepth
    <2>1. IsFiniteSet(0 .. MaxDepth - 1) /\ Cardinality(0 .. MaxDepth - 1) = MaxDepth
      BY <1>1, FS_Interval
    <2> DEFINE f == [n \in 0 .. MaxDepth - 1 |-> h[n]]
    <2>2. f \in Surjection(0 .. MaxDepth - 1, T)
      BY DEF Surjection
    <2> HIDE DEF f, T
    <2>3. IsFiniteSet(T) /\ Cardinality(T) <= Cardinality(0 .. MaxDepth - 1)
      BY <2>1, <2>2, FS_Surjection
    <2> QED BY <2>1, <2>3
  <1>3. Chain(a) \subseteq T
    <2> SUFFICES ASSUME NEW n \in Steps, h[n] \in Existing PROVE h[n] \in T
      BY DEF Chain
    <2>1. h[n] # NULL
      BY AlbumsAssumption DEF Existing
    <2> QED BY <2>1, WalkEnds
  <1>4. a \in Chain(a)
    BY AboveIs, <1>1 DEF Chain, Steps
  <1>5. \A b \in Chain(a) : b = a \/ d[b] < d[a]
    <2> SUFFICES ASSUME NEW n \in Steps, h[n] \in Existing PROVE h[n] = a \/ d[h[n]] < d[a]
      BY DEF Chain
    <2>1. h[n] # NULL
      BY AlbumsAssumption DEF Existing
    <2>2. n # 0 => d[h[n]] < d[a]
      BY <2>1, WalkEnds
    <2>3. h[0] = a
      BY AboveIs
    <2> QED BY <2>2, <2>3
  <1> HIDE DEF T
  <1>6. IsFiniteSet(Chain(a)) /\ Cardinality(Chain(a)) <= Cardinality(T)
    BY <1>2, <1>3, FS_Subset
  <1>7. Cardinality(Chain(a)) \in Nat /\ Cardinality(T) \in Nat /\ Cardinality(Chain(a)) # 0
    BY <1>2, <1>4, <1>6, FS_CardinalityType, FS_EmptySet
  <1>8. DepthOf(a) = Cardinality(Chain(a))
    BY DEF DepthOf, Chain
  <1> QED BY <1>1, <1>2, <1>4, <1>5, <1>6, <1>7, <1>8

\* depthOf grows with every step down.
LEMMA DeeperBelow ==
    ASSUME AlbumsTyped, NEW d, Levelled(albums, d), NEW a \in Existing, Up(a) # NULL
    PROVE  Up(a) \in Existing /\ DepthOf(Up(a)) < DepthOf(a)
  <1> DEFINE b == Up(a)
  <1>1. b \in Existing /\ d[b] < d[a] /\ d[b] \in Nat /\ d[a] \in Nat
    BY Ups
  <1> HIDE DEF b
  <1>2. /\ IsFiniteSet(Chain(a)) /\ DepthOf(a) = Cardinality(Chain(a)) /\ a \in Chain(a)
        /\ IsFiniteSet(Chain(b)) /\ DepthOf(b) = Cardinality(Chain(b))
        /\ DepthOf(a) \in Nat /\ DepthOf(b) \in Nat
        /\ \A x \in Chain(b) : x = b \/ d[x] < d[b]
    BY <1>1, Depths
  <1>3. Chain(b) \subseteq Chain(a)
    <2> SUFFICES ASSUME NEW n \in Steps, Above(b)[n] \in Existing PROVE Above(b)[n] \in Chain(a)
      BY DEF Chain
    <2>1. Above(b)[n] # NULL
      BY AlbumsAssumption DEF Existing
    <2>2. n + 1 \in Steps
      BY <1>1, <2>1, WalkEnds
    <2>3. Above(a)[n + 1] = Above(b)[n]
      BY <2>2, WalkShifts DEF b
    <2> QED BY <2>2, <2>3 DEF Chain
  <1>4. a \notin Chain(b)
    <2> SUFFICES ASSUME a \in Chain(b) PROVE FALSE
      OBVIOUS
    <2>1. a = b \/ d[a] < d[b]
      BY <1>2
    <2> QED BY <1>1, <2>1
  <1>5. Cardinality(Chain(b)) <= Cardinality(Chain(a)) /\ Cardinality(Chain(b)) # Cardinality(Chain(a))
    BY <1>2, <1>3, <1>4, FS_Subset
  <1> QED BY <1>1, <1>2, <1>5 DEF b

LEMMA Heights ==
    ASSUME AlbumsTyped, NEW d, Levelled(albums, d), NEW a \in Existing
    PROVE  /\ HeightOf(a) \in 1 .. MaxDepth
           /\ \A n \in Levels(a) : n + 1 <= HeightOf(a)
           /\ \E n \in Levels(a) : HeightOf(a) = n + 1
  <1>1. MaxDepth \in Nat /\ MaxDepth >= 1
    BY AlbumsAssumption
  <1>2. a # NULL
    BY AlbumsAssumption DEF Existing
  <1>3. \A n \in Levels(a) : n \in 0 .. MaxDepth - 1
    BY <1>2, WalkEnds DEF Levels
  <1>4. 0 \in Levels(a)
    BY <1>1, AboveIs DEF Levels, Steps
  <1>5. \E h \in {n + 1 : n \in Levels(a)} : \A n \in Levels(a) : n + 1 <= h
    <2> DEFINE S == {m \in Nat : \E n \in Levels(a) : m = MaxDepth - n}
    <2>1. MaxDepth \in S /\ S \subseteq Nat
      BY <1>1, <1>4
    <2>2. PICK j \in S : \A k \in S : j <= k
      <3> HIDE DEF S
      <3> QED BY <2>1, LeastNumber
    <2>3. PICK m \in Levels(a) : j = MaxDepth - m
      OBVIOUS
    <2>4. ASSUME NEW n \in Levels(a) PROVE n + 1 <= m + 1
      <3>1. MaxDepth - n \in S /\ n \in Nat /\ m \in Nat
        BY <1>1, <1>3, <2>3
      <3>2. MaxDepth - m <= MaxDepth - n
        BY <2>2, <2>3, <3>1
      <3> QED BY <1>1, <3>1, <3>2
    <2> QED BY <2>4
  <1>6. /\ HeightOf(a) \in {n + 1 : n \in Levels(a)}
        /\ \A n \in Levels(a) : n + 1 <= HeightOf(a)
    BY <1>5 DEF HeightOf
  <1> QED BY <1>1, <1>3, <1>6

\* subtreeHeight grows with every step up.
LEMMA HigherAbove ==
    ASSUME AlbumsTyped, NEW d, Levelled(albums, d), NEW a \in Existing, Up(a) # NULL
    PROVE  HeightOf(a) < HeightOf(Up(a))
  <1>1. Up(a) \in Existing /\ a # NULL
    BY Ups
  <1>2. PICK n \in Levels(a) : HeightOf(a) = n + 1
    BY Heights
  <1>3. PICK x \in Existing : n \in Steps /\ Above(x)[n] = a
    BY <1>2 DEF Levels
  <1>4. n + 1 \in Steps /\ Above(x)[n + 1] = Up(a)
    BY <1>1, <1>3, WalkEnds
  <1>5. n + 1 \in Levels(Up(a))
    BY <1>4 DEF Levels
  <1>6. (n + 1) + 1 <= HeightOf(Up(a)) /\ n \in Nat /\ HeightOf(Up(a)) \in Nat
    BY <1>1, <1>3, <1>5, Heights, AlbumsAssumption DEF Steps
  <1> QED BY <1>2, <1>6

-----------------------------------------------------------------------------
(* Changes of the tree *)

Below(a) == {x \in Existing : x = a \/ IsDescendant(x, a)}

LEMMA BelowIs ==
    ASSUME AlbumsTyped, NEW d, Levelled(albums, d), NEW a \in Existing, NEW x \in Existing, x # a
    PROVE  x \in Below(a) <=> Up(x) \in Below(a)
  <1>1. a # NULL /\ Up(x) \in Existing \cup {NULL} /\ NULL \notin Existing
    BY Ups, AlbumsAssumption DEF Existing
  <1>2. Above(x)[1] = Up(x) /\ 1 \in Steps /\ Above(x)[0] = x
    <2>1. 1 \in Steps /\ 1 # 0 /\ 1 - 1 = 0
      BY AlbumsAssumption DEF Steps
    <2> QED BY <2>1, AboveIs
  <1>3. ASSUME x \in Below(a) PROVE Up(x) \in Below(a)
    <2>1. PICK n \in Steps \ {0} : Above(x)[n] = a
      BY <1>3 DEF Below, IsDescendant
    <2>2. n - 1 \in Steps /\ (n - 1) + 1 = n /\ n \in Nat
      BY <2>1, AlbumsAssumption DEF Steps
    <2>3. Above(Up(x))[n - 1] = a
      BY <2>1, <2>2, WalkShifts
    <2>4. Up(x) # NULL
      <3> SUFFICES ASSUME Up(x) = NULL PROVE FALSE
        OBVIOUS
      <3>1. Above(NULL)[n - 1] = NULL
        BY <2>2, WalkUp
      <3> QED BY <1>1, <2>3, <3>1
    <2>5. CASE n - 1 = 0
      <3>1. Above(Up(x))[0] = Up(x)
        BY AboveIs
      <3> QED BY <1>1, <2>3, <2>4, <2>5, <3>1 DEF Below
    <2>6. CASE n - 1 # 0
      BY <1>1, <2>2, <2>3, <2>4, <2>6 DEF Below, IsDescendant
    <2> QED BY <2>5, <2>6
  <1>4. ASSUME Up(x) \in Below(a) PROVE x \in Below(a)
    <2>1. Up(x) \in Existing
      BY <1>4 DEF Below
    <2>2. CASE Up(x) = a
      BY <1>2, <2>2 DEF Below, IsDescendant
    <2>3. CASE Up(x) # a
      <3>1. PICK n \in Steps \ {0} : Above(Up(x))[n] = a
        BY <1>4, <2>3 DEF Below, IsDescendant
      <3>2. n + 1 \in Steps
        BY <1>1, <2>1, <3>1, WalkEnds
      <3>3. Above(x)[n + 1] = a /\ n + 1 # 0
        BY <3>1, <3>2, WalkShifts, AlbumsAssumption DEF Steps
      <3> QED BY <3>2, <3>3 DEF Below, IsDescendant
    <2> QED BY <2>2, <2>3
  <1> QED BY <1>3, <1>4

\* PATCH: what validateParent admits leaves a tree. The albums below what is moved get
\* levels by their heights, the others keep their depths.
LEMMA Reparented ==
    ASSUME AlbumsTyped, Tree(albums), NEW a \in Existing, NEW r \in Album,
           ValidParent(a, r.parent, r.name)
    PROVE  Tree([albums EXCEPT ![a] = r])
  <1>1. PICK d : Levelled(albums, d)
    BY DEF Tree
  <1> DEFINE A == [albums EXCEPT ![a] = r]
             S == Below(a)
             e == [x \in AlbumIds |-> IF x \notin Existing THEN 1
                                      ELSE IF x \in S THEN MaxDepth + 1 - HeightOf(x)
                                      ELSE DepthOf(x)]
  <1>2. MaxDepth \in Nat /\ MaxDepth >= 1 /\ r # NULL /\ a # NULL /\ NULL \notin Existing
    BY AlbumsAssumption DEF Existing
  <1>3. \A x \in Existing : DepthOf(x) \in 1 .. MaxDepth
    BY <1>1, Depths
  <1>4. \A x \in Existing : HeightOf(x) \in 1 .. MaxDepth
    BY <1>1, Heights
  <1>5. /\ \A x \in Existing : e[x] \in 1 .. MaxDepth
        /\ \A x \in Existing \cap S : e[x] = MaxDepth + 1 - HeightOf(x)
        /\ \A x \in Existing \ S : e[x] = DepthOf(x)
    <2>1. Existing \subseteq AlbumIds
      BY DEF Existing
    <2>2. \A x \in Existing : MaxDepth + 1 - HeightOf(x) \in 1 .. MaxDepth
      BY <1>2, <1>4
    <2> HIDE DEF S
    <2> QED BY <1>3, <2>1, <2>2
  <1>6. e \in [AlbumIds -> 1 .. MaxDepth]
    <2>1. \A x \in AlbumIds : x \notin Existing => e[x] = 1
      OBVIOUS
    <2> HIDE DEF e
    <2>2. \A x \in AlbumIds : e[x] \in 1 .. MaxDepth
      BY <1>2, <1>5, <2>1
    <2>3. e = [x \in AlbumIds |-> e[x]]
      BY DEF e
    <2> QED BY <2>2, <2>3
  <1>7. /\ \A x \in AlbumIds : A[x] # NULL <=> x \in Existing
        /\ A[a] = r /\ \A x \in AlbumIds : x # a => A[x] = albums[x]
    BY <1>2 DEF AlbumsTyped, Existing
  <1> HIDE DEF A, e
  <1>8. a \in S
    BY DEF Below
  <1>9. ASSUME r.parent # NULL
        PROVE  r.parent \in Existing /\ e[r.parent] < e[a]
    <2>1. r.parent \in Existing /\ a # r.parent /\ ~IsDescendant(r.parent, a)
          /\ DepthOf(r.parent) + HeightOf(a) <= MaxDepth
      BY <1>2, <1>9 DEF ValidParent, Cyclic
    <2>2. r.parent \notin S
      BY <2>1 DEF Below
    <2>3. e[r.parent] = DepthOf(r.parent) /\ e[a] = MaxDepth + 1 - HeightOf(a)
      BY <1>5, <1>8, <2>1, <2>2
    <2>4. DepthOf(r.parent) \in Nat /\ HeightOf(a) \in Nat
      BY <1>3, <1>4, <2>1
    <2> QED BY <1>2, <2>1, <2>3, <2>4
  <1>10. ASSUME NEW x \in Existing, x # a, albums[x].parent # NULL
         PROVE  albums[x].parent \in Existing /\ e[albums[x].parent] < e[x]
    <2> DEFINE y == Up(x)
    <2>1. y = albums[x].parent /\ y # NULL
      BY <1>10 DEF Up
    <2>2. y \in Existing /\ DepthOf(y) < DepthOf(x) /\ HeightOf(x) < HeightOf(y)
      BY <1>1, <2>1, DeeperBelow, HigherAbove
    <2>3. x \in S <=> y \in S
      BY <1>1, <1>10, BelowIs
    <2> HIDE DEF y
    <2>4. /\ DepthOf(y) \in Nat /\ DepthOf(x) \in Nat
          /\ HeightOf(x) \in Nat /\ HeightOf(y) \in Nat
      BY <1>3, <1>4, <1>10, <2>2
    <2>5. CASE x \in S
      <3>1. e[x] = MaxDepth + 1 - HeightOf(x) /\ e[y] = MaxDepth + 1 - HeightOf(y)
        BY <1>5, <1>10, <2>2, <2>3, <2>5
      <3> QED BY <1>2, <2>1, <2>2, <2>4, <3>1
    <2>6. CASE x \notin S
      <3>1. e[x] = DepthOf(x) /\ e[y] = DepthOf(y)
        BY <1>5, <1>10, <2>2, <2>3, <2>6
      <3> QED BY <2>1, <2>2, <3>1
    <2> QED BY <2>5, <2>6
  <1>11. ASSUME NEW x \in AlbumIds, A[x] # NULL, A[x].parent # NULL
         PROVE  A[A[x].parent] # NULL /\ e[A[x].parent] < e[x]
    <2>1. A[x].parent \in Existing /\ e[A[x].parent] < e[x]
      BY <1>7, <1>9, <1>10, <1>11
    <2> QED BY <1>7, <2>1 DEF Existing
  <1>12. Levelled(A, e)
    BY <1>6, <1>11 DEF Levelled
  <1> QED BY <1>12, LevelsMakeTree DEF A

\* POST: a new album hangs below an old one or from the root.
LEMMA Created ==
    ASSUME AlbumsTyped, Tree(albums), NEW a \in AlbumIds \ Existing, NEW r \in Album,
           ValidParent(NULL, r.parent, r.name)
    PROVE  Tree([albums EXCEPT ![a] = r])
  <1>1. PICK d : Levelled(albums, d)
    BY DEF Tree
  <1> DEFINE A == [albums EXCEPT ![a] = r]
             low == IF r.parent = NULL THEN 0 ELSE DepthOf(r.parent)
             e == [x \in AlbumIds |-> IF x = a THEN low + 1
                                      ELSE IF x \in Existing THEN DepthOf(x) ELSE 1]
  <1>2. MaxDepth \in Nat /\ MaxDepth >= 1 /\ r # NULL
    BY AlbumsAssumption
  <1>3. \A x \in Existing : DepthOf(x) \in 1 .. MaxDepth
    BY <1>1, Depths
  <1>4. low + 1 <= MaxDepth /\ (r.parent # NULL => r.parent \in Existing)
    BY DEF ValidParent
  <1>5. low \in Nat
    BY <1>3, <1>4
  <1>6. /\ e[a] = low + 1
        /\ \A x \in Existing : x # a /\ e[x] = DepthOf(x)
    BY DEF Existing
  <1>7. e \in [AlbumIds -> 1 .. MaxDepth]
    <2> HIDE DEF low
    <2>1. \A x \in AlbumIds : e[x] \in 1 .. MaxDepth
      BY <1>2, <1>3, <1>4, <1>5
    <2> QED BY <2>1
  <1>8. /\ \A x \in AlbumIds : A[x] # NULL <=> x \in Existing \cup {a}
        /\ A[a] = r /\ \A x \in AlbumIds : x # a => A[x] = albums[x]
    BY <1>2 DEF AlbumsTyped, Existing
  <1> HIDE DEF A, e
  <1>9. ASSUME r.parent # NULL PROVE e[r.parent] < e[a]
    BY <1>3, <1>4, <1>6, <1>9
  <1>10. ASSUME NEW x \in Existing, albums[x].parent # NULL
         PROVE  albums[x].parent \in Existing /\ e[albums[x].parent] < e[x]
    <2>1. Up(x) = albums[x].parent
      BY DEF Up
    <2>2. Up(x) \in Existing /\ DepthOf(Up(x)) < DepthOf(x)
      BY <1>1, <1>10, <2>1, DeeperBelow
    <2> QED BY <1>6, <2>1, <2>2
  <1>11. ASSUME NEW x \in AlbumIds, A[x] # NULL, A[x].parent # NULL
         PROVE  A[A[x].parent] # NULL /\ e[A[x].parent] < e[x]
    <2>1. A[x].parent \in Existing /\ e[A[x].parent] < e[x]
      BY <1>4, <1>6, <1>8, <1>9, <1>10, <1>11
    <2> QED BY <1>8, <2>1 DEF Existing
  <1>12. Levelled(A, e)
    BY <1>7, <1>11 DEF Levelled
  <1> QED BY <1>12, LevelsMakeTree DEF A

\* reparentChildren: a child goes to the parent of its parent.
LEMMA LiftedChild ==
    ASSUME AlbumsTyped, Tree(albums), NEW a \in Existing, NEW c \in Existing, NEW r \in Album,
           albums[c].parent = a, r.parent = albums[a].parent
    PROVE  c # a /\ Tree([albums EXCEPT ![c] = r])
  <1>1. PICK d : Levelled(albums, d)
    BY DEF Tree
  <1> DEFINE A == [albums EXCEPT ![c] = r]
  <1>2. r # NULL /\ a # NULL /\ c \in AlbumIds /\ a \in AlbumIds
    BY AlbumsAssumption DEF Existing
  <1>3. d[a] < d[c] /\ \A x \in AlbumIds : d[x] \in Nat
    BY <1>1, <1>2, AlbumsAssumption DEF Levelled, Existing
  <1>4. c # a
    BY <1>2, <1>3
  <1>5. /\ \A x \in AlbumIds : A[x] # NULL <=> x \in Existing
        /\ A[c] = r /\ \A x \in AlbumIds : x # c => A[x] = albums[x]
    BY <1>2 DEF AlbumsTyped, Existing
  <1>6. \A x \in Existing : albums[x].parent # NULL =>
            albums[x].parent \in Existing /\ d[albums[x].parent] < d[x]
    BY <1>1 DEF Levelled, AlbumsTyped, Album, Existing
  <1>7. r.parent # NULL => r.parent \in Existing /\ d[r.parent] < d[c]
    BY <1>3, <1>6 DEF Existing
  <1> HIDE DEF A
  <1>8. Levelled(A, d)
    BY <1>1, <1>5, <1>6, <1>7 DEF Levelled, Existing
  <1> QED BY <1>4, <1>8, LevelsMakeTree DEF A

\* deleteAlbum: what has no children can go.
LEMMA Dropped ==
    ASSUME AlbumsTyped, Tree(albums), NEW a \in AlbumIds, ChildrenOf(a) = {}
    PROVE  Tree([albums EXCEPT ![a] = NULL])
  <1>1. PICK d : Levelled(albums, d)
    BY DEF Tree
  <1>2. \A x \in AlbumIds : albums[x] # NULL => albums[x].parent # a
    BY DEF ChildrenOf, Existing
  <1> DEFINE A == [albums EXCEPT ![a] = NULL]
  <1>3. /\ A[a] = NULL
        /\ \A x \in AlbumIds : x # a => A[x] = albums[x]
        /\ \A x \in AlbumIds : albums[x] # NULL => albums[x].parent \in AlbumIds \cup {NULL}
    BY DEF AlbumsTyped, Album
  <1> HIDE DEF A
  <1>4. Levelled(A, d)
    BY <1>1, <1>2, <1>3 DEF Levelled
  <1> QED BY <1>4, LevelsMakeTree DEF A

\* In a tree every walk up ends at the root, within the limit.
LEMMA TreeIsRooted ==
    ASSUME AlbumsTyped, Tree(albums), NEW a \in Existing
    PROVE  /\ DepthOf(a) <= MaxDepth
           /\ \E n \in Steps : Above(a)[n] \in Existing /\ albums[Above(a)[n]].parent = NULL
  <1>1. PICK d : Levelled(albums, d)
    BY DEF Tree
  <1>2. DepthOf(a) <= MaxDepth
    BY <1>1, Depths, AlbumsAssumption
  <1> DEFINE S == {n \in Steps : Above(a)[n] = NULL}
  <1>3. MaxDepth \in Steps /\ Steps \subseteq Nat /\ MaxDepth \in Nat
    BY AlbumsAssumption DEF Steps
  <1>4. Above(a)[MaxDepth] = NULL
    <2> SUFFICES ASSUME Above(a)[MaxDepth] # NULL PROVE FALSE
      OBVIOUS
    <2>1. MaxDepth \in 0 .. MaxDepth - 1
      BY <1>1, <1>3, WalkEnds
    <2> QED BY <1>3, <2>1
  <1>5. PICK n \in S : \A k \in S : n <= k
    <2>1. MaxDepth \in S /\ S \subseteq Nat
      BY <1>3, <1>4
    <2> HIDE DEF S
    <2> QED BY <2>1, LeastNumber
  <1>6. n # 0
    <2>1. Above(a)[0] = a /\ a # NULL
      BY AboveIs, AlbumsAssumption DEF Existing
    <2> QED BY <1>5, <2>1
  <1>7. n - 1 \in Steps /\ Above(a)[n] = Up(Above(a)[n - 1]) /\ n \in Nat /\ Above(a)[n] = NULL
    BY <1>3, <1>5, <1>6, AboveIs
  <1>8. Above(a)[n - 1] # NULL
    <2>1. ~(n <= n - 1)
      BY <1>7
    <2> QED BY <1>5, <1>7, <2>1
  <1>9. Above(a)[n - 1] \in Existing
    BY <1>1, <1>7, <1>8, WalkEnds
  <1>10. albums[Above(a)[n - 1]].parent = NULL
    BY <1>7, <1>9 DEF Up
  <1> QED BY <1>2, <1>7, <1>9, <1>10

-----------------------------------------------------------------------------
(* The albums while requests do not overlap *)

\* What a handler h may do to the albums A keeps them a tree: the write of a record leaves one,
\* and what a deletion is about to lift are the children of its album.
Fine(h, A) ==
    /\ h \in Puts => Tree([A EXCEPT ![h.id] = h.album])
    /\ h \in Lifts =>
        /\ A[h.id] # NULL
        /\ \A c \in h.lifted : /\ A[c.id] # NULL /\ A[c.id].parent = h.id
                               /\ c.album.parent = A[h.id].parent
        /\ \A b, c \in h.lifted : b.id = c.id => b = c
        /\ \A x \in AlbumIds : A[x] # NULL /\ A[x].parent = h.id =>
                \E c \in h.lifted : c.id = x

AlbumsKept ==
    ~overlapped =>
        /\ \A p, q \in Busy : p = q
        /\ Tree(albums)
        /\ \A p \in Procs : Fine(proc[p], albums)

LEMMA KeptInit ==
    ASSUME Init
    PROVE  AlbumsKept
  <1>1. Levelled(albums, [a \in AlbumIds |-> 1])
    BY AlbumsAssumption DEF Init, InitAlbums, Levelled
  <1>2. Tree(albums)
    BY <1>1, LevelsMakeTree
  <1>3. \A p \in Procs : proc[p] = Idle
    BY DEF Init, InitRequests
  <1>4. Idle \notin Puts \cup Lifts
    BY DEF Idle, Puts, Lifts
  <1> QED BY <1>2, <1>3, <1>4 DEF AlbumsKept, Busy, Fine

\* A step of the only handler that is busy.
LEMMA Kept ==
    ASSUME Typed, AlbumsKept, NEW p \in Procs, NEW h, proc' = [proc EXCEPT ![p] = h],
           ~overlapped' => /\ ~overlapped /\ (proc[p] # Idle \/ Busy = {})
                           /\ Tree(albums') /\ Fine(h, albums')
    PROVE  AlbumsKept'
  <1> SUFFICES ASSUME ~overlapped'
               PROVE  /\ \A q, r \in Busy' : q = r
                      /\ Tree(albums')
                      /\ \A q \in Procs : Fine(proc'[q], albums')
    BY DEF AlbumsKept
  <1>1. \A q \in Procs : q # p => proc[q] = Idle
    BY DEF AlbumsKept, Busy
  <1>2. proc'[p] = h /\ \A q \in Procs : q # p => proc'[q] = Idle
    BY <1>1 DEF Typed
  <1>3. Idle \notin Puts \cup Lifts
    BY DEF Idle, Puts, Lifts
  <1>4. Fine(Idle, albums')
    BY <1>3 DEF Fine
  <1> QED BY <1>2, <1>4 DEF Busy

LEMMA FileStarts ==
    ASSUME NEW p \in Procs, FileStart(p)
    PROVE  \E h : h \notin Puts \cup Lifts /\ proc' = [proc EXCEPT ![p] = h]
  <1>1. ASSUME NEW h, Asks(p, h), h.pc # "putAlbum", h.pc # "lift"
        PROVE  h \notin Puts \cup Lifts /\ proc' = [proc EXCEPT ![p] = h]
    BY <1>1 DEF Asks, Begin, Puts, Lifts
  <1>2. CASE Upload(p)
    <2>1. PICK f, s : Asks(p, [pc |-> "putMeta", file |-> f, hands |-> {f, s} \ {NULL}, short |-> s])
      BY <1>2 DEF Upload
    <2> QED BY <1>1, <2>1
  <1>3. CASE View(p)
    <2>1. PICK f : Asks(p, IF meta[f] = NULL
                           THEN [pc |-> "create", file |-> f, hands |-> {f}, seen |-> Fresh]
                           ELSE [pc |-> "decide", file |-> f, hands |-> {f}, seen |-> meta[f]])
      BY <1>3 DEF View
    <2> QED BY <1>1, <2>1
  <1>4. CASE Update(p)
    <2>1. PICK f, m : Asks(p, [pc |-> "putUpdated", file |-> f, hands |-> {f}, next |-> m,
                               was |-> meta[f].list])
      BY <1>4 DEF Update
    <2> QED BY <1>1, <2>1
  <1>5. CASE DeleteFile(p)
    <2>1. PICK f, s : Asks(p, [pc |-> "dropMeta", file |-> f, hands |-> {f, s} \ {NULL}, short |-> s])
      BY <1>5 DEF DeleteFile
    <2> QED BY <1>1, <2>1
  <1> QED BY <1>2, <1>3, <1>4, <1>5 DEF FileStart

\* Nothing that is done about a file touches the albums.
LEMMA KeptByFiles ==
    ASSUME Typed, AlbumsKept, NEW p \in Procs, FileStart(p) \/ FileStep(p) \/ GalleryEvict(p)
    PROVE  AlbumsKept'
  <1>1. albums' = albums /\ (~overlapped' => ~overlapped /\ (proc[p] # Idle \/ Busy = {}))
    <2>1. CASE FileStart(p)
      BY <2>1 DEF FileStart, Upload, View, Update, DeleteFile, Asks, Begin
    <2>2. CASE FileStep(p)
      <3>1. proc[p] # Idle
        BY <2>2, FileStepHandler DEF FileHandler, Uploads, Views, Updates, Deletions, Idle
      <3>2. albums' = albums /\ overlapped' = overlapped
        BY <2>2 DEF FileStep, PutMeta, PutLink, CreateMeta, Decide, PutSeen, PutUpdated,
                    DropMeta, DropLink, WritesMeta, Write
      <3> QED BY <3>1, <3>2
    <2>3. CASE GalleryEvict(p)
      BY <2>3 DEF GalleryEvict, Evict
    <2> QED BY <2>1, <2>2, <2>3
  <1>2. PICK h : h \notin Puts \cup Lifts /\ proc' = [proc EXCEPT ![p] = h]
    <2>1. CASE FileStart(p)
      BY <2>1, FileStarts
    <2>2. CASE FileStep(p) \/ GalleryEvict(p)
      <3>1. PICK h \in {Idle} \cup FileHandler : Moves(p, h)
        BY <2>2, FileMoves
      <3>2. h \notin Puts \cup Lifts
        BY DEF Idle, FileHandler, Uploads, Views, Updates, Deletions, Puts, Lifts
      <3> QED BY <3>1, <3>2 DEF Moves
    <2> QED BY <2>1, <2>2
  <1>4. ~overlapped' => Tree(albums') /\ Fine(h, albums')
    BY <1>1, <1>2 DEF AlbumsKept, Fine
  <1> QED BY <1>1, <1>2, <1>4, Kept

\* A request about albums begins: what it decided from the list is so.
LEMMA KeptByAlbumStarts ==
    ASSUME Typed, AlbumsKept, NEW p \in Procs, AlbumStart(p)
    PROVE  AlbumsKept'
  <1>0. AlbumsTyped
    BY DEF Typed, AlbumsTyped
  <1>1. CASE CreateAlbum(p)
    <2>1. PICK a \in AlbumIds \ Existing, name \in AlbumNames, parent \in AlbumIds \cup {NULL} :
            ValidParent(NULL, parent, name) /\ PutsAlbum(p, a, name, parent)
      BY <1>1 DEF CreateAlbum
    <2> DEFINE r == [name |-> name, parent |-> parent]
               h == [pc |-> "putAlbum", id |-> a, album |-> r]
    <2>2. r \in Album /\ r.parent = parent /\ r.name = name
      BY DEF Album
    <2> HIDE DEF r
    <2>3. h.id = a /\ h.album = r /\ h \notin Lifts
      BY DEF Lifts
    <2>4. Begin(p, h) /\ albums' = albums
      BY <1>1, <2>1 DEF PutsAlbum, CreateAlbum, r
    <2> HIDE DEF h
    <2>5. Tree(albums) => Fine(h, albums)
      BY <1>0, <2>1, <2>2, <2>3, Created DEF Fine
    <2>6. /\ proc' = [proc EXCEPT ![p] = h]
          /\ ~overlapped' => ~overlapped /\ Busy = {}
      BY <2>4 DEF Begin
    <2> QED BY <2>4, <2>5, <2>6, Kept DEF AlbumsKept
  <1>2. CASE PatchAlbum(p)
    <2>1. PICK a \in Existing, name \in AlbumNames, parent \in AlbumIds \cup {NULL} :
            ValidParent(a, parent, name) /\ PutsAlbum(p, a, name, parent)
      BY <1>2 DEF PatchAlbum
    <2> DEFINE r == [name |-> name, parent |-> parent]
               h == [pc |-> "putAlbum", id |-> a, album |-> r]
    <2>2. r \in Album /\ r.parent = parent /\ r.name = name
      BY DEF Album
    <2> HIDE DEF r
    <2>3. h.id = a /\ h.album = r /\ h \notin Lifts
      BY DEF Lifts
    <2>4. Begin(p, h) /\ albums' = albums
      BY <1>2, <2>1 DEF PutsAlbum, PatchAlbum, r
    <2> HIDE DEF h
    <2>5. Tree(albums) => Fine(h, albums)
      BY <1>0, <2>1, <2>2, <2>3, Reparented DEF Fine
    <2>6. /\ proc' = [proc EXCEPT ![p] = h]
          /\ ~overlapped' => ~overlapped /\ Busy = {}
      BY <2>4 DEF Begin
    <2> QED BY <2>4, <2>5, <2>6, Kept DEF AlbumsKept
  <1>3. CASE DeleteAlbum(p)
    <2> DEFINE entry(c, a) == [id |-> c, album |-> [albums[c] EXCEPT !.parent = albums[a].parent]]
               h(a) == [pc |-> "lift", id |-> a, lifted |-> {entry(c, a) : c \in Lifted(a)}]
    <2>1. PICK a \in Existing : Begin(p, h(a))
      BY <1>3 DEF DeleteAlbum
    <2>2. a \in AlbumIds /\ albums[a] # NULL
      BY DEF Existing
    <2>3. \A c \in Lifted(a) : /\ c \in AlbumIds /\ albums[c] # NULL /\ albums[c].parent = a
                               /\ entry(c, a).id = c
                               /\ entry(c, a).album.parent = albums[a].parent
      BY <1>0 DEF Lifted, ChildrenOf, Existing, AlbumsTyped, Album
    <2>4. \A x \in AlbumIds : albums[x] # NULL /\ albums[x].parent = a => x \in Lifted(a)
      BY DEF Lifted, ChildrenOf, Existing
    <2> HIDE DEF entry
    <2>5. /\ h(a) \notin Puts /\ h(a).id = a
          /\ h(a).lifted = {entry(c, a) : c \in Lifted(a)}
      BY DEF Puts
    <2> HIDE DEF h
    <2>6. Fine(h(a), albums)
      BY <2>2, <2>3, <2>4, <2>5 DEF Fine
    <2>7. /\ proc' = [proc EXCEPT ![p] = h(a)]
          /\ ~overlapped' => ~overlapped /\ Busy = {}
      BY <2>1 DEF Begin
    <2>8. albums' = albums
      BY <1>3 DEF DeleteAlbum
    <2> QED BY <2>6, <2>7, <2>8, Kept DEF AlbumsKept
  <1> QED BY <1>1, <1>2, <1>3 DEF AlbumStart

\* The calls of such a request, each of which may fail with or without its effect.
LEMMA KeptByAlbumSteps ==
    ASSUME Typed, AlbumsKept, NEW p \in Procs, AlbumStep(p)
    PROVE  AlbumsKept'
  <1> DEFINE e == proc[p]
  <1>0. e \in Handler /\ AlbumsTyped /\ Idle \notin Puts \cup Lifts
    BY DEF Typed, AlbumsTyped, Idle, Puts, Lifts
  <1>a. ~overlapped => Tree(albums) /\ Fine(e, albums)
    BY DEF AlbumsKept
  <1> HIDE DEF e
  <1>b. \A A : Fine(Idle, A)
    BY <1>0 DEF Fine
  <1>1. CASE PutAlbum(p)
    <2>1. e \in Puts /\ e # Idle /\ proc[p] = e
      BY <1>0, <1>1, HandlerKinds DEF PutAlbum, e
    <2>2. /\ proc' = [proc EXCEPT ![p] = Idle] /\ overlapped' = overlapped
          /\ albums' = albums \/ albums' = [albums EXCEPT ![e.id] = e.album]
      BY <1>1 DEF PutAlbum, WritesAlbum, Write, Finish, e
    <2>3. ~overlapped => Tree(albums')
      BY <1>a, <2>1, <2>2 DEF Fine
    <2> QED BY <1>b, <2>1, <2>2, <2>3, Kept
  <1>2. CASE LiftChild(p)
    <2>1. e \in Lifts /\ e # Idle /\ proc[p] = e
      BY <1>0, <1>2, HandlerKinds DEF LiftChild, e
    <2>2. PICK c \in e.lifted :
            WritesAlbum(p, c.id, c.album, proc' = [proc EXCEPT ![p].lifted = @ \ {c}])
      BY <1>2, <2>1 DEF LiftChild
    <2>3. c.id \in AlbumIds /\ c.album \in Album /\ e.id \in AlbumIds
      BY <2>1 DEF Lifts, Entry
    <2> DEFINE A == [albums EXCEPT ![c.id] = c.album]
               h == [e EXCEPT !.lifted = e.lifted \ {c}]
    <2>4. ASSUME ~overlapped
          PROVE  Tree(A) /\ c.id # e.id
      <3>1. /\ albums[c.id] # NULL /\ albums[c.id].parent = e.id /\ albums[e.id] # NULL
            /\ c.album.parent = albums[e.id].parent
        BY <1>a, <2>1, <2>4 DEF Fine
      <3> QED BY <1>0, <1>a, <2>3, <2>4, <3>1, LiftedChild DEF Existing
    <2>5. h \in Lifts /\ h.id = e.id /\ h.lifted = e.lifted \ {c}
      BY <2>1 DEF Lifts
    <2>6. /\ A[c.id] = c.album /\ c.album # NULL
          /\ \A x \in AlbumIds : x # c.id => A[x] = albums[x]
      BY <1>0, <2>3, AlbumsAssumption DEF AlbumsTyped
    <2>7. /\ overlapped' = overlapped
          /\ \/ albums' = A /\ proc' = [proc EXCEPT ![p] = h]
             \/ (albums' = A \/ albums' = albums) /\ proc' = [proc EXCEPT ![p] = Idle]
      BY <2>1, <2>2 DEF WritesAlbum, Write, Finish
    <2> HIDE DEF A, h
    <2>8. ASSUME ~overlapped
          PROVE  Fine(h, A)
      <3> DEFINE old == e.lifted
      <3>1. /\ albums[e.id] # NULL
            /\ \A b \in old : /\ albums[b.id] # NULL /\ albums[b.id].parent = e.id
                              /\ b.album.parent = albums[e.id].parent
            /\ \A b, k \in old : b.id = k.id => b = k
            /\ \A x \in AlbumIds : albums[x] # NULL /\ albums[x].parent = e.id =>
                    \E k \in old : k.id = x
        BY <1>a, <2>1, <2>8 DEF Fine
      <3>2. c \in old /\ \A b \in old : b \in Entry
        BY <2>1 DEF Lifts
      <3> HIDE DEF old
      <3>3. A[e.id] = albums[e.id]
        BY <2>3, <2>4, <2>6, <2>8
      <3>4. \A b \in old \ {c} : b.id # c.id /\ b.id \in AlbumIds /\ A[b.id] = albums[b.id]
        BY <2>6, <3>1, <3>2 DEF Entry
      <3>5. A[c.id].parent # e.id
        <4>1. albums[e.id].parent # e.id
          <5>1. PICK d : Levelled(albums, d)
            BY <1>a, <2>8 DEF Tree
          <5>2. d[e.id] \in Nat
            BY <2>3, <5>1, AlbumsAssumption DEF Levelled
          <5>3. e.id # NULL
            BY <2>3, AlbumsAssumption
          <5> QED BY <2>3, <3>1, <5>1, <5>2, <5>3 DEF Levelled
        <4> QED BY <2>6, <3>1, <3>2, <4>1
      <3>6. ASSUME NEW x \in AlbumIds, A[x] # NULL, A[x].parent = e.id
            PROVE  \E k \in old \ {c} : k.id = x
        <4>1. x # c.id
          BY <3>5, <3>6
        <4>2. PICK k \in old : k.id = x
          BY <2>6, <3>1, <3>6, <4>1
        <4> QED BY <4>1, <4>2
      <3>7. h \notin Puts /\ h.lifted = old \ {c}
        BY <2>5 DEF Lifts, Puts, old
      <3> QED BY <2>5, <3>1, <3>3, <3>4, <3>6, <3>7 DEF Fine
    <2>9. CASE albums' = A /\ proc' = [proc EXCEPT ![p] = h]
      BY <2>1, <2>4, <2>7, <2>8, <2>9, Kept
    <2>10. CASE (albums' = A \/ albums' = albums) /\ proc' = [proc EXCEPT ![p] = Idle]
      BY <1>a, <1>b, <2>1, <2>4, <2>7, <2>10, Kept
    <2> QED BY <2>7, <2>9, <2>10
  <1>3. CASE DropAlbum(p)
    <2>1. e \in Lifts /\ e # Idle /\ proc[p] = e /\ e.lifted = {}
      BY <1>0, <1>3, HandlerKinds DEF DropAlbum, e
    <2>2. /\ proc' = [proc EXCEPT ![p] = Idle] /\ overlapped' = overlapped
          /\ albums' = albums \/ albums' = [albums EXCEPT ![e.id] = NULL]
      BY <1>3 DEF DropAlbum, WritesAlbum, Write, Finish, e
    <2>3. e.id \in AlbumIds
      BY <2>1 DEF Lifts
    <2>4. ASSUME ~overlapped PROVE Tree(albums')
      <3>1. ChildrenOf(e.id) = {}
        BY <1>a, <2>1, <2>4 DEF Fine, ChildrenOf, Existing
      <3> QED BY <1>0, <1>a, <2>2, <2>3, <2>4, <3>1, Dropped
    <2> QED BY <1>b, <2>1, <2>2, <2>4, Kept
  <1> QED BY <1>1, <1>2, <1>3 DEF AlbumStep

\* While requests do not overlap the albums are a tree and what handlers are about to write keeps
\* them one (putAlbum, reparentChildren and deleteAlbum after validateParent).
THEOREM AlbumsStayTree == Spec => [](Typed /\ AlbumsKept)
  <1>1. Init => Typed /\ AlbumsKept
    BY TypeInit, KeptInit
  <1>2. Typed /\ AlbumsKept /\ [Next]_vars => Typed' /\ AlbumsKept'
    <2> SUFFICES ASSUME Typed, AlbumsKept, [Next]_vars PROVE AlbumsKept'
      BY TypeStep
    <2>1. CASE UNCHANGED vars
      <3>1. UNCHANGED <<proc, overlapped, albums>>
        BY <2>1 DEF vars, requestVars
      <3> QED BY <3>1 DEF AlbumsKept, Busy
    <2>2. CASE Next
      BY <2>2, KeptByFiles, KeptByAlbumStarts, KeptByAlbumSteps DEF Next
    <2> QED BY <2>1, <2>2
  <1> QED BY <1>1, <1>2, PTL DEF Spec

\* Every album hangs from the root within MAX_ALBUM_DEPTH, and every walk up ends, as long
\* as requests do not overlap, whatever moves, deletions and failures there were.
THEOREM RootedHolds == Spec => []Rooted
  <1>1. Typed /\ AlbumsKept => Rooted
    <2> SUFFICES ASSUME Typed, AlbumsKept, ~overlapped, NEW a \in Existing
                 PROVE  /\ DepthOf(a) <= MaxDepth
                        /\ \E n \in Steps : /\ Above(a)[n] \in Existing
                                             /\ albums[Above(a)[n]].parent = NULL
      BY DEF Rooted
    <2>1. AlbumsTyped /\ Tree(albums)
      BY DEF Typed, AlbumsTyped, AlbumsKept
    <2> QED BY <2>1, TreeIsRooted
  <1> QED BY <1>1, AlbumsStayTree, PTL

=============================================================================
