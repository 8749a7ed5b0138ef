------------------------ MODULE ObjectStorage_proofs ------------------------
(***************************************************************************)
(* Proofs about ObjectStorage and the repair of its index, for every       *)
(* number of handlers, keys, objects and revisions and whatever calls fail.*)
(***************************************************************************)
EXTENDS MCObjectStorage, ObjectIndexRepair, FiniteSetTheorems, WellFoundedInduction, TLAPS

-----------------------------------------------------------------------------
(* Types *)

\* What a handler's program point says about the rest of its state.
HandlerOK(h) ==
    /\ h.pc = "idle" <=> h = Idle
    /\ h.pc # "idle" => h.key \in Keys /\ h.req \in Request
    /\ h.pc = "readCurrent" => h.cand = NULL
    /\ h.pc \notin {"idle", "readCurrent"} => h.cand \in Manifest

Shape == \A p \in Procs : HandlerOK(proc[p])

\* The documents sent to Telegram are finitely many, so that counting them makes sense.
Typed == TypeOK /\ Shape /\ IsFiniteSet(bytes) /\ IsFiniteSet(events)

\* What every step does to the handlers.
Moves(p) == \E h \in Handler : HandlerOK(h) /\ proc' = [proc EXCEPT ![p] = h]

LEMMA IdleOK == Idle \in Handler /\ HandlerOK(Idle)
  BY NullAssumption DEF Idle, Handler, HandlerOK, Attempts

LEMMA MovesTyped ==
  ASSUME Typed, NEW p \in Procs, Moves(p)
  PROVE  proc' \in [Procs -> Handler] /\ Shape'
  <1>1. PICK h \in Handler : HandlerOK(h) /\ proc' = [proc EXCEPT ![p] = h]
    BY DEF Moves
  <1>2. ASSUME NEW q \in Procs PROVE proc'[q] \in Handler /\ HandlerOK(proc'[q])
    BY <1>1 DEF Typed, TypeOK, Shape
  <1>3. proc' \in [Procs -> Handler]
    BY <1>1 DEF Typed, TypeOK
  <1> QED BY <1>2, <1>3 DEF Shape, HandlerOK

LEMMA EndMoves ==
  ASSUME NEW p \in Procs, proc' = [proc EXCEPT ![p] = Idle]
  PROVE  Moves(p)
  BY IdleOK DEF Moves

\* A handler that goes on with the candidate it has, or with another one.
LEMMA GoOn ==
  ASSUME Typed, NEW p \in Procs, proc[p].pc # "idle",
         NEW pc \in Points \ {"readCurrent"}, NEW cand \in Manifest, NEW n \in 0 .. Attempts,
         proc' = [proc EXCEPT ![p] = [proc[p] EXCEPT !.pc = pc, !.cand = cand, !.tries = n]]
  PROVE  Moves(p)
  <1> DEFINE h == [proc[p] EXCEPT !.pc = pc, !.cand = cand, !.tries = n]
  <1>1. proc[p] \in Handler /\ HandlerOK(proc[p])
    BY DEF Typed, TypeOK, Shape
  <1>2. h \in Handler
    BY <1>1 DEF Handler
  <1>3. /\ h.pc = pc /\ h.key = proc[p].key /\ h.req = proc[p].req /\ h.cand = cand
        /\ pc # "idle"
    BY <1>1 DEF Handler, Points
  <1>4. HandlerOK(h)
    BY <1>1, <1>3 DEF HandlerOK, Idle
  <1> QED BY <1>2, <1>4 DEF Moves

LEMMA MoveMoves ==
  ASSUME Typed, NEW p \in Procs, proc[p].pc \notin {"idle", "readCurrent"},
         NEW pc \in Points \ {"readCurrent"}, Move(p, pc)
  PROVE  Moves(p)
  <1>1. /\ proc[p] \in Handler /\ proc[p].cand \in Manifest
    BY DEF Typed, TypeOK, Shape, HandlerOK
  <1>2. [proc[p] EXCEPT !.pc = pc]
          = [proc[p] EXCEPT !.pc = pc, !.cand = proc[p].cand, !.tries = proc[p].tries]
    BY <1>1 DEF Handler
  <1>3. proc[p].tries \in 0 .. Attempts
    BY <1>1 DEF Handler
  <1> QED BY <1>1, <1>2, <1>3, GoOn DEF Move

LEMMA TypedMove ==
  ASSUME Typed, NEW p \in Procs, Moves(p), UNCHANGED <<telegram, kv, answers>>,
         faults' \in 0 .. MaxFaults
  PROVE  Typed'
  BY MovesTyped DEF Typed, TypeOK, telegram, kv

LEMMA ResumePointType ==
  ASSUME NEW entry \in Entry
  PROVE  ResumePoint(entry) \in {"upload", "post", "readRevision"}
  BY DEF ResumePoint, Entry, Request

LEMMA TypedStart ==
  ASSUME Typed, NEW p \in Procs, NEW k \in Keys, NEW req \in Request, StartMutation(p, k, req)
  PROVE  Typed' /\ Moves(p)
  <1> DEFINE h == [Idle EXCEPT !.pc = "readCurrent", !.key = k, !.req = req]
  <1>1. h \in Handler /\ HandlerOK(h)
    BY IdleOK DEF Handler, HandlerOK, Idle, Points
  <1>2. Moves(p)
    BY <1>1 DEF StartMutation, Moves
  <1> QED BY <1>2, TypedMove DEF StartMutation, Typed, TypeOK

LEMMA TypedRetry ==
  ASSUME Typed, NEW p \in Procs, NEW k \in Keys, RetryMutation(p, k)
  PROVE  Typed'
  <1> DEFINE entry == outbox[k]
             h == [pc |-> ResumePoint(entry), key |-> k, req |-> entry.req,
                   cand |-> entry.cand, tries |-> 0]
  <1>1. entry \in Entry
    BY DEF RetryMutation, Typed, TypeOK
  <1>2. CASE entry.status = "applied"
    <2>1. AnswerOf(k, entry.cand, "ok") \in Answer
      BY <1>1 DEF Entry, Manifest, AnswerOf, Answer
    <2> QED BY <1>2, <2>1 DEF RetryMutation, Typed, TypeOK, Shape, HandlerOK, telegram, kv
  <1>3. CASE entry.status # "applied"
    <2>1. h \in Handler /\ HandlerOK(h)
      BY <1>1, ResumePointType DEF Entry, Handler, HandlerOK, Idle, Points, Attempts
    <2>2. Moves(p)
      BY <1>3, <2>1 DEF RetryMutation, Moves
    <2> QED BY <1>3, <2>2, TypedMove DEF RetryMutation, Typed, TypeOK
  <1> QED BY <1>2, <1>3

LEMMA CandidateType ==
  ASSUME Typed, NEW req \in Request, NEW rev \in Revs,
         NEW cur \in Manifest \cup {NULL}, req.op = "delete" => Active(cur),
         cur # NULL => cur.version < MaxVersion
  PROVE  CandidateOf(req, cur, rev) \in Manifest
  <1>1. req.op = "put" => req.body \in Bodies
    BY DEF Request
  <1>2. (IF cur = NULL THEN 1 ELSE cur.version + 1) \in 1 .. MaxVersion
    BY BoundAssumption DEF Manifest
  <1>3. (IF cur = NULL THEN NoParent ELSE cur.rev) \in Revs \cup {NoParent}
    BY DEF Manifest
  <1>4. (IF req.op = "put" THEN req.body ELSE cur.body) \in Bodies
    BY <1>1 DEF Active, Manifest, Request
  <1>5. (IF req.op = "put" THEN NULL ELSE cur.storage) \in Pointer \cup {NULL}
    BY DEF Active, Manifest, Request
  <1> QED BY <1>2, <1>3, <1>4, <1>5 DEF CandidateOf, Manifest, Request

LEMMA BuildMoves ==
  ASSUME Typed, NEW p \in Procs, BuildCandidate(p)
  PROVE  Moves(p)
  <1> DEFINE cur == manifest[proc[p].req.obj]
  <1>1. /\ proc[p] \in Handler /\ proc[p].req \in Request /\ proc[p].pc = "readCurrent"
        /\ cur \in Manifest \cup {NULL}
    BY DEF BuildCandidate, Typed, TypeOK, Shape, HandlerOK, Request
  <1>2. PICK rev \in Revs :
          proc' = [proc EXCEPT ![p].pc = "writeIntent",
                               ![p].cand = CandidateOf(proc[p].req, cur, rev)]
    BY DEF BuildCandidate, FreshRevs
  <1> DEFINE cand == CandidateOf(proc[p].req, cur, rev)
  <1>3. cand \in Manifest
    BY <1>1, CandidateType DEF BuildCandidate
  <1> HIDE DEF cand
  <1>4. proc' = [proc EXCEPT ![p] =
                   [proc[p] EXCEPT !.pc = "writeIntent", !.cand = cand, !.tries = proc[p].tries]]
    BY <1>1, <1>2 DEF Handler, cand
  <1>5. proc[p].tries \in 0 .. Attempts
    BY <1>1 DEF Handler
  <1> QED BY <1>1, <1>3, <1>4, <1>5, GoOn DEF Points

LEMMA TypedLocal ==
  ASSUME Typed, NEW p \in Procs,
         \/ RejectMutation(p) \/ BuildCandidate(p) \/ StopAtBound(p) \/ FailHandler(p)
         \/ ReadRevision(p) \/ ReadBucket(p)
  PROVE  Typed' /\ Moves(p)
  <1>1. Moves(p)
    <2>1. CASE ReadRevision(p) \/ ReadBucket(p)
      <3>1. \/ proc' = [proc EXCEPT ![p] = Idle]
            \/ Move(p, "putRevision") \/ Move(p, "readManifest")
            \/ Move(p, "putLeaf") \/ Move(p, "putBucket")
        BY <2>1 DEF ReadRevision, ReadBucket
      <3> QED BY <2>1, <3>1, EndMoves, MoveMoves DEF ReadRevision, ReadBucket, Points
    <2> QED BY <2>1, BuildMoves, EndMoves DEF RejectMutation, StopAtBound, FailHandler
  <1>2. faults' \in 0 .. MaxFaults
    BY BoundAssumption
    DEF RejectMutation, BuildCandidate, StopAtBound, FailHandler, ReadRevision, ReadBucket,
        Typed, TypeOK
  <1> QED BY <1>1, <1>2, TypedMove
      DEF RejectMutation, BuildCandidate, StopAtBound, FailHandler, ReadRevision, ReadBucket

LEMMA TypedOutbox ==
  ASSUME Typed, NEW p \in Procs, WriteIntent(p) \/ WriteUploaded(p) \/ WriteReady(p)
  PROVE  Typed' /\ Moves(p)
  <1>1. PICK status \in Statuses, next \in {"upload", "post", "readRevision"} :
          WriteOutbox(p, status, next)
    BY DEF WriteIntent, WriteUploaded, WriteReady, Statuses
  <1>2. proc[p].pc \notin {"idle", "readCurrent"}
    BY DEF WriteIntent, WriteUploaded, WriteReady
  <1>3. Moves(p)
    BY <1>1, <1>2, MoveMoves DEF WriteOutbox, Points
  <1>4. proc[p].key \in Keys /\ EntryOf(proc[p], status) \in Entry
    BY <1>2 DEF Typed, TypeOK, Shape, HandlerOK, EntryOf, Entry
  <1> QED BY <1>1, <1>3, <1>4, MovesTyped DEF WriteOutbox, telegram, Typed, TypeOK

LEMMA CopyNumber ==
  ASSUME NEW S, IsFiniteSet(S), NEW T, T \subseteq S, Cardinality(T) + 1 <= MaxCopies
  PROVE  Cardinality(T) + 1 \in 1 .. MaxCopies
  BY FS_Subset, FS_CardinalityType, BoundAssumption

LEMMA TypedSend ==
  ASSUME Typed, NEW p \in Procs, UploadBytes(p) \/ PostEvent(p)
  PROVE  Typed' /\ Moves(p)
  <1>1. /\ proc[p] \in Handler /\ proc[p].cand \in Manifest /\ proc[p].tries \in 0 .. Attempts
        /\ proc[p].cand.rev \in Revs /\ proc[p].cand.body \in Bodies /\ proc[p].pc # "idle"
    BY DEF UploadBytes, PostEvent, Typed, TypeOK, Shape, HandlerOK, Handler, Manifest
  <1>2. CASE UploadBytes(p)
    <2> DEFINE T == {d \in bytes : d[1][1] = proc[p].cand.rev}
               pointer == <<proc[p].cand.rev, Cardinality(T) + 1>>
    <2>1. pointer \in Pointer
      BY <1>1, <1>2, CopyNumber DEF UploadBytes, Typed, Pointer
    <2> HIDE DEF pointer
    <2>2. [proc[p].cand EXCEPT !.storage = pointer] \in Manifest
      BY <1>1, <2>1 DEF Manifest
    <2>3. /\ bytes' = bytes \cup {<<pointer, proc[p].cand.body>>}
          /\ proc' = [proc EXCEPT ![p].pc = "writeUploaded", ![p].cand.storage = pointer]
      BY <1>2 DEF UploadBytes, pointer
    <2>4. proc' = [proc EXCEPT ![p] = [proc[p] EXCEPT !.pc = "writeUploaded",
                     !.cand = [proc[p].cand EXCEPT !.storage = pointer],
                     !.tries = proc[p].tries]]
      BY <1>1, <2>3 DEF Handler
    <2>5. Moves(p)
      BY <1>1, <2>2, <2>4, GoOn DEF Points
    <2>6. IsFiniteSet(bytes')
      BY <2>3, FS_AddElement DEF Typed
    <2>7. bytes' \subseteq Pointer \X Bodies
      BY <1>1, <2>1, <2>3 DEF Typed, TypeOK
    <2>8. UNCHANGED <<events, revisions, manifest, bucket, leaves, outbox, answers, faults>>
      BY <1>2 DEF UploadBytes, kv
    <2> QED BY <2>5, <2>6, <2>7, <2>8, MovesTyped DEF Typed, TypeOK
  <1>3. CASE PostEvent(p)
    <2> DEFINE T == {e \in events : e[1] = proc[p].cand.rev}
               pointer == <<proc[p].cand.rev, Cardinality(T) + 1>>
    <2>1. pointer \in Pointer
      BY <1>1, <1>3, CopyNumber DEF PostEvent, Typed, Pointer
    <2> HIDE DEF pointer
    <2>2. [proc[p].cand EXCEPT !.event = pointer] \in Manifest
      BY <1>1, <2>1 DEF Manifest
    <2>3. /\ events' = events \cup {pointer}
          /\ proc' = [proc EXCEPT ![p].pc = "writeReady", ![p].cand.event = pointer]
      BY <1>3 DEF PostEvent, pointer
    <2>4. proc' = [proc EXCEPT ![p] = [proc[p] EXCEPT !.pc = "writeReady",
                     !.cand = [proc[p].cand EXCEPT !.event = pointer],
                     !.tries = proc[p].tries]]
      BY <1>1, <2>3 DEF Handler
    <2>5. Moves(p)
      BY <1>1, <2>2, <2>4, GoOn DEF Points
    <2>6. IsFiniteSet(events')
      BY <2>3, FS_AddElement DEF Typed
    <2> QED BY <1>1, <1>3, <2>1, <2>3, <2>5, <2>6, MovesTyped DEF PostEvent, kv, Typed, TypeOK
  <1> QED BY <1>2, <1>3

LEMMA TypedIndexWrites ==
  ASSUME Typed, NEW p \in Procs,
         PutRevision(p) \/ PutBucket(p) \/ PutLeaf(p) \/ RemoveLeaf(p)
  PROVE  Typed' /\ Moves(p)
  <1>1. /\ proc[p].cand \in Manifest /\ proc[p].pc \notin {"idle", "readCurrent"}
        /\ proc[p].cand.obj \in Objects /\ proc[p].cand.rev \in Revs
    BY DEF PutRevision, PutBucket, PutLeaf, RemoveLeaf, Typed, Shape, HandlerOK, Manifest
  <1>2. Moves(p)
    BY <1>1, MoveMoves DEF PutRevision, PutBucket, PutLeaf, RemoveLeaf, Points
  <1> QED BY <1>1, <1>2, MovesTyped
      DEF PutRevision, PutBucket, PutLeaf, RemoveLeaf, telegram, Typed, TypeOK

LEMMA TypedManifest ==
  ASSUME Typed, NEW p \in Procs, ReadManifest(p) \/ PutManifest(p)
  PROVE  Typed' /\ Moves(p)
  <1>1. /\ proc[p] \in Handler /\ proc[p].cand \in Manifest /\ proc[p].tries \in 0 .. Attempts
        /\ proc[p].key \in Keys /\ proc[p].cand.obj \in Objects
        /\ proc[p].pc \in {"readManifest", "putManifest"}
    BY DEF ReadManifest, PutManifest, Typed, TypeOK, Shape, HandlerOK, Handler, Manifest
  <1>2. CASE ReadManifest(p)
    <2> DEFINE cur == manifest[proc[p].cand.obj]
               pc == IF Active(cur) THEN "readBucket" ELSE "removeLeaf"
    <2>1. CASE IsCurrent(cur, proc[p])
      <3>1. cur \in Manifest
        BY <1>1, <2>1 DEF IsCurrent, Typed, TypeOK
      <3>2. /\ proc' = [proc EXCEPT ![p] = [proc[p] EXCEPT !.pc = pc, !.cand = cur,
                                                          !.tries = proc[p].tries]]
            /\ UNCHANGED answers
        BY <1>1, <1>2, <2>1 DEF ReadManifest, Handler
      <3>3. Moves(p)
        BY <1>1, <3>1, <3>2, GoOn DEF Points
      <3> QED BY <1>2, <3>2, <3>3, TypedMove DEF ReadManifest, Typed, TypeOK
    <2>2. CASE Move(p, "putManifest") /\ UNCHANGED answers
      <3>1. Moves(p)
        BY <1>1, <2>2, MoveMoves DEF Points
      <3> QED BY <1>2, <2>2, <3>1, TypedMove DEF ReadManifest, Typed, TypeOK
    <2>3. CASE Conflict(p)
      <3>1. Moves(p)
        BY <2>3, EndMoves DEF Conflict
      <3>2. AnswerOf(proc[p].key, proc[p].cand, "conflict") \in Answer
        BY <1>1 DEF AnswerOf, Answer, Manifest
      <3> QED BY <1>2, <2>3, <3>1, <3>2, MovesTyped
          DEF ReadManifest, Conflict, telegram, kv, Typed, TypeOK
    <2> QED BY <1>2, <2>1, <2>2, <2>3 DEF ReadManifest
  <1>3. CASE PutManifest(p)
    <2>1. Moves(p)
      <3>1. CASE proc[p].tries + 1 < Attempts
        <4>1. proc' = [proc EXCEPT ![p] = [proc[p] EXCEPT !.pc = "readManifest",
                         !.cand = proc[p].cand, !.tries = proc[p].tries + 1]]
          BY <1>1, <1>3, <3>1 DEF PutManifest, Handler
        <4>2. proc[p].tries + 1 \in 0 .. Attempts
          BY <1>1, <3>1 DEF Attempts
        <4> QED BY <1>1, <4>1, <4>2, GoOn DEF Points
      <3>2. CASE ~(proc[p].tries + 1 < Attempts)
        BY <1>3, <3>2, EndMoves DEF PutManifest
      <3> QED BY <3>1, <3>2
    <2> QED BY <1>1, <1>3, <2>1, MovesTyped DEF PutManifest, telegram, Typed, TypeOK
  <1> QED BY <1>2, <1>3

LEMMA TypedReceipt ==
  ASSUME Typed, NEW p \in Procs, WriteApplied(p)
  PROVE  Typed' /\ Moves(p)
  <1>1. proc[p].cand \in Manifest /\ proc[p].key \in Keys /\ proc[p].req \in Request
    BY DEF WriteApplied, Typed, Shape, HandlerOK
  <1>2. /\ EntryOf(proc[p], "applied") \in Entry
        /\ AnswerOf(proc[p].key, proc[p].cand, "ok") \in Answer
    BY <1>1 DEF EntryOf, Entry, Statuses, AnswerOf, Answer, Manifest
  <1>3. Moves(p)
    BY EndMoves DEF WriteApplied
  <1>4. faults' \in 0 .. MaxFaults
    BY BoundAssumption DEF WriteApplied, Typed, TypeOK
  <1>5. outbox' \in [Keys -> Entry \cup {NULL}] /\ answers' \subseteq Answer
    BY <1>1, <1>2 DEF WriteApplied, Typed, TypeOK
  <1> QED BY <1>3, <1>4, <1>5, MovesTyped DEF WriteApplied, telegram, Typed, TypeOK

LEMMA TypedExpire ==
  ASSUME Typed, NEW k \in Keys, ExpireReceipt(k)
  PROVE  Typed'
  BY DEF ExpireReceipt, telegram, Typed, TypeOK, Shape, HandlerOK

LEMMA TypedBucket ==
  ASSUME Typed, CreateBucketMarker
  PROVE  Typed'
  BY DEF CreateBucketMarker, telegram, Typed, TypeOK, Shape, HandlerOK

LEMMA TypedUnchanged ==
  ASSUME Typed, UNCHANGED vars
  PROVE  Typed'
  BY DEF vars, telegram, kv, Typed, TypeOK, Shape, HandlerOK

LEMMA TypedStep ==
  ASSUME Typed, NEW p \in Procs, Step(p)
  PROVE  Typed' /\ Moves(p)
  BY TypedLocal, TypedOutbox, TypedSend, TypedIndexWrites, TypedManifest, TypedReceipt DEF Step

LEMMA TypedNext ==
  ASSUME Typed, [Next]_vars
  PROVE  Typed'
  BY TypedStart, TypedRetry, TypedStep, TypedLocal, TypedExpire, TypedBucket, TypedUnchanged
  DEF Next, Call, RefuseReusedKey

LEMMA TypedInit ==
  ASSUME Init
  PROVE  Typed
  <1>1. proc \in [Procs -> Handler] /\ Shape
    BY IdleOK DEF Init, Shape
  <1>2. IsFiniteSet({})
    BY FS_EmptySet
  <1>3. TypeOK
    <2>1. /\ revisions \in [Revs -> Manifest \cup {NULL}]
          /\ manifest \in [Objects -> Manifest \cup {NULL}]
          /\ outbox \in [Keys -> Entry \cup {NULL}]
      BY DEF Init
    <2>2. bucket \in BOOLEAN
      BY DEF Init
    <2>3. faults \in 0 .. MaxFaults
      BY BoundAssumption DEF Init
    <2> QED BY <1>1, <2>1, <2>2, <2>3 DEF Init, TypeOK
  <1> QED BY <1>1, <1>2, <1>3 DEF Init, Typed

\* The index and the chat hold what the code's normalizers accept, in every reachable state.
THEOREM TypeCorrect == Spec => []TypeOK
  <1>1. Init => Typed
    BY TypedInit
  <1>2. Typed /\ [Next]_vars => Typed'
    BY TypedNext
  <1>3. Typed => TypeOK
    BY DEF Typed
  <1> QED BY <1>1, <1>2, <1>3, PTL DEF Spec

-----------------------------------------------------------------------------
(* Manifests in use, and how a step changes them *)

\* Every copy of a manifest that a later step can read.
InUse(m) ==
    \/ \E r \in Revs : revisions[r] # NULL /\ m = revisions[r]
    \/ \E o \in Objects : manifest[o] # NULL /\ m = manifest[o]
    \/ \E k \in Keys : outbox[k] # NULL /\ m = outbox[k].cand
    \/ \E p \in Procs : proc[p].cand # NULL /\ m = proc[p].cand

\* Two copies of one revision differ in where Telegram has it, and a tombstone keeps
\* the bytes it was made with.
Same(x, y) ==
    /\ x.rev = y.rev
    /\ x.obj = y.obj /\ x.state = y.state /\ x.version = y.version
    /\ x.parent = y.parent /\ x.body = y.body
    /\ x.state = "deleted" => x.storage = y.storage

OneCandidatePerRev == \A x, y : InUse(x) /\ InUse(y) /\ x.rev = y.rev => Same(x, y)

\* The bytes sent for a revision are its content.
BytesOfRev ==
    \A d \in bytes :
        /\ \A e \in bytes : d[1][1] = e[1][1] => d[2] = e[2]
        /\ \A x : InUse(x) /\ x.rev = d[1][1] => x.body = d[2]

\* A revision continues one that is recorded, by the rules of its operation.
Descends(x) ==
    /\ (x.parent = NoParent) = (x.version = 1)
    /\ x.parent # NoParent =>
         /\ revisions[x.parent] # NULL
         /\ revisions[x.parent].obj = x.obj
         /\ revisions[x.parent].version + 1 = x.version
         /\ x.state = "deleted" => revisions[x.parent].state = "active"
    /\ x.state = "deleted" => x.parent # NoParent

AllDescend == \A x : InUse(x) => Descends(x)

Uploaded(m) == <<m.storage, m.body>> \in bytes

RecordedPcs == {"readManifest", "putManifest", "readBucket", "putBucket", "putLeaf",
                "removeLeaf", "writeApplied"}

SentPcs == {"writeReady", "readRevision", "putRevision"} \cup RecordedPcs

StateOf(req) == IF req.op = "put" THEN "active" ELSE "deleted"

\* What a handler at a program point has sent and written.
StageOK(p) ==
    LET h == proc[p] IN
    /\ h.pc \notin {"idle", "readCurrent"} => h.cand.state = StateOf(h.req)
    /\ h.pc \in {"upload", "writeUploaded"} => h.req.op = "put"
    /\ \/ h.pc \in {"writeUploaded", "post"}
       \/ h.pc = "writeIntent" /\ h.req.op = "delete"
       => Uploaded(h.cand)
    /\ h.pc \in SentPcs => Stored(h.cand)
    /\ h.pc \in RecordedPcs => revisions[h.cand.rev] # NULL

\* What an outbox entry promises to the handler that resumes it.
EntryOK(k) ==
    outbox[k] # NULL =>
        /\ outbox[k].cand.state = StateOf(outbox[k].req)
        /\ outbox[k].status = "uploaded" => Uploaded(outbox[k].cand)
        /\ outbox[k].status = "intent" /\ outbox[k].req.op = "delete" => Uploaded(outbox[k].cand)
        /\ outbox[k].status \in {"ready", "applied"} => Stored(outbox[k].cand)

RecordOK(r) == revisions[r] # NULL => revisions[r].rev = r /\ Stored(revisions[r])

ManifestOK(o) ==
    manifest[o] # NULL =>
        /\ manifest[o].obj = o
        /\ Stored(manifest[o])
        /\ revisions[manifest[o].rev] # NULL

Stages ==
    /\ \A p \in Procs : StageOK(p)
    /\ \A k \in Keys : EntryOK(k)
    /\ \A r \in Revs : RecordOK(r)
    /\ \A o \in Objects : ManifestOK(o)

Copies == OneCandidatePerRev /\ BytesOfRev /\ AllDescend

Staged == Typed /\ Stages /\ Copies

\* Nothing that was sent or recorded is lost.
Grows ==
    /\ bytes \subseteq bytes' /\ events \subseteq events'
    /\ \A r \in Revs : revisions[r] # NULL => revisions'[r] # NULL

LEMMA NextGrows ==
  ASSUME Typed, [Next]_vars
  PROVE  Grows
  <1>1. UNCHANGED <<telegram, revisions>> => Grows
    BY DEF Grows, telegram
  <1>2. ASSUME NEW p \in Procs, Step(p) PROVE Grows
    <2>1. CASE PutRevision(p)
      <3>1. proc[p].cand \in Manifest
        BY <2>1 DEF PutRevision, Typed, Shape, HandlerOK
      <3> QED BY <2>1, <3>1, NullAssumption DEF PutRevision, telegram, Typed, TypeOK, Grows
    <2>2. CASE UploadBytes(p) \/ PostEvent(p)
      BY <2>2 DEF UploadBytes, PostEvent, kv, Grows
    <2>3. ~PutRevision(p) /\ ~UploadBytes(p) /\ ~PostEvent(p) => UNCHANGED <<telegram, revisions>>
      BY <1>2 DEF Step, RejectMutation, BuildCandidate, StopAtBound, WriteIntent, WriteUploaded,
         WriteReady, WriteOutbox, ReadRevision, ReadManifest, PutManifest, ReadBucket,
         PutBucket, PutLeaf, RemoveLeaf, WriteApplied, kv
    <2> QED BY <1>1, <2>1, <2>2, <2>3
  <1>3. ASSUME NEW p \in Procs, Call(p) \/ FailHandler(p) PROVE UNCHANGED <<telegram, revisions>>
    BY <1>3 DEF Call, StartMutation, RetryMutation, RefuseReusedKey, FailHandler, vars, kv
  <1>4. ASSUME NEW k \in Keys, ExpireReceipt(k) PROVE UNCHANGED <<telegram, revisions>>
    BY <1>4 DEF ExpireReceipt
  <1>5. CASE CreateBucketMarker \/ UNCHANGED vars
    BY <1>1, <1>5 DEF CreateBucketMarker, vars, kv
  <1> QED BY <1>1, <1>2, <1>3, <1>4, <1>5 DEF Next

\* What holds of a handler, an entry, a record or a manifest goes on to hold while it
\* is as it was.
LEMMA StageStays ==
  ASSUME Stages, Grows
  PROVE  /\ \A p \in Procs : proc'[p] = proc[p] /\ HandlerOK(proc[p]) => StageOK(p)'
         /\ \A k \in Keys : outbox'[k] = outbox[k] => EntryOK(k)'
         /\ \A r \in Revs : revisions'[r] = revisions[r] => RecordOK(r)'
         /\ \A o \in Objects : manifest'[o] = manifest[o]
                               /\ (manifest[o] # NULL => manifest[o] \in Manifest) => ManifestOK(o)'
  <1>1. \A m : (Uploaded(m) => Uploaded(m)') /\ (Stored(m) => Stored(m)')
    BY DEF Grows, Uploaded, Stored
  <1>2. ASSUME NEW p \in Procs, proc'[p] = proc[p], HandlerOK(proc[p]) PROVE StageOK(p)'
    <2>1. proc[p].pc \in RecordedPcs => proc[p].cand.rev \in Revs
      BY <1>2 DEF HandlerOK, Manifest, RecordedPcs
    <2> QED BY <1>1, <1>2, <2>1 DEF Stages, StageOK, Grows
  <1>3. ASSUME NEW k \in Keys, outbox'[k] = outbox[k] PROVE EntryOK(k)'
    BY <1>1, <1>3 DEF Stages, EntryOK
  <1>4. ASSUME NEW r \in Revs, revisions'[r] = revisions[r] PROVE RecordOK(r)'
    BY <1>1, <1>4 DEF Stages, RecordOK
  <1>5. ASSUME NEW o \in Objects, manifest'[o] = manifest[o],
               manifest[o] # NULL => manifest[o] \in Manifest
        PROVE  ManifestOK(o)'
    BY <1>1, <1>5 DEF Stages, ManifestOK, Grows, Manifest
  <1> QED BY <1>2, <1>3, <1>4, <1>5

\* A step that changes handler p alone.
LEMMA StageLocal ==
  ASSUME Typed, Stages, Grows, NEW p \in Procs, Moves(p) \/ UNCHANGED proc,
         UNCHANGED <<revisions, manifest, outbox>>, StageOK(p)'
  PROVE  Stages'
  <1>1. \A q \in Procs : q # p => proc'[q] = proc[q]
    BY DEF Moves, Typed, TypeOK
  <1>2. \A q \in Procs : StageOK(q)'
    BY <1>1, StageStays DEF Typed, Shape
  <1>3. (\A k \in Keys : EntryOK(k)') /\ (\A r \in Revs : RecordOK(r)')
    BY StageStays
  <1>4. \A o \in Objects : ManifestOK(o)'
    BY StageStays DEF Typed, TypeOK
  <1> QED BY <1>2, <1>3, <1>4 DEF Stages

LEMMA StagesStart ==
  ASSUME Typed, Stages, NEW p \in Procs, NEW k \in Keys,
         \/ \E req \in Request : StartMutation(p, k, req)
         \/ RetryMutation(p, k)
  PROVE  Stages'
  <1>1. Grows
    BY DEF StartMutation, RetryMutation, Grows, telegram, kv
  <1>2. UNCHANGED <<telegram, revisions, manifest, outbox>>
    BY DEF StartMutation, RetryMutation, kv
  <1>3. CASE \E req \in Request : StartMutation(p, k, req)
    <2>1. PICK req \in Request : StartMutation(p, k, req)
      BY <1>3
    <2>2. Moves(p)
      BY <2>1, TypedStart
    <2>3. proc'[p].pc = "readCurrent"
      BY <2>1 DEF StartMutation, Idle, Typed, TypeOK
    <2>4. StageOK(p)'
      BY <2>3 DEF StageOK, SentPcs, RecordedPcs
    <2> QED BY <1>1, <1>2, <2>2, <2>4, StageLocal
  <1>4. CASE RetryMutation(p, k) /\ UNCHANGED proc
    <2>1. StageOK(p)'
      BY <1>2, <1>4 DEF Stages, StageOK, telegram, Uploaded, Stored
    <2> QED BY <1>1, <1>2, <1>4, <2>1, StageLocal
  <1>5. CASE RetryMutation(p, k) /\ ~UNCHANGED proc
    <2> DEFINE entry == outbox[k]
               h == [pc |-> ResumePoint(entry), key |-> k, req |-> entry.req,
                     cand |-> entry.cand, tries |-> 0]
    <2>1. entry \in Entry /\ EntryOK(k) /\ entry # NULL /\ entry.status # "applied"
      BY <1>5 DEF RetryMutation, Typed, TypeOK, Stages
    <2>2. proc' = [proc EXCEPT ![p] = h]
      BY <1>5 DEF RetryMutation
    <2>3. StageOK(p)'
      BY <1>2, <2>1, <2>2
      DEF StageOK, EntryOK, Entry, Statuses, Request, ResumePoint, SentPcs, RecordedPcs,
          telegram, Uploaded, Stored, Typed, TypeOK
    <2>4. \A q \in Procs : q # p => proc'[q] = proc[q]
      BY <2>2
    <2>5. \A q \in Procs : StageOK(q)'
      BY <1>1, <2>3, <2>4, StageStays DEF Typed, Shape
    <2>6. /\ \A j \in Keys : EntryOK(j)'
          /\ \A r \in Revs : RecordOK(r)'
          /\ \A o \in Objects : ManifestOK(o)'
      BY <1>1, <1>2, StageStays DEF Typed, TypeOK
    <2> QED BY <2>5, <2>6 DEF Stages
  <1> QED BY <1>3, <1>4, <1>5

LEMMA StagesStep ==
  ASSUME Staged, NEW p \in Procs, Step(p)
  PROVE  Stages'
  <1> USE DEF Staged
  <1>1. Grows /\ Moves(p) /\ Typed'
    BY NextGrows, TypedStep DEF Next
  <1>2. /\ proc[p] \in Handler /\ HandlerOK(proc[p]) /\ StageOK(p) /\ DOMAIN proc = Procs
        /\ proc[p].pc \notin {"idle", "readCurrent"} =>
              /\ proc[p].cand \in Manifest /\ proc[p].cand.rev \in Revs
              /\ proc[p].cand.obj \in Objects /\ proc[p].key \in Keys
    BY DEF Typed, TypeOK, Shape, HandlerOK, Stages, Manifest
  <1>3. \A q \in Procs : q # p => StageOK(q)'
    <2>1. \A q \in Procs : q # p => proc'[q] = proc[q]
      BY <1>1 DEF Moves, Typed, TypeOK
    <2> QED BY <1>1, <2>1, StageStays DEF Typed, Shape
  <1>4. \A m : (Uploaded(m) => Uploaded(m)') /\ (Stored(m) => Stored(m)')
    BY <1>1 DEF Grows, Uploaded, Stored
  <1> USE DEF SentPcs, RecordedPcs, StateOf, Handler
  <1>5. CASE RejectMutation(p) \/ StopAtBound(p)
    <2>1. StageOK(p)'
      BY <1>2, <1>5 DEF RejectMutation, StopAtBound, StageOK, Idle
    <2> QED BY <1>1, <1>5, <2>1, StageLocal DEF RejectMutation, StopAtBound, kv
  <1>6. CASE BuildCandidate(p)
    <2> DEFINE req == proc[p].req
               cur == manifest[req.obj]
    <2>1. PICK rev \in FreshRevs :
            proc' = [proc EXCEPT ![p].pc = "writeIntent", ![p].cand = CandidateOf(req, cur, rev)]
      BY <1>6 DEF BuildCandidate
    <2>2. proc'[p].pc = "writeIntent" /\ proc'[p].req = req /\ proc'[p].cand = CandidateOf(req, cur, rev)
      BY <1>2, <2>1
    <2>3. req.op = "delete" => cur # NULL /\ Uploaded(cur)
      BY <1>2, <1>6
      DEF BuildCandidate, Active, Stages, ManifestOK, Stored, Uploaded, HandlerOK, Request
    <2>4. req.op = "delete" => Uploaded(CandidateOf(req, cur, rev))
      BY <2>3 DEF CandidateOf, Uploaded
    <2>5. CandidateOf(req, cur, rev).state = StateOf(req)
      BY DEF CandidateOf
    <2>6. StageOK(p)'
      BY <1>4, <2>2, <2>4, <2>5 DEF StageOK
    <2> QED BY <1>1, <1>6, <2>6, StageLocal DEF BuildCandidate, kv
  <1>7. CASE ReadRevision(p) \/ ReadBucket(p)
    <2>1. UNCHANGED <<telegram, revisions, manifest, outbox>>
      BY <1>7 DEF ReadRevision, ReadBucket, kv
    <2>2. \/ proc' = [proc EXCEPT ![p] = Idle]
          \/ proc[p].pc \in SentPcs /\ Move(p, "putRevision")
          \/ /\ proc[p].pc \in SentPcs /\ revisions[proc[p].cand.rev] # NULL
             /\ Move(p, "readManifest") \/ Move(p, "putLeaf") \/ Move(p, "putBucket")
      BY <1>2, <1>7, NullAssumption DEF ReadRevision, ReadBucket, StageOK
    <2>3. StageOK(p)'
      BY <1>2, <2>1, <2>2 DEF StageOK, Move, Idle, telegram, Uploaded, Stored
    <2> QED BY <1>1, <2>1, <2>3, StageLocal
  <1>8. CASE WriteIntent(p) \/ WriteUploaded(p) \/ WriteReady(p)
    <2>1. UNCHANGED <<telegram, revisions, manifest>>
      BY <1>8 DEF WriteIntent, WriteUploaded, WriteReady, WriteOutbox
    <2>2. PICK status \in {"intent", "uploaded", "ready"}, k \in Keys :
            k = proc[p].key /\ outbox' = [outbox EXCEPT ![k] = EntryOf(proc[p], status)]
      BY <1>2, <1>8 DEF WriteIntent, WriteUploaded, WriteReady, WriteOutbox
    <2>3. StageOK(p)' /\ EntryOK(k)'
      BY <1>2, <1>8, <2>1, <2>2
      DEF WriteIntent, WriteUploaded, WriteReady, WriteOutbox, Move, StageOK, EntryOK, EntryOf,
          telegram, Uploaded, Stored, HandlerOK, Request, Typed, TypeOK
    <2>4. \A j \in Keys : EntryOK(j)'
      BY <1>1, <2>2, <2>3, StageStays DEF Typed, TypeOK
    <2> QED BY <1>1, <1>3, <2>1, <2>3, <2>4, StageStays DEF Stages, Typed, TypeOK
  <1>9. CASE UploadBytes(p) \/ PostEvent(p)
    <2>1. StageOK(p)'
      BY <1>2, <1>9 DEF UploadBytes, PostEvent, StageOK, Uploaded, Stored, Manifest, HandlerOK, Request
    <2> QED BY <1>1, <1>9, <2>1, StageLocal DEF UploadBytes, PostEvent, kv
  <1>10. CASE PutRevision(p)
    <2>1. PICK rev \in Revs :
            /\ rev = proc[p].cand.rev
            /\ UNCHANGED <<telegram, manifest, outbox>> /\ Move(p, "readManifest")
            /\ revisions' = [revisions EXCEPT ![rev] = proc[p].cand]
      BY <1>2, <1>10 DEF PutRevision
    <2>2. RecordOK(rev)' /\ StageOK(p)'
      BY <1>2, <1>10, <2>1, NullAssumption
      DEF PutRevision, Move, StageOK, RecordOK, telegram, Uploaded, Stored, Typed, TypeOK
    <2>3. \A r \in Revs : RecordOK(r)'
      BY <1>1, <2>1, <2>2, StageStays DEF Typed, TypeOK
    <2> QED BY <1>1, <1>3, <2>1, <2>2, <2>3, StageStays DEF Stages, Typed, TypeOK
  <1>11. CASE ReadManifest(p)
    <2> DEFINE cur == manifest[proc[p].cand.obj]
    <2>1. UNCHANGED <<telegram, revisions, manifest, outbox>>
      BY <1>11 DEF ReadManifest, kv
    <2>2. CASE IsCurrent(cur, proc[p])
      <3>1. cur # NULL /\ cur.rev = proc[p].cand.rev /\ Stored(cur) /\ InUse(cur)
        BY <1>2, <1>11, <2>2 DEF ReadManifest, IsCurrent, Stages, ManifestOK, InUse
      <3>2. cur.state = proc[p].cand.state
        <4>1. proc[p].cand # NULL
          BY <1>2, <1>11, NullAssumption DEF ReadManifest
        <4>2. InUse(proc[p].cand)
          BY <4>1 DEF InUse
        <4> QED BY <3>1, <4>2 DEF Copies, OneCandidatePerRev, Same
      <3>3. /\ proc'[p].cand = cur /\ proc'[p].req = proc[p].req
            /\ proc'[p].pc \in {"readBucket", "removeLeaf"}
        BY <1>2, <1>11, <2>2 DEF ReadManifest
      <3>4. StageOK(p)'
        BY <1>2, <1>4, <1>11, <2>1, <3>1, <3>2, <3>3 DEF ReadManifest, StageOK
      <3> QED BY <1>1, <2>1, <3>4, StageLocal
    <2>3. CASE Move(p, "putManifest") \/ Conflict(p)
      <3>1. StageOK(p)'
        BY <1>2, <1>11, <2>1, <2>3
        DEF ReadManifest, Move, Conflict, StageOK, Idle, telegram, Stored
      <3> QED BY <1>1, <2>1, <3>1, StageLocal
    <2> QED BY <1>11, <2>2, <2>3 DEF ReadManifest
  <1>12. CASE PutManifest(p)
    <2>1. PICK obj \in Objects :
            /\ obj = proc[p].cand.obj
            /\ UNCHANGED <<telegram, revisions, outbox>>
            /\ manifest' = [manifest EXCEPT ![obj] = proc[p].cand]
      BY <1>2, <1>12 DEF PutManifest
    <2>2. StageOK(p)'
      BY <1>2, <1>12, <2>1 DEF PutManifest, StageOK, Idle, telegram, Stored
    <2>3. ManifestOK(obj)'
      BY <1>2, <1>12, <2>1 DEF PutManifest, StageOK, ManifestOK, telegram, Stored, Typed, TypeOK
    <2>4. \A o \in Objects : ManifestOK(o)'
      BY <1>1, <2>1, <2>3, StageStays DEF Typed, TypeOK
    <2> QED BY <1>1, <1>3, <2>1, <2>2, <2>4, StageStays DEF Stages, Typed, TypeOK
  <1>13. CASE PutBucket(p) \/ PutLeaf(p) \/ RemoveLeaf(p)
    <2>1. UNCHANGED <<telegram, revisions, manifest, outbox>>
      BY <1>13 DEF PutBucket, PutLeaf, RemoveLeaf
    <2>2. StageOK(p)'
      BY <1>2, <1>13, <2>1 DEF PutBucket, PutLeaf, RemoveLeaf, Move, StageOK, telegram, Stored
    <2> QED BY <1>1, <2>1, <2>2, StageLocal
  <1>14. CASE WriteApplied(p)
    <2>1. PICK k \in Keys :
            /\ k = proc[p].key
            /\ UNCHANGED <<telegram, revisions, manifest>>
            /\ proc' = [proc EXCEPT ![p] = Idle]
            /\ outbox' \in {outbox, [outbox EXCEPT ![k] = EntryOf(proc[p], "applied")]}
      BY <1>2, <1>14 DEF WriteApplied
    <2>2. StageOK(p)'
      BY <1>2, <2>1 DEF StageOK, Idle
    <2>3. outbox' # outbox => EntryOK(k)'
      BY <1>2, <1>14, <2>1 DEF WriteApplied, StageOK, EntryOK, EntryOf, telegram, Stored, Typed, TypeOK
    <2>4. \A j \in Keys : EntryOK(j)'
      BY <1>1, <2>1, <2>3, StageStays DEF Typed, TypeOK
    <2> QED BY <1>1, <1>3, <2>1, <2>2, <2>4, StageStays DEF Stages, Typed, TypeOK
  <1> QED BY <1>5, <1>6, <1>7, <1>8, <1>9, <1>10, <1>11, <1>12, <1>13, <1>14 DEF Step

LEMMA StagesNext ==
  ASSUME Staged, [Next]_vars
  PROVE  Stages'
  <1>1. Grows
    BY NextGrows DEF Staged
  <1>2. ASSUME NEW p \in Procs, FailHandler(p) PROVE Stages'
    <2>1. Moves(p) /\ StageOK(p)'
      BY <1>2, EndMoves DEF FailHandler, StageOK, Idle, SentPcs, RecordedPcs, Staged, Typed, TypeOK
    <2> QED BY <1>1, <1>2, <2>1, StageLocal DEF FailHandler, kv, Staged
  <1>3. ASSUME NEW k \in Keys, ExpireReceipt(k) PROVE Stages'
    <2>1. /\ outbox' = [outbox EXCEPT ![k] = NULL]
          /\ UNCHANGED <<telegram, revisions, manifest, proc>>
      BY <1>3 DEF ExpireReceipt
    <2>2. \A j \in Keys : EntryOK(j)'
      BY <1>1, <2>1, StageStays DEF EntryOK, Staged, Typed, TypeOK
    <2> QED BY <1>1, <2>1, <2>2, StageStays DEF Stages, Staged, Typed, TypeOK, Shape
  <1>4. CASE CreateBucketMarker \/ UNCHANGED vars
    <2>1. UNCHANGED <<proc, revisions, manifest, outbox>>
      BY <1>4 DEF CreateBucketMarker, vars, kv
    <2> QED BY <1>1, <2>1, StageStays DEF Stages, Staged, Typed, TypeOK, Shape
  <1>5. ASSUME NEW p \in Procs, Call(p) PROVE Stages'
    BY <1>4, <1>5, StagesStart DEF Call, RefuseReusedKey, Staged
  <1> QED BY <1>2, <1>3, <1>4, <1>5, StagesStep DEF Next

-----------------------------------------------------------------------------
(* A candidate keeps its identity in all its copies *)

LEMMA SameEquivalence ==
  ASSUME NEW x, NEW y, NEW z
  PROVE  Same(x, x) /\ (Same(x, y) => Same(y, x)) /\ (Same(x, y) /\ Same(y, z) => Same(x, z))
  BY DEF Same

\* Each copy that a step leaves is of a manifest that was in use, or of x.
ComesFrom(x) == \A m : InUse(m)' => Same(m, x) \/ \E y : InUse(y) /\ Same(m, y)

\* ... and of a manifest that was in use alone.
Continues == \A m : InUse(m)' => \E y : InUse(y) /\ Same(m, y)

LEMMA ContinuesStart ==
  ASSUME NEW p \in Procs, Typed, Call(p)
  PROVE  Continues
  <1>1. UNCHANGED <<revisions, manifest, outbox>>
    BY DEF Call, StartMutation, RetryMutation, RefuseReusedKey, vars, kv
  <1>2. ASSUME NEW q \in Procs, proc'[q].cand # NULL
        PROVE  InUse(proc'[q].cand)
    <2>1. PICK k \in Keys : \/ \E req \in Request : StartMutation(p, k, req)
                            \/ RetryMutation(p, k)
                            \/ RefuseReusedKey(p, k)
      BY DEF Call
    <2>2. \/ proc'[q] = proc[q]
          \/ proc'[q].cand = NULL
          \/ outbox[k] # NULL /\ proc'[q].cand = outbox[k].cand
      <3>1. CASE \E req \in Request : StartMutation(p, k, req)
        <4>1. PICK req \in Request : StartMutation(p, k, req)
          BY <3>1
        <4> QED BY <4>1 DEF StartMutation, Idle, Typed, TypeOK
      <3>2. CASE RetryMutation(p, k)
        BY <3>2 DEF RetryMutation, Typed, TypeOK
      <3> QED BY <2>1, <3>1, <3>2 DEF RefuseReusedKey, vars
    <2> QED BY <1>2, <2>2 DEF InUse
  <1>3. \A m : InUse(m)' => InUse(m)
    BY <1>1, <1>2 DEF InUse
  <1> QED BY <1>3, SameEquivalence DEF Continues

\* A step that moves handler p and changes its candidate in nothing but where Telegram
\* has it, or ends it.
LEMMA ContinuesLocal ==
  ASSUME Typed, NEW p \in Procs, Moves(p), UNCHANGED <<revisions, manifest, outbox>>,
         proc'[p].cand # NULL => \E y : InUse(y) /\ Same(proc'[p].cand, y)
  PROVE  Continues
  <1>1. \A q \in Procs : q # p => proc'[q] = proc[q]
    BY DEF Moves, Typed, TypeOK
  <1>2. \A q \in Procs : proc'[q].cand # NULL => \E y : InUse(y) /\ Same(proc'[q].cand, y)
    BY <1>1, SameEquivalence DEF InUse
  <1> QED BY <1>2, SameEquivalence DEF InUse, Continues

\* A handler past its first read can stage its candidate.
LEMMA EntryNotNull ==
  ASSUME Typed, NEW p \in Procs, proc[p].pc \notin {"idle", "readCurrent"}, NEW s \in Statuses
  PROVE  EntryOf(proc[p], s) # NULL /\ EntryOf(proc[p], s).cand = proc[p].cand
  BY EntryAssumption DEF Typed, TypeOK, Shape, HandlerOK, EntryOf, Entry

\* Most steps keep the candidate, and only writes of the index change it.
LEMMA StepKeeps ==
  ASSUME Typed, NEW p \in Procs, Step(p), ~BuildCandidate(p),
         ~UploadBytes(p), ~PostEvent(p), ~ReadManifest(p)
  PROVE  /\ proc'[p].cand \in {NULL, proc[p].cand}
         /\ ~UNCHANGED <<revisions, manifest, outbox>> => proc[p].pc \notin {"idle", "readCurrent"}
  <1>1. proc \in [Procs -> Handler]
    BY DEF Typed, TypeOK
  <1>2. CASE RejectMutation(p) \/ StopAtBound(p)
    BY <1>1, <1>2 DEF RejectMutation, StopAtBound, Idle, kv
  <1>3. CASE WriteIntent(p) \/ WriteUploaded(p) \/ WriteReady(p)
    BY <1>1, <1>3 DEF WriteIntent, WriteUploaded, WriteReady, WriteOutbox, Move, Handler
  <1>4. CASE ReadRevision(p) \/ ReadBucket(p)
    BY <1>1, <1>4 DEF ReadRevision, ReadBucket, Move, Handler, Idle, kv
  <1>5. CASE PutRevision(p) \/ PutBucket(p) \/ PutLeaf(p) \/ RemoveLeaf(p)
    BY <1>1, <1>5 DEF PutRevision, PutBucket, PutLeaf, RemoveLeaf, Move, Handler
  <1>6. CASE PutManifest(p) \/ WriteApplied(p)
    BY <1>1, <1>6 DEF PutManifest, WriteApplied, Handler, Idle
  <1> QED BY <1>2, <1>3, <1>4, <1>5, <1>6 DEF Step

LEMMA StepWrites ==
  ASSUME Typed, NEW p \in Procs, Step(p)
  PROVE  /\ \A r \in Revs : revisions'[r] \in {revisions[r], proc[p].cand}
         /\ \A o \in Objects : manifest'[o] \in {manifest[o], proc[p].cand}
         /\ \A k \in Keys : \/ outbox'[k] = outbox[k]
                            \/ outbox'[k] # NULL /\ outbox'[k].cand = proc[p].cand
  <1>1. /\ revisions \in [Revs -> Manifest \cup {NULL}]
        /\ manifest \in [Objects -> Manifest \cup {NULL}]
        /\ outbox \in [Keys -> Entry \cup {NULL}]
        /\ Typed'
    BY TypedStep DEF Typed, TypeOK
  <1>2. CASE WriteIntent(p) \/ WriteUploaded(p) \/ WriteReady(p)
    <2>1. /\ UNCHANGED <<revisions, manifest>>
          /\ \E s \in Statuses : outbox' = [outbox EXCEPT ![proc[p].key] = EntryOf(proc[p], s)]
      BY <1>2 DEF WriteIntent, WriteUploaded, WriteReady, WriteOutbox, Statuses
    <2>2. PICK s \in Statuses : outbox' = [outbox EXCEPT ![proc[p].key] = EntryOf(proc[p], s)]
      BY <2>1
    <2>3. proc[p].pc \notin {"idle", "readCurrent"}
      BY <1>2 DEF WriteIntent, WriteUploaded, WriteReady
    <2> QED BY <1>1, <2>1, <2>2, <2>3, EntryNotNull
  <1>3. CASE PutRevision(p)
    BY <1>1, <1>3 DEF PutRevision
  <1>4. CASE PutManifest(p)
    BY <1>1, <1>4 DEF PutManifest
  <1>5. CASE WriteApplied(p)
    <2>1. proc[p].pc \notin {"idle", "readCurrent"} /\ "applied" \in Statuses
      BY <1>5 DEF WriteApplied, Statuses
    <2> QED BY <1>1, <1>5, <2>1, EntryNotNull DEF WriteApplied
  <1>6. CASE RejectMutation(p) \/ BuildCandidate(p) \/ StopAtBound(p) \/ UploadBytes(p)
             \/ PostEvent(p) \/ ReadRevision(p) \/ ReadManifest(p) \/ ReadBucket(p)
             \/ PutBucket(p) \/ PutLeaf(p) \/ RemoveLeaf(p)
    BY <1>1, <1>6 DEF RejectMutation, BuildCandidate, StopAtBound, UploadBytes, PostEvent,
       ReadRevision, ReadManifest, ReadBucket, PutBucket, PutLeaf, RemoveLeaf, kv
  <1> QED BY <1>2, <1>3, <1>4, <1>5, <1>6 DEF Step

LEMMA ContinuesStep ==
  ASSUME Staged, NEW p \in Procs, Step(p), ~BuildCandidate(p)
  PROVE  Continues
  <1>1. Moves(p)
    BY TypedStep DEF Staged
  <1>2. /\ proc[p] \in Handler /\ HandlerOK(proc[p]) /\ StageOK(p) /\ DOMAIN proc = Procs
        /\ Typed
        /\ proc[p].pc \notin {"idle", "readCurrent"} =>
              /\ proc[p].cand \in Manifest /\ proc[p].cand # NULL /\ InUse(proc[p].cand)
    BY NullAssumption DEF Staged, Typed, TypeOK, Shape, HandlerOK, Stages, Manifest, InUse
  <1>3. CASE UNCHANGED <<revisions, manifest, outbox>>
    <2>1. CASE UploadBytes(p)
      <3>1. /\ proc'[p].cand.rev = proc[p].cand.rev /\ proc'[p].cand.obj = proc[p].cand.obj
            /\ proc'[p].cand.state = proc[p].cand.state
            /\ proc'[p].cand.version = proc[p].cand.version
            /\ proc'[p].cand.parent = proc[p].cand.parent /\ proc'[p].cand.body = proc[p].cand.body
        BY <1>2, <2>1 DEF UploadBytes, Handler, Manifest
      <3>2. proc[p].cand.state # "deleted" /\ proc[p].pc = "upload"
        BY <1>2, <2>1 DEF UploadBytes, StageOK, StateOf
      <3>3. Same(proc'[p].cand, proc[p].cand) /\ InUse(proc[p].cand)
        BY <1>2, <3>1, <3>2 DEF Same
      <3> QED BY <1>1, <1>2, <1>3, <3>3, ContinuesLocal
    <2>2. CASE PostEvent(p)
      <3>1. Same(proc'[p].cand, proc[p].cand) /\ InUse(proc[p].cand)
        BY <1>2, <2>2 DEF PostEvent, Handler, Manifest, Same
      <3> QED BY <1>1, <1>2, <1>3, <3>1, ContinuesLocal
    <2>3. CASE ~UploadBytes(p) /\ ~PostEvent(p)
      <3>1. proc'[p].cand \in {NULL, proc[p].cand} \/ (ReadManifest(p) /\ InUse(proc'[p].cand))
        <4>1. CASE ReadManifest(p)
          <5>1. proc'[p].cand \in {NULL, proc[p].cand} \/
                  (IsCurrent(manifest[proc[p].cand.obj], proc[p])
                     /\ proc'[p].cand = manifest[proc[p].cand.obj])
            BY <1>2, <4>1 DEF ReadManifest, Move, Conflict, Idle, Handler
          <5>2. proc[p].cand.obj \in Objects
            BY <1>2, <4>1 DEF ReadManifest, Manifest
          <5> QED BY <4>1, <5>1, <5>2 DEF IsCurrent, InUse
        <4>2. CASE ~ReadManifest(p)
          BY <2>3, <4>2, StepKeeps DEF Staged
        <4> QED BY <4>1, <4>2
      <3>2. proc[p].cand # NULL => InUse(proc[p].cand)
        BY DEF InUse
      <3>3. proc'[p].cand # NULL => InUse(proc'[p].cand)
        BY <3>1, <3>2
      <3> QED BY <1>1, <1>2, <1>3, <3>3, ContinuesLocal, SameEquivalence
    <2> QED BY <2>1, <2>2, <2>3
  <1>4. CASE ~UNCHANGED <<revisions, manifest, outbox>>
    <2>1. proc'[p].cand \in {NULL, proc[p].cand} /\ proc[p].pc \notin {"idle", "readCurrent"}
      <3>1. ~UploadBytes(p) /\ ~PostEvent(p) /\ ~ReadManifest(p)
        BY <1>4 DEF UploadBytes, PostEvent, ReadManifest, kv
      <3> QED BY <1>4, <3>1, StepKeeps DEF Staged
    <2>2. /\ \A r \in Revs : revisions'[r] \in {revisions[r], proc[p].cand}
          /\ \A o \in Objects : manifest'[o] \in {manifest[o], proc[p].cand}
          /\ \A k \in Keys : \/ outbox'[k] = outbox[k]
                             \/ outbox'[k] # NULL /\ outbox'[k].cand = proc[p].cand
      BY <1>4, <2>1, StepWrites DEF Staged
    <2>3. \A q \in Procs : q # p => proc'[q] = proc[q]
      BY <1>1 DEF Moves, Staged, Typed, TypeOK
    <2>4. \A m : InUse(m)' => InUse(m)
      BY <1>2, <2>1, <2>2, <2>3 DEF InUse
    <2> QED BY <2>4, SameEquivalence DEF Continues
  <1> QED BY <1>3, <1>4

\* A step that only drops copies.
LEMMA ContinuesDrop ==
  ASSUME UNCHANGED <<revisions, manifest>>,
         \A k \in Keys : outbox'[k] \in {NULL, outbox[k]},
         \A p \in Procs : proc'[p].cand \in {NULL, proc[p].cand}
  PROVE  Continues
  <1>1. \A m : InUse(m)' => InUse(m)
    BY DEF InUse
  <1> QED BY <1>1, SameEquivalence DEF Continues

LEMMA ContinuesNext ==
  ASSUME Staged, Next, \A p \in Procs : ~BuildCandidate(p)
  PROVE  Continues
  <1>2. ASSUME NEW p \in Procs, FailHandler(p) PROVE Continues
    BY <1>2, ContinuesDrop DEF FailHandler, kv, Idle, Staged, Typed, TypeOK
  <1>3. ASSUME NEW k \in Keys, ExpireReceipt(k) PROVE Continues
    BY <1>3, ContinuesDrop DEF ExpireReceipt, Staged, Typed, TypeOK
  <1>4. CASE CreateBucketMarker
    BY <1>4, ContinuesDrop DEF CreateBucketMarker
  <1> QED BY <1>2, <1>3, <1>4, ContinuesStart, ContinuesStep DEF Next, Staged

\* A record keeps what its descendants rely on.
LEMMA RecordsStay ==
  ASSUME Staged, Stages', Grows, Continues
  PROVE  \A r \in Revs : revisions[r] # NULL => revisions'[r] # NULL /\ Same(revisions'[r], revisions[r])
  <1> SUFFICES ASSUME NEW r \in Revs, revisions[r] # NULL
               PROVE  revisions'[r] # NULL /\ Same(revisions'[r], revisions[r])
    OBVIOUS
  <1>1. revisions'[r] # NULL /\ revisions'[r].rev = r
    BY DEF Grows, Stages, RecordOK
  <1>2. PICK m : m = revisions'[r]
    OBVIOUS
  <1>3. InUse(m)'
    BY <1>1, <1>2 DEF InUse
  <1>4. PICK y : InUse(y) /\ Same(m, y)
    BY <1>3 DEF Continues
  <1>5. revisions[r].rev = r
    BY DEF Staged, Stages, RecordOK
  <1>6. InUse(revisions[r])
    BY DEF InUse
  <1>7. y.rev = r
    BY <1>1, <1>2, <1>4 DEF Same
  <1>8. Same(y, revisions[r])
    BY <1>4, <1>5, <1>6, <1>7 DEF Staged, Copies, OneCandidatePerRev
  <1> QED BY <1>1, <1>2, <1>4, <1>8, SameEquivalence

LEMMA DescendsStays ==
  ASSUME NEW x, NEW y, Same(x, y), Descends(y), y.parent # NoParent => y.parent \in Revs,
         \A r \in Revs : revisions[r] # NULL => revisions'[r] # NULL /\ Same(revisions'[r], revisions[r])
  PROVE  Descends(x)'
  BY DEF Same, Descends

LEMMA InUseType ==
  ASSUME Typed, NEW x, InUse(x)
  PROVE  x \in Manifest /\ x.rev \in Revs /\ (x.parent # NoParent => x.parent \in Revs)
  BY DEF InUse, Typed, TypeOK, Entry, Handler, Manifest

LEMMA CopiesContinue ==
  ASSUME Staged, Stages', Grows, Continues,
         \/ UNCHANGED bytes
         \/ \E pointer, m : InUse(m) /\ pointer[1] = m.rev /\ bytes' = bytes \cup {<<pointer, m.body>>}
  PROVE  Copies'
  <1>1. OneCandidatePerRev'
    <2> SUFFICES ASSUME NEW x, NEW y, InUse(x)', InUse(y)', x.rev = y.rev PROVE Same(x, y)
      BY DEF OneCandidatePerRev
    <2>1. PICK u : InUse(u) /\ Same(x, u)
      BY DEF Continues
    <2>2. PICK v : InUse(v) /\ Same(y, v)
      BY DEF Continues
    <2>3. u.rev = v.rev
      BY <2>1, <2>2 DEF Same
    <2>4. Same(u, v)
      BY <2>1, <2>2, <2>3 DEF Staged, Copies, OneCandidatePerRev
    <2> QED BY <2>1, <2>2, <2>4, SameEquivalence
  <1>2. AllDescend'
    <2> SUFFICES ASSUME NEW x, InUse(x)' PROVE Descends(x)'
      BY DEF AllDescend
    <2>1. PICK u : InUse(u) /\ Same(x, u)
      BY DEF Continues
    <2>2. Descends(u) /\ (u.parent # NoParent => u.parent \in Revs)
      BY <2>1, InUseType DEF Staged, Copies, AllDescend
    <2> QED BY <2>1, <2>2, RecordsStay, DescendsStays
  <1>3. \A d \in bytes : \A x : InUse(x)' /\ x.rev = d[1][1] => x.body = d[2]
    BY DEF Continues, Staged, Copies, BytesOfRev, Same
  <1>4. CASE UNCHANGED bytes
    <2>1. BytesOfRev'
      BY <1>3, <1>4 DEF BytesOfRev, Staged, Copies
    <2> QED BY <1>1, <1>2, <2>1 DEF Copies
  <1>5. CASE ~UNCHANGED bytes
    <2>1. PICK pointer, m : /\ InUse(m) /\ pointer[1] = m.rev
                            /\ bytes' = bytes \cup {<<pointer, m.body>>}
      BY <1>5
    <2>2. \A d \in bytes : d[1][1] = m.rev => d[2] = m.body
      BY <2>1 DEF Staged, Copies, BytesOfRev
    <2>3. \A x : InUse(x)' /\ x.rev = m.rev => x.body = m.body
      BY <2>1 DEF Continues, Staged, Copies, OneCandidatePerRev, Same
    <2>4. BytesOfRev'
      BY <1>3, <2>1, <2>2, <2>3 DEF BytesOfRev, Staged, Copies
    <2> QED BY <1>1, <1>2, <2>4 DEF Copies
  <1> QED BY <1>1, <1>2, <1>4, <1>5 DEF Copies

\* A new candidate has a revision that nothing mentions.
LEMMA FreshIsNew ==
  ASSUME Staged, NEW rev \in FreshRevs
  PROVE  /\ rev \in Revs
         /\ \A m : InUse(m) => m.rev # rev
         /\ \A d \in bytes : d[1][1] # rev
  <1>1. rev \in Revs /\ \A m \in KnownManifests : m.rev # rev
    BY DEF FreshRevs, UsedRevs
  <1>2. \A d \in bytes : d[1][1] # rev
    BY DEF FreshRevs, UsedRevs
  <1>3. ASSUME NEW m, InUse(m) PROVE m.rev # rev
    <2>1. CASE \E o \in Objects : manifest[o] # NULL /\ m = manifest[o]
      <3>1. PICK o \in Objects : manifest[o] # NULL /\ m = manifest[o]
        BY <2>1
      <3>2. m.rev \in Revs /\ revisions[m.rev] # NULL /\ revisions[m.rev].rev = m.rev
        BY <3>1 DEF Staged, Typed, TypeOK, Manifest, Stages, ManifestOK, RecordOK
      <3>3. revisions[m.rev] \in KnownManifests
        BY <3>2 DEF KnownManifests
      <3> QED BY <1>1, <3>2, <3>3
    <2>2. CASE ~\E o \in Objects : manifest[o] # NULL /\ m = manifest[o]
      <3>1. m \in KnownManifests
        BY <1>3, <2>2 DEF InUse, KnownManifests
      <3> QED BY <1>1, <3>1
    <2> QED BY <2>1, <2>2
  <1> QED BY <1>1, <1>2, <1>3

LEMMA BuildDescends ==
  ASSUME Staged, NEW req \in Request, NEW rev \in Revs,
         req.op = "delete" => Active(manifest[req.obj])
  PROVE  Descends(CandidateOf(req, manifest[req.obj], rev))
  <1> DEFINE cur == manifest[req.obj]
             x == CandidateOf(req, cur, rev)
  <1>1. req.obj \in Objects /\ req.op \in {"put", "delete"}
    BY DEF Request
  <1>2. x.state = StateOf(req) /\ x.obj = req.obj
    BY DEF CandidateOf, StateOf
  <1>3. CASE cur = NULL
    <2>1. x.version = 1 /\ x.parent = NoParent
      BY <1>3 DEF CandidateOf
    <2>2. x.state = "active"
      BY <1>1, <1>2, <1>3 DEF Active, StateOf
    <2> QED BY <2>1, <2>2 DEF Descends
  <1>4. CASE cur # NULL
    <2>1. cur \in Manifest /\ cur.rev \in Revs /\ cur.rev # NoParent /\ cur.version \in 1 .. MaxVersion
      BY <1>1, <1>4, RevAssumption DEF Staged, Typed, TypeOK, Manifest
    <2>2. x.version = cur.version + 1 /\ x.parent = cur.rev
      BY <1>4 DEF CandidateOf
    <2>3. cur.obj = req.obj /\ revisions[cur.rev] # NULL /\ revisions[cur.rev].rev = cur.rev
      BY <1>1, <1>4, <2>1 DEF Staged, Stages, ManifestOK, RecordOK
    <2>4. InUse(cur) /\ InUse(revisions[cur.rev])
      BY <1>1, <1>4, <2>1, <2>3 DEF InUse
    <2>5. Same(revisions[cur.rev], cur)
      BY <2>3, <2>4 DEF Staged, Copies, OneCandidatePerRev
    <2>6. x.state = "deleted" => cur.state = "active"
      BY <1>1, <1>2 DEF StateOf, Active
    <2>7. /\ revisions[cur.rev].obj = x.obj
          /\ revisions[cur.rev].version + 1 = x.version
          /\ x.state = "deleted" => revisions[cur.rev].state = "active"
      BY <1>2, <2>2, <2>3, <2>5, <2>6 DEF Same
    <2>8. x.version # 1
      BY <2>1, <2>2
    <2> QED BY <2>1, <2>2, <2>3, <2>7, <2>8 DEF Descends
  <1> QED BY <1>3, <1>4

LEMMA CopiesBuild ==
  ASSUME Staged, NEW p \in Procs, BuildCandidate(p)
  PROVE  Copies'
  <1> DEFINE req == proc[p].req
             cur == manifest[req.obj]
  <1>1. PICK rev \in FreshRevs :
          proc' = [proc EXCEPT ![p].pc = "writeIntent", ![p].cand = CandidateOf(req, cur, rev)]
    BY DEF BuildCandidate
  <1>2. PICK x : x = CandidateOf(req, cur, rev)
    OBVIOUS
  <1>3. proc'[p].cand = x /\ \A q \in Procs : q # p => proc'[q] = proc[q]
    BY <1>1, <1>2 DEF Staged, Typed, TypeOK, Handler
  <1>4. UNCHANGED <<bytes, revisions, manifest, outbox>>
    BY DEF BuildCandidate, telegram, kv
  <1>5. \A m : InUse(m)' => InUse(m) \/ m = x
    BY <1>3, <1>4 DEF InUse
  <1>6. x.rev = rev
    BY <1>2 DEF CandidateOf
  <1>7. Descends(x)
    <2>1. req \in Request
      BY DEF BuildCandidate, Staged, Typed, Shape, HandlerOK
    <2> QED BY <1>2, <2>1, FreshIsNew, BuildDescends DEF BuildCandidate
  <1>8. OneCandidatePerRev'
    BY <1>5, <1>6, FreshIsNew, SameEquivalence DEF Staged, Copies, OneCandidatePerRev
  <1>9. BytesOfRev'
    BY <1>4, <1>5, <1>6, FreshIsNew DEF Staged, Copies, BytesOfRev
  <1>10. AllDescend'
    BY <1>4, <1>5, <1>7 DEF Staged, Copies, AllDescend, Descends
  <1> QED BY <1>8, <1>9, <1>10 DEF Copies

LEMMA CopiesNext ==
  ASSUME Staged, [Next]_vars
  PROVE  Copies'
  <1>1. Grows /\ Stages'
    BY NextGrows, StagesNext DEF Staged
  <1>2. CASE UNCHANGED vars
    <2>1. \A m : InUse(m)' => InUse(m)
      BY <1>2 DEF InUse, vars, kv
    <2>2. Continues
      BY <2>1, SameEquivalence DEF Continues
    <2>3. UNCHANGED bytes
      BY <1>2 DEF vars, telegram
    <2> QED BY <1>1, <2>2, <2>3, CopiesContinue
  <1>3. ASSUME NEW p \in Procs, BuildCandidate(p) PROVE Copies'
    BY <1>3, CopiesBuild
  <1>4. CASE Next /\ \A p \in Procs : ~BuildCandidate(p)
    <2>1. Continues
      BY <1>4, ContinuesNext
    <2>2. ASSUME NEW p \in Procs, UploadBytes(p) PROVE Copies'
      <3>1. PICK pointer, m : /\ m = proc[p].cand /\ pointer[1] = m.rev
                              /\ bytes' = bytes \cup {<<pointer, m.body>>}
        BY <2>2 DEF UploadBytes
      <3>2. InUse(m)
        BY <2>2, <3>1, NullAssumption DEF UploadBytes, InUse, Staged, Typed, Shape, HandlerOK
      <3> QED BY <1>1, <2>1, <3>1, <3>2, CopiesContinue
    <2>3. CASE \A p \in Procs : ~UploadBytes(p)
      <3>1. UNCHANGED bytes
        BY <1>4, <2>3 DEF Next, Call, StartMutation, RetryMutation, RefuseReusedKey, FailHandler,
           ExpireReceipt, CreateBucketMarker, Step, RejectMutation, StopAtBound, WriteIntent,
           WriteUploaded, WriteReady, WriteOutbox, PostEvent, ReadRevision, PutRevision,
           ReadManifest, PutManifest, ReadBucket, PutBucket, PutLeaf, RemoveLeaf, WriteApplied,
           vars, telegram
      <3> QED BY <1>1, <2>1, <3>1, CopiesContinue
    <2> QED BY <2>2, <2>3
  <1> QED BY <1>2, <1>3, <1>4

LEMMA StagedInit ==
  ASSUME Init
  PROVE  Staged
  <1>1. Typed
    BY TypedInit
  <1>2. \A m : ~InUse(m)
    BY DEF Init, InUse, Idle
  <1>3. Copies
    BY <1>2 DEF Copies, OneCandidatePerRev, BytesOfRev, AllDescend, Init
  <1>4. Stages
    BY DEF Init, Stages, StageOK, EntryOK, RecordOK, ManifestOK, Idle, SentPcs, RecordedPcs
  <1> QED BY <1>1, <1>3, <1>4 DEF Staged

\* What a handler may rely on at each program point, and that a revision is one
\* candidate in all its copies, hold in every reachable state, also when the requests
\* of one key overlap.
THEOREM StagesHold == Spec => []Staged
  <1>1. Init => Staged
    BY StagedInit
  <1>2. Staged /\ [Next]_vars => Staged'
    BY TypedNext, StagesNext, CopiesNext DEF Staged
  <1> QED BY <1>1, <1>2, PTL DEF Spec

\* What of PointersResolve survives overlapping requests of one key: a GET answers the
\* bytes its entity tag promises, and everything that is recorded, current or staged
\* names documents that Telegram has.
ReadsResolve ==
    /\ \A o \in Objects : Active(manifest[o]) => GetObject(o) = {manifest[o].body}
    /\ \A r \in Revs : revisions[r] # NULL => revisions[r].rev = r /\ Stored(revisions[r])
    /\ \A o \in Objects : manifest[o] # NULL =>
         /\ revisions[manifest[o].rev] # NULL
         /\ Same(revisions[manifest[o].rev], manifest[o])
    /\ \A k \in Keys : outbox[k] # NULL =>
         /\ outbox[k].status \in {"ready", "applied"} => Stored(outbox[k].cand)
         /\ outbox[k].status = "uploaded" => Uploaded(outbox[k].cand)

LEMMA DownloadsTheBody ==
  ASSUME Staged, NEW m, <<m.storage, m.body>> \in bytes
  PROVE  Downloads(m.storage) = {m.body}
  <1>1. \A d \in bytes : d[1] = m.storage => d[2] = m.body
    BY DEF Staged, Copies, BytesOfRev
  <1> QED BY <1>1 DEF Downloads

\* Whatever overlaps and fails, what a reader can find names documents that Telegram has,
\* and downloads the content it promises.
THEOREM ReadsAlwaysResolve == Spec => []ReadsResolve
  <1>1. Staged => ReadsResolve
    <2> SUFFICES ASSUME Staged PROVE ReadsResolve
      OBVIOUS
    <2>1. ASSUME NEW o \in Objects, Active(manifest[o]) PROVE GetObject(o) = {manifest[o].body}
      <3>1. <<manifest[o].storage, manifest[o].body>> \in bytes
        BY <2>1 DEF Active, Staged, Stages, ManifestOK, Stored
      <3> QED BY <2>1, <3>1, DownloadsTheBody DEF GetObject
    <2>2. ASSUME NEW o \in Objects, manifest[o] # NULL
          PROVE  revisions[manifest[o].rev] # NULL /\ Same(revisions[manifest[o].rev], manifest[o])
      <3>1. manifest[o].rev \in Revs
        BY <2>2 DEF Staged, Typed, TypeOK, Manifest
      <3>2. revisions[manifest[o].rev] # NULL /\ revisions[manifest[o].rev].rev = manifest[o].rev
        BY <2>2, <3>1 DEF Staged, Stages, ManifestOK, RecordOK
      <3>3. InUse(manifest[o]) /\ InUse(revisions[manifest[o].rev])
        BY <2>2, <3>1, <3>2 DEF InUse
      <3> QED BY <3>2, <3>3 DEF Staged, Copies, OneCandidatePerRev
    <2>3. /\ \A r \in Revs : revisions[r] # NULL => revisions[r].rev = r /\ Stored(revisions[r])
          /\ \A k \in Keys : outbox[k] # NULL =>
               /\ outbox[k].status \in {"ready", "applied"} => Stored(outbox[k].cand)
               /\ outbox[k].status = "uploaded" => Uploaded(outbox[k].cand)
      BY DEF Staged, Stages, RecordOK, EntryOK
    <2> QED BY <2>1, <2>2, <2>3 DEF ReadsResolve
  <1> QED BY <1>1, StagesHold, PTL

-----------------------------------------------------------------------------
(* One handler of a key at a time *)

\* Revision r belongs to key k.
Mentions(k, r) ==
    \/ outbox[k] # NULL /\ outbox[k].cand.rev = r
    \/ \E p \in Procs : proc[p].key = k /\ proc[p].cand # NULL /\ proc[p].cand.rev = r

\* Keys and the revisions in use correspond one to one.
OneToOne ==
    /\ \A p, q \in Procs : proc[p].pc # "idle" /\ proc[p].key = proc[q].key => p = q
    /\ \A j, k \in Keys : \A r, s \in Revs :
         Mentions(j, r) /\ Mentions(k, s) => ((j = k) <=> (r = s))

\* A handler is the only one that stages and records its candidate.
OwnsOK(p) ==
    LET h == proc[p] IN
    /\ h.pc \in {"readCurrent", "writeIntent"} => outbox[h.key] = NULL
    /\ h.pc \notin {"idle", "readCurrent", "writeIntent"} => outbox[h.key] # NULL
    /\ h.pc = "putRevision" => revisions[h.cand.rev] = NULL
    /\ h.pc \in RecordedPcs => revisions[h.cand.rev] = h.cand

Owned == \A p \in Procs : OwnsOK(p)

CurrentIsRecorded == \A o \in Objects : manifest[o] # NULL => revisions[manifest[o].rev] = manifest[o]

\* A tombstone keeps the bytes of the version that it closes.
TombstonesKeepBytes ==
    \A x : InUse(x) /\ x.state = "deleted" => revisions[x.parent].storage = x.storage

\* An answer names the revision of its key.
AnswersMatch == \A a \in answers : outbox[a.key] # NULL /\ outbox[a.key].cand.rev = a.rev

Separate == /\ Staged
            /\ OneToOne
            /\ Owned
            /\ CurrentIsRecorded
            /\ TombstonesKeepBytes
            /\ AnswersMatch

\* A revision keeps its key, or is new.
LEMMA OneToOneStays ==
  ASSUME Separate,
         \A p, q \in Procs : proc'[p].pc # "idle" /\ proc'[p].key = proc'[q].key => p = q,
         \A k \in Keys : \A r \in Revs : Mentions(k, r)' => Mentions(k, r)
  PROVE  OneToOne'
  BY DEF Separate, OneToOne

LEMMA MentionsUse ==
  ASSUME Typed, NEW k \in Keys, NEW r, Mentions(k, r)
  PROVE  \E m : InUse(m) /\ m.rev = r
  BY DEF Mentions, InUse

\* The steps of a handler other than the choice of its candidate keep its key and revision.
LEMMA StepIdentity ==
  ASSUME Separate, NEW p \in Procs, Step(p), ~BuildCandidate(p)
  PROVE  /\ \A q \in Procs : q # p => proc'[q] = proc[q]
         /\ \/ proc'[p] = Idle
            \/ /\ proc'[p].key = proc[p].key /\ proc[p].pc # "idle"
               /\ proc'[p].cand # NULL => proc[p].cand # NULL /\ proc'[p].cand.rev = proc[p].cand.rev
  <1>1. proc \in [Procs -> Handler] /\ Typed
    BY DEF Separate, Staged, Typed, TypeOK
  <1>2. \A q \in Procs : q # p => proc'[q] = proc[q]
    BY <1>1, TypedStep DEF Moves
  <1>3. proc[p].pc \notin {"idle", "readCurrent"} => proc[p].cand \in Manifest /\ proc[p].cand # NULL
    BY <1>1, NullAssumption DEF Typed, Shape, HandlerOK
  <1> DEFINE Kept == proc'[p].key = proc[p].key /\ proc[p].pc # "idle"
                     /\ (proc'[p].cand # NULL => proc[p].cand # NULL /\ proc'[p].cand.rev = proc[p].cand.rev)
  <1>4. proc'[p] = Idle \/ Kept
    <2>1. CASE RejectMutation(p) \/ StopAtBound(p) \/ WriteApplied(p)
      BY <1>1, <2>1 DEF RejectMutation, StopAtBound, WriteApplied
    <2>2. CASE WriteIntent(p) \/ WriteUploaded(p) \/ WriteReady(p)
      BY <1>1, <1>3, <2>2 DEF WriteIntent, WriteUploaded, WriteReady, WriteOutbox, Move, Handler
    <2>3. CASE UploadBytes(p) \/ PostEvent(p)
      BY <1>1, <1>3, <2>3 DEF UploadBytes, PostEvent, Handler, Manifest
    <2>4. CASE ReadRevision(p) \/ ReadBucket(p)
      BY <1>1, <1>3, <2>4 DEF ReadRevision, ReadBucket, Move, Handler
    <2>5. CASE PutRevision(p) \/ PutBucket(p) \/ PutLeaf(p) \/ RemoveLeaf(p)
      BY <1>1, <1>3, <2>5 DEF PutRevision, PutBucket, PutLeaf, RemoveLeaf, Move, Handler
    <2>6. CASE ReadManifest(p)
      BY <1>1, <1>3, <2>6 DEF ReadManifest, Move, Conflict, IsCurrent, Handler
    <2>7. CASE PutManifest(p)
      BY <1>1, <1>3, <2>7 DEF PutManifest, Handler
    <2> QED BY <2>1, <2>2, <2>3, <2>4, <2>5, <2>6, <2>7 DEF Step
  <1> QED BY <1>2, <1>4

LEMMA OneToOneStep ==
  ASSUME Separate, NEW p \in Procs, Step(p), ~BuildCandidate(p)
  PROVE  OneToOne'
  <1>1. \A a, b \in Procs : proc'[a].pc # "idle" /\ proc'[a].key = proc'[b].key => a = b
    <2> SUFFICES ASSUME NEW a \in Procs, NEW b \in Procs,
                        proc'[a].pc # "idle", proc'[a].key = proc'[b].key
                 PROVE  a = b
      OBVIOUS
    <2>1. Typed /\ Typed'
      BY TypedStep DEF Separate, Staged
    <2>2. proc'[a].key \in Keys /\ Idle.key = NULL /\ Idle.pc = "idle"
      BY <2>1 DEF Typed, Shape, HandlerOK, Idle
    <2>3. proc'[a].key = proc[a].key /\ proc'[b].key = proc[b].key /\ proc[a].pc # "idle"
      BY <2>2, StepIdentity, NullAssumption
    <2> QED BY <2>3 DEF Separate, OneToOne
  <1>2. \A k \in Keys : \A r \in Revs : Mentions(k, r)' => Mentions(k, r)
    <2> SUFFICES ASSUME NEW k \in Keys, NEW r \in Revs, Mentions(k, r)'
                 PROVE  Mentions(k, r)
      OBVIOUS
    <2>1. CASE outbox'[k] = outbox[k] /\ outbox'[k] # NULL /\ outbox'[k].cand.rev = r
      BY <2>1 DEF Mentions
    <2>2. CASE outbox'[k] # outbox[k] /\ outbox'[k].cand.rev = r
      <3>1. proc[p].key = k /\ outbox'[k].cand = proc[p].cand /\ proc[p].pc \notin {"idle", "readCurrent"}
        BY <2>2
        DEF Step, RejectMutation, StopAtBound, WriteIntent, WriteUploaded, WriteReady,
            WriteOutbox, UploadBytes, PostEvent, ReadRevision, PutRevision, ReadManifest,
            PutManifest, ReadBucket, PutBucket, PutLeaf, RemoveLeaf, WriteApplied, kv, EntryOf,
            Separate, Staged, Typed, TypeOK
      <3>2. proc[p].cand # NULL
        BY <3>1, NullAssumption DEF Separate, Staged, Typed, Shape, HandlerOK
      <3> QED BY <2>2, <3>1, <3>2 DEF Mentions
    <2>3. CASE \E q \in Procs : proc'[q].key = k /\ proc'[q].cand # NULL /\ proc'[q].cand.rev = r
      <3>1. PICK q \in Procs : proc'[q].key = k /\ proc'[q].cand # NULL /\ proc'[q].cand.rev = r
        BY <2>3
      <3>2. proc[q].key = k /\ proc[q].cand # NULL /\ proc[q].cand.rev = r
        BY <3>1, StepIdentity DEF Idle
      <3> QED BY <3>2 DEF Mentions
    <2> QED BY <2>1, <2>2, <2>3 DEF Mentions
  <1> QED BY <1>1, <1>2, OneToOneStays

LEMMA OneToOneBuild ==
  ASSUME Separate, NEW p \in Procs, BuildCandidate(p)
  PROVE  OneToOne'
  <1>1. PICK rev \in FreshRevs :
          proc' = [proc EXCEPT ![p].pc = "writeIntent",
                               ![p].cand = CandidateOf(proc[p].req, manifest[proc[p].req.obj], rev)]
    BY DEF BuildCandidate
  <1>2. /\ proc'[p].key = proc[p].key /\ proc'[p].cand.rev = rev /\ proc'[p].pc # "idle"
        /\ proc[p].pc = "readCurrent" /\ proc[p].key \in Keys
        /\ \A q \in Procs : q # p => proc'[q] = proc[q]
    BY <1>1 DEF BuildCandidate, Separate, Staged, Typed, TypeOK, Shape, HandlerOK, Handler, CandidateOf
  <1>3. /\ rev \in Revs
        /\ \A m : InUse(m) => m.rev # rev
    BY FreshIsNew DEF Separate
  <1>4. UNCHANGED outbox
    BY DEF BuildCandidate, kv
  <1>5. \A k \in Keys : \A r \in Revs : Mentions(k, r)' => Mentions(k, r) \/ (k = proc[p].key /\ r = rev)
    BY <1>2, <1>4 DEF Mentions
  <1>6. \A k \in Keys : ~Mentions(k, rev)
    BY <1>3, MentionsUse DEF Separate, Staged
  <1>7. \A r \in Revs : ~Mentions(proc[p].key, r)
    <2> SUFFICES ASSUME NEW r \in Revs, Mentions(proc[p].key, r) PROVE FALSE
      OBVIOUS
    <2>1. outbox[proc[p].key] = NULL /\ proc[p].cand = NULL
      BY <1>2 DEF Separate, Owned, OwnsOK, Staged, Typed, Shape, HandlerOK
    <2>2. PICK q \in Procs : proc[q].key = proc[p].key /\ proc[q].cand # NULL
      BY <2>1 DEF Mentions
    <2>3. q = p
      BY <1>2, <2>2 DEF Separate, OneToOne
    <2> QED BY <2>1, <2>2, <2>3
  <1>8. \A a, b \in Procs : proc'[a].pc # "idle" /\ proc'[a].key = proc'[b].key => a = b
    <2> SUFFICES ASSUME NEW a \in Procs, NEW b \in Procs,
                        proc'[a].pc # "idle", proc'[a].key = proc'[b].key
                 PROVE  a = b
      OBVIOUS
    <2>1. proc[a].key = proc[b].key /\ proc[a].pc # "idle"
      BY <1>2
    <2> QED BY <2>1 DEF Separate, OneToOne
  <1>9. ASSUME NEW j \in Keys, NEW k \in Keys, NEW r \in Revs, NEW s \in Revs,
               Mentions(j, r)', Mentions(k, s)'
        PROVE  (j = k) <=> (r = s)
    BY <1>5, <1>6, <1>7, <1>9 DEF Separate, OneToOne
  <1> QED BY <1>8, <1>9 DEF OneToOne

LEMMA OneToOneDrop ==
  ASSUME Separate,
         \A k \in Keys : outbox'[k] \in {NULL, outbox[k]},
         \A p \in Procs : proc'[p] \in {Idle, proc[p]}
  PROVE  OneToOne'
  <1>1. Typed /\ Idle.key = NULL /\ Idle.pc = "idle" /\ Idle.cand = NULL
    BY DEF Separate, Staged, Idle
  <1>2. \A k \in Keys : \A r \in Revs : Mentions(k, r)' => Mentions(k, r)
    BY <1>1 DEF Mentions
  <1>3. \A p, q \in Procs : proc'[p].pc # "idle" /\ proc'[p].key = proc'[q].key => p = q
    BY <1>1, NullAssumption DEF Separate, OneToOne, Typed, Shape, HandlerOK
  <1> QED BY <1>2, <1>3, OneToOneStays

LEMMA OneToOneCall ==
  ASSUME ~OverlappingRetries, Separate, NEW p \in Procs, NEW k \in Keys,
         MayCall(p, k), NEW h, proc' = [proc EXCEPT ![p] = h], h.key = k,
         h.cand # NULL => outbox[k] # NULL /\ h.cand = outbox[k].cand,
         UNCHANGED outbox
  PROVE  OneToOne'
  <1>1. /\ proc'[p] = h /\ \A q \in Procs : q # p => proc'[q] = proc[q]
        /\ \A q \in Procs : proc[q].key # k
    BY DEF MayCall, Separate, Staged, Typed, TypeOK
  <1>2. \A j \in Keys : \A r \in Revs : Mentions(j, r)' => Mentions(j, r)
    <2> SUFFICES ASSUME NEW j \in Keys, NEW r \in Revs, Mentions(j, r)' PROVE Mentions(j, r)
      OBVIOUS
    <2>1. CASE \E q \in Procs : q # p /\ proc'[q].key = j /\ proc'[q].cand # NULL /\ proc'[q].cand.rev = r
      BY <1>1, <2>1 DEF Mentions
    <2>2. CASE proc'[p].key = j /\ proc'[p].cand # NULL /\ proc'[p].cand.rev = r
      BY <1>1, <2>2 DEF Mentions
    <2> QED BY <2>1, <2>2 DEF Mentions
  <1>3. \A a, b \in Procs : proc'[a].pc # "idle" /\ proc'[a].key = proc'[b].key => a = b
    <2> SUFFICES ASSUME NEW a \in Procs, NEW b \in Procs,
                        proc'[a].pc # "idle", proc'[a].key = proc'[b].key
                 PROVE  a = b
      OBVIOUS
    <2>1. a # p /\ b # p => a = b
      BY <1>1 DEF Separate, OneToOne
    <2> QED BY <1>1, <2>1
  <1> QED BY <1>2, <1>3, OneToOneStays

LEMMA OneToOneNext ==
  ASSUME ~OverlappingRetries, Separate, [Next]_vars
  PROVE  OneToOne'
  <1>1. DOMAIN proc = Procs /\ DOMAIN outbox = Keys
    BY DEF Separate, Staged, Typed, TypeOK
  <1>2. ASSUME NEW p \in Procs, Step(p) PROVE OneToOne'
    BY <1>2, OneToOneStep, OneToOneBuild
  <1>3. ASSUME NEW p \in Procs, FailHandler(p) PROVE OneToOne'
    BY <1>1, <1>3, OneToOneDrop DEF FailHandler, kv
  <1>4. ASSUME NEW k \in Keys, ExpireReceipt(k) PROVE OneToOne'
    BY <1>1, <1>4, OneToOneDrop DEF ExpireReceipt
  <1>5. CASE CreateBucketMarker \/ UNCHANGED vars
    BY <1>1, <1>5, OneToOneDrop DEF CreateBucketMarker, vars, kv
  <1>6. ASSUME NEW p \in Procs, Call(p) PROVE OneToOne'
    <2>1. PICK k \in Keys : \/ \E req \in Request : StartMutation(p, k, req)
                            \/ RetryMutation(p, k)
                            \/ RefuseReusedKey(p, k)
      BY <1>6 DEF Call
    <2>2. CASE \E req \in Request : StartMutation(p, k, req)
      <3>1. PICK req \in Request : StartMutation(p, k, req)
        BY <2>2
      <3> DEFINE h == [Idle EXCEPT !.pc = "readCurrent", !.key = k, !.req = req]
      <3>2. h.key = k /\ h.cand = NULL
        BY DEF Idle
      <3> HIDE DEF h
      <3>3. MayCall(p, k) /\ proc' = [proc EXCEPT ![p] = h] /\ UNCHANGED outbox
        BY <3>1 DEF StartMutation, kv, h
      <3> QED BY <3>2, <3>3, OneToOneCall
    <2>3. CASE RetryMutation(p, k) /\ ~UNCHANGED proc
      <3> DEFINE h == [pc |-> ResumePoint(outbox[k]), key |-> k, req |-> outbox[k].req,
                       cand |-> outbox[k].cand, tries |-> 0]
      <3>1. h.key = k /\ h.cand = outbox[k].cand
        OBVIOUS
      <3>2. /\ MayCall(p, k) /\ proc' = [proc EXCEPT ![p] = h] /\ UNCHANGED outbox
            /\ outbox[k] # NULL
        BY <2>3 DEF RetryMutation, kv
      <3> HIDE DEF h
      <3> QED BY <3>1, <3>2, OneToOneCall
    <2>4. CASE RetryMutation(p, k) /\ UNCHANGED proc
      BY <1>1, <2>4, OneToOneDrop DEF RetryMutation, kv
    <2>5. CASE RefuseReusedKey(p, k)
      BY <1>5, <2>5 DEF RefuseReusedKey
    <2> QED BY <2>1, <2>2, <2>3, <2>4, <2>5
  <1> QED BY <1>2, <1>3, <1>4, <1>5, <1>6 DEF Next

\* A handler that a step leaves alone, with what it relies on.
LEMMA OwnsStays ==
  ASSUME NEW q \in Procs, OwnsOK(q), proc'[q] = proc[q],
         proc[q].pc # "idle" => outbox'[proc[q].key] = outbox[proc[q].key],
         proc[q].pc \in RecordedPcs \cup {"putRevision"} =>
             revisions'[proc[q].cand.rev] = revisions[proc[q].cand.rev]
  PROVE  OwnsOK(q)'
  BY DEF OwnsOK, RecordedPcs

LEMMA IdleOwns ==
  ASSUME NEW q \in Procs, proc'[q] = Idle
  PROVE  OwnsOK(q)'
  BY DEF OwnsOK, Idle, RecordedPcs

\* Other handlers have other keys and other revisions.
LEMMA OthersApart ==
  ASSUME Separate, NEW p \in Procs, NEW q \in Procs, p # q, proc[q].pc # "idle"
  PROVE  /\ proc[p].key # proc[q].key
         /\ proc[p].pc \notin {"idle", "readCurrent"} /\ proc[q].pc # "readCurrent" =>
               proc[p].cand.rev # proc[q].cand.rev
  <1>1. proc[p].key # proc[q].key
    BY DEF Separate, OneToOne
  <1>2. ASSUME proc[p].pc \notin {"idle", "readCurrent"}, proc[q].pc # "readCurrent"
        PROVE  proc[p].cand.rev # proc[q].cand.rev
    <2>1. /\ proc[p].key \in Keys /\ proc[p].cand.rev \in Revs /\ proc[p].cand # NULL
          /\ proc[q].key \in Keys /\ proc[q].cand.rev \in Revs /\ proc[q].cand # NULL
      BY <1>2, NullAssumption DEF Separate, Staged, Typed, Shape, HandlerOK, Manifest
    <2>2. Mentions(proc[p].key, proc[p].cand.rev) /\ Mentions(proc[q].key, proc[q].cand.rev)
      BY <2>1 DEF Mentions
    <2> QED BY <1>1, <2>1, <2>2 DEF Separate, OneToOne
  <1> QED BY <1>1, <1>2

LEMMA OthersOwn ==
  ASSUME Separate, NEW p \in Procs, Step(p), NEW q \in Procs, q # p
  PROVE  OwnsOK(q)'
  <1>1. proc'[q] = proc[q] /\ OwnsOK(q)
    BY TypedStep DEF Moves, Separate, Owned, Staged, Typed, TypeOK
  <1>2. /\ DOMAIN outbox = Keys /\ DOMAIN revisions = Revs
        /\ proc[q].pc # "idle" => proc[q].key \in Keys
        /\ proc[q].pc \notin {"idle", "readCurrent"} => proc[q].cand.rev \in Revs
    BY DEF Separate, Staged, Typed, TypeOK, Shape, HandlerOK, Manifest
  <1>3. \/ UNCHANGED outbox
        \/ \E e : outbox' = [outbox EXCEPT ![proc[p].key] = e]
    BY DEF Step, RejectMutation, BuildCandidate, StopAtBound, WriteIntent, WriteUploaded, WriteReady,
           WriteOutbox, UploadBytes, PostEvent, ReadRevision, PutRevision, ReadManifest,
           PutManifest, ReadBucket, PutBucket, PutLeaf, RemoveLeaf, WriteApplied, kv
  <1>4. \/ UNCHANGED revisions
        \/ /\ proc[p].pc = "putRevision"
           /\ revisions' = [revisions EXCEPT ![proc[p].cand.rev] = proc[p].cand]
    BY DEF Step, RejectMutation, BuildCandidate, StopAtBound, WriteIntent, WriteUploaded, WriteReady,
           WriteOutbox, UploadBytes, PostEvent, ReadRevision, PutRevision, ReadManifest,
           PutManifest, ReadBucket, PutBucket, PutLeaf, RemoveLeaf, WriteApplied, kv
  <1>5. proc[q].pc # "idle" => outbox'[proc[q].key] = outbox[proc[q].key]
    BY <1>2, <1>3, OthersApart
  <1>6. proc[q].pc \in RecordedPcs \cup {"putRevision"} =>
             revisions'[proc[q].cand.rev] = revisions[proc[q].cand.rev]
    BY <1>2, <1>4, OthersApart DEF RecordedPcs
  <1> QED BY <1>1, <1>5, <1>6, OwnsStays

LEMMA OwnsStep ==
  ASSUME Separate, NEW p \in Procs, Step(p)
  PROVE  OwnsOK(p)'
  <1>1. /\ OwnsOK(p) /\ Typed
        /\ proc[p] \in Handler /\ DOMAIN proc = Procs
        /\ DOMAIN outbox = Keys /\ DOMAIN revisions = Revs /\ DOMAIN manifest = Objects
        /\ proc[p].pc # "idle" => proc[p].key \in Keys
        /\ proc[p].pc \notin {"idle", "readCurrent"} =>
             proc[p].cand.rev \in Revs /\ proc[p].cand.obj \in Objects
    BY DEF Separate, Owned, Staged, Typed, TypeOK, Shape, HandlerOK, Manifest
  <1> USE DEF RecordedPcs
  <1>2. CASE RejectMutation(p) \/ StopAtBound(p) \/ WriteApplied(p)
    BY <1>1, <1>2, IdleOwns DEF RejectMutation, StopAtBound, WriteApplied
  <1>3. CASE BuildCandidate(p)
    <2>1. /\ proc'[p].pc = "writeIntent" /\ proc'[p].key = proc[p].key /\ proc[p].pc = "readCurrent"
          /\ UNCHANGED outbox
      BY <1>1, <1>3 DEF BuildCandidate, Handler, kv
    <2> QED BY <1>1, <2>1 DEF OwnsOK
  <1>4. CASE WriteIntent(p) \/ WriteUploaded(p) \/ WriteReady(p)
    <2>1. /\ proc'[p].pc \in {"upload", "post", "readRevision"} /\ proc'[p].key = proc[p].key
          /\ proc[p].pc \notin {"idle", "readCurrent"}
      BY <1>1, <1>4 DEF WriteIntent, WriteUploaded, WriteReady, WriteOutbox, Move, Handler
    <2>2. PICK s \in Statuses : outbox' = [outbox EXCEPT ![proc[p].key] = EntryOf(proc[p], s)]
      BY <1>4 DEF WriteIntent, WriteUploaded, WriteReady, WriteOutbox, Statuses
    <2> QED BY <1>1, <2>1, <2>2, EntryNotNull DEF OwnsOK
  <1>5. CASE UploadBytes(p) \/ PostEvent(p)
    <2>1. /\ proc'[p].pc \in {"writeUploaded", "writeReady"} /\ proc'[p].key = proc[p].key
          /\ proc[p].pc \in {"upload", "post"} /\ UNCHANGED outbox
      BY <1>1, <1>5 DEF UploadBytes, PostEvent, Handler, kv
    <2> QED BY <1>1, <2>1 DEF OwnsOK
  <1>6. CASE ReadRevision(p)
    <2>1. /\ proc[p].pc = "readRevision" /\ UNCHANGED <<outbox, revisions>>
          /\ \/ proc'[p] = Idle
             \/ /\ proc'[p].key = proc[p].key /\ proc'[p].cand = proc[p].cand
                /\ \/ proc'[p].pc = "putRevision" /\ revisions[proc[p].cand.rev] = NULL
                   \/ proc'[p].pc = "readManifest" /\ revisions[proc[p].cand.rev] = proc[p].cand
      BY <1>1, <1>6 DEF ReadRevision, Move, Handler, kv
    <2> QED BY <1>1, <2>1, IdleOwns DEF OwnsOK
  <1>7. CASE PutRevision(p)
    <2>1. /\ proc[p].pc = "putRevision" /\ UNCHANGED outbox
          /\ revisions' = [revisions EXCEPT ![proc[p].cand.rev] = proc[p].cand]
          /\ proc'[p].key = proc[p].key /\ proc'[p].cand = proc[p].cand
          /\ proc'[p].pc = "readManifest"
      BY <1>1, <1>7 DEF PutRevision, Move, Handler, kv
    <2> QED BY <1>1, <2>1 DEF OwnsOK
  <1>8. CASE ReadManifest(p)
    <2> DEFINE cur == manifest[proc[p].cand.obj]
    <2>1. /\ proc[p].pc = "readManifest" /\ UNCHANGED <<outbox, revisions>>
          /\ \/ proc'[p] = Idle
             \/ /\ proc'[p].key = proc[p].key
                /\ \/ proc'[p].cand = proc[p].cand /\ proc'[p].pc = "putManifest"
                   \/ /\ proc'[p].cand = cur /\ cur # NULL /\ cur.rev = proc[p].cand.rev
                      /\ proc'[p].pc \in {"readBucket", "removeLeaf"}
      BY <1>1, <1>8 DEF ReadManifest, Conflict, IsCurrent, Move, Handler, kv
    <2>2. cur # NULL => revisions[cur.rev] = cur
      BY <1>1, <2>1 DEF Separate, CurrentIsRecorded
    <2> QED BY <1>1, <2>1, <2>2, IdleOwns DEF OwnsOK
  <1>9. CASE PutManifest(p) \/ ReadBucket(p) \/ PutBucket(p) \/ PutLeaf(p) \/ RemoveLeaf(p)
    <2>1. /\ proc[p].pc \in {"putManifest", "readBucket", "putBucket", "putLeaf", "removeLeaf"}
          /\ UNCHANGED <<outbox, revisions>>
      BY <1>9 DEF PutManifest, ReadBucket, PutBucket, PutLeaf, RemoveLeaf, kv
    <2>2. \/ proc'[p] = Idle
          \/ /\ proc'[p].key = proc[p].key /\ proc'[p].cand = proc[p].cand
             /\ proc'[p].pc \in RecordedPcs
      BY <1>1, <1>9 DEF PutManifest, ReadBucket, PutBucket, PutLeaf, RemoveLeaf, Move, Handler
    <2> QED BY <1>1, <2>1, <2>2, IdleOwns DEF OwnsOK
  <1> QED BY <1>2, <1>3, <1>4, <1>5, <1>6, <1>7, <1>8, <1>9 DEF Step

LEMMA OwnedNext ==
  ASSUME ~OverlappingRetries, Separate, [Next]_vars
  PROVE  Owned'
  <1>1. Owned /\ DOMAIN proc = Procs /\ DOMAIN outbox = Keys /\ Typed
    BY DEF Separate, Staged, Typed, TypeOK
  <1>2. ASSUME NEW p \in Procs, Step(p) PROVE Owned'
    BY <1>2, OthersOwn, OwnsStep DEF Owned
  <1>3. ASSUME \A p \in Procs : proc'[p] \in {proc[p], Idle},
               UNCHANGED revisions,
               \A p \in Procs : proc[p].pc # "idle" => outbox'[proc[p].key] = outbox[proc[p].key]
        PROVE  Owned'
    BY <1>1, <1>3, OwnsStays, IdleOwns DEF Owned
  <1>4. ASSUME NEW p \in Procs, FailHandler(p) PROVE Owned'
    BY <1>1, <1>3, <1>4 DEF FailHandler, kv
  <1>5. ASSUME NEW k \in Keys, ExpireReceipt(k) PROVE Owned'
    BY <1>1, <1>3, <1>5 DEF ExpireReceipt
  <1>6. CASE CreateBucketMarker \/ UNCHANGED vars
    BY <1>1, <1>3, <1>6 DEF CreateBucketMarker, vars, kv
  <1>7. ASSUME NEW p \in Procs, NEW k \in Keys, NEW req \in Request, StartMutation(p, k, req) PROVE Owned'
    <2>1. /\ proc'[p].pc = "readCurrent" /\ proc'[p].key = k /\ outbox[k] = NULL
          /\ UNCHANGED <<outbox, revisions>>
          /\ \A q \in Procs : q # p => proc'[q] = proc[q]
      BY <1>1, <1>7 DEF StartMutation, Idle, kv
    <2>2. OwnsOK(p)'
      BY <2>1 DEF OwnsOK, RecordedPcs
    <2> QED BY <1>1, <2>1, <2>2, OwnsStays DEF Owned
  <1>8. ASSUME NEW p \in Procs, NEW k \in Keys, RetryMutation(p, k) PROVE Owned'
    <2>1. CASE UNCHANGED proc
      BY <1>1, <1>3, <1>8, <2>1 DEF RetryMutation, kv
    <2>2. CASE ~UNCHANGED proc
      <3>1. /\ proc'[p].pc = ResumePoint(outbox[k]) /\ proc'[p].key = k /\ outbox[k] # NULL
            /\ UNCHANGED <<outbox, revisions>>
            /\ \A q \in Procs : q # p => proc'[q] = proc[q]
        BY <1>1, <1>8, <2>2 DEF RetryMutation, kv
      <3>2. proc'[p].pc \in {"upload", "post", "readRevision"}
        BY <1>1, <3>1, ResumePointType DEF Typed, TypeOK
      <3>3. OwnsOK(p)'
        BY <3>1, <3>2 DEF OwnsOK, RecordedPcs
      <3> QED BY <1>1, <3>1, <3>3, OwnsStays DEF Owned
    <2> QED BY <2>1, <2>2
  <1>9. ASSUME NEW p \in Procs, Call(p) PROVE Owned'
    BY <1>6, <1>7, <1>8, <1>9 DEF Call, RefuseReusedKey
  <1> QED BY <1>2, <1>4, <1>5, <1>6, <1>9 DEF Next

\* A revision record is written once.
LEMMA RecordsAreFinal ==
  ASSUME Separate, [Next]_vars, NEW r \in Revs, revisions[r] # NULL
  PROVE  revisions'[r] = revisions[r]
  <1>1. CASE \E p \in Procs : PutRevision(p)
    <2>1. PICK p \in Procs : PutRevision(p)
      BY <1>1
    <2>2. proc[p].cand.rev \in Revs /\ revisions[proc[p].cand.rev] = NULL
      BY <2>1 DEF PutRevision, Separate, Owned, OwnsOK, Staged, Typed, Shape, HandlerOK, Manifest
    <2> QED BY <2>1, <2>2 DEF PutRevision, Separate, Staged, Typed, TypeOK
  <1>2. CASE \A p \in Procs : ~PutRevision(p)
    BY <1>2 DEF Next, Call, StartMutation, RetryMutation, RefuseReusedKey, FailHandler,
       ExpireReceipt, CreateBucketMarker, Step, RejectMutation, BuildCandidate, StopAtBound,
       WriteIntent, WriteUploaded, WriteReady, WriteOutbox, UploadBytes, PostEvent, ReadRevision,
       ReadManifest, PutManifest, ReadBucket, PutBucket, PutLeaf, RemoveLeaf, WriteApplied, vars, kv
  <1> QED BY <1>1, <1>2

LEMMA CurrentNext ==
  ASSUME Separate, [Next]_vars
  PROVE  CurrentIsRecorded'
  <1> SUFFICES ASSUME NEW o \in Objects, manifest'[o] # NULL
               PROVE  revisions'[manifest'[o].rev] = manifest'[o]
    BY DEF CurrentIsRecorded
  <1>1. CASE manifest'[o] = manifest[o]
    <2>1. manifest[o].rev \in Revs /\ revisions[manifest[o].rev] = manifest[o]
      BY <1>1 DEF Separate, CurrentIsRecorded, Staged, Typed, TypeOK, Manifest
    <2> QED BY <1>1, <2>1, RecordsAreFinal
  <1>2. CASE manifest'[o] # manifest[o]
    <2>1. PICK p \in Procs : PutManifest(p)
      BY <1>2
      DEF Next, Call, StartMutation, RetryMutation, RefuseReusedKey, FailHandler,
       ExpireReceipt, CreateBucketMarker, Step, RejectMutation, BuildCandidate, StopAtBound,
       WriteIntent, WriteUploaded, WriteReady, WriteOutbox, UploadBytes, PostEvent, ReadRevision,
       ReadManifest, PutRevision, ReadBucket, PutBucket, PutLeaf, RemoveLeaf, WriteApplied, vars, kv
    <2>2. manifest'[o] = proc[p].cand /\ UNCHANGED revisions
      BY <1>2, <2>1 DEF PutManifest, Separate, Staged, Typed, TypeOK
    <2>3. revisions[proc[p].cand.rev] = proc[p].cand
      BY <2>1 DEF PutManifest, Separate, Owned, OwnsOK, RecordedPcs
    <2> QED BY <2>2, <2>3
  <1> QED BY <1>1, <1>2

LEMMA TombstonesNext ==
  ASSUME Separate, [Next]_vars
  PROVE  TombstonesKeepBytes'
  <1>1. ASSUME NEW y, InUse(y), y.state = "deleted"
        PROVE  revisions'[y.parent].storage = y.storage
    <2>1. y.parent # NoParent /\ y.parent \in Revs /\ revisions[y.parent] # NULL
      BY <1>1, InUseType DEF Separate, Staged, Copies, AllDescend, Descends
    <2> QED BY <1>1, <2>1, RecordsAreFinal DEF Separate, TombstonesKeepBytes
  <1>2. CASE Continues
    <2> SUFFICES ASSUME NEW x, InUse(x)', x.state = "deleted"
                 PROVE  revisions'[x.parent].storage = x.storage
      BY DEF TombstonesKeepBytes
    <2>1. PICK y : InUse(y) /\ Same(x, y)
      BY <1>2 DEF Continues
    <2> QED BY <1>1, <2>1 DEF Same
  <1>3. CASE UNCHANGED vars
    <2>1. \A m : InUse(m)' => InUse(m)
      BY <1>3 DEF InUse, vars, kv
    <2> QED BY <1>1, <2>1 DEF TombstonesKeepBytes
  <1>4. ASSUME NEW p \in Procs, BuildCandidate(p) PROVE TombstonesKeepBytes'
    <2> DEFINE req == proc[p].req
               cur == manifest[req.obj]
    <2>1. PICK rev \in FreshRevs :
            proc' = [proc EXCEPT ![p].pc = "writeIntent", ![p].cand = CandidateOf(req, cur, rev)]
      BY <1>4 DEF BuildCandidate
    <2>2. PICK x : x = CandidateOf(req, cur, rev)
      OBVIOUS
    <2>3. UNCHANGED <<revisions, manifest, outbox>>
      BY <1>4 DEF BuildCandidate, kv
    <2>4. \A m : InUse(m)' => InUse(m) \/ m = x
      BY <2>1, <2>2, <2>3 DEF InUse, Separate, Staged, Typed, TypeOK, Handler
    <2>5. req \in Request /\ req.obj \in Objects
      BY <1>4 DEF BuildCandidate, Separate, Staged, Typed, Shape, HandlerOK, Request
    <2>6. x.state = "deleted" => revisions[x.parent].storage = x.storage
      <3> SUFFICES ASSUME x.state = "deleted" PROVE revisions[x.parent].storage = x.storage
        OBVIOUS
      <3>1. req.op = "delete"
        BY <2>2, <2>5 DEF CandidateOf, Request
      <3>2. cur # NULL /\ x.parent = cur.rev /\ x.storage = cur.storage
        BY <1>4, <2>2, <3>1 DEF BuildCandidate, Active, CandidateOf
      <3> QED BY <2>5, <3>2 DEF Separate, CurrentIsRecorded
    <2> QED BY <1>1, <2>3, <2>4, <2>6 DEF TombstonesKeepBytes
  <1> QED BY <1>2, <1>3, <1>4, ContinuesNext DEF Separate

LEMMA AnswersNext ==
  ASSUME ~OverlappingRetries, Separate, [Next]_vars
  PROVE  AnswersMatch'
  <1>1. /\ answers \subseteq Answer /\ DOMAIN outbox = Keys /\ Typed
        /\ \A a \in answers : a.key \in Keys /\ outbox[a.key] # NULL /\ outbox[a.key].cand.rev = a.rev
    BY DEF Separate, AnswersMatch, Staged, Typed, TypeOK, Answer
  <1>2. ASSUME UNCHANGED outbox, UNCHANGED answers PROVE AnswersMatch'
    BY <1>1, <1>2 DEF AnswersMatch
  <1>3. ASSUME NEW p \in Procs, Step(p) PROVE AnswersMatch'
    <2>1. /\ outbox' # outbox => /\ proc[p].pc \notin {"idle", "readCurrent"}
                                 /\ \E s \in Statuses : outbox' = [outbox EXCEPT ![proc[p].key] = EntryOf(proc[p], s)]
          /\ answers' # answers =>
               /\ proc[p].pc \notin {"idle", "readCurrent", "writeIntent"}
               /\ \E kind : answers' = answers \cup {AnswerOf(proc[p].key, proc[p].cand, kind)}
      BY <1>3 DEF Step, RejectMutation, BuildCandidate, StopAtBound, WriteIntent, WriteUploaded,
           WriteReady, WriteOutbox, UploadBytes, PostEvent, ReadRevision, PutRevision, ReadManifest,
           PutManifest, ReadBucket, PutBucket, PutLeaf, RemoveLeaf, WriteApplied, Conflict, kv, Statuses
    <2>2. proc[p].pc \notin {"idle", "readCurrent"} =>
            /\ proc[p].key \in Keys /\ proc[p].cand # NULL /\ proc[p].cand.rev \in Revs
            /\ outbox[proc[p].key] # NULL => outbox[proc[p].key].cand.rev = proc[p].cand.rev
      <3> SUFFICES ASSUME proc[p].pc \notin {"idle", "readCurrent"}
                   PROVE  /\ proc[p].key \in Keys /\ proc[p].cand # NULL /\ proc[p].cand.rev \in Revs
                          /\ outbox[proc[p].key] # NULL => outbox[proc[p].key].cand.rev = proc[p].cand.rev
        OBVIOUS
      <3>1. proc[p].key \in Keys /\ proc[p].cand # NULL /\ proc[p].cand.rev \in Revs
        BY <1>1, NullAssumption DEF Typed, Shape, HandlerOK, Manifest
      <3>2. Mentions(proc[p].key, proc[p].cand.rev)
        BY <3>1 DEF Mentions
      <3>3. outbox[proc[p].key] # NULL => /\ Mentions(proc[p].key, outbox[proc[p].key].cand.rev)
                                          /\ outbox[proc[p].key].cand.rev \in Revs
        BY <1>1, <3>1 DEF Mentions, Typed, TypeOK, Entry, Manifest
      <3> QED BY <3>1, <3>2, <3>3 DEF Separate, OneToOne
    <2>3. \A k \in Keys : outbox[k] # NULL => outbox'[k] # NULL /\ outbox'[k].cand.rev = outbox[k].cand.rev
      BY <1>1, <2>1, <2>2, EntryNotNull
    <2>4. proc[p].pc \notin {"idle", "readCurrent", "writeIntent"} => outbox[proc[p].key] # NULL
      BY DEF Separate, Owned, OwnsOK
    <2>5. ASSUME NEW a \in answers' PROVE outbox'[a.key] # NULL /\ outbox'[a.key].cand.rev = a.rev
      <3>1. CASE a \in answers
        BY <1>1, <2>3, <3>1
      <3>2. CASE a \notin answers
        <4>1. /\ proc[p].pc \notin {"idle", "readCurrent", "writeIntent"}
              /\ a.key = proc[p].key /\ a.rev = proc[p].cand.rev
          BY <2>1, <2>5, <3>2 DEF AnswerOf
        <4> QED BY <2>2, <2>3, <2>4, <4>1
      <3> QED BY <3>1, <3>2
    <2> QED BY <2>5 DEF AnswersMatch
  <1>4. ASSUME NEW p \in Procs, NEW k \in Keys, RetryMutation(p, k) PROVE AnswersMatch'
    BY <1>1, <1>4 DEF RetryMutation, kv, AnswerOf, AnswersMatch
  <1>5. ASSUME NEW k \in Keys, ExpireReceipt(k) PROVE AnswersMatch'
    BY <1>1, <1>5 DEF ExpireReceipt, AnswersMatch
  <1>6. CASE CreateBucketMarker \/ UNCHANGED vars
    BY <1>2, <1>6 DEF CreateBucketMarker, vars, kv
  <1>7. ASSUME NEW p \in Procs, Call(p) \/ FailHandler(p) PROVE AnswersMatch'
    BY <1>2, <1>4, <1>7 DEF Call, StartMutation, RefuseReusedKey, FailHandler, vars, kv
  <1> QED BY <1>3, <1>5, <1>6, <1>7 DEF Next

LEMMA SeparateInit == Init => Separate
  <1> SUFFICES ASSUME Init PROVE Separate
    OBVIOUS
  <1>1. /\ \A k \in Keys : \A r : ~Mentions(k, r)
        /\ \A m : ~InUse(m)
    BY DEF Init, Mentions, InUse, Idle
  <1>2. OneToOne
    BY <1>1 DEF Init, OneToOne, Idle
  <1>3. Owned /\ CurrentIsRecorded /\ AnswersMatch
    BY DEF Init, Owned, OwnsOK, Idle, RecordedPcs, CurrentIsRecorded, AnswersMatch
  <1> QED BY <1>1, <1>2, <1>3, StagedInit DEF Separate, TombstonesKeepBytes

LEMMA SeparateNext == ~OverlappingRetries /\ Separate /\ [Next]_vars => Separate'
  BY TypedNext, StagesNext, CopiesNext, OneToOneNext, OwnedNext, CurrentNext, TombstonesNext,
     AnswersNext DEF Separate, Staged

\* The index of clients that do not repeat a key while a handler of it runs: each key
\* owns one revision, whose record is written once and is what becomes current.
THEOREM SeparateHolds == ASSUME ~OverlappingRetries PROVE Spec => []Separate
  <1>1. Separate /\ [Next]_vars => Separate'
    BY SeparateNext
  <1> QED BY <1>1, SeparateInit, PTL DEF Spec

\* Telegram, then the revision record, then the manifest: in every reachable state a
\* reader that finds a manifest, and a repair that finds a staged mutation, can fetch
\* what it names.
THEOREM PointersResolveHolds == ASSUME ~OverlappingRetries PROVE Spec => []PointersResolve
  <1>1. Separate => PointersResolve
    <2> SUFFICES ASSUME Separate PROVE PointersResolve
      OBVIOUS
    <2>1. ASSUME NEW o \in Objects, Active(manifest[o]) PROVE GetObject(o) = {manifest[o].body}
      <3>1. <<manifest[o].storage, manifest[o].body>> \in bytes
        BY <2>1 DEF Active, Separate, Staged, Stages, ManifestOK, Stored
      <3> QED BY <2>1, <3>1, DownloadsTheBody DEF GetObject, Separate
    <2> QED BY <2>1
        DEF PointersResolve, Separate, CurrentIsRecorded, Staged, Stages, RecordOK, EntryOK, Uploaded
  <1> QED BY <1>1, SeparateHolds, PTL

\* The revision records tell each object's history, in every reachable state.
THEOREM RevisionTreeHolds == ASSUME ~OverlappingRetries PROVE Spec => []RevisionTree
  <1>1. Separate => RevisionTree
    <2> SUFFICES ASSUME Separate, NEW r \in Revs, revisions[r] # NULL
                 PROVE  LET m == revisions[r]
                            parent == IF m.parent = NoParent THEN NULL ELSE revisions[m.parent]
                        IN
                        /\ m.rev = r
                        /\ (m.parent = NoParent) = (m.version = 1)
                        /\ m.parent # NoParent =>
                             /\ parent # NULL
                             /\ parent.obj = m.obj
                             /\ parent.version + 1 = m.version
                             /\ m.state = "deleted" => /\ parent.state = "active"
                                                       /\ parent.storage = m.storage
                        /\ m.state = "deleted" => m.parent # NoParent
      BY DEF RevisionTree
    <2>1. InUse(revisions[r]) /\ revisions[r].rev = r
      BY DEF InUse, Separate, Staged, Stages, RecordOK
    <2>2. Descends(revisions[r])
      BY <2>1 DEF Separate, Staged, Copies, AllDescend
    <2>3. revisions[r].state = "deleted" =>
            revisions[revisions[r].parent].storage = revisions[r].storage
      BY <2>1 DEF Separate, TombstonesKeepBytes
    <2> QED BY <2>1, <2>2, <2>3 DEF Descends
  <1> QED BY <1>1, SeparateHolds, PTL

\* However often a key is repeated within its retention, it makes one revision.
THEOREM OneRevisionPerKeyHolds == ASSUME ~OverlappingRetries PROVE Spec => []OneRevisionPerKey
  <1>1. Separate => OneRevisionPerKey
    BY DEF Separate, AnswersMatch, OneRevisionPerKey
  <1> QED BY <1>1, SeparateHolds, PTL

\* A revision record is written once and never changes.
RecordsWrittenOnce == [][\A r \in Revs : revisions[r] # NULL => revisions'[r] = revisions[r]]_vars

\* The records of the revisions are immutable, as the code's comments promise.
THEOREM RecordsAreImmutable == ASSUME ~OverlappingRetries PROVE Spec => RecordsWrittenOnce
  <1>1. Separate /\ [Next]_vars
          => [\A r \in Revs : revisions[r] # NULL => revisions'[r] = revisions[r]]_vars
    BY RecordsAreFinal
  <1> QED BY <1>1, SeparateHolds, PTL DEF Spec, RecordsWrittenOnce

-----------------------------------------------------------------------------
(* One handler at a time: the registers of VersionedObjects *)

\* The object is at m, at a smaller sibling of it, or further on.
Reaches(m) ==
    LET cur == manifest[m.obj] IN
    /\ cur # NULL
    /\ cur.version > m.version \/ (IsFork(cur, m) /\ cur.rev <= m.rev)

\* The object can never be at m again.
Lost(m) ==
    LET cur == manifest[m.obj] IN
    /\ cur # NULL
    /\ \/ cur.version > m.version
       \/ cur.version = m.version /\ (cur.parent # m.parent \/ cur.rev < m.rev)
       \/ cur.version + 1 = m.version /\ cur.rev < m.parent

\* The object has reached the parent of m.
Follows(m) ==
    LET cur == manifest[m.obj] IN
    m.version # 1 => /\ cur # NULL
                     /\ \/ cur.version >= m.version
                        \/ cur.version + 1 = m.version /\ cur.rev <= m.parent

ListedRight(o) == /\ (o \in leaves) <=> Active(manifest[o])
                  /\ Active(manifest[o]) => bucket

\* What an acknowledged mutation leaves behind.
Done(m) == /\ revisions[m.rev] # NULL
           /\ Reaches(m)
           /\ manifest[m.obj].rev = m.rev => ListedRight(m.obj)

\* What the only handler knows of the manifest it has read.
TurnOK(p) ==
    LET h == proc[p]
        cur == manifest[h.cand.obj]
    IN
    /\ h.pc = "putManifest" => MayReplace(cur, h.cand) /\ ~IsCurrent(cur, h)
    /\ h.pc \in {"readBucket", "putBucket", "putLeaf", "removeLeaf", "writeApplied"} => cur = h.cand
    /\ h.pc \in {"readBucket", "putBucket", "putLeaf"} => Active(cur)
    /\ h.pc = "putLeaf" => bucket
    /\ h.pc = "removeLeaf" => ~Active(cur)
    /\ h.pc = "writeApplied" => ListedRight(h.cand.obj)

Turns == \A p \in Procs : TurnOK(p)

AllFollow == \A m : InUse(m) => Follows(m)

AppliedAreDone ==
    \A k \in Keys : outbox[k] # NULL /\ outbox[k].status = "applied" => Done(outbox[k].cand)

AnswerHolds(a, m) == /\ m.obj = a.obj /\ m.version = a.version
                     /\ a.kind = "ok" => Done(m)
                     /\ a.kind = "conflict" => Lost(m)

AnswersHold == \A a \in answers : AnswerHolds(a, outbox[a.key].cand)

Serial == Separate /\ Turns /\ AllFollow /\ AppliedAreDone /\ AnswersHold

\* An object's manifest is succeeded or overtaken.
Advances(o) ==
    LET cur == manifest[o]
        x == manifest'[o]
    IN
    /\ x \in Manifest /\ x # NULL /\ x.obj = o
    /\ \/ IsNext(cur, x)
       \/ cur # NULL /\ x.version = cur.version /\ x.parent = cur.parent /\ x.rev < cur.rev

Onward == \A o \in Objects : manifest'[o] = manifest[o] \/ Advances(o)

LEMMA ManifestNumbers ==
  ASSUME NEW m \in Manifest
  PROVE  m.version \in Int /\ m.version >= 1 /\ m.rev \in Int /\ m.rev # NoParent /\ m.parent \in Int
         /\ m.obj \in Objects
  <1>1. /\ m.version \in 1 .. MaxVersion /\ m.rev \in Revs /\ m.parent \in Revs \cup {NoParent}
        /\ m.obj \in Objects
    BY DEF Manifest
  <1>2. \A r \in Revs : r \in Int /\ r # NoParent
    BY RevAssumption
  <1>3. NoParent \in Int
    BY DEF NoParent
  <1> QED BY <1>1, <1>2, <1>3, BoundAssumption

LEMMA OnwardKeeps ==
  ASSUME Typed, Onward, NEW m \in Manifest
  PROVE  /\ Reaches(m) => Reaches(m)'
         /\ Lost(m) => Lost(m)'
         /\ Follows(m) => Follows(m)'
  <1> DEFINE cur == manifest[m.obj]
             x == manifest'[m.obj]
  <1>1. m.version \in Int /\ m.rev \in Int /\ m.parent \in Int /\ m.obj \in Objects /\ m.version >= 1
    BY ManifestNumbers
  <1>2. CASE x = cur
    BY <1>2 DEF Reaches, Lost, Follows
  <1>3. CASE Advances(m.obj)
    <2>1. x # NULL /\ x.version \in Int /\ x.rev \in Int /\ x.parent \in Int /\ x.version >= 1
      BY <1>3, ManifestNumbers DEF Advances
    <2>2. cur # NULL => cur.version \in Int /\ cur.rev \in Int /\ cur.parent \in Int /\ cur.version >= 1
      BY <1>1, ManifestNumbers DEF Typed, TypeOK
    <2>3. CASE cur = NULL
      BY <1>1, <1>3, <2>1, <2>3 DEF Advances, Reaches, Lost, Follows, IsNext
    <2>4. CASE cur # NULL
      <3>1. \/ x.version = cur.version + 1 /\ x.parent = cur.rev
            \/ x.version = cur.version /\ x.parent = cur.parent /\ x.rev < cur.rev
        BY <1>3, <2>4 DEF Advances, IsNext
      <3>2. Reaches(m) => Reaches(m)'
        BY <1>1, <2>1, <2>2, <2>4, <3>1 DEF Reaches, IsFork
      <3>3. Lost(m) => Lost(m)'
        BY <1>1, <2>1, <2>2, <2>4, <3>1 DEF Lost
      <3>4. Follows(m) => Follows(m)'
        BY <1>1, <2>1, <2>2, <2>4, <3>1 DEF Follows
      <3> QED BY <3>2, <3>3, <3>4
    <2> QED BY <2>3, <2>4
  <1> QED BY <1>1, <1>2, <1>3 DEF Onward

\* Where Telegram has a candidate does not change where it stands.
LEMMA StandingOfSame ==
  ASSUME NEW x, NEW y, Same(x, y)
  PROVE  /\ Reaches(x) <=> Reaches(y)
         /\ Lost(x) <=> Lost(y)
         /\ Follows(x) <=> Follows(y)
         /\ Done(x) <=> Done(y)
  BY DEF Same, Reaches, Lost, Follows, Done, IsFork

\* Neither an object that is past m nor one that lost it is ever given m.
LEMMA PastIsPast ==
  ASSUME Typed, NEW m \in Manifest, Reaches(m) \/ Lost(m),
         MayReplace(manifest[m.obj], m)
  PROVE  FALSE
  <1>1. m.version \in Int /\ m.rev \in Int /\ m.parent \in Int /\ m.obj \in Objects /\ m.version >= 1
    BY ManifestNumbers
  <1>2. PICK cur : cur = manifest[m.obj]
    OBVIOUS
  <1>3. cur # NULL /\ cur.version \in Int /\ cur.rev \in Int /\ cur.parent \in Int
    BY <1>1, <1>2, ManifestNumbers DEF Reaches, Lost, Typed, TypeOK
  <1>4. \/ cur.version = m.version /\ cur.parent = m.parent /\ m.rev < cur.rev
        \/ m.parent = cur.rev /\ m.version = cur.version + 1
    BY <1>2, <1>3 DEF MayReplace, IsFork, IsNext
  <1>5. CASE Reaches(m)
    BY <1>1, <1>2, <1>3, <1>4, <1>5 DEF Reaches, IsFork
  <1>6. CASE Lost(m)
    BY <1>1, <1>2, <1>3, <1>4, <1>6 DEF Lost
  <1> QED BY <1>5, <1>6

LEMMA OnwardNext ==
  ASSUME Serial, [Next]_vars
  PROVE  Onward
  <1> SUFFICES ASSUME NEW o \in Objects, manifest'[o] # manifest[o] PROVE Advances(o)
    BY DEF Onward
  <1>1. PICK p \in Procs : PutManifest(p)
    BY DEF Next, Call, StartMutation, RetryMutation, RefuseReusedKey, FailHandler,
       ExpireReceipt, CreateBucketMarker, Step, RejectMutation, BuildCandidate, StopAtBound,
       WriteIntent, WriteUploaded, WriteReady, WriteOutbox, UploadBytes, PostEvent, ReadRevision,
       ReadManifest, PutRevision, ReadBucket, PutBucket, PutLeaf, RemoveLeaf, WriteApplied, vars, kv
  <1>2. /\ manifest'[o] = proc[p].cand /\ proc[p].cand.obj = o
        /\ proc[p].cand \in Manifest
    BY <1>1 DEF PutManifest, Serial, Separate, Staged, Typed, TypeOK, Shape, HandlerOK
  <1>3. MayReplace(manifest[o], proc[p].cand)
    BY <1>1, <1>2 DEF PutManifest, Serial, Turns, TurnOK
  <1> QED BY <1>2, <1>3, NullAssumption DEF Advances, MayReplace, IsFork

LEMMA FollowsNext ==
  ASSUME Serial, [Next]_vars
  PROVE  AllFollow'
  <1>1. Onward /\ Typed
    BY OnwardNext DEF Serial, Separate, Staged
  <1>2. ASSUME NEW y, InUse(y) PROVE Follows(y)'
    <2>1. y \in Manifest /\ Follows(y)
      BY <1>1, <1>2, InUseType DEF Serial, AllFollow
    <2> QED BY <1>1, <2>1, OnwardKeeps
  <1>3. ASSUME NEW x, NEW y, InUse(y), Same(x, y) PROVE Follows(x)'
    BY <1>2, <1>3 DEF Same, Follows
  <1>4. CASE Continues
    BY <1>3, <1>4 DEF Continues, AllFollow
  <1>5. CASE UNCHANGED vars
    <2>1. \A m : InUse(m)' => InUse(m)
      BY <1>5 DEF InUse, vars, kv
    <2> QED BY <1>2, <2>1 DEF AllFollow
  <1>6. ASSUME NEW p \in Procs, BuildCandidate(p) PROVE AllFollow'
    <2> DEFINE req == proc[p].req
               cur == manifest[req.obj]
    <2>1. PICK rev \in FreshRevs :
            proc' = [proc EXCEPT ![p].pc = "writeIntent", ![p].cand = CandidateOf(req, cur, rev)]
      BY <1>6 DEF BuildCandidate
    <2>2. PICK x : x = CandidateOf(req, cur, rev)
      OBVIOUS
    <2>3. UNCHANGED <<revisions, manifest, outbox>>
      BY <1>6 DEF BuildCandidate, kv
    <2>4. \A m : InUse(m)' => InUse(m) \/ m = x
      BY <1>1, <2>1, <2>2, <2>3 DEF InUse, Typed, TypeOK, Handler
    <2>5. req \in Request /\ req.obj \in Objects
      BY <1>1, <1>6 DEF BuildCandidate, Typed, Shape, HandlerOK, Request
    <2>6. cur # NULL => cur.rev \in Int /\ cur.version \in Int
      BY <1>1, <2>5, ManifestNumbers DEF Typed, TypeOK
    <2>7. Follows(x)'
      BY <2>2, <2>3, <2>6 DEF Follows, CandidateOf
    <2> QED BY <1>2, <2>4, <2>7 DEF AllFollow
  <1> QED BY <1>4, <1>5, <1>6, ContinuesNext DEF Serial, Separate

\* The index and what has been answered agree on each object.
LEMMA DoneStays ==
  ASSUME Serial, [Next]_vars, NEW m, InUse(m), Done(m),
         \A o \in Objects : manifest'[o] = manifest[o] /\ ListedRight(o) /\ m.obj = o
                            /\ manifest[o].rev = m.rev => ListedRight(o)'
  PROVE  Done(m)'
  <1>1. Onward /\ Typed /\ m \in Manifest /\ m.obj \in Objects /\ m.rev \in Revs
    BY OnwardNext, InUseType, ManifestNumbers DEF Serial, Separate, Staged
  <1>2. revisions'[m.rev] # NULL /\ Reaches(m)'
    BY <1>1, OnwardKeeps, RecordsAreFinal DEF Done, Serial
  <1>3. ASSUME manifest'[m.obj] # manifest[m.obj] PROVE manifest'[m.obj].rev # m.rev
    <2>1. PICK p \in Procs : PutManifest(p)
      BY <1>3
      DEF Next, Call, StartMutation, RetryMutation, RefuseReusedKey, FailHandler,
       ExpireReceipt, CreateBucketMarker, Step, RejectMutation, BuildCandidate, StopAtBound,
       WriteIntent, WriteUploaded, WriteReady, WriteOutbox, UploadBytes, PostEvent, ReadRevision,
       ReadManifest, PutRevision, ReadBucket, PutBucket, PutLeaf, RemoveLeaf, WriteApplied, vars, kv
    <2>2. PICK c \in Manifest : c = proc[p].cand /\ InUse(c)
      BY <1>1, <2>1, NullAssumption DEF PutManifest, Typed, Shape, HandlerOK, InUse
    <2>3. manifest'[m.obj] = c /\ c.obj = m.obj /\ MayReplace(manifest[c.obj], c)
      BY <1>1, <1>3, <2>1, <2>2 DEF PutManifest, Typed, TypeOK, Serial, Turns, TurnOK
    <2>4. c.rev = m.rev => Same(c, m)
      BY <2>2 DEF Serial, Separate, Staged, Copies, OneCandidatePerRev
    <2>5. c.rev = m.rev => Reaches(c)
      BY <2>4, StandingOfSame DEF Done
    <2> QED BY <1>1, <2>2, <2>3, <2>5, PastIsPast
  <1>4. manifest'[m.obj].rev = m.rev => ListedRight(m.obj)'
    BY <1>1, <1>3 DEF Done
  <1> QED BY <1>2, <1>4 DEF Done

\* A step keeps what is listed where it should be.
LEMMA ListedStays ==
  ASSUME Serial, [Next]_vars, NEW o \in Objects, manifest'[o] = manifest[o], ListedRight(o)
  PROVE  ListedRight(o)'
  <1>1. bucket => bucket'
    BY DEF Next, Call, StartMutation, RetryMutation, RefuseReusedKey, FailHandler,
       ExpireReceipt, CreateBucketMarker, Step, RejectMutation, BuildCandidate, StopAtBound,
       WriteIntent, WriteUploaded, WriteReady, WriteOutbox, UploadBytes, PostEvent, ReadRevision,
       ReadManifest, PutRevision, PutManifest, ReadBucket, PutBucket, PutLeaf, RemoveLeaf,
       WriteApplied, vars, kv
  <1>2. CASE UNCHANGED leaves
    BY <1>1, <1>2 DEF ListedRight
  <1>3. CASE \E p \in Procs : PutLeaf(p) \/ RemoveLeaf(p)
    BY <1>1, <1>3 DEF PutLeaf, RemoveLeaf, ListedRight, Serial, Turns, TurnOK
  <1>4. UNCHANGED leaves \/ \E p \in Procs : PutLeaf(p) \/ RemoveLeaf(p)
    BY DEF Next, Call, StartMutation, RetryMutation, RefuseReusedKey, FailHandler,
       ExpireReceipt, CreateBucketMarker, Step, RejectMutation, BuildCandidate, StopAtBound,
       WriteIntent, WriteUploaded, WriteReady, WriteOutbox, UploadBytes, PostEvent, ReadRevision,
       ReadManifest, PutRevision, PutManifest, ReadBucket, PutBucket, WriteApplied, vars, kv
  <1> QED BY <1>2, <1>3, <1>4

LEMMA TurnsNext ==
  ASSUME \A p, q \in Procs : p = q, Serial, [Next]_vars
  PROVE  Turns'
  <1>1. Typed /\ Turns /\ proc \in [Procs -> Handler] /\ DOMAIN manifest = Objects
    BY DEF Serial, Separate, Staged, Typed, TypeOK
  <1>2. ASSUME NEW q \in Procs, proc'[q].pc \in {"idle", "readCurrent", "writeIntent", "upload",
               "writeUploaded", "post", "writeReady", "readRevision", "putRevision", "readManifest"}
        PROVE  TurnOK(q)'
    BY <1>2 DEF TurnOK
  <1>3. ASSUME NEW q \in Procs, proc'[q] = proc[q], UNCHANGED <<manifest, leaves>>, bucket => bucket'
        PROVE  TurnOK(q)'
    <2>1. TurnOK(q)
      BY <1>1 DEF Turns
    <2> QED BY <1>3, <2>1 DEF TurnOK, ListedRight, IsCurrent, Active, MayReplace, IsFork, IsNext
  <1>4. ASSUME NEW p \in Procs, Step(p) PROVE TurnOK(p)'
    <2>1. proc[p].pc \notin {"idle", "readCurrent"} =>
            proc[p].cand \in Manifest /\ proc[p].cand.obj \in Objects
      BY <1>1 DEF Typed, Shape, HandlerOK, Manifest
    <2>2. TurnOK(p)
      BY <1>1 DEF Turns
    <2>3. CASE RejectMutation(p) \/ BuildCandidate(p) \/ StopAtBound(p) \/ WriteApplied(p)
      BY <1>1, <1>2, <2>3
      DEF RejectMutation, BuildCandidate, StopAtBound, WriteApplied, Idle, Handler
    <2>4. CASE WriteIntent(p) \/ WriteUploaded(p) \/ WriteReady(p)
      BY <1>1, <1>2, <2>4 DEF WriteIntent, WriteUploaded, WriteReady, WriteOutbox, Move, Handler
    <2>5. CASE UploadBytes(p) \/ PostEvent(p) \/ ReadRevision(p) \/ PutRevision(p)
      BY <1>1, <1>2, <2>5 DEF UploadBytes, PostEvent, ReadRevision, PutRevision, Move, Idle, Handler
    <2>6. CASE PutManifest(p)
      BY <1>1, <1>2, <2>6 DEF PutManifest, Idle, Handler
    <2>7. CASE ReadManifest(p)
      <3> DEFINE cur == manifest[proc[p].cand.obj]
      <3>1. UNCHANGED <<manifest, leaves, bucket>> /\ proc[p].pc = "readManifest"
        BY <2>7 DEF ReadManifest, kv
      <3>2. CASE IsCurrent(cur, proc[p])
        <4>1. /\ proc'[p].cand = cur /\ cur # NULL
              /\ proc'[p].pc = IF Active(cur) THEN "readBucket" ELSE "removeLeaf"
          BY <1>1, <2>7, <3>2 DEF ReadManifest, IsCurrent, Handler
        <4>2. cur.obj = proc[p].cand.obj
          BY <2>1, <3>1, <4>1 DEF Serial, Separate, Staged, Stages, ManifestOK
        <4> QED BY <3>1, <4>1, <4>2 DEF TurnOK, Active
      <3>3. CASE Move(p, "putManifest") /\ ~IsCurrent(cur, proc[p]) /\ MayReplace(cur, proc[p].cand)
        <4>1. proc'[p].cand = proc[p].cand /\ proc'[p].pc = "putManifest"
          BY <1>1, <3>3 DEF Move, Handler
        <4> QED BY <3>1, <3>3, <4>1 DEF TurnOK, MayReplace, IsFork, IsNext, IsCurrent
      <3>4. CASE Conflict(p)
        BY <1>1, <1>2, <3>4 DEF Conflict, Idle
      <3> QED BY <2>7, <3>2, <3>3, <3>4 DEF ReadManifest
    <2>8. CASE ReadBucket(p) \/ PutBucket(p)
      <3>1. /\ proc'[p].cand = proc[p].cand /\ proc[p].pc \in {"readBucket", "putBucket"}
            /\ proc'[p].pc \in {"putLeaf", "putBucket"} /\ (proc'[p].pc = "putLeaf" => bucket')
            /\ UNCHANGED manifest
        BY <1>1, <2>8 DEF ReadBucket, PutBucket, Move, Handler, kv
      <3> QED BY <2>2, <3>1 DEF TurnOK, Active
    <2>9. CASE PutLeaf(p) \/ RemoveLeaf(p)
      <3>1. /\ proc'[p].cand = proc[p].cand /\ proc'[p].pc = "writeApplied"
            /\ UNCHANGED <<manifest, bucket>>
        BY <1>1, <2>9 DEF PutLeaf, RemoveLeaf, Move, Handler
      <3>2. ListedRight(proc[p].cand.obj) = ListedRight(proc[p].cand.obj)
        OBVIOUS
      <3>3. PICK o : o = proc[p].cand.obj
        OBVIOUS
      <3>4. ListedRight(o)'
        BY <2>2, <2>9, <3>1, <3>3 DEF PutLeaf, RemoveLeaf, TurnOK, ListedRight, Active
      <3> QED BY <2>2, <2>9, <3>1, <3>3, <3>4 DEF TurnOK, PutLeaf, RemoveLeaf
    <2> QED BY <1>4, <2>3, <2>4, <2>5, <2>6, <2>7, <2>8, <2>9 DEF Step
  <1>5. ASSUME NEW p \in Procs, Step(p) PROVE Turns'
    BY <1>4, <1>5 DEF Turns
  <1>6. ASSUME NEW p \in Procs, FailHandler(p) PROVE Turns'
    BY <1>1, <1>2, <1>3, <1>6 DEF FailHandler, Idle, kv, Turns
  <1>7. ASSUME NEW k \in Keys, ExpireReceipt(k) PROVE Turns'
    BY <1>1, <1>3, <1>7 DEF ExpireReceipt, Turns
  <1>8. CASE CreateBucketMarker \/ UNCHANGED vars
    BY <1>1, <1>3, <1>8 DEF CreateBucketMarker, vars, kv, Turns
  <1>9. ASSUME NEW p \in Procs, NEW k \in Keys, RetryMutation(p, k) PROVE Turns'
    <2>1. outbox[k] \in Entry
      BY <1>9 DEF RetryMutation, Serial, Separate, Staged, Typed, TypeOK
    <2>2. UNCHANGED <<manifest, leaves, bucket>> /\ (proc'[p] = proc[p] \/
            proc'[p].pc \in {"upload", "post", "readRevision"})
      BY <1>1, <1>9, <2>1, ResumePointType DEF RetryMutation, kv
    <2> QED BY <1>2, <1>3, <2>2 DEF Turns
  <1>10. ASSUME NEW p \in Procs, Call(p) PROVE Turns'
    <2>1. CASE \E k \in Keys : \E req \in Request : StartMutation(p, k, req)
      BY <1>1, <1>2, <2>1 DEF StartMutation, Idle, Turns
    <2> QED BY <1>8, <1>9, <1>10, <2>1 DEF Call, RefuseReusedKey
  <1> QED BY <1>5, <1>6, <1>7, <1>8, <1>10 DEF Next

\* An answer is given for a manifest that has become current, and a conflict for one
\* that cannot any more.
LEMMA WriterIsDone ==
  ASSUME Serial, NEW p \in Procs, WriteApplied(p)
  PROVE  InUse(proc[p].cand) /\ Done(proc[p].cand)
  <1>1. /\ proc[p].cand \in Manifest /\ proc[p].cand # NULL
        /\ proc[p].cand.rev \in Int
    BY NullAssumption, ManifestNumbers
    DEF WriteApplied, Serial, Separate, Staged, Typed, Shape, HandlerOK
  <1>2. /\ manifest[proc[p].cand.obj] = proc[p].cand
        /\ ListedRight(proc[p].cand.obj)
    BY DEF WriteApplied, Serial, Turns, TurnOK
  <1>3. revisions[proc[p].cand.rev] # NULL
    BY <1>1 DEF WriteApplied, Serial, Separate, Owned, OwnsOK, RecordedPcs
  <1> QED BY <1>1, <1>2, <1>3 DEF InUse, Done, Reaches, IsFork

LEMMA LoserLoses ==
  ASSUME Serial, NEW p \in Procs, ReadManifest(p), answers' # answers
  PROVE  InUse(proc[p].cand) /\ Lost(proc[p].cand)
  <1> DEFINE m == proc[p].cand
  <1>1. PICK cur : cur = manifest[m.obj]
    OBVIOUS
  <1>2. ~(cur # NULL /\ cur.rev = m.rev) /\ ~MayReplace(cur, m)
    BY <1>1 DEF ReadManifest, IsCurrent
  <1>3. m \in Manifest /\ m # NULL /\ InUse(m)
    BY NullAssumption DEF ReadManifest, Serial, Separate, Staged, Typed, Shape, HandlerOK, InUse
  <1>4. /\ m.version \in Int /\ m.rev \in Int /\ m.parent \in Int /\ m.obj \in Objects /\ m.version >= 1
    BY <1>3, ManifestNumbers
  <1>5. Follows(m) /\ ((m.parent = NoParent) = (m.version = 1))
    BY <1>3 DEF Serial, AllFollow, Separate, Staged, Copies, AllDescend, Descends
  <1>6. cur # NULL
    BY <1>1, <1>2, <1>5 DEF Follows, MayReplace, IsFork, IsNext
  <1>7. cur.version \in Int /\ cur.rev \in Int /\ cur.parent \in Int /\ cur.version >= 1
    BY <1>1, <1>4, <1>6, ManifestNumbers DEF Serial, Separate, Staged, Typed, TypeOK
  <1>8. \/ cur.version >= m.version
        \/ cur.version + 1 = m.version /\ cur.rev <= m.parent
    BY <1>1, <1>4, <1>5, <1>7 DEF Follows
  <1>9. /\ cur.version = m.version /\ cur.parent = m.parent => cur.rev < m.rev
        /\ ~(m.parent = cur.rev /\ m.version = cur.version + 1)
    BY <1>2, <1>4, <1>6, <1>7 DEF MayReplace, IsFork, IsNext
  <1>10. \/ cur.version > m.version
         \/ cur.version = m.version /\ (cur.parent # m.parent \/ cur.rev < m.rev)
         \/ cur.version + 1 = m.version /\ cur.rev < m.parent
    BY <1>4, <1>7, <1>8, <1>9
  <1>11. Lost(m)
    BY <1>1, <1>6, <1>10 DEF Lost
  <1> QED BY <1>3, <1>11

LEMMA AppliedNext ==
  ASSUME ~OverlappingRetries, \A p, q \in Procs : p = q, Serial, [Next]_vars
  PROVE  AppliedAreDone'
  <1>1. /\ DOMAIN outbox = Keys /\ Typed
    BY DEF Serial, Separate, Staged, Typed, TypeOK
  <1>2. ASSUME NEW m, InUse(m), Done(m) PROVE Done(m)'
    BY <1>2, DoneStays, ListedStays DEF Serial
  <1> SUFFICES ASSUME NEW k \in Keys, outbox'[k] # NULL, outbox'[k].status = "applied",
                      NEW m, m = outbox'[k].cand
               PROVE  Done(m)'
    BY DEF AppliedAreDone
  <1>4. CASE outbox'[k] = outbox[k]
    <2>1. InUse(m) /\ Done(m)
      BY <1>4 DEF InUse, Serial, AppliedAreDone
    <2> QED BY <1>2, <2>1
  <1>5. CASE outbox'[k] # outbox[k]
    <2>1. PICK p \in Procs : WriteApplied(p) \/ WriteIntent(p) \/ WriteUploaded(p) \/ WriteReady(p)
      BY <1>1, <1>5 DEF Next, Call, StartMutation, RetryMutation, RefuseReusedKey, FailHandler,
       ExpireReceipt, CreateBucketMarker, Step, RejectMutation, BuildCandidate, StopAtBound,
       UploadBytes, PostEvent, ReadRevision,
       ReadManifest, PutRevision, PutManifest, ReadBucket, PutBucket, PutLeaf, RemoveLeaf, vars, kv
    <2>2. WriteApplied(p)
      BY <1>1, <1>5, <2>1 DEF WriteIntent, WriteUploaded, WriteReady, WriteOutbox, EntryOf
    <2>3. m = proc[p].cand
      BY <1>1, <1>5, <2>2 DEF WriteApplied, EntryOf
    <2> QED BY <1>2, <2>2, <2>3, WriterIsDone
  <1> QED BY <1>4, <1>5

LEMMA AnswersHoldNext ==
  ASSUME ~OverlappingRetries, \A p, q \in Procs : p = q, Serial, [Next]_vars
  PROVE  AnswersHold'
  <1>1. /\ DOMAIN outbox = Keys /\ Typed /\ Typed' /\ Onward /\ Copies'
        /\ answers \subseteq Answer
        /\ AnswersMatch /\ AnswersMatch'
    BY OnwardNext, AnswersNext, TypedNext, CopiesNext
    DEF Serial, Separate, Staged, Typed, TypeOK
  <1>2. ASSUME NEW m, InUse(m), Done(m) PROVE Done(m)'
    BY <1>2, DoneStays, ListedStays DEF Serial
  <1>3. ASSUME NEW m, InUse(m), Lost(m) PROVE Lost(m)'
    BY <1>1, <1>3, InUseType, OnwardKeeps
  <1>4. ASSUME NEW a, NEW m, NEW x, Same(x, m), AnswerHolds(a, m)' PROVE AnswerHolds(a, x)'
    <2>1. (Done(m)' => Done(x)') /\ (Lost(m)' => Lost(x)')
      BY <1>4 DEF Same, Done, Reaches, Lost, IsFork
    <2> QED BY <1>4, <2>1 DEF Same, AnswerHolds
  <1> SUFFICES ASSUME NEW a \in answers', NEW x, x = outbox'[a.key].cand
               PROVE  AnswerHolds(a, x)'
    BY DEF AnswersHold
  <1>5. a.key \in Keys /\ outbox'[a.key] # NULL /\ outbox'[a.key].cand.rev = a.rev
    BY <1>1 DEF AnswersMatch, Typed, TypeOK, Answer
  <1>7. InUse(x)'
    BY <1>5 DEF InUse
  <1>8. ASSUME NEW m, InUse(m), m.rev = a.rev, InUse(m)' \/ Continues, AnswerHolds(a, m)
        PROVE  AnswerHolds(a, x)'
    <2>1. AnswerHolds(a, m)'
      BY <1>2, <1>3, <1>8 DEF AnswerHolds
    <2>2. Same(x, m)
      <3>1. CASE InUse(m)'
        BY <1>1, <1>5, <1>7, <1>8, <3>1 DEF Copies, OneCandidatePerRev
      <3>2. CASE Continues
        <4>1. PICK y : InUse(y) /\ Same(x, y)
          BY <1>7, <3>2 DEF Continues
        <4>2. y.rev = m.rev
          BY <1>5, <1>8, <4>1 DEF Same
        <4>3. Same(y, m)
          BY <1>8, <4>1, <4>2 DEF Serial, Separate, Staged, Copies, OneCandidatePerRev
        <4> QED BY <4>1, <4>3, SameEquivalence
      <3> QED BY <1>8, <3>1, <3>2
    <2> QED BY <1>4, <2>1, <2>2
  <1>9. CASE a \in answers
    <2>1. PICK m : m = outbox[a.key].cand /\ InUse(m) /\ m.rev = a.rev /\ AnswerHolds(a, m)
      BY <1>1, <1>5, <1>9 DEF AnswersMatch, InUse, Serial, AnswersHold
    <2>2. InUse(m)' \/ Continues
      <3>1. CASE \E p \in Procs : BuildCandidate(p)
        BY <1>5, <2>1, <3>1 DEF BuildCandidate, kv, InUse
      <3>2. CASE UNCHANGED vars
        BY <1>5, <2>1, <3>2 DEF vars, kv, InUse
      <3> QED BY <3>1, <3>2, ContinuesNext DEF Serial, Separate
    <2> QED BY <1>8, <2>1, <2>2
  <1>10. CASE a \notin answers
    <2>1. PICK m : InUse(m) /\ AnswerHolds(a, m) /\ m.rev = a.rev /\ Continues
      <3>1. CASE \E p \in Procs : WriteApplied(p)
        <4>1. PICK p \in Procs : WriteApplied(p)
          BY <3>1
        <4>2. a = AnswerOf(proc[p].key, proc[p].cand, "ok")
          BY <1>10, <4>1 DEF WriteApplied
        <4>3. InUse(proc[p].cand) /\ Done(proc[p].cand)
          BY <4>1, WriterIsDone
        <4>4. Continues
          BY <4>1, ContinuesStep DEF Step, WriteApplied, BuildCandidate, Serial, Separate
        <4> QED BY <4>2, <4>3, <4>4 DEF AnswerOf, AnswerHolds
      <3>2. CASE \E p \in Procs : ReadManifest(p)
        <4>1. PICK p \in Procs : ReadManifest(p)
          BY <3>2
        <4>2. a = AnswerOf(proc[p].key, proc[p].cand, "conflict") /\ Conflict(p)
          BY <1>10, <4>1 DEF ReadManifest, Conflict
        <4>3. InUse(proc[p].cand) /\ Lost(proc[p].cand)
          BY <1>10, <4>1, LoserLoses
        <4>4. Continues
          BY <4>1, ContinuesStep DEF Step, ReadManifest, BuildCandidate, Serial, Separate
        <4> QED BY <4>2, <4>3, <4>4 DEF AnswerOf, AnswerHolds
      <3>3. CASE \E p \in Procs : \E k \in Keys : RetryMutation(p, k)
        <4>1. PICK p \in Procs, k \in Keys : RetryMutation(p, k)
          BY <3>3
        <4>2. /\ outbox[k] # NULL /\ outbox[k].status = "applied"
              /\ a = AnswerOf(k, outbox[k].cand, "ok")
          BY <1>10, <4>1 DEF RetryMutation
        <4>3. InUse(outbox[k].cand) /\ Done(outbox[k].cand)
          BY <4>2 DEF InUse, Serial, AppliedAreDone
        <4>4. Continues
          BY <1>1, <4>1, ContinuesStart DEF Call
        <4> QED BY <4>2, <4>3, <4>4 DEF AnswerOf, AnswerHolds
      <3> QED BY <1>10, <3>1, <3>2, <3>3
          DEF Next, Call, StartMutation, RefuseReusedKey, FailHandler,
              ExpireReceipt, CreateBucketMarker, Step, RejectMutation, BuildCandidate, StopAtBound,
              WriteIntent, WriteUploaded, WriteReady, WriteOutbox, UploadBytes, PostEvent,
              ReadRevision, PutRevision, PutManifest, ReadBucket, PutBucket, PutLeaf, RemoveLeaf, vars
    <2> QED BY <1>8, <2>1
  <1> QED BY <1>9, <1>10

\* With one handler, whatever fails between its calls, an object's manifest only goes on,
\* and what has been answered stays true of it.
THEOREM SerialHolds ==
  ASSUME ~OverlappingRetries, \A p, q \in Procs : p = q
  PROVE  Spec => []Serial
  <1>1. Init => Separate
    BY SeparateInit
  <1>2. Init => Serial
    <2> SUFFICES ASSUME Init PROVE Serial
      OBVIOUS
    <2>1. \A m : ~InUse(m)
      BY DEF Init, InUse, Idle
    <2> QED BY <1>1, <2>1
        DEF Serial, AllFollow, Turns, TurnOK, AppliedAreDone, AnswersHold, Init, Idle
  <1>3. Serial /\ [Next]_vars => Serial'
    BY SeparateNext, TurnsNext, FollowsNext, AppliedNext, AnswersHoldNext DEF Serial
  <1> QED BY <1>2, <1>3, PTL DEF Spec

\* An acknowledged write is never undone by one that did not see it, and one that was
\* answered with a conflict is never current again.
THEOREM AnswersStayTrueHolds ==
  ASSUME ~OverlappingRetries, \A p, q \in Procs : p = q
  PROVE  Spec => []AnswersStayTrue
  <1>1. Serial => AnswersStayTrue
    <2> SUFFICES ASSUME Serial, NEW a \in answers
                 PROVE  LET cur == manifest[a.obj] IN
                        /\ cur # NULL
                        /\ a.kind = "ok" => \/ cur.version > a.version
                                            \/ IsFork(cur, revisions[a.rev]) /\ cur.rev <= a.rev
                        /\ a.kind = "conflict" => cur.rev # a.rev
      BY DEF AnswersStayTrue
    <2>1. PICK m : m = outbox[a.key].cand
      OBVIOUS
    <2>2. /\ m.obj = a.obj /\ m.version = a.version /\ m.rev = a.rev /\ InUse(m)
          /\ a.kind = "ok" => Done(m)
          /\ a.kind = "conflict" => Lost(m)
          /\ a.kind \in {"ok", "conflict"} /\ a.key \in Keys
      BY <2>1 DEF Serial, Separate, Staged, Typed, TypeOK, Answer, AnswersHold, AnswerHolds, AnswersMatch, InUse
    <2>3. m \in Manifest
      BY <2>2, InUseType DEF Serial, Separate, Staged
    <2>4. CASE a.kind = "ok"
      <3>1. revisions[m.rev] # NULL /\ m.rev \in Revs /\ Reaches(m)
        BY <2>2, <2>3, <2>4 DEF Done, Manifest
      <3>2. Same(revisions[m.rev], m)
        BY <2>2, <3>1
        DEF InUse, Serial, Separate, Staged, Stages, RecordOK, Copies, OneCandidatePerRev
      <3> QED BY <2>2, <2>4, <3>1, <3>2 DEF Reaches, IsFork, Same
    <2>5. CASE a.kind = "conflict"
      <3>1. Lost(m) /\ manifest[m.obj] # NULL
        BY <2>2, <2>5 DEF Lost
      <3>2. manifest[m.obj].rev = m.rev => FALSE
        <4> SUFFICES ASSUME manifest[m.obj].rev = m.rev PROVE FALSE
          OBVIOUS
        <4>1. m.obj \in Objects /\ m.version \in Int /\ m.rev \in Int
          BY <2>3, ManifestNumbers
        <4>2. Same(manifest[m.obj], m)
          BY <2>2, <3>1, <4>1 DEF InUse, Serial, Separate, Staged, Copies, OneCandidatePerRev
        <4> QED BY <3>1, <4>1, <4>2 DEF Lost, Same
      <3> QED BY <2>2, <2>5, <3>1, <3>2
    <2> QED BY <2>2, <2>4, <2>5
  <1> QED BY <1>1, SerialHolds, PTL

\* The list index agrees with the manifest that an acknowledged mutation left.
THEOREM AcknowledgedIsListedHolds ==
  ASSUME ~OverlappingRetries, \A p, q \in Procs : p = q
  PROVE  Spec => []AcknowledgedIsListed
  <1>1. Serial => AcknowledgedIsListed
    <2> SUFFICES ASSUME Serial, NEW a \in answers, a.kind = "ok", manifest[a.obj].rev = a.rev
                 PROVE  ListedRight(a.obj)
      <3>1. \A o : ListedRight(o) => /\ (o \in leaves) = Active(manifest[o])
                                     /\ Active(manifest[o]) => bucket
        BY SMT DEF ListedRight, Active
      <3> QED BY <3>1 DEF AcknowledgedIsListed
    <2> QED BY DEF Serial, AnswersHold, AnswerHolds, AnswersMatch, Separate, Done
  <1> QED BY <1>1, SerialHolds, PTL

\* Requests that do not overlap see the registers of VersionedObjects: each step of the
\* engine puts, deletes or overtakes one version, or does nothing a client could see.
THEOREM Refinement ==
  ASSUME ~OverlappingRetries, \A p, q \in Procs : p = q
  PROVE  Spec => ImplementsVersionedObjects
  <1>1. Init => VO!Init
    BY DEF Init, VO!Init
  <1>2. Serial /\ [Next]_vars => [VO!Next]_manifest
    <2> SUFFICES ASSUME Serial, [Next]_vars, manifest' # manifest PROVE VO!Next
      OBVIOUS
    <2>1. PICK p \in Procs : PutManifest(p)
      BY DEF Next, Call, StartMutation, RetryMutation, RefuseReusedKey, FailHandler,
       ExpireReceipt, CreateBucketMarker, Step, RejectMutation, BuildCandidate, StopAtBound,
       WriteIntent, WriteUploaded, WriteReady, WriteOutbox, UploadBytes, PostEvent, ReadRevision,
       ReadManifest, PutRevision, ReadBucket, PutBucket, PutLeaf, RemoveLeaf, WriteApplied, vars, kv
    <2>2. PICK x \in Manifest, o \in Objects : x = proc[p].cand /\ o = x.obj
      BY <2>1 DEF PutManifest, Serial, Separate, Staged, Typed, Shape, HandlerOK, Manifest
    <2>3. /\ manifest' = [manifest EXCEPT ![o] = x] /\ manifest'[o] = x
          /\ MayReplace(manifest[o], x) /\ InUse(x)
      BY <2>1, <2>2, NullAssumption
      DEF PutManifest, Serial, Turns, TurnOK, Separate, Staged, Typed, TypeOK, InUse
    <2>4. CASE IsFork(manifest[o], x)
      <3>1. VO!Overtake(o, x)
        BY <2>3, <2>4 DEF VO!Overtake, MayReplace, IsFork
      <3> QED BY <2>2, <2>3, <3>1 DEF VO!Next
    <2>5. CASE ~IsFork(manifest[o], x)
      <3>1. IsNext(manifest[o], x) /\ VO!Extends(x, manifest[o])
        BY <2>3, <2>5 DEF MayReplace, IsNext, VO!Extends
      <3>2. CASE x.state = "active"
        BY <2>2, <2>3, <3>1, <3>2 DEF VO!Put, VO!Next
      <3>3. CASE x.state = "deleted"
        <4>1. /\ Descends(x) /\ revisions[x.parent].storage = x.storage
              /\ x.parent # NoParent
          BY <2>3, <3>3
          DEF Serial, Separate, TombstonesKeepBytes, Staged, Copies, AllDescend, Descends
        <4>2. manifest[o] # NULL /\ x.parent = manifest[o].rev
          BY <3>1, <4>1 DEF IsNext
        <4>3. revisions[x.parent] = manifest[o] /\ manifest[o].state = "active"
          BY <2>2, <3>3, <4>1, <4>2 DEF Serial, Separate, CurrentIsRecorded, Descends
        <4>4. VO!Delete(o, x)
          BY <3>1, <3>3, <4>1, <4>2, <4>3 DEF VO!Delete
        <4> QED BY <2>2, <2>3, <4>4 DEF VO!Next
      <3> QED BY <2>2, <3>2, <3>3 DEF Manifest
    <2> QED BY <2>4, <2>5
  <1> QED BY <1>1, <1>2, SerialHolds, PTL DEF Spec, ImplementsVersionedObjects, VO!Spec

-----------------------------------------------------------------------------
(* The repair of the list index: beside the engine, a scan holds what it has repaired *)

ScanPoints == {"list", "read", "inspect", "materialize"}

ScanState == [pc : {"idle"} \cup ScanPoints, mode : Modes \cup {NULL}, cursor : Nat,
              page : SUBSET Objects, last : BOOLEAN, read : Manifest \cup {NULL}]

ScanTyped == /\ scan \in ScanState
             /\ scan.pc = "idle" => scan = NoScan
             /\ scan.pc \in ScanPoints => scan.mode \in Modes
             /\ scan.pc \in ScanPoints \ {"list"} => scan.page # {}
             /\ checkpoint \in [mode : Modes, cursor : Nat] \cup {NULL}

\* A manifest is kept under its object.
Keyed == \A o \in Objects : manifest[o] # NULL => manifest[o].obj = o

\* The leaf of an object agrees with its manifest, of the manifests m and leaves l.
Repaired(m, l, o) == m[o] # NULL => ((o \in l) = Active(m[o]))

\* Everything up to the cursor of a scan s in apply mode agrees but what is left of its
\* page, and on the last page there is nothing after the cursor.
PageRepaired(m, l, s, left) ==
    /\ \A o \in left : m[o] # NULL
    /\ s.last => \A o \in Objects : m[o] # NULL => o <= s.cursor
    /\ s.mode = "apply" => \A o \in Objects \ left : o <= s.cursor => Repaired(m, l, o)

\* What a request has read is still so.
ScanRepairs(m, l, s) ==
    /\ s.pc = "list" /\ s.mode = "apply" =>
          \A o \in Objects : o <= s.cursor => Repaired(m, l, o)
    /\ s.pc \in ScanPoints \ {"list"} => PageRepaired(m, l, s, s.page)
    /\ s.pc \in {"inspect", "materialize"} => s.read = m[Min(s.page)]

\* Everything up to a checkpoint c of an apply scan agrees, and once it is complete (f),
\* everything there is.
Kept(m, l, c, f) ==
    /\ c # NULL /\ c.mode = "apply" => \A o \in Objects : o <= c.cursor => Repaired(m, l, o)
    /\ f = "apply" => \A o \in Objects : Repaired(m, l, o)

RepairInv ==
    /\ Typed /\ Keyed /\ ScanTyped
    /\ quiet => /\ ScanRepairs(manifest, leaves, scan)
               /\ Kept(manifest, leaves, checkpoint, finished)

-----------------------------------------------------------------------------

\* The Min and Max of the code's pages are there.
LEMMA LeastOf ==
  ASSUME NEW S, S \subseteq Nat, S # {}
  PROVE  \E j \in S : \A k \in S : j =< k
  <1> DEFINE R == {ss \in Nat \X Nat : ss[1] < ss[2]}
  <1>1. IsWellFoundedOn(R, Nat)
    BY NatLessThanWellFounded DEF OpToRel
  <1>2. PICK j \in S : \A k \in S : ~(<<k, j>> \in R)
    BY <1>1, WFMin
  <1>3. \A k \in S : k \in Nat /\ j \in Nat /\ <<k, j>> \in Nat \X Nat
    OBVIOUS
  <1>4. \A k \in S : ~(k < j)
    BY <1>2, <1>3
  <1> QED BY <1>3, <1>4

LEMMA MinIsLeast ==
  ASSUME NEW S, S \subseteq Nat, S # {}
  PROVE  Min(S) \in S /\ \A k \in S : Min(S) =< k
  BY LeastOf DEF Min

\* What is before an entry of the listing, counted.
LEMMA Prefixes ==
  ASSUME NEW A, A \subseteq Nat, NEW x \in A, NEW y \in A, x < y
  PROVE  LET P(n) == {z \in A : z < n}
         IN  /\ Cardinality(P(x)) \in Nat /\ Cardinality(P(y)) \in Nat
             /\ Cardinality(P(x)) < Cardinality(P(y))
  <1> DEFINE P(n) == {z \in A : z < n}
  <1>0. x \in Nat /\ y \in Nat /\ \A z \in A : z \in Nat
    OBVIOUS
  <1>1. IsFiniteSet(0 .. y)
    BY <1>0, FS_Interval
  <1>2. P(y) \subseteq 0 .. y
    <2>1. ASSUME NEW z \in A, z < y PROVE z \in 0 .. y
      <3>1. z \in Nat
        BY <1>0
      <3> QED BY <2>1, <1>0, <3>1
    <2> QED BY <2>1
  <1>3. IsFiniteSet(P(y)) /\ Cardinality(P(y)) \in Nat
    BY <1>1, <1>2, FS_Subset, FS_CardinalityType
  <1>4. P(x) \subseteq P(y) /\ x \in P(y) /\ x \notin P(x)
    <2>1. \A z \in A : z < x => z < y
      BY <1>0
    <2>2. x < y /\ ~(x < x)
      BY <1>0
    <2> QED BY <2>1, <2>2
  <1>5. /\ IsFiniteSet(P(x)) /\ Cardinality(P(x)) <= Cardinality(P(y))
        /\ Cardinality(P(y)) = Cardinality(P(x)) => P(y) = P(x)
    BY <1>3, <1>4, FS_Subset
  <1>6. Cardinality(P(x)) \in Nat
    BY <1>5, FS_CardinalityType
  <1> HIDE DEF P
  <1>7. Cardinality(P(x)) < Cardinality(P(y))
    BY <1>3, <1>4, <1>5, <1>6
  <1> QED BY <1>3, <1>6, <1>7 DEF P

LEMMA PrefixCount ==
  ASSUME NEW A, A \subseteq Nat, NEW x \in A
  PROVE  Cardinality({z \in A : z < x}) \in Nat
  <1>0. x \in Nat /\ \A z \in A : z \in Nat
    OBVIOUS
  <1>1. IsFiniteSet(0 .. x)
    BY <1>0, FS_Interval
  <1>2. ASSUME NEW z \in A, z < x PROVE z \in 0 .. x
    <2>1. z \in Nat
      BY <1>0
    <2> QED BY <1>2, <1>0, <2>1
  <1>3. {z \in A : z < x} \subseteq 0 .. x
    BY <1>2
  <1> QED BY <1>1, <1>3, FS_Subset, FS_CardinalityType

\* A page is a first part of the listing and has a last entry.
LEMMA PageIsFirst ==
  ASSUME NEW A, A \subseteq Nat, NEW page,
         page = {o \in A : Cardinality({x \in A : x < o}) < BatchSize}, page # {}
  PROVE  /\ Max(page) \in page
         /\ \A o \in page : o <= Max(page)
         /\ \A o \in A : o <= Max(page) => o \in page
  <1> DEFINE C(n) == Cardinality({x \in A : x < n})
             D == {d \in Nat : \E o \in page : d = BatchSize - C(o)}
  <1>1. \A o \in A : C(o) \in Nat
    BY PrefixCount
  <1>2. \A x, y \in A : x < y => C(x) < C(y)
    BY Prefixes
  <1>3. \A o \in A : o \in page <=> C(o) < BatchSize
    OBVIOUS
  <1>a. page \subseteq A
    OBVIOUS
  <1>b. BatchSize \in Nat
    BY BatchAssumption
  <1> HIDE DEF C
  <1>4. D # {} /\ D \subseteq Nat
    <2>1. PICK o \in page : TRUE
      OBVIOUS
    <2>2. BatchSize - C(o) \in Nat
      BY <1>1, <1>3, <1>a, <1>b
    <2> QED BY <2>1, <2>2
  <1>5. PICK d \in D : \A e \in D : d =< e
    BY <1>4, LeastOf
  <1>6. PICK last \in page : d = BatchSize - C(last)
    OBVIOUS
  <1>7. ASSUME NEW o \in page PROVE o <= last
    <2>1. BatchSize - C(o) \in Nat
      BY <1>1, <1>3, <1>a, <1>b
    <2>2. d =< BatchSize - C(o)
      BY <1>5, <2>1
    <2>3. C(o) \in Nat /\ C(last) \in Nat
      BY <1>1, <1>a
    <2>4. ~(C(last) < C(o))
      BY <1>6, <2>2, <2>3, <1>b
    <2>5. o \in Nat /\ last \in Nat /\ o \in A /\ last \in A
      BY <1>a
    <2> QED BY <1>2, <2>4, <2>5
  <1>8. Max(page) \in page /\ \A o \in page : Max(page) >= o
    <2>1. \A o \in page : last >= o
      BY <1>7, <1>a
    <2> QED BY <2>1 DEF Max
  <1>9. ASSUME NEW o \in A, o <= Max(page) PROVE o \in page
    <2>1. Max(page) \in A /\ o \in Nat /\ Max(page) \in Nat
      BY <1>8, <1>a
    <2>0. o = Max(page) \/ o < Max(page)
      BY <1>9, <2>1
    <2>2. CASE o = Max(page)
      BY <2>2, <1>8
    <2>3. CASE o < Max(page)
      <3>1. C(o) < C(Max(page)) /\ C(Max(page)) < BatchSize
        BY <2>1, <2>3, <1>2, <1>3, <1>8
      <3> QED BY <3>1, <2>1, <1>1, <1>3, <1>b
    <2> QED BY <2>0, <2>2, <2>3
  <1> QED BY <1>8, <1>9, <1>a

-----------------------------------------------------------------------------

\* A step of the engine puts a manifest under the object it names.
LEMMA KeyedNext ==
  ASSUME Typed, Keyed, [Next]_vars
  PROVE  Keyed'
  <1>1. UNCHANGED manifest => Keyed'
    BY DEF Keyed
  <1>2. ASSUME NEW p \in Procs, Step(p) PROVE Keyed'
    <2>1. CASE PutManifest(p)
      <3>1. proc[p].cand \in Manifest
        BY <2>1 DEF PutManifest, Typed, Shape, HandlerOK
      <3> QED BY <2>1, <3>1 DEF PutManifest, Typed, TypeOK, Keyed
    <2>2. ~PutManifest(p) => UNCHANGED manifest
      BY <1>2 DEF Step, RejectMutation, BuildCandidate, StopAtBound, WriteIntent, WriteUploaded,
         WriteReady, WriteOutbox, ReadRevision, ReadManifest, PutRevision, UploadBytes, PostEvent,
         ReadBucket, PutBucket, PutLeaf, RemoveLeaf, WriteApplied, kv
    <2> QED BY <1>1, <2>1, <2>2
  <1>3. ASSUME NEW p \in Procs, Call(p) \/ FailHandler(p) PROVE UNCHANGED manifest
    BY <1>3 DEF Call, StartMutation, RetryMutation, RefuseReusedKey, FailHandler, vars, kv
  <1>4. ASSUME NEW k \in Keys, ExpireReceipt(k) PROVE UNCHANGED manifest
    BY <1>4 DEF ExpireReceipt
  <1>5. CASE CreateBucketMarker \/ UNCHANGED vars
    BY <1>1, <1>5 DEF CreateBucketMarker, vars, kv
  <1> QED BY <1>1, <1>2, <1>3, <1>4, <1>5 DEF Next

LEMMA NumbersOf == Objects \subseteq Nat /\ \A o \in Objects : o \in Nat /\ 0 < o
  BY RevAssumption, StartAssumption


\* What a scan does to the engine's state: a leaf, or a failure.
Beside == /\ UNCHANGED <<telegram, revisions, manifest, bucket, outbox, proc, answers>>
          /\ leaves' \subseteq Objects
          /\ faults' \in 0 .. MaxFaults

LEMMA TypedBeside ==
  ASSUME Typed, Keyed, Beside
  PROVE  Typed' /\ Keyed'
  BY DEF Beside, Typed, TypeOK, Shape, HandlerOK, Keyed, telegram

LEMMA ScanBeside ==
  ASSUME Typed, ScanTyped, Repair
  PROVE  Beside
  <1>1. CASE UNCHANGED vars
    BY <1>1 DEF vars, telegram, kv, Beside, Typed, TypeOK
  <1>2. CASE MaterializeEntry
    <2>1. scan.read \in Manifest \cup {NULL}
      BY DEF ScanTyped, ScanState
    <2>2. Active(scan.read) => scan.read.obj \in Objects
      BY <2>1 DEF Active, Manifest
    <2> QED BY <1>2, <2>2 DEF MaterializeEntry, Beside, Typed, TypeOK
  <1>3. CASE FailScan
    <2>1. faults' \in 0 .. MaxFaults
      BY <1>3, BoundAssumption DEF FailScan, Typed, TypeOK
    <2> QED BY <1>3, <2>1 DEF FailScan, Beside, kv, Typed, TypeOK
  <1> QED BY <1>1, <1>2, <1>3
      DEF Repair, StartScan, ResumeScan, ListPage, ReadEntry, InspectEntry

LEMMA ContinueTyped ==
  ASSUME ScanTyped, NEW s \in ScanState, s.mode \in Modes, NEW left \in SUBSET Objects,
         Continue(s, left)
  PROVE  ScanTyped'
  <1>1. CASE left # {}
    <2>1. scan' = [s EXCEPT !.pc = "read", !.page = left, !.read = NULL]
      BY <1>1 DEF Continue
    <2>2. scan' \in ScanState /\ scan'.pc = "read" /\ scan'.mode = s.mode /\ scan'.page = left
      BY <2>1 DEF ScanState, ScanPoints
    <2> QED BY <1>1, <2>2 DEF Continue, ScanTyped, ScanPoints
  <1>2. CASE left = {}
    <2>1. scan' = NoScan /\ NoScan \in ScanState /\ NoScan.pc = "idle"
      BY <1>2 DEF Continue, NoScan, ScanState, Start
    <2>2. [mode |-> s.mode, cursor |-> s.cursor] \in [mode : Modes, cursor : Nat]
      BY DEF ScanState
    <2> QED BY <1>2, <2>1, <2>2 DEF Continue, ScanTyped, ScanPoints
  <1> QED BY <1>1, <1>2

\* The entries a request lists.
Listing == {o \in Objects : manifest[o] # NULL /\ o > scan.cursor}
PageOf == {o \in Listing : Cardinality({x \in Listing : x < o}) < BatchSize}
Listed == [scan EXCEPT !.last = PageOf = Listing,
                       !.cursor = IF PageOf = {} THEN scan.cursor ELSE Max(PageOf)]

LEMMA ListedType ==
  ASSUME ScanTyped
  PROVE  /\ PageOf \subseteq Objects
         /\ Listed \in ScanState /\ Listed.mode = scan.mode
         /\ Listed.last = (PageOf = Listing)
         /\ Listed.cursor = IF PageOf = {} THEN scan.cursor ELSE Max(PageOf)
  <1>1. PageOf \subseteq Objects /\ Listing \subseteq Nat /\ Objects \subseteq Nat
    BY NumbersOf DEF PageOf, Listing
  <1>2. PageOf # {} => Max(PageOf) \in Nat
    <2>1. PageOf # {} => Max(PageOf) \in PageOf
      BY <1>1, PageIsFirst DEF PageOf
    <2> QED BY <1>1, <2>1
  <1>3. scan \in ScanState /\ (PageOf = Listing) \in BOOLEAN
    BY DEF ScanTyped
  <1>4. (IF PageOf = {} THEN scan.cursor ELSE Max(PageOf)) \in Nat
    BY <1>2, <1>3 DEF ScanState
  <1> QED BY <1>1, <1>3, <1>4 DEF Listed, ScanState

LEMMA ScanTypedRepair ==
  ASSUME Typed, ScanTyped, Repair
  PROVE  ScanTyped'
  <1>0. scan \in ScanState
    BY DEF ScanTyped
  <1>2. ASSUME NEW mode \in Modes, StartScan(mode) PROVE ScanTyped'
    <2>1. scan' \in ScanState /\ scan'.pc = "list" /\ scan'.mode = mode
      BY <1>2 DEF StartScan, NoScan, ScanState, ScanPoints, Start
    <2> QED BY <1>2, <2>1 DEF StartScan, ScanTyped
  <1>3. CASE ResumeScan
    <2>1. checkpoint.mode \in Modes /\ checkpoint.cursor \in Nat
      BY <1>3 DEF ResumeScan, ScanTyped
    <2>2. scan' \in ScanState /\ scan'.pc = "list" /\ scan'.mode = checkpoint.mode
      BY <1>3, <2>1 DEF ResumeScan, NoScan, ScanState, ScanPoints
    <2> QED BY <1>3, <2>1, <2>2 DEF ResumeScan, ScanTyped
  <1>4. CASE ListPage
    <2>1. Continue(Listed, PageOf) /\ scan.mode \in Modes
      BY <1>4 DEF ListPage, Listed, PageOf, Listing, ScanTyped, ScanPoints
    <2> QED BY <2>1, ListedType, ContinueTyped
  <1>5. CASE ReadEntry
    <2>1. scan.page \subseteq Objects /\ scan.page # {} /\ scan.page \subseteq Nat
      BY <1>5, NumbersOf DEF ReadEntry, ScanTyped, ScanState, ScanPoints
    <2>2. Min(scan.page) \in scan.page
      BY <2>1, MinIsLeast
    <2>3. manifest[Min(scan.page)] \in Manifest \cup {NULL}
      BY <2>1, <2>2 DEF Typed, TypeOK
    <2>4. scan' \in ScanState /\ scan'.pc = "inspect" /\ scan'.mode = scan.mode
          /\ scan'.page = scan.page
      BY <1>0, <1>5, <2>3 DEF ReadEntry, ScanState, ScanPoints
    <2> QED BY <1>5, <2>1, <2>4 DEF ReadEntry, ScanTyped, ScanPoints
  <1>6. ASSUME NextEntry, scan.pc \in ScanPoints PROVE ScanTyped'
    <2>1. scan.page \ {scan.read.obj} \in SUBSET Objects /\ scan.mode \in Modes
      BY <1>0, <1>6 DEF ScanTyped, ScanState
    <2> QED BY <1>0, <1>6, <2>1, ContinueTyped DEF NextEntry
  <1>7. CASE InspectEntry
    <2>1. CASE scan' = [scan EXCEPT !.pc = "materialize"] /\ UNCHANGED <<checkpoint, finished>>
      <3>1. scan' \in ScanState /\ scan'.pc = "materialize" /\ scan'.mode = scan.mode
            /\ scan'.page = scan.page
        BY <1>0, <2>1 DEF ScanState, ScanPoints
      <3> QED BY <1>7, <2>1, <3>1 DEF InspectEntry, ScanTyped, ScanPoints
    <2> QED BY <1>6, <1>7, <2>1 DEF InspectEntry, ScanPoints
  <1>8. CASE MaterializeEntry
    BY <1>6, <1>8 DEF MaterializeEntry, ScanPoints
  <1>9. CASE FailScan
    <2>1. scan' = NoScan /\ NoScan \in ScanState /\ NoScan.pc = "idle"
      BY <1>9 DEF FailScan, NoScan, ScanState, Start
    <2> QED BY <1>9, <2>1 DEF FailScan, ScanTyped, ScanPoints
  <1> QED BY <1>2, <1>3, <1>4, <1>5, <1>7, <1>8, <1>9 DEF Repair

-----------------------------------------------------------------------------

\* A request goes on or ends with what it has repaired.
LEMMA ContinueRepairs ==
  ASSUME NEW m, NEW l, NEW s \in ScanState, NEW left \in SUBSET Objects, Continue(s, left),
         PageRepaired(m, l, s, left), Kept(m, l, checkpoint, finished)
  PROVE  ScanRepairs(m, l, scan') /\ Kept(m, l, checkpoint', finished')
  <1>1. CASE left # {}
    <2>1. scan' = [s EXCEPT !.pc = "read", !.page = left, !.read = NULL]
      BY <1>1 DEF Continue
    <2>2. /\ scan'.pc = "read" /\ scan'.page = left /\ scan'.mode = s.mode
          /\ scan'.cursor = s.cursor /\ scan'.last = s.last
      BY <2>1 DEF ScanState
    <2>3. PageRepaired(m, l, scan', scan'.page)
      BY <2>2 DEF PageRepaired
    <2> QED BY <1>1, <2>2, <2>3 DEF Continue, ScanRepairs
  <1>2. CASE left = {}
    <2>1. ScanRepairs(m, l, scan')
      BY <1>2 DEF Continue, NoScan, ScanRepairs, ScanPoints
    <2> SUFFICES Kept(m, l, checkpoint', finished')
      BY <2>1
    <2>2. s.mode = "apply" => \A o \in Objects : o <= s.cursor => Repaired(m, l, o)
      BY <1>2 DEF PageRepaired
    <2>3. s.last /\ s.mode = "apply" => \A o \in Objects : Repaired(m, l, o)
      BY <2>2 DEF PageRepaired, Repaired
    <2>4. CASE s.last
      BY <1>2, <2>3, <2>4 DEF Continue, Kept
    <2>5. CASE ~s.last
      <3>1. checkpoint' = [mode |-> s.mode, cursor |-> s.cursor] /\ finished' = finished
        BY <1>2, <2>5 DEF Continue
      <3> QED BY <2>2, <3>1 DEF Kept
    <2> QED BY <2>4, <2>5
  <1> QED BY <1>1, <1>2

\* The entry that a request looked at is repaired, by its leaf or by what it did.
LEMMA EntryRepairs ==
  ASSUME RepairInv, quiet, NEW l, NextEntry, scan.pc \in {"inspect", "materialize"},
         \A o \in Objects : o # Min(scan.page) => (o \in l <=> o \in leaves),
         scan.mode = "apply" => Repaired(manifest, l, Min(scan.page)),
         Repaired(manifest, leaves, Min(scan.page)) => Repaired(manifest, l, Min(scan.page))
  PROVE  ScanRepairs(manifest, l, scan') /\ Kept(manifest, l, checkpoint', finished')
  <1> DEFINE o == Min(scan.page)
  <1>1. /\ scan \in ScanState /\ PageRepaired(manifest, leaves, scan, scan.page)
        /\ scan.read = manifest[o] /\ Kept(manifest, leaves, checkpoint, finished)
    BY DEF RepairInv, ScanTyped, ScanRepairs, ScanPoints
  <1>2. scan.page \subseteq Objects /\ scan.page # {} /\ scan.page \subseteq Nat
    BY NumbersOf DEF RepairInv, ScanTyped, ScanState, ScanPoints
  <1>3. o \in scan.page
    BY <1>2, MinIsLeast
  <1>4. scan.read.obj = o
    BY <1>1, <1>2, <1>3 DEF PageRepaired, RepairInv, Keyed
  <1>5. scan.page \ {o} \in SUBSET Objects /\ Continue(scan, scan.page \ {o})
    BY <1>2, <1>4 DEF NextEntry
  <1> HIDE DEF o
  <1>6. \A x \in Objects : Repaired(manifest, leaves, x) => Repaired(manifest, l, x)
    BY DEF Repaired, o
  <1>7. PageRepaired(manifest, l, scan, scan.page \ {o})
    <2>1. scan.mode = "apply" => Repaired(manifest, l, o)
      BY DEF o
    <2> QED BY <1>1, <1>6, <2>1 DEF PageRepaired
  <1>8. Kept(manifest, l, checkpoint, finished)
    BY <1>1, <1>6 DEF Kept
  <1> QED BY <1>1, <1>5, <1>7, <1>8, ContinueRepairs

LEMMA ListRepairs ==
  ASSUME RepairInv, quiet, ListPage
  PROVE  ScanRepairs(manifest, leaves, scan') /\ Kept(manifest, leaves, checkpoint', finished')
  <1>1. /\ scan \in ScanState /\ scan.cursor \in Nat /\ Kept(manifest, leaves, checkpoint, finished)
        /\ scan.mode = "apply" =>
              \A o \in Objects : o <= scan.cursor => Repaired(manifest, leaves, o)
    BY DEF RepairInv, ScanTyped, ScanState, ScanRepairs, ListPage
  <1>2. Continue(Listed, PageOf)
    BY DEF ListPage, Listed, PageOf, Listing
  <1>3. /\ PageOf \subseteq Objects /\ Listed \in ScanState /\ Listed.mode = scan.mode
        /\ Listed.last = (PageOf = Listing)
        /\ Listed.cursor = IF PageOf = {} THEN scan.cursor ELSE Max(PageOf)
    BY ListedType DEF RepairInv
  <1>4. Listing \subseteq Nat /\ PageOf \subseteq Listing /\ \A o \in Objects : o \in Nat
    BY NumbersOf DEF PageOf, Listing
  <1>5. \A o \in Objects : manifest[o] # NULL => o \in Listing \/ o <= scan.cursor
    BY <1>1, <1>4 DEF Listing
  <1>6. PageRepaired(manifest, leaves, Listed, PageOf)
    <2>1. \A o \in PageOf : manifest[o] # NULL
      BY <1>4 DEF Listing
    <2>2. CASE PageOf = {}
      <3>1. Listed.cursor = scan.cursor
        BY <1>3, <2>2
      <3>2. Listed.last => \A o \in Objects : manifest[o] # NULL => o <= scan.cursor
        BY <1>3, <1>5, <2>2
      <3> QED BY <1>1, <1>3, <2>1, <3>1, <3>2 DEF PageRepaired
    <2>3. CASE PageOf # {}
      <3>1. /\ Max(PageOf) \in PageOf /\ \A o \in PageOf : o <= Max(PageOf)
            /\ \A o \in Listing : o <= Max(PageOf) => o \in PageOf
        BY <1>4, <2>3, PageIsFirst DEF PageOf
      <3>2. Max(PageOf) \in Nat /\ Max(PageOf) > scan.cursor
        BY <3>1, <1>4 DEF Listing
      <3>3. Listed.cursor = Max(PageOf)
        BY <1>3, <2>3
      <3>4. Listed.last => \A o \in Objects : manifest[o] # NULL => o <= Max(PageOf)
        <4> SUFFICES ASSUME PageOf = Listing, NEW o \in Objects, manifest[o] # NULL
                     PROVE  o <= Max(PageOf)
          BY <1>3
        <4> QED BY <1>1, <1>4, <1>5, <3>1, <3>2
      <3>5. ASSUME scan.mode = "apply", NEW o \in Objects \ PageOf, o <= Max(PageOf)
            PROVE  Repaired(manifest, leaves, o)
        BY <1>1, <1>5, <3>1, <3>5 DEF Repaired
      <3> QED BY <1>3, <2>1, <3>3, <3>4, <3>5 DEF PageRepaired
    <2> QED BY <2>2, <2>3
  <1> QED BY <1>1, <1>2, <1>3, <1>6, ContinueRepairs

LEMMA RepairKeeps ==
  ASSUME RepairInv, Repair
  PROVE  RepairInv'
  <1>1. Typed' /\ Keyed' /\ ScanTyped'
    BY ScanBeside, TypedBeside, ScanTypedRepair DEF RepairInv
  <1> DEFINE Scans == ScanRepairs(manifest', leaves', scan')
                      /\ Kept(manifest', leaves', checkpoint', finished')
  <1> SUFFICES ASSUME quiet' PROVE Scans
    BY <1>1 DEF RepairInv
  <1>2. ASSUME NEW mode \in Modes, StartScan(mode) PROVE Scans
    <2>1. /\ scan'.pc = "list" /\ scan'.cursor = 0 /\ checkpoint' = NULL /\ finished' = NULL
      BY <1>2 DEF StartScan, NoScan, Start
    <2>2. \A o \in Objects : ~(o <= 0)
      BY NumbersOf
    <2> QED BY <2>1, <2>2, ModeAssumption DEF ScanRepairs, Kept, Modes, ScanPoints
  <1>3. ASSUME ~(\E mode \in Modes : StartScan(mode))
        PROVE  /\ quiet /\ manifest' = manifest
               /\ ScanRepairs(manifest, leaves, scan) /\ Kept(manifest, leaves, checkpoint, finished)
    BY <1>3 DEF RepairInv, Repair, ResumeScan, ListPage, ReadEntry, InspectEntry,
       MaterializeEntry, FailScan, vars, kv
  <1>4. CASE ResumeScan
    <2>1. /\ scan'.pc = "list" /\ scan'.cursor = checkpoint.cursor /\ scan'.mode = checkpoint.mode
      BY <1>4 DEF ResumeScan, NoScan
    <2>2. /\ checkpoint # NULL /\ checkpoint' = checkpoint /\ finished' = finished
          /\ leaves' = leaves /\ manifest' = manifest
      BY <1>4 DEF ResumeScan, vars, kv
    <2>3. Kept(manifest, leaves, checkpoint, finished)
      BY <1>4 DEF RepairInv, ResumeScan
    <2> QED BY <2>1, <2>2, <2>3 DEF ScanRepairs, Kept, ScanPoints
  <1>5. CASE ListPage
    <2>1. quiet /\ manifest' = manifest /\ leaves' = leaves
      BY <1>5 DEF ListPage, vars, kv
    <2> QED BY <1>5, <2>1, ListRepairs
  <1>6. CASE ReadEntry
    <2>1. /\ quiet /\ manifest' = manifest /\ leaves' = leaves
          /\ checkpoint' = checkpoint /\ finished' = finished
      BY <1>6 DEF ReadEntry, vars, kv
    <2>2. /\ scan'.pc = "inspect" /\ scan'.read = manifest[Min(scan.page)]
          /\ scan'.page = scan.page /\ scan'.cursor = scan.cursor /\ scan'.mode = scan.mode
          /\ scan'.last = scan.last
      BY <1>6 DEF ReadEntry, RepairInv, ScanTyped, ScanState
    <2>3. /\ PageRepaired(manifest, leaves, scan, scan.page)
          /\ Kept(manifest, leaves, checkpoint, finished)
      BY <1>6, <2>1 DEF ReadEntry, RepairInv, ScanRepairs, ScanPoints
    <2>4. PageRepaired(manifest, leaves, scan', scan'.page)
      BY <2>2, <2>3 DEF PageRepaired
    <2> QED BY <2>1, <2>2, <2>3, <2>4 DEF ScanRepairs
  <1>7. CASE InspectEntry
    <2>1. /\ quiet /\ manifest' = manifest /\ leaves' = leaves /\ scan.pc = "inspect"
      BY <1>7 DEF InspectEntry, vars, kv
    <2>2. CASE NextEntry /\ (Correct(scan.read) \/ scan.mode = "dry_run")
      <3>1. scan.read = manifest[Min(scan.page)] /\ Min(scan.page) \in Objects
        BY <2>1, NumbersOf, MinIsLeast
        DEF RepairInv, ScanTyped, ScanState, ScanRepairs, ScanPoints
      <3>2. scan.read # NULL => scan.read.obj = Min(scan.page)
        BY <3>1 DEF RepairInv, Keyed
      <3>3. scan.mode = "apply" => Repaired(manifest, leaves, Min(scan.page))
        BY <2>2, <3>1, <3>2 DEF Correct, Repaired, Active
      <3> QED BY <2>1, <2>2, <3>3, EntryRepairs
    <2>3. CASE scan' = [scan EXCEPT !.pc = "materialize"] /\ UNCHANGED <<checkpoint, finished>>
      <3>1. /\ scan'.pc = "materialize" /\ scan'.read = scan.read
            /\ scan'.page = scan.page /\ scan'.cursor = scan.cursor /\ scan'.mode = scan.mode
            /\ scan'.last = scan.last
        BY <2>3 DEF RepairInv, ScanTyped, ScanState
      <3>2. /\ PageRepaired(manifest, leaves, scan, scan.page)
            /\ scan.read = manifest[Min(scan.page)]
            /\ Kept(manifest, leaves, checkpoint, finished)
        BY <2>1 DEF RepairInv, ScanRepairs, ScanPoints
      <3>3. PageRepaired(manifest, leaves, scan', scan'.page)
        BY <3>1, <3>2 DEF PageRepaired
      <3> QED BY <2>1, <2>3, <3>1, <3>2, <3>3 DEF ScanRepairs
    <2> QED BY <1>7, <2>2, <2>3 DEF InspectEntry
  <1>8. CASE MaterializeEntry
    <2>1. /\ quiet /\ manifest' = manifest /\ scan.pc = "materialize" /\ NextEntry
      BY <1>8 DEF MaterializeEntry
    <2>2. scan.page \subseteq Objects /\ scan.page # {} /\ scan.page \subseteq Nat
      BY <2>1, NumbersOf DEF RepairInv, ScanTyped, ScanState, ScanPoints
    <2>3. Min(scan.page) \in scan.page
      BY <2>2, MinIsLeast
    <2>4. scan.read = manifest[Min(scan.page)] /\ scan.read # NULL
      BY <2>1, <2>3 DEF RepairInv, ScanRepairs, PageRepaired, ScanPoints
    <2>5. scan.read.obj = Min(scan.page)
      BY <2>2, <2>3, <2>4 DEF RepairInv, Keyed
    <2>6. Repaired(manifest, leaves', Min(scan.page))
      BY <1>8, <2>4, <2>5 DEF MaterializeEntry, Repaired, Active
    <2>7. \A o \in Objects : o # Min(scan.page) => (o \in leaves' <=> o \in leaves)
      BY <1>8, <2>5 DEF MaterializeEntry
    <2> QED BY <2>1, <2>6, <2>7, EntryRepairs
  <1>9. CASE FailScan
    <2>1. /\ scan'.pc = "idle" /\ quiet /\ manifest' = manifest /\ leaves' = leaves
          /\ checkpoint' = checkpoint /\ finished' = finished
      BY <1>9 DEF FailScan, NoScan, kv
    <2> QED BY <2>1 DEF RepairInv, ScanRepairs, ScanPoints
  <1> QED BY <1>2, <1>4, <1>5, <1>6, <1>7, <1>8, <1>9 DEF Repair

LEMMA RepairNext ==
  ASSUME RepairInv, [NextRepair]_allVars
  PROVE  RepairInv'
  <1>1. CASE Engine
    <2>1. Typed' /\ Keyed'
      BY <1>1, TypedNext, KeyedNext DEF Engine, RepairInv
    <2>2. ScanTyped'
      BY <1>1 DEF Engine, RepairInv, ScanTyped
    <2>3. quiet' => quiet /\ manifest' = manifest /\ leaves' = leaves
      BY <1>1 DEF Engine
    <2> QED BY <1>1, <2>1, <2>2, <2>3 DEF Engine, RepairInv
  <1>2. CASE UNCHANGED allVars
    <2>1. Typed' /\ Keyed'
      BY <1>2, TypedNext, KeyedNext DEF allVars, RepairInv
    <2> QED BY <1>2, <2>1 DEF allVars, repair, vars, kv, RepairInv, ScanTyped
  <1> QED BY <1>1, <1>2, RepairKeeps DEF NextRepair

\* Once an apply scan that no mutation disturbed is complete, in however many requests,
\* failures and repeats, every leaf agrees with its manifest.
THEOREM RepairRestoresHolds == SpecRepair => []RepairRestores
  <1>1. InitRepair => RepairInv
    <2> SUFFICES ASSUME InitRepair PROVE RepairInv
      OBVIOUS
    <2>1. Typed /\ Keyed
      BY TypedInit DEF InitRepair, Init, Keyed
    <2>2. NoScan \in ScanState /\ NoScan.pc = "idle"
      BY DEF NoScan, ScanState, Start
    <2> QED BY <2>1, <2>2 DEF InitRepair, ScanTyped, RepairInv, ScanPoints
  <1>2. RepairInv /\ [NextRepair]_allVars => RepairInv'
    BY RepairNext
  <1>3. RepairInv => RepairRestores
    BY DEF RepairInv, RepairRestores, Kept, Repaired, Active
  <1> QED BY <1>1, <1>2, <1>3, PTL DEF SpecRepair

=============================================================================
