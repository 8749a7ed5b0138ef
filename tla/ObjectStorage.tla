--------------------------- MODULE ObjectStorage ---------------------------
(***************************************************************************)
(* The object engine of one bucket: functions/cloud/object-storage.js with *)
(* the leaf writes of functions/cloud/object-list-index.js.                *)
(*                                                                         *)
(* PUT and DELETE run in HTTP handlers that share a key-value index with   *)
(* no compare-and-swap (Cloudflare KV) and a Telegram chat that keeps      *)
(* whatever it is sent.  One action is one remote call with the local code *)
(* up to the next one.  A handler can end between any two calls, and its   *)
(* client can send the same Idempotency-Key again.                         *)
(*                                                                         *)
(* Abstractions: a body stands for its bytes, digest, type and metadata;   *)
(* generated ids never collide; KV is atomic per key; timestamps are left  *)
(* out.  The branch markers of the list index are written before a leaf    *)
(* and never removed, so a leaf stands for its whole path.                 *)
(***************************************************************************)
EXTENDS Integers, FiniteSets

CONSTANTS
    Procs,              \* handlers that can run at the same time
    Keys,               \* idempotency keys (a call without one has a key nobody repeats)
    Objects,            \* object keys, ordered as their hashes are
    Revs,               \* revision ids that createId can return, ordered as strings are
    Bodies,             \* contents
    NULL,               \* JavaScript's null
    MaxVersion,         \* bound: no mutation of an object at this version
    MaxCopies,          \* bound: documents sent to Telegram for one revision
    MaxFaults,          \* bound: failed calls and evicted handlers
    OverlappingRetries  \* may a client repeat a key while a handler of it still runs?

NoParent == 0

Pointer == Revs \X (1 .. MaxCopies)

Manifest == [obj : Objects, state : {"active", "deleted"}, version : 1 .. MaxVersion,
             rev : Revs, parent : Revs \cup {NoParent}, body : Bodies,
             storage : Pointer \cup {NULL}, event : Pointer \cup {NULL}]

\* What idempotencyFingerprintPayload is computed from; preconditions are not in it.
Request == [op : {"put"}, obj : Objects, body : Bodies]
           \cup [op : {"delete"}, obj : Objects, body : {NULL}]

\* If-None-Match: *, and If-Match with an entity tag.
Conditions == {"none", "absent"} \cup (Bodies \X (1 .. MaxVersion))

ASSUME RevAssumption == Revs \subseteq Nat \ {NoParent} /\ Objects \subseteq Nat
ASSUME BoundAssumption == /\ MaxVersion \in Nat \ {0}
                          /\ MaxCopies \in Nat \ {0}
                          /\ MaxFaults \in Nat
ASSUME RetryAssumption == OverlappingRetries \in BOOLEAN
ASSUME NullAssumption == /\ NULL \notin Keys \cup Bodies
                         /\ NULL \notin Manifest
                         /\ NULL \notin Request
                         /\ NULL \notin Pointer

VARIABLES
    bytes,      \* byte documents in Telegram: <<pointer, content>>
    events,     \* revision events in Telegram, by their pointers
    revisions,  \* object-revision: the immutable record of a revision id
    manifest,   \* object-manifest: the current manifest of an object
    bucket,     \* does the bucket's marker exist?
    leaves,     \* objects with a leaf in the list index
    outbox,     \* object-outbox: the mutation of an idempotency key
    proc,       \* the handlers
    answers,    \* definite answers given to clients within the key's retention
    faults      \* failures so far

telegram == <<bytes, events>>
kv == <<revisions, manifest, bucket, leaves, outbox>>
vars == <<telegram, kv, proc, answers, faults>>

Attempts == 4

Statuses == {"intent", "uploaded", "ready", "applied"}
Entry == [status : Statuses, req : Request, cand : Manifest]
ASSUME EntryAssumption == NULL \notin Entry

Points == {"readCurrent", "writeIntent", "upload", "writeUploaded", "post", "writeReady",
           "readRevision", "putRevision", "readManifest", "putManifest",
           "readBucket", "putBucket", "putLeaf", "removeLeaf", "writeApplied"}

Handler == [pc : {"idle"} \cup Points, key : Keys \cup {NULL}, req : Request \cup {NULL},
            cand : Manifest \cup {NULL}, tries : 0 .. Attempts]

Idle == [pc |-> "idle", key |-> NULL, req |-> NULL, cand |-> NULL, tries |-> 0]

Answer == [key : Keys, obj : Objects, kind : {"ok", "conflict"}, rev : Revs,
           version : 1 .. MaxVersion]

-----------------------------------------------------------------------------
(* Decisions *)

Present(m) == m # NULL \* mutant of Active: a tombstone counts as an object
Active(m) == m # NULL /\ m.state = "active"

\* assertWritePreconditions; a time condition can refuse what a tag can.
PreconditionHolds(cur, cond) ==
    CASE cond = "none" -> TRUE
      [] cond = "absent" -> ~Active(cur)
      [] OTHER -> Active(cur) /\ cond = <<cur.body, cur.version>>

IsFork(cur, cand) == /\ cur # NULL
                     /\ cur.version = cand.version
                     /\ cur.parent = cand.parent

IsNext(cur, cand) == IF cur = NULL
                     THEN cand.parent = NoParent /\ cand.version = 1
                     ELSE cand.parent = cur.rev /\ cand.version = cur.version + 1

\* Mutant of MayReplace: the tie-break is not compared.
MayReplaceFork(cur, cand) == IsFork(cur, cand) \/ IsNext(cur, cand)

\* May a candidate that is not current yet become current?
MayReplace(cur, cand) == \/ IsFork(cur, cand) /\ cand.rev < cur.rev
                         \/ ~IsFork(cur, cand) /\ IsNext(cur, cand)

\* Candidates that some state of the system still mentions.
KnownManifests ==
    {revisions[r] : r \in {s \in Revs : revisions[s] # NULL}}
    \cup {outbox[k].cand : k \in {j \in Keys : outbox[j] # NULL}}
    \cup {proc[p].cand : p \in {q \in Procs : proc[q].cand # NULL}}
UsedRevs == {m.rev : m \in KnownManifests} \cup {d[1][1] : d \in bytes} \cup {e[1] : e \in events}
FreshRevs == Revs \ UsedRevs

\* Mutant of CandidateOf: a tombstone takes its content from the request.
CandidateOfRequest(req, cur, rev) ==
    [obj |-> req.obj, state |-> IF req.op = "put" THEN "active" ELSE "deleted",
     version |-> IF cur = NULL THEN 1 ELSE cur.version + 1,
     rev |-> rev, parent |-> IF cur = NULL THEN NoParent ELSE cur.rev,
     body |-> req.body, storage |-> IF req.op = "put" THEN NULL ELSE cur.storage,
     event |-> NULL]

CandidateOf(req, cur, rev) ==
    [obj |-> req.obj, state |-> IF req.op = "put" THEN "active" ELSE "deleted",
     version |-> IF cur = NULL THEN 1 ELSE cur.version + 1,
     rev |-> rev, parent |-> IF cur = NULL THEN NoParent ELSE cur.rev,
     body |-> IF req.op = "put" THEN req.body ELSE cur.body,
     storage |-> IF req.op = "put" THEN NULL ELSE cur.storage,
     event |-> NULL]

-----------------------------------------------------------------------------
(* Handlers *)

Init ==
    /\ bytes = {}
    /\ events = {}
    /\ revisions = [r \in Revs |-> NULL]
    /\ manifest = [o \in Objects |-> NULL]
    /\ bucket = FALSE
    /\ leaves = {}
    /\ outbox = [k \in Keys |-> NULL]
    /\ proc = [p \in Procs |-> Idle]
    /\ answers = {}
    /\ faults = 0

Move(p, pc) == proc' = [proc EXCEPT ![p].pc = pc]

EntryOf(h, status) == [status |-> status, req |-> h.req, cand |-> h.cand]

AnswerOf(key, m, kind) ==
    [key |-> key, obj |-> m.obj, kind |-> kind, rev |-> m.rev, version |-> m.version]

\* A call answered with a conflict leaves its outbox entry as it is.
Conflict(p) == /\ answers' = answers \cup {AnswerOf(proc[p].key, proc[p].cand, "conflict")}
               /\ proc' = [proc EXCEPT ![p] = Idle]

MayCall(p, k) == /\ proc[p] = Idle
                 /\ OverlappingRetries \/ \A q \in Procs : proc[q].key # k

\* putObject, deleteObject: the key is new.
\* Bound: an id is left for every handler that still has to draw one.
StartMutation(p, k, req) ==
    /\ MayCall(p, k)
    /\ outbox[k] = NULL
    /\ Cardinality({q \in Procs : proc[q].pc = "readCurrent"}) < Cardinality(FreshRevs)
    /\ proc' = [proc EXCEPT ![p] =
                  [Idle EXCEPT !.pc = "readCurrent", !.key = k, !.req = req]]
    /\ UNCHANGED <<telegram, kv, answers, faults>>

\* Mutant of ResumePoint: an upload that was staged is taken for an event.
ResumePointApply(entry) == IF entry.status = "intent" /\ entry.req.op = "put"
                           THEN "upload" ELSE "readRevision"

\* resumePutMutation, resumeDeleteMutation: go on from the staged status.
ResumePoint(entry) ==
    CASE entry.status = "intent" /\ entry.req.op = "put" -> "upload"
      [] entry.status = "intent" /\ entry.req.op = "delete" -> "post"
      [] entry.status = "uploaded" -> "post"
      [] OTHER -> "readRevision"

\* Mutant of RetryMutation: an intent, which needs the body again, is refused.
RetryStaged(p, k) ==
    LET entry == outbox[k] IN
    /\ MayCall(p, k)
    /\ entry # NULL
    /\ entry.status \in {"uploaded", "ready"}
    /\ proc' = [proc EXCEPT ![p] = [pc |-> ResumePoint(entry), key |-> k,
                   req |-> entry.req, cand |-> entry.cand, tries |-> 0]]
    /\ UNCHANGED <<telegram, kv, answers, faults>>

\* The same request again under a key that has an outbox entry.
RetryMutation(p, k) ==
    LET entry == outbox[k] IN
    /\ MayCall(p, k)
    /\ entry # NULL
    /\ \/ /\ entry.status = "applied"
          /\ answers' = answers \cup {AnswerOf(k, entry.cand, "ok")}
          /\ UNCHANGED proc
       \/ /\ entry.status # "applied"
          /\ proc' = [proc EXCEPT ![p] = [pc |-> ResumePoint(entry), key |-> k,
                         req |-> entry.req, cand |-> entry.cand, tries |-> 0]]
          /\ UNCHANGED answers
    /\ UNCHANGED <<telegram, kv, faults>>

\* Another request under a key that has an outbox entry: 409 idempotency_key_reused.
RefuseReusedKey(p, k) ==
    /\ MayCall(p, k)
    /\ outbox[k] # NULL
    /\ Request # {outbox[k].req}
    /\ UNCHANGED vars

\* The current manifest refuses the request: 404 for a delete, or 412.
RejectMutation(p) ==
    LET h == proc[p]
        cur == manifest[h.req.obj]
    IN
    /\ h.pc = "readCurrent"
    /\ \/ h.req.op = "delete" /\ ~Active(cur)
       \/ \E cond \in Conditions : ~PreconditionHolds(cur, cond)
    /\ proc' = [proc EXCEPT ![p] = Idle]
    /\ UNCHANGED <<telegram, kv, answers, faults>>

\* initialMutation: the candidate is the successor of the current manifest, also
\* of a tombstone.
BuildCandidate(p) ==
    LET h == proc[p]
        cur == manifest[h.req.obj]
    IN
    /\ h.pc = "readCurrent"
    /\ h.req.op = "delete" => Active(cur)
    /\ cur # NULL => cur.version < MaxVersion
    /\ \E cond \in Conditions : PreconditionHolds(cur, cond)
    /\ \E rev \in FreshRevs :
         proc' = [proc EXCEPT ![p].pc = "writeIntent", ![p].cand = CandidateOf(h.req, cur, rev)]
    /\ UNCHANGED <<telegram, kv, answers, faults>>

\* Bound: a mutation of an object at MaxVersion is not begun.
StopAtBound(p) ==
    LET h == proc[p] IN
    /\ h.pc = "readCurrent"
    /\ manifest[h.req.obj] # NULL
    /\ manifest[h.req.obj].version = MaxVersion
    /\ proc' = [proc EXCEPT ![p] = Idle]
    /\ UNCHANGED <<telegram, kv, answers, faults>>

WriteOutbox(p, status, next) ==
    /\ outbox' = [outbox EXCEPT ![proc[p].key] = EntryOf(proc[p], status)]
    /\ Move(p, next)
    /\ UNCHANGED <<telegram, revisions, manifest, bucket, leaves, answers, faults>>

WriteIntent(p) == /\ proc[p].pc = "writeIntent"
                  /\ WriteOutbox(p, "intent", IF proc[p].req.op = "put" THEN "upload" ELSE "post")

\* Every upload, and every event, is a new document with a new pointer.
UploadBytes(p) ==
    LET h == proc[p]
        n == Cardinality({d \in bytes : d[1][1] = h.cand.rev}) + 1
        pointer == <<h.cand.rev, n>>
    IN
    /\ h.pc = "upload"
    /\ n <= MaxCopies
    /\ bytes' = bytes \cup {<<pointer, h.cand.body>>}
    /\ proc' = [proc EXCEPT ![p].pc = "writeUploaded", ![p].cand.storage = pointer]
    /\ UNCHANGED <<events, kv, answers, faults>>

WriteUploaded(p) == proc[p].pc = "writeUploaded" /\ WriteOutbox(p, "uploaded", "post")

PostEvent(p) ==
    LET h == proc[p]
        n == Cardinality({e \in events : e[1] = h.cand.rev}) + 1
        pointer == <<h.cand.rev, n>>
    IN
    /\ h.pc = "post"
    /\ n <= MaxCopies
    /\ events' = events \cup {pointer}
    /\ proc' = [proc EXCEPT ![p].pc = "writeReady", ![p].cand.event = pointer]
    /\ UNCHANGED <<bytes, kv, answers, faults>>

WriteReady(p) == proc[p].pc = "writeReady" /\ WriteOutbox(p, "ready", "readRevision")

-----------------------------------------------------------------------------
(* applyReadyMutation *)

\* persistRevision: the record of a revision id is written once; a record
\* with another pointer under the id ends the call in 503 object_mutation_pending.
ReadRevision(p) ==
    LET h == proc[p]
        found == revisions[h.cand.rev]
    IN
    /\ h.pc = "readRevision"
    /\ \/ found = NULL /\ Move(p, "putRevision")
       \/ found = h.cand /\ Move(p, "readManifest")
       \/ found \notin {NULL, h.cand} /\ proc' = [proc EXCEPT ![p] = Idle]
    /\ UNCHANGED <<telegram, kv, answers, faults>>

PutRevision(p) ==
    LET h == proc[p] IN
    /\ h.pc = "putRevision"
    /\ revisions' = [revisions EXCEPT ![h.cand.rev] = h.cand]
    /\ Move(p, "readManifest")
    /\ UNCHANGED <<telegram, manifest, bucket, leaves, outbox, answers, faults>>

\* Mutant of IsCurrent: a revision that an earlier run made current is not recognized.
IsConfirmed(cur, h) == h.tries > 0 /\ cur # NULL /\ cur.rev = h.cand.rev

IsCurrent(cur, h) == cur # NULL /\ cur.rev = h.cand.rev

\* materializeCandidate: read until the candidate is current, writing it if it may
\* replace what is.
ReadManifest(p) ==
    LET h == proc[p]
        cur == manifest[h.cand.obj]
        mine == IsCurrent(cur, h)
    IN
    /\ h.pc = "readManifest"
    /\ \/ /\ mine
          /\ proc' = [proc EXCEPT ![p].cand = cur,
                ![p].pc = IF Active(cur) THEN "readBucket" ELSE "removeLeaf"]
          /\ UNCHANGED answers
       \/ /\ ~mine
          /\ MayReplace(cur, h.cand)
          /\ Move(p, "putManifest")
          /\ UNCHANGED answers
       \/ /\ ~mine
          /\ ~MayReplace(cur, h.cand)
          /\ Conflict(p)
    /\ UNCHANGED <<telegram, kv, faults>>

\* After the last attempt the call ends in 503 object_mutation_pending.
PutManifest(p) ==
    LET h == proc[p] IN
    /\ h.pc = "putManifest"
    /\ manifest' = [manifest EXCEPT ![h.cand.obj] = h.cand]
    /\ proc' = IF h.tries + 1 < Attempts
               THEN [proc EXCEPT ![p].pc = "readManifest", ![p].tries = h.tries + 1]
               ELSE [proc EXCEPT ![p] = Idle]
    /\ UNCHANGED <<telegram, revisions, bucket, leaves, outbox, answers, faults>>

\* ensureBucket
ReadBucket(p) ==
    /\ proc[p].pc = "readBucket"
    /\ Move(p, IF bucket THEN "putLeaf" ELSE "putBucket")
    /\ UNCHANGED <<telegram, kv, answers, faults>>

PutBucket(p) ==
    /\ proc[p].pc = "putBucket"
    /\ bucket' = TRUE
    /\ Move(p, "putLeaf")
    /\ UNCHANGED <<telegram, revisions, manifest, leaves, outbox, answers, faults>>

\* materialize of the list index
PutLeaf(p) ==
    /\ proc[p].pc = "putLeaf"
    /\ leaves' = leaves \cup {proc[p].cand.obj}
    /\ Move(p, "writeApplied")
    /\ UNCHANGED <<telegram, revisions, manifest, bucket, outbox, answers, faults>>

KeepLeaf(p) == /\ proc[p].pc = "removeLeaf" \* mutant of RemoveLeaf: the leaf is kept
               /\ Move(p, "writeApplied")
               /\ UNCHANGED <<telegram, kv, answers, faults>>

RemoveLeaf(p) ==
    /\ proc[p].pc = "removeLeaf"
    /\ leaves' = leaves \ {proc[p].cand.obj}
    /\ Move(p, "writeApplied")
    /\ UNCHANGED <<telegram, revisions, manifest, bucket, outbox, answers, faults>>

\* markApplied is best effort: the client is answered whether or not it is written.
WriteApplied(p) ==
    LET h == proc[p] IN
    /\ h.pc = "writeApplied"
    /\ \/ outbox' = [outbox EXCEPT ![h.key] = EntryOf(h, "applied")] /\ UNCHANGED faults
       \/ faults < MaxFaults /\ faults' = faults + 1 /\ UNCHANGED outbox
    /\ answers' = answers \cup {AnswerOf(h.key, h.cand, "ok")}
    /\ proc' = [proc EXCEPT ![p] = Idle]
    /\ UNCHANGED <<telegram, revisions, manifest, bucket, leaves>>

\* createBucketMarker of the console: nothing removes a marker, so its read and its
\* write are one step.
CreateBucketMarker ==
    /\ ~bucket
    /\ bucket' = TRUE
    /\ UNCHANGED <<telegram, revisions, manifest, leaves, outbox, proc, answers, faults>>

-----------------------------------------------------------------------------
(* Failures *)

\* A call fails or the handler is evicted: 502, 503 or no answer at all.  A call
\* that took effect before it failed is the call followed by this.
FailHandler(p) ==
    /\ proc[p] # Idle
    /\ faults < MaxFaults
    /\ faults' = faults + 1
    /\ proc' = [proc EXCEPT ![p] = Idle]
    /\ UNCHANGED <<telegram, kv, answers>>

\* Mutant of ExpireReceipt: entries go before their mutation is applied.
ExpireEarly(k) ==
    /\ outbox[k] # NULL
    /\ \A p \in Procs : proc[p].key # k
    /\ outbox' = [outbox EXCEPT ![k] = NULL]
    /\ UNCHANGED <<telegram, revisions, manifest, bucket, leaves, proc, answers, faults>>

\* The retention of a receipt ends.  The key means nothing from here on.
ExpireReceipt(k) ==
    /\ outbox[k] # NULL
    /\ outbox[k].status = "applied"
    /\ \A p \in Procs : proc[p].key # k
    /\ outbox' = [outbox EXCEPT ![k] = NULL]
    /\ answers' = {a \in answers : a.key # k}
    /\ UNCHANGED <<telegram, revisions, manifest, bucket, leaves, proc, faults>>

-----------------------------------------------------------------------------

Call(p) == \E k \in Keys :
    \/ \E req \in Request : StartMutation(p, k, req)
    \/ RetryMutation(p, k)
    \/ RefuseReusedKey(p, k)

Step(p) ==
    \/ RejectMutation(p) \/ BuildCandidate(p) \/ StopAtBound(p)
    \/ WriteIntent(p) \/ UploadBytes(p) \/ WriteUploaded(p) \/ PostEvent(p) \/ WriteReady(p)
    \/ ReadRevision(p) \/ PutRevision(p)
    \/ ReadManifest(p) \/ PutManifest(p)
    \/ ReadBucket(p) \/ PutBucket(p) \/ PutLeaf(p) \/ RemoveLeaf(p)
    \/ WriteApplied(p)

Next == \/ \E p \in Procs : Call(p) \/ Step(p) \/ FailHandler(p)
        \/ \E k \in Keys : ExpireReceipt(k)
        \/ CreateBucketMarker

Spec == Init /\ [][Next]_vars

\* A handler that is not evicted runs on, and a client whose mutation is pending
\* repeats it, as the documentation asks; calls with new keys owe nothing.
Fairness == /\ \A p \in Procs : WF_vars(Step(p))
            /\ \A k \in Keys : SF_vars(\E p \in Procs : RetryMutation(p, k))

FairSpec == Spec /\ Fairness

-----------------------------------------------------------------------------
(* Reads.  Ranges and conditions choose what is shown of the bytes. *)

\* What Telegram answers for the file id of a pointer.
Downloads(pointer) == {d[2] : d \in {e \in bytes : e[1] = pointer}}

\* getObject: no answers for 404, and for a pointer that Telegram does not know.
GetObject(o) == IF Active(manifest[o]) THEN Downloads(manifest[o].storage) ELSE {}

(***************************************************************************)
(* Properties                                                              *)
(***************************************************************************)

\* Every variable holds what its normalizer in the code accepts.
TypeOK ==
    /\ bytes \subseteq Pointer \X Bodies
    /\ events \subseteq Pointer
    /\ revisions \in [Revs -> Manifest \cup {NULL}]
    /\ manifest \in [Objects -> Manifest \cup {NULL}]
    /\ bucket \in BOOLEAN
    /\ leaves \subseteq Objects
    /\ outbox \in [Keys -> Entry \cup {NULL}]
    /\ proc \in [Procs -> Handler]
    /\ answers \subseteq Answer
    /\ faults \in 0 .. MaxFaults

\* Both documents a manifest points to are in Telegram, the bytes being the body
\* that its entity tag promises.
Stored(m) == m.event \in events /\ <<m.storage, m.body>> \in bytes

\* Telegram first, then the revision record, then the manifest: a reader that finds
\* a manifest, and a repair that finds a staged mutation, can fetch what it names,
\* and a GET of an object answers the bytes its entity tag promises.
PointersResolve ==
    /\ \A o \in Objects : Active(manifest[o]) => GetObject(o) = {manifest[o].body}
    /\ \A r \in Revs : revisions[r] # NULL => Stored(revisions[r])
    /\ \A o \in Objects : manifest[o] # NULL => revisions[manifest[o].rev] = manifest[o]
    /\ \A k \in Keys : outbox[k] # NULL =>
         /\ outbox[k].status \in {"ready", "applied"} => Stored(outbox[k].cand)
         /\ outbox[k].status = "uploaded" =>
              <<outbox[k].cand.storage, outbox[k].cand.body>> \in bytes

\* The revision records alone tell each object's history: a version has a recorded
\* parent one version older, of the same object, and a tombstone closes an active
\* version whose bytes it keeps.
RevisionTree ==
    \A r \in Revs : revisions[r] # NULL =>
        LET m == revisions[r]
            parent == IF m.parent = NoParent THEN NULL ELSE revisions[m.parent]
        IN
        /\ m.rev = r
        /\ (m.parent = NoParent) = (m.version = 1)
        /\ m.parent # NoParent =>
             /\ parent # NULL
             /\ parent.obj = m.obj
             /\ parent.version + 1 = m.version
             /\ m.state = "deleted" => /\ parent.state = "active"
                                       /\ parent.storage = m.storage
        /\ m.state = "deleted" => m.parent # NoParent

\* Within its retention, a key makes one revision however often it is retried.
OneRevisionPerKey ==
    \A a, b \in answers : a.key = b.key => a.rev = b.rev

\* Answers stay true.  An acknowledged write is never undone by one that did not see
\* it, except by the tie-break: the object is at its revision or a smaller sibling, or
\* further on.  One that was answered 409 is not current then or ever after, even if
\* its half-done earlier run left it ready to be applied.
AnswersStayTrue ==
    \A a \in answers :
        LET cur == manifest[a.obj] IN
        /\ cur # NULL
        /\ a.kind = "ok" => \/ cur.version > a.version
                            \/ IsFork(cur, revisions[a.rev]) /\ cur.rev <= a.rev
        /\ a.kind = "conflict" => cur.rev # a.rev

\* The list index agrees with the manifest an acknowledged mutation left: its object
\* is listed iff it is active, and then its bucket is known.
AcknowledgedIsListed ==
    \A a \in answers : a.kind = "ok" /\ manifest[a.obj].rev = a.rev =>
        /\ (a.obj \in leaves) = Active(manifest[a.obj])
        /\ Active(manifest[a.obj]) => bucket

\* Repeating the request recovers a half-done mutation: once the failures stop,
\* each key that was begun gets its receipt or its 409.
RetriesRecover ==
    \A k \in Keys : outbox[k] # NULL ~>
        \/ outbox[k] = NULL
        \/ outbox[k].status = "applied"
        \/ \E a \in answers : a.key = k /\ a.kind = "conflict"

=============================================================================
