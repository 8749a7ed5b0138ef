-------------------------- MODULE DocumentDatabase --------------------------
(***************************************************************************)
(* The Telegram document database: functions/cloud/document-database.js.   *)
(*                                                                         *)
(* Create, patch and delete run in HTTP handlers that share nothing but a  *)
(* key-value index without compare-and-swap (Cloudflare KV) and an append- *)
(* only journal (a Telegram chat).  One action is one remote call with the *)
(* local code up to the next one, so handlers interleave at every point    *)
(* where the code awaits.  A handler can end between any two calls, and    *)
(* its client can send the same Idempotency-Key again.                     *)
(*                                                                         *)
(* Abstractions: one collection; a document is the value of its one        *)
(* indexed field; generated ids never collide (they are 128 random bits),  *)
(* so the allocation loop never meets a taken id; KV is atomic per key     *)
(* (weaker stores only add behaviours); timestamps are left out.           *)
(***************************************************************************)
EXTENDS Integers, FiniteSets

CONSTANTS
    Procs,              \* handlers that can run at the same time
    Keys,               \* idempotency keys (a call without one has a key nobody repeats)
    Records,            \* record ids that createId can return
    Events,             \* event ids that createId can return, ordered as strings are
    Vals,               \* values of the indexed field
    NULL,               \* JavaScript's null
    MaxVersion,         \* bound: no patch of a record at this version
    MaxFaults,          \* bound: failed calls and evicted handlers
    OverlappingRetries  \* may a client repeat a key while a handler of it still runs?

NoParent == 0

Revision == [event : Events, rec : Records, op : {"create", "update", "delete"},
             version : 1 .. MaxVersion, parent : Events \cup {NoParent}, val : Vals]

\* What the request fingerprint is computed from.
Request ==
    [op : {"create"}, rec : {NULL}, expected : {0}, val : Vals]
    \cup [op : {"update"}, rec : Records, expected : 1 .. MaxVersion, val : Vals]
    \cup [op : {"delete"}, rec : Records, expected : 1 .. MaxVersion, val : {NULL}]

ASSUME EventAssumption == Events \subseteq Nat \ {NoParent}
ASSUME BoundAssumption == MaxVersion \in Nat \ {0} /\ MaxFaults \in Nat
ASSUME RetryAssumption == OverlappingRetries \in BOOLEAN
ASSUME NullAssumption == /\ NULL \notin Keys \cup Records \cup Vals
                         /\ NULL \notin Revision
                         /\ NULL \notin Request

VARIABLES
    journal,    \* revisions Telegram has accepted
    record,     \* db-record: the current revision of a record
    revIndex,   \* db-revision: the revision indexed for a record's version
    listed,     \* db-collection: records with a collection key
    filtered,   \* db-filter: <<value, record>> pairs with a filter key
    outbox,     \* db-outbox: the mutation of an idempotency key
    proc,       \* the handlers
    answers,    \* definite answers given to clients within the key's retention
    faults      \* failures so far

kv == <<record, revIndex, listed, filtered, outbox>>
vars == <<journal, record, revIndex, listed, filtered, outbox, proc, answers, faults>>

Attempts == 3

Statuses == {"intent", "journaled", "applied", "conflict"}
Entry == [status : Statuses, req : Request, rev : Revision, prev : Vals \cup {NULL}]

ASSUME EntryAssumption == NULL \notin Entry

\* The points where a handler awaits a call.
PreIntent == {"allocate", "readCurrent"}
PreJournal == {"recheck", "writeIntent", "append"}
PostJournal == {"writeJournaled", "readForApply", "readRev", "putRev", "confirmRev",
                "putListed", "putFiltered", "putRecord", "confirmRecord", "overwriteRecord",
                "removeListed", "removeFiltered", "removeStale", "writeApplied",
                "writeConflict"}

Handler == [pc : {"idle"} \cup PreIntent \cup PreJournal \cup PostJournal,
            key : Keys \cup {NULL}, req : Request \cup {NULL},
            rev : Revision \cup {NULL}, prev : Vals \cup {NULL},
            cur : Revision \cup {NULL}, tries : 0 .. Attempts]

Idle == [pc |-> "idle", key |-> NULL, req |-> NULL, rev |-> NULL, prev |-> NULL,
         cur |-> NULL, tries |-> 0]

Answer == [key : Keys, req : Request, kind : {"ok", "conflict"}, event : Events]

-----------------------------------------------------------------------------
(* Decisions *)

Deleted(x) == x.op = "delete"
LiveOrDeleted(x) == x # NULL \* mutant of Live: tombstones can be patched
Live(x) == x # NULL /\ ~Deleted(x)

\* A tombstone is stored without query fields.
Field(x) == IF x = NULL \/ Deleted(x) THEN NULL ELSE x.val

IsFork(cur, rev) == /\ cur # NULL
                    /\ cur.version = rev.version
                    /\ cur.parent = rev.parent

IsParent(cur, rev) == /\ Live(cur)
                      /\ cur.version + 1 = rev.version
                      /\ cur.event = rev.parent

\* Mutant of MayApply: the version is not compared again.
MayApplyToAny(cur, rev) == IF rev.op = "create" THEN cur = NULL ELSE Live(cur)

\* May a revision that is not current yet replace what is?
MayApply(cur, rev) ==
    IF rev.op = "create"
    THEN cur = NULL
    ELSE \/ IsFork(cur, rev) /\ rev.event < cur.event
         \/ IsParent(cur, rev)

\* What the revision indexed for its version means for a candidate.
Mine(found, rev) == found # NULL /\ found.parent = rev.parent /\ found.event = rev.event
Lost(found, rev) ==
    found # NULL /\ (found.parent # rev.parent \/ found.event < rev.event)

\* Revisions and record ids that some state of the system still mentions.
KnownRevisions ==
    journal \cup {outbox[k].rev : k \in {j \in Keys : outbox[j] # NULL}}
            \cup {proc[p].rev : p \in {q \in Procs : proc[q].rev # NULL}}
FreshEvents == Events \ {x.event : x \in KnownRevisions}
FreshRecords == Records \ {x.rec : x \in KnownRevisions}

\* An earlier run of the handler has already made its revision current.
Recovering(h) == h.cur # NULL /\ h.cur.event = h.rev.event

\* The filter value that an update leaves behind, if any.
Stale(h) == IF Recovering(h) THEN h.prev ELSE Field(h.cur)
HasOld(h) == Stale(h) # NULL \* mutant of HasStale: the value may be unchanged
HasStale(h) == Stale(h) # NULL /\ Stale(h) # h.rev.val

AfterRevision(h) ==
    CASE ~Deleted(h.rev) -> "putListed"
      [] Deleted(h.rev) /\ Recovering(h) -> "removeListed"
      [] OTHER -> "putRecord"

CleanUp(h) ==
    CASE Deleted(h.rev) -> "removeListed"
      [] ~Deleted(h.rev) /\ HasStale(h) -> "removeStale"
      [] OTHER -> "writeApplied"

-----------------------------------------------------------------------------
(* Handlers *)

Init ==
    /\ journal = {}
    /\ record = [r \in Records |-> NULL]
    /\ revIndex = [rv \in Records \X (1 .. MaxVersion) |-> NULL]
    /\ listed = {}
    /\ filtered = {}
    /\ outbox = [k \in Keys |-> NULL]
    /\ proc = [p \in Procs |-> Idle]
    /\ answers = {}
    /\ faults = 0

Move(p, pc) == proc' = [proc EXCEPT ![p].pc = pc]

EntryOf(h, status) == [status |-> status, req |-> h.req, rev |-> h.rev, prev |-> h.prev]

AnswerFor(key, entry, kind) ==
    [key |-> key, req |-> entry.req, kind |-> kind, event |-> entry.rev.event]

ResumePointApply(status) == "readForApply" \* mutant of ResumePoint: an intent is not sent
ResumePoint(status) == IF status = "intent" THEN "append" ELSE "readForApply"

Resumed(k, entry) == [pc |-> ResumePoint(entry.status), key |-> k, req |-> entry.req,
                      rev |-> entry.rev, prev |-> entry.prev, cur |-> NULL, tries |-> 0]

Resume(p, k, entry) ==
    \/ /\ entry.status \in {"intent", "journaled"}
       /\ proc' = [proc EXCEPT ![p] = Resumed(k, entry)]
       /\ UNCHANGED answers
    \/ /\ entry.status \in {"applied", "conflict"}
       /\ answers' = answers \cup
             {AnswerFor(k, entry, IF entry.status = "applied" THEN "ok" ELSE "conflict")}
       /\ proc' = [proc EXCEPT ![p] = Idle]

\* A client may call: the handler is free and, unless calls of one key can
\* overlap, no other handler works on the key.
MayCall(p, k) == /\ proc[p] = Idle
                 /\ OverlappingRetries \/ \A q \in Procs : proc[q].key # k

\* Bound: an id is left for every handler that still has to draw one.
IdsLeft(req) ==
    /\ Cardinality({q \in Procs : proc[q].pc \in PreIntent}) < Cardinality(FreshEvents)
    /\ req.op = "create" =>
          Cardinality({q \in Procs : proc[q].pc = "allocate"}) < Cardinality(FreshRecords)
    /\ req.op = "update" => req.expected < MaxVersion
    /\ req.op = "delete" => req.expected < MaxVersion

\* createDocument, patchDocument, deleteDocument: the key is new.
StartMutation(p, k, req) ==
    /\ MayCall(p, k)
    /\ outbox[k] = NULL
    /\ IdsLeft(req)
    /\ proc' = [proc EXCEPT ![p] =
                  [Idle EXCEPT !.pc = IF req.op = "create" THEN "allocate" ELSE "readCurrent",
                               !.key = k, !.req = req]]
    /\ UNCHANGED <<journal, kv, answers, faults>>

\* The same request again under a key that has an outbox entry.
RetryMutation(p, k) ==
    /\ MayCall(p, k)
    /\ outbox[k] # NULL
    /\ Resume(p, k, outbox[k])
    /\ UNCHANGED <<journal, kv, faults>>

\* Another request under a key that has an outbox entry: 409 idempotency_key_reused.
RefuseReusedKey(p, k) ==
    /\ MayCall(p, k)
    /\ outbox[k] # NULL
    /\ Request # {outbox[k].req}
    /\ UNCHANGED vars

\* The revision of a create gets a new record id and event id.
AllocateRecord(p) ==
    LET h == proc[p] IN
    /\ h.pc = "allocate"
    /\ \E r \in FreshRecords, e \in FreshEvents :
         /\ record[r] = NULL
         /\ proc' = [proc EXCEPT ![p].pc = "recheck",
               ![p].rev = [event |-> e, rec |-> r, op |-> "create", version |-> 1,
                           parent |-> NoParent, val |-> h.req.val]]
    /\ UNCHANGED <<journal, kv, answers, faults>>

\* A patch or delete of a record that is not at the expected version: 404 or 409.
RejectMutation(p) ==
    LET h == proc[p]
        cur == record[h.req.rec]
    IN
    /\ h.pc = "readCurrent"
    /\ Live(cur) => cur.version # h.req.expected
    /\ proc' = [proc EXCEPT ![p] = Idle]
    /\ UNCHANGED <<journal, kv, answers, faults>>

\* The revision of a patch or delete becomes the child of the current one.
BuildChild(p) ==
    LET h == proc[p]
        cur == record[h.req.rec]
    IN
    /\ h.pc = "readCurrent"
    /\ Live(cur)
    /\ cur.version = h.req.expected
    /\ \E e \in FreshEvents :
         proc' = [proc EXCEPT ![p].pc = "recheck", ![p].prev = Field(cur),
               ![p].rev = [event |-> e, rec |-> h.req.rec, op |-> h.req.op,
                           version |-> cur.version + 1, parent |-> cur.event,
                           val |-> IF h.req.op = "update" THEN h.req.val ELSE cur.val]]
    /\ UNCHANGED <<journal, kv, answers, faults>>

\* beginMutation reads the outbox again: another handler of the key may have begun.
BeginMutation(p) ==
    LET h == proc[p]
        found == outbox[h.key]
    IN
    /\ h.pc = "recheck"
    /\ \/ found = NULL /\ Move(p, "writeIntent") /\ UNCHANGED answers
       \/ found # NULL /\ found.req = h.req /\ Resume(p, h.key, found)
       \/ found # NULL /\ found.req # h.req /\ proc' = [proc EXCEPT ![p] = Idle]
          /\ UNCHANGED answers
    /\ UNCHANGED <<journal, kv, faults>>

WriteIntent(p) ==
    LET h == proc[p] IN
    /\ h.pc = "writeIntent"
    /\ outbox' = [outbox EXCEPT ![h.key] = EntryOf(h, "intent")]
    /\ Move(p, "append")
    /\ UNCHANGED <<journal, record, revIndex, listed, filtered, answers, faults>>

\* Telegram accepts the revision; a repeated append is another copy of the same one.
AppendRevision(p) ==
    LET h == proc[p] IN
    /\ h.pc = "append"
    /\ journal' = journal \cup {h.rev}
    /\ Move(p, "writeJournaled")
    /\ UNCHANGED <<kv, answers, faults>>

WriteJournaled(p) ==
    LET h == proc[p] IN
    /\ h.pc = "writeJournaled"
    /\ outbox' = [outbox EXCEPT ![h.key] = EntryOf(h, "journaled")]
    /\ Move(p, "readForApply")
    /\ UNCHANGED <<journal, record, revIndex, listed, filtered, answers, faults>>

-----------------------------------------------------------------------------
(* applyMaterialization *)

ReadForApply(p) ==
    LET h == proc[p]
        cur == record[h.rev.rec]
        applied == cur # NULL /\ cur.event = h.rev.event
    IN
    /\ h.pc = "readForApply"
    /\ proc' = [proc EXCEPT ![p].cur = cur, ![p].tries = 0,
          ![p].pc = IF applied \/ MayApply(cur, h.rev) THEN "readRev" ELSE "writeConflict"]
    /\ UNCHANGED <<journal, kv, answers, faults>>

\* Mutant of ReadRevision: an open version is taken for confirmed.
ReadRevisionOnly(p) ==
    LET h == proc[p] IN
    /\ h.pc = "readRev"
    /\ Move(p, IF Lost(revIndex[<<h.rev.rec, h.rev.version>>], h.rev)
               THEN "writeConflict" ELSE AfterRevision(h))
    /\ UNCHANGED <<journal, kv, answers, faults>>

\* ensureRevisionIndex: read, write if the version is open, read again.
ReadRevision(p) ==
    LET h == proc[p]
        found == revIndex[<<h.rev.rec, h.rev.version>>]
    IN
    /\ h.pc = "readRev"
    /\ Move(p, IF Lost(found, h.rev) THEN "writeConflict"
               ELSE IF Mine(found, h.rev) THEN AfterRevision(h) ELSE "putRev")
    /\ UNCHANGED <<journal, kv, answers, faults>>

PutRevision(p) ==
    LET h == proc[p] IN
    /\ h.pc = "putRev"
    /\ revIndex' = [revIndex EXCEPT ![<<h.rev.rec, h.rev.version>>] = h.rev]
    /\ Move(p, "confirmRev")
    /\ UNCHANGED <<journal, record, listed, filtered, outbox, answers, faults>>

\* The index holds the candidate, a winner, or a larger competitor to overwrite;
\* after the last attempt the call ends in 503 mutation_pending.  Entries of the
\* index are never removed, so it is not open again.
ConfirmRevision(p) ==
    LET h == proc[p]
        found == revIndex[<<h.rev.rec, h.rev.version>>]
    IN
    /\ h.pc = "confirmRev"
    /\ \/ /\ Mine(found, h.rev)
          /\ proc' = [proc EXCEPT ![p].pc = AfterRevision(h), ![p].tries = 0]
       \/ Lost(found, h.rev) /\ Move(p, "writeConflict")
       \/ /\ ~Mine(found, h.rev) /\ ~Lost(found, h.rev)
          /\ proc' = IF h.tries + 1 < Attempts
                     THEN [proc EXCEPT ![p].pc = "readRev", ![p].tries = h.tries + 1]
                     ELSE [proc EXCEPT ![p] = Idle]
    /\ UNCHANGED <<journal, kv, answers, faults>>

\* putVisibleIndexes
PutListed(p) ==
    LET h == proc[p] IN
    /\ h.pc = "putListed"
    /\ listed' = listed \cup {h.rev.rec}
    /\ Move(p, "putFiltered")
    /\ UNCHANGED <<journal, record, revIndex, filtered, outbox, answers, faults>>

PutFiltered(p) ==
    LET h == proc[p] IN
    /\ h.pc = "putFiltered"
    /\ filtered' = filtered \cup {<<h.rev.val, h.rev.rec>>}
    /\ Move(p, IF Recovering(h) THEN CleanUp(h) ELSE "putRecord")
    /\ UNCHANGED <<journal, record, revIndex, listed, outbox, answers, faults>>

PutRecord(p) ==
    LET h == proc[p] IN
    /\ h.pc = "putRecord"
    /\ record' = [record EXCEPT ![h.rev.rec] = h.rev]
    /\ proc' = [proc EXCEPT ![p].pc = "confirmRecord", ![p].tries = 0]
    /\ UNCHANGED <<journal, revIndex, listed, filtered, outbox, answers, faults>>

\* confirmCurrentRecord: is the record still what was written?
ConfirmRecord(p) ==
    LET h == proc[p]
        found == record[h.rev.rec]
        mine == found # NULL /\ found.event = h.rev.event
        larger == IsFork(found, h.rev) /\ found.event > h.rev.event
    IN
    /\ h.pc = "confirmRecord"
    /\ Move(p, IF mine THEN CleanUp(h)
               ELSE IF larger THEN "overwriteRecord" ELSE "writeConflict")
    /\ UNCHANGED <<journal, kv, answers, faults>>

\* A larger competitor became current: write again, at most three times.
OverwriteRecord(p) ==
    LET h == proc[p] IN
    /\ h.pc = "overwriteRecord"
    /\ record' = [record EXCEPT ![h.rev.rec] = h.rev]
    /\ proc' = IF h.tries + 1 < Attempts
               THEN [proc EXCEPT ![p].pc = "confirmRecord", ![p].tries = h.tries + 1]
               ELSE [proc EXCEPT ![p] = Idle]
    /\ UNCHANGED <<journal, revIndex, listed, filtered, outbox, answers, faults>>

\* removeVisibleIndexes
RemoveListed(p) ==
    LET h == proc[p] IN
    /\ h.pc = "removeListed"
    /\ listed' = listed \ {h.rev.rec}
    /\ Move(p, IF Field(h.cur) = NULL THEN "writeApplied" ELSE "removeFiltered")
    /\ UNCHANGED <<journal, record, revIndex, filtered, outbox, answers, faults>>

RemoveFiltered(p) ==
    LET h == proc[p] IN
    /\ h.pc = "removeFiltered"
    /\ filtered' = filtered \ {<<Field(h.cur), h.rev.rec>>}
    /\ Move(p, "writeApplied")
    /\ UNCHANGED <<journal, record, revIndex, listed, outbox, answers, faults>>

RemoveStale(p) ==
    LET h == proc[p] IN
    /\ h.pc = "removeStale"
    /\ filtered' = filtered \ {<<Stale(h), h.rev.rec>>}
    /\ Move(p, "writeApplied")
    /\ UNCHANGED <<journal, record, revIndex, listed, outbox, answers, faults>>

\* The receipt is best effort: the client is answered whether or not it is written.
WriteReceipt(p, pc, status, kind) ==
    LET h == proc[p] IN
    /\ h.pc = pc
    /\ \/ outbox' = [outbox EXCEPT ![h.key] = EntryOf(h, status)] /\ UNCHANGED faults
       \/ faults < MaxFaults /\ faults' = faults + 1 /\ UNCHANGED outbox
    /\ answers' = answers \cup {AnswerFor(h.key, EntryOf(h, status), kind)}
    /\ proc' = [proc EXCEPT ![p] = Idle]
    /\ UNCHANGED <<journal, record, revIndex, listed, filtered>>

WriteApplied(p) == WriteReceipt(p, "writeApplied", "applied", "ok")

\* Mutant of WriteConflict: the conflict is answered and not stored.
WriteNoConflict(p) ==
    /\ proc[p].pc = "writeConflict"
    /\ answers' = answers \cup {AnswerFor(proc[p].key, EntryOf(proc[p], "conflict"), "conflict")}
    /\ proc' = [proc EXCEPT ![p] = Idle]
    /\ UNCHANGED <<journal, kv, faults>>

WriteConflict(p) == WriteReceipt(p, "writeConflict", "conflict", "conflict")

-----------------------------------------------------------------------------
(* Failures *)

\* A call fails or the handler is evicted: 502, 503 or no answer at all.  A call
\* that took effect before it failed is the call followed by this.
FailHandler(p) ==
    /\ proc[p] # Idle
    /\ faults < MaxFaults
    /\ faults' = faults + 1
    /\ proc' = [proc EXCEPT ![p] = Idle]
    /\ UNCHANGED <<journal, kv, answers>>

\* Mutant of ExpireReceipt: receipts go before their retention ends.
ExpireEarly(k) ==
    /\ outbox[k] # NULL
    /\ outbox' = [outbox EXCEPT ![k] = NULL]
    /\ UNCHANGED <<journal, record, revIndex, listed, filtered, proc, answers, faults>>

\* The retention of a receipt ends.  The key means nothing from here on.
ExpireReceipt(k) ==
    /\ outbox[k] # NULL
    /\ outbox[k].status \in {"applied", "conflict"}
    /\ \A p \in Procs : proc[p].key # k
    /\ outbox' = [outbox EXCEPT ![k] = NULL]
    /\ answers' = {a \in answers : a.key # k}
    /\ UNCHANGED <<journal, record, revIndex, listed, filtered, proc, faults>>

-----------------------------------------------------------------------------

Call(p) == \E k \in Keys :
    \/ \E req \in Request : StartMutation(p, k, req)
    \/ RetryMutation(p, k)
    \/ RefuseReusedKey(p, k)

Step(p) ==
    \/ AllocateRecord(p) \/ RejectMutation(p) \/ BuildChild(p)
    \/ BeginMutation(p) \/ WriteIntent(p) \/ AppendRevision(p) \/ WriteJournaled(p)
    \/ ReadForApply(p)
    \/ ReadRevision(p) \/ PutRevision(p) \/ ConfirmRevision(p)
    \/ PutListed(p) \/ PutFiltered(p)
    \/ PutRecord(p) \/ ConfirmRecord(p) \/ OverwriteRecord(p)
    \/ RemoveListed(p) \/ RemoveFiltered(p) \/ RemoveStale(p)
    \/ WriteApplied(p) \/ WriteConflict(p)

Next == \/ \E p \in Procs : Call(p) \/ Step(p) \/ FailHandler(p)
        \/ \E k \in Keys : ExpireReceipt(k)

Spec == Init /\ [][Next]_vars

\* A handler that is not evicted runs on.  A client whose mutation is pending
\* repeats it, as the documentation asks; calls with new keys owe nothing.
Fairness == /\ \A p \in Procs : WF_vars(Step(p))
            /\ \A k \in Keys : SF_vars(\E p \in Procs : RetryMutation(p, k))

FairSpec == Spec /\ Fairness

-----------------------------------------------------------------------------
(* Reads.  A list looks up the current record of each of its candidates. *)

\* The record, or NULL for 404.
GetDocument(r) == IF Live(record[r]) THEN record[r] ELSE NULL

\* What is listed without a filter, and with the filter on a value of the field.
ListDocuments == {r \in listed : Live(record[r])}

ListWithValue(val) ==
    {r \in Records : <<val, r>> \in filtered /\ Live(record[r]) /\ record[r].val = val}

(***************************************************************************)
(* Properties                                                              *)
(***************************************************************************)

\* Every variable holds what its normalizer in the code accepts.
TypeOK ==
    /\ journal \subseteq Revision
    /\ record \in [Records -> Revision \cup {NULL}]
    /\ revIndex \in [Records \X (1 .. MaxVersion) -> Revision \cup {NULL}]
    /\ listed \subseteq Records
    /\ filtered \subseteq Vals \X Records
    /\ outbox \in [Keys -> Entry \cup {NULL}]
    /\ proc \in [Procs -> Handler]
    /\ answers \subseteq Answer
    /\ faults \in 0 .. MaxFaults

\* Telegram is the source of truth: whatever the index shows as a record or a
\* version, and whatever a client was told succeeded, Telegram has accepted.
JournalFirst ==
    /\ \A r \in Records : record[r] # NULL => record[r] \in journal
    /\ \A rv \in Records \X (1 .. MaxVersion) : revIndex[rv] # NULL => revIndex[rv] \in journal
    /\ \A k \in Keys : outbox[k] # NULL /\ outbox[k].status # "intent"
                         => outbox[k].rev \in journal
    /\ \A a \in answers : \E x \in journal : x.event = a.event

\* The journal alone tells each record's history: an event id names one
\* revision, and a revision after the first has a parent in the journal that is
\* one version older, of the same record, and not a tombstone.  So no race of
\* handlers writes a child of a deleted record or skips a version.
Lineage ==
    /\ \A x, y \in journal : x.event = y.event => x = y
    /\ \A x \in journal :
         IF x.op = "create"
         THEN x.version = 1
         ELSE \E y \in journal : /\ y.event = x.parent
                                 /\ y.rec = x.rec
                                 /\ y.version + 1 = x.version
                                 /\ ~Deleted(y)

\* The version index has no holes: whatever version a record is at, in whatever
\* order handlers overtake each other, each version up to it can be looked up.
HistoryHasNoHoles ==
    \A r \in Records : record[r] # NULL =>
        \A v \in 1 .. record[r].version : revIndex[<<r, v>>] # NULL

\* Within its retention, a key makes one revision however often it is retried:
\* every definite answer to it is about the same event.
OneRevisionPerKey ==
    \A a, b \in answers : a.key = b.key => a.event = b.event

\* Lists are complete: a record that GET returns is found by a list of its
\* collection and by a filter on its field, even between the writes of an update
\* and after an update or a delete stopped half way.
LiveRecordsAreListed ==
    \A r \in Records : GetDocument(r) # NULL => /\ r \in ListDocuments
                                               /\ r \in ListWithValue(GetDocument(r).val)

\* An acknowledged mutation is never undone by a later one that did not see it,
\* except by the tie-break: the record is at its version with it or a smaller
\* sibling, or at a later version.
AcknowledgedSurvives ==
    \A a \in answers : a.kind = "ok" =>
        \E x \in journal : /\ x.event = a.event
                           /\ record[x.rec] # NULL
                           /\ \/ record[x.rec].version > x.version
                              \/ /\ IsFork(record[x.rec], x)
                                 /\ record[x.rec].event <= x.event

\* Repeating the request with its key recovers a half-done mutation: once the
\* failures stop, each key that was begun gets its receipt.
RetriesRecover ==
    \A k \in Keys : outbox[k] # NULL ~> \/ outbox[k] = NULL
                                        \/ outbox[k].status \in {"applied", "conflict"}

(* What the documentation and the comments of the code say and the code does not do. *)

\* "within that period, retrying the same mutation with the same key and request
\* shape returns the original result"
RetryReturnsOriginalResult ==
    \A a, b \in answers : a.key = b.key /\ a.req = b.req => a.kind = b.kind

=============================================================================
