----------------------------- MODULE DriveService -----------------------------
(***************************************************************************)
(* The Drive of a project: functions/cloud/drive-service.js over the object *)
(* engine, and the console's own state, functions/cloud/drive-state.js.    *)
(*                                                                         *)
(* An operation is a few calls one after the other: to the object engine,  *)
(* which does each as a whole or not (ObjectStorage), and to the index,    *)
(* where flags and folder markers are one entry each.  Nothing ties them   *)
(* together and no call has an idempotency key.                            *)
(*                                                                         *)
(* Abstractions: one bucket; a key is the sequence of its segments; bytes  *)
(* are a value of Contents; a timestamp in a flag record is left out; the  *)
(* project is active.                                                      *)
(***************************************************************************)
EXTENDS CloudRequests, SequencesExt

CONSTANTS
    Keys,      \* object keys, sequences of segments
    Folders,   \* folder prefixes, sequences of segments
    Contents,  \* what objects hold
    Callers    \* who sends requests and waits for their answer

VARIABLES
    object,    \* the content of each key, NULL if there is none
    flags,     \* flag records
    folders,   \* folder markers
    answer,    \* the last answer to each caller, "waiting" until it comes
    contended, \* history: keys for which two requests were under way at once
    uploaded,  \* history: contents whose upload was answered with success
    discarded, \* history: contents a request was told to delete or to replace by others
    trashed    \* history: keys in the trash as far as their callers were told

driveVars == <<object, flags, folders, answer, contended, uploaded, discarded, trashed>>

NoFlags == [starred |-> FALSE, trashed |-> FALSE]

InitDrive ==
    /\ object = [k \in Keys |-> NULL]
    /\ flags = [k \in Keys |-> NoFlags]
    /\ folders = {}
    /\ answer = [c \in Callers |-> "none"]
    /\ contended = {}
    /\ uploaded = {}
    /\ discarded = {}
    /\ trashed = {}

InTrash(k) == flags[k].trashed

\* GET /p/:project/:bucket/*key serves an object unless it is in the trash.
Served(k) == object[k] # NULL /\ ~InTrash(k)

Under(prefix, k) == IsStrictPrefix(prefix, k)

-----------------------------------------------------------------------------
(* What listObjects and listFolderRecords return *)

ListedObjects(mode, prefix) ==
    {k \in Keys : /\ object[k] # NULL
                  /\ mode = "folder" => Front(k) = prefix /\ ~InTrash(k)
                  /\ mode = "trash" => InTrash(k)
                  /\ mode = "starred" => flags[k].starred}

ListedFolders(mode, prefix) ==
    {f \in Folders : /\ mode = "folder"
                     /\ Front(f) = prefix
                     /\ f \in folders \/ \E k \in Keys : object[k] # NULL /\ Under(f, k)}

-----------------------------------------------------------------------------
(* Requests *)

\* The locals of a handler that has learned more.
Knowing(e, more) ==
    [x \in DOMAIN e \cup DOMAIN more |-> IF x \in DOMAIN more THEN more[x] ELSE e[x]]

\* A request of a caller that waits for its answer; `keys` are those it writes.
Ask(p, caller, pc, keys, more) ==
    /\ answer[caller] # "waiting"
    /\ Begin(p, Knowing([pc |-> pc, by |-> caller, touches |-> keys], more))
    /\ answer' = [answer EXCEPT ![caller] = "waiting"]
    /\ contended' = contended \cup UNION {proc[q].touches \cap keys : q \in Busy}
    /\ UNCHANGED <<object, flags, folders, uploaded>>

Answer(p, result) ==
    /\ Finish(p)
    /\ answer' = [answer EXCEPT ![proc[p].by] = result]

Fail(p) == Answer(p, "failed")

\* The handler goes on, knowing more.
Goes(p, pc, more) ==
    /\ proc' = [proc EXCEPT ![p] = Knowing([proc[p] EXCEPT !.pc = pc], more)]
    /\ UNCHANGED answer

NoMore == [x \in {} |-> NULL]

Reads(p, done) ==
    /\ Read(done, Fail(p))
    /\ UNCHANGED <<object, flags, folders, contended, discarded, trashed>>

WritesObject(p, k, c, done) ==
    /\ Write(object' = [object EXCEPT ![k] = c], UNCHANGED object, done, Fail(p))
    /\ UNCHANGED <<flags, folders, contended, uploaded, discarded, trashed>>

WritesFlags(p, k, f, done) ==
    /\ Write(flags' = [flags EXCEPT ![k] = f], UNCHANGED flags, done, Fail(p))
    /\ UNCHANGED <<object, folders, contended, uploaded, discarded>>

Losing(ks) == discarded' = discarded \cup ({object[k] : k \in ks} \ {NULL})

-----------------------------------------------------------------------------
(* putObject and deleteObject *)

AskPut(p, caller, k, c) ==
    /\ Ask(p, caller, "putObject", {k}, [key |-> k, content |-> c])
    /\ Losing({k})
    /\ UNCHANGED trashed

PutObject(p) ==
    /\ proc[p].pc = "putObject"
    /\ WritesObject(p, proc[p].key, proc[p].content, Goes(p, "answerPut", NoMore))

\* The flags are read for the answer; a put leaves them as they are.
AnswerPut(p) ==
    /\ proc[p].pc = "answerPut"
    /\ Reads(p, Answer(p, "ok"))
    /\ uploaded' = IF answer'[proc[p].by] = "ok"
                   THEN uploaded \cup {proc[p].content} ELSE uploaded

AskDelete(p, caller, k) ==
    /\ Ask(p, caller, "deleteObject", {k}, [key |-> k])
    /\ Losing({k})
    /\ trashed' = trashed \ {k}

\* A missing object is refused before its flags are looked at.
DeleteObject(p) ==
    /\ proc[p].pc = "deleteObject"
    /\ \/ /\ object[proc[p].key] = NULL
          /\ Reads(p, Fail(p))
          /\ UNCHANGED uploaded
       \/ /\ object[proc[p].key] # NULL
          /\ WritesObject(p, proc[p].key, NULL, Goes(p, "clearFlags", NoMore))

ClearFlags(p) ==
    /\ proc[p].pc = "clearFlags"
    /\ WritesFlags(p, proc[p].key, NoFlags, Answer(p, "ok"))
    /\ UNCHANGED trashed

-----------------------------------------------------------------------------
(* setFlags and bulkSetFlags: for each key a look at the object, then read and write *)

AskFlags(p, caller, items, patch) ==
    /\ items # <<>>
    /\ Ask(p, caller, "headObject", ToSet(items), [items |-> items, patch |-> patch, bulk |-> Len(items) > 1])
    /\ trashed' = IF patch.trashed = FALSE THEN trashed \ ToSet(items) ELSE trashed
    /\ UNCHANGED discarded

\* After the last key the request is answered; a move goes on to its answer.
FlagsWritten(p) ==
    IF Len(proc[p].items) > 1 THEN Goes(p, "headObject", [items |-> Tail(proc[p].items)])
    ELSE IF "move" \in DOMAIN proc[p] THEN Goes(p, "answerCopy", NoMore)
    ELSE Answer(p, "ok")

\* Flags are not set for an object that is gone; a bulk request skips it.
HeadObject(p) ==
    /\ proc[p].pc = "headObject"
    /\ Reads(p, IF object[Head(proc[p].items)] # NULL THEN Goes(p, "readFlags", NoMore)
                ELSE IF proc[p].bulk THEN FlagsWritten(p)
                ELSE Fail(p))
    /\ UNCHANGED uploaded

\* Mutant of Patched: a flag that is not in the patch is reset.
PatchedOnly(f, patch) ==
    [starred |-> patch.starred = TRUE, trashed |-> patch.trashed = TRUE]

Patched(f, patch) ==
    [starred |-> IF patch.starred = NULL THEN f.starred ELSE patch.starred,
     trashed |-> IF patch.trashed = NULL THEN f.trashed ELSE patch.trashed]

ReadFlags(p) ==
    /\ proc[p].pc = "readFlags"
    /\ LET k == Head(proc[p].items) IN
        Reads(p, Goes(p, "writeFlags", [next |-> Patched(flags[k], proc[p].patch)]))
    /\ UNCHANGED uploaded

\* A record without a flag is removed: no record and no flag are the same.
WriteFlags(p) ==
    /\ proc[p].pc = "writeFlags"
    /\ WritesFlags(p, Head(proc[p].items), proc[p].next, FlagsWritten(p))
    /\ trashed' = IF proc[p].patch.trashed = TRUE /\ answer'[proc[p].by] # "failed"
                  THEN trashed \cup {Head(proc[p].items)} ELSE trashed

-----------------------------------------------------------------------------
(* copyObject: read and put, and for a move read flags, delete, clear, set flags *)

\* A destination that is no key, or the source, is refused before anything is read.
Copyable(from, to) == from # to /\ to \in Keys

\* A repetition that finds its own copy at the destination gives nothing up.
AskCopy(p, caller, from, to, move) ==
    /\ Copyable(from, to)
    /\ Ask(p, caller, "readSource", {from, to}, [from |-> from, to |-> to, move |-> move])
    /\ IF object[from] \in {NULL, object[to]} THEN UNCHANGED discarded ELSE Losing({to})
    /\ trashed' = IF move THEN trashed \ {from} ELSE trashed

ReadSource(p) ==
    /\ proc[p].pc = "readSource"
    /\ LET c == object[proc[p].from] IN
        Reads(p, IF c = NULL THEN Fail(p) ELSE Goes(p, "putCopy", [content |-> c]))
    /\ UNCHANGED uploaded

\* Mutant of PutCopy: the source goes first.
PutCopyLast(p) ==
    /\ proc[p].pc = "putCopy"
    /\ WritesObject(p, proc[p].from, NULL, Goes(p, "answerCopy", NoMore))

PutCopy(p) ==
    /\ proc[p].pc = "putCopy"
    /\ WritesObject(p, proc[p].to, proc[p].content,
                    Goes(p, IF proc[p].move THEN "readMovedFlags" ELSE "answerCopy", NoMore))

\* Flags that are set go along; what the destination has stays.
MovedPatch(f) == [starred |-> IF f.starred THEN TRUE ELSE NULL,
                  trashed |-> IF f.trashed THEN TRUE ELSE NULL]

ReadMovedFlags(p) ==
    /\ proc[p].pc = "readMovedFlags"
    /\ Reads(p, Goes(p, "deleteSource",
                     [items |-> <<proc[p].to>>, patch |-> MovedPatch(flags[proc[p].from])]))
    /\ UNCHANGED uploaded

DeleteSource(p) ==
    /\ proc[p].pc = "deleteSource"
    /\ \/ /\ object[proc[p].from] = NULL
          /\ Reads(p, Fail(p))
          /\ UNCHANGED uploaded
       \/ /\ object[proc[p].from] # NULL
          /\ WritesObject(p, proc[p].from, NULL, Goes(p, "clearSource", NoMore))

ClearSource(p) ==
    /\ proc[p].pc = "clearSource"
    /\ WritesFlags(p, proc[p].from, NoFlags,
                   Goes(p, IF proc[p].patch = MovedPatch(NoFlags) THEN "answerCopy" ELSE "readFlags",
                        NoMore))
    /\ UNCHANGED trashed

\* The flags of the destination are read for the answer.
AnswerCopy(p) ==
    /\ proc[p].pc = "answerCopy"
    /\ Reads(p, Answer(p, "ok"))
    /\ UNCHANGED uploaded

-----------------------------------------------------------------------------
(* createFolder and deleteFolder *)

AskFolder(p, caller, pc, f, force) ==
    /\ Ask(p, caller, pc, {}, [folder |-> f, force |-> force])
    /\ UNCHANGED <<discarded, trashed>>

WritesFolder(p, effect) ==
    /\ Write(folders' = effect, UNCHANGED folders, Answer(p, "ok"), Fail(p))
    /\ UNCHANGED <<object, flags, contended, uploaded, discarded, trashed>>

ReadFolder(p) ==
    /\ proc[p].pc = "readFolder"
    /\ Reads(p, IF proc[p].folder \in folders THEN Answer(p, "ok") ELSE Goes(p, "putFolder", NoMore))
    /\ UNCHANGED uploaded

PutFolder(p) ==
    /\ proc[p].pc = "putFolder"
    /\ WritesFolder(p, folders \cup {proc[p].folder})

\* Without force a folder with any object below it, also in the trash, is refused.
CheckEmpty(p) ==
    /\ proc[p].pc = "checkEmpty"
    /\ Reads(p, IF ~proc[p].force /\ \E k \in Keys : object[k] # NULL /\ Under(proc[p].folder, k)
                THEN Fail(p) ELSE Goes(p, "removeFolder", NoMore))
    /\ UNCHANGED uploaded

RemoveFolder(p) ==
    /\ proc[p].pc = "removeFolder"
    /\ WritesFolder(p, folders \ {proc[p].folder})

DriveStep(p) ==
    \/ PutObject(p) \/ AnswerPut(p) \/ DeleteObject(p) \/ ClearFlags(p)
    \/ HeadObject(p) \/ ReadFlags(p) \/ WriteFlags(p)
    \/ ReadSource(p) \/ PutCopy(p) \/ ReadMovedFlags(p) \/ DeleteSource(p)
    \/ ClearSource(p) \/ AnswerCopy(p)
    \/ ReadFolder(p) \/ PutFolder(p) \/ CheckEmpty(p) \/ RemoveFolder(p)

\* The handler is gone: its caller sees the request fail.
DriveEvict(p) ==
    /\ proc[p] # Idle
    /\ Fails
    /\ Fail(p)
    /\ UNCHANGED <<requests, overlapped, lateEffect>>
    /\ UNCHANGED <<object, flags, folders, contended, uploaded, discarded, trashed>>

-----------------------------------------------------------------------------
(* Properties *)

\* Bytes whose upload was acknowledged stay readable under some key until a
\* request is told to delete them or to replace them by others, whatever fails
\* between the steps of a move and whenever it is repeated; unless two requests
\* write one key at the same time.
BytesSurvive ==
    contended = {} => \A c \in uploaded \ discarded : \E k \in Keys : object[k] = c

\* An object that a caller has put in the trash is not served by its direct link
\* until it is restored or moved or deleted: stars, copies onto it and uploads
\* do not bring it back; unless two requests write its flags at the same time.
TrashHides == \A k \in trashed \ contended : ~Served(k)

=============================================================================
