# Telegraph Cloud in TLA+

Telegraph Cloud stores documents and objects in a Telegram chat. It runs in
Cloudflare Pages functions, which keep no memory between requests; what they
know is in a key-value index (Cloudflare KV) that has neither transactions nor
compare-and-swap. This directory holds TLA+ models of the parts where that is
hard, TLC configurations that check them on small instances, and TLAPS proofs.

`PROJECT.json` lists components, runs, mutants, hazards, findings and theorems,
and maps each definition to the lines of the source it stands for. Paths below
are relative to `src/`.

## 1. The system

| Part | State | Operations | What must be right |
|---|---|---|---|
| Document database (`functions/cloud/document-database.js`) | Telegram: one JSON document per revision. KV: `db-record` (current revision), `db-revision` (revision of a version), `db-collection` and `db-filter` (lists), `db-outbox` (mutations by idempotency key), collection definitions | create, patch, delete; get, list, history; collection definitions | the journal is a tree of versions, the index never shows what Telegram lacks, retries make one revision, lists are complete, acknowledged writes stay |
| Object engine (`object-storage.js`, `telegram-object-storage.js`) | Telegram: bytes and revision events. KV: `object-manifest`, `object-revision`, `object-outbox`, `object-bucket` | PUT, DELETE, GET, HEAD, create and list buckets | pointers resolve, revisions form a tree, answers stay true |
| Object list index (`object-list-index.js`) and ListObjectsV2 (`s3-protocol.js`) | KV: branch markers and leaves of a trie of keys, stored cursors | materialize, inspect, list in pages | an object is listed iff it is active; a listing shows each stable object once, in order, and ends |
| Index repair (`object-index-repair.js`) | an encrypted checkpoint the operator holds | start, resume; dry run or apply | a complete, undisturbed scan leaves no wrong leaf |
| Project registry (`project-registry.js`) | KV: a record per project, an entry per slug | create, update, change slug, disable, delete | slugs and projects agree, deleted projects stay so |
| API keys and S3 credentials (`developer-api-keys.js`, `s3-credentials.js`) | KV: record, lookup by secret, entry in the project's list | create, rotate, revoke, authenticate | no secret is out of reach, a rotation leaves one live |
| JWT keys (`jwt-auth.js`) | KV: a record per key, a pointer to the signer | issue, rotate, verify | tokens verify for as long as they live |
| Public shares (`public-collection-share.js`) | KV: link to collection, collection to link | publish, revoke, resolve | a link that works can be revoked |
| Drive (`drive-service.js`, `drive-state.js`) | KV: flags and folder markers beside objects | put, copy, move, delete, star, trash, folders | a move loses no bytes, the trash is not served |
| Drive page (`js/console/views/drive.js`, `drive-dialogs.js`, `drive-upload.js`) | in the page: view, lists on their way, the upload queue | navigate, bulk operations, uploads | the page shows where it is; a file is sent once and gets its turn |
| Gallery, short links, albums (`functions/upload.js`, `file/[id].js`, `api/manage`, `utils`) | KV `img_url`: metadata of a file, short ids, albums | upload, view with moderation, block, like, assign, delete; album tree | blocks stick, links resolve, the tree has no cycle |
| Workspace (`js/workspace.js`, `js/push-queue.js`) | in the page and IndexedDB: staged files; the push queue | stage, push, pause, resume, retry, albums, reload | no staged file is lost, one upload at a time, nothing stuck, albums follow |
| Telegram client and journal | none | send with retries, download | an append either is in the chat or the caller does not go on |
| HTTP routes, the rest of S3, moderation, generated documents, admin and other pages | none to speak of | translation, rendering, reports | out of scope |

How they interact: routes authenticate and call one engine operation; engines
call Telegram through the journal or the object adapter, and KV through
`index-store.js`; the object engine calls the list index after its manifest; the
repair reads manifests and calls the list index; the drive calls the object
engine and the drive page the drive; the workspace calls the upload route through
the push queue and the gallery's routes for its albums; a token is issued to the
bearer of an API key of an active project.

What makes this hard:

- **Interleaving.** Every `await` on KV or Telegram lets another handler in, and
  a value read before it is used after it.
- **Failure.** Any call can fail, take effect and then fail, or be the last one
  before the isolate is evicted. The only recovery is the client's: documents and
  objects are repeated with the same `Idempotency-Key`; the other services have
  only the compensations in their code.
- **Order.** Related index keys are written one by one in a fixed order; a
  handler can stop between any two.
- **Forks.** Two handlers may extend one parent; the smaller opaque id wins, at
  whatever moment it becomes visible.
- **Callbacks.** In the pages the user clicks at every await of a loop, and
  answers arrive in any order.

## 2. Modules

| Module | Models | Extends |
|---|---|---|
| `DocumentDatabase` | mutations and reads of documents | |
| `VersionedRecords` | what the database promises to clients one after the other | |
| `DocumentDatabase_proofs` | theorems about `DocumentDatabase` and its refinement | `MCDocumentDatabase`, TLAPS |
| `ObjectStorage` | mutations and reads of objects, with leaf writes | |
| `VersionedObjects` | what the object engine promises | |
| `ObjectStorage_proofs` | theorems about the engine, its refinement and the repair | `MCObjectStorage`, `ObjectIndexRepair`, TLAPS |
| `ObjectIndexRepair` | repair scans beside the engine | `ObjectStorage` |
| `ObjectListing` | a listing in pages beside mutations | |
| `ObjectListing_proofs` | theorems about the listing | `ObjectListing`, TLAPS |
| `CloudRequests` | handlers whose only state is the index: a call, its failures, history | |
| `ProjectRegistry` | projects and slugs | `CloudRequests` |
| `Credentials` | API keys and S3 credentials of projects | `ProjectRegistry` |
| `SigningKeys` | JWT keys | `CloudRequests` |
| `CollectionShares` | public links | `CloudRequests` |
| `ControlPlane` | these four together, on the same handlers | the three above |
| `ControlPlane_proofs` | theorems about the four services | `ControlPlane`, TLAPS |
| `DriveService` | the drive over objects and flags | `CloudRequests` |
| `DriveConsole` | the drive page with other callers | `DriveService` |
| `DriveConsole_proofs` | theorems about the drive and its page | `DriveConsole`, TLAPS |
| `DriveUploads` | the upload queue of the drive page | |
| `DriveUploads_proofs` | a theorem about the queue | `DriveUploads`, TLAPS |
| `Albums` | the album tree | `CloudRequests` |
| `Gallery` | files, moderation, short links, with the albums | `Albums` |
| `Gallery_proofs` | theorems about files, short links and albums | `Gallery`, TLAPS |
| `PushQueue` | the loop of the workspace's uploads | |
| `Workspace` | staged files, IndexedDB, album synchronization, reloads | `PushQueue` |
| `Workspace_proofs` | theorems about the queue and the page | `Workspace`, TLAPS |
| `MC...` | symmetry, sets and refinement mappings for TLC | the module named |

`MCDocumentDatabase` and `MCObjectStorage` instantiate the two abstract
specifications: `VR == INSTANCE VersionedRecords WITH record <- ...` maps the
index to a register per record, `VO` likewise for objects. A step of the engine
that publishes a record is a step of the register and every other step a stutter.

Definitions that begin with the comment "Mutant of" are deliberately wrong
versions of the one after them. They are not part of the model; they show that
each property would notice such an error.

### DocumentDatabase

An action is one remote call with the local code up to the next one. `proc[p]`
is a handler: the call it awaits (`pc`), its idempotency key, its request, the
revision it builds, the query field of the prior record, the record that
`applyMaterialization` read, and the attempts of the loop it is in. The other
variables are Telegram (`journal`) and the KV namespaces (`record`, `revIndex`,
`listed`, `filtered`, `outbox`); `answers` and `faults` are history.

| Code | Actions |
|---|---|
| `createDocument`, `patchDocument`, `deleteDocument`, up to the intent | `StartMutation`, `AllocateRecord`, `RejectMutation`, `BuildChild`, `RetryMutation`, `RefuseReusedKey` |
| `beginMutation`, `resumeMutation` | `BeginMutation`, `WriteIntent`, `AppendRevision`, `WriteJournaled`, `WriteApplied`, `WriteConflict` |
| `applyMaterialization` | `ReadForApply` and the order of the steps after it (`AfterRevision`, `CleanUp`) |
| `ensureRevisionIndex` | `ReadRevision`, `PutRevision`, `ConfirmRevision` |
| `putVisibleIndexes`, `removeVisibleIndexes` | `PutListed`, `PutFiltered`, `RemoveListed`, `RemoveFiltered`, `RemoveStale` |
| publication of the record, `confirmCurrentRecord` | `PutRecord`, `ConfirmRecord`, `OverwriteRecord` |
| a failed call or an evicted handler | `FailHandler`; a lost receipt is in `WriteReceipt` |
| the TTL of receipts | `ExpireReceipt` |

Abstractions. There is one collection. A document is the value of its one
indexed field: any other content is carried along and compared nowhere. Ids are
fresh; the code reads before it uses a record id and draws 128 random bits.
Event ids are numbers since only their order matters. A call that took effect
and then failed is the call followed by `FailHandler`. KV is atomic per key and
shows a write at once; Cloudflare's KV is weaker, so a property that holds here
is what the protocol gives by itself, and the violated one needs no stale read.
Validation of input and of collection schemas ends a request before
anything is written and is left out.

`getDocument` and `listDocuments` change nothing and are the operators
`GetDocument`, `ListDocuments` and `ListWithValue`; `LiveRecordsAreListed` is stated
with them. A list shows a record by its key and then reads it, so keys that are too
many do no harm and one that is missing does.

### ObjectStorage

The same shape. `cand` is the manifest that a mutation works towards; its
pointers `storage` and `event` are filled in as the stages `intent`, `uploaded`,
`ready`, `applied` advance. A pointer is the revision with the number of the
copy, so a repeated upload has another pointer. Preconditions (`If-Match`,
`If-None-Match`) are chosen when the current manifest is read, which is the only
place the code looks at them; time conditions refuse what a tag can refuse. A
leaf stands for itself and its branch markers: markers are written first and
never removed, so a leaf that exists is reachable. `CreateBucketMarker` is the
creation of a bucket by itself; a GET is the operator `GetObject`, and
`PointersResolve` says that what it names can be downloaded.

`StopAtBound` ends a mutation of an object at `MaxVersion`; it stands for no
code and touches nothing but the handler.

### ObjectIndexRepair

Extends the engine with a scan: `StartScan` or `ResumeScan`, `ListPage`, then per
manifest `ReadEntry`, `InspectEntry` and, where it applies, `MaterializeEntry`;
`FailScan` ends a request without a checkpoint. The operator holds the newest
checkpoint and may use it any number of times. `quiet` records that no mutation
changed a manifest or a leaf since the scan began. One bucket; no malformed
records.

### ObjectListing

Here keys are sequences of bytes and the trie is explicit, since the order of
nodes, markers and leaves is what the algorithm lives by.

| Code | Actions |
|---|---|
| a mutation of another request, and `materialize` | `Commit`, `MaterializeBranches`, `MaterializeLeaf`; `Abandon` if it stops in between |
| `listObjects` and its walk `nextTerminal` | `StartPage`, `ListNode`, `Descend`, `Visit`, `EndPage` |
| the loop of `listObjectsV2` over pages of the engine | `NextSource`, `Result` |
| failed requests, cursors past their TTL, the client's answer to both | `RequestFails`, `CursorExpires`, `ListAgain` |

A page that is being made is `handler`: the state of its walk, the entries it has
looked at, how many results the engine still has room for (`limit`, the code's
`limit - results.length`) and those of them the client will see (`visible`): a result
that StartAfter hides takes room of the engine's page and none of the answer.

`settled` are the objects that were active from the first page on and `listable`
those that were active at some moment; the two properties lie between them. The
engine is one commit per object here: what goes on inside is `ObjectStorage`.

### The control plane

`CloudRequests` gives what these services share. `proc[p]` is a handler with its
program counter and locals. `Write(effect, none, done, failed)` is one call to the
index: it takes effect and the handler goes to `done`, or fails and it goes to
`failed` with or without the effect; `Read` may fail; `Evict` ends a handler
between two calls. `overlapped` and `lateEffect` are history: two requests were
under way at once; a write took effect though its caller was told it failed.

| Code | Actions |
|---|---|
| `createProject` and its rollback | `StartCreateProject`, `PutNewProject`, `PutSlug`, `ConfirmSlug`, `UndoProject` |
| `updateProject`, with or without a new slug | `StartUpdate`, `CheckSlug`, `ClaimSlug`, `PutMoved`, `UndoSlug`, `PutUpdate` |
| giving the old slug up; `deleteProject` | `ReadOldSlug`, `DropOldSlug`; `StartDelete`, `PutDeleted` |
| creation and rotation of keys and credentials | `CreateKey`, `CreateCredential`, `RotateKey`, `RotateCredential`, `PutKey`, `PutLookup`, `PutEntry`, `UndoIssue` |
| revocation, alone or within a rotation | `RevokeKey`, `RevokeCredential`, `ReadTarget`, `PutRevoked`, `DropLookup` |
| authentication | `KeyAuthenticates`, `SignatureAuthenticates` |
| `functions/api/auth/token.js`, issuing a token | `ExchangeToken`, `IssueToken`, `Sign` |
| creation and rotation of signing keys | `RotateSigningKeys`, `PutSigner`, `Point`, `RotateFirst`, `Retire` |
| public links | `Publish`, `PutLink`, `PutLinkOf`, `UndoLink`, `Revoke`, `DropLink`, `DropLinkOf` |

### DriveService and DriveConsole

`DriveService` models each operation of the drive call by call: `AskPut`,
`PutObject`, `AnswerPut`; `AskDelete`, `DeleteObject`, `ClearFlags`; `AskFlags`,
`HeadObject`, `ReadFlags`, `WriteFlags`; `AskCopy` (copy or move), `ReadSource`,
`PutCopy`, `ReadMovedFlags`, `DeleteSource`, `ClearSource`, `WriteFlags`, `AnswerCopy`;
folders with `ReadFolder`, `PutFolder`, `CheckEmpty`, `RemoveFolder`. Objects change
as a whole: the engine's own steps are `ObjectStorage`. `contended` are the keys
that two requests wrote at the same time; `uploaded`, `discarded` and `trashed` are
what callers were told or asked for.

`DriveConsole` is the page as one of the callers. `view` is the mode, the path
and what is shown; `lists` the places whose list is on its way; `todo` the
requests that an operation still makes. A bulk operation of the page is a list of
calls (`FlagObjects`, `DeleteForever`, `RenameObject`, `BulkMove`, `NewFolder`,
`DeleteFolder`), of which `Send` makes the next, `SendRefused` meets a validation
error, `Expand` replaces the move of a folder by the moves of what is listed in
it, and `EndWithRefresh` asks for the list again. `Goto`, `ListArrives` and
`ListFails` are the rest of the page, `Elsewhere` another caller. `crossed` records
that a list was asked for while another was on its way.

### DriveUploads

`process()` walks the array; every retry begins another walk. Between two awaits a
walk is undisturbed, so the state is the array, the entries' statuses, the index at
which each waiting walk is, and the flag. `Process` raises the flag; `WalkFrom` lowers it
where the walk ends and otherwise leaves it as it is, so once one of several walks has
ended, a pick begins yet another beside those that go on. `Enqueue`, `Settled` (an
upload ends and its walk goes on), `Retry`, `RetryFailed`, `CancelOne`, `CancelAll`,
`ClearQueue`. Entries are numbered in the order they are picked. `cleared` records that
the panel was closed during an upload.

### Albums and Gallery

`Albums`: `CreateAlbum`, `PatchAlbum` and `DeleteAlbum` decide from one reading of
the list; `PutAlbum`, `LiftChild` and `DropAlbum` are the writes. `Gallery` adds
files: `Upload`, `PutMeta`, `PutLink`; a view (`View`, `CreateMeta`, `Decide`, `PutSeen`)
that asks the moderation service between its read and its write; `Update`,
`PutUpdated` for block, whitelist, like, rename and assignment; `DeleteFile`, `DropMeta`,
`DropLink`. `contended` are the files and short ids that two requests had in hand
at once; `blocked` and `answered` are what callers were told.

### PushQueue and Workspace

In `PushQueue`, `at` is what the loop awaits. A sleep that is over (`backoffOver`,
`gapOver`) is a state of its own because waking a promise only schedules the
loop: the page can still call in between. `Turn` is the head of the `while` loop,
`AfterFile` and `AfterBackoff` what follows `runOne`, `Leave` its end. It is checked
as a part of `Workspace`, which makes all its calls.

`Workspace` adds the items, their records in IndexedDB (`disk`), what the server has
(`stored`, `filed`), the synchronization of albums (`sync`) and the list of the
server's files (`list`). Code to actions: staging, removal and drag to an album are
`StageFile`, `RemoveItem`, `MoveToAlbum`; the queue's clicks `PushItems`,
`RetryFailedItems`, `QueueClick`; the answer of an upload `UploadEnds`, the rest of the loop
`QueueGoesOn`, both mirrored to the cards (`Mirrored`); `syncAlbums` is `SyncStarts`,
`SendAssign`, `AckAssign`, `SyncFails`; the list is `AskList`, `ListArrives`, `ListFails`;
`Save` is `idbPut`: nobody awaits it, and it resolves without having written when there is
no database or its transaction fails (`js/workspace/db.js:48`, `:53`), so any of its writes may
be lost, the first of a file too, and so may a deletion. `Reload` forgets everything but
`disk`, and finds nothing if that cannot be read (`Restore`). `saved` are the files that
were written once and not removed since. `mixed` records that an album was changed while it
was being synchronized, that a list arrived first, or that a reload read a record older
than the item.

## 3. Runs

All instances are small because the hazards need few actors: two handlers for a
race, a third request that sees the outcome, two keys to have one repeated.
Ids and requests are bounded, so the systems stop when they are used up, and a
page nobody clicks on is at rest: deadlock is not checked.

| Run | Question | Instance | States |
|---|---|---|---|
| `document_sequential` | Do clients that take turns see versioned registers, whatever fails and is repeated? Are lists complete, do acknowledged writes stay, do retries recover? | 1 handler, 2 keys, 1 record, 3 event ids, 2 values, 3 versions, 2 faults | 255 thousand |
| `document_concurrent` | What survives every interleaving? | 2 handlers, 2 keys, 4 event ids, 3 versions, 1 fault | 1.3 million |
| `document_retry_answer` | Does a retry get the original answer? **No** | 1 handler, 1 fault | |
| `object_sequential` | As for documents; and do answers stay true? | 1 handler, 2 keys, 3 revision ids, 3 copies, 2 faults | 263 thousand |
| `object_concurrent` | What survives every interleaving? | 2 handlers, 2 keys, 4 revision ids, 2 copies, 1 fault | 3.2 million |
| `object_repair` | Does an undisturbed scan repair the index? | 1 handler, 2 objects, pages of 1, 1 fault | 1.9 million |
| `object_listing` | Is a listing in order, complete for stable objects, free of dead ones, and does it end? | 5 keys over `/`, `a`, `b`, chunks of 2, node pages of 2, budget 3, limit 2, 2 source pages, 6 selections (2 of S3), 2 writes, 1 fault | 216 thousand |
| `control_plane` | Do records, lookups, pointers and lists agree, through failures and interleavings? | 2 handlers, 2 projects, 2 slugs, 2 credentials, 3 signing keys, 1 collection, 2 links, 4 requests, 2 faults | 623 thousand |
| `drive` | Does a move keep the bytes, the trash hide, the page show where it is? | 2 handlers, the page and another caller, keys `a`, `b`, `f/a`, folder `f`, 2 contents, 3 requests, 1 fault, 2 lists, 2 operations of the page | 2.3 million |
| `drive_uploads` | Is each file sent once at a time, and does it get its turn? | 4 files, 3 clicks | 109 thousand |
| `gallery` | Do blocks stick and links resolve, is the album tree a tree? | 2 handlers, 2 files, 1 short id, 3 album ids, 2 names, depth 2, 5 requests, 1 fault | 546 thousand |
| `workspace` | Is any staged file lost, any card stuck, any album not filed? | 2 files, 1 album, 1 retry, 5 clicks or reloads, any write to IndexedDB lost | 2.1 million |

Bounds. `MaxVersion = 3` is a create, a change and a change of the change: the
first version whose parent has a parent. Event ids 1 to 4 leave room for two
siblings of either order and a child of each. One fault in concurrent runs and
two in sequential ones are enough to stop a mutation and then its retry; the
control plane has two because a compensation can fail as well. `MaxCopies`
bounds what repeated uploads leave in Telegram. The five keys of the listing give the
trie a branch with a leaf of its own name beside it, a common prefix that spans nodes, and
a node of more than one page; a budget of 3 makes pages end in every state of the
walk, also empty. Three signing keys are two rotations after the first key. Five gallery
requests make a chain of albums, a move and a deletion. Four files let two failed ones be
retried while a third is being sent, and one be picked after one of the two walks has
ended. Symmetry is used for handlers,
ids, values and bodies where only identity matters, never for event, revision or
object ids, whose order decides, and in no run that checks liveness.

Fairness. A handler that is not evicted runs on: weak fairness of each handler's
steps. A client whose mutation is pending repeats it, as the documentation of
phase 2 asks; since a handler may be busy with other keys, this is strong
fairness of each key's retry. `MaxFaults` makes failures finite. Without a
repeating client nothing recovers: there is no background worker. A listing ends
under weak fairness of `Serve`: a running handler goes on and the client asks for
the next page or, after an error, again. In the workspace an upload settles and
timers fire (`QueueStep`); nobody has to click. In the drive's queue each request
that is sent ends (`Settled(e)`).

### What the violated property shows

`RetryReturnsOriginalResult`: a create is applied, the write of its receipt fails and
the client is told that it succeeded; another request changes the record; the create is
repeated. Its entry still says journaled, so it is applied again, meets a current
record that is not its own revision and is answered 409 `record_id_collision`
(`document-database.js:1085`). A patch that is repeated after another patch is refused
likewise, with `version_conflict` (`:1101`); TLC stops at the shorter trace. `PROJECT.json`
quotes the text it contradicts.

### What the exceptions leave out

Several properties have a premise that is a history variable, because the code
does not claim, and does not give, more. What happens without the premise:

- *Documents and objects, requests that overlap.* `LiveRecordsAreListed`,
  `AcknowledgedSurvives`, `AnswersStayTrue`, `AcknowledgedIsListed` and the refinements are
  checked with one handler. With two, a handler that holds a stale comparison
  publishes version 2 over version 3; a half-done PUT that is repeated replaces its
  acknowledged sibling by the tie-break; the cleanup of one fork removes list keys of the
  other; a repair removes the leaf of an object created again after the scan read
  its tombstone. The documentation calls this practical optimistic concurrency
  and promises neither serializability nor lists that agree at every moment.
- *One idempotency key in two requests at once* (`OverlappingRetries = FALSE` in all
  runs): both find no outbox entry and make two revisions.
- *`overlapped`, control plane and albums.* Two publications of one collection
  leave a link no revocation reaches; an update undoes a delete; two album moves
  checked against one list make a cycle.
- *`lateEffect`.* A write that took effect after its caller saw it fail is undone
  by no compensation, or by one too many: a project that was moved to a new slug,
  though the call that wrote it failed, loses that slug again.
- *`contended`.* A star and a trash of one object at once lose the trash; a move
  that races an upload of its source deletes the new upload; a view that read a file
  before it was blocked writes the block away.
- *`crossed`.* Of two lists on their way, the last to arrive is shown under whatever
  path the page has; a rename from it moves the object into that path.
- *`mixed`.* An item moved to another album while its album is being synchronized
  counts as synchronized afterwards. So does one whose move was not written to IndexedDB,
  after a reload: it is back in the album it had.
- *`saved`.* A file whose first write to IndexedDB is lost is on the page only: the page
  does not say so, and after a reload the file is gone. A removed file whose deletion is
  lost is back after a reload.
- *`cleared`.* Closing the panel during an upload empties the array that the walk goes on
  over: its index is beyond the end and the flag still up, so files picked until that
  upload ends wait for a retry.

Other things a reader of the code may want to know, which no property is about:
a rename from Starred or Trash moves the object to the path the page has
(`js/console/views/drive-dialogs.js:62`); a bulk move of two objects of one name keeps one of
them; moving a folder moves its direct children only; a move to the root of the
bucket is refused because the new key begins with a slash (`js/console/views/drive.js:751`);
`deleteCollection` looks for documents by a key without the collection's name, so any
document of the project keeps an empty collection alive (`document-database.js:1306`);
schema defaults are applied before the fingerprint of a create, so a change of defaults
turns its retry into another request (`document-database.js:1317`); viewing a deleted file
whose link is known creates metadata that is not blocked; albums are not synchronized
after a pause and a resume (`js/workspace.js:659`), and an answer of the assignment
saves an item that was removed meanwhile (`js/workspace.js:1286`).

## 4. Proofs

The theorems hold for any sets of handlers, keys, records, files and so on, and
for any bounds. Each states a property as it stands in its module; where the
property is checked on an instance with one handler, or with `OverlappingRetries =
FALSE`, the theorem has that as its hypothesis: `\A p, q \in Procs : p = q`, or
`~OverlappingRetries`. Otherwise the only hypotheses are the `ASSUME`s of the modules,
which say that bounds are numbers, that `NULL` is none of the things it stands beside, that files, keys
and folders are finitely many, that keys of a listing are sequences of numbers above the two markers, and that the page of the drive is one of its callers and patches
known flags. Every inductive invariant was checked with TLC on the
run of its module before it was proved.

| Module | Theorem | Property | Hypothesis |
|---|---|---|---|
| `DocumentDatabase_proofs` | `TypeCorrect` | `TypeOK` (in no run) | |
| | `TelegramFirst` | `JournalFirst` | |
| | `JournalTellsHistory` | `Lineage` | |
| | `HistoryIsDense` | `HistoryHasNoHoles` | |
| | `OneRevisionPerKeyHolds` | `OneRevisionPerKey` | retries do not overlap |
| | `LiveRecordsAreListedHolds` | `LiveRecordsAreListed` | one handler |
| | `AcknowledgedSurvivesHolds` | `AcknowledgedSurvives` | one handler |
| | `Refinement` | `ImplementsVersionedRecords` | one handler |
| `ObjectStorage_proofs` | `TypeCorrect` | `TypeOK` | |
| | `ReadsAlwaysResolve` | `ReadsResolve`: the part of `PointersResolve` about GET | |
| | `PointersResolveHolds` | `PointersResolve` | retries do not overlap |
| | `RevisionTreeHolds` | `RevisionTree` | retries do not overlap |
| | `OneRevisionPerKeyHolds` | `OneRevisionPerKey` | retries do not overlap |
| | `RecordsAreImmutable` | `RecordsWrittenOnce`: no step changes a revision record | retries do not overlap |
| | `AnswersStayTrueHolds` | `AnswersStayTrue` | one handler |
| | `AcknowledgedIsListedHolds` | `AcknowledgedIsListed` | one handler |
| | `Refinement` | `ImplementsVersionedObjects` | one handler |
| | `RepairRestoresHolds` | `RepairRestores`, of `SpecRepair` | |
| `ObjectListing_proofs` | `ListingInvHolds` | `ListingInv`, the inductive invariant | |
| | `NothingDeadListedHolds` | `NothingDeadListed` | |
| | `StableListedInOrderHolds` | `StableListedInOrder` | |
| `ControlPlane_proofs` | `SlugsResolveHolds` | `SlugsResolve` | |
| | `DeletedStaysDeletedHolds` | `DeletedStaysDeleted` | |
| | `RotationRetiresHolds` | `RotationRetires` | |
| | `RevealedIsManageableHolds` | `RevealedIsManageable` | |
| | `TokensSurviveRotationHolds` | `TokensSurviveRotation` | |
| | `LinksCanBeRevokedHolds` | `LinksCanBeRevoked` | |
| `DriveConsole_proofs` | `BytesSurviveHolds` | `BytesSurvive` | |
| | `TrashHidesHolds` | `TrashHides` | |
| | `ShowsWhereItIsHolds` | `ShowsWhereItIs` | |
| `DriveUploads_proofs` | `SentOnceHolds` | `SentOnce` | |
| `Workspace_proofs` | `OneFileAtATimeHolds` | `OneFileAtATime` | |
| | `StagedIsKeptHolds` | `StagedIsKept` | |
| | `PushingIsQueuedHolds` | `PushingIsQueued` | |
| | `AlbumIsFiledHolds` | `AlbumIsFiled` | |
| `Gallery_proofs` | `BlockSticksHolds` | `BlockSticks` | |
| | `LinksResolveHolds` | `LinksResolve` | |
| | `AlbumsStayTree` | `AlbumsKept`, the inductive invariant of the albums | |
| | `RootedHolds` | `Rooted` | |

Each invariance proof has one lemma or step per action, or per group of actions, and
frame lemmas for those that do not touch what a part of the invariant reads.

### Documents

The inductive invariants build on each other:

1. `Typed` adds to `TypeOK` what a program point says about the handler (`Shape`):
   from the intent on it has a revision, before it has none. Without it the
   fields of a handler's revision would have no type.
2. `Journaled` adds `Appended`: past the append, a handler's revision is in the
   journal. So whatever it writes to the index is.
3. `Lines` is about all revisions that the journal, the outbox or a handler
   mentions (`KnownRevisions`), not only the accepted ones, because an intent may
   be appended much later: one event id is one revision, and each has its parent
   in the journal. It rests on `NextKnown` (a step makes at most one new
   revision known, with a fresh id and the current record as parent) and on
   `RecordOfItsOwn`.
4. `Dense` adds `OwnVersionIndexed` (a handler past `ensureRevisionIndex` finds its
   version indexed, by itself or a smaller sibling) and `OlderVersionsIndexed` (the
   version before any known revision is indexed). Entries of the version index are replaced and never
   removed, so both survive whatever other handlers do.
5. `Separate`, when retries do not overlap: a key that a handler works for is that
   handler's alone and its outbox entry is the handler's revision (`Owned`); what was
   answered is what the outbox, if it still has an entry, says (`AnswersMatch`).
6. `Serial`, with one handler: `Lines`, and whose turn it is (`Turns`): each program
   point says how the handler's revision stands to the current record, which list and
   filter keys have been written, and that the current record was read after the last
   change. `LiveVisible`, `AppliedSurvive` and `OkSurvive` follow records, receipts and
   answers through the same points. From `Serial`, `PutRecord` is the one step of the register
   and every other step a stutter.

### Objects

`Staged` is `Typed`, `Stages` and `Copies`: the stage of a candidate says which of its
pointers are filled in, a handler's program counter says which stages are possible, and
copies are numbered. It holds in every interleaving and gives `ReadsResolve`. `Separate`
adds what holds when retries do not overlap: an object of a key is that key's
(`OneToOne`, `Owned`), the current revision has a record (`CurrentIsRecorded`), deletions keep
the bytes of what they delete (`TombstonesKeepBytes`), and answers match the outbox. Without the
hypothesis it is false: two handlers of one key write different records for one revision.
`Serial` adds, for one handler, how a candidate stands to the current manifest at each
program point (`Turns`), that candidates follow what they were built on (`AllFollow`), and that
applied mutations and answers stay behind the manifest (`AppliedAreDone`, `AnswersHold`).

`RepairInv`, for the repair: as long as the engine is quiet, everything up to the cursor of an apply
scan agrees with its manifest but what is left of its page, the manifest that was read is the
current one, and a checkpoint stands for what is repaired up to it (`ScanRepairs`, `Kept`). That a
page is a first part of what is listed, whatever its size, is `PageIsFirst`.

### The listing

`ListingInv` holds for any set of keys and any sizes of chunks, node pages, budgets and
pages. A frame still has to come to a key (`Has`) if the key's entry in the frame's node was
read ahead or is after the place from which the node goes on; a key is `Ahead` of a stack if
a frame has. The invariant says that a stored state is a `Position` after the results so far:

- the frames of the stack are disjoint and in order (`StackOK`): what a higher frame has
  still to come to is before all that a lower one has, although the nodes are entered one
  level at a time;
- whatever is ahead comes after every result, or is under the common prefix that was
  listed last (`Follows`);
- every object that is owed (`settled`) was listed, itself or as its common prefix, or is ahead.

The first rests on `EntryOrder`: entries of one node, with their markers, are in the order of
the keys behind them, so that a branch that is entered has all its keys between those of its
neighbours. `GroupOrder` says the same of common prefixes: grouping keeps the order of keys, so
that a group is contiguous and comparing with the last group is enough. `IndexInv` adds that the branch entries on the way to a leaf are there
before the leaf is, so that a walk that starts after an object was listed reaches it.
Common prefixes, chunks and sequences are handled by quantifying over positions, without induction; the
one place that needs it, that a set of entries can be sorted, counts the entries up to each (`Sortable`).

### The control plane

`Typed` is about all services at once, since handlers are shared; `Inv` is the conjunction of
one invariant per service, each about the records it owns and the handlers at its program
points. Signing keys: a handler that will sign or point to a key finds its public half published, and a
key's private part is gone once a rotation says so. Links: of requests that do not overlap, a
handler between its two writes is the only one that may find them disagree. Credentials: a record
that a handler issues is not yet anyone's, so that its compensation harms nobody, and a rotation
answers only after the record it replaced is revoked, which nothing undoes. Projects: a
slug that was claimed and not yet written belongs to the handler under way, or to nobody's project.
The action property `DeletedStaysDeleted` follows from the same invariant: a handler that is to
write a project read it in the state in which it still is.

### The drive

`DriveKept`: two requests under way touch different keys, or the keys they share are contended
(`Disjoint`), and each handler may rely on what it read of a key that is not. `TrashTurn` says which
keys a request took out of the trash when it began, and that flags it writes back keep what is
in the trash there. `BytesTurn` says where the bytes are at each call: what a put is to replace and a
deletion is to remove was given up when the request was made, or is the copy that an earlier run of a
repeated move left there; between the two writes of a move both keys
hold the same. `TrashHides` is not inductive, because a put under a key that is in the trash but
without its flag would serve it again; `Flagged` says that its flag is set whether or not there is an object.
`PageKept`, for `ShowsWhereItIs`: of lists that did not cross at most one is on its way, and it is of the
place the page is at.

### The pages

`DriveUploads`: each entry that is being sent is awaited by exactly one walk, at its
index, whatever the flag says, and nothing is pending behind a walk that has ended (`WalkOK`).

`Workspace`: `Consistent` relates seven things that the code keeps in step by hand. `LoopOK`: the
loop has exactly the entry it works on in hand, so at most one is uploading; `OneEntryPerFile`;
`EntryOK`: an entry and its card say the same; `ItemOK`: an item has its bytes unless the server
has stored them, and so has its record, which may be older than the item because a write was
lost, but once written is there until the file is removed; `AlbumOK`: what counts as
synchronized is what the server has, and survives a reload because a record that is not
older names the item's album; `SyncOK`: each file is in one group of the synchronization
under way, with its item's album. `PushingIsQueued` is a part of it.

### The gallery

`BlockSticks` and `LinksResolve` except what was `contended`, and so rest on who has what in hand. `InHand`: a
handler has its file and the short id that goes with it in hand until it ends. `Disjoint`: two handlers
that share one thing have nothing that is not contended. So what the only holder of a file read about it
is still true when it writes. `BlocksKept` says what that holder will do: of a blocked file it
writes blocked metadata or none. `LinksKept` follows a short id through an upload (free until
the link is written), the metadata and the copies of it that views and changes carry (the id
leads to the file, or its upload is about to write the link), and a deletion (the link leads
to the file, nobody was answered with it any more, and once the metadata is gone no handler can bring
its name back).

`Rooted` speaks of walks, which nothing preserves step by step; the proof speaks of levels. `Tree`
says that every album can be given a number from 1 to `MaxDepth` that is greater than its parent's,
and `AlbumsKept` that while no two gallery requests have overlapped, one is busy at most, the
albums are a tree, and what the busy one is about to do keeps them one (`Fine`): its record, once
written, leaves a tree, or it lifts exactly the children that still name the album it deletes, to that
album's own parent. A creation or move gets its levels from the checks of the code (`Reparented`):
`MaxDepth + 1 - HeightOf` in the subtree that moves, `DepthOf` elsewhere. A child that is lifted
keeps its level, for its new parent is further up, whatever was lifted before it. From levels back
to walks: a walk climbs to smaller levels and so ends within `MaxDepth` steps (`TreeIsRooted`).
`Above` is a recursive function; that it exists, and is what its equations say, is proved from a
least counterexample on the naturals, with no induction theorem.

### Only model-checked

Liveness under fairness (`RetriesRecover`, `RunsFinish`, `ListingEnds`, `WaitingIsSent`,
`UploadedIsListed`): the prover has no rules for `ENABLED`.

## 5. Not modelled

`PROJECT.json` gives the reason for each component. In short:

- Document routes, signatures, XML, readiness, generated documents and telemetry
  translate or report; they keep no protocol state.
- The admin page, the other console views, the landing page and the texts
  (`js/i18n.js`, `functions/cloud/developer-docs.js`) are rendering; each form
  sends one request and shows the answer.
- Moderation and the legacy storage backends are calls to others, taken as any answer.
- Validation of input, normalization of names and schemas end a request before
  its first write and are left out of every module; malformed index records end a
  request with an error and are left out as well.
- The Telegram client is seen through what its callers can tell apart: an append
  that is in the chat, is not, or is although the caller saw an error.
- Definitions of collections: create, patch and delete write or remove one key
  after one check.

The map covers under a fifth of the implementation. What is left of the
large files is in the list above: of `js/workspace.js` all but staging,
pushing, albums and lists is the image editor and rendering.

## 6. Plan

1. Collections with schemas beside documents: what a change of schema does to a
   retry, and what a deletion of a collection sees.
2. Albums made, renamed and deleted in the workspace before the server knows
   them, composed with `Albums`.
3. The Telegram client's retries and fallbacks, composed with the append of the
   engines.
4. Proofs: every safety property and action property of the runs is a theorem; the
   modules of 1 to 3 come with theirs.
