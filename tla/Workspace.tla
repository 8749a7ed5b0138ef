------------------------------ MODULE Workspace ------------------------------
(***************************************************************************)
(* The gallery's workspace, js/workspace.js: staged files, their copies in *)
(* IndexedDB (js/workspace/db.js, items.js), the push queue that uploads   *)
(* them, the synchronization of their albums, and the list of what the     *)
(* server has.  The page can be reloaded or closed at any moment.          *)
(*                                                                         *)
(* Every request is awaited while the user goes on, and an item is one     *)
(* object that all of them change.                                         *)
(*                                                                         *)
(* Abstractions: a write to IndexedDB is done at once or never, since only *)
(* a reload reads it; items of files that were not staged here, and        *)
(* changes to the albums themselves, are left out; one synchronization and *)
(* one list at a time; ids are not shortened (ENABLE_SHORT_URLS is off).   *)
(***************************************************************************)
EXTENDS PushQueue

CONSTANTS
    Albums,    \* albums, here and on the server
    NULL       \* no album, no record

\* What IndexedDB keeps of a file, and the item.
Status == {"pending", "pushing", "failed", "synced"}
Record == [status : Status, blob : BOOLEAN, album : Albums \cup {NULL}, albumSynced : BOOLEAN]
Item == [status : Status, blob : BOOLEAN, album : Albums \cup {NULL}, albumSynced : BOOLEAN,
         gone : BOOLEAN]

ASSUME RecordsAssumption == NULL \notin Record \cup Item

VARIABLES
    items,    \* state.items, NULL before a file is staged
    disk,     \* the records of IndexedDB
    stored,   \* files the server has stored
    filed,    \* the album the server has for the last of them
    sync,     \* the album synchronization under way
    list,     \* the server's list on its way
    awaiting, \* pushItems waits for the queue
    saved,    \* history: files whose item was written to IndexedDB and not removed
    mixed     \* history: files whose album was changed while it was being
              \* synchronized, listed before it was, or read from an old record

itemVars == <<items, disk, stored, filed, sync, list, awaiting, saved, mixed>>
allVars == <<vars, itemVars>>

\* A synchronization; due: it was asked for and has not looked at the items yet.
NoSync == [due |-> FALSE, todo |-> {}, sent |-> {}]
SyncDue == [due |-> TRUE, todo |-> {}, sent |-> {}]

WorkspaceInit ==
    /\ Init
    /\ items = [f \in Files |-> NULL]
    /\ disk = [f \in Files |-> NULL]
    /\ stored = {}
    /\ filed = [f \in Files |-> NULL]
    /\ sync = NoSync
    /\ list = NULL
    /\ awaiting = FALSE
    /\ saved = {}
    /\ mixed = {}

\* Items in state.items; one that was removed may still be held by a request.
Present == {f \in Files : items[f] # NULL /\ ~items[f].gone}

-----------------------------------------------------------------------------
(* Items and their records *)

StagedItem(a) == [status |-> "pending", blob |-> TRUE, album |-> a, albumSynced |-> TRUE, gone |-> FALSE]

\* Mutant of HasBlob: a failed file's bytes are not kept.
HasBlobUnlessFailed(item) == item.status \notin {"synced", "failed"} /\ item.blob

HasBlob(item) == item.status # "synced" /\ item.blob

Edited(item, album, albumSynced, gone) ==
    [status |-> item.status, blob |-> item.blob, album |-> album, albumSynced |-> albumSynced, gone |-> gone]

Acknowledged(item) == Edited(item, item.album, TRUE, item.gone)
Listed(item, a) == Edited(item, a, item.albumSynced, item.gone)
Moved(item, a) == Edited(item, a, item.status # "synced", item.gone)
Gone(item) == Edited(item, item.album, item.albumSynced, TRUE)

\* toRecord
ToRecord(item) ==
    [status |-> IF item.status = "pushing" THEN "pending" ELSE item.status,
     blob |-> HasBlob(item), album |-> item.album, albumSynced |-> item.albumSynced]

\* restoreLocal
Restored(record) == [status |-> record.status, blob |-> record.blob, album |-> record.album,
                     albumSynced |-> record.albumSynced, gone |-> FALSE]

\* Mutant of CardStatus: what is cancelled keeps its status.
CardStatusKept(status, state) ==
    CASE state \in {"uploading", "retrying"} -> "pushing"
      [] state = "failed" -> "failed"
      [] OTHER -> status

CardStatus(status, state) ==
    CASE state \in {"uploading", "retrying"} -> "pushing"
      [] state = "failed" -> "failed"
      [] state \in {"cancelled", "queued"} /\ status # "synced" -> "pending"
      [] OTHER -> status

Shown(item, state) == [item EXCEPT !.status = CardStatus(@, state)]

\* idbPut of the items of fs.  Any of the writes may be lost, and nobody hears of
\* it: there is no database, a transaction fails, or the page is left before.
Save(fs, its) ==
    \E written \in SUBSET fs :
        /\ disk' = [f \in Files |-> IF f \in written THEN ToRecord(its[f]) ELSE disk[f]]
        /\ saved' = saved \cup {f \in written : ~its[f].gone}

\* applyQueueToItems mirrors the entries es; a failure is saved, beside the
\* items of fs.
StateIn(es, f) == es[CHOOSE i \in DOMAIN es : es[i].id = f].state

Mirror(es, its, fs) ==
    LET shown == {f \in Present : \E i \in DOMAIN es : es[i].id = f}
        new == [f \in Files |-> IF f \in shown
                                THEN Shown(its[f], StateIn(es, f))
                                ELSE its[f]]
    IN
    /\ items' = new
    /\ Save(fs \cup {f \in shown : new[f].status = "failed" /\ its[f].status # "failed"}, new)

Mirrored == Mirror(entries', items, {})

-----------------------------------------------------------------------------
(* The synchronization of albums *)

Unsynced == {f \in Present : items[f].status = "synced" /\ ~items[f].albumSynced}

\* syncAlbums: the files that wait are grouped by their album.
Groups == {[album |-> a, files |-> {f \in Unsynced : items[f].album = a}] : a \in Albums \cup {NULL}}

NewSync == [due |-> FALSE, todo |-> {g \in Groups : g.files # {}}, sent |-> {}]

UnderWay == sync.todo \cup sync.sent # {}

SyncedFiles == UNION {g.files : g \in sync.todo \cup sync.sent}

\* When the loop that pushItems waits for is over, albums follow the files.
AfterPush ==
    IF running /\ ~running' THEN
        /\ awaiting' = FALSE
        /\ sync' = IF /\ awaiting
                      /\ phase' # "paused"
                      /\ \E i \in DOMAIN entries' : entries'[i].state = "synced"
                      /\ sync = NoSync
                      /\ online
                      /\ \E f \in Files : items'[f] # NULL /\ items'[f].status = "synced"
                                            /\ ~items'[f].albumSynced /\ ~items'[f].gone
                   THEN SyncDue ELSE sync
    ELSE UNCHANGED <<awaiting, sync>>

SyncStarts ==
    /\ sync.due
    /\ sync' = NewSync
    /\ UNCHANGED <<vars, items, disk, stored, filed, list, awaiting, saved, mixed>>

\* POST /api/manage/albums/assign: what the server does not know by that id is
\* "missing", which is not an error.
SendAssign ==
    /\ sync.sent = {}
    /\ \E g \in sync.todo :
        /\ filed' = [f \in Files |-> IF f \in g.files /\ f \in stored
                                     THEN g.album ELSE filed[f]]
        /\ sync' = [due |-> sync.due, todo |-> sync.todo \ {g}, sent |-> {g}]
    /\ UNCHANGED <<vars, items, disk, stored, list, awaiting, saved, mixed>>

Sent == UNION {g.files : g \in sync.sent}

\* The items are marked as they are by now, and saved, also one that was removed.
AckAssign ==
    /\ sync.sent # {}
    /\ items' = [f \in Files |-> IF f \in Sent THEN Acknowledged(items[f])
                                 ELSE items[f]]
    /\ Save(Sent, items')
    /\ sync' = [due |-> sync.due, todo |-> sync.todo, sent |-> {}]
    /\ UNCHANGED <<vars, stored, filed, list, awaiting, mixed>>

\* A request or its answer is lost, and the rest is left for another time.
SyncFails ==
    /\ UnderWay
    /\ sync' = NoSync
    /\ UNCHANGED <<vars, items, disk, stored, filed, list, awaiting, saved, mixed>>

-----------------------------------------------------------------------------
(* The list of the server *)

\* loadRemotePage: the answer is what the server has when it is asked.
AskList ==
    /\ list = NULL
    /\ list' = [f \in stored |-> filed[f]]
    /\ UNCHANGED <<phase, entries, flags, at, current, online>>
    /\ UNCHANGED <<items, disk, stored, filed, sync, awaiting, saved, mixed>>

\* mergeRemoteRecords: the album of the server replaces the one of the item.
ListArrives ==
    /\ list # NULL
    /\ LET known == {f \in Present \cap DOMAIN list : items[f].status = "synced"} IN
        /\ items' = [f \in Files |-> IF f \in known THEN Listed(items[f], list[f]) ELSE items[f]]
        /\ mixed' = mixed \cup {f \in known : items[f].album # list[f]}
    /\ list' = NULL
    /\ UNCHANGED <<vars, disk, stored, filed, sync, awaiting, saved>>

ListFails ==
    /\ list # NULL
    /\ list' = NULL
    /\ UNCHANGED <<vars, items, disk, stored, filed, sync, awaiting, saved, mixed>>

-----------------------------------------------------------------------------
(* The queue, as the workspace drives it *)

\* uploadStagedFile has a file to send.
Sendable(f) == f \in Present /\ items[f].blob

\* Mutant of Uploaded: the album is taken to be on the server already.
UploadedUnfiled(item) == [item EXCEPT !.status = "synced", !.blob = FALSE]

\* The album of a file is not on the server yet.
Uploaded(item) == [status |-> "synced", blob |-> FALSE, album |-> item.album,
                   albumSynced |-> item.album = NULL /\ item.albumSynced, gone |-> item.gone]

\* An upload that fails may be stored although its answer is lost.
UploadEnds ==
    /\ UploadSettles
    /\ LET f == entries[current].id
           success == entries'[current].state = "synced"
       IN
       IF success
       THEN /\ Sendable(f)
            /\ stored' = stored \cup {f}
            /\ filed' = [filed EXCEPT ![f] = NULL]
            /\ Mirror(entries', [items EXCEPT ![f] = Uploaded(@)], {f})
       ELSE /\ ~Sendable(f) => entries'[current].state = "failed"
            /\ \/ UNCHANGED <<stored, filed>>
               \/ Sendable(f) /\ stored' = stored \cup {f} /\ filed' = [filed EXCEPT ![f] = NULL]
            /\ Mirrored
    /\ AfterPush
    /\ UNCHANGED <<list, mixed>>

QueueGoesOn ==
    /\ SleepEnds \/ AfterBackoff \/ AfterGap
    /\ Mirrored
    /\ AfterPush
    /\ UNCHANGED <<stored, filed, list, mixed>>

\* pushItems: what can be pushed of the given files; a
\* batch that is over is cleared first.
PushItems(fs) ==
    LET targets == {f \in fs \cap Present : items[f].status \in {"pending", "failed"} /\ items[f].blob}
        before == IF ~running /\ phase \in {"done", "cancelled"} THEN <<>> ELSE entries
    IN
    /\ online
    /\ targets # {}
    /\ StartWith(Enqueued(before, targets), cancelRequested, pauseRequested)
    /\ awaiting' = TRUE
    /\ UNCHANGED online

RetryFailedItems ==
    LET retryable == {f \in Present : items[f].status = "failed" /\ items[f].blob}
        fresh == {f \in retryable : \A i \in DOMAIN entries : entries[i].id # f}
        es == Enqueued(entries, fresh)
    IN
    /\ online
    /\ retryable # {}
    /\ StartWith(Again(es), FALSE, pauseRequested)
    /\ UNCHANGED <<online, awaiting>>

QueueClick ==
    /\ \/ \E fs \in SUBSET Files : PushItems(fs)
       \/ RetryFailedItems
       \/ (Pause \/ (online /\ Resume) \/ Cancel \/ Reset) /\ UNCHANGED awaiting
    /\ Mirrored
    /\ UNCHANGED <<stored, filed, sync, list, mixed>>

-----------------------------------------------------------------------------
(* The user and the browser *)

Still == UNCHANGED <<entries, phase, flags, at, current, online, stored, filed, sync, list, awaiting>>

\* addFiles, once for each file the user picks.
StageFile(f, a) ==
    /\ items[f] = NULL
    /\ items' = [items EXCEPT ![f] = StagedItem(a)]
    /\ Save({f}, items')
    /\ Still
    /\ UNCHANGED mixed

\* removeItem; idbDelete may be lost like a write.
RemoveItem(f) ==
    /\ f \in Present
    /\ items[f].status # "pushing"
    /\ items' = [items EXCEPT ![f] = Gone(items[f])]
    /\ \/ disk' = [disk EXCEPT ![f] = NULL]
       \/ UNCHANGED disk
    /\ saved' = saved \ {f}
    /\ Still
    /\ UNCHANGED mixed

\* moveObjectsToAlbum
MoveToAlbum(f, a) ==
    /\ f \in Present
    /\ items[f].album # a
    /\ items' = [items EXCEPT ![f] = Moved(items[f], a)]
    /\ Save({f}, items')
    /\ mixed' = IF UnderWay /\ f \in SyncedFiles THEN mixed \cup {f} ELSE mixed
    /\ Still

\* The button or the palette; it is quiet when nothing is to do.
SyncClick ==
    /\ online
    /\ sync = NoSync
    /\ Unsynced # {}
    /\ sync' = NewSync
    /\ UNCHANGED <<entries, phase, flags, at, current, online>>
    /\ UNCHANGED <<items, disk, stored, filed, list, awaiting, saved, mixed>>

\* What IndexedDB says of an item's album is older than the item.
Outdated(f) ==
    /\ disk[f] # NULL
    /\ \/ disk[f].album # items[f].album
       \/ disk[f].albumSynced /\ ~items[f].albumSynced

\* restoreLocal: what IndexedDB has, or nothing when it cannot be read.
Restore(fs) ==
    /\ items' = [f \in Files |-> IF f \in fs THEN Restored(disk[f])
                                 ELSE IF items[f] = NULL THEN NULL ELSE Gone(items[f])]
    /\ saved' = saved \cup fs
    /\ mixed' = mixed \cup {f \in fs : Outdated(f)}

\* The page is loaded anew: the queue is gone, and an upload under way with it,
\* which the server may have stored.
Reload ==
    /\ entries' = <<>>
    /\ phase' = "idle"
    /\ running' = FALSE
    /\ pauseRequested' = FALSE
    /\ cancelRequested' = FALSE
    /\ at' = "nothing"
    /\ current' = 0
    /\ Restore({f \in Files : disk[f] # NULL}) \/ Restore({})
    /\ sync' = NoSync
    /\ list' = NULL
    /\ awaiting' = FALSE
    /\ \/ UNCHANGED <<stored, filed>>
       \/ /\ at = "upload"
          /\ Sendable(entries[current].id)
          /\ stored' = stored \cup {entries[current].id}
          /\ filed' = [filed EXCEPT ![entries[current].id] = NULL]
    /\ UNCHANGED <<online, disk>>

Click ==
    /\ calls < MaxCalls
    /\ calls' = calls + 1
    /\ \/ QueueClick \/ SyncClick \/ AskList \/ Reload
       \/ \E f \in Files : RemoveItem(f) \/ \E a \in Albums \cup {NULL} : StageFile(f, a) \/ MoveToAlbum(f, a)

NetworkChanges == Network /\ UNCHANGED itemVars

QueueStep == UploadEnds \/ QueueGoesOn

WorkspaceNext ==
    \/ QueueStep \/ Click \/ NetworkChanges
    \/ SyncStarts \/ SendAssign \/ AckAssign \/ SyncFails
    \/ ListArrives \/ ListFails

WorkspaceSpec == WorkspaceInit /\ [][WorkspaceNext]_allVars

\* Uploads settle and timers fire.
WorkspaceFairSpec == WorkspaceSpec /\ WF_allVars(QueueStep)

-----------------------------------------------------------------------------
(* Properties *)

\* A staged file that the user has not removed is never lost.  While the page
\* is there it has the bytes, or the server has stored them; and once they were
\* written to IndexedDB they stay there for a reload to find, whatever later
\* writes are lost, until the server has stored them.
StagedIsKept ==
    /\ \A f \in Present : items[f].blob \/ f \in stored
    /\ \A f \in saved : disk[f] # NULL /\ (disk[f].blob \/ f \in stored)

\* A card says that its file is being pushed only while the queue is at it: no
\* pause, cancellation, dismissal or reload leaves one that would never end.
PushingIsQueued ==
    \A f \in Present : items[f].status = "pushing" =>
        \E i \in DOMAIN entries : entries[i].id = f /\ entries[i].state \in {"uploading", "retrying"}

\* When an item's album counts as synchronized, the server has that album, unless
\* the album was changed while it was being synchronized, a list brought the
\* server's album first, or a reload an album from before a write that was lost.
AlbumIsFiled ==
    \A f \in Present \ mixed :
        (items[f].status = "synced" /\ items[f].albumSynced) => filed[f] = items[f].album

=============================================================================
