----------------------------- MODULE DriveConsole -----------------------------
(***************************************************************************)
(* The Drive page of the console, js/console/views/drive.js with its       *)
(* dialogs, on top of the Drive of a project: where the page is, what it   *)
(* shows, which lists are on their way, and the operation that it carries  *)
(* out one request after the other.  Other callers (the S3 endpoint, a     *)
(* second tab, the upload queue) use the same Drive.                       *)
(*                                                                         *)
(* Abstractions: one bucket; a list is one page; search, sorting and the   *)
(* selection are left out: an operation takes what is shown.  One          *)
(* operation of the page at a time.                                        *)
(***************************************************************************)
EXTENDS DriveService, FiniteSets

CONSTANTS
    Page,      \* the caller that is the page
    Names,     \* names the user gives
    Patterns,  \* patches the page sends
    MaxLists,  \* bound: lists on their way at once
    MaxOps     \* bound: operations and moves between folders of the page

Flag == {TRUE, FALSE, NULL}

ASSUME ConsoleAssumption ==
    /\ IsFiniteSet(Keys) /\ IsFiniteSet(Folders)
    /\ NULL \notin Contents /\ NULL \notin BOOLEAN
    /\ Patterns \subseteq [starred : Flag, trashed : Flag]
    /\ Page \in Callers

VARIABLES
    view,    \* mode and path of the page, and the keys and folders it shows
    lists,   \* places whose list is on its way
    todo,    \* requests of the operation under way that are still to be made
    ops,     \* operations and moves so far
    crossed  \* history: a list was asked for while another was on its way

pageVars == <<view, lists, todo, ops, crossed>>
vars == <<requestVars, driveVars, pageVars>>

Root == <<>>

Place(mode, path) == [mode |-> mode, path |-> path]

Here == Place(view.mode, view.path)

Init ==
    /\ InitRequests
    /\ InitDrive
    /\ view = [mode |-> "folder", path |-> Root, keys |-> {}, folders |-> {}, loading |-> TRUE]
    /\ lists = {Place("folder", Root)}
    /\ todo = <<>>
    /\ ops = 0
    /\ crossed = FALSE

-----------------------------------------------------------------------------
(* Lists *)

\* Mutant of Refresh: the list of the root, whatever the path.
RefreshRoot(place) == lists' = lists \cup {Place(place.mode, Root)}

\* refresh asks for the place the page is at; a list asked for before stays on its way.
Refresh(place) == lists' = lists \cup {place}

Refreshes(place) ==
    /\ Refresh(place)
    /\ Cardinality(lists') <= MaxLists
    /\ crossed' = (crossed \/ lists # {})

\* selectBucket, setMode, openEntry of a folder, a crumb.
Goto(place) ==
    /\ ops < MaxOps
    /\ ops' = ops + 1
    /\ view' = [view EXCEPT !.mode = place.mode, !.path = place.path, !.loading = TRUE]
    /\ Refreshes(place)
    /\ UNCHANGED <<todo, requestVars, driveVars>>

Navigate ==
    \/ \E mode \in {"folder", "trash", "starred"} : Goto(Place(mode, Root))
    \/ \E f \in view.folders : ~view.loading /\ Goto(Place("folder", f))
    \/ view.mode = "folder" /\ \E n \in 1 .. Len(view.path) :
            Goto(Place("folder", SubSeq(view.path, 1, n)))

\* What arrives is shown, whatever place it is of.
ListArrives(place) ==
    /\ place \in lists
    /\ lists' = lists \ {place}
    /\ view' = [view EXCEPT !.keys = ListedObjects(place.mode, place.path),
                            !.folders = ListedFolders(place.mode, place.path),
                            !.loading = FALSE]
    /\ UNCHANGED <<todo, ops, crossed, requestVars, driveVars>>

\* The page keeps showing what it showed.
ListFails(place) ==
    /\ place \in lists
    /\ Fails
    /\ lists' = lists \ {place}
    /\ view' = [view EXCEPT !.loading = FALSE]
    /\ crossed' = TRUE
    /\ UNCHANGED <<todo, ops, proc, requests, overlapped, lateEffect, driveVars>>

-----------------------------------------------------------------------------
(* Operations: the requests they make, in order *)

FlagsCall(items, patch) == [do |-> "flags", items |-> items, patch |-> patch]
DeleteCall(k) == [do |-> "delete", key |-> k]
MoveCall(k, to) == [do |-> "move", key |-> k, to |-> to]
ExpandCall(f, target) == [do |-> "expand", folder |-> f, target |-> target]
DropCall(f) == [do |-> "drop", folder |-> f]
FolderCall(f) == [do |-> "folder", folder |-> f]
\* Deletions and moves refresh whatever failed; the others when they succeed.
RefreshCall == [do |-> "refresh"]
RefreshIfDone == [do |-> "refreshIfDone"]

\* At the root the prefix is "/", and "/name" is not an object key.
Destination(target, rest) == IF target = Root THEN NULL ELSE target \o rest

MoveUnder(target, keys, base) ==
    SetToSeq({MoveCall(k, Destination(target, base \o <<Last(k)>>)) : k \in keys})

\* An operation on what is shown; a dialog that is cancelled starts none.
Start(calls) ==
    /\ todo = <<>>
    /\ answer[Page] # "waiting"
    /\ ~view.loading
    /\ ops < MaxOps
    /\ ops' = ops + 1
    /\ todo' = calls
    /\ UNCHANGED <<view, lists, crossed, requestVars, driveVars>>

\* toggleStar, setTrash and bulkFlag: a star is not followed by a refresh.
FlagObjects == \E ks \in SUBSET view.keys, patch \in Patterns :
    /\ ks # {}
    /\ Start(<<FlagsCall(SetToSeq(ks), patch)>>
             \o IF patch.starred = NULL THEN <<RefreshIfDone>> ELSE <<>>)

DeleteForever == \E ks \in SUBSET view.keys :
    /\ ks # {}
    /\ Start(SetToSeq({DeleteCall(k) : k \in ks}) \o <<RefreshCall>>)

\* renderRenameObjectDialog puts the name under the path the page is at.
RenameObject == \E k \in view.keys, name \in Names :
    /\ name # Last(k)
    /\ view.path \o <<name>> \in Keys
    /\ Start(<<MoveCall(k, view.path \o <<name>>), RefreshCall>>)

\* A folder is not moved below itself.  Its marker goes before its objects do.
BulkMove == \E ks \in SUBSET view.keys, fs \in SUBSET view.folders, target \in Folders \cup {Root} :
    /\ ks \cup fs # {}
    /\ \A f \in fs : ~IsPrefix(f, target)
    /\ Start(SetToSeq({ExpandCall(f, target) : f \in fs}) \o MoveUnder(target, ks, Root)
             \o <<RefreshCall>>)

NewFolder == \E f \in Folders :
    /\ Front(f) = view.path
    /\ Start(<<FolderCall(f), RefreshIfDone>>)

\* The menu of a folder: only what looks empty is deleted, without force.
DeleteFolder == \E f \in view.folders :
    /\ ListedObjects("folder", f) = {}
    /\ Start(<<[DropCall(f) EXCEPT !.do = "dropEmpty"], RefreshIfDone>>)

-----------------------------------------------------------------------------
(* Carrying an operation out *)

SentAs(p, call) ==
    \/ call.do = "flags" /\ AskFlags(p, Page, call.items, call.patch)
    \/ call.do = "delete" /\ AskDelete(p, Page, call.key)
    \/ call.do = "move" /\ AskCopy(p, Page, call.key, call.to, TRUE)
    \/ call.do = "drop" /\ AskFolder(p, Page, "checkEmpty", call.folder, TRUE)
    \/ call.do = "dropEmpty" /\ AskFolder(p, Page, "checkEmpty", call.folder, FALSE)
    \/ call.do = "folder" /\ AskFolder(p, Page, "readFolder", call.folder, FALSE)

MayGoOn == todo # <<>> /\ answer[Page] # "waiting"

\* The last request failed and its operation looks at that before it refreshes.
Send(p) ==
    /\ MayGoOn
    /\ SentAs(p, Head(todo))
    /\ todo' = Tail(todo)
    /\ UNCHANGED <<view, lists, ops, crossed>>

\* A move to what is no key, or to itself, is refused.
SendRefused ==
    /\ MayGoOn
    /\ Head(todo).do = "move"
    /\ ~Copyable(Head(todo).key, Head(todo).to)
    /\ todo' = Tail(todo)
    /\ UNCHANGED <<view, lists, ops, crossed, requestVars, driveVars>>

\* listFolderFlat: the list has a delimiter, so only what is directly in the folder.
Expand ==
    /\ MayGoOn
    /\ Head(todo).do = "expand"
    /\ LET f == Head(todo).folder
           moves == MoveUnder(Head(todo).target, ListedObjects("folder", f), <<Last(f)>>)
       IN todo' = <<DropCall(f)>> \o Front(Tail(todo)) \o moves \o <<RefreshCall>>
    /\ UNCHANGED <<view, lists, ops, crossed, requestVars, driveVars>>

EndWithRefresh ==
    /\ MayGoOn
    /\ todo = <<RefreshCall>> \/ todo = <<RefreshIfDone>>
    /\ todo' = <<>>
    /\ IF todo = <<RefreshIfDone>> /\ answer[Page] = "failed"
       THEN UNCHANGED <<view, lists, crossed>>
       ELSE Refreshes(Here) /\ view' = [view EXCEPT !.loading = TRUE]
    /\ UNCHANGED <<ops, requestVars, driveVars>>

-----------------------------------------------------------------------------
(* Other callers *)

Elsewhere(p) ==
    /\ \E caller \in Callers \ {Page}, k \in Keys :
        \/ \E c \in Contents \ (uploaded \cup discarded) : AskPut(p, caller, k, c)
        \/ AskDelete(p, caller, k)
        \/ \E patch \in Patterns : AskFlags(p, caller, <<k>>, patch)
    /\ UNCHANGED pageVars

PageStep ==
    \/ Navigate
    \/ \E place \in lists : ListArrives(place) \/ ListFails(place)
    \/ FlagObjects \/ DeleteForever \/ RenameObject \/ BulkMove \/ NewFolder \/ DeleteFolder
    \/ SendRefused \/ Expand \/ EndWithRefresh

Next ==
    \/ PageStep
    \/ \E p \in Procs : Send(p) \/ Elsewhere(p)
    \/ \E p \in Procs : (DriveStep(p) \/ DriveEvict(p)) /\ UNCHANGED pageVars

Spec == Init /\ [][Next]_vars

-----------------------------------------------------------------------------
(* Properties *)

\* The page shows the objects of the folder it says it is in, as long as no
\* list was asked for while another was on its way and none failed.
ShowsWhereItIs ==
    ~crossed /\ ~view.loading =>
        \A k \in view.keys : view.mode = "folder" => Front(k) = view.path

=============================================================================
