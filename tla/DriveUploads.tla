----------------------------- MODULE DriveUploads -----------------------------
(***************************************************************************)
(* The upload queue of the Drive page, js/console/views/drive-upload.js.   *)
(*                                                                         *)
(* process() walks the array of entries and sends the queued ones one      *)
(* after the other. Each retry starts another walk, whether one is under   *)
(* way or not, and so does a pick once one of several walks is over: the   *)
(* walks share the array and the flag `processing`, which a walk raises    *)
(* when it starts and lowers when it ends.                                 *)
(* Between two awaits a walk runs undisturbed, so a walk is either over or *)
(* waits for the upload of one entry.                                      *)
(*                                                                         *)
(* Abstractions: the object route answers an upload with success or with   *)
(* an error, or the connection fails; progress and rendering are left out. *)
(***************************************************************************)
EXTENDS Naturals, SequencesExt

CONSTANTS
    Entries,   \* files the user picks, numbered in the order they are picked
    NULL,      \* no walk
    MaxClicks  \* bound: retries, cancellations and clearings by the user

ASSUME UploadsAssumption ==
    /\ Entries \subseteq Nat
    /\ MaxClicks \in Nat
    /\ NULL \notin [at : Nat, settled : BOOLEAN]

VARIABLES
    queue,      \* the entries in the panel, in the order they were picked
    status,     \* status of each entry
    walk,       \* where the walk that waits for an entry goes on, and what it has settled
    requests,   \* uploads of each entry that are under way
    processing, \* the flag
    clicks,     \* user's clicks so far
    stored,     \* history: entries the server has stored
    listed,     \* history: entries stored when the page last refreshed its list
    cleared     \* history: the panel was closed while an upload was under way

vars == <<queue, status, walk, requests, processing, clicks, stored, listed, cleared>>

NoWalks == [e \in Entries |-> NULL]

Init ==
    /\ queue = <<>>
    /\ status = [e \in Entries |-> "unpicked"]
    /\ walk = NoWalks
    /\ requests = [e \in Entries |-> 0]
    /\ processing = FALSE
    /\ clicks = 0
    /\ stored = {}
    /\ listed = {}
    /\ cleared = FALSE

-----------------------------------------------------------------------------
(* A walk *)

\* Positions from i on whose entry is queued.
Ahead(q, st, i) == {j \in i .. Len(q) : st[q[j]] = "queued"}

\* The first of them.
NextQueued(q, st, i) == CHOOSE j \in Ahead(q, st, i) : \A k \in Ahead(q, st, i) : j <= k

\* The walk that stands at i runs up to the next upload or to its end; st and
\* wk are the statuses and the walks it starts from.  The flag is lowered at
\* the end, and is as given while the walk waits.
WalkFrom(q, st, wk, rq, i, settled, flag) ==
    IF Ahead(q, st, i) = {}
    THEN /\ status' = st
         /\ walk' = wk
         /\ requests' = rq
         /\ processing' = FALSE
         /\ listed' = IF settled THEN stored' ELSE listed
    ELSE LET j == NextQueued(q, st, i) IN
         /\ status' = [st EXCEPT ![q[j]] = "uploading"]
         /\ walk' = [wk EXCEPT ![q[j]] = [at |-> j + 1, settled |-> settled]]
         /\ requests' = [rq EXCEPT ![q[j]] = @ + 1]
         /\ processing' = flag
         /\ UNCHANGED listed

\* Mutant of Process: a retry leaves a walk that is under way to it.
ProcessUnlessWalking(q, st) ==
    IF processing THEN status' = st /\ UNCHANGED <<walk, requests, processing, listed>>
    ELSE WalkFrom(q, st, walk, requests, 1, FALSE, TRUE)

\* process()
Process(q, st) == WalkFrom(q, st, walk, requests, 1, FALSE, TRUE)

\* enqueue: a walk is started unless the flag is up.  When one of several walks
\* has lowered it, the others go on beside the new one.
Enqueue(e) ==
    /\ status[e] = "unpicked"
    /\ \A d \in Entries : d < e => status[d] # "unpicked"
    /\ queue' = Append(queue, e)
    /\ LET st == [status EXCEPT ![e] = "queued"] IN
       IF processing
       THEN status' = st /\ UNCHANGED <<walk, requests, processing, listed>>
       ELSE Process(queue', st)
    /\ UNCHANGED <<clicks, stored, cleared>>

\* Mutant of Settle: only the last upload of a walk counts.
SettleLast(e, st, success) ==
    /\ stored' = IF success THEN stored \cup {e} ELSE stored
    /\ WalkFrom(queue, st, [walk EXCEPT ![e] = NULL], [requests EXCEPT ![e] = @ - 1],
                walk[e].at, st[e] = "done", processing)
    /\ UNCHANGED <<queue, clicks, cleared>>

\* The server stores the bytes, or it does not.
Settle(e, st, success) ==
    /\ stored' = IF success THEN stored \cup {e} ELSE stored
    /\ WalkFrom(queue, st, [walk EXCEPT ![e] = NULL], [requests EXCEPT ![e] = @ - 1],
                walk[e].at, walk[e].settled \/ st[e] = "done", processing)
    /\ UNCHANGED <<queue, clicks, cleared>>

\* onload, onerror and onabort.  Bytes may be stored although the answer is lost.
Outcome(e, s) ==
    IF status[e] = "canceled" THEN s = "canceled" ELSE s \in {"done", "error"}

Settled(e) ==
    /\ walk[e] # NULL
    /\ \E s \in {"done", "error", "canceled"}, success \in BOOLEAN :
        /\ Outcome(e, s)
        /\ s = "done" => success
        /\ Settle(e, [status EXCEPT ![e] = s], success)

-----------------------------------------------------------------------------
(* Clicks *)

Click ==
    /\ clicks < MaxClicks
    /\ clicks' = clicks + 1
    /\ UNCHANGED stored

Shown == ToSet(queue)

\* Mutant of MayRetry: whatever is shown.
MayRetryAny(e) == e \in Shown /\ status[e] \in {"error", "uploading"}

\* Only a failed entry has the button, and retry looks again.
MayRetry(e) == e \in Shown /\ status[e] = "error"

Requeued(es) == [e \in Entries |-> IF e \in es THEN "queued" ELSE status[e]]

Retry(e) ==
    /\ MayRetry(e)
    /\ Click
    /\ Process(queue, Requeued({e}))
    /\ UNCHANGED <<queue, cleared>>

RetryFailed ==
    LET failed == {e \in Shown : status[e] = "error"} IN
    /\ failed # {}
    /\ Click
    /\ Process(queue, Requeued(failed))
    /\ UNCHANGED <<queue, cleared>>

Canceled(es) == [e \in Entries |-> IF e \in es THEN "canceled" ELSE status[e]]

\* The request is aborted; its walk goes on when it hears of it.
Cancel(es) ==
    /\ es # {}
    /\ Click
    /\ status' = Canceled(es)
    /\ UNCHANGED <<queue, walk, requests, processing, listed, cleared>>

Active == {e \in Shown : status[e] \in {"queued", "uploading"}}

CancelOne == \E e \in Active : Cancel({e})

CancelAll == Cancel(Active)

\* "Close uploads" and "Clear" empty the array; walks are left where they are.
ClearQueue ==
    /\ queue # <<>>
    /\ Click
    /\ queue' = <<>>
    /\ cleared' = (cleared \/ \E e \in Entries : walk[e] # NULL)
    /\ UNCHANGED <<status, walk, requests, processing, listed>>

Next ==
    \/ \E e \in Entries : Enqueue(e) \/ Settled(e) \/ Retry(e)
    \/ RetryFailed \/ CancelOne \/ CancelAll \/ ClearQueue

Spec == Init /\ [][Next]_vars

\* A request that is sent ends: it is answered, it fails, or it is aborted.
FairSpec == Spec /\ \A e \in Entries : WF_vars(Settled(e))

-----------------------------------------------------------------------------
(* Properties *)

\* An entry is sent by at most one walk at a time, although every retry starts
\* a walk next to the ones under way.
SentOnce == \A e \in Entries : requests[e] <= 1

\* Unless the panel was closed during an upload, an entry that waits gets its
\* turn: it is sent, or the user cancels it or clears it away.
WaitingIsSent ==
    \A e \in Entries : (status[e] = "queued" /\ ~cleared)
                            ~> (status[e] # "queued" \/ cleared)

\* What was uploaded shows up: once its walk is over, the list of the page has
\* been refreshed after the upload.
UploadedIsListed ==
    \A e \in Entries : (status[e] = "done" /\ ~cleared) ~> (e \in listed \/ cleared)

=============================================================================
