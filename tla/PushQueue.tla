----------------------------- MODULE PushQueue -----------------------------
(***************************************************************************)
(* The workspace's sequential upload queue: js/push-queue.js.              *)
(*                                                                         *)
(* One loop uploads one file after the other and awaits three things: the  *)
(* upload, the backoff before a retry, and the gap between two files.  The *)
(* page calls into the queue at any of them, and also between the moment a *)
(* sleep is over and the moment the loop runs on, because waking only      *)
(* resolves a promise.  Workspace is the page, with the calls it makes.     *)
(*                                                                         *)
(* Abstractions: durations, progress, throughput and the estimate are left *)
(* out; an upload settles in one of the three ways the loop tells apart.   *)
(***************************************************************************)
EXTENDS Integers, SequencesExt

CONSTANTS
    Files,      \* ids of staged files
    MaxRetries, \* config.maxRetries
    MaxCalls    \* bound: calls from the page

ASSUME FilesAssumption == IsFiniteSet(Files)
ASSUME RetriesAssumption == MaxRetries \in Nat
ASSUME CallsAssumption == MaxCalls \in Nat

VARIABLES
    entries,         \* the queue, in insertion order: id, state and attempt of each
    phase,           \* idle, uploading, waiting, retrying, paused, done or cancelled
    running,         \* the loop runs
    pauseRequested,
    cancelRequested,
    at,              \* what the loop awaits; backoffOver and gapOver: the sleep is
                     \* over and the loop has not run on yet
    current,         \* position of the entry the loop works on
    online,          \* navigator.onLine
    calls            \* calls from the page so far

flags == <<running, pauseRequested, cancelRequested>>
vars == <<entries, phase, flags, at, current, online, calls>>

MakeEntry(f) == [id |-> f, state |-> "queued", attempt |-> 0]

-----------------------------------------------------------------------------
(* The loop *)

AnyQueued(es) == \E i \in DOMAIN es : es[i].state = "queued"

\* nextQueued
NextQueued(es) == CHOOSE i \in DOMAIN es :
    /\ es[i].state = "queued"
    /\ \A j \in 1 .. i - 1 : es[j].state # "queued"

CancelWaiting(es) == [i \in DOMAIN es |->
    IF es[i].state \in {"queued", "retrying"} THEN [es[i] EXCEPT !.state = "cancelled"] ELSE es[i]]

\* The end of the loop, with the phase it has reached.
Leave(es, ph, cancel, pause) ==
    /\ entries' = IF cancel THEN CancelWaiting(es) ELSE es
    /\ phase' = IF cancel THEN "cancelled"
                ELSE IF ~AnyQueued(es) /\ ~pause THEN "done" ELSE ph
    /\ running' = FALSE
    /\ pauseRequested' = pause
    /\ at' = "nothing"
    /\ current' = 0

Begun(e) == [id |-> e.id, state |-> "uploading", attempt |-> e.attempt + 1]

\* The loop's next turn: it stops, or begins the upload of the next queued entry.
Turn(es, cancel, pause) ==
    \/ cancel /\ Leave(es, phase, TRUE, pause)
    \/ ~cancel /\ (pause \/ ~online) /\ Leave(es, "paused", FALSE, TRUE)
    \/ ~cancel /\ ~pause /\ online /\ ~AnyQueued(es) /\ Leave(es, phase, FALSE, FALSE)
    \/ /\ ~cancel
       /\ ~pause
       /\ online
       /\ AnyQueued(es)
       /\ LET i == NextQueued(es) IN
          /\ entries' = [es EXCEPT ![i] = Begun(es[i])]
          /\ current' = i
       /\ phase' = "uploading"
       /\ running' = TRUE
       /\ pauseRequested' = FALSE
       /\ at' = "upload"

With(state) == [entries EXCEPT ![current].state = state]

\* Mutant of AfterFile: the next file is only looked for behind this one.
AfterFileBehind(es) ==
    IF ~cancelRequested /\ ~pauseRequested /\ \A i \in current + 1 .. Len(es) : es[i].state # "queued"
    THEN Leave(es, phase, FALSE, FALSE)
    ELSE /\ ~cancelRequested /\ ~pauseRequested
         /\ entries' = es
         /\ phase' = "waiting"
         /\ at' = "gap"
         /\ current' = 0
         /\ UNCHANGED <<running, pauseRequested>>

\* The loop after a file is done with: a gap if there is another one.
AfterFile(es) ==
    \/ cancelRequested /\ Leave(es, phase, TRUE, pauseRequested)
    \/ ~cancelRequested /\ pauseRequested /\ Leave(es, "paused", FALSE, TRUE)
    \/ /\ ~cancelRequested
       /\ ~pauseRequested
       /\ AnyQueued(es)
       /\ entries' = es
       /\ phase' = "waiting"
       /\ at' = "gap"
       /\ current' = 0
       /\ UNCHANGED <<running, pauseRequested>>
    \/ ~cancelRequested /\ ~pauseRequested /\ ~AnyQueued(es) /\ Turn(es, FALSE, FALSE)

CanRetry == entries[current].attempt <= MaxRetries /\ ~cancelRequested

\* The upload settles: it succeeds, it fails for good or with no retry left, or
\* it fails for now.
UploadSettles ==
    /\ at = "upload"
    /\ \/ AfterFile(With("synced"))
       \/ AfterFile(With("failed"))
       \/ /\ CanRetry
          /\ entries' = With("retrying")
          /\ phase' = "retrying"
          /\ at' = "backoff"
          /\ UNCHANGED <<running, pauseRequested, current>>
    /\ UNCHANGED <<cancelRequested, online, calls>>

SleepEnds ==
    /\ \/ at = "backoff" /\ at' = "backoffOver"
       \/ at = "gap" /\ at' = "gapOver"
    /\ UNCHANGED <<entries, phase, flags, current, online, calls>>

\* Mutant of AfterBackoff: a paused loop stops before its entry is queued again.
AfterBackoffParked ==
    /\ at = "backoffOver"
    /\ IF cancelRequested \/ pauseRequested
       THEN Leave(entries, "paused", cancelRequested, pauseRequested)
       ELSE Turn(With("queued"), FALSE, FALSE)
    /\ UNCHANGED <<cancelRequested, online, calls>>

AfterBackoff ==
    /\ at = "backoffOver"
    /\ IF cancelRequested
       THEN Leave(With("failed"), phase, TRUE, pauseRequested)
       ELSE Turn(With("queued"), FALSE, pauseRequested)
    /\ UNCHANGED <<cancelRequested, online, calls>>

AfterGap ==
    /\ at = "gapOver"
    /\ IF cancelRequested \/ pauseRequested
       THEN Leave(entries, "paused", cancelRequested, pauseRequested)
       ELSE Turn(entries, FALSE, FALSE)
    /\ UNCHANGED <<cancelRequested, online, calls>>

-----------------------------------------------------------------------------
(* Calls from the page *)

Init ==
    /\ entries = <<>>
    /\ phase = "idle"
    /\ running = FALSE
    /\ pauseRequested = FALSE
    /\ cancelRequested = FALSE
    /\ at = "nothing"
    /\ current = 0
    /\ online = TRUE
    /\ calls = 0

\* Mutant of Awake: the timer is cleared and the promise is not resolved.
AwakeLost == IF at \in {"backoff", "gap"} THEN "nothing" ELSE at

\* resumeSleep: a sleep that goes on is over.
Awake == CASE at = "backoff" -> "backoffOver"
           [] at = "gap" -> "gapOver"
           [] OTHER -> at

\* Files that are in the queue are queued again in their places, the others added
\* at the back, those of one call in some fixed order: nothing tells files apart.
Enqueued(es, fs) ==
    LET fresh == SetToSeq({f \in fs : \A i \in DOMAIN es : es[i].id # f})
        again == [i \in DOMAIN es |->
                    IF es[i].id \in fs /\ es[i].state \notin {"synced", "uploading"}
                    THEN MakeEntry(es[i].id) ELSE es[i]]
    IN again \o [i \in DOMAIN fresh |-> MakeEntry(fresh[i])]

\* Mutant of StartWith: the loop begins though one runs.
StartAgain(es, cancel, pause) ==
    /\ AnyQueued(es)
    /\ cancelRequested' = FALSE
    /\ Turn(es, FALSE, FALSE)

\* start() while the loop runs changes nothing; otherwise it begins the loop.
StartWith(es, cancel, pause) ==
    \/ /\ running
       /\ entries' = es
       /\ cancelRequested' = cancel
       /\ pauseRequested' = pause
       /\ UNCHANGED <<phase, running, at, current>>
    \/ /\ ~running
       /\ AnyQueued(es)
       /\ cancelRequested' = FALSE
       /\ Turn(es, FALSE, FALSE)
    \/ /\ ~running
       /\ ~AnyQueued(es)
       /\ entries' = es
       /\ phase' = IF es = <<>> THEN "idle" ELSE "done"
       /\ cancelRequested' = cancel
       /\ pauseRequested' = pause
       /\ UNCHANGED <<running, at, current>>

Pause ==
    /\ phase \notin {"done", "cancelled"}
    /\ pauseRequested' = TRUE
    /\ at' = Awake
    /\ phase' = IF running THEN phase ELSE "paused"
    /\ UNCHANGED <<entries, running, cancelRequested, current, online>>

\* resume() is start() without the pause; a cancelled queue is not resumed.
Resume ==
    /\ phase # "cancelled"
    /\ StartWith(entries, cancelRequested, FALSE)
    /\ UNCHANGED online

Cancel ==
    /\ cancelRequested' = TRUE
    /\ pauseRequested' = FALSE
    /\ at' = Awake
    /\ entries' = IF running THEN entries ELSE CancelWaiting(entries)
    /\ phase' = IF running THEN phase ELSE "cancelled"
    /\ UNCHANGED <<running, current, online>>

\* What was tried in vain or cancelled is queued again.
Again(es) == [i \in DOMAIN es |->
    IF es[i].state \in {"failed", "cancelled"} THEN MakeEntry(es[i].id) ELSE es[i]]

Reset ==
    /\ ~running
    /\ entries' = <<>>
    /\ phase' = "idle"
    /\ pauseRequested' = FALSE
    /\ cancelRequested' = FALSE
    /\ current' = 0
    /\ UNCHANGED <<running, at, online>>

Network == online' = ~online /\ UNCHANGED <<entries, phase, flags, at, current, calls>>

(***************************************************************************)
(* Properties                                                              *)
(***************************************************************************)

\* "The workspace uploads one staged file at a time, on purpose": however start,
\* resume and retry are clicked, one loop runs and one file is being uploaded.
OneFileAtATime ==
    /\ Cardinality({i \in DOMAIN entries : entries[i].state = "uploading"}) <= 1
    /\ \A i, j \in DOMAIN entries : entries[i].id = entries[j].id => i = j

\* Every run of the loop ends, whatever fails, once the page makes no more calls:
\* retries are bounded, no sleep is waited for in vain, and the loop stops with
\* nothing queued unless it was paused or lost its connection.
RunsFinish == running ~> ~running /\ (pauseRequested \/ ~AnyQueued(entries))
=============================================================================
