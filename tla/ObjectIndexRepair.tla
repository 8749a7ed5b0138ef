------------------------- MODULE ObjectIndexRepair -------------------------
(***************************************************************************)
(* The operator's repair of the list index,                                *)
(* functions/cloud/object-index-repair.js, beside the object engine whose  *)
(* manifests it reads and whose leaves it writes.                          *)
(*                                                                         *)
(* A scan is a chain of requests, one page of manifests each.  A request   *)
(* reads each manifest of its page, looks at its leaf and, in apply mode,  *)
(* puts or removes the leaf by the manifest it read.  What goes on between *)
(* requests is the checkpoint the operator holds; a request that fails     *)
(* gives none, so its page is done again.                                  *)
(*                                                                         *)
(* Abstractions: one bucket; a checkpoint stands for its encrypted token,  *)
(* which cannot be forged; records are never malformed; KV lists keys in   *)
(* the order of their hashes, which is that of Objects.                    *)
(***************************************************************************)
EXTENDS ObjectStorage, FiniteSetsExt

CONSTANT BatchSize \* manifests in a page

ASSUME BatchAssumption == BatchSize \in Nat \ {0}
ASSUME StartAssumption == 0 \notin Objects

VARIABLES
    scan,       \* the request that runs: what it does next, its page and what it read
    checkpoint, \* the continuation the operator holds, or NULL
    finished,   \* mode of the last scan, if it is complete
    quiet       \* has the engine left manifests and leaves alone since the scan began?

repair == <<scan, checkpoint, finished, quiet>>
allVars == <<vars, repair>>

Modes == {"dry_run", "apply"}

ASSUME ModeAssumption == NULL \notin Modes

Start == 0 \* the cursor of a scan's first page

NoScan == [pc |-> "idle", mode |-> NULL, cursor |-> Start, page |-> {}, last |-> FALSE,
           read |-> NULL]

-----------------------------------------------------------------------------

InitRepair ==
    /\ Init
    /\ scan = NoScan
    /\ checkpoint = NULL
    /\ finished = NULL
    /\ quiet = FALSE

\* A request with a mode starts a new scan; what an older one left is dropped.
StartScan(mode) ==
    /\ scan = NoScan
    /\ scan' = [NoScan EXCEPT !.pc = "list", !.mode = mode]
    /\ checkpoint' = NULL
    /\ finished' = NULL
    /\ quiet' = TRUE
    /\ UNCHANGED vars

\* Mutant of ResumeScan: the entry after the cursor is taken for done.
ResumePastNext ==
    /\ scan = NoScan
    /\ checkpoint # NULL
    /\ scan' = [NoScan EXCEPT !.pc = "list", !.mode = checkpoint.mode,
                              !.cursor = checkpoint.cursor + 1]
    /\ UNCHANGED <<vars, checkpoint, finished, quiet>>

\* A request with a checkpoint goes on after its page, any number of times.
ResumeScan ==
    /\ scan = NoScan
    /\ checkpoint # NULL
    /\ scan' = [NoScan EXCEPT !.pc = "list", !.mode = checkpoint.mode,
                              !.cursor = checkpoint.cursor]
    /\ UNCHANGED <<vars, checkpoint, finished, quiet>>

\* The request of scan s with the entries left in its page: the next one is read,
\* or the request ends, with a checkpoint unless the listing was complete.
Continue(s, left) ==
    IF left # {}
    THEN /\ scan' = [s EXCEPT !.pc = "read", !.page = left, !.read = NULL]
         /\ UNCHANGED <<checkpoint, finished>>
    ELSE /\ scan' = NoScan
         /\ checkpoint' = IF s.last THEN NULL ELSE [mode |-> s.mode, cursor |-> s.cursor]
         /\ finished' = IF s.last THEN s.mode ELSE finished

\* listManifestPage
ListPage ==
    LET after == {o \in Objects : manifest[o] # NULL /\ o > scan.cursor}
        page == {o \in after : Cardinality({x \in after : x < o}) < BatchSize}
    IN
    /\ scan.pc = "list"
    /\ Continue([scan EXCEPT !.last = page = after,
                             !.cursor = IF page = {} THEN scan.cursor ELSE Max(page)], page)
    /\ UNCHANGED <<vars, quiet>>

\* readAuthoritativeManifest
ReadEntry ==
    /\ scan.pc = "read"
    /\ scan' = [scan EXCEPT !.pc = "inspect", !.read = manifest[Min(scan.page)]]
    /\ UNCHANGED <<vars, checkpoint, finished, quiet>>

NextEntry == Continue(scan, scan.page \ {scan.read.obj})

Correct(m) == (m.obj \in leaves) = Active(m)

\* inspectManifest, and the entries for which nothing is to do.
InspectEntry ==
    /\ scan.pc = "inspect"
    /\ \/ /\ Correct(scan.read) \/ scan.mode = "dry_run"
          /\ NextEntry
       \/ /\ ~Correct(scan.read)
          /\ scan.mode = "apply"
          /\ scan' = [scan EXCEPT !.pc = "materialize"]
          /\ UNCHANGED <<checkpoint, finished>>
    /\ UNCHANGED <<vars, quiet>>

\* materialize, by the manifest that was read.
MaterializeEntry ==
    /\ scan.pc = "materialize"
    /\ leaves' = IF Active(scan.read) THEN leaves \cup {scan.read.obj}
                                      ELSE leaves \ {scan.read.obj}
    /\ NextEntry
    /\ UNCHANGED <<telegram, revisions, manifest, bucket, outbox, proc, answers, faults, quiet>>

\* A call of the request fails: 503, and the operator keeps the older checkpoint.
FailScan ==
    /\ scan # NoScan
    /\ faults < MaxFaults
    /\ faults' = faults + 1
    /\ scan' = NoScan
    /\ UNCHANGED <<telegram, kv, proc, answers, checkpoint, finished, quiet>>

-----------------------------------------------------------------------------

Engine == /\ Next
          /\ quiet' = (quiet /\ manifest' = manifest /\ leaves' = leaves)
          /\ UNCHANGED <<scan, checkpoint, finished>>

Repair == \/ \E mode \in Modes : StartScan(mode)
          \/ ResumeScan
          \/ ListPage \/ ReadEntry \/ InspectEntry \/ MaterializeEntry
          \/ FailScan

NextRepair == Engine \/ Repair

SpecRepair == InitRepair /\ [][NextRepair]_allVars

(***************************************************************************)
(* Properties                                                              *)
(***************************************************************************)

\* "active missing/stale paths or deleted retained-terminal-leaf counts should be zero
\* absent concurrent mutations": once an apply scan that no mutation disturbed is
\* complete, in however many requests, failures and repeats, each leaf agrees with
\* its manifest.
RepairRestores ==
    finished = "apply" /\ quiet =>
        \A o \in Objects : manifest[o] # NULL => (o \in leaves) = (manifest[o].state = "active")
=============================================================================
