---------------------------- MODULE CloudRequests ----------------------------
(***************************************************************************)
(* Requests to the services that keep their state in the index             *)
(* (functions/cloud/index-store.js): what a handler is, how a call to the  *)
(* index ends, and what is remembered about a run.                         *)
(*                                                                         *)
(* The index is a map with get, put and delete per key.  A call can fail,  *)
(* and a write that fails may have taken effect.                           *)
(***************************************************************************)
EXTENDS Naturals

CONSTANTS
    Procs,       \* handlers
    NULL,        \* an absent index entry
    MaxRequests, \* bound: requests that are begun
    MaxFaults    \* bound: failed calls and evicted handlers

ASSUME RequestsAssumption == MaxRequests \in Nat /\ MaxFaults \in Nat

VARIABLES
    proc,        \* what each handler is about to do, and its local variables
    requests,    \* requests begun so far
    faults,      \* failures so far
    overlapped,  \* history: two requests were under way at once
    lateEffect   \* history: a write took effect although its caller saw it fail

requestVars == <<proc, requests, faults, overlapped, lateEffect>>

Idle == [pc |-> "idle"]

Busy == {p \in Procs : proc[p] # Idle}

InitRequests ==
    /\ proc = [p \in Procs |-> Idle]
    /\ requests = 0
    /\ faults = 0
    /\ overlapped = FALSE
    /\ lateEffect = FALSE

\* A request has read what it needs and goes on as h.
Begin(p, h) ==
    /\ proc[p] = Idle
    /\ requests < MaxRequests
    /\ requests' = requests + 1
    /\ proc' = [proc EXCEPT ![p] = h]
    /\ overlapped' = (overlapped \/ Busy # {})
    /\ UNCHANGED <<faults, lateEffect>>

GoTo(p, pc) == proc' = [proc EXCEPT ![p].pc = pc]

Finish(p) == proc' = [proc EXCEPT ![p] = Idle]

Fails == faults < MaxFaults /\ faults' = faults + 1

\* A write: done, failed without effect, or failed although it took effect.
Write(effect, none, done, failed) ==
    /\ UNCHANGED <<requests, overlapped>>
    /\ \/ effect /\ done /\ UNCHANGED <<faults, lateEffect>>
       \/ Fails /\ none /\ failed /\ UNCHANGED lateEffect
       \/ Fails /\ effect /\ failed /\ lateEffect' = TRUE

\* A read, or a write whose failure nobody looks at.
Read(done, failed) ==
    /\ UNCHANGED <<requests, overlapped, lateEffect>>
    /\ \/ done /\ UNCHANGED faults
       \/ Fails /\ failed

\* The isolate is gone, and the handler with it.
Evict(p) ==
    /\ proc[p] # Idle
    /\ Fails
    /\ Finish(p)
    /\ UNCHANGED <<requests, overlapped, lateEffect>>

=============================================================================
