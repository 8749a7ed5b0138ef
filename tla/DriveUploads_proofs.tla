------------------------- MODULE DriveUploads_proofs -------------------------
(***************************************************************************)
(* Proofs about DriveUploads, for any files and any number of clicks.      *)
(***************************************************************************)
EXTENDS DriveUploads, WellFoundedInduction, TLAPS

States == {"unpicked", "queued", "uploading", "done", "error", "canceled"}

Walks == [at : Nat \ {0}, settled : BOOLEAN] \cup {NULL}

TypesOK ==
    /\ queue \in Seq(Entries)
    /\ status \in [Entries -> States]
    /\ walk \in [Entries -> Walks]
    /\ requests \in [Entries -> Nat]

\* An upload is under way for exactly the entries that a walk waits for, and nobody
\* waits for one that is still to be sent.
WalkOK(st, wk, rq, e) ==
    /\ rq[e] = (IF wk[e] = NULL THEN 0 ELSE 1)
    /\ wk[e] # NULL => st[e] \in {"uploading", "canceled"}

Typed == TypesOK /\ \A e \in Entries : WalkOK(status, walk, requests, e)

-----------------------------------------------------------------------------

\* The CHOOSE of NextQueued has an answer whenever an entry is queued.
LEMMA FirstOfSome ==
  ASSUME NEW S, S \subseteq Nat, S # {}
  PROVE  \E j \in S : \A k \in S : j <= k
  <1> DEFINE R == {ss \in Nat \X Nat : ss[1] < ss[2]}
  <1>1. IsWellFoundedOn(R, Nat)
    BY NatLessThanWellFounded DEF OpToRel
  <1>2. PICK j \in S : \A k \in S : ~(<<k, j>> \in R)
    BY <1>1, WFMin
  <1>3. \A k \in S : k \in Nat /\ j \in Nat /\ <<k, j>> \in Nat \X Nat
    OBVIOUS
  <1>4. \A k \in S : ~(k < j)
    BY <1>2, <1>3
  <1> QED BY <1>3, <1>4

LEMMA NextIsQueued ==
  ASSUME NEW q \in Seq(Entries), NEW st, NEW i \in Nat \ {0}, Ahead(q, st, i) # {}
  PROVE  /\ NextQueued(q, st, i) \in Nat \ {0}
         /\ q[NextQueued(q, st, i)] \in Entries
         /\ st[q[NextQueued(q, st, i)]] = "queued"
  <1>1. Ahead(q, st, i) \subseteq Nat
    BY DEF Ahead
  <1>2. \E j \in Ahead(q, st, i) : \A k \in Ahead(q, st, i) : j <= k
    BY <1>1, FirstOfSome
  <1>3. NextQueued(q, st, i) \in Ahead(q, st, i)
    BY <1>2 DEF NextQueued
  <1> QED BY <1>3 DEF Ahead

\* A walk that goes on from statuses and walks that agree leaves such ones.
LEMMA WalkKeeps ==
  ASSUME NEW q \in Seq(Entries), NEW st \in [Entries -> States], NEW wk \in [Entries -> Walks],
         NEW rq \in [Entries -> Nat], NEW i \in Nat \ {0}, NEW settled \in BOOLEAN, NEW flag,
         \A e \in Entries : WalkOK(st, wk, rq, e),
         queue' = q,
         WalkFrom(q, st, wk, rq, i, settled, flag)
  PROVE  Typed'
  <1>1. CASE Ahead(q, st, i) = {}
    BY <1>1 DEF WalkFrom, Typed, TypesOK, WalkOK
  <1>2. CASE Ahead(q, st, i) # {}
    <2> DEFINE j == NextQueued(q, st, i)
               e == q[j]
               w == [at |-> j + 1, settled |-> settled]
    <2>1. j \in Nat \ {0} /\ e \in Entries /\ st[e] = "queued"
      BY <1>2, NextIsQueued
    <2>2. w \in Walks /\ w # NULL
      BY <2>1, UploadsAssumption DEF Walks
    <2>3. rq[e] = 0
      BY <2>1 DEF WalkOK
    <2>4. status' = [st EXCEPT ![e] = "uploading"] /\ walk' = [wk EXCEPT ![e] = w]
          /\ requests' = [rq EXCEPT ![e] = rq[e] + 1]
      BY <1>2 DEF WalkFrom
    <2> HIDE DEF j, w
    <2>5. TypesOK'
      BY <2>1, <2>2, <2>3, <2>4 DEF TypesOK, States
    <2>6. ASSUME NEW d \in Entries PROVE WalkOK(status, walk, requests, d)'
      BY <2>1, <2>2, <2>3, <2>4 DEF WalkOK
    <2> QED BY <2>5, <2>6 DEF Typed
  <1> QED BY <1>1, <1>2

LEMMA TypedInit ==
  ASSUME Init
  PROVE  Typed
  BY DEF Init, NoWalks, Typed, TypesOK, WalkOK, States, Walks

LEMMA TypedNext ==
  ASSUME Typed, [Next]_vars
  PROVE  Typed'
  <1>1. ASSUME NEW e \in Entries, Enqueue(e) PROVE Typed'
    <2> DEFINE st == [status EXCEPT ![e] = "queued"]
    <2>1. st \in [Entries -> States] /\ queue' \in Seq(Entries)
      BY <1>1 DEF Enqueue, Typed, TypesOK, States
    <2>2. \A d \in Entries : WalkOK(st, walk, requests, d)
      BY <1>1 DEF Enqueue, Typed, TypesOK, WalkOK
    <2>3. CASE processing
      BY <1>1, <2>1, <2>2, <2>3 DEF Enqueue, Typed, TypesOK
    <2>4. CASE ~processing
      <3>1. WalkFrom(queue', st, walk, requests, 1, FALSE, TRUE)
        BY <1>1, <2>4 DEF Enqueue, Process
      <3> HIDE DEF st
      <3>2. PICK q \in Seq(Entries) : q = queue'
        BY <2>1
      <3>3. PICK i \in Nat \ {0} : i = 1
        OBVIOUS
      <3>4. WalkFrom(q, st, walk, requests, i, FALSE, TRUE)
        BY <3>1, <3>2, <3>3
      <3>5. walk \in [Entries -> Walks] /\ requests \in [Entries -> Nat]
        BY DEF Typed, TypesOK
      <3> QED BY <2>1, <2>2, <3>2, <3>4, <3>5, WalkKeeps
    <2> QED BY <2>3, <2>4
  <1>2. ASSUME NEW e \in Entries, Settled(e) PROVE Typed'
    <2>1. PICK s \in {"done", "error", "canceled"}, success \in BOOLEAN :
            Settle(e, [status EXCEPT ![e] = s], success) /\ walk[e] # NULL
      BY <1>2 DEF Settled
    <2> DEFINE st == [status EXCEPT ![e] = s]
               wk == [walk EXCEPT ![e] = NULL]
               rq == [requests EXCEPT ![e] = @ - 1]
    <2>2. requests[e] = 1 /\ walk[e] \in [at : Nat \ {0}, settled : BOOLEAN]
      BY <2>1 DEF Typed, TypesOK, WalkOK, Walks
    <2>3. st \in [Entries -> States] /\ wk \in [Entries -> Walks] /\ rq \in [Entries -> Nat]
      BY <2>2 DEF Typed, TypesOK, States, Walks
    <2>4. \A d \in Entries : WalkOK(st, wk, rq, d)
      BY <2>2 DEF Typed, TypesOK, WalkOK
    <2>5. WalkFrom(queue, st, wk, rq, walk[e].at, walk[e].settled \/ st[e] = "done", processing)
          /\ queue' = queue
      BY <2>1 DEF Settle
    <2>6. walk[e].at \in Nat \ {0} /\ (walk[e].settled \/ st[e] = "done") \in BOOLEAN
      BY <2>2
    <2> HIDE DEF st, wk, rq
    <2> QED BY <2>3, <2>4, <2>5, <2>6, WalkKeeps DEF Typed, TypesOK
  <1>3. ASSUME NEW es \in SUBSET Entries, \A e \in es : status[e] = "error",
               Process(queue, Requeued(es)), UNCHANGED queue
        PROVE  Typed'
    <2>1. Requeued(es) \in [Entries -> States]
      BY DEF Requeued, Typed, TypesOK, States
    <2>2. \A d \in Entries : WalkOK(Requeued(es), walk, requests, d)
      BY <1>3 DEF Requeued, Typed, TypesOK, WalkOK
    <2>3. PICK i \in Nat \ {0} : i = 1
      OBVIOUS
    <2>4. PICK st : st = Requeued(es)
      OBVIOUS
    <2>5. WalkFrom(queue, st, walk, requests, i, FALSE, TRUE)
      BY <1>3, <2>3, <2>4 DEF Process
    <2>6. queue \in Seq(Entries) /\ walk \in [Entries -> Walks] /\ requests \in [Entries -> Nat]
      BY DEF Typed, TypesOK
    <2> QED BY <1>3, <2>1, <2>2, <2>4, <2>5, <2>6, WalkKeeps
  <1>4. ASSUME NEW e \in Entries, Retry(e) PROVE Typed'
    BY <1>3, <1>4 DEF Retry, MayRetry
  <1>5. CASE RetryFailed
    <2>1. Shown \subseteq Entries
      BY DEF Shown, ToSet, Typed, TypesOK
    <2>2. {e \in Shown : status[e] = "error"} \in SUBSET Entries
      BY <2>1
    <2> QED BY <1>3, <1>5, <2>2 DEF RetryFailed
  <1>6. ASSUME NEW es, es \subseteq Active, Cancel(es) PROVE Typed'
    <2>1. \A d \in Entries : WalkOK(Canceled(es), walk, requests, d)
      BY DEF Typed, TypesOK, WalkOK, Canceled
    <2>2. Canceled(es) \in [Entries -> States]
      BY DEF Typed, TypesOK, Canceled, States
    <2> QED BY <1>6, <2>1, <2>2 DEF Cancel, Typed, TypesOK
  <1>7. CASE ClearQueue
    BY <1>7 DEF ClearQueue, Typed, TypesOK, WalkOK
  <1>8. CASE UNCHANGED vars
    BY <1>8 DEF vars, Typed, TypesOK, WalkOK
  <1> QED BY <1>1, <1>2, <1>4, <1>5, <1>6, <1>7, <1>8 DEF Next, CancelOne, CancelAll

\* However many walks the retries have started, each entry is sent by at most one of
\* them at a time.
THEOREM SentOnceHolds == Spec => []SentOnce
  <1>1. Typed => SentOnce
    BY DEF Typed, TypesOK, WalkOK, SentOnce
  <1> QED BY <1>1, TypedInit, TypedNext, PTL DEF Spec

=============================================================================
