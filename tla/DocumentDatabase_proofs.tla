---------------------- MODULE DocumentDatabase_proofs ----------------------
(***************************************************************************)
(* Proofs about DocumentDatabase, for every number of handlers, keys and   *)
(* records.  The first four theorems hold whatever calls overlap, the      *)
(* fifth one unless a key is repeated while a handler of it runs, and the  *)
(* last three for handlers that run one after the other.                   *)
(***************************************************************************)
EXTENDS MCDocumentDatabase, TLAPS

\* What a handler's program point says about the rest of its state.
HandlerOK(h) ==
    /\ h.pc = "idle" => h = Idle
    /\ h.pc # "idle" => h.key \in Keys /\ h.req \in Request
    /\ h.pc \in PreIntent => h.rev = NULL
    /\ h.pc = "allocate" => h.req.op = "create"
    /\ h.pc = "readCurrent" => h.req.op # "create" /\ h.req.expected < MaxVersion
    /\ h.pc \in PreJournal \cup PostJournal => h.rev \in Revision

Shape == \A p \in Procs : HandlerOK(proc[p])

Typed == TypeOK /\ Shape

-----------------------------------------------------------------------------
(* Steps of a handler *)

Active == PreJournal \cup PostJournal

LEMMA IdleOK == Idle \in Handler /\ HandlerOK(Idle)
  BY NullAssumption DEF Idle, Handler, HandlerOK, Attempts, PreIntent, PreJournal, PostJournal

LEMMA SetHandler ==
  ASSUME Typed, NEW p \in Procs, NEW h \in Handler, HandlerOK(h),
         proc' = [proc EXCEPT ![p] = h]
  PROVE  proc' \in [Procs -> Handler] /\ Shape'
  <1>1. proc' \in [Procs -> Handler]
    BY DEF Typed, TypeOK
  <1>2. ASSUME NEW q \in Procs PROVE HandlerOK(proc'[q])
    BY DEF Typed, TypeOK, Shape
  <1> QED BY <1>1, <1>2 DEF Shape, HandlerOK

LEMMA MoveHandler ==
  ASSUME Typed, NEW p \in Procs, proc[p].pc \in Active, NEW pc \in Active, Move(p, pc)
  PROVE  proc' \in [Procs -> Handler] /\ Shape'
  <1> DEFINE h == [proc[p] EXCEPT !.pc = pc]
  <1>1. proc[p] \in Handler /\ HandlerOK(proc[p])
    BY DEF Typed, TypeOK, Shape
  <1>2. h \in Handler
    BY <1>1 DEF Handler, Active
  <1>3. HandlerOK(h)
    BY <1>1, <1>2 DEF Handler, Active, HandlerOK, PreIntent, PreJournal, PostJournal
  <1>4. proc' = [proc EXCEPT ![p] = h]
    BY DEF Move
  <1> HIDE DEF h
  <1> QED BY <1>2, <1>3, <1>4, SetHandler

LEMMA RecordUpdates ==
  ASSUME NEW h \in Handler, HandlerOK(h), h.pc \in Active,
         NEW pc \in Active, NEW tries \in 0 .. Attempts, NEW cur \in Revision \cup {NULL}
  PROVE  /\ [h EXCEPT !.pc = pc, !.tries = tries] \in Handler
         /\ HandlerOK([h EXCEPT !.pc = pc, !.tries = tries])
         /\ [h EXCEPT !.cur = cur, !.tries = tries, !.pc = pc] \in Handler
         /\ HandlerOK([h EXCEPT !.cur = cur, !.tries = tries, !.pc = pc])
  <1> DEFINE g == [h EXCEPT !.pc = pc, !.tries = tries]
             f == [h EXCEPT !.cur = cur, !.tries = tries, !.pc = pc]
  <1>1. g \in Handler /\ f \in Handler
    BY DEF Handler, Active
  <1>2. /\ g.pc = pc /\ g.key = h.key /\ g.req = h.req /\ g.rev = h.rev
        /\ f.pc = pc /\ f.key = h.key /\ f.req = h.req /\ f.rev = h.rev
    BY DEF Handler
  <1> HIDE DEF f, g
  <1>3. HandlerOK(g) /\ HandlerOK(f)
    BY <1>2 DEF HandlerOK, Active, PreIntent, PreJournal, PostJournal
  <1> QED BY <1>1, <1>3 DEF f, g

LEMMA AttemptsType == 0 \in 0 .. Attempts /\ \A n \in 0 .. Attempts : n + 1 < Attempts => n + 1 \in 0 .. Attempts
  BY DEF Attempts

LEMMA StopHandler ==
  ASSUME Typed, NEW p \in Procs, proc' = [proc EXCEPT ![p] = Idle]
  PROVE  proc' \in [Procs -> Handler] /\ Shape'
  BY IdleOK, SetHandler

\* A handler that resumes its key's entry stands as the handler that wrote it did.
LEMMA ResumeHandler ==
  ASSUME Typed, NEW p \in Procs, NEW k \in Keys, outbox[k] # NULL, Resume(p, k, outbox[k])
  PROVE  proc' \in [Procs -> Handler] /\ Shape' /\ answers' \subseteq Answer
  <1> DEFINE entry == outbox[k]
             h == Resumed(k, entry)
  <1>1. entry \in Entry
    BY DEF Typed, TypeOK
  <1>2. CASE entry.status \in {"intent", "journaled"}
    <2>1. h \in Handler /\ HandlerOK(h)
      BY <1>1 DEF Resumed, ResumePoint, Entry, Handler, HandlerOK, Attempts,
                  PreIntent, PreJournal, PostJournal
    <2>2. proc' = [proc EXCEPT ![p] = h] /\ answers' = answers
      BY <1>2 DEF Resume
    <2> HIDE DEF h
    <2> QED BY <2>1, <2>2, SetHandler DEF Typed, TypeOK
  <1>3. CASE entry.status \in {"applied", "conflict"}
    <2>1. /\ proc' = [proc EXCEPT ![p] = Idle]
          /\ \E kind \in {"ok", "conflict"} : answers' = answers \cup {AnswerFor(k, entry, kind)}
      BY <1>3 DEF Resume
    <2>2. \A kind \in {"ok", "conflict"} : AnswerFor(k, entry, kind) \in Answer
      BY <1>1 DEF AnswerFor, Answer, Entry, Revision
    <2> QED BY <2>1, <2>2, StopHandler DEF Typed, TypeOK
  <1> QED BY <1>1, <1>2, <1>3 DEF Entry, Statuses

-----------------------------------------------------------------------------
(* Type correctness, action by action *)

LEMMA TypedStart ==
  ASSUME Typed, NEW p \in Procs, NEW k \in Keys, NEW req \in Request, StartMutation(p, k, req)
  PROVE  Typed'
  <1> DEFINE pc == IF req.op = "create" THEN "allocate" ELSE "readCurrent"
             h == [Idle EXCEPT !.pc = pc, !.key = k, !.req = req]
  <1>1. h \in Handler
    BY IdleOK DEF Handler, PreIntent
  <1>2. HandlerOK(h)
    <2>1. h.pc = pc /\ h.key = k /\ h.req = req /\ h.rev = NULL
      BY DEF Idle
    <2>2. pc = "readCurrent" => req.expected < MaxVersion
      BY DEF StartMutation, IdsLeft, Request
    <2> QED BY <2>1, <2>2 DEF HandlerOK, PreIntent, PreJournal, PostJournal
  <1>3. proc' = [proc EXCEPT ![p] = h]
    BY DEF StartMutation
  <1> HIDE DEF h
  <1>4. proc' \in [Procs -> Handler] /\ Shape'
    BY <1>1, <1>2, <1>3, SetHandler
  <1> QED BY <1>4 DEF StartMutation, kv, Typed, TypeOK

LEMMA TypedRetry ==
  ASSUME Typed, NEW p \in Procs, NEW k \in Keys, RetryMutation(p, k)
  PROVE  Typed'
  <1>1. proc' \in [Procs -> Handler] /\ Shape' /\ answers' \subseteq Answer
    BY ResumeHandler DEF RetryMutation
  <1> QED BY <1>1 DEF RetryMutation, kv, Typed, TypeOK

LEMMA TypedAllocate ==
  ASSUME Typed, NEW p \in Procs, AllocateRecord(p)
  PROVE  Typed'
  <1>1. proc[p] \in Handler /\ HandlerOK(proc[p])
    BY DEF Typed, TypeOK, Shape
  <1>2. PICK r \in FreshRecords, e \in FreshEvents :
          proc' = [proc EXCEPT ![p].pc = "recheck",
               ![p].rev = [event |-> e, rec |-> r, op |-> "create", version |-> 1,
                           parent |-> NoParent, val |-> proc[p].req.val]]
    BY DEF AllocateRecord
  <1> DEFINE rev == [event |-> e, rec |-> r, op |-> "create", version |-> 1,
                     parent |-> NoParent, val |-> proc[p].req.val]
             h == [proc[p] EXCEPT !.pc = "recheck", !.rev = rev]
  <1>3. rev \in Revision
    <2>1. proc[p].req \in Request /\ proc[p].req.op = "create"
      BY <1>1 DEF AllocateRecord, HandlerOK
    <2>2. proc[p].req.val \in Vals
      BY <2>1 DEF Request
    <2>3. r \in Records /\ e \in Events
      BY DEF FreshRecords, FreshEvents
    <2> QED BY <2>2, <2>3, BoundAssumption DEF Revision
  <1> HIDE DEF rev
  <1>4. h \in Handler /\ HandlerOK(h)
    BY <1>1, <1>3 DEF AllocateRecord, Handler, HandlerOK, PreIntent, PreJournal, PostJournal
  <1>5. proc' = [proc EXCEPT ![p] = h]
    BY <1>2 DEF rev
  <1> HIDE DEF h
  <1>6. proc' \in [Procs -> Handler] /\ Shape'
    BY <1>4, <1>5, SetHandler
  <1> QED BY <1>6 DEF AllocateRecord, kv, Typed, TypeOK

LEMMA TypedBuild ==
  ASSUME Typed, NEW p \in Procs, BuildChild(p)
  PROVE  Typed'
  <1> DEFINE req == proc[p].req
             cur == record[req.rec]
  <1>1. proc[p] \in Handler /\ HandlerOK(proc[p])
    BY DEF Typed, TypeOK, Shape
  <1>2. PICK e \in FreshEvents :
          proc' = [proc EXCEPT ![p].pc = "recheck", ![p].prev = Field(cur),
               ![p].rev = [event |-> e, rec |-> req.rec, op |-> req.op,
                           version |-> cur.version + 1, parent |-> cur.event,
                           val |-> IF req.op = "update" THEN req.val ELSE cur.val]]
    BY DEF BuildChild
  <1> DEFINE rev == [event |-> e, rec |-> req.rec, op |-> req.op,
                     version |-> cur.version + 1, parent |-> cur.event,
                     val |-> IF req.op = "update" THEN req.val ELSE cur.val]
             h == [proc[p] EXCEPT !.pc = "recheck", !.prev = Field(cur), !.rev = rev]
  <1>3. req \in Request /\ req.op # "create" /\ req.expected < MaxVersion
    BY <1>1 DEF BuildChild, HandlerOK
  <1>4. /\ req.rec \in Records
        /\ req.op \in {"update", "delete"}
        /\ req.op = "update" => req.val \in Vals
    BY <1>3 DEF Request
  <1>5. cur \in Revision /\ cur.version = req.expected
    BY <1>4 DEF Typed, TypeOK, BuildChild, Live
  <1>6. rev \in Revision
    <2>1. e \in Events
      BY DEF FreshEvents
    <2>2. cur.version + 1 \in 1 .. MaxVersion
      BY <1>3, <1>5, BoundAssumption DEF Revision
    <2>3. cur.event \in Events /\ cur.val \in Vals
      BY <1>5 DEF Revision
    <2> QED BY <1>4, <2>1, <2>2, <2>3 DEF Revision
  <1>7. Field(cur) \in Vals \cup {NULL}
    BY <1>5 DEF Field, Revision
  <1> HIDE DEF rev
  <1>8. h \in Handler /\ HandlerOK(h)
    BY <1>1, <1>6, <1>7 DEF BuildChild, Handler, HandlerOK, PreIntent, PreJournal, PostJournal
  <1>9. proc' = [proc EXCEPT ![p] = h]
    BY <1>2 DEF rev
  <1> HIDE DEF h
  <1>10. proc' \in [Procs -> Handler] /\ Shape'
    BY <1>8, <1>9, SetHandler
  <1> QED BY <1>10 DEF BuildChild, kv, Typed, TypeOK

LEMMA TypedReject ==
  ASSUME Typed, NEW p \in Procs, RejectMutation(p)
  PROVE  Typed'
  BY StopHandler DEF RejectMutation, kv, Typed, TypeOK

LEMMA TypedBegin ==
  ASSUME Typed, NEW p \in Procs, BeginMutation(p)
  PROVE  Typed'
  <1> DEFINE h == proc[p]
             found == outbox[h.key]
  <1>1. h \in Handler /\ HandlerOK(h) /\ h.pc \in Active /\ h.key \in Keys
    BY DEF Typed, TypeOK, Shape, BeginMutation, HandlerOK, Active, PreJournal
  <1>2. proc' \in [Procs -> Handler] /\ Shape' /\ answers' \subseteq Answer
    <2>1. CASE found = NULL /\ Move(p, "writeIntent") /\ UNCHANGED answers
      BY <1>1, <2>1, MoveHandler DEF Active, PreJournal, Typed, TypeOK
    <2>2. CASE found # NULL /\ found.req = h.req /\ Resume(p, h.key, found)
      BY <1>1, <2>2, ResumeHandler
    <2>3. CASE proc' = [proc EXCEPT ![p] = Idle] /\ UNCHANGED answers
      BY <2>3, StopHandler DEF Typed, TypeOK
    <2> QED BY <2>1, <2>2, <2>3 DEF BeginMutation
  <1> QED BY <1>2 DEF BeginMutation, kv, Typed, TypeOK

\* Every entry a handler writes has its type.
LEMMA EntryType ==
  ASSUME Typed, NEW p \in Procs, proc[p].pc \in Active, NEW status \in Statuses
  PROVE  /\ proc[p].key \in Keys
         /\ EntryOf(proc[p], status) \in Entry
         /\ [outbox EXCEPT ![proc[p].key] = EntryOf(proc[p], status)]
               \in [Keys -> Entry \cup {NULL}]
  <1>1. proc[p] \in Handler /\ HandlerOK(proc[p])
    BY DEF Typed, TypeOK, Shape
  <1>2. proc[p].key \in Keys /\ proc[p].req \in Request /\ proc[p].rev \in Revision
    BY <1>1 DEF HandlerOK, Active, PreJournal, PostJournal
  <1>3. EntryOf(proc[p], status) \in Entry
    BY <1>1, <1>2 DEF EntryOf, Entry, Handler
  <1> QED BY <1>2, <1>3 DEF Typed, TypeOK

\* A missing entry is not taken for one.
LEMMA EntryNotNull == \A x \in Entry : x # NULL
  BY EntryAssumption

\* The two writes of the outbox before a handler applies its revision, and the append.
LEMMA TypedJournal ==
  ASSUME Typed, NEW p \in Procs,
         WriteIntent(p) \/ AppendRevision(p) \/ WriteJournaled(p)
  PROVE  Typed'
  <1>1. proc[p] \in Handler /\ HandlerOK(proc[p])
    BY DEF Typed, TypeOK, Shape
  <1>2. CASE WriteIntent(p)
    <2>1. proc[p].pc \in Active
      BY <1>2 DEF WriteIntent, Active, PreJournal
    <2>2. proc' \in [Procs -> Handler] /\ Shape'
      BY <1>2, <2>1, MoveHandler DEF WriteIntent, Active, PreJournal
    <2> QED BY <1>2, <2>1, <2>2, EntryType DEF WriteIntent, Statuses, Typed, TypeOK
  <1>3. CASE AppendRevision(p)
    <2>1. proc[p].pc \in Active /\ proc[p].rev \in Revision
      BY <1>1, <1>3 DEF AppendRevision, HandlerOK, Active, PreJournal
    <2>2. proc' \in [Procs -> Handler] /\ Shape'
      BY <1>3, <2>1, MoveHandler DEF AppendRevision, Active, PostJournal
    <2> QED BY <1>3, <2>1, <2>2 DEF AppendRevision, kv, Typed, TypeOK
  <1>4. CASE WriteJournaled(p)
    <2>1. proc[p].pc \in Active
      BY <1>4 DEF WriteJournaled, Active, PostJournal
    <2>2. proc' \in [Procs -> Handler] /\ Shape'
      BY <1>4, <2>1, MoveHandler DEF WriteJournaled, Active, PostJournal
    <2> QED BY <1>4, <2>1, <2>2, EntryType DEF WriteJournaled, Statuses, Typed, TypeOK
  <1> QED BY <1>2, <1>3, <1>4

LEMMA NextPoints ==
  ASSUME NEW h
  PROVE  AfterRevision(h) \in PostJournal /\ CleanUp(h) \in PostJournal
  <1>1. AfterRevision(h) \in PostJournal
    BY DEF AfterRevision, PostJournal
  <1>2. CleanUp(h) \in PostJournal
    BY DEF CleanUp, PostJournal
  <1> QED BY <1>1, <1>2

\* applyMaterialization's reads change the handler alone.
LEMMA TypedReads ==
  ASSUME Typed, NEW p \in Procs,
         ReadForApply(p) \/ ReadRevision(p) \/ ConfirmRevision(p) \/ ConfirmRecord(p)
  PROVE  Typed'
  <1>1. proc[p] \in Handler /\ HandlerOK(proc[p])
    BY DEF Typed, TypeOK, Shape
  <1>2. proc' \in [Procs -> Handler] /\ Shape'
    <2>1. CASE ReadForApply(p)
      <3> DEFINE cur == record[proc[p].rev.rec]
                 applied == cur # NULL /\ cur.event = proc[p].rev.event
                 pc == IF applied \/ MayApply(cur, proc[p].rev) THEN "readRev"
                       ELSE "writeConflict"
                 h == [proc[p] EXCEPT !.cur = cur, !.tries = 0, !.pc = pc]
      <3>1. cur \in Revision \cup {NULL}
        BY <1>1, <2>1 DEF ReadForApply, HandlerOK, PostJournal, Revision, Typed, TypeOK
      <3>2. pc \in PostJournal
        BY DEF PostJournal
      <3>3. proc' = [proc EXCEPT ![p] = h]
        BY <2>1 DEF ReadForApply
      <3>4. proc[p].pc \in Active
        BY <2>1 DEF ReadForApply, Active, PostJournal
      <3> HIDE DEF cur, pc
      <3>5. h \in Handler /\ HandlerOK(h)
        BY <1>1, <3>1, <3>2, <3>4, RecordUpdates, AttemptsType DEF Active
      <3> HIDE DEF h
      <3> QED BY <3>3, <3>5, SetHandler
    <2>2. CASE ReadRevision(p)
      <3> DEFINE found == revIndex[<<proc[p].rev.rec, proc[p].rev.version>>]
                 pc == IF Lost(found, proc[p].rev) THEN "writeConflict"
                       ELSE IF Mine(found, proc[p].rev) THEN AfterRevision(proc[p])
                       ELSE "putRev"
      <3>1. pc \in PostJournal
        BY NextPoints DEF PostJournal
      <3>2. Move(p, pc) /\ proc[p].pc \in Active
        BY <2>2 DEF ReadRevision, Active, PostJournal
      <3> HIDE DEF pc
      <3> QED BY <3>1, <3>2, MoveHandler DEF Active
    <2>3. CASE ConfirmRevision(p)
      <3> DEFINE h == [proc[p] EXCEPT !.pc = AfterRevision(proc[p]), !.tries = 0]
                 g == [proc[p] EXCEPT !.pc = "readRev", !.tries = proc[p].tries + 1]
      <3>1. proc[p].pc = "confirmRev" /\ proc[p].tries \in 0 .. Attempts
        BY <1>1, <2>3 DEF ConfirmRevision, Handler
      <3>2. CASE proc' = [proc EXCEPT ![p] = h]
        <4>1. AfterRevision(proc[p]) \in PostJournal
          BY NextPoints
        <4>2. h \in Handler /\ HandlerOK(h)
          BY <1>1, <3>1, <4>1, RecordUpdates, AttemptsType DEF Active, PostJournal
        <4> HIDE DEF h
        <4> QED BY <3>2, <4>2, SetHandler
      <3>3. CASE Move(p, "writeConflict")
        BY <3>1, <3>3, MoveHandler DEF Active, PostJournal
      <3>4. CASE proc[p].tries + 1 < Attempts /\ proc' = [proc EXCEPT ![p] = g]
        <4>1. proc[p].tries + 1 \in 0 .. Attempts
          BY <3>1, <3>4, AttemptsType
        <4>2. g \in Handler /\ HandlerOK(g)
          BY <1>1, <3>1, <4>1, RecordUpdates DEF Active, PostJournal
        <4> HIDE DEF g
        <4> QED BY <3>4, <4>2, SetHandler
      <3>5. CASE proc' = [proc EXCEPT ![p] = Idle]
        BY <3>5, StopHandler
      <3> QED BY <2>3, <3>2, <3>3, <3>4, <3>5 DEF ConfirmRevision
    <2>4. CASE ConfirmRecord(p)
      <3>1. PICK pc \in PostJournal : Move(p, pc)
        BY <2>4, NextPoints DEF ConfirmRecord, PostJournal
      <3>2. proc[p].pc \in Active
        BY <2>4 DEF ConfirmRecord, Active, PostJournal
      <3> QED BY <3>1, <3>2, MoveHandler DEF Active
    <2> QED BY <2>1, <2>2, <2>3, <2>4
  <1>3. UNCHANGED <<journal, kv, answers, faults>>
    BY DEF ReadForApply, ReadRevision, ConfirmRevision, ConfirmRecord
  <1> QED BY <1>2, <1>3 DEF kv, Typed, TypeOK

LEMMA TypedRevisionPut ==
  ASSUME Typed, NEW p \in Procs, PutRevision(p)
  PROVE  Typed'
  <1>1. proc[p].pc \in Active /\ proc[p].rev \in Revision
    BY DEF PutRevision, Active, PostJournal, HandlerOK, Typed, TypeOK, Shape
  <1>2. proc' \in [Procs -> Handler] /\ Shape'
    BY <1>1, MoveHandler DEF PutRevision, Active, PostJournal
  <1>3. revIndex' \in [Records \X (1 .. MaxVersion) -> Revision \cup {NULL}]
    BY <1>1 DEF PutRevision, Typed, TypeOK
  <1> QED BY <1>2, <1>3 DEF PutRevision, Typed, TypeOK

LEMMA TypedIndexWrites ==
  ASSUME Typed, NEW p \in Procs,
         \/ PutListed(p) \/ PutFiltered(p)
         \/ RemoveListed(p) \/ RemoveFiltered(p) \/ RemoveStale(p)
  PROVE  Typed'
  <1>1. proc[p].pc \in Active /\ proc[p].rev \in Revision
    BY DEF PutListed, PutFiltered, RemoveListed, RemoveFiltered, RemoveStale,
           Active, PostJournal, HandlerOK, Typed, TypeOK, Shape
  <1>2. PICK pc \in PostJournal : Move(p, pc)
    BY NextPoints
    DEF PutListed, PutFiltered, RemoveListed, RemoveFiltered, RemoveStale, PostJournal
  <1>3. proc' \in [Procs -> Handler] /\ Shape'
    BY <1>1, <1>2, MoveHandler DEF Active
  <1>4. listed' \subseteq Records /\ filtered' \subseteq Vals \X Records
    BY <1>1 DEF PutListed, PutFiltered, RemoveListed, RemoveFiltered, RemoveStale,
                Revision, Typed, TypeOK
  <1>5. UNCHANGED <<journal, record, revIndex, outbox, answers, faults>>
    BY DEF PutListed, PutFiltered, RemoveListed, RemoveFiltered, RemoveStale
  <1> QED BY <1>3, <1>4, <1>5 DEF Typed, TypeOK

LEMMA TypedRecordWrites ==
  ASSUME Typed, NEW p \in Procs, PutRecord(p) \/ OverwriteRecord(p)
  PROVE  Typed'
  <1>1. /\ proc[p] \in Handler /\ HandlerOK(proc[p])
        /\ proc[p].pc \in Active /\ proc[p].rev \in Revision /\ proc[p].tries \in 0 .. Attempts
    BY DEF PutRecord, OverwriteRecord, Active, PostJournal, Handler, HandlerOK,
           Typed, TypeOK, Shape
  <1>2. proc' \in [Procs -> Handler] /\ Shape'
    <2>1. ASSUME NEW n \in 0 .. Attempts,
                 proc' = [proc EXCEPT ![p].pc = "confirmRecord", ![p].tries = n]
          PROVE  proc' \in [Procs -> Handler] /\ Shape'
      <3> DEFINE h == [proc[p] EXCEPT !.pc = "confirmRecord", !.tries = n]
      <3>1. h \in Handler /\ HandlerOK(h)
        BY <1>1, RecordUpdates DEF Active, PostJournal
      <3>2. proc' = [proc EXCEPT ![p] = h]
        BY <2>1
      <3> HIDE DEF h
      <3> QED BY <3>1, <3>2, SetHandler
    <2>2. CASE PutRecord(p)
      BY <2>1, <2>2, AttemptsType DEF PutRecord
    <2>3. CASE OverwriteRecord(p)
      <3>1. CASE proc[p].tries + 1 < Attempts
        BY <1>1, <2>1, <2>3, <3>1, AttemptsType DEF OverwriteRecord
      <3>2. CASE ~(proc[p].tries + 1 < Attempts)
        BY <2>3, <3>2, StopHandler DEF OverwriteRecord
      <3> QED BY <3>1, <3>2
    <2> QED BY <2>2, <2>3
  <1>3. record' \in [Records -> Revision \cup {NULL}]
    BY <1>1 DEF PutRecord, OverwriteRecord, Typed, TypeOK
  <1>4. UNCHANGED <<journal, revIndex, listed, filtered, outbox, answers, faults>>
    BY DEF PutRecord, OverwriteRecord
  <1> QED BY <1>2, <1>3, <1>4 DEF Typed, TypeOK

LEMMA TypedReceipt ==
  ASSUME Typed, NEW p \in Procs, WriteApplied(p) \/ WriteConflict(p)
  PROVE  Typed'
  <1>1. PICK pc \in PostJournal, status \in Statuses, kind \in {"ok", "conflict"} :
           WriteReceipt(p, pc, status, kind)
    BY DEF WriteApplied, WriteConflict, PostJournal, Statuses
  <1>2. proc[p].pc \in Active /\ proc[p].key \in Keys
    BY <1>1 DEF WriteReceipt, Active, PostJournal, HandlerOK, Typed, Shape
  <1>3. proc' \in [Procs -> Handler] /\ Shape'
    BY <1>1, StopHandler DEF WriteReceipt
  <1>4. AnswerFor(proc[p].key, EntryOf(proc[p], status), kind) \in Answer
    BY <1>2, EntryType DEF AnswerFor, Answer, Entry, Revision
  <1>5. answers' \subseteq Answer
    BY <1>1, <1>4 DEF WriteReceipt, Typed, TypeOK
  <1>6. outbox' \in [Keys -> Entry \cup {NULL}]
    BY <1>1, <1>2, EntryType DEF WriteReceipt, Typed, TypeOK
  <1>7. faults' \in 0 .. MaxFaults
    BY <1>1, BoundAssumption DEF WriteReceipt, Typed, TypeOK
  <1>8. UNCHANGED <<journal, record, revIndex, listed, filtered>>
    BY <1>1 DEF WriteReceipt
  <1> QED BY <1>3, <1>5, <1>6, <1>7, <1>8 DEF Typed, TypeOK

LEMMA TypedFail ==
  ASSUME Typed, NEW p \in Procs, FailHandler(p)
  PROVE  Typed'
  <1>1. proc' \in [Procs -> Handler] /\ Shape'
    BY StopHandler DEF FailHandler
  <1>2. faults' \in 0 .. MaxFaults
    BY BoundAssumption DEF FailHandler, Typed, TypeOK
  <1> QED BY <1>1, <1>2 DEF FailHandler, kv, Typed, TypeOK

LEMMA TypedExpire ==
  ASSUME Typed, NEW k \in Keys, ExpireReceipt(k)
  PROVE  Typed'
  BY DEF ExpireReceipt, Typed, TypeOK, Shape, HandlerOK

LEMMA TypedUnchanged ==
  ASSUME Typed, UNCHANGED vars
  PROVE  Typed'
  BY DEF vars, kv, Typed, TypeOK, Shape, HandlerOK

LEMMA TypedInit == Init => Typed
  <1> SUFFICES ASSUME Init PROVE Typed
    OBVIOUS
  <1>1. TypeOK
    BY IdleOK, BoundAssumption DEF Init, TypeOK
  <1>2. Shape
    BY IdleOK DEF Init, Shape
  <1> QED BY <1>1, <1>2 DEF Typed

LEMMA TypedNext == Typed /\ [Next]_vars => Typed'
  <1> SUFFICES ASSUME Typed, [Next]_vars PROVE Typed'
    OBVIOUS
  <1>1. ASSUME NEW p \in Procs, Call(p) PROVE Typed'
    BY <1>1, TypedStart, TypedRetry, TypedUnchanged DEF Call, RefuseReusedKey
  <1>2. ASSUME NEW p \in Procs, Step(p) PROVE Typed'
    BY <1>2, TypedAllocate, TypedReject, TypedBuild, TypedBegin, TypedJournal, TypedReads,
       TypedRevisionPut, TypedIndexWrites, TypedRecordWrites, TypedReceipt DEF Step
  <1> QED BY <1>1, <1>2, TypedFail, TypedExpire, TypedUnchanged DEF Next

\* The variables keep the types that the code's normalizers check.
THEOREM TypeCorrect == Spec => []TypeOK
  <1>1. Typed => TypeOK
    BY DEF Typed
  <1> QED BY <1>1, TypedInit, TypedNext, PTL DEF Spec

-----------------------------------------------------------------------------
(* Telegram first *)

\* A handler past the append works on a revision that Telegram has.
Appended == \A p \in Procs : proc[p].pc \in PostJournal => proc[p].rev \in journal

Journaled == Typed /\ JournalFirst /\ Appended

LEMMA AppendedMove ==
  ASSUME Typed, Appended, NEW p \in Procs, proc[p].pc \in PostJournal,
         proc'[p].rev = proc[p].rev \/ proc'[p].pc \notin PostJournal,
         \A q \in Procs : q # p => proc'[q] = proc[q],
         journal \subseteq journal'
  PROVE  Appended'
  BY DEF Appended

\* Resuming a key goes on from what its entry says, and answers only a receipt.
LEMMA JournaledResume ==
  ASSUME Journaled, NEW p \in Procs, NEW k \in Keys, outbox[k] # NULL,
         Resume(p, k, outbox[k]), UNCHANGED <<journal, kv, faults>>
  PROVE  JournalFirst' /\ Appended'
  <1>1. outbox[k] \in Entry /\ (outbox[k].status # "intent" => outbox[k].rev \in journal)
    BY DEF Journaled, Typed, TypeOK, JournalFirst
  <1>2. CASE outbox[k].status \in {"intent", "journaled"}
    <2>1. proc' = [proc EXCEPT ![p] = Resumed(k, outbox[k])] /\ answers' = answers
      BY <1>2 DEF Resume
    <2>2. Resumed(k, outbox[k]).pc \in PostJournal => Resumed(k, outbox[k]).rev \in journal
      BY <1>1 DEF Resumed, ResumePoint, PostJournal
    <2>3. Appended'
      BY <2>1, <2>2 DEF Appended, Journaled, Typed, TypeOK
    <2> QED BY <2>1, <2>3 DEF JournalFirst, Journaled, kv
  <1>3. CASE outbox[k].status \in {"applied", "conflict"}
    <2>1. /\ proc' = [proc EXCEPT ![p] = Idle]
          /\ \E kind \in {"ok", "conflict"} :
                answers' = answers \cup {AnswerFor(k, outbox[k], kind)}
      BY <1>3 DEF Resume
    <2>2. outbox[k].rev \in journal
      BY <1>1, <1>3
    <2>3. Appended'
      BY <2>1 DEF Appended, Idle, PostJournal, Journaled, Typed, TypeOK
    <2>4. \A a \in answers' : \E x \in journal : x.event = a.event
      BY <2>1, <2>2 DEF AnswerFor, JournalFirst, Journaled
    <2> QED BY <2>3, <2>4 DEF JournalFirst, Journaled, kv
  <1> QED BY <1>1, <1>2, <1>3 DEF Entry, Statuses

\* Steps that change the handlers alone, and leave them before the append or
\* with the revision they had.
LEMMA JournaledLocal ==
  ASSUME Journaled, NEW p \in Procs,
         UNCHANGED <<journal, record, revIndex, outbox, answers>>,
         \A q \in Procs : q # p => proc'[q] = proc[q],
         \/ proc'[p].pc \notin PostJournal
         \/ proc[p].pc \in PostJournal /\ proc'[p].rev = proc[p].rev
  PROVE  JournalFirst' /\ Appended'
  BY DEF Journaled, JournalFirst, Appended

LEMMA JournaledStep ==
  ASSUME Journaled, NEW p \in Procs, Step(p)
  PROVE  JournalFirst' /\ Appended'
  <1>1. proc[p] \in Handler /\ HandlerOK(proc[p]) /\ proc \in [Procs -> Handler]
    BY DEF Journaled, Typed, TypeOK, Shape
  <1>2. proc[p].pc \in PostJournal => proc[p].rev \in journal /\ proc[p].rev \in Revision
    BY DEF Journaled, Typed, TypeOK, Appended
  <1>3. CASE AllocateRecord(p) \/ BuildChild(p)
    <2>1. proc'[p].pc = "recheck"
      BY <1>1, <1>3 DEF AllocateRecord, BuildChild, Handler
    <2>2. \A q \in Procs : q # p => proc'[q] = proc[q]
      BY <1>1, <1>3 DEF AllocateRecord, BuildChild
    <2>3. UNCHANGED <<journal, record, revIndex, outbox, answers>>
      BY <1>3 DEF AllocateRecord, BuildChild, kv
    <2> QED BY <2>1, <2>2, <2>3, JournaledLocal DEF PostJournal
  <1>4. CASE RejectMutation(p)
    BY <1>1, <1>4, JournaledLocal DEF RejectMutation, kv, Idle, PostJournal
  <1>5. CASE BeginMutation(p)
    <2> DEFINE h == proc[p]
               found == outbox[h.key]
    <2>1. h.key \in Keys
      BY <1>1, <1>5 DEF BeginMutation, HandlerOK
    <2>2. UNCHANGED <<journal, kv, faults>>
      BY <1>5 DEF BeginMutation
    <2>3. CASE found = NULL /\ Move(p, "writeIntent") /\ UNCHANGED answers
      BY <1>1, <2>2, <2>3, JournaledLocal DEF Move, kv, Handler, PostJournal
    <2>4. CASE found # NULL /\ found.req = h.req /\ Resume(p, h.key, found)
      BY <2>1, <2>2, <2>4, JournaledResume
    <2>5. CASE proc' = [proc EXCEPT ![p] = Idle] /\ UNCHANGED answers
      BY <1>1, <2>2, <2>5, JournaledLocal DEF kv, Idle, PostJournal
    <2> QED BY <1>5, <2>3, <2>4, <2>5 DEF BeginMutation
  <1>6. CASE WriteIntent(p)
    <2>1. Appended'
      BY <1>1, <1>6 DEF WriteIntent, Move, Handler, PostJournal, Appended, Journaled
    <2>2. outbox' = [outbox EXCEPT ![proc[p].key] = EntryOf(proc[p], "intent")]
      BY <1>6 DEF WriteIntent
    <2>3. \A k \in Keys : outbox'[k] # NULL /\ outbox'[k].status # "intent"
                            => outbox'[k].rev \in journal
      BY <2>2 DEF EntryOf, JournalFirst, Journaled, Typed, TypeOK
    <2> QED BY <1>6, <2>1, <2>3 DEF WriteIntent, JournalFirst, Journaled
  <1>7. CASE AppendRevision(p)
    <2>1. journal' = journal \cup {proc[p].rev} /\ UNCHANGED <<kv, answers, faults>>
      BY <1>7 DEF AppendRevision
    <2>2. proc'[p].rev = proc[p].rev /\ \A q \in Procs : q # p => proc'[q] = proc[q]
      BY <1>1, <1>7 DEF AppendRevision, Move, Handler
    <2>3. Appended'
      BY <2>1, <2>2 DEF Appended, Journaled
    <2> QED BY <2>1, <2>3 DEF JournalFirst, Journaled, kv
  <1>8. CASE WriteJournaled(p)
    <2>1. proc[p].rev \in journal
      BY <1>2, <1>8 DEF WriteJournaled, PostJournal
    <2>2. Appended'
      BY <1>1, <1>2, <1>8 DEF WriteJournaled, Move, Handler, PostJournal, Appended, Journaled
    <2>3. outbox' = [outbox EXCEPT ![proc[p].key] = EntryOf(proc[p], "journaled")]
      BY <1>8 DEF WriteJournaled
    <2>4. \A k \in Keys : outbox'[k] # NULL /\ outbox'[k].status # "intent"
                            => outbox'[k].rev \in journal
      BY <2>1, <2>3 DEF EntryOf, JournalFirst, Journaled, Typed, TypeOK
    <2> QED BY <1>8, <2>2, <2>4 DEF WriteJournaled, JournalFirst, Journaled
  <1>9. CASE \/ ReadForApply(p) \/ ReadRevision(p) \/ ConfirmRevision(p)
             \/ PutListed(p) \/ PutFiltered(p) \/ ConfirmRecord(p)
             \/ RemoveListed(p) \/ RemoveFiltered(p) \/ RemoveStale(p)
    <2>1. proc[p].pc \in PostJournal
      BY <1>9 DEF ReadForApply, ReadRevision, ConfirmRevision, PutListed, PutFiltered,
                  ConfirmRecord, RemoveListed, RemoveFiltered, RemoveStale, PostJournal
    <2>2. proc'[p].pc \notin PostJournal \/ proc'[p].rev = proc[p].rev
      BY <1>1, <1>9
      DEF ReadForApply, ReadRevision, ConfirmRevision, PutListed, PutFiltered,
          ConfirmRecord, RemoveListed, RemoveFiltered, RemoveStale, Move, Handler, Idle,
          PostJournal
    <2>3. \A q \in Procs : q # p => proc'[q] = proc[q]
      BY <1>1, <1>9
      DEF ReadForApply, ReadRevision, ConfirmRevision, PutListed, PutFiltered,
          ConfirmRecord, RemoveListed, RemoveFiltered, RemoveStale, Move
    <2>4. UNCHANGED <<journal, record, revIndex, outbox, answers>>
      BY <1>9
      DEF ReadForApply, ReadRevision, ConfirmRevision, PutListed, PutFiltered,
          ConfirmRecord, RemoveListed, RemoveFiltered, RemoveStale, kv
    <2> QED BY <2>1, <2>2, <2>3, <2>4, JournaledLocal
  <1>10. CASE PutRevision(p)
    <2>1. proc[p].rev \in journal
      BY <1>2, <1>10 DEF PutRevision, PostJournal
    <2>2. Appended'
      BY <1>1, <1>2, <1>10 DEF PutRevision, Move, Handler, PostJournal, Appended, Journaled
    <2>3. \A rv \in Records \X (1 .. MaxVersion) : revIndex'[rv] # NULL => revIndex'[rv] \in journal
      BY <1>10, <2>1 DEF PutRevision, JournalFirst, Journaled, Typed, TypeOK
    <2> QED BY <1>10, <2>2, <2>3 DEF PutRevision, JournalFirst, Journaled
  <1>11. CASE PutRecord(p) \/ OverwriteRecord(p)
    <2>1. proc[p].rev \in journal
      BY <1>2, <1>11 DEF PutRecord, OverwriteRecord, PostJournal
    <2>2. proc'[p].rev = proc[p].rev \/ proc'[p].pc \notin PostJournal
      BY <1>1, <1>11 DEF PutRecord, OverwriteRecord, Handler, Idle, PostJournal
    <2>3. \A q \in Procs : q # p => proc'[q] = proc[q]
      BY <1>1, <1>11 DEF PutRecord, OverwriteRecord
    <2>4. UNCHANGED <<journal, revIndex, outbox, answers>>
      BY <1>11 DEF PutRecord, OverwriteRecord
    <2>5. Appended'
      BY <2>1, <2>2, <2>3, <2>4 DEF Appended, Journaled
    <2>6. \A r \in Records : record'[r] # NULL => record'[r] \in journal
      BY <1>11, <2>1 DEF PutRecord, OverwriteRecord, JournalFirst, Journaled, Typed, TypeOK
    <2> QED BY <2>4, <2>5, <2>6 DEF JournalFirst, Journaled
  <1>12. CASE WriteApplied(p) \/ WriteConflict(p)
    <2>1. PICK pc \in PostJournal, status \in {"applied", "conflict"},
               kind \in {"ok", "conflict"} : WriteReceipt(p, pc, status, kind)
      BY <1>12 DEF WriteApplied, WriteConflict, PostJournal
    <2>2. proc[p].rev \in journal
      BY <1>2, <2>1 DEF WriteReceipt
    <2>3. Appended'
      BY <1>1, <2>1 DEF WriteReceipt, Idle, PostJournal, Appended, Journaled
    <2>4. \A k \in Keys : outbox'[k] # NULL /\ outbox'[k].status # "intent"
                            => outbox'[k].rev \in journal
      BY <2>1, <2>2 DEF WriteReceipt, EntryOf, JournalFirst, Journaled, Typed, TypeOK
    <2>5. \A a \in answers' : \E x \in journal : x.event = a.event
      BY <2>1, <2>2 DEF WriteReceipt, EntryOf, AnswerFor, JournalFirst, Journaled
    <2> QED BY <2>1, <2>3, <2>4, <2>5 DEF WriteReceipt, JournalFirst, Journaled
  <1> QED BY <1>3, <1>4, <1>5, <1>6, <1>7, <1>8, <1>9, <1>10, <1>11, <1>12 DEF Step

LEMMA JournaledNext == Journaled /\ [Next]_vars => Journaled'
  <1> SUFFICES ASSUME Journaled, [Next]_vars PROVE JournalFirst' /\ Appended'
    BY TypedNext DEF Journaled
  <1>1. ASSUME NEW p \in Procs, Step(p) PROVE JournalFirst' /\ Appended'
    BY <1>1, JournaledStep
  <1>2. ASSUME NEW p \in Procs, NEW k \in Keys, NEW req \in Request, StartMutation(p, k, req)
        PROVE  JournalFirst' /\ Appended'
    <2>1. proc'[p].pc \notin PostJournal /\ \A q \in Procs : q # p => proc'[q] = proc[q]
      BY <1>2 DEF StartMutation, Idle, PostJournal, Journaled, Typed, TypeOK
    <2> QED BY <1>2, <2>1, JournaledLocal DEF StartMutation, kv
  <1>3. ASSUME NEW p \in Procs, NEW k \in Keys, RetryMutation(p, k)
        PROVE  JournalFirst' /\ Appended'
    BY <1>3, JournaledResume DEF RetryMutation
  <1>4. ASSUME NEW p \in Procs, FailHandler(p) PROVE JournalFirst' /\ Appended'
    <2>1. proc'[p].pc \notin PostJournal /\ \A q \in Procs : q # p => proc'[q] = proc[q]
      BY <1>4 DEF FailHandler, Idle, PostJournal, Journaled, Typed, TypeOK
    <2> QED BY <1>4, <2>1, JournaledLocal DEF FailHandler, kv
  <1>5. ASSUME NEW k \in Keys, ExpireReceipt(k) PROVE JournalFirst' /\ Appended'
    BY <1>5 DEF ExpireReceipt, JournalFirst, Appended, Journaled, Typed, TypeOK
  <1>6. CASE UNCHANGED vars
    BY <1>6 DEF vars, kv, JournalFirst, Appended, Journaled
  <1> QED BY <1>1, <1>2, <1>3, <1>4, <1>5, <1>6 DEF Next, Call, RefuseReusedKey

LEMMA JournaledInit == Init => Journaled
  BY TypedInit DEF Init, Journaled, JournalFirst, Appended, Idle, PostJournal

\* Nothing is shown or acknowledged that Telegram does not have.
THEOREM TelegramFirst == Spec => []JournalFirst
  <1>1. Journaled => JournalFirst
    BY DEF Journaled
  <1> QED BY <1>1, JournaledInit, JournaledNext, PTL DEF Spec

-----------------------------------------------------------------------------
(* Which revisions a step can introduce *)

LEMMA KnownBy ==
  ASSUME NEW x
  PROVE  x \in KnownRevisions <=> \/ x \in journal
                                  \/ \E k \in Keys : outbox[k] # NULL /\ x = outbox[k].rev
                                  \/ \E p \in Procs : proc[p].rev # NULL /\ x = proc[p].rev
  BY DEF KnownRevisions

LEMMA KnownByPrimed ==
  ASSUME NEW x
  PROVE  x \in KnownRevisions' <=> \/ x \in journal'
                                   \/ \E k \in Keys : outbox'[k] # NULL /\ x = outbox'[k].rev
                                   \/ \E p \in Procs : proc'[p].rev # NULL /\ x = proc'[p].rev
  BY DEF KnownRevisions

\* The revision of a create, or of a patch or delete of the current record.
FirstRevision(x) == x.op = "create" /\ x.version = 1
ChildOfCurrent(x) ==
    /\ x.op # "create"
    /\ x.rec \in Records
    /\ Live(record[x.rec])
    /\ x.parent = record[x.rec].event
    /\ x.version = record[x.rec].version + 1

\* A step keeps to the revisions that were known, or adds one with a new event.
Introduces(x) ==
    /\ x \in Revision
    /\ FirstRevision(x) \/ ChildOfCurrent(x)
    /\ \A y \in KnownRevisions : y.event # x.event
    /\ KnownRevisions' \subseteq KnownRevisions \cup {x}

\* A step that sets handlers and entries to revisions that were known.
LEMMA NothingNew ==
  ASSUME journal' \subseteq KnownRevisions,
         \A q \in Procs : proc'[q].rev \in KnownRevisions \cup {NULL, proc[q].rev},
         \A k \in Keys : outbox'[k] \in {NULL, outbox[k]} \/ outbox'[k].rev \in KnownRevisions
  PROVE  KnownRevisions' \subseteq KnownRevisions
  <1> SUFFICES ASSUME NEW x \in KnownRevisions' PROVE x \in KnownRevisions
    OBVIOUS
  <1>1. CASE x \in journal'
    BY <1>1
  <1>2. ASSUME NEW k \in Keys, outbox'[k] # NULL, x = outbox'[k].rev PROVE x \in KnownRevisions
    BY <1>2, KnownBy
  <1>3. ASSUME NEW q \in Procs, proc'[q].rev # NULL, x = proc'[q].rev PROVE x \in KnownRevisions
    BY <1>3, KnownBy
  <1> QED BY <1>1, <1>2, <1>3, KnownByPrimed

LEMMA HandlersKnown ==
  ASSUME Typed
  PROVE  /\ journal \subseteq KnownRevisions
         /\ \A p \in Procs : proc[p].rev \in KnownRevisions \cup {NULL}
         /\ \A k \in Keys : outbox[k] # NULL => outbox[k].rev \in KnownRevisions
  BY KnownBy

LEMMA ResumeKnown ==
  ASSUME Typed, NEW p \in Procs, NEW k \in Keys, outbox[k] # NULL,
         Resume(p, k, outbox[k]), UNCHANGED <<journal, kv, faults>>
  PROVE  KnownRevisions' \subseteq KnownRevisions
  <1>1. outbox[k].rev \in KnownRevisions
    BY HandlersKnown
  <1>2. proc'[p].rev \in KnownRevisions \cup {NULL}
    BY <1>1 DEF Resume, Resumed, Idle, Typed, TypeOK
  <1>3. \A q \in Procs : q # p => proc'[q] = proc[q]
    BY DEF Resume, Typed, TypeOK
  <1> QED BY <1>2, <1>3, HandlersKnown, NothingNew DEF kv

LEMMA AllocateIntroduces ==
  ASSUME Typed, NEW p \in Procs, AllocateRecord(p)
  PROVE  \E x : Introduces(x)
  <1>1. PICK r \in FreshRecords, e \in FreshEvents :
          proc' = [proc EXCEPT ![p].pc = "recheck",
               ![p].rev = [event |-> e, rec |-> r, op |-> "create", version |-> 1,
                           parent |-> NoParent, val |-> proc[p].req.val]]
    BY DEF AllocateRecord
  <1> DEFINE x == [event |-> e, rec |-> r, op |-> "create", version |-> 1,
                   parent |-> NoParent, val |-> proc[p].req.val]
  <1>2. proc[p] \in Handler /\ proc \in [Procs -> Handler]
    BY DEF Typed, TypeOK
  <1>3. proc'[p].rev = x /\ proc'[p].pc = "recheck" /\ \A q \in Procs : q # p => proc'[q] = proc[q]
    BY <1>1, <1>2 DEF Handler
  <1>4. x \in Revision
    <2>1. Typed'
      BY TypedAllocate
    <2> QED BY <1>3, <2>1 DEF Typed, Shape, HandlerOK, PreJournal
  <1>5. FirstRevision(x)
    BY DEF FirstRevision
  <1>6. \A y \in KnownRevisions : y.event # x.event
    BY DEF FreshEvents
  <1> HIDE DEF x
  <1>7. KnownRevisions' \subseteq KnownRevisions \cup {x}
    <2> SUFFICES ASSUME NEW y \in KnownRevisions' PROVE y \in KnownRevisions \cup {x}
      OBVIOUS
    <2>1. CASE y \in journal'
      BY <2>1, HandlersKnown DEF AllocateRecord
    <2>2. ASSUME NEW k \in Keys, outbox'[k] # NULL, y = outbox'[k].rev PROVE y \in KnownRevisions
      BY <2>2, HandlersKnown DEF AllocateRecord, kv
    <2>3. ASSUME NEW q \in Procs, proc'[q].rev # NULL, y = proc'[q].rev
          PROVE  y \in KnownRevisions \cup {x}
      BY <1>3, <2>3, HandlersKnown
    <2> QED BY <2>1, <2>2, <2>3, KnownByPrimed
  <1> QED BY <1>4, <1>5, <1>6, <1>7 DEF Introduces

LEMMA BuildIntroduces ==
  ASSUME Typed, NEW p \in Procs, BuildChild(p)
  PROVE  \E x : Introduces(x)
  <1> DEFINE req == proc[p].req
             cur == record[req.rec]
  <1>1. PICK e \in FreshEvents :
          proc' = [proc EXCEPT ![p].pc = "recheck", ![p].prev = Field(cur),
               ![p].rev = [event |-> e, rec |-> req.rec, op |-> req.op,
                           version |-> cur.version + 1, parent |-> cur.event,
                           val |-> IF req.op = "update" THEN req.val ELSE cur.val]]
    BY DEF BuildChild
  <1> DEFINE x == [event |-> e, rec |-> req.rec, op |-> req.op,
                   version |-> cur.version + 1, parent |-> cur.event,
                   val |-> IF req.op = "update" THEN req.val ELSE cur.val]
  <1>2. proc[p] \in Handler /\ proc \in [Procs -> Handler] /\ HandlerOK(proc[p])
    BY DEF Typed, TypeOK, Shape
  <1>3. proc'[p].rev = x /\ proc'[p].pc = "recheck" /\ \A q \in Procs : q # p => proc'[q] = proc[q]
    BY <1>1, <1>2 DEF Handler
  <1>4. x \in Revision
    <2>1. Typed'
      BY TypedBuild
    <2> QED BY <1>3, <2>1 DEF Typed, Shape, HandlerOK, PreJournal
  <1>5. ChildOfCurrent(x)
    <2>1. req.op # "create"
      BY <1>2 DEF BuildChild, HandlerOK
    <2>2. x.rec \in Records
      BY <1>4 DEF Revision
    <2> QED BY <2>1, <2>2 DEF BuildChild, ChildOfCurrent
  <1>6. \A y \in KnownRevisions : y.event # x.event
    BY DEF FreshEvents
  <1> HIDE DEF x
  <1>7. KnownRevisions' \subseteq KnownRevisions \cup {x}
    <2> SUFFICES ASSUME NEW y \in KnownRevisions' PROVE y \in KnownRevisions \cup {x}
      OBVIOUS
    <2>1. CASE y \in journal'
      BY <2>1, HandlersKnown DEF BuildChild
    <2>2. ASSUME NEW k \in Keys, outbox'[k] # NULL, y = outbox'[k].rev PROVE y \in KnownRevisions
      BY <2>2, HandlersKnown DEF BuildChild, kv
    <2>3. ASSUME NEW q \in Procs, proc'[q].rev # NULL, y = proc'[q].rev
          PROVE  y \in KnownRevisions \cup {x}
      BY <1>3, <2>3, HandlersKnown
    <2> QED BY <2>1, <2>2, <2>3, KnownByPrimed
  <1> QED BY <1>4, <1>5, <1>6, <1>7 DEF Introduces

\* Every other step of a handler works on its own revision.
LEMMA StepKnown ==
  ASSUME Typed, NEW p \in Procs, Step(p), ~AllocateRecord(p), ~BuildChild(p)
  PROVE  KnownRevisions' \subseteq KnownRevisions
  <1> DEFINE h == proc[p]
             resumes == outbox[h.key] # NULL /\ Resume(p, h.key, outbox[h.key])
  <1>1. h \in Handler /\ HandlerOK(h) /\ proc \in [Procs -> Handler]
    BY DEF Typed, TypeOK, Shape
  <1>2. CASE BeginMutation(p) /\ resumes
    BY <1>1, <1>2, ResumeKnown DEF BeginMutation, HandlerOK
  <1>3. CASE ~BeginMutation(p) \/ ~resumes
    <2>1. /\ proc'[p].rev \in {NULL, h.rev}
          /\ \A q \in Procs : q # p => proc'[q] = proc[q]
          /\ \/ UNCHANGED outbox
             \/ /\ h.pc \in Active
                /\ \E s : outbox' = [outbox EXCEPT ![h.key] = EntryOf(h, s)]
          /\ \/ UNCHANGED journal
             \/ h.pc \in Active /\ journal' = journal \cup {h.rev}
      <3> USE DEF kv, Active, PreJournal, PostJournal
      <3>1. CASE RejectMutation(p) \/ BeginMutation(p)
        BY <1>1, <1>3, <3>1 DEF RejectMutation, BeginMutation, Move, Handler, Idle
      <3>2. CASE WriteIntent(p) \/ AppendRevision(p) \/ WriteJournaled(p)
        BY <1>1, <3>2 DEF WriteIntent, AppendRevision, WriteJournaled, Move, Handler
      <3>3. CASE ReadForApply(p) \/ ReadRevision(p) \/ PutRevision(p) \/ ConfirmRevision(p)
        BY <1>1, <3>3
        DEF ReadForApply, ReadRevision, PutRevision, ConfirmRevision, Move, Handler, Idle
      <3>4. CASE PutListed(p) \/ PutFiltered(p) \/ PutRecord(p) \/ ConfirmRecord(p)
                   \/ OverwriteRecord(p)
        BY <1>1, <3>4
        DEF PutListed, PutFiltered, PutRecord, ConfirmRecord, OverwriteRecord, Move, Handler,
            Idle
      <3>5. CASE RemoveListed(p) \/ RemoveFiltered(p) \/ RemoveStale(p)
        BY <1>1, <3>5 DEF RemoveListed, RemoveFiltered, RemoveStale, Move, Handler
      <3>6. CASE WriteApplied(p) \/ WriteConflict(p)
        BY <1>1, <3>6 DEF WriteApplied, WriteConflict, WriteReceipt, Idle
      <3> QED BY <3>1, <3>2, <3>3, <3>4, <3>5, <3>6 DEF Step
    <2>2. h.pc \in Active => h.rev \in KnownRevisions
      BY <1>1, HandlersKnown, NullAssumption DEF HandlerOK, Active
    <2>3. \A k \in Keys : outbox'[k] \in {NULL, outbox[k]} \/ outbox'[k].rev \in KnownRevisions
      <3>1. CASE UNCHANGED outbox
        BY <3>1
      <3>2. ASSUME NEW s, h.pc \in Active, outbox' = [outbox EXCEPT ![h.key] = EntryOf(h, s)]
            PROVE  \A k \in Keys : outbox'[k] = outbox[k] \/ outbox'[k].rev \in KnownRevisions
        <4>1. EntryOf(h, s).rev \in KnownRevisions
          BY <2>2, <3>2 DEF EntryOf
        <4> QED BY <3>2, <4>1 DEF Typed, TypeOK
      <3> QED BY <2>1, <3>1, <3>2
    <2>4. journal' \subseteq KnownRevisions
      BY <2>1, <2>2, HandlersKnown
    <2> QED BY <2>1, <2>3, <2>4, NothingNew
  <1> QED BY <1>2, <1>3

LEMMA NextKnown ==
  ASSUME Typed, [Next]_vars
  PROVE  KnownRevisions' \subseteq KnownRevisions \/ \E x : Introduces(x)
  <1>1. ASSUME NEW p \in Procs, Step(p)
        PROVE  KnownRevisions' \subseteq KnownRevisions \/ \E x : Introduces(x)
    BY <1>1, AllocateIntroduces, BuildIntroduces, StepKnown
  <1>2. ASSUME NEW p \in Procs, NEW k \in Keys, NEW req \in Request, StartMutation(p, k, req)
        PROVE  KnownRevisions' \subseteq KnownRevisions
    <2>1. proc'[p].rev = NULL /\ \A q \in Procs : q # p => proc'[q] = proc[q]
      BY <1>2 DEF StartMutation, Idle, Typed, TypeOK
    <2> QED BY <1>2, <2>1, HandlersKnown, NothingNew DEF StartMutation, kv
  <1>3. ASSUME NEW p \in Procs, NEW k \in Keys, RetryMutation(p, k)
        PROVE  KnownRevisions' \subseteq KnownRevisions
    BY <1>3, ResumeKnown DEF RetryMutation
  <1>4. ASSUME NEW p \in Procs, FailHandler(p)
        PROVE  KnownRevisions' \subseteq KnownRevisions
    <2>1. proc'[p].rev = NULL /\ \A q \in Procs : q # p => proc'[q] = proc[q]
      BY <1>4 DEF FailHandler, Idle, Typed, TypeOK
    <2> QED BY <1>4, <2>1, HandlersKnown, NothingNew DEF FailHandler, kv
  <1>5. ASSUME NEW k \in Keys, ExpireReceipt(k)
        PROVE  KnownRevisions' \subseteq KnownRevisions
    <2>1. \A j \in Keys : outbox'[j] \in {NULL, outbox[j]}
      BY <1>5 DEF ExpireReceipt, Typed, TypeOK
    <2> QED BY <1>5, <2>1, HandlersKnown, NothingNew DEF ExpireReceipt
  <1>6. ASSUME UNCHANGED vars PROVE KnownRevisions' \subseteq KnownRevisions
    BY <1>6, HandlersKnown, NothingNew DEF vars, kv
  <1> QED BY <1>1, <1>2, <1>3, <1>4, <1>5, <1>6 DEF Next, Call, RefuseReusedKey

-----------------------------------------------------------------------------
(* What a step does to the journal and to the indexes *)

WritesRecord == {"putRecord", "overwriteRecord"}

\* The journal only grows, an indexed version stays indexed, and a record is
\* replaced only by the revision of a handler at one of the two writes.
LEMMA StepFrame ==
  ASSUME Typed, NEW p \in Procs, Step(p)
  PROVE  /\ journal \subseteq journal'
         /\ \A rv \in Records \X (1 .. MaxVersion) : revIndex[rv] # NULL => revIndex'[rv] # NULL
         /\ \A r \in Records :
              \/ record'[r] = record[r]
              \/ /\ proc[p].pc \in WritesRecord
                 /\ r = proc[p].rev.rec
                 /\ record'[r] = proc[p].rev
  <1>1. proc[p].pc \in Active => proc[p].rev \in Revision
    BY DEF Typed, Shape, HandlerOK, Active
  <1>2. CASE PutRevision(p)
    <2>1. proc[p].rev # NULL
      BY <1>1, <1>2, NullAssumption DEF PutRevision, Active, PostJournal
    <2> QED BY <1>2, <2>1 DEF PutRevision, Typed, TypeOK
  <1>3. CASE PutRecord(p) \/ OverwriteRecord(p)
    BY <1>3 DEF PutRecord, OverwriteRecord, WritesRecord, Typed, TypeOK
  <1>4. CASE AppendRevision(p)
    BY <1>4 DEF AppendRevision, kv
  <1>5. CASE UNCHANGED <<journal, record, revIndex>>
    BY <1>5
  <1>6. ~PutRevision(p) /\ ~PutRecord(p) /\ ~OverwriteRecord(p) /\ ~AppendRevision(p)
           => UNCHANGED <<journal, record, revIndex>>
    BY DEF Step, AllocateRecord, RejectMutation, BuildChild, BeginMutation, WriteIntent,
           WriteJournaled, ReadForApply, ReadRevision, ConfirmRevision, PutListed,
           PutFiltered, ConfirmRecord, RemoveListed, RemoveFiltered, RemoveStale,
           WriteApplied, WriteConflict, WriteReceipt, kv
  <1> QED BY <1>2, <1>3, <1>4, <1>5, <1>6

LEMMA StepChangesOne ==
  ASSUME Typed, NEW p \in Procs, Step(p), NEW q \in Procs, q # p
  PROVE  proc'[q] = proc[q]
  BY DEF Step, AllocateRecord, RejectMutation, BuildChild, BeginMutation, WriteIntent,
         AppendRevision, WriteJournaled, ReadForApply, ReadRevision, PutRevision,
         ConfirmRevision, PutListed, PutFiltered, PutRecord, ConfirmRecord, OverwriteRecord,
         RemoveListed, RemoveFiltered, RemoveStale, WriteApplied, WriteConflict,
         WriteReceipt, Resume, Move, Typed, TypeOK

LEMMA NextFrame ==
  ASSUME Typed, [Next]_vars
  PROVE  /\ journal \subseteq journal'
         /\ \A rv \in Records \X (1 .. MaxVersion) : revIndex[rv] # NULL => revIndex'[rv] # NULL
         /\ \A r \in Records :
              \/ record'[r] = record[r]
              \/ \E p \in Procs : /\ proc[p].pc \in WritesRecord
                                  /\ r = proc[p].rev.rec
                                  /\ record'[r] = proc[p].rev
  <1>1. ASSUME NEW p \in Procs, Step(p)
        PROVE  /\ journal \subseteq journal'
               /\ \A rv \in Records \X (1 .. MaxVersion) :
                    revIndex[rv] # NULL => revIndex'[rv] # NULL
               /\ \A r \in Records :
                    \/ record'[r] = record[r]
                    \/ /\ proc[p].pc \in WritesRecord
                       /\ r = proc[p].rev.rec
                       /\ record'[r] = proc[p].rev
    BY <1>1, StepFrame
  <1> QED BY <1>1 DEF Next, Call, StartMutation, RetryMutation, RefuseReusedKey, FailHandler,
                      ExpireReceipt, vars, kv

-----------------------------------------------------------------------------
(* Lineage *)

RecordOfItsOwn == \A r \in Records : record[r] # NULL => record[r].rec = r

OneEventOneRevision == \A x, y \in KnownRevisions : x.event = y.event => x = y

\* Lineage holds of a revision before Telegram has it.
HasParent(x) ==
    IF x.op = "create"
    THEN x.version = 1
    ELSE \E y \in journal : /\ y.event = x.parent
                            /\ y.rec = x.rec
                            /\ y.version + 1 = x.version
                            /\ ~Deleted(y)

KnownHaveParents == \A x \in KnownRevisions : HasParent(x)

Lines == Journaled /\ RecordOfItsOwn /\ OneEventOneRevision /\ KnownHaveParents

LEMMA LinesInit == Init => Lines
  <1> SUFFICES ASSUME Init PROVE Lines
    OBVIOUS
  <1>1. Journaled
    BY JournaledInit
  <1>2. KnownRevisions = {}
    <2>1. \A x : x \notin KnownRevisions
      BY KnownBy DEF Init, Idle
    <2> QED BY <2>1
  <1>3. RecordOfItsOwn
    BY DEF Init, RecordOfItsOwn
  <1> QED BY <1>1, <1>2, <1>3 DEF Lines, OneEventOneRevision, KnownHaveParents

LEMMA LinesNext == Lines /\ [Next]_vars => Lines'
  <1> SUFFICES ASSUME Lines, [Next]_vars PROVE Lines'
    OBVIOUS
  <1>1. Typed /\ Journaled /\ Journaled'
    BY JournaledNext DEF Lines, Journaled
  <1>2. journal \subseteq journal'
    BY <1>1, NextFrame
  <1>3. RecordOfItsOwn'
    BY <1>1, NextFrame DEF Lines, RecordOfItsOwn
  <1>4. \A x : HasParent(x) => HasParent(x)'
    BY <1>2 DEF HasParent
  <1>5. ASSUME NEW x, Introduces(x) PROVE HasParent(x)'
    <2>1. CASE FirstRevision(x)
      BY <2>1 DEF FirstRevision, HasParent
    <2>2. CASE ChildOfCurrent(x)
      <3> DEFINE y == record[x.rec]
      <3>1. x.rec \in Records /\ y # NULL /\ ~Deleted(y)
        BY <2>2 DEF ChildOfCurrent, Live
      <3>2. y \in journal'
        BY <1>2, <3>1 DEF Lines, Journaled, JournalFirst
      <3>3. y.event = x.parent /\ y.rec = x.rec /\ y.version + 1 = x.version
        BY <2>2, <3>1 DEF ChildOfCurrent, Lines, RecordOfItsOwn
      <3> QED BY <2>2, <3>1, <3>2, <3>3 DEF ChildOfCurrent, HasParent
    <2> QED BY <1>5, <2>1, <2>2 DEF Introduces
  <1>6. OneEventOneRevision' /\ KnownHaveParents'
    <2>1. CASE KnownRevisions' \subseteq KnownRevisions
      BY <1>4, <2>1 DEF Lines, OneEventOneRevision, KnownHaveParents
    <2>2. ASSUME NEW x, Introduces(x) PROVE OneEventOneRevision' /\ KnownHaveParents'
      <3>1. KnownRevisions' \subseteq KnownRevisions \cup {x}
        BY <2>2 DEF Introduces
      <3>2. KnownHaveParents'
        BY <1>4, <1>5, <2>2, <3>1 DEF Lines, KnownHaveParents
      <3>3. OneEventOneRevision'
        BY <2>2, <3>1 DEF Lines, OneEventOneRevision, Introduces
      <3> QED BY <3>2, <3>3
    <2> QED BY <1>1, <2>1, <2>2, NextKnown
  <1> QED BY <1>1, <1>3, <1>6 DEF Lines

\* The journal alone tells each record's history, whatever handlers race.
THEOREM JournalTellsHistory == Spec => []Lineage
  <1>1. Lines => Lineage
    BY HandlersKnown
    DEF Lines, Journaled, Lineage, OneEventOneRevision, KnownHaveParents, HasParent
  <1> QED BY <1>1, LinesInit, LinesNext, PTL DEF Spec

-----------------------------------------------------------------------------
(* No holes *)

\* Where a handler has its own version indexed.
PastRevision == {"putListed", "putFiltered", "putRecord", "confirmRecord", "overwriteRecord",
                 "removeListed", "removeFiltered", "removeStale", "writeApplied"}

Indexed(r, n) == \A v \in 1 .. n : revIndex[<<r, v>>] # NULL

OwnVersionIndexed ==
    \A p \in Procs : proc[p].pc \in PastRevision =>
        revIndex[<<proc[p].rev.rec, proc[p].rev.version>>] # NULL

OlderVersionsIndexed == \A x \in KnownRevisions : Indexed(x.rec, x.version - 1)

Dense == Lines /\ OwnVersionIndexed /\ OlderVersionsIndexed /\ HistoryHasNoHoles

LEMMA PastPoints ==
  ASSUME NEW h
  PROVE  AfterRevision(h) \in PastRevision /\ CleanUp(h) \in PastRevision
  <1>1. AfterRevision(h) \in PastRevision
    BY DEF AfterRevision, PastRevision
  <1>2. CleanUp(h) \in PastRevision
    BY DEF CleanUp, PastRevision
  <1> QED BY <1>1, <1>2

\* A handler gets past the revision index by finding its version there.
LEMMA StepPastRevision ==
  ASSUME Typed, OwnVersionIndexed, NEW p \in Procs, Step(p), proc'[p].pc \in PastRevision
  PROVE  /\ proc'[p].rev = proc[p].rev
         /\ proc[p].rev \in Revision
         /\ revIndex[<<proc[p].rev.rec, proc[p].rev.version>>] # NULL
  <1>1. proc[p] \in Handler /\ HandlerOK(proc[p]) /\ proc \in [Procs -> Handler]
    BY DEF Typed, TypeOK, Shape
  <1>2. proc[p].pc \in PostJournal => proc[p].rev \in Revision
    BY <1>1 DEF HandlerOK
  <1>3. Idle.pc \notin PastRevision
    BY DEF Idle, PastRevision
  <1>4. CASE AllocateRecord(p) \/ RejectMutation(p) \/ BuildChild(p) \/ WriteIntent(p)
                \/ AppendRevision(p) \/ WriteJournaled(p) \/ ReadForApply(p) \/ PutRevision(p)
                \/ WriteApplied(p) \/ WriteConflict(p)
    BY <1>1, <1>3, <1>4
    DEF AllocateRecord, RejectMutation, BuildChild, WriteIntent, AppendRevision,
        WriteJournaled, ReadForApply, PutRevision, WriteApplied, WriteConflict, WriteReceipt,
        Move, Handler, PastRevision
  <1>5. CASE BeginMutation(p)
    BY <1>1, <1>3, <1>5
    DEF BeginMutation, Resume, Resumed, ResumePoint, Move, Handler, PastRevision
  <1>6. CASE ReadRevision(p)
    BY <1>1, <1>2, <1>6 DEF ReadRevision, Mine, Move, Handler, PastRevision, PostJournal
  <1>7. CASE ConfirmRevision(p)
    BY <1>1, <1>2, <1>3, <1>7 DEF ConfirmRevision, Mine, Move, Handler, PastRevision, PostJournal
  <1>8. CASE PutListed(p) \/ PutFiltered(p) \/ PutRecord(p) \/ ConfirmRecord(p)
                \/ OverwriteRecord(p) \/ RemoveListed(p) \/ RemoveFiltered(p) \/ RemoveStale(p)
    <2>1. proc[p].pc \in PastRevision /\ proc[p].pc \in PostJournal
      BY <1>8
      DEF PutListed, PutFiltered, PutRecord, ConfirmRecord, OverwriteRecord, RemoveListed,
          RemoveFiltered, RemoveStale, PastRevision, PostJournal
    <2>2. proc'[p].rev = proc[p].rev
      BY <1>1, <1>3, <1>8
      DEF PutListed, PutFiltered, PutRecord, ConfirmRecord, OverwriteRecord, RemoveListed,
          RemoveFiltered, RemoveStale, Move, Handler
    <2> QED BY <1>2, <2>1, <2>2 DEF OwnVersionIndexed
  <1> QED BY <1>4, <1>5, <1>6, <1>7, <1>8 DEF Step

LEMMA DenseInit == Init => Dense
  <1> SUFFICES ASSUME Init PROVE Dense
    OBVIOUS
  <1>1. Lines
    BY LinesInit
  <1>2. OlderVersionsIndexed
    <2>1. \A x : x \notin KnownRevisions
      BY KnownBy DEF Init, Idle
    <2> QED BY <2>1 DEF OlderVersionsIndexed
  <1>3. OwnVersionIndexed /\ HistoryHasNoHoles
    BY DEF Init, OwnVersionIndexed, HistoryHasNoHoles, Idle, PastRevision
  <1> QED BY <1>1, <1>2, <1>3 DEF Dense

LEMMA DenseNext == Dense /\ [Next]_vars => Dense'
  <1> SUFFICES ASSUME Dense, [Next]_vars PROVE Dense'
    OBVIOUS
  <1>1. Typed /\ Lines'
    BY LinesNext DEF Dense, Lines, Journaled
  <1>2. ASSUME NEW rv \in Records \X (1 .. MaxVersion), revIndex[rv] # NULL
        PROVE  revIndex'[rv] # NULL
    BY <1>1, <1>2, NextFrame
  <1>3. ASSUME NEW r \in Records, NEW n \in 0 .. MaxVersion, Indexed(r, n) PROVE Indexed(r, n)'
    BY <1>2, <1>3, BoundAssumption DEF Indexed
  <1>4. \A x \in KnownRevisions : x \in Revision
    <2>1. \A p \in Procs : proc[p].rev # NULL => proc[p].rev \in Revision
      BY <1>1 DEF Typed, TypeOK, Handler
    <2>2. \A k \in Keys : outbox[k] # NULL => outbox[k].rev \in Revision
      BY <1>1 DEF Typed, TypeOK, Entry
    <2> QED BY <1>1, <2>1, <2>2, KnownBy DEF Typed, TypeOK
  <1>5. OwnVersionIndexed'
    <2> SUFFICES ASSUME NEW p \in Procs, proc'[p].pc \in PastRevision
                 PROVE  revIndex'[<<proc'[p].rev.rec, proc'[p].rev.version>>] # NULL
      BY DEF OwnVersionIndexed
    <2>1. CASE proc'[p] = proc[p]
      <3>1. proc[p].rev \in Revision
        BY <1>1, <2>1 DEF Typed, Shape, HandlerOK, PastRevision, PostJournal
      <3> QED BY <1>2, <2>1, <3>1 DEF Dense, OwnVersionIndexed, Revision
    <2>2. CASE Step(p)
      <3>1. /\ proc'[p].rev = proc[p].rev
            /\ proc[p].rev \in Revision
            /\ revIndex[<<proc[p].rev.rec, proc[p].rev.version>>] # NULL
        BY <1>1, <2>2, StepPastRevision DEF Dense
      <3> QED BY <1>2, <3>1 DEF Revision
    <2>3. CASE proc'[p] # proc[p] /\ ~Step(p)
      <3>1. \A q \in Procs : Step(q) => \A o \in Procs : o # q => proc'[o] = proc[o]
        BY <1>1, StepChangesOne
      <3>2. PICK q \in Procs : Call(q) \/ FailHandler(q)
        BY <2>3, <3>1 DEF Next, ExpireReceipt, vars
      <3>3. CASE Call(q)
        <4>1. CASE \E k \in Keys, req \in Request : StartMutation(q, k, req)
          BY <1>1, <2>3, <4>1 DEF StartMutation, Idle, PastRevision, Typed, TypeOK
        <4>2. ASSUME NEW k \in Keys, RetryMutation(q, k) PROVE proc'[p].pc \notin PastRevision
          <5>1. CASE proc' = [proc EXCEPT ![q] = Resumed(k, outbox[k])]
            BY <1>1, <2>3, <5>1 DEF Resumed, ResumePoint, PastRevision, Typed, TypeOK
          <5>2. CASE proc' = [proc EXCEPT ![q] = Idle]
            BY <1>1, <2>3, <5>2 DEF Idle, PastRevision, Typed, TypeOK
          <5> QED BY <4>2, <5>1, <5>2 DEF RetryMutation, Resume
        <4>3. ~ \E k \in Keys : RefuseReusedKey(q, k)
          BY <2>3 DEF RefuseReusedKey, vars
        <4> QED BY <3>3, <4>1, <4>2, <4>3 DEF Call
      <3>4. CASE FailHandler(q)
        <4>1. proc' = [proc EXCEPT ![q] = Idle]
          BY <3>4 DEF FailHandler
        <4> QED BY <1>1, <2>3, <4>1 DEF Idle, PastRevision, Typed, TypeOK
      <3> QED BY <3>2, <3>3, <3>4
    <2> QED BY <2>1, <2>2, <2>3
  <1>6. ASSUME NEW r \in Records, NEW x \in KnownRevisions, x.rec = r,
               revIndex[<<r, x.version>>] # NULL
        PROVE  Indexed(r, x.version)
    <2>1. x.version \in 1 .. MaxVersion /\ Indexed(r, x.version - 1)
      BY <1>4, <1>6 DEF Dense, OlderVersionsIndexed, Revision
    <2> QED BY <1>6, <2>1, BoundAssumption DEF Indexed
  <1>7. HistoryHasNoHoles'
    <2> SUFFICES ASSUME NEW r \in Records, record'[r] # NULL
                 PROVE  Indexed(r, record[r].version)'
      BY DEF HistoryHasNoHoles, Indexed
    <2>1. CASE record'[r] = record[r]
      <3>1. Indexed(r, record[r].version)
        BY <2>1 DEF Dense, HistoryHasNoHoles, Indexed
      <3>2. record[r].version \in 0 .. MaxVersion
        BY <1>1, <2>1 DEF Typed, TypeOK, Revision
      <3> QED BY <1>3, <2>1, <3>1, <3>2 DEF Indexed
    <2>2. ASSUME NEW p \in Procs, proc[p].pc \in WritesRecord, r = proc[p].rev.rec,
                 record'[r] = proc[p].rev
          PROVE  Indexed(r, record[r].version)'
      <3>1. proc[p].rev \in KnownRevisions /\ proc[p].rev \in Revision
        BY <1>1, <2>2, HandlersKnown, NullAssumption
        DEF Typed, Shape, HandlerOK, WritesRecord, PostJournal
      <3>2. revIndex[<<r, proc[p].rev.version>>] # NULL
        BY <2>2 DEF Dense, OwnVersionIndexed, WritesRecord, PastRevision
      <3>3. Indexed(r, proc[p].rev.version)
        BY <1>6, <2>2, <3>1, <3>2
      <3>4. proc[p].rev.version \in 0 .. MaxVersion
        BY <3>1 DEF Revision
      <3> QED BY <1>3, <2>2, <3>3, <3>4 DEF Indexed
    <2> QED BY <1>1, <2>1, <2>2, NextFrame
  <1>8. OlderVersionsIndexed'
    <2>1. ASSUME NEW x \in KnownRevisions PROVE Indexed(x.rec, x.version - 1)'
      <3>1. x.rec \in Records /\ x.version - 1 \in 0 .. MaxVersion
        BY <1>4, BoundAssumption DEF Revision
      <3>2. Indexed(x.rec, x.version - 1)
        BY DEF Dense, OlderVersionsIndexed
      <3> QED BY <1>3, <3>1, <3>2
    <2>2. ASSUME NEW x, Introduces(x) PROVE Indexed(x.rec, x.version - 1)'
      <3>1. x \in Revision /\ x.version \in 1 .. MaxVersion
        BY <2>2 DEF Introduces, Revision
      <3>2. CASE FirstRevision(x)
        BY <3>1, <3>2 DEF FirstRevision, Indexed
      <3>3. CASE ChildOfCurrent(x)
        <4>1. x.rec \in Records /\ record[x.rec] # NULL
              /\ x.version = record[x.rec].version + 1
          BY <3>3 DEF ChildOfCurrent, Live
        <4>2. record[x.rec].version \in 1 .. MaxVersion
          BY <1>1, <4>1 DEF Typed, TypeOK, Revision
        <4>3. x.version - 1 = record[x.rec].version
          BY <3>1, <4>1, <4>2
        <4>4. Indexed(x.rec, x.version - 1)
          BY <4>1, <4>3 DEF Dense, HistoryHasNoHoles, Indexed
        <4> QED BY <1>3, <4>1, <4>2, <4>3, <4>4
      <3> QED BY <2>2, <3>2, <3>3 DEF Introduces
    <2>3. CASE KnownRevisions' \subseteq KnownRevisions
      BY <2>1, <2>3 DEF OlderVersionsIndexed, Indexed
    <2>4. ASSUME NEW x, Introduces(x) PROVE OlderVersionsIndexed'
      BY <2>1, <2>2, <2>4 DEF OlderVersionsIndexed, Indexed, Introduces
    <2> QED BY <1>1, <2>3, <2>4, NextKnown
  <1> QED BY <1>1, <1>5, <1>7, <1>8 DEF Dense

\* In whatever order handlers overtake each other, no version is skipped.
THEOREM HistoryIsDense == Spec => []HistoryHasNoHoles
  <1>1. Dense => HistoryHasNoHoles
    BY DEF Dense
  <1> QED BY <1>1, DenseInit, DenseNext, PTL DEF Spec

-----------------------------------------------------------------------------
(* One revision per key *)

\* Program points before and after the handler has written its key's entry.
BeforeEntry == PreIntent \cup {"recheck", "writeIntent"}
WithEntry == {"append"} \cup PostJournal

\* A handler has its key to itself; the key has no entry until it writes one, and
\* from then on the entry is about its revision.
OwnsOK(p) ==
    /\ \A q \in Procs : proc[q].key = proc[p].key => q = p
    /\ proc[p].pc \in BeforeEntry => outbox[proc[p].key] = NULL
    /\ proc[p].pc \in WithEntry => /\ outbox[proc[p].key] # NULL
                                   /\ outbox[proc[p].key].rev = proc[p].rev

Owned == \A p \in Procs : proc[p].pc # "idle" => OwnsOK(p)

\* As long as answers to a key are kept, so is its entry, and it is about their event.
AnswersMatch ==
    \A a \in answers : outbox[a.key] # NULL /\ outbox[a.key].rev.event = a.event

Separate == Typed /\ Owned /\ AnswersMatch

\* A step of one handler leaves the keys of the others alone.
LEMMA OwnedMove ==
  ASSUME Separate, NEW p \in Procs, proc[p].pc # "idle",
         \A q \in Procs : q # p => proc'[q] = proc[q],
         \A k \in Keys : k # proc[p].key => outbox'[k] = outbox[k],
         \/ proc'[p] = Idle
         \/ /\ proc'[p].key = proc[p].key
            /\ proc'[p].pc \in BeforeEntry => outbox'[proc[p].key] = NULL
            /\ proc'[p].pc \in WithEntry => /\ outbox'[proc[p].key] # NULL
                                            /\ outbox'[proc[p].key].rev = proc'[p].rev
  PROVE  Owned'
  <1>1. \A q \in Procs : proc[q].pc # "idle" => proc[q].key \in Keys
    BY DEF Separate, Typed, Shape, HandlerOK
  <1>2. \A q \in Procs : proc[q].pc = "idle" => proc[q].key = NULL
    BY DEF Separate, Typed, Shape, HandlerOK, Idle
  <1>3. proc[p].key \in Keys /\ OwnsOK(p)
    BY <1>1 DEF Separate, Owned
  <1>4. NULL \notin Keys
    BY NullAssumption
  <1>5. ASSUME NEW q \in Procs, q # p, proc'[q].pc # "idle" PROVE OwnsOK(q)'
    <2>1. proc'[q] = proc[q] /\ OwnsOK(q) /\ proc[q].key \in Keys /\ proc[q].key # proc[p].key
      BY <1>1, <1>3, <1>5 DEF Separate, Owned, OwnsOK
    <2>2. outbox'[proc[q].key] = outbox[proc[q].key]
      BY <2>1
    <2>3. proc'[p].key # proc[q].key
      BY <1>4, <2>1 DEF Idle
    <2> QED BY <2>1, <2>2, <2>3 DEF OwnsOK
  <1>6. ASSUME proc'[p].pc # "idle" PROVE OwnsOK(p)'
    <2>1. proc'[p].key = proc[p].key
      BY <1>6 DEF Idle
    <2>2. proc'[p] # Idle
      BY <1>6 DEF Idle
    <2> QED BY <1>3, <2>1, <2>2 DEF OwnsOK
  <1> QED BY <1>5, <1>6 DEF Owned

LEMMA SeparateStep ==
  ASSUME Separate, NEW p \in Procs, Step(p), Typed'
  PROVE  Owned' /\ AnswersMatch'
  <1>1. /\ Typed /\ proc[p] \in Handler /\ HandlerOK(proc[p]) /\ proc \in [Procs -> Handler]
        /\ \A q \in Procs : q # p => proc'[q] = proc[q]
    BY StepChangesOne DEF Separate, Typed, TypeOK, Shape
  <1>2. proc[p].pc # "idle"
    BY DEF Step, AllocateRecord, RejectMutation, BuildChild, BeginMutation, WriteIntent,
           AppendRevision, WriteJournaled, ReadForApply, ReadRevision, PutRevision,
           ConfirmRevision, PutListed, PutFiltered, PutRecord, ConfirmRecord,
           OverwriteRecord, RemoveListed, RemoveFiltered, RemoveStale, WriteApplied,
           WriteConflict, WriteReceipt
  <1>3. proc[p].key \in Keys /\ OwnsOK(p)
    BY <1>1, <1>2 DEF HandlerOK, Separate, Owned
  <1>4. CASE AllocateRecord(p) \/ BuildChild(p) \/ RejectMutation(p) \/ BeginMutation(p)
    <2>1. UNCHANGED <<outbox, answers>>
      BY <1>3, <1>4 DEF AllocateRecord, BuildChild, RejectMutation, BeginMutation, OwnsOK,
                        BeforeEntry, kv
    <2>2. \/ proc'[p] = Idle
          \/ proc[p].pc \in BeforeEntry /\ proc'[p].pc \in {"recheck", "writeIntent"}
             /\ proc'[p].key = proc[p].key
      BY <1>1, <1>3, <1>4 DEF AllocateRecord, BuildChild, RejectMutation, BeginMutation,
                              OwnsOK, BeforeEntry, PreIntent, Move, Handler
    <2>3. Owned'
      BY <1>1, <1>2, <1>3, <2>1, <2>2, OwnedMove DEF OwnsOK, WithEntry, PostJournal
    <2> QED BY <2>1, <2>3 DEF Separate, AnswersMatch
  <1>5. CASE WriteIntent(p)
    <2>1. outbox[proc[p].key] = NULL /\ answers' = answers
      BY <1>3, <1>5 DEF WriteIntent, OwnsOK, BeforeEntry
    <2>2. outbox' = [outbox EXCEPT ![proc[p].key] = EntryOf(proc[p], "intent")]
          /\ proc'[p].pc = "append" /\ proc'[p].key = proc[p].key /\ proc'[p].rev = proc[p].rev
      BY <1>1, <1>5 DEF WriteIntent, Move, Handler
    <2>3. EntryOf(proc[p], "intent").rev = proc[p].rev /\ EntryOf(proc[p], "intent") # NULL
      <3>1. EntryOf(proc[p], "intent") \in Entry
        BY <1>1, <1>5, EntryType DEF WriteIntent, Active, PreJournal, Statuses
      <3> QED BY <3>1, EntryNotNull DEF EntryOf
    <2>4. Owned'
      BY <1>1, <1>2, <1>3, <2>2, <2>3, OwnedMove
      DEF Separate, Typed, TypeOK, BeforeEntry, PreIntent
    <2> QED BY <1>1, <2>1, <2>2, <2>4 DEF Separate, AnswersMatch, Typed, TypeOK, Answer
  <1>6. CASE WriteJournaled(p) \/ WriteApplied(p) \/ WriteConflict(p)
    <2>1. PICK status \in Statuses :
            \/ UNCHANGED outbox
            \/ outbox' = [outbox EXCEPT ![proc[p].key] = EntryOf(proc[p], status)]
      BY <1>6 DEF WriteJournaled, WriteApplied, WriteConflict, WriteReceipt, Statuses
    <2>2. proc[p].pc \in WithEntry /\ proc[p].pc \in Active
      BY <1>6 DEF WriteJournaled, WriteApplied, WriteConflict, WriteReceipt, WithEntry,
                  PostJournal, Active
    <2>3. EntryOf(proc[p], status).rev = proc[p].rev /\ EntryOf(proc[p], status) # NULL
      <3>1. EntryOf(proc[p], status) \in Entry
        BY <1>1, <2>2, EntryType
      <3> QED BY <3>1, EntryNotNull DEF EntryOf
    <2>4. \/ proc'[p] = Idle
          \/ proc'[p].key = proc[p].key /\ proc'[p].rev = proc[p].rev /\ proc'[p].pc = "readForApply"
      BY <1>1, <1>6 DEF WriteJournaled, WriteApplied, WriteConflict, WriteReceipt, Move, Handler
    <2>5. /\ outbox'[proc[p].key] # NULL
          /\ outbox'[proc[p].key].rev = proc[p].rev
          /\ \A k \in Keys : k # proc[p].key => outbox'[k] = outbox[k]
      BY <1>1, <1>3, <2>1, <2>2, <2>3 DEF OwnsOK, Typed, TypeOK
    <2>6. Owned'
      BY <1>1, <1>2, <1>3, <2>4, <2>5, OwnedMove DEF BeforeEntry, PreIntent
    <2>7. \A a \in answers' : a \in answers \/ (a.key = proc[p].key /\ a.event = proc[p].rev.event)
      BY <1>6 DEF WriteJournaled, WriteApplied, WriteConflict, WriteReceipt, AnswerFor, EntryOf
    <2>8. ASSUME NEW a \in answers'
          PROVE  outbox'[a.key] # NULL /\ outbox'[a.key].rev.event = a.event
      <3>1. CASE a.key = proc[p].key
        <4>1. a.event = proc[p].rev.event
          BY <1>3, <2>2, <2>7, <3>1 DEF Separate, AnswersMatch, OwnsOK
        <4> QED BY <2>5, <3>1, <4>1
      <3>2. CASE a.key # proc[p].key
        <4>1. a \in answers /\ a.key \in Keys
          BY <1>1, <2>7, <3>2 DEF Typed, TypeOK, Answer
        <4> QED BY <2>5, <3>2, <4>1 DEF Separate, AnswersMatch
      <3> QED BY <3>1, <3>2
    <2> QED BY <2>6, <2>8 DEF AnswersMatch
  <1>7. CASE \/ AppendRevision(p) \/ ReadForApply(p) \/ ReadRevision(p) \/ PutRevision(p)
             \/ ConfirmRevision(p) \/ PutListed(p) \/ PutFiltered(p) \/ PutRecord(p)
             \/ ConfirmRecord(p) \/ OverwriteRecord(p) \/ RemoveListed(p)
             \/ RemoveFiltered(p) \/ RemoveStale(p)
    <2>1. UNCHANGED <<outbox, answers>>
      BY <1>7 DEF AppendRevision, ReadForApply, ReadRevision, PutRevision, ConfirmRevision,
                  PutListed, PutFiltered, PutRecord, ConfirmRecord, OverwriteRecord,
                  RemoveListed, RemoveFiltered, RemoveStale, kv
    <2>2. proc[p].pc \in WithEntry
      BY <1>7 DEF AppendRevision, ReadForApply, ReadRevision, PutRevision, ConfirmRevision,
                  PutListed, PutFiltered, PutRecord, ConfirmRecord, OverwriteRecord,
                  RemoveListed, RemoveFiltered, RemoveStale, WithEntry, PostJournal
    <2>3. proc'[p] = Idle \/ proc'[p].pc \in PostJournal
      <3>1. AfterRevision(proc[p]) \in PostJournal /\ CleanUp(proc[p]) \in PostJournal
        BY NextPoints
      <3>2. CASE AppendRevision(p) \/ ReadForApply(p) \/ PutRevision(p)
        BY <1>1, <3>2 DEF AppendRevision, ReadForApply, PutRevision, Move, Handler, PostJournal
      <3>3. CASE ReadRevision(p) \/ ConfirmRevision(p)
        BY <1>1, <3>1, <3>3 DEF ReadRevision, ConfirmRevision, Move, Handler, PostJournal
      <3>4. CASE PutListed(p) \/ PutRecord(p) \/ OverwriteRecord(p)
        BY <1>1, <3>4 DEF PutListed, PutRecord, OverwriteRecord, Move, Handler, PostJournal
      <3>5. CASE PutFiltered(p) \/ ConfirmRecord(p)
        BY <1>1, <3>1, <3>5 DEF PutFiltered, ConfirmRecord, Move, Handler, PostJournal
      <3>6. CASE RemoveListed(p) \/ RemoveFiltered(p) \/ RemoveStale(p)
        BY <1>1, <3>6 DEF RemoveListed, RemoveFiltered, RemoveStale, Move, Handler, PostJournal
      <3> QED BY <1>7, <3>2, <3>3, <3>4, <3>5, <3>6
    <2>4. proc'[p].pc # "idle" => proc'[p].key = proc[p].key /\ proc'[p].rev = proc[p].rev
      BY <1>1, <1>7
      DEF AppendRevision, ReadForApply, ReadRevision, PutRevision, ConfirmRevision,
          PutListed, PutFiltered, PutRecord, ConfirmRecord, OverwriteRecord,
          RemoveListed, RemoveFiltered, RemoveStale, Move, Handler, Idle
    <2>5. \A pc \in PostJournal : pc \notin BeforeEntry /\ pc # "idle"
      BY DEF PostJournal, BeforeEntry, PreIntent
    <2>6. Owned'
      BY <1>1, <1>2, <1>3, <2>1, <2>2, <2>3, <2>4, <2>5, OwnedMove DEF OwnsOK
    <2> QED BY <2>1, <2>6 DEF Separate, AnswersMatch
  <1> QED BY <1>4, <1>5, <1>6, <1>7 DEF Step

LEMMA SeparateNext == ~OverlappingRetries /\ Separate /\ [Next]_vars => Separate'
  <1> SUFFICES ASSUME ~OverlappingRetries, Separate, [Next]_vars PROVE Owned' /\ AnswersMatch'
    BY TypedNext DEF Separate
  <1>1. Typed /\ Typed' /\ proc \in [Procs -> Handler]
    BY TypedNext DEF Separate, Typed, TypeOK
  <1>2. ASSUME NEW p \in Procs, Step(p) PROVE Owned' /\ AnswersMatch'
    BY <1>1, <1>2, SeparateStep
  <1>3. ASSUME NEW p \in Procs, NEW k \in Keys, MayCall(p, k),
               UNCHANGED outbox, \A q \in Procs : q # p => proc'[q] = proc[q],
               \/ proc'[p] = Idle
               \/ /\ proc'[p].key = k
                  /\ proc'[p].pc \in BeforeEntry => outbox[k] = NULL
                  /\ proc'[p].pc \in WithEntry => outbox[k] # NULL /\ outbox[k].rev = proc'[p].rev
        PROVE  Owned'
    <2>1. \A q \in Procs : proc[q].key # k
      BY <1>3 DEF MayCall
    <2>2. ASSUME NEW q \in Procs, q # p, proc'[q].pc # "idle" PROVE OwnsOK(q)'
      <3>1. proc'[q] = proc[q] /\ OwnsOK(q) /\ proc[q].key \in Keys
        BY <1>1, <1>3, <2>2 DEF Separate, Owned, Typed, Shape, HandlerOK
      <3>2. proc'[p].key # proc[q].key
        BY <1>3, <2>1, <3>1, NullAssumption DEF Idle
      <3> QED BY <1>3, <3>1, <3>2 DEF OwnsOK
    <2>3. ASSUME proc'[p].pc # "idle" PROVE OwnsOK(p)'
      BY <1>3, <2>1, <2>3 DEF OwnsOK, Idle
    <2> QED BY <2>2, <2>3 DEF Owned
  <1>4. ASSUME NEW p \in Procs, NEW k \in Keys, NEW req \in Request, StartMutation(p, k, req)
        PROVE  Owned' /\ AnswersMatch'
    <2>1. UNCHANGED <<outbox, answers>> /\ MayCall(p, k) /\ outbox[k] = NULL
      BY <1>4 DEF StartMutation, kv
    <2>2. /\ proc'[p].key = k
          /\ proc'[p].pc \in {"allocate", "readCurrent"}
          /\ \A q \in Procs : q # p => proc'[q] = proc[q]
      BY <1>1, <1>4 DEF StartMutation, Idle
    <2>3. proc'[p].pc \notin WithEntry
      BY <2>2 DEF WithEntry, PostJournal
    <2> QED BY <1>3, <2>1, <2>2, <2>3 DEF Separate, AnswersMatch
  <1>5. ASSUME NEW p \in Procs, NEW k \in Keys, RetryMutation(p, k)
        PROVE  Owned' /\ AnswersMatch'
    <2>1. UNCHANGED outbox /\ MayCall(p, k) /\ outbox[k] # NULL /\ Resume(p, k, outbox[k])
      BY <1>5 DEF RetryMutation, kv
    <2>2. \A q \in Procs : q # p => proc'[q] = proc[q]
      BY <1>1, <2>1 DEF Resume
    <2>3. \/ proc'[p] = Idle
          \/ /\ proc'[p].key = k
             /\ proc'[p].pc \in {"append", "readForApply"}
             /\ proc'[p].rev = outbox[k].rev
      BY <1>1, <2>1 DEF Resume, Resumed, ResumePoint
    <2>4. Owned'
      BY <1>3, <2>1, <2>2, <2>3 DEF BeforeEntry, PreIntent
    <2>5. \A a \in answers' : a \in answers \/ (a.key = k /\ a.event = outbox[k].rev.event)
      BY <2>1 DEF Resume, AnswerFor
    <2> QED BY <2>1, <2>4, <2>5 DEF Separate, AnswersMatch
  <1>6. ASSUME NEW p \in Procs, FailHandler(p) PROVE Owned' /\ AnswersMatch'
    <2>1. UNCHANGED <<outbox, answers>> /\ proc' = [proc EXCEPT ![p] = Idle] /\ proc[p] # Idle
      BY <1>6 DEF FailHandler, kv
    <2>2. proc[p].pc # "idle"
      BY <1>1, <2>1 DEF Typed, Shape, HandlerOK
    <2>3. proc'[p] = Idle /\ \A q \in Procs : q # p => proc'[q] = proc[q]
      BY <1>1, <2>1
    <2> QED BY <2>1, <2>2, <2>3, OwnedMove DEF Separate, AnswersMatch
  <1>7. ASSUME NEW k \in Keys, ExpireReceipt(k) PROVE Owned' /\ AnswersMatch'
    <2>1. /\ UNCHANGED proc /\ \A p \in Procs : proc[p].key # k
          /\ outbox' = [outbox EXCEPT ![k] = NULL]
          /\ answers' = {a \in answers : a.key # k}
      BY <1>7 DEF ExpireReceipt
    <2>2. \A j \in Keys : j # k => outbox'[j] = outbox[j]
      BY <1>1, <2>1 DEF Typed, TypeOK
    <2>3. ASSUME NEW p \in Procs, proc'[p].pc # "idle" PROVE OwnsOK(p)'
      BY <1>1, <2>1, <2>2, <2>3 DEF Separate, Owned, OwnsOK, Typed, Shape, HandlerOK
    <2>4. AnswersMatch'
      BY <1>1, <2>1, <2>2 DEF Separate, AnswersMatch, Typed, TypeOK, Answer
    <2> QED BY <2>3, <2>4 DEF Owned
  <1>8. CASE UNCHANGED vars
    BY <1>8 DEF vars, kv, Separate, Owned, OwnsOK, AnswersMatch
  <1> QED BY <1>2, <1>4, <1>5, <1>6, <1>7, <1>8 DEF Next, Call, RefuseReusedKey

LEMMA SeparateInit == Init => Separate
  <1> SUFFICES ASSUME Init PROVE Owned /\ AnswersMatch
    BY TypedInit DEF Separate
  <1> QED BY DEF Init, Idle, Owned, AnswersMatch

\* Unless a key is repeated while a handler of it still runs, every definite answer
\* to it within its retention is about one revision, whatever fails in between.
THEOREM OneRevisionPerKeyHolds == ASSUME ~OverlappingRetries PROVE Spec => []OneRevisionPerKey
  <1>1. Separate => OneRevisionPerKey
    BY DEF Separate, AnswersMatch, OneRevisionPerKey
  <1> QED BY <1>1, SeparateInit, SeparateNext, PTL DEF Spec

-----------------------------------------------------------------------------
(* One handler at a time *)

\* Program points where a handler acts on the record it read, and where its own
\* revision is the current one.
ActsOnCurrent == {"readRev", "putRev", "confirmRev", "putListed", "putFiltered", "putRecord"}
Installed == {"confirmRecord", "removeListed", "removeFiltered", "removeStale", "writeApplied"}

Visible(x) == x.rec \in listed /\ <<x.val, x.rec>> \in filtered

\* What a handler has read is still so, a live revision is listed before it becomes
\* current, and what is removed afterwards does not belong to it.
TurnOK(p) ==
    LET h == proc[p] IN
    /\ h.pc \in ActsOnCurrent => /\ record[h.rev.rec] = h.cur
                                 /\ Recovering(h) \/ MayApply(h.cur, h.rev)
    /\ h.pc \in Installed => record[h.rev.rec] = h.rev
    /\ h.pc # "overwriteRecord"
    /\ h.pc \in {"putListed", "putFiltered", "removeStale"} => ~Deleted(h.rev)
    /\ h.pc = "putFiltered" => h.rev.rec \in listed
    /\ h.pc = "putRecord" => ~Recovering(h) /\ (Deleted(h.rev) \/ Visible(h.rev))
    /\ h.pc \in {"removeListed", "removeFiltered"} => Deleted(h.rev)
    /\ h.pc = "removeStale" => Stale(h) # h.rev.val

Turns == \A p \in Procs : TurnOK(p)

LiveVisible ==
    \A r \in Records : Live(record[r]) => r \in listed /\ <<record[r].val, r>> \in filtered

\* The record is at x, at a smaller sibling of x, or past x.
Survives(x) ==
    /\ record[x.rec] # NULL
    /\ \/ record[x.rec].version > x.version
       \/ IsFork(record[x.rec], x) /\ record[x.rec].event <= x.event

AppliedSurvive ==
    \A k \in Keys : outbox[k] # NULL /\ outbox[k].status = "applied" => Survives(outbox[k].rev)

OkSurvive ==
    \A a \in answers : a.kind = "ok" => \E x \in journal : x.event = a.event /\ Survives(x)

Serial == Lines /\ Turns /\ LiveVisible /\ AppliedSurvive /\ OkSurvive

\* The record is replaced by a revision that may replace it.
Replaced(r) ==
    /\ record'[r] \in Revision
    /\ record'[r].rec = r
    /\ MayApply(record[r], record'[r])
    /\ record' = [record EXCEPT ![r] = record'[r]]

LEMMA RevisionFields ==
  ASSUME NEW x \in Revision
  PROVE  /\ x.event \in Nat /\ x.version \in Nat /\ x.rec \in Records /\ x.val \in Vals
         /\ x # NULL
  BY EventAssumption, BoundAssumption, NullAssumption DEF Revision

LEMMA RecordStep ==
  ASSUME Serial, NEW p \in Procs, Step(p)
  PROVE  record' = record \/ \E r \in Records : Replaced(r)
  <1>1. Typed /\ TurnOK(p)
    BY DEF Serial, Lines, Journaled, Turns
  <1>2. CASE PutRecord(p)
    <2> DEFINE x == proc[p].rev
    <2>1. x \in Revision /\ proc[p].pc = "putRecord"
      BY <1>1, <1>2 DEF PutRecord, Typed, Shape, HandlerOK, PostJournal
    <2>2. x.rec \in Records /\ record' = [record EXCEPT ![x.rec] = x]
      BY <1>2, <2>1, RevisionFields DEF PutRecord
    <2>3. MayApply(record[x.rec], x)
      BY <1>1, <2>1 DEF TurnOK, ActsOnCurrent
    <2>4. record'[x.rec] = x
      BY <1>1, <2>2 DEF Typed, TypeOK
    <2> HIDE DEF x
    <2> QED BY <2>1, <2>2, <2>3, <2>4 DEF Replaced
  <1>3. ~OverwriteRecord(p)
    BY <1>1 DEF TurnOK, OverwriteRecord
  <1>4. ~PutRecord(p) => record' = record
    BY <1>3 DEF Step, AllocateRecord, RejectMutation, BuildChild, BeginMutation, WriteIntent,
                AppendRevision, WriteJournaled, ReadForApply, ReadRevision, PutRevision,
                ConfirmRevision, PutListed, PutFiltered, ConfirmRecord, RemoveListed,
                RemoveFiltered, RemoveStale, WriteApplied, WriteConflict, WriteReceipt, kv
  <1> QED BY <1>2, <1>4

LEMMA RecordNext ==
  ASSUME Serial, [Next]_vars
  PROVE  record' = record \/ \E r \in Records : Replaced(r)
  BY RecordStep
  DEF Next, Call, StartMutation, RetryMutation, RefuseReusedKey, FailHandler, ExpireReceipt,
      vars, kv

\* A record never goes back behind a revision that it has reached.
LEMMA SurvivesStays ==
  ASSUME Serial, [Next]_vars, NEW x \in Revision, Survives(x)
  PROVE  Survives(x)'
  <1>1. CASE record' = record
    BY <1>1 DEF Survives
  <1>2. ASSUME NEW r \in Records, Replaced(r) PROVE Survives(x)'
    <2> DEFINE old == record[x.rec]
               new == record'[x.rec]
    <2>1. record \in [Records -> Revision \cup {NULL}]
      BY DEF Serial, Lines, Journaled, Typed, TypeOK
    <2>2. old \in Revision
      BY <2>1, RevisionFields DEF Survives
    <2>3. CASE x.rec # r
      BY <1>2, <2>1, <2>3, RevisionFields DEF Survives, Replaced
    <2>4. CASE x.rec = r
      <3>1. new \in Revision /\ MayApply(old, new)
        BY <1>2, <2>4 DEF Replaced
      <3>2. old # NULL /\ new # NULL
        BY <2>2, <3>1, RevisionFields
      <3> HIDE DEF old, new
      <3>3. \/ new.version = old.version + 1
            \/ new.version = old.version /\ new.parent = old.parent /\ new.event < old.event
        BY <3>1, <3>2 DEF MayApply, IsFork, IsParent
      <3>4. /\ old.version \in Nat /\ new.version \in Nat /\ x.version \in Nat
            /\ old.event \in Nat /\ new.event \in Nat /\ x.event \in Nat
        BY <2>2, <3>1, RevisionFields
      <3>5. \/ old.version > x.version
            \/ old.version = x.version /\ old.parent = x.parent /\ old.event <= x.event
        BY DEF Survives, IsFork, old
      <3>6. \/ new.version > x.version
            \/ new.version = x.version /\ new.parent = x.parent /\ new.event <= x.event
        BY <3>3, <3>4, <3>5
      <3> QED BY <3>2, <3>6 DEF Survives, IsFork, new
    <2> QED BY <2>3, <2>4
  <1> QED BY <1>1, <1>2, RecordNext

\* The handler that has reached the end finds its revision in place.
LEMMA OwnSurvives ==
  ASSUME Serial, NEW p \in Procs, proc[p].pc \in Installed
  PROVE  proc[p].rev \in Revision /\ Survives(proc[p].rev)
  <1>1. proc[p].rev \in Revision
    BY DEF Serial, Lines, Journaled, Typed, Shape, HandlerOK, Installed, PostJournal
  <1>2. record[proc[p].rev.rec] = proc[p].rev
    BY DEF Serial, Turns, TurnOK
  <1> QED BY <1>1, <1>2, RevisionFields DEF Survives, IsFork

-----------------------------------------------------------------------------
(* The turns, action by action *)

\* A handler that recovers has read its own revision.
LEMMA RecoveringOwn ==
  ASSUME Serial, NEW p \in Procs, proc[p].pc \in ActsOnCurrent, Recovering(proc[p])
  PROVE  record[proc[p].rev.rec] = proc[p].rev
  <1>1. Typed /\ TurnOK(p) /\ OneEventOneRevision /\ JournalFirst
    BY DEF Serial, Lines, Journaled, Turns
  <1>2. proc[p].rev \in Revision
    BY <1>1 DEF Typed, Shape, HandlerOK, ActsOnCurrent, PostJournal
  <1>3. record[proc[p].rev.rec] = proc[p].cur /\ proc[p].cur # NULL
        /\ proc[p].cur.event = proc[p].rev.event
    BY <1>1 DEF TurnOK, Recovering
  <1>4. proc[p].cur \in journal
    BY <1>1, <1>2, <1>3, RevisionFields DEF JournalFirst
  <1>5. proc[p].cur \in KnownRevisions /\ proc[p].rev \in KnownRevisions
    BY <1>1, <1>2, <1>4, HandlersKnown, RevisionFields
  <1> QED BY <1>1, <1>3, <1>5 DEF OneEventOneRevision

LEMMA TurnsStep ==
  ASSUME Serial, NEW p \in Procs, Step(p)
  PROVE  TurnOK(p)'
  <1>1. /\ Typed /\ TurnOK(p) /\ proc[p] \in Handler /\ HandlerOK(proc[p])
        /\ proc \in [Procs -> Handler]
    BY DEF Serial, Lines, Journaled, Turns, Typed, TypeOK, Shape
  <1>2. proc[p].pc \in PostJournal => proc[p].rev \in Revision
    BY <1>1 DEF HandlerOK
  <1>3. CASE \/ AllocateRecord(p) \/ RejectMutation(p) \/ BuildChild(p) \/ BeginMutation(p)
             \/ WriteIntent(p) \/ AppendRevision(p) \/ WriteJournaled(p)
             \/ WriteApplied(p) \/ WriteConflict(p)
    <2>1. proc'[p].pc \in {"idle", "recheck", "writeIntent", "append", "writeJournaled",
                           "readForApply"}
      <3>1. CASE BeginMutation(p)
        BY <1>1, <3>1 DEF BeginMutation, Resume, Resumed, ResumePoint, Move, Idle, Handler
      <3>2. CASE ~BeginMutation(p)
        BY <1>1, <1>3, <3>2
        DEF AllocateRecord, RejectMutation, BuildChild, WriteIntent, AppendRevision,
            WriteJournaled, WriteApplied, WriteConflict, WriteReceipt, Move, Idle, Handler
      <3> QED BY <3>1, <3>2
    <2> QED BY <2>1 DEF TurnOK, ActsOnCurrent, Installed
  <1>4. CASE ReadForApply(p)
    <2> DEFINE cur == record[proc[p].rev.rec]
    <2>1. /\ proc'[p].cur = cur /\ proc'[p].rev = proc[p].rev /\ record' = record
          /\ \/ proc'[p].pc = "writeConflict"
             \/ /\ proc'[p].pc = "readRev"
                /\ (cur # NULL /\ cur.event = proc[p].rev.event) \/ MayApply(cur, proc[p].rev)
      BY <1>1, <1>4 DEF ReadForApply, Handler, kv
    <2> HIDE DEF cur
    <2>2. CASE proc'[p].pc = "writeConflict"
      BY <2>2 DEF TurnOK, ActsOnCurrent, Installed
    <2>3. CASE proc'[p].pc = "readRev"
      <3>1. record'[proc'[p].rev.rec] = proc'[p].cur
        BY <2>1 DEF cur
      <3>2. Recovering(proc'[p]) \/ MayApply(proc'[p].cur, proc'[p].rev)
        BY <2>1, <2>3 DEF Recovering
      <3> QED BY <2>3, <3>1, <3>2 DEF TurnOK, Installed
    <2> QED BY <2>1, <2>2, <2>3
  <1>5. CASE ReadRevision(p) \/ PutRevision(p) \/ ConfirmRevision(p)
    <2>1. proc[p].pc \in ActsOnCurrent /\ record' = record
      BY <1>5 DEF ReadRevision, PutRevision, ConfirmRevision, ActsOnCurrent, kv
    <2>2. /\ proc'[p].pc # "idle" => /\ proc'[p].rev = proc[p].rev
                                     /\ proc'[p].cur = proc[p].cur
          /\ proc'[p].pc \in {"idle", "writeConflict", "putRev", "confirmRev", "readRev",
                              AfterRevision(proc[p])}
      BY <1>1, <1>5 DEF ReadRevision, PutRevision, ConfirmRevision, Move, Idle, Handler
    <2>3. CASE proc'[p].pc \in {"idle", "writeConflict"}
      BY <2>3 DEF TurnOK, ActsOnCurrent, Installed
    <2>4. CASE proc'[p].pc \in {"putRev", "confirmRev", "readRev"}
      BY <1>1, <2>1, <2>2, <2>4 DEF TurnOK, Recovering, Installed
    <2>5. CASE proc'[p].pc = "putListed" /\ ~Deleted(proc[p].rev)
      BY <1>1, <2>1, <2>2, <2>5 DEF TurnOK, Recovering, Installed
    <2>6. CASE proc'[p].pc = "removeListed" /\ Deleted(proc[p].rev) /\ Recovering(proc[p])
      <3>1. record'[proc'[p].rev.rec] = proc'[p].rev
        BY <2>1, <2>2, <2>6, RecoveringOwn
      <3> QED BY <2>2, <2>6, <3>1 DEF TurnOK, ActsOnCurrent
    <2>7. CASE proc'[p].pc = "putRecord" /\ Deleted(proc[p].rev) /\ ~Recovering(proc[p])
      BY <1>1, <2>1, <2>2, <2>7 DEF TurnOK, Recovering, Installed
    <2>8. \/ AfterRevision(proc[p]) = "putListed" /\ ~Deleted(proc[p].rev)
          \/ AfterRevision(proc[p]) = "removeListed" /\ Deleted(proc[p].rev) /\ Recovering(proc[p])
          \/ AfterRevision(proc[p]) = "putRecord" /\ Deleted(proc[p].rev) /\ ~Recovering(proc[p])
      BY DEF AfterRevision
    <2> QED BY <2>2, <2>3, <2>4, <2>5, <2>6, <2>7, <2>8
  <1>6. ASSUME proc'[p].pc = CleanUp(proc[p]), proc'[p].rev = proc[p].rev,
               Stale(proc'[p]) = Stale(proc[p]),
               record'[proc[p].rev.rec] = proc[p].rev
        PROVE  TurnOK(p)'
    <2>1. CASE proc'[p].pc = "removeListed" /\ Deleted(proc[p].rev)
      BY <1>6, <2>1 DEF TurnOK, ActsOnCurrent
    <2>2. CASE proc'[p].pc = "removeStale" /\ ~Deleted(proc[p].rev) /\ HasStale(proc[p])
      BY <1>6, <2>2 DEF TurnOK, ActsOnCurrent, HasStale
    <2>3. CASE proc'[p].pc = "writeApplied"
      BY <1>6, <2>3 DEF TurnOK, ActsOnCurrent
    <2> QED BY <1>6, <2>1, <2>2, <2>3 DEF CleanUp
  <1>7. CASE PutListed(p)
    <2>1. proc[p].pc \in ActsOnCurrent /\ record' = record /\ ~Deleted(proc[p].rev)
          /\ proc[p].rev.rec \in listed'
      BY <1>1, <1>7 DEF PutListed, ActsOnCurrent, TurnOK
    <2>2. proc'[p].rev = proc[p].rev /\ proc'[p].cur = proc[p].cur /\ proc'[p].pc = "putFiltered"
      BY <1>1, <1>7 DEF PutListed, Move, Handler
    <2> QED BY <1>1, <2>1, <2>2 DEF TurnOK, Recovering, Installed
  <1>8. CASE PutFiltered(p)
    <2>1. /\ proc[p].pc \in ActsOnCurrent /\ record' = record /\ ~Deleted(proc[p].rev)
          /\ proc[p].rev.rec \in listed' /\ <<proc[p].rev.val, proc[p].rev.rec>> \in filtered'
      BY <1>1, <1>8 DEF PutFiltered, ActsOnCurrent, TurnOK
    <2>2. /\ proc'[p].rev = proc[p].rev /\ proc'[p].cur = proc[p].cur
          /\ proc'[p].prev = proc[p].prev
          /\ proc'[p].pc = IF Recovering(proc[p]) THEN CleanUp(proc[p]) ELSE "putRecord"
      BY <1>1, <1>8 DEF PutFiltered, Move, Handler
    <2>3. CASE Recovering(proc[p])
      <3>1. Stale(proc'[p]) = Stale(proc[p])
        BY <2>2 DEF Stale, Recovering
      <3> QED BY <1>6, <2>1, <2>2, <2>3, <3>1, RecoveringOwn
    <2>4. CASE ~Recovering(proc[p])
      BY <1>1, <2>1, <2>2, <2>4 DEF TurnOK, Recovering, Visible, Installed
    <2> QED BY <2>3, <2>4
  <1>9. CASE PutRecord(p)
    <2>1. proc[p].rev \in Revision
      BY <1>2, <1>9 DEF PutRecord, PostJournal
    <2>2. record'[proc[p].rev.rec] = proc[p].rev
      BY <1>1, <1>9, <2>1, RevisionFields DEF PutRecord, Typed, TypeOK
    <2>3. proc'[p].rev = proc[p].rev /\ proc'[p].pc = "confirmRecord"
      BY <1>1, <1>9 DEF PutRecord, Handler
    <2> QED BY <2>2, <2>3 DEF TurnOK, ActsOnCurrent
  <1>10. CASE ConfirmRecord(p)
    <2>1. proc[p].rev \in Revision
      BY <1>2, <1>10 DEF ConfirmRecord, PostJournal
    <2>2. record' = record /\ record[proc[p].rev.rec] = proc[p].rev
      BY <1>1, <1>10 DEF ConfirmRecord, TurnOK, Installed, kv
    <2>3. /\ proc'[p].rev = proc[p].rev /\ proc'[p].cur = proc[p].cur
          /\ proc'[p].prev = proc[p].prev
          /\ proc'[p].pc = CleanUp(proc[p])
      BY <1>1, <1>10, <2>1, <2>2, RevisionFields DEF ConfirmRecord, Move, Handler
    <2>4. Stale(proc'[p]) = Stale(proc[p])
      BY <2>3 DEF Stale, Recovering
    <2> QED BY <1>6, <2>2, <2>3, <2>4
  <1>11. CASE RemoveListed(p) \/ RemoveFiltered(p) \/ RemoveStale(p)
    <2>1. record' = record /\ record[proc[p].rev.rec] = proc[p].rev
      BY <1>1, <1>11 DEF RemoveListed, RemoveFiltered, RemoveStale, TurnOK, Installed
    <2>2. proc'[p].rev = proc[p].rev
          /\ \/ proc'[p].pc = "writeApplied"
             \/ proc'[p].pc = "removeFiltered" /\ proc[p].pc = "removeListed"
      BY <1>1, <1>11 DEF RemoveListed, RemoveFiltered, RemoveStale, Move, Handler
    <2>3. proc[p].pc = "removeListed" => Deleted(proc[p].rev)
      BY <1>1 DEF TurnOK
    <2> QED BY <2>1, <2>2, <2>3 DEF TurnOK, ActsOnCurrent
  <1>12. ~OverwriteRecord(p)
    BY <1>1 DEF TurnOK, OverwriteRecord
  <1> QED BY <1>3, <1>4, <1>5, <1>7, <1>8, <1>9, <1>10, <1>11, <1>12 DEF Step

-----------------------------------------------------------------------------
(* Lists and acknowledgements *)

LEMMA VisibleStep ==
  ASSUME Serial, NEW p \in Procs, Step(p)
  PROVE  LiveVisible'
  <1>1. /\ Typed /\ TurnOK(p) /\ LiveVisible
        /\ record \in [Records -> Revision \cup {NULL}]
    BY DEF Serial, Lines, Journaled, Turns, Typed, TypeOK
  <1>2. proc[p].pc \in PostJournal => proc[p].rev \in Revision
    BY <1>1 DEF Typed, Shape, HandlerOK
  <1>3. CASE PutRecord(p)
    <2>1. proc[p].rev \in Revision /\ (Deleted(proc[p].rev) \/ Visible(proc[p].rev))
      BY <1>1, <1>2, <1>3 DEF PutRecord, PostJournal, TurnOK
    <2>2. record' = [record EXCEPT ![proc[p].rev.rec] = proc[p].rev]
          /\ UNCHANGED <<listed, filtered>>
      BY <1>3 DEF PutRecord
    <2> QED BY <1>1, <2>1, <2>2 DEF LiveVisible, Visible, Live
  <1>4. CASE RemoveListed(p) \/ RemoveFiltered(p)
    <2>1. /\ record' = record /\ record[proc[p].rev.rec] = proc[p].rev /\ Deleted(proc[p].rev)
          /\ listed \ {proc[p].rev.rec} \subseteq listed'
          /\ \A v, r : <<v, r>> \in filtered /\ r # proc[p].rev.rec => <<v, r>> \in filtered'
      BY <1>1, <1>4 DEF RemoveListed, RemoveFiltered, TurnOK, Installed
    <2> QED BY <1>1, <2>1 DEF LiveVisible, Live
  <1>5. CASE RemoveStale(p)
    <2>1. /\ record' = record /\ record[proc[p].rev.rec] = proc[p].rev /\ listed' = listed
          /\ Stale(proc[p]) # proc[p].rev.val
          /\ \A v, r : <<v, r>> \in filtered /\ (r # proc[p].rev.rec \/ v # Stale(proc[p]))
                          => <<v, r>> \in filtered'
      BY <1>1, <1>5 DEF RemoveStale, TurnOK, Installed
    <2> QED BY <1>1, <2>1 DEF LiveVisible
  <1>6. ~OverwriteRecord(p)
    BY <1>1 DEF TurnOK, OverwriteRecord
  <1>7. ~PutRecord(p) /\ ~RemoveListed(p) /\ ~RemoveFiltered(p) /\ ~RemoveStale(p)
          => record' = record /\ listed \subseteq listed' /\ filtered \subseteq filtered'
    BY <1>6 DEF Step, AllocateRecord, RejectMutation, BuildChild, BeginMutation, WriteIntent,
                AppendRevision, WriteJournaled, ReadForApply, ReadRevision, PutRevision,
                ConfirmRevision, PutListed, PutFiltered, ConfirmRecord, WriteApplied,
                WriteConflict, WriteReceipt, kv
  <1> QED BY <1>1, <1>3, <1>4, <1>5, <1>7 DEF LiveVisible

\* A receipt that says "applied" is written by a handler at its end.
LEMMA AppliedNext ==
  ASSUME Serial, [Next]_vars
  PROVE  AppliedSurvive'
  <1>1. Typed /\ AppliedSurvive
    BY DEF Serial, Lines, Journaled
  <1>2. ASSUME NEW k \in Keys, outbox'[k] = outbox[k], outbox[k] # NULL,
               outbox[k].status = "applied"
        PROVE  Survives(outbox[k].rev)'
    <2>1. PICK x : x = outbox[k].rev
      OBVIOUS
    <2>2. x \in Revision /\ Survives(x)
      BY <1>1, <1>2, <2>1 DEF AppliedSurvive, Typed, TypeOK, Entry
    <2>3. Survives(x)'
      BY <2>2, SurvivesStays
    <2>4. outbox'[k].rev = x
      BY <1>2, <2>1
    <2> QED BY <2>3, <2>4 DEF Survives
  <1>3. ASSUME NEW p \in Procs, WriteApplied(p), NEW k \in Keys, outbox'[k] # outbox[k]
        PROVE  Survives(outbox[k].rev)'
    <2>1. proc[p].pc \in Installed /\ outbox'[k] = EntryOf(proc[p], "applied")
      BY <1>1, <1>3 DEF WriteApplied, WriteReceipt, Installed, Typed, TypeOK
    <2>2. PICK x : x = proc[p].rev
      OBVIOUS
    <2>3. x \in Revision /\ Survives(x)
      BY <2>1, <2>2, OwnSurvives
    <2>4. Survives(x)'
      BY <2>3, SurvivesStays
    <2>5. outbox'[k].rev = x
      BY <2>1, <2>2 DEF EntryOf
    <2> QED BY <2>4, <2>5 DEF Survives
  <1>4. \A k \in Keys : \/ outbox'[k] = outbox[k]
                        \/ outbox'[k] = NULL \/ outbox'[k].status # "applied"
                        \/ \E p \in Procs : WriteApplied(p)
    <2>1. ASSUME NEW p \in Procs, Step(p), ~WriteApplied(p)
          PROVE  \A k \in Keys : outbox'[k] = outbox[k] \/ outbox'[k].status # "applied"
      <3>1. outbox' = outbox \/ \E s \in {"intent", "journaled", "conflict"} :
                                  outbox' = [outbox EXCEPT ![proc[p].key] = EntryOf(proc[p], s)]
        BY <2>1
        DEF Step, AllocateRecord, RejectMutation, BuildChild, BeginMutation, WriteIntent,
            AppendRevision, WriteJournaled, ReadForApply, ReadRevision, PutRevision,
            ConfirmRevision, PutListed, PutFiltered, PutRecord, ConfirmRecord,
            OverwriteRecord, RemoveListed, RemoveFiltered, RemoveStale, WriteConflict,
            WriteReceipt, kv
      <3> QED BY <1>1, <3>1 DEF EntryOf, Typed, TypeOK
    <2>2. ASSUME NEW k \in Keys, ExpireReceipt(k)
          PROVE  \A j \in Keys : outbox'[j] = outbox[j] \/ outbox'[j] = NULL
      BY <1>1, <2>2 DEF ExpireReceipt, Typed, TypeOK
    <2> QED BY <2>1, <2>2 DEF Next, Call, StartMutation, RetryMutation, RefuseReusedKey,
                              FailHandler, vars, kv
  <1> QED BY <1>2, <1>3, <1>4 DEF AppliedSurvive

\* "ok" is answered at the end of a handler, or from a receipt that says "applied".
LEMMA OkNext ==
  ASSUME Serial, [Next]_vars
  PROVE  OkSurvive'
  <1>1. Typed /\ Journaled /\ journal \subseteq journal'
    BY NextFrame DEF Serial, Lines, Journaled
  <1>2. ASSUME NEW x \in Revision, x \in journal, Survives(x)
        PROVE  x \in journal' /\ Survives(x)'
    BY <1>1, <1>2, SurvivesStays
  <1>3. \A a \in answers' : a.kind = "ok" =>
           \E x \in Revision : x \in journal /\ Survives(x) /\ x.event = a.event
    <2>1. ASSUME NEW a \in answers, a.kind = "ok"
          PROVE  \E x \in Revision : x \in journal /\ Survives(x) /\ x.event = a.event
      BY <1>1, <2>1 DEF Serial, OkSurvive, Typed, TypeOK
    <2>2. ASSUME NEW p \in Procs, NEW k \in Keys, outbox[k] # NULL, Resume(p, k, outbox[k]),
                 NEW a \in answers', a \notin answers, a.kind = "ok"
          PROVE  \E x \in Revision : x \in journal /\ Survives(x) /\ x.event = a.event
      <3>1. outbox[k].status = "applied" /\ a.event = outbox[k].rev.event
        BY <2>2 DEF Resume, AnswerFor
      <3>2. outbox[k].rev \in Revision /\ outbox[k].rev \in journal /\ Survives(outbox[k].rev)
        BY <1>1, <2>2, <3>1
        DEF Serial, AppliedSurvive, Journaled, JournalFirst, Typed, TypeOK, Entry
      <3> QED BY <3>1, <3>2
    <2>3. ASSUME NEW p \in Procs, WriteApplied(p), NEW a \in answers', a \notin answers
          PROVE  \E x \in Revision : x \in journal /\ Survives(x) /\ x.event = a.event
      <3>1. proc[p].pc \in Installed /\ proc[p].pc \in PostJournal
            /\ a.event = proc[p].rev.event
        BY <2>3 DEF WriteApplied, WriteReceipt, Installed, PostJournal, AnswerFor, EntryOf
      <3>2. proc[p].rev \in Revision /\ proc[p].rev \in journal /\ Survives(proc[p].rev)
        BY <1>1, <3>1, OwnSurvives DEF Journaled, Appended
      <3> QED BY <3>1, <3>2
    <2>4. ASSUME NEW p \in Procs, Step(p), ~WriteApplied(p), NEW a \in answers', a \notin answers,
                 a.kind = "ok"
          PROVE  \E k \in Keys : outbox[k] # NULL /\ Resume(p, k, outbox[k])
      <3>1. CASE BeginMutation(p)
        <4>1. proc[p].key \in Keys
          BY <1>1, <3>1 DEF BeginMutation, Typed, Shape, HandlerOK
        <4> QED BY <2>4, <3>1, <4>1 DEF BeginMutation
      <3>2. ~WriteConflict(p)
        BY <2>4 DEF WriteConflict, WriteReceipt, AnswerFor
      <3> QED
        BY <2>4, <3>1, <3>2
        DEF Step, AllocateRecord, RejectMutation, BuildChild, WriteIntent,
            AppendRevision, WriteJournaled, ReadForApply, ReadRevision, PutRevision,
            ConfirmRevision, PutListed, PutFiltered, PutRecord, ConfirmRecord,
            OverwriteRecord, RemoveListed, RemoveFiltered, RemoveStale
    <2>5. ASSUME NEW a \in answers', a \notin answers, a.kind = "ok"
          PROVE  \/ \E p \in Procs : Step(p)
                 \/ \E p \in Procs, k \in Keys : outbox[k] # NULL /\ Resume(p, k, outbox[k])
      BY <2>5 DEF Next, Call, StartMutation, RetryMutation, RefuseReusedKey, FailHandler,
                  ExpireReceipt, vars
    <2> QED BY <2>1, <2>2, <2>3, <2>4, <2>5
  <1>4. ASSUME NEW a \in answers', a.kind = "ok"
        PROVE  \E x \in journal' : x.event = a.event /\ Survives(x)'
    BY <1>2, <1>3, <1>4
  <1>5. ASSUME NEW a \in answers', a.kind = "ok"
        PROVE  (\E x \in journal : x.event = a.event /\ Survives(x))'
    <2>1. PICK x \in journal' : x.event = a.event /\ Survives(x)'
      BY <1>4, <1>5
    <2> QED BY <2>1 DEF Survives
  <1> QED BY <1>5 DEF OkSurvive

LEMMA SerialInit == Init => Serial
  <1> SUFFICES ASSUME Init PROVE Turns /\ LiveVisible /\ AppliedSurvive /\ OkSurvive
    BY LinesInit DEF Serial
  <1> QED BY DEF Init, Idle, Turns, TurnOK, ActsOnCurrent, Installed, LiveVisible, Live,
                 AppliedSurvive, OkSurvive

LEMMA SerialNext == (\A p, q \in Procs : p = q) /\ Serial /\ [Next]_vars => Serial'
  <1> SUFFICES ASSUME \A p, q \in Procs : p = q, Serial, [Next]_vars
               PROVE  Turns' /\ LiveVisible'
    BY LinesNext, AppliedNext, OkNext DEF Serial
  <1>1. Typed /\ proc \in [Procs -> Handler]
    BY DEF Serial, Lines, Journaled, Typed, TypeOK
  <1>2. ASSUME NEW p \in Procs, Step(p) PROVE Turns' /\ LiveVisible'
    BY <1>2, TurnsStep, VisibleStep DEF Turns
  <1>3. ASSUME NEW p \in Procs, Call(p) \/ FailHandler(p) PROVE Turns' /\ LiveVisible'
    <2>1. UNCHANGED <<record, listed, filtered>>
      BY <1>3 DEF Call, StartMutation, RetryMutation, RefuseReusedKey, FailHandler, vars, kv
    <2>2. proc' = proc
          \/ proc'[p].pc \in {"idle", "allocate", "readCurrent", "append", "readForApply"}
      <3>1. CASE FailHandler(p)
        BY <1>1, <3>1 DEF FailHandler, Idle
      <3>2. ASSUME NEW k \in Keys, NEW req \in Request, StartMutation(p, k, req)
            PROVE  proc'[p].pc \in {"allocate", "readCurrent"}
        BY <1>1, <3>2 DEF StartMutation, Idle
      <3>3. ASSUME NEW k \in Keys, RetryMutation(p, k)
            PROVE  proc'[p].pc \in {"idle", "append", "readForApply"}
        BY <1>1, <3>3 DEF RetryMutation, Resume, Resumed, ResumePoint, Idle
      <3> QED BY <1>3, <3>1, <3>2, <3>3 DEF Call, RefuseReusedKey, vars
    <2>3. CASE proc' = proc
      BY <2>1, <2>3 DEF Serial, Turns, TurnOK, Recovering, Visible, Stale, LiveVisible
    <2>4. CASE proc'[p].pc \in {"idle", "allocate", "readCurrent", "append", "readForApply"}
      <3>1. TurnOK(p)'
        BY <2>4 DEF TurnOK, ActsOnCurrent, Installed
      <3> QED BY <2>1, <3>1 DEF Turns, Serial, LiveVisible
    <2> QED BY <2>2, <2>3, <2>4
  <1>4. ASSUME UNCHANGED <<record, listed, filtered, proc>> PROVE Turns' /\ LiveVisible'
    BY <1>4 DEF Serial, Turns, TurnOK, LiveVisible, Recovering, Visible, Stale
  <1> QED BY <1>2, <1>3, <1>4 DEF Next, ExpireReceipt, vars, kv

\* Handlers that run one after the other keep lists complete, wherever they fail.
THEOREM LiveRecordsAreListedHolds ==
  ASSUME \A p, q \in Procs : p = q
  PROVE  Spec => []LiveRecordsAreListed
  <1>1. Serial => LiveRecordsAreListed
    BY DEF Serial, LiveVisible, LiveRecordsAreListed, GetDocument, ListDocuments, ListWithValue
  <1> QED BY <1>1, SerialInit, SerialNext, PTL DEF Spec

\* They never undo what was acknowledged, but for the tie-break.
THEOREM AcknowledgedSurvivesHolds ==
  ASSUME \A p, q \in Procs : p = q
  PROVE  Spec => []AcknowledgedSurvives
  <1>1. Serial => AcknowledgedSurvives
    BY DEF Serial, OkSurvive, Survives, AcknowledgedSurvives
  <1> QED BY <1>1, SerialInit, SerialNext, PTL DEF Spec

\* They implement the registers of VersionedRecords, failures and retries included.
THEOREM Refinement ==
  ASSUME \A p, q \in Procs : p = q
  PROVE  Spec => ImplementsVersionedRecords
  <1>1. Init => VR!Init
    BY DEF Init, VR!Init
  <1>2. Serial /\ [Next]_vars => [VR!Next]_record
    <2> SUFFICES ASSUME Serial, [Next]_vars, NEW r \in Records, Replaced(r) PROVE VR!Next
      BY RecordNext
    <2> DEFINE x == record'[r]
    <2>1. Lines' /\ Typed
      BY LinesNext DEF Serial, Lines, Journaled
    <2>2. x \in Revision /\ x.rec = r /\ MayApply(record[r], x)
          /\ record' = [record EXCEPT ![r] = x]
      BY DEF Replaced
    <2>3. x \in KnownRevisions'
      BY <2>1, <2>2, RevisionFields, KnownByPrimed DEF Lines, Journaled, JournalFirst
    <2>4. x.op = "create" => x.version = 1
      BY <2>1, <2>3 DEF Lines, KnownHaveParents, HasParent
    <2>5. x.op \in {"create", "update", "delete"}
      BY <2>2 DEF Revision
    <2>6. record[r] \in Revision \cup {NULL}
      BY <2>1 DEF Typed, TypeOK
    <2> HIDE DEF x
    <2>7. CASE x.op = "create"
      BY <2>2, <2>4, <2>7 DEF MayApply, VR!Create, VR!Next, x
    <2>8. CASE IsFork(record[r], x) /\ x.event < record[r].event /\ x.op # "create"
      BY <2>2, <2>5, <2>8 DEF IsFork, VR!Overtake, VR!Next, x
    <2>9. CASE IsParent(record[r], x) /\ x.op # "create"
      BY <2>2, <2>5, <2>9 DEF IsParent, Live, Deleted, VR!Commit, VR!Next, x
    <2> QED BY <2>2, <2>7, <2>8, <2>9 DEF MayApply
  <1> QED BY <1>1, <1>2, SerialInit, SerialNext, PTL DEF Spec, ImplementsVersionedRecords, VR!Spec

=============================================================================
