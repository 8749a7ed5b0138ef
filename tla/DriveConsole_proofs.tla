-------------------------- MODULE DriveConsole_proofs --------------------------
(***************************************************************************)
(* Theorems about the Drive and its page: acknowledged bytes survive, what *)
(* is in the trash is not served, and the page shows the folder it says it *)
(* is in, for any numbers of handlers, callers, keys, folders and contents.*)
(*                                                                         *)
(* The first two rest on this: a key that is not contended is written by   *)
(* one handler at most, so that what the handler read or was told about it *)
(* still holds at each of its later calls.                                 *)
(***************************************************************************)
EXTENDS DriveConsole, FiniteSetTheorems, SequenceTheorems, TLAPS

-----------------------------------------------------------------------------
(* What a handler knows *)

Patch == [starred : Flag, trashed : Flag]

PutPcs == {"putObject", "answerPut"}
DeletePcs == {"deleteObject", "clearFlags"}
FlagPcs == {"headObject", "readFlags", "writeFlags"}
CopyPcs == {"readSource", "putCopy"}
MovePcs == {"readMovedFlags", "deleteSource", "clearSource"}
FlagMovePcs == {"deleteSource", "clearSource"}
FolderPcs == {"readFolder", "putFolder", "checkEmpty", "removeFolder"}

Pcs == PutPcs \cup DeletePcs \cup FlagPcs \cup CopyPcs \cup MovePcs \cup FolderPcs \cup {"answerCopy"}

\* The locals that each program counter needs; an operation writes only keys it touches.
HandlerOK(e) ==
    /\ {"pc", "by", "touches"} \subseteq DOMAIN e
    /\ e.pc \in Pcs
    /\ e.by \in Callers
    /\ e.pc \in PutPcs \cup DeletePcs =>
        "key" \in DOMAIN e /\ e.key \in Keys /\ e.key \in e.touches
    /\ e.pc \in PutPcs => "content" \in DOMAIN e /\ e.content \in Contents
    /\ e.pc \in FlagPcs \cup FlagMovePcs =>
        /\ {"items", "patch"} \subseteq DOMAIN e
        /\ e.items \in Seq(Keys) /\ e.items # <<>>
        /\ ToSet(e.items) \subseteq e.touches
        /\ e.patch \in Patch
    /\ e.pc \in CopyPcs \cup MovePcs =>
        /\ {"from", "to"} \subseteq DOMAIN e
        /\ e.from \in Keys /\ e.to \in Keys /\ e.from # e.to
        /\ e.from \in e.touches /\ e.to \in e.touches
    /\ e.pc \in CopyPcs => "move" \in DOMAIN e
    /\ e.pc = "putCopy" => "content" \in DOMAIN e
    /\ e.pc \in FlagMovePcs => e.patch.trashed # FALSE

\* A request of the page names keys.
CallOK(call) ==
    /\ call.do = "flags" => call.items \in Seq(Keys) /\ call.patch \in Patch
    /\ call.do = "delete" => call.key \in Keys
    /\ call.do = "move" => call.key \in Keys

CallsOK(calls) == calls \in Seq({c \in ToSet(calls) : CallOK(c)})

PageTyped ==
    /\ {"mode", "path", "keys", "folders", "loading"} \subseteq DOMAIN view
    /\ view.keys \subseteq Keys
    /\ view.folders \subseteq Folders
    /\ CallsOK(todo)

Typed ==
    /\ DOMAIN proc = Procs
    /\ \A p \in Procs : proc[p] # Idle => HandlerOK(proc[p])
    /\ DOMAIN object = Keys
    /\ DOMAIN flags = Keys
    /\ DOMAIN answer = Callers
    /\ trashed \subseteq Keys
    /\ uploaded \subseteq Contents

Disjoint ==
    \A p, q \in Busy : p # q => proc[p].touches \cap proc[q].touches \subseteq contended

-----------------------------------------------------------------------------
(* The trash *)

Hidden == trashed \ contended

Flagged == \A k \in Hidden : flags[k].trashed = TRUE

\* A request that takes a key out of the trash, or that writes flags as they were.
TrashTurn(e) ==
    /\ e.pc \in DeletePcs => e.key \notin Hidden
    /\ e.pc \in CopyPcs => (e.move => e.from \notin Hidden)
    /\ e.pc \in MovePcs => e.from \notin Hidden
    /\ e.pc \in FlagPcs /\ e.patch.trashed = FALSE => ToSet(e.items) \cap Hidden = {}
    /\ e.pc = "writeFlags" =>
        /\ e.patch.trashed = TRUE => e.next.trashed = TRUE
        /\ Head(e.items) \in Hidden => e.next.trashed = TRUE

TrashKept == Flagged /\ \A p \in Busy : TrashTurn(proc[p])

-----------------------------------------------------------------------------
(* The bytes *)

\* Nothing is lost with what is under k.
Given(k) == object[k] \in discarded \cup {NULL}

\* Nor by a copy, which may be repeated and find what it put there before.
Replaceable(from, to) == Given(to) \/ object[to] = object[from]

\* What a request is to replace or delete was given up, or is somewhere else by then.
BytesTurn(e) ==
    /\ e.pc \in {"putObject", "deleteObject"} => Given(e.key)
    /\ e.pc = "answerPut" => object[e.key] = e.content
    /\ e.pc = "readSource" /\ object[e.from] # NULL => Replaceable(e.from, e.to)
    /\ e.pc = "putCopy" => Replaceable(e.from, e.to) /\ object[e.from] = e.content
    /\ e.pc \in {"readMovedFlags", "deleteSource"} => object[e.to] = object[e.from]

BytesKept == contended = {} => BytesSurvive /\ \A p \in Busy : BytesTurn(proc[p])

-----------------------------------------------------------------------------
(* The page *)

\* As long as lists did not cross, the only one on its way is of the place the page
\* is at, and none is once the page shows its list.
PageKept ==
    ~crossed =>
        /\ \A place \in lists : place = Here
        /\ ~view.loading => lists = {}
        /\ ~view.loading /\ view.mode = "folder" => \A k \in view.keys : Front(k) = view.path

DriveKept == Typed /\ Disjoint /\ TrashKept /\ BytesKept

Inv == DriveKept /\ PageTyped


-----------------------------------------------------------------------------
(* A step of a handler *)

USE DEF Pcs, PutPcs, DeletePcs, FlagPcs, CopyPcs, MovePcs, FlagMovePcs, FolderPcs

\* Other handlers stay as they are.
Alone(p) ==
    /\ DOMAIN proc' = Procs
    /\ \A q \in Procs \ {p} : proc'[q] = proc[q]
    /\ DOMAIN answer' = Callers

\* Keys that a handler does not touch stay as they are.
Effect(p) ==
    /\ DOMAIN object' = Keys
    /\ DOMAIN flags' = Keys
    /\ contended' = contended
    /\ discarded' = discarded
    /\ uploaded' \subseteq Contents
    /\ trashed' \subseteq Keys
    /\ \A k \in Keys \ proc[p].touches :
        /\ object'[k] = object[k]
        /\ flags'[k] = flags[k]
        /\ k \in trashed' <=> k \in trashed
    /\ Flagged'
    /\ contended = {} => BytesSurvive'

\* h may follow e, for one handler.
Follows(h, e) ==
    h # Idle => /\ HandlerOK(h) /\ h.touches = e.touches
                /\ TrashTurn(h)
                /\ contended = {} => BytesTurn(h)

Stepped(p) ==
    /\ Alone(p)
    /\ Effect(p)
    /\ \A e, h : e = proc[p] /\ h = proc'[p] => Follows(h, e)'

\* A handler that goes on keeps what it knows and learns more.
LEMMA GoesOn ==
    ASSUME NEW p \in Procs, DOMAIN proc = Procs, DOMAIN answer = Callers, HandlerOK(proc[p]),
           NEW pc, NEW more, Goes(p, pc, more), "pc" \notin DOMAIN more,
           NEW e, e = proc[p], NEW h, h = proc'[p]
    PROVE  /\ Alone(p)
           /\ answer' = answer
           /\ h.pc = pc
           /\ DOMAIN e \cup DOMAIN more \subseteq DOMAIN h
           /\ \A x \in DOMAIN more : h[x] = more[x]
           /\ \A x \in DOMAIN e : x # "pc" /\ x \notin DOMAIN more => h[x] = e[x]
  BY DEF Goes, Knowing, HandlerOK, Alone

LEMMA GoesOnAs ==
    ASSUME NEW p \in Procs, DOMAIN proc = Procs, DOMAIN answer = Callers, HandlerOK(proc[p]),
           NEW pc, Goes(p, pc, NoMore), NEW e, e = proc[p], NEW h, h = proc'[p]
    PROVE  /\ Alone(p)
           /\ answer' = answer
           /\ h.pc = pc
           /\ DOMAIN e \subseteq DOMAIN h
           /\ \A x \in DOMAIN e : x # "pc" => h[x] = e[x]
  <1>1. DOMAIN NoMore = {}
    BY DEF NoMore
  <1> QED BY <1>1, GoesOn

LEMMA AnswerEnds ==
    ASSUME NEW p \in Procs, DOMAIN proc = Procs, DOMAIN answer = Callers, HandlerOK(proc[p]),
           NEW result, Answer(p, result)
    PROVE  /\ Alone(p)
           /\ proc'[p] = Idle
           /\ answer'[proc[p].by] = result
  BY DEF Answer, Finish, HandlerOK, Alone

\* What a busy handler may rely on.
Ready(p, e) ==
    /\ Typed /\ TrashKept /\ BytesKept
    /\ e = proc[p] /\ e # Idle
    /\ HandlerOK(e) /\ TrashTurn(e) /\ (contended = {} => BytesTurn(e))

LEMMA IsReady ==
    ASSUME Typed, TrashKept, BytesKept, NEW p \in Procs, proc[p] # Idle
    PROVE  \A e : e = proc[p] => Ready(p, e)
  BY DEF Typed, TrashKept, BytesKept, Busy, Ready

\* A call that only reads.
LEMMA ReadEffect ==
    ASSUME NEW p \in Procs, Typed, TrashKept, BytesKept,
           UNCHANGED <<object, flags, contended, discarded, trashed, uploaded>>
    PROVE  Effect(p)
  BY DEF Effect, Typed, TrashKept, BytesKept, Flagged, Hidden, BytesSurvive

LEMMA SameTurns ==
    ASSUME UNCHANGED <<object, flags, contended, discarded, trashed>>, NEW h
    PROVE  /\ TrashTurn(h)' <=> TrashTurn(h)
           /\ BytesTurn(h)' <=> BytesTurn(h)
  BY DEF TrashTurn, BytesTurn, Hidden, Given, Replaceable

\* A request that ends.
LEMMA EndStep ==
    ASSUME NEW p \in Procs, NEW e, Ready(p, e), NEW result, Answer(p, result), Effect(p)
    PROVE  Stepped(p)
  BY AnswerEnds DEF Ready, Typed, Stepped, Follows


\* A call that only reads, after which the handler goes on as it was.
LEMMA ReadOnStep ==
    ASSUME NEW p \in Procs, NEW e, Ready(p, e), NEW pc, Goes(p, pc, NoMore),
           UNCHANGED <<object, flags, contended, discarded, trashed, uploaded>>,
           \A h : /\ h.pc = pc /\ DOMAIN e \subseteq DOMAIN h
                  /\ \A x \in DOMAIN e : x # "pc" => h[x] = e[x]
                  => Follows(h, e)
    PROVE  Stepped(p)
  <1>1. Effect(p)
    BY ReadEffect DEF Ready
  <1> SUFFICES ASSUME NEW h, h = proc'[p]
               PROVE  Alone(p) /\ Follows(h, e)'
    BY <1>1 DEF Stepped, Ready
  <1>2. /\ Alone(p) /\ h.pc = pc /\ DOMAIN e \subseteq DOMAIN h
        /\ \A x \in DOMAIN e : x # "pc" => h[x] = e[x]
    BY GoesOnAs DEF Ready, Typed
  <1> QED BY <1>2, SameTurns DEF Follows

LEMMA FolderSteps ==
    ASSUME NEW p \in Procs, NEW e, Ready(p, e),
           ReadFolder(p) \/ PutFolder(p) \/ CheckEmpty(p) \/ RemoveFolder(p)
    PROVE  Stepped(p)
  <1>1. UNCHANGED <<object, flags, contended, discarded, trashed, uploaded>> /\ e.pc \in FolderPcs
    BY DEF Ready, ReadFolder, PutFolder, CheckEmpty, RemoveFolder, Reads, WritesFolder
  <1>2. Effect(p)
    BY <1>1, ReadEffect DEF Ready
  <1>3. ASSUME NEW pc \in FolderPcs, Goes(p, pc, NoMore)
        PROVE  Stepped(p)
    <2> SUFFICES ASSUME NEW h, h.pc = pc, DOMAIN e \subseteq DOMAIN h,
                        \A x \in DOMAIN e : x # "pc" => h[x] = e[x]
                 PROVE  Follows(h, e)
      BY <1>1, <1>3, ReadOnStep
    <2>1. h.by = e.by /\ h.touches = e.touches
      BY DEF Ready, HandlerOK
    <2> QED BY <2>1 DEF Ready, HandlerOK, Follows, TrashTurn, BytesTurn
  <1>4. \/ \E result : Answer(p, result)
        \/ \E pc \in FolderPcs : Goes(p, pc, NoMore)
    BY DEF ReadFolder, PutFolder, CheckEmpty, RemoveFolder, Reads, WritesFolder, Read, Write, Fail
  <1> QED BY <1>2, <1>3, <1>4, EndStep

LEMMA AnswerSteps ==
    ASSUME NEW p \in Procs, NEW e, Ready(p, e), AnswerPut(p) \/ AnswerCopy(p)
    PROVE  Stepped(p)
  <1>1. CASE AnswerPut(p)
    <2>1. /\ UNCHANGED <<object, flags, contended, discarded, trashed>>
          /\ e.pc = "answerPut" /\ \E result : Answer(p, result)
          /\ uploaded' = uploaded \/ uploaded' = uploaded \cup {e.content}
      BY <1>1 DEF AnswerPut, Ready, Reads, Read, Fail
    <2>2. e.content \in Contents /\ e.key \in Keys /\ (contended = {} => object[e.key] = e.content)
      BY <2>1 DEF Ready, HandlerOK, BytesTurn
    <2>3. Flagged' /\ (contended = {} => BytesSurvive')
      BY <2>1, <2>2 DEF Ready, TrashKept, BytesKept, BytesSurvive, Flagged, Hidden
    <2>4. Effect(p)
      BY <2>1, <2>2, <2>3 DEF Effect, Ready, Typed
    <2> QED BY <2>1, <2>4, EndStep
  <1>2. CASE AnswerCopy(p)
    <2>1. Effect(p)
      BY <1>2, ReadEffect DEF AnswerCopy, Ready, Reads
    <2> QED BY <1>2, <2>1, EndStep DEF AnswerCopy, Reads, Read, Fail
  <1> QED BY <1>1, <1>2

-----------------------------------------------------------------------------
(* Puts and deletions *)

LEMMA PutObjectStep ==
    ASSUME NEW p \in Procs, NEW e, Ready(p, e), PutObject(p)
    PROVE  Stepped(p)
  <1>1. /\ e.pc = "putObject" /\ UNCHANGED <<flags, contended, uploaded, discarded, trashed>>
        /\ \/ object' = object /\ Fail(p)
           \/ object' = [object EXCEPT ![e.key] = e.content] /\ (Fail(p) \/ Goes(p, "answerPut", NoMore))
    BY DEF PutObject, WritesObject, Write, Ready
  <1>2. /\ e.key \in Keys /\ e.key \in e.touches /\ e.content \in Contents
        /\ contended = {} => Given(e.key) /\ BytesSurvive
        /\ DOMAIN object = Keys /\ uploaded \subseteq Contents
    BY <1>1 DEF Ready, HandlerOK, BytesTurn, BytesKept, Typed
  <1>3. contended = {} => BytesSurvive'
    BY <1>1, <1>2, ConsoleAssumption DEF BytesSurvive, Given
  <1>4. Effect(p)
    BY <1>1, <1>2, <1>3 DEF Effect, Ready, Typed, TrashKept, Flagged, Hidden
  <1>5. CASE Goes(p, "answerPut", NoMore) /\ object' = [object EXCEPT ![e.key] = e.content]
    <2> SUFFICES ASSUME NEW h, h = proc'[p]
                 PROVE  Alone(p) /\ Follows(h, e)'
      BY <1>4 DEF Stepped, Ready
    <2>1. /\ Alone(p) /\ h.pc = "answerPut" /\ DOMAIN e \subseteq DOMAIN h
          /\ \A x \in DOMAIN e : x # "pc" => h[x] = e[x]
      BY <1>5, GoesOnAs DEF Ready, Typed
    <2>2. h.by = e.by /\ h.touches = e.touches /\ h.key = e.key /\ h.content = e.content
      BY <1>1, <2>1 DEF Ready, HandlerOK
    <2>3. HandlerOK(h)
      BY <1>1, <2>1, <2>2 DEF Ready, HandlerOK
    <2>4. object'[h.key] = h.content
      BY <1>2, <1>5, <2>2
    <2> QED BY <2>1, <2>2, <2>3, <2>4 DEF Follows, TrashTurn, BytesTurn
  <1> QED BY <1>1, <1>4, <1>5, EndStep DEF Fail


LEMMA DeleteObjectStep ==
    ASSUME NEW p \in Procs, NEW e, Ready(p, e), DeleteObject(p)
    PROVE  Stepped(p)
  <1>1. CASE object[e.key] = NULL /\ Reads(p, Fail(p)) /\ UNCHANGED uploaded
    <2>1. Effect(p)
      BY <1>1, ReadEffect DEF Reads, Ready
    <2> QED BY <1>1, <2>1, EndStep DEF Reads, Read, Fail
  <1>2. CASE WritesObject(p, e.key, NULL, Goes(p, "clearFlags", NoMore))
    <2>1. /\ e.pc = "deleteObject" /\ UNCHANGED <<flags, contended, uploaded, discarded, trashed>>
          /\ \/ object' = object /\ Fail(p)
             \/ object' = [object EXCEPT ![e.key] = NULL] /\ (Fail(p) \/ Goes(p, "clearFlags", NoMore))
      BY <1>2 DEF DeleteObject, WritesObject, Write, Ready
    <2>2. /\ e.key \in Keys /\ e.key \in e.touches /\ e.key \notin Hidden
          /\ contended = {} => Given(e.key) /\ BytesSurvive
          /\ DOMAIN object = Keys /\ uploaded \subseteq Contents
      BY <2>1 DEF Ready, HandlerOK, TrashTurn, BytesTurn, BytesKept, Typed
    <2>3. contended = {} => BytesSurvive'
      BY <2>1, <2>2, ConsoleAssumption DEF BytesSurvive, Given
    <2>4. Effect(p)
      BY <2>1, <2>2, <2>3 DEF Effect, Ready, Typed, TrashKept, Flagged, Hidden
    <2>5. CASE Goes(p, "clearFlags", NoMore)
      <3> SUFFICES ASSUME NEW h, h = proc'[p]
                   PROVE  Alone(p) /\ Follows(h, e)'
        BY <2>4 DEF Stepped, Ready
      <3>1. /\ Alone(p) /\ h.pc = "clearFlags" /\ DOMAIN e \subseteq DOMAIN h
            /\ \A x \in DOMAIN e : x # "pc" => h[x] = e[x]
        BY <2>5, GoesOnAs DEF Ready, Typed
      <3>2. h.by = e.by /\ h.touches = e.touches /\ h.key = e.key
        BY <2>1, <3>1 DEF Ready, HandlerOK
      <3>3. HandlerOK(h)
        BY <2>1, <3>1, <3>2 DEF Ready, HandlerOK
      <3>4. h.key \notin Hidden'
        BY <2>1, <2>2, <3>2 DEF Hidden
      <3> QED BY <3>1, <3>2, <3>3, <3>4 DEF Follows, TrashTurn, BytesTurn
    <2> QED BY <2>1, <2>4, <2>5, EndStep DEF Fail
  <1> QED BY <1>1, <1>2 DEF DeleteObject, Ready

\* A write of the flags of a key that is in no trash, or that stays in it.
LEMMA FlagsEffect ==
    ASSUME NEW p \in Procs, NEW e, Ready(p, e), NEW k \in e.touches, NEW f,
           UNCHANGED <<object, contended, uploaded, discarded>>,
           \/ flags' = flags /\ trashed' = trashed
           \/ /\ flags' = [flags EXCEPT ![k] = f]
              /\ \/ trashed' = trashed /\ (k \in Hidden => f.trashed = TRUE)
                 \/ trashed' = trashed \cup {k} /\ f.trashed = TRUE,
           k \in Keys
    PROVE  Effect(p)
  <1>1. Flagged'
    BY DEF Ready, TrashKept, Typed, Flagged, Hidden
  <1>2. contended = {} => BytesSurvive'
    BY DEF Ready, BytesKept, BytesSurvive
  <1> QED BY <1>1, <1>2 DEF Effect, Ready, Typed

LEMMA ClearFlagsStep ==
    ASSUME NEW p \in Procs, NEW e, Ready(p, e), ClearFlags(p)
    PROVE  Stepped(p)
  <1>1. /\ e.pc = "clearFlags" /\ UNCHANGED <<object, contended, uploaded, discarded, trashed>>
        /\ flags' = flags \/ flags' = [flags EXCEPT ![e.key] = NoFlags]
        /\ \E result : Answer(p, result)
    BY DEF ClearFlags, WritesFlags, Write, Ready, Fail
  <1>2. e.key \in Keys /\ e.key \in e.touches /\ e.key \notin Hidden
    BY <1>1 DEF Ready, HandlerOK, TrashTurn
  <1>3. Effect(p)
    BY <1>1, <1>2, FlagsEffect
  <1> QED BY <1>1, <1>3, EndStep

-----------------------------------------------------------------------------
(* Sequences *)

LEMMA SetToSeqIn ==
    ASSUME NEW S, IsFiniteSet(S)
    PROVE  SetToSeq(S) \in Seq(S)
  <1>1. Cardinality(S) \in Nat /\ ExistsBijection(1 .. Cardinality(S), S)
    BY FS_NatBijection, FS_CardinalityType
  <1>2. \E f \in [1 .. Cardinality(S) -> S] : IsInjective(f)
    BY <1>1 DEF ExistsBijection, Bijection, Injection, IsInjective
  <1>3. SetToSeq(S) \in [1 .. Cardinality(S) -> S]
    BY <1>2 DEF SetToSeq
  <1> QED BY <1>1, <1>3, SeqDef

-----------------------------------------------------------------------------
(* Flags *)

LEMMA TailOf ==
    ASSUME NEW s \in Seq(Keys), Len(s) > 1
    PROVE  /\ Tail(s) \in Seq(Keys) /\ Tail(s) # <<>>
           /\ ToSet(Tail(s)) \subseteq ToSet(s)
  <1>1. /\ Tail(s) \in Seq(Keys) /\ Tail(s) # <<>>
        /\ DOMAIN Tail(s) = 1 .. Len(s) - 1 /\ DOMAIN s = 1 .. Len(s) /\ Len(s) \in Nat
        /\ \A i \in 1 .. Len(s) - 1 : Tail(s)[i] = s[i + 1] /\ i + 1 \in 1 .. Len(s)
    <2>1. Len(s) \in Nat /\ DOMAIN s = 1 .. Len(s) /\ s # <<>>
      OBVIOUS
    <2>2. /\ Tail(s) \in Seq(Keys) /\ Len(Tail(s)) = Len(s) - 1
          /\ \A i \in 1 .. Len(Tail(s)) : Tail(s)[i] = s[i + 1]
      BY <2>1, HeadTailProperties
    <2>3. Tail(s) # <<>>
      <3> SUFFICES ASSUME Tail(s) = <<>> PROVE FALSE
        OBVIOUS
      <3>1. Len(Tail(s)) = Len(<<>>)
        OBVIOUS
      <3>2. Len(<<>>) = 0
        BY EmptySeq
      <3> QED BY <2>1, <2>2, <3>1, <3>2
    <2>4. DOMAIN Tail(s) = 1 .. Len(Tail(s))
      BY <2>2
    <2> QED BY <2>1, <2>2, <2>3, <2>4
  <1> QED BY <1>1 DEF ToSet

LEMMA HeadOf ==
    ASSUME NEW s \in Seq(Keys), s # <<>>
    PROVE  Head(s) \in Keys /\ Head(s) \in ToSet(s)
  BY DEF ToSet

\* After a key the request goes on to the next, to its answer, or ends.
LEMMA FlagsWrittenStep ==
    ASSUME NEW p \in Procs, NEW e, Ready(p, e), e.pc \in {"headObject", "writeFlags"},
           FlagsWritten(p), Effect(p),
           e.patch.trashed = FALSE => trashed' \subseteq trashed
    PROVE  Stepped(p)
  <1>0. /\ contended' = contended /\ DOMAIN proc = Procs /\ DOMAIN answer = Callers
        /\ HandlerOK(e) /\ e = proc[p]
    BY DEF Effect, Ready, Typed
  <1>1. CASE Len(e.items) > 1 /\ Goes(p, "headObject", [items |-> Tail(e.items)])
    <2> SUFFICES ASSUME NEW h, h = proc'[p]
                 PROVE  Alone(p) /\ Follows(h, e)'
      BY <1>0 DEF Stepped
    <2> DEFINE more == [items |-> Tail(e.items)]
    <2>0. DOMAIN more = {"items"} /\ more["items"] = Tail(e.items)
      OBVIOUS
    <2> HIDE DEF more
    <2>1. /\ Alone(p) /\ h.pc = "headObject" /\ DOMAIN e \subseteq DOMAIN h /\ "items" \in DOMAIN h
          /\ h["items"] = Tail(e.items)
          /\ \A x \in DOMAIN e : x # "pc" /\ x # "items" => h[x] = e[x]
      <3>1. Goes(p, "headObject", more)
        BY <1>1 DEF more
      <3>2. "pc" \notin DOMAIN more
        BY <2>0
      <3>3. /\ Alone(p) /\ h.pc = "headObject" /\ DOMAIN e \cup DOMAIN more \subseteq DOMAIN h
            /\ \A x \in DOMAIN more : h[x] = more[x]
            /\ \A x \in DOMAIN e : x # "pc" /\ x \notin DOMAIN more => h[x] = e[x]
        BY <1>0, <3>1, <3>2, GoesOn
      <3> QED BY <2>0, <3>3
    <2>2. h.by = e.by /\ h.touches = e.touches /\ h.patch = e.patch /\ h.items = Tail(e.items)
      BY <1>0, <2>1 DEF HandlerOK
    <2>3. /\ h.items \in Seq(Keys) /\ h.items # <<>>
          /\ ToSet(h.items) \subseteq ToSet(e.items)
      BY <1>0, <1>1, <2>2, TailOf DEF HandlerOK
    <2>4. HandlerOK(h)
      BY <1>0, <2>1, <2>2, <2>3 DEF HandlerOK
    <2>5. h.patch.trashed = FALSE => ToSet(h.items) \cap Hidden' = {}
      BY <1>0, <2>2, <2>3 DEF Ready, TrashTurn, Hidden
    <2> QED BY <2>1, <2>2, <2>4, <2>5 DEF Follows, TrashTurn, BytesTurn
  <1>2. CASE Goes(p, "answerCopy", NoMore)
    <2> SUFFICES ASSUME NEW h, h = proc'[p]
                 PROVE  Alone(p) /\ Follows(h, e)'
      BY <1>0 DEF Stepped
    <2>1. /\ Alone(p) /\ h.pc = "answerCopy" /\ DOMAIN e \subseteq DOMAIN h
          /\ \A x \in DOMAIN e : x # "pc" => h[x] = e[x]
      BY <1>0, <1>2, GoesOnAs
    <2>2. h.by = e.by /\ h.touches = e.touches
      BY <1>0, <2>1 DEF HandlerOK
    <2>3. HandlerOK(h)
      BY <1>0, <2>1, <2>2 DEF HandlerOK
    <2> QED BY <2>1, <2>2, <2>3 DEF Follows, TrashTurn, BytesTurn
  <1>3. CASE Answer(p, "ok")
    BY <1>3, EndStep
  <1> QED BY <1>0, <1>1, <1>2, <1>3 DEF FlagsWritten


LEMMA HeadObjectStep ==
    ASSUME NEW p \in Procs, NEW e, Ready(p, e), HeadObject(p)
    PROVE  Stepped(p)
  <1>1. /\ e.pc = "headObject"
        /\ UNCHANGED <<object, flags, contended, discarded, trashed, uploaded>>
    BY DEF HeadObject, Reads, Ready
  <1>2. Effect(p)
    BY <1>1, ReadEffect DEF Ready
  <1>3. CASE Goes(p, "readFlags", NoMore)
    <2> SUFFICES ASSUME NEW h, h.pc = "readFlags", DOMAIN e \subseteq DOMAIN h,
                        \A x \in DOMAIN e : x # "pc" => h[x] = e[x]
                 PROVE  Follows(h, e)
      BY <1>1, <1>3, ReadOnStep
    <2>1. h.by = e.by /\ h.touches = e.touches /\ h.items = e.items /\ h.patch = e.patch
      BY <1>1 DEF Ready, HandlerOK
    <2> QED BY <1>1, <2>1 DEF Ready, HandlerOK, Follows, TrashTurn, BytesTurn
  <1>4. CASE FlagsWritten(p)
    BY <1>1, <1>2, <1>4, FlagsWrittenStep
  <1>5. CASE Fail(p)
    BY <1>2, <1>5, EndStep DEF Fail
  <1> QED BY <1>3, <1>4, <1>5 DEF HeadObject, Reads, Read

LEMMA ReadFlagsStep ==
    ASSUME NEW p \in Procs, NEW e, Ready(p, e), ReadFlags(p)
    PROVE  Stepped(p)
  <1>1. /\ e.pc = "readFlags"
        /\ UNCHANGED <<object, flags, contended, discarded, trashed, uploaded>>
    BY DEF ReadFlags, Reads, Ready
  <1>2. Effect(p)
    BY <1>1, ReadEffect DEF Ready
  <1> DEFINE f == Patched(flags[Head(e.items)], e.patch)
             more == [next |-> f]
  <1>3. CASE Goes(p, "writeFlags", more)
    <2> SUFFICES ASSUME NEW h, h = proc'[p]
                 PROVE  Alone(p) /\ Follows(h, e)'
      BY <1>2 DEF Stepped, Ready
    <2>0. DOMAIN more = {"next"} /\ more["next"] = f
      OBVIOUS
    <2>1. /\ Head(e.items) \in Hidden => flags[Head(e.items)].trashed = TRUE
          /\ Head(e.items) \in ToSet(e.items)
          /\ e.patch.trashed \in {TRUE, FALSE, NULL} /\ NULL # TRUE /\ NULL # FALSE
          /\ e.patch.trashed = FALSE => Head(e.items) \notin Hidden
      BY <1>1, HeadOf, ConsoleAssumption
         DEF Ready, HandlerOK, TrashKept, Flagged, TrashTurn, Patch, Flag
    <2>2. /\ e.patch.trashed = TRUE => f.trashed = TRUE
          /\ Head(e.items) \in Hidden => f.trashed = TRUE
      BY <2>1 DEF Patched
    <2> HIDE DEF f, more
    <2>3. "pc" \notin DOMAIN more
      BY <2>0
    <2>4. /\ Alone(p) /\ h.pc = "writeFlags" /\ DOMAIN e \cup DOMAIN more \subseteq DOMAIN h
          /\ \A x \in DOMAIN more : h[x] = more[x]
          /\ \A x \in DOMAIN e : x # "pc" /\ x \notin DOMAIN more => h[x] = e[x]
      BY <1>3, <2>3, GoesOn DEF Ready, Typed
    <2>5. /\ h.by = e.by /\ h.touches = e.touches /\ h.items = e.items /\ h.patch = e.patch
          /\ {"by", "touches", "items", "patch", "pc"} \subseteq DOMAIN h
          /\ h.next = f
      BY <1>1, <2>0, <2>4 DEF Ready, HandlerOK
    <2>6. HandlerOK(h)
      BY <1>1, <2>4, <2>5 DEF Ready, HandlerOK
    <2>7. TrashTurn(h)
      BY <1>1, <2>2, <2>4, <2>5 DEF Ready, TrashTurn
    <2> QED BY <1>1, <2>4, <2>5, <2>6, <2>7, SameTurns DEF Follows, BytesTurn
  <1>4. CASE Fail(p)
    BY <1>2, <1>4, EndStep DEF Fail
  <1> QED BY <1>3, <1>4 DEF ReadFlags, Reads, Read, Ready

LEMMA WriteFlagsStep ==
    ASSUME NEW p \in Procs, NEW e, Ready(p, e), WriteFlags(p)
    PROVE  Stepped(p)
  <1> PICK k : k = Head(e.items)
    OBVIOUS
  <1>1. /\ e.pc = "writeFlags" /\ UNCHANGED <<object, contended, uploaded, discarded>>
        /\ \/ flags' = flags /\ Fail(p)
           \/ flags' = [flags EXCEPT ![k] = e.next] /\ (Fail(p) \/ FlagsWritten(p))
        /\ trashed' = IF e.patch.trashed = TRUE /\ answer'[e.by] # "failed"
                      THEN trashed \cup {k} ELSE trashed
    BY DEF WriteFlags, WritesFlags, Write, Ready
  <1>2. /\ k \in Keys /\ k \in e.touches /\ e.by \in Callers
        /\ e.patch.trashed = TRUE => e.next.trashed = TRUE
        /\ k \in Hidden => e.next.trashed = TRUE
    BY <1>1, HeadOf DEF Ready, HandlerOK, TrashTurn
  <1>3. Fail(p) => answer'[e.by] = "failed"
    BY AnswerEnds DEF Fail, Ready, Typed
  <1>4. Effect(p)
    <2>1. CASE flags' = flags /\ trashed' = trashed
      BY <1>1, <1>2, <2>1, FlagsEffect
    <2>2. CASE flags' = [flags EXCEPT ![k] = e.next] /\ trashed' = trashed
      BY <1>1, <1>2, <2>2, FlagsEffect
    <2>3. CASE /\ flags' = [flags EXCEPT ![k] = e.next] /\ trashed' = trashed \cup {k}
               /\ e.patch.trashed = TRUE
      BY <1>1, <1>2, <2>3, FlagsEffect
    <2> QED BY <1>1, <1>3, <2>1, <2>2, <2>3
  <1>5. e.patch.trashed = FALSE => trashed' \subseteq trashed
    BY <1>1
  <1> QED BY <1>1, <1>4, <1>5, EndStep, FlagsWrittenStep DEF Fail

-----------------------------------------------------------------------------
(* Copies and moves *)

LEMMA ReadSourceStep ==
    ASSUME NEW p \in Procs, NEW e, Ready(p, e), ReadSource(p)
    PROVE  Stepped(p)
  <1>1. /\ e.pc = "readSource"
        /\ UNCHANGED <<object, flags, contended, discarded, trashed, uploaded>>
    BY DEF ReadSource, Reads, Ready
  <1>2. Effect(p)
    BY <1>1, ReadEffect DEF Ready
  <1> DEFINE c == object[e.from]
             more == [content |-> c]
  <1>3. CASE c # NULL /\ Goes(p, "putCopy", more)
    <2> SUFFICES ASSUME NEW h, h = proc'[p]
                 PROVE  Alone(p) /\ Follows(h, e)'
      BY <1>2 DEF Stepped, Ready
    <2>0. DOMAIN more = {"content"} /\ more["content"] = c
      OBVIOUS
    <2>1. contended = {} => Replaceable(e.from, e.to)
      BY <1>1, <1>3 DEF Ready, BytesTurn
    <2> HIDE DEF more
    <2>3. "pc" \notin DOMAIN more
      BY <2>0
    <2>4. /\ Alone(p) /\ h.pc = "putCopy" /\ DOMAIN e \cup DOMAIN more \subseteq DOMAIN h
          /\ \A x \in DOMAIN more : h[x] = more[x]
          /\ \A x \in DOMAIN e : x # "pc" /\ x \notin DOMAIN more => h[x] = e[x]
      BY <1>3, <2>3, GoesOn DEF Ready, Typed
    <2>5. /\ h.by = e.by /\ h.touches = e.touches /\ h.from = e.from /\ h.to = e.to /\ h.move = e.move
          /\ {"by", "touches", "from", "to", "move", "content", "pc"} \subseteq DOMAIN h
          /\ h.content = c
      BY <1>1, <2>0, <2>4 DEF Ready, HandlerOK
    <2>6. HandlerOK(h)
      BY <1>1, <2>4, <2>5 DEF Ready, HandlerOK
    <2>7. TrashTurn(h) /\ (contended = {} => BytesTurn(h))
      BY <1>1, <2>1, <2>4, <2>5 DEF Ready, TrashTurn, BytesTurn
    <2> QED BY <1>1, <2>4, <2>5, <2>6, <2>7, SameTurns DEF Follows
  <1>4. CASE Fail(p)
    BY <1>2, <1>4, EndStep DEF Fail
  <1> QED BY <1>3, <1>4 DEF ReadSource, Reads, Read, Ready


\* What is at the destination was given up before it is overwritten.
LEMMA PutCopyStep ==
    ASSUME NEW p \in Procs, NEW e, Ready(p, e), PutCopy(p)
    PROVE  Stepped(p)
  <1>1. /\ e.pc = "putCopy" /\ UNCHANGED <<flags, contended, uploaded, discarded, trashed>>
        /\ \/ object' = object /\ Fail(p)
           \/ /\ object' = [object EXCEPT ![e.to] = e.content]
              /\ \/ Fail(p)
                 \/ e.move /\ Goes(p, "readMovedFlags", NoMore)
                 \/ Goes(p, "answerCopy", NoMore)
    BY DEF PutCopy, WritesObject, Write, Ready
  <1>2. /\ e.to \in Keys /\ e.to \in e.touches /\ e.from \in Keys /\ e.from # e.to
        /\ contended = {} => Replaceable(e.from, e.to) /\ BytesSurvive /\ object[e.from] = e.content
        /\ DOMAIN object = Keys /\ uploaded \subseteq Contents
    BY <1>1 DEF Ready, HandlerOK, BytesTurn, BytesKept, Typed
  <1>3. contended = {} => BytesSurvive'
    BY <1>1, <1>2, ConsoleAssumption DEF BytesSurvive, Given, Replaceable
  <1>4. Effect(p)
    BY <1>1, <1>2, <1>3 DEF Effect, Ready, Typed, TrashKept, Flagged, Hidden
  <1>5. ASSUME NEW pc \in {"readMovedFlags", "answerCopy"}, Goes(p, pc, NoMore),
               object' = [object EXCEPT ![e.to] = e.content],
               pc = "readMovedFlags" => e.move
        PROVE  Stepped(p)
    <2> SUFFICES ASSUME NEW h, h = proc'[p]
                 PROVE  Alone(p) /\ Follows(h, e)'
      BY <1>4 DEF Stepped, Ready
    <2>1. /\ Alone(p) /\ h.pc = pc /\ DOMAIN e \subseteq DOMAIN h
          /\ \A x \in DOMAIN e : x # "pc" => h[x] = e[x]
      BY <1>5, GoesOnAs DEF Ready, Typed
    <2>2. h.by = e.by /\ h.touches = e.touches /\ h.from = e.from /\ h.to = e.to
      BY <1>1, <2>1 DEF Ready, HandlerOK
    <2>3. HandlerOK(h)
      BY <1>1, <2>1, <2>2 DEF Ready, HandlerOK
    <2>4. contended = {} => object'[h.to] = object'[h.from]
      BY <1>2, <1>5, <2>2
    <2>5. pc = "readMovedFlags" => h.from \notin Hidden'
      BY <1>1, <1>5, <2>2 DEF Ready, TrashTurn, Hidden
    <2> QED BY <1>1, <2>1, <2>2, <2>3, <2>4, <2>5 DEF Follows, TrashTurn, BytesTurn
  <1> QED BY <1>1, <1>4, <1>5, EndStep DEF Fail

LEMMA OneItem ==
    ASSUME NEW k \in Keys
    PROVE  <<k>> \in Seq(Keys) /\ <<k>> # <<>> /\ ToSet(<<k>>) = {k}
  <1>1. <<k>> \in Seq(Keys) /\ Len(<<k>>) = 1 /\ DOMAIN <<k>> = 1 .. 1 /\ <<k>>[1] = k
    OBVIOUS
  <1> QED BY <1>1, EmptySeq DEF ToSet

LEMMA ReadMovedFlagsStep ==
    ASSUME NEW p \in Procs, NEW e, Ready(p, e), ReadMovedFlags(p)
    PROVE  Stepped(p)
  <1>1. /\ e.pc = "readMovedFlags"
        /\ UNCHANGED <<object, flags, contended, discarded, trashed, uploaded>>
    BY DEF ReadMovedFlags, Reads, Ready
  <1>2. Effect(p)
    BY <1>1, ReadEffect DEF Ready
  <1> DEFINE patch == MovedPatch(flags[e.from])
             more == [items |-> <<e.to>>, patch |-> patch]
  <1>3. CASE Goes(p, "deleteSource", more)
    <2> SUFFICES ASSUME NEW h, h = proc'[p]
                 PROVE  Alone(p) /\ Follows(h, e)'
      BY <1>2 DEF Stepped, Ready
    <2>0. DOMAIN more = {"items", "patch"} /\ more["items"] = <<e.to>> /\ more["patch"] = patch
      OBVIOUS
    <2>1. patch \in Patch /\ patch.trashed # FALSE
      BY ConsoleAssumption DEF MovedPatch, Patch, Flag
    <2> HIDE DEF patch, more
    <2>3. "pc" \notin DOMAIN more
      BY <2>0
    <2>4. /\ Alone(p) /\ h.pc = "deleteSource" /\ DOMAIN e \cup DOMAIN more \subseteq DOMAIN h
          /\ \A x \in DOMAIN more : h[x] = more[x]
          /\ \A x \in DOMAIN e : x # "pc" /\ x \notin DOMAIN more => h[x] = e[x]
      BY <1>3, <2>3, GoesOn DEF Ready, Typed
    <2>5. /\ h.by = e.by /\ h.touches = e.touches /\ h.from = e.from /\ h.to = e.to
          /\ {"by", "touches", "from", "to", "items", "patch", "pc"} \subseteq DOMAIN h
          /\ h.items = <<e.to>> /\ h.patch = patch
      BY <1>1, <2>0, <2>4 DEF Ready, HandlerOK
    <2>6. e.to \in Keys /\ e.to \in e.touches
      BY <1>1 DEF Ready, HandlerOK
    <2>7. HandlerOK(h)
      <3>1. h.items \in Seq(Keys) /\ h.items # <<>> /\ ToSet(h.items) \subseteq h.touches
        BY <2>5, <2>6, OneItem
      <3> QED BY <1>1, <2>1, <2>4, <2>5, <3>1 DEF Ready, HandlerOK
    <2>8. TrashTurn(h) /\ (contended = {} => BytesTurn(h))
      BY <1>1, <2>4, <2>5 DEF Ready, TrashTurn, BytesTurn
    <2> QED BY <1>1, <2>4, <2>5, <2>7, <2>8, SameTurns DEF Follows
  <1>4. CASE Fail(p)
    BY <1>2, <1>4, EndStep DEF Fail
  <1> QED BY <1>3, <1>4 DEF ReadMovedFlags, Reads, Read, Ready

\* What is deleted is at the destination by then.
LEMMA DeleteSourceStep ==
    ASSUME NEW p \in Procs, NEW e, Ready(p, e), DeleteSource(p)
    PROVE  Stepped(p)
  <1>1. CASE object[e.from] = NULL /\ Reads(p, Fail(p)) /\ UNCHANGED uploaded
    <2>1. Effect(p)
      BY <1>1, ReadEffect DEF Reads, Ready
    <2> QED BY <1>1, <2>1, EndStep DEF Reads, Read, Fail
  <1>2. CASE WritesObject(p, e.from, NULL, Goes(p, "clearSource", NoMore))
    <2>1. /\ e.pc = "deleteSource" /\ UNCHANGED <<flags, contended, uploaded, discarded, trashed>>
          /\ \/ object' = object /\ Fail(p)
             \/ object' = [object EXCEPT ![e.from] = NULL] /\ (Fail(p) \/ Goes(p, "clearSource", NoMore))
      BY <1>2 DEF DeleteSource, WritesObject, Write, Ready
    <2>2. /\ e.from \in Keys /\ e.from \in e.touches /\ e.to \in Keys /\ e.from # e.to
          /\ e.from \notin Hidden
          /\ contended = {} => object[e.to] = object[e.from] /\ BytesSurvive
          /\ DOMAIN object = Keys
      BY <2>1 DEF Ready, HandlerOK, TrashTurn, BytesTurn, BytesKept, Typed
    <2>3. contended = {} => BytesSurvive'
      BY <2>1, <2>2 DEF BytesSurvive
    <2>4. Effect(p)
      BY <2>1, <2>2, <2>3 DEF Effect, Ready, Typed, TrashKept, Flagged, Hidden
    <2>5. CASE Goes(p, "clearSource", NoMore)
      <3> SUFFICES ASSUME NEW h, h = proc'[p]
                   PROVE  Alone(p) /\ Follows(h, e)'
        BY <2>4 DEF Stepped, Ready
      <3>1. /\ Alone(p) /\ h.pc = "clearSource" /\ DOMAIN e \subseteq DOMAIN h
            /\ \A x \in DOMAIN e : x # "pc" => h[x] = e[x]
        BY <2>5, GoesOnAs DEF Ready, Typed
      <3>2. /\ h.by = e.by /\ h.touches = e.touches /\ h.from = e.from /\ h.to = e.to
            /\ h.items = e.items /\ h.patch = e.patch
        BY <2>1, <3>1 DEF Ready, HandlerOK
      <3>3. HandlerOK(h)
        BY <2>1, <3>1, <3>2 DEF Ready, HandlerOK
      <3>4. h.from \notin Hidden'
        BY <2>1, <2>2, <3>2 DEF Hidden
      <3> QED BY <3>1, <3>2, <3>3, <3>4 DEF Follows, TrashTurn, BytesTurn
    <2> QED BY <2>1, <2>4, <2>5, EndStep DEF Fail
  <1> QED BY <1>1, <1>2 DEF DeleteSource, Ready

LEMMA ClearSourceStep ==
    ASSUME NEW p \in Procs, NEW e, Ready(p, e), ClearSource(p)
    PROVE  Stepped(p)
  <1>1. /\ e.pc = "clearSource" /\ UNCHANGED <<object, contended, uploaded, discarded, trashed>>
        /\ flags' = flags \/ flags' = [flags EXCEPT ![e.from] = NoFlags]
        /\ \/ Fail(p)
           \/ Goes(p, "answerCopy", NoMore)
           \/ Goes(p, "readFlags", NoMore)
    BY DEF ClearSource, WritesFlags, Write, Ready
  <1>2. e.from \in Keys /\ e.from \in e.touches /\ e.from \notin Hidden
    BY <1>1 DEF Ready, HandlerOK, TrashTurn
  <1>3. Effect(p)
    BY <1>1, <1>2, FlagsEffect
  <1>4. ASSUME NEW pc \in {"answerCopy", "readFlags"}, Goes(p, pc, NoMore)
        PROVE  Stepped(p)
    <2> SUFFICES ASSUME NEW h, h = proc'[p]
                 PROVE  Alone(p) /\ Follows(h, e)'
      BY <1>3 DEF Stepped, Ready
    <2>1. /\ Alone(p) /\ h.pc = pc /\ DOMAIN e \subseteq DOMAIN h
          /\ \A x \in DOMAIN e : x # "pc" => h[x] = e[x]
      BY <1>4, GoesOnAs DEF Ready, Typed
    <2>2. h.by = e.by /\ h.touches = e.touches /\ h.items = e.items /\ h.patch = e.patch
      BY <1>1, <2>1 DEF Ready, HandlerOK
    <2>3. HandlerOK(h)
      BY <1>1, <2>1, <2>2 DEF Ready, HandlerOK
    <2>4. h.patch.trashed # FALSE
      BY <1>1, <2>2 DEF Ready, HandlerOK
    <2> QED BY <2>1, <2>2, <2>3, <2>4 DEF Follows, TrashTurn, BytesTurn
  <1> QED BY <1>1, <1>3, <1>4, EndStep DEF Fail

LEMMA EvictStep ==
    ASSUME NEW p \in Procs, NEW e, Ready(p, e), DriveEvict(p)
    PROVE  Stepped(p)
  <1>1. Effect(p)
    BY ReadEffect DEF DriveEvict, Ready
  <1> QED BY <1>1, EndStep DEF DriveEvict, Fail

\* Every step of a handler.
LEMMA HandlerStep ==
    ASSUME NEW p \in Procs, Typed, TrashKept, BytesKept, DriveStep(p) \/ DriveEvict(p)
    PROVE  proc[p] # Idle /\ Stepped(p)
  <1>1. proc[p] # Idle
    BY DEF DriveStep, DriveEvict, PutObject, AnswerPut, DeleteObject, ClearFlags, HeadObject,
           ReadFlags, WriteFlags, ReadSource, PutCopy, ReadMovedFlags, DeleteSource, ClearSource,
           AnswerCopy, ReadFolder, PutFolder, CheckEmpty, RemoveFolder, Idle
  <1> PICK e : e = proc[p]
    OBVIOUS
  <1>2. Ready(p, e)
    BY <1>1, IsReady
  <1> QED BY <1>1, <1>2, FolderSteps, AnswerSteps, PutObjectStep, DeleteObjectStep, ClearFlagsStep,
             HeadObjectStep, ReadFlagsStep, WriteFlagsStep, ReadSourceStep, PutCopyStep,
             ReadMovedFlagsStep, DeleteSourceStep, ClearSourceStep, EvictStep
          DEF DriveStep


-----------------------------------------------------------------------------
(* Requests that begin *)

\* What a request is told to give up, and which keys it takes out of the trash.
Begun(p, e) ==
    /\ proc[p] = Idle
    /\ DOMAIN proc' = Procs
    /\ \A q \in Procs \ {p} : proc'[q] = proc[q]
    /\ proc'[p] = e
    /\ HandlerOK(e)
    /\ contended' = contended \cup UNION {proc[q].touches \cap e.touches : q \in Busy}
    /\ UNCHANGED <<object, flags, uploaded>>
    /\ DOMAIN answer' = Callers
    /\ discarded \subseteq discarded'
    /\ trashed' \subseteq trashed
    /\ \A k \in Keys \ e.touches : k \in trashed' <=> k \in trashed

LEMMA AskBegins ==
    ASSUME Typed, NEW p \in Procs, NEW caller \in Callers, NEW pc, NEW keys, NEW more,
           Ask(p, caller, pc, keys, more), {"pc", "by", "touches"} \cap DOMAIN more = {},
           NEW e, e = proc'[p]
    PROVE  /\ proc[p] = Idle
           /\ DOMAIN proc' = Procs
           /\ \A q \in Procs \ {p} : proc'[q] = proc[q]
           /\ {"pc", "by", "touches"} \cup DOMAIN more \subseteq DOMAIN e
           /\ e.pc = pc /\ e.by = caller /\ e.touches = keys
           /\ \A x \in DOMAIN more : e[x] = more[x]
           /\ contended' = contended \cup UNION {proc[q].touches \cap keys : q \in Busy}
           /\ UNCHANGED <<object, flags, uploaded, folders>>
           /\ DOMAIN answer' = Callers
  BY DEF Typed, Ask, Begin, Knowing

\* What a request that begins must bring along.
LEMMA BegunStep ==
    ASSUME Typed, Disjoint, TrashKept, BytesKept, NEW p \in Procs, NEW e, Begun(p, e),
           TrashTurn(e)', contended' = {} => BytesTurn(e)'
    PROVE  Disjoint' /\ TrashKept' /\ BytesKept'
  <1>1. \A q \in Procs \ {p} : q \in Busy' <=> q \in Busy
    BY DEF Begun, Busy
  <1>2. Hidden' \subseteq Hidden
    BY DEF Begun, Hidden
  <1>3. Disjoint'
    <2> SUFFICES ASSUME NEW q \in Procs, NEW r \in Procs, q # r, q \in Busy', r \in Busy',
                        NEW k, k \in proc'[q].touches, k \in proc'[r].touches
                 PROVE  k \in contended'
      BY DEF Disjoint, Busy
    <2>1. CASE q # p /\ r # p
      BY <1>1, <2>1 DEF Begun, Disjoint
    <2>2. CASE q = p \/ r = p
      BY <1>1, <2>2 DEF Begun
    <2> QED BY <2>1, <2>2
  <1>4. ASSUME NEW q \in Procs, q # p, q \in Busy, NEW h, h = proc[q]
        PROVE  TrashTurn(h)' /\ (contended' = {} => BytesTurn(h)')
    <2>1. TrashTurn(h)
      BY <1>4 DEF TrashKept
    <2>2. TrashTurn(h)'
      BY <1>2, <2>1 DEF TrashTurn
    <2>3. contended' = {} => contended = {}
      BY DEF Begun
    <2>4. contended = {} => BytesTurn(h)
      BY <1>4 DEF BytesKept
    <2>5. contended' = {} => BytesTurn(h)'
      BY <2>3, <2>4 DEF BytesTurn, Given, Replaceable, Begun
    <2> QED BY <2>2, <2>5
  <1>5. Flagged' /\ (contended' = {} => BytesSurvive')
    BY <1>2 DEF Begun, TrashKept, BytesKept, Flagged, BytesSurvive
  <1>6. \A q \in Procs : q \in Busy' =>
            TrashTurn(proc[q])' /\ (contended' = {} => BytesTurn(proc[q])')
    <2> SUFFICES ASSUME NEW q \in Procs, q \in Busy', NEW h, h = proc'[q]
                 PROVE  TrashTurn(h)' /\ (contended' = {} => BytesTurn(h)')
      BY DEF TrashTurn, BytesTurn, Given, Replaceable, Hidden
    <2> QED BY <1>1, <1>4 DEF Begun
  <1> QED BY <1>3, <1>5, <1>6 DEF TrashKept, BytesKept, Busy


LEMMA AskPutStep ==
    ASSUME Typed, Disjoint, TrashKept, BytesKept, NEW p \in Procs, NEW caller \in Callers,
           NEW k \in Keys, NEW c \in Contents, AskPut(p, caller, k, c)
    PROVE  /\ Disjoint' /\ TrashKept' /\ BytesKept'
           /\ \E e : Begun(p, e)
  <1> PICK e : e = proc'[p]
    OBVIOUS
  <1> DEFINE more == [key |-> k, content |-> c]
  <1>0. DOMAIN more = {"key", "content"} /\ more["key"] = k /\ more["content"] = c
    OBVIOUS
  <1>1. Ask(p, caller, "putObject", {k}, more)
    BY DEF AskPut
  <1> HIDE DEF more
  <1>2. {"pc", "by", "touches"} \cap DOMAIN more = {}
    BY <1>0
  <1>3. /\ proc[p] = Idle
        /\ DOMAIN proc' = Procs
        /\ \A q \in Procs \ {p} : proc'[q] = proc[q]
        /\ {"pc", "by", "touches"} \cup DOMAIN more \subseteq DOMAIN e
        /\ e.pc = "putObject" /\ e.by = caller /\ e.touches = {k}
        /\ \A x \in DOMAIN more : e[x] = more[x]
        /\ contended' = contended \cup UNION {proc[q].touches \cap {k} : q \in Busy}
        /\ UNCHANGED <<object, flags, uploaded, folders>>
        /\ DOMAIN answer' = Callers
    BY <1>1, <1>2, AskBegins
  <1>4. e.key = k /\ e.content = c
    BY <1>0, <1>3
  <1>5. HandlerOK(e)
    BY <1>0, <1>3, <1>4 DEF HandlerOK
  <1>6. trashed' = trashed /\ discarded' = discarded \cup ({object[x] : x \in {k}} \ {NULL})
    BY DEF AskPut, Losing
  <1>7. Begun(p, e)
    BY <1>3, <1>5, <1>6 DEF Begun
  <1>8. TrashTurn(e)' /\ BytesTurn(e)'
    <2>1. Given(k)'
      BY <1>3, <1>6 DEF Given
    <2> QED BY <1>3, <1>4, <2>1 DEF TrashTurn, BytesTurn
  <1> QED BY <1>7, <1>8, BegunStep

LEMMA AskDeleteStep ==
    ASSUME Typed, Disjoint, TrashKept, BytesKept, NEW p \in Procs, NEW caller \in Callers,
           NEW k \in Keys, AskDelete(p, caller, k)
    PROVE  /\ Disjoint' /\ TrashKept' /\ BytesKept'
           /\ \E e : Begun(p, e)
  <1> PICK e : e = proc'[p]
    OBVIOUS
  <1> DEFINE more == [key |-> k]
  <1>0. DOMAIN more = {"key"} /\ more["key"] = k
    OBVIOUS
  <1>1. Ask(p, caller, "deleteObject", {k}, more)
    BY DEF AskDelete
  <1> HIDE DEF more
  <1>2. {"pc", "by", "touches"} \cap DOMAIN more = {}
    BY <1>0
  <1>3. /\ proc[p] = Idle
        /\ DOMAIN proc' = Procs
        /\ \A q \in Procs \ {p} : proc'[q] = proc[q]
        /\ {"pc", "by", "touches"} \cup DOMAIN more \subseteq DOMAIN e
        /\ e.pc = "deleteObject" /\ e.by = caller /\ e.touches = {k}
        /\ \A x \in DOMAIN more : e[x] = more[x]
        /\ contended' = contended \cup UNION {proc[q].touches \cap {k} : q \in Busy}
        /\ UNCHANGED <<object, flags, uploaded, folders>>
        /\ DOMAIN answer' = Callers
    BY <1>1, <1>2, AskBegins
  <1>4. e.key = k
    BY <1>0, <1>3
  <1>5. HandlerOK(e)
    BY <1>0, <1>3, <1>4 DEF HandlerOK
  <1>6. trashed' = trashed \ {k} /\ discarded' = discarded \cup ({object[x] : x \in {k}} \ {NULL})
    BY DEF AskDelete, Losing
  <1>7. Begun(p, e)
    BY <1>3, <1>5, <1>6 DEF Begun
  <1>8. TrashTurn(e)' /\ BytesTurn(e)'
    <2>1. Given(k)' /\ k \notin Hidden'
      BY <1>3, <1>6 DEF Given, Hidden
    <2> QED BY <1>3, <1>4, <2>1 DEF TrashTurn, BytesTurn
  <1> QED BY <1>7, <1>8, BegunStep

LEMMA AskFlagsStep ==
    ASSUME Typed, Disjoint, TrashKept, BytesKept, NEW p \in Procs, NEW caller \in Callers,
           NEW items \in Seq(Keys), NEW patch \in Patch, AskFlags(p, caller, items, patch)
    PROVE  /\ Disjoint' /\ TrashKept' /\ BytesKept'
           /\ \E e : Begun(p, e)
  <1> PICK e : e = proc'[p]
    OBVIOUS
  <1> PICK ks : ks = ToSet(items)
    OBVIOUS
  <1> DEFINE more == [items |-> items, patch |-> patch, bulk |-> Len(items) > 1]
  <1>0. /\ DOMAIN more = {"items", "patch", "bulk"}
        /\ more["items"] = items /\ more["patch"] = patch
    OBVIOUS
  <1>1. Ask(p, caller, "headObject", ks, more) /\ items # <<>>
    BY DEF AskFlags
  <1> HIDE DEF more
  <1>2. {"pc", "by", "touches"} \cap DOMAIN more = {}
    BY <1>0
  <1>3. /\ proc[p] = Idle
        /\ DOMAIN proc' = Procs
        /\ \A q \in Procs \ {p} : proc'[q] = proc[q]
        /\ {"pc", "by", "touches"} \cup DOMAIN more \subseteq DOMAIN e
        /\ e.pc = "headObject" /\ e.by = caller /\ e.touches = ks
        /\ \A x \in DOMAIN more : e[x] = more[x]
        /\ contended' = contended \cup UNION {proc[q].touches \cap ks : q \in Busy}
        /\ UNCHANGED <<object, flags, uploaded, folders>>
        /\ DOMAIN answer' = Callers
    BY <1>1, <1>2, AskBegins
  <1>4. e.items = items /\ e.patch = patch
    BY <1>0, <1>3
  <1>5. HandlerOK(e)
    BY <1>0, <1>1, <1>3, <1>4 DEF HandlerOK
  <1>6. /\ trashed' = IF patch.trashed = FALSE THEN trashed \ ToSet(items) ELSE trashed
        /\ discarded' = discarded
    BY DEF AskFlags
  <1>7. Begun(p, e)
    BY <1>3, <1>5, <1>6 DEF Begun
  <1>8. TrashTurn(e)' /\ BytesTurn(e)'
    <2>1. patch.trashed = FALSE => ToSet(items) \cap Hidden' = {}
      BY <1>6 DEF Hidden
    <2> QED BY <1>3, <1>4, <2>1 DEF TrashTurn, BytesTurn
  <1> QED BY <1>7, <1>8, BegunStep

LEMMA AskCopyStep ==
    ASSUME Typed, Disjoint, TrashKept, BytesKept, NEW p \in Procs, NEW caller \in Callers,
           NEW from \in Keys, NEW to, NEW move, AskCopy(p, caller, from, to, move)
    PROVE  /\ Disjoint' /\ TrashKept' /\ BytesKept'
           /\ \E e : Begun(p, e)
  <1> PICK e : e = proc'[p]
    OBVIOUS
  <1> DEFINE more == [from |-> from, to |-> to, move |-> move]
  <1>0. /\ DOMAIN more = {"from", "to", "move"}
        /\ more["from"] = from /\ more["to"] = to /\ more["move"] = move
    OBVIOUS
  <1>1. Ask(p, caller, "readSource", {from, to}, more) /\ from # to /\ to \in Keys
    BY DEF AskCopy, Copyable
  <1> HIDE DEF more
  <1>2. {"pc", "by", "touches"} \cap DOMAIN more = {}
    BY <1>0
  <1>3. /\ proc[p] = Idle
        /\ DOMAIN proc' = Procs
        /\ \A q \in Procs \ {p} : proc'[q] = proc[q]
        /\ {"pc", "by", "touches"} \cup DOMAIN more \subseteq DOMAIN e
        /\ e.pc = "readSource" /\ e.by = caller /\ e.touches = {from, to}
        /\ \A x \in DOMAIN more : e[x] = more[x]
        /\ contended' = contended \cup UNION {proc[q].touches \cap {from, to} : q \in Busy}
        /\ UNCHANGED <<object, flags, uploaded, folders>>
        /\ DOMAIN answer' = Callers
    BY <1>1, <1>2, AskBegins
  <1>4. e.from = from /\ e.to = to /\ e.move = move
    BY <1>0, <1>3
  <1>5. HandlerOK(e)
    BY <1>0, <1>1, <1>3, <1>4 DEF HandlerOK
  <1>6. /\ trashed' = IF move THEN trashed \ {from} ELSE trashed
        /\ discarded \subseteq discarded'
        /\ object[from] \notin {NULL, object[to]} => discarded' = discarded \cup ({object[x] : x \in {to}} \ {NULL})
    BY DEF AskCopy, Losing
  <1>7. Begun(p, e)
    BY <1>3, <1>5, <1>6 DEF Begun
  <1>8. TrashTurn(e)' /\ BytesTurn(e)'
    <2>1. object[from] # NULL => Replaceable(from, to)'
      BY <1>3, <1>6 DEF Given, Replaceable
    <2>2. move => from \notin Hidden'
      BY <1>6 DEF Hidden
    <2> QED BY <1>3, <1>4, <2>1, <2>2 DEF TrashTurn, BytesTurn
  <1> QED BY <1>7, <1>8, BegunStep

LEMMA AskFolderStep ==
    ASSUME Typed, Disjoint, TrashKept, BytesKept, NEW p \in Procs, NEW caller \in Callers,
           NEW pc \in FolderPcs, NEW f, NEW force, AskFolder(p, caller, pc, f, force)
    PROVE  /\ Disjoint' /\ TrashKept' /\ BytesKept'
           /\ \E e : Begun(p, e)
  <1> PICK e : e = proc'[p]
    OBVIOUS
  <1> DEFINE more == [folder |-> f, force |-> force]
  <1>0. DOMAIN more = {"folder", "force"}
    OBVIOUS
  <1>1. Ask(p, caller, pc, {}, more)
    BY DEF AskFolder
  <1> HIDE DEF more
  <1>2. {"pc", "by", "touches"} \cap DOMAIN more = {}
    BY <1>0
  <1>3. /\ proc[p] = Idle
        /\ DOMAIN proc' = Procs
        /\ \A q \in Procs \ {p} : proc'[q] = proc[q]
        /\ {"pc", "by", "touches"} \cup DOMAIN more \subseteq DOMAIN e
        /\ e.pc = pc /\ e.by = caller /\ e.touches = {}
        /\ contended' = contended \cup UNION {proc[q].touches \cap {} : q \in Busy}
        /\ UNCHANGED <<object, flags, uploaded, folders>>
        /\ DOMAIN answer' = Callers
    BY <1>1, <1>2, AskBegins
  <1>4. HandlerOK(e)
    BY <1>3 DEF HandlerOK
  <1>5. trashed' = trashed /\ discarded' = discarded
    BY DEF AskFolder
  <1>6. Begun(p, e)
    BY <1>3, <1>4, <1>5 DEF Begun
  <1>7. TrashTurn(e)' /\ BytesTurn(e)'
    BY <1>3 DEF TrashTurn, BytesTurn
  <1> QED BY <1>6, <1>7, BegunStep


-----------------------------------------------------------------------------
(* Requests that the page still makes *)

LEMMA CallsIn ==
    ASSUME NEW S, \A c \in S : CallOK(c), NEW s \in Seq(S)
    PROVE  CallsOK(s)
  <1> PICK T : T = {c \in ToSet(s) : CallOK(c)}
    OBVIOUS
  <1>1. Len(s) \in Nat /\ s \in [1 .. Len(s) -> S] /\ DOMAIN s = 1 .. Len(s)
    BY LenProperties
  <1>2. \A i \in 1 .. Len(s) : s[i] \in T
    BY <1>1 DEF ToSet
  <1>3. s \in [1 .. Len(s) -> T]
    BY <1>1, <1>2
  <1>4. s \in Seq(T)
    BY <1>1, <1>3, SeqDef
  <1> QED BY <1>4 DEF CallsOK

LEMMA CallsOut ==
    ASSUME NEW s, CallsOK(s)
    PROVE  \E S : s \in Seq(S) /\ \A c \in S : CallOK(c)
  <1>1. \A c \in {c \in ToSet(s) : CallOK(c)} : CallOK(c)
    OBVIOUS
  <1> QED BY <1>1 DEF CallsOK

LEMMA NoCalls == CallsOK(<<>>)
  <1>1. <<>> \in Seq({}) /\ \A c \in {} : CallOK(c)
    BY EmptySeq
  <1> QED BY <1>1, CallsIn

LEMMA CallsOne ==
    ASSUME NEW c, CallOK(c)
    PROVE  CallsOK(<<c>>)
  <1>1. <<c>> \in Seq({c}) /\ \A d \in {c} : CallOK(d)
    OBVIOUS
  <1> QED BY <1>1, CallsIn

LEMMA CallsCat ==
    ASSUME NEW s, CallsOK(s), NEW t, CallsOK(t)
    PROVE  CallsOK(s \o t)
  <1>1. PICK S : s \in Seq(S) /\ \A c \in S : CallOK(c)
    BY CallsOut
  <1>2. PICK T : t \in Seq(T) /\ \A c \in T : CallOK(c)
    BY CallsOut
  <1>3. s \in Seq(S \cup T) /\ t \in Seq(S \cup T)
    BY <1>1, <1>2, SeqMonotonic
  <1>4. s \o t \in Seq(S \cup T)
    BY <1>3, ConcatProperties
  <1> QED BY <1>1, <1>2, <1>4, CallsIn

LEMMA CallsRest ==
    ASSUME NEW s, CallsOK(s), s # <<>>
    PROVE  CallOK(Head(s)) /\ CallsOK(Tail(s))
  <1>1. PICK S : s \in Seq(S) /\ \A c \in S : CallOK(c)
    BY CallsOut
  <1>2. Head(s) \in S /\ Tail(s) \in Seq(S)
    BY <1>1, HeadTailProperties
  <1> QED BY <1>1, <1>2, CallsIn

LEMMA CallsFront ==
    ASSUME NEW s, CallsOK(s)
    PROVE  CallsOK(Front(s))
  <1>1. PICK S : s \in Seq(S) /\ \A c \in S : CallOK(c)
    BY CallsOut
  <1>2. Len(s) \in Nat
    BY <1>1, LenProperties
  <1>3. Len(s) - 1 \in Int /\ 1 \in Int /\ \A i \in 1 .. Len(s) - 1 : i \in 1 .. Len(s)
    BY <1>2
  <1>4. \A i \in 1 .. Len(s) - 1 : s[i] \in S
    BY <1>1, <1>3, ElementOfSeq
  <1>5. SubSeq(s, 1, Len(s) - 1) \in Seq(S)
    BY <1>3, <1>4, SubSeqProperties
  <1> QED BY <1>1, <1>5, CallsIn DEF Front

LEMMA CallsOfSet ==
    ASSUME NEW S, IsFiniteSet(S), \A c \in S : CallOK(c)
    PROVE  CallsOK(SetToSeq(S))
  <1>1. SetToSeq(S) \in Seq(S)
    BY SetToSeqIn
  <1> QED BY <1>1, CallsIn

LEMMA MovesOK ==
    ASSUME NEW target, NEW keys \in SUBSET Keys, NEW base
    PROVE  CallsOK(MoveUnder(target, keys, base))
  <1> DEFINE call(k) == MoveCall(k, Destination(target, base \o <<Last(k)>>))
             calls == {call(k) : k \in keys}
             f == [k \in keys |-> call(k)]
  <1>1. IsFiniteSet(keys)
    BY ConsoleAssumption, FS_Subset
  <1>2. f \in Surjection(keys, calls)
    BY DEF Surjection
  <1>3. IsFiniteSet(calls)
    BY <1>1, <1>2, FS_Surjection
  <1>4. \A c \in calls : CallOK(c)
    <2>1. \A k \in keys : \A to : CallOK(MoveCall(k, to))
      BY DEF CallOK, MoveCall
    <2> QED BY <2>1
  <1>5. CallsOK(SetToSeq(calls))
    <2> HIDE DEF calls
    <2> QED BY <1>3, <1>4, CallsOfSet
  <1> QED BY <1>5 DEF MoveUnder

LEMMA DeletesOK ==
    ASSUME NEW keys \in SUBSET Keys
    PROVE  CallsOK(SetToSeq({DeleteCall(k) : k \in keys}))
  <1> DEFINE calls == {DeleteCall(k) : k \in keys}
             f == [k \in keys |-> DeleteCall(k)]
  <1>1. IsFiniteSet(keys)
    BY ConsoleAssumption, FS_Subset
  <1>2. f \in Surjection(keys, calls)
    BY DEF Surjection
  <1>3. IsFiniteSet(calls)
    BY <1>1, <1>2, FS_Surjection
  <1>4. \A c \in calls : CallOK(c)
    BY DEF CallOK, DeleteCall
  <1> HIDE DEF calls
  <1>5. CallsOK(SetToSeq(calls))
    BY <1>3, <1>4, CallsOfSet
  <1> QED BY <1>5 DEF calls

LEMMA ExpandsOK ==
    ASSUME NEW fs \in SUBSET Folders, NEW target
    PROVE  CallsOK(SetToSeq({ExpandCall(f, target) : f \in fs}))
  <1> DEFINE calls == {ExpandCall(f, target) : f \in fs}
             g == [f \in fs |-> ExpandCall(f, target)]
  <1>1. IsFiniteSet(fs)
    BY ConsoleAssumption, FS_Subset
  <1>2. g \in Surjection(fs, calls)
    BY DEF Surjection
  <1>3. IsFiniteSet(calls)
    BY <1>1, <1>2, FS_Surjection
  <1>4. \A c \in calls : CallOK(c)
    BY DEF CallOK, ExpandCall
  <1> HIDE DEF calls
  <1>5. CallsOK(SetToSeq(calls))
    BY <1>3, <1>4, CallsOfSet
  <1> QED BY <1>5 DEF calls


-----------------------------------------------------------------------------
(* Steps of the page *)

LEMMA StartTyped ==
    ASSUME PageTyped, NEW calls, CallsOK(calls), Start(calls)
    PROVE  PageTyped'
  BY DEF PageTyped, Start

LEMMA LastCalls == CallsOK(<<RefreshCall>>) /\ CallsOK(<<RefreshIfDone>>)
  <1>1. CallOK(RefreshCall) /\ CallOK(RefreshIfDone)
    BY DEF CallOK, RefreshCall, RefreshIfDone
  <1> QED BY <1>1, CallsOne

LEMMA OperationTyped ==
    ASSUME PageTyped,
           FlagObjects \/ DeleteForever \/ RenameObject \/ BulkMove \/ NewFolder \/ DeleteFolder
    PROVE  PageTyped'
  <1>1. CASE FlagObjects
    <2>1. PICK ks \in SUBSET view.keys, patch \in Patterns :
              Start(<<FlagsCall(SetToSeq(ks), patch)>>
                    \o IF patch.starred = NULL THEN <<RefreshIfDone>> ELSE <<>>)
      BY <1>1 DEF FlagObjects
    <2>2. IsFiniteSet(ks) /\ ks \subseteq Keys
      BY ConsoleAssumption, FS_Subset DEF PageTyped
    <2>3. SetToSeq(ks) \in Seq(Keys)
      BY <2>2, SetToSeqIn, SeqMonotonic
    <2>4. patch \in Patch
      BY ConsoleAssumption DEF Patch
    <2>5. CallOK(FlagsCall(SetToSeq(ks), patch))
      BY <2>3, <2>4 DEF CallOK, FlagsCall
    <2>6. CallsOK(<<FlagsCall(SetToSeq(ks), patch)>>)
      BY <2>5, CallsOne
    <2>7. CallsOK(IF patch.starred = NULL THEN <<RefreshIfDone>> ELSE <<>>)
      BY LastCalls, NoCalls
    <2> QED BY <2>1, <2>6, <2>7, CallsCat, StartTyped
  <1>2. CASE DeleteForever
    <2>1. PICK ks \in SUBSET view.keys : Start(SetToSeq({DeleteCall(k) : k \in ks}) \o <<RefreshCall>>)
      BY <1>2 DEF DeleteForever
    <2>2. ks \in SUBSET Keys
      BY DEF PageTyped
    <2> QED BY <2>1, <2>2, DeletesOK, LastCalls, CallsCat, StartTyped
  <1>3. CASE RenameObject
    <2>1. PICK k \in view.keys, name \in Names : Start(<<MoveCall(k, view.path \o <<name>>), RefreshCall>>)
      BY <1>3 DEF RenameObject
    <2> PICK to : to = view.path \o <<name>>
      OBVIOUS
    <2> PICK c : c = MoveCall(k, to)
      OBVIOUS
    <2>2. CallOK(c) /\ CallOK(RefreshCall)
      BY DEF CallOK, MoveCall, RefreshCall, PageTyped
    <2>3. <<c, RefreshCall>> \in Seq({c, RefreshCall})
      OBVIOUS
    <2>4. CallsOK(<<c, RefreshCall>>)
      BY <2>2, <2>3, CallsIn
    <2> QED BY <2>1, <2>4, StartTyped
  <1>4. CASE BulkMove
    <2>1. PICK ks \in SUBSET view.keys, fs \in SUBSET view.folders, target \in Folders \cup {Root} :
              Start(SetToSeq({ExpandCall(f, target) : f \in fs}) \o MoveUnder(target, ks, Root)
                    \o <<RefreshCall>>)
      BY <1>4 DEF BulkMove
    <2>2. ks \in SUBSET Keys /\ fs \in SUBSET Folders
      BY DEF PageTyped
    <2>3. /\ CallsOK(SetToSeq({ExpandCall(f, target) : f \in fs}))
          /\ CallsOK(MoveUnder(target, ks, Root))
      BY <2>2, ExpandsOK, MovesOK
    <2>4. CallsOK(SetToSeq({ExpandCall(f, target) : f \in fs}) \o MoveUnder(target, ks, Root))
      BY <2>3, CallsCat
    <2>5. CallsOK(SetToSeq({ExpandCall(f, target) : f \in fs}) \o MoveUnder(target, ks, Root)
                  \o <<RefreshCall>>)
      BY <2>4, LastCalls, CallsCat
    <2> QED BY <2>1, <2>5, StartTyped
  <1>5. CASE NewFolder
    <2>1. PICK f \in Folders : Start(<<FolderCall(f), RefreshIfDone>>)
      BY <1>5 DEF NewFolder
    <2> PICK c : c = FolderCall(f)
      OBVIOUS
    <2>2. CallOK(c) /\ CallOK(RefreshIfDone)
      BY DEF CallOK, FolderCall, RefreshIfDone
    <2>3. <<c, RefreshIfDone>> \in Seq({c, RefreshIfDone})
      OBVIOUS
    <2>4. CallsOK(<<c, RefreshIfDone>>)
      BY <2>2, <2>3, CallsIn
    <2> QED BY <2>1, <2>4, StartTyped
  <1>6. CASE DeleteFolder
    <2>1. PICK f \in view.folders : Start(<<[DropCall(f) EXCEPT !.do = "dropEmpty"], RefreshIfDone>>)
      BY <1>6 DEF DeleteFolder
    <2> PICK c : c = [DropCall(f) EXCEPT !.do = "dropEmpty"]
      OBVIOUS
    <2>2. CallOK(c) /\ CallOK(RefreshIfDone)
      BY DEF CallOK, DropCall, RefreshIfDone
    <2>3. <<c, RefreshIfDone>> \in Seq({c, RefreshIfDone})
      OBVIOUS
    <2>4. CallsOK(<<c, RefreshIfDone>>)
      BY <2>2, <2>3, CallsIn
    <2> QED BY <2>1, <2>4, StartTyped
  <1> QED BY <1>1, <1>2, <1>3, <1>4, <1>5, <1>6

LEMMA PageStepTyped ==
    ASSUME PageTyped, PageStep
    PROVE  PageTyped'
  <1>1. ASSUME NEW place, Goto(place) PROVE PageTyped'
    BY <1>1 DEF Goto, PageTyped
  <1>2. CASE Navigate
    BY <1>1, <1>2 DEF Navigate
  <1>3. ASSUME NEW place, ListArrives(place) \/ ListFails(place) PROVE PageTyped'
    BY <1>3 DEF ListArrives, ListFails, PageTyped, ListedObjects, ListedFolders
  <1>4. CASE SendRefused
    <2>1. todo # <<>> /\ todo' = Tail(todo) /\ view' = view
      BY <1>4 DEF SendRefused, MayGoOn
    <2> QED BY <2>1, CallsRest DEF PageTyped
  <1>5. CASE Expand
    <2> PICK f, moves :
           /\ todo # <<>> /\ view' = view
           /\ todo' = <<DropCall(f)>> \o Front(Tail(todo)) \o moves \o <<RefreshCall>>
           /\ CallsOK(moves)
      <3> DEFINE f == Head(todo).folder
                 moves == MoveUnder(Head(todo).target, ListedObjects("folder", f), <<Last(f)>>)
      <3>1. ListedObjects("folder", f) \in SUBSET Keys
        BY DEF ListedObjects
      <3>2. CallsOK(moves)
        BY <3>1, MovesOK
      <3>3. /\ todo # <<>> /\ view' = view
            /\ todo' = <<DropCall(f)>> \o Front(Tail(todo)) \o moves \o <<RefreshCall>>
        BY <1>5 DEF Expand, MayGoOn
      <3> HIDE DEF f, moves
      <3> QED BY <3>2, <3>3
    <2>1. CallsOK(<<DropCall(f)>>)
      <3>1. CallOK(DropCall(f))
        BY DEF CallOK, DropCall
      <3> QED BY <3>1, CallsOne
    <2>2. CallsOK(Front(Tail(todo)))
      BY CallsRest, CallsFront DEF PageTyped
    <2>3. CallsOK(<<DropCall(f)>> \o Front(Tail(todo)))
      BY <2>1, <2>2, CallsCat
    <2>4. CallsOK(<<DropCall(f)>> \o Front(Tail(todo)) \o moves)
      BY <2>3, CallsCat
    <2>5. CallsOK(<<DropCall(f)>> \o Front(Tail(todo)) \o moves \o <<RefreshCall>>)
      BY <2>4, LastCalls, CallsCat
    <2> QED BY <2>5 DEF PageTyped
  <1>6. CASE EndWithRefresh
    <2>1. /\ todo' = <<>>
          /\ view' = view \/ view' = [view EXCEPT !.loading = TRUE]
      BY <1>6 DEF EndWithRefresh
    <2> QED BY <2>1, NoCalls DEF PageTyped
  <1> QED BY <1>2, <1>3, <1>4, <1>5, <1>6, OperationTyped DEF PageStep


-----------------------------------------------------------------------------
(* Every step *)

LEMMA DriveUntouched ==
    ASSUME DriveKept, UNCHANGED <<proc, driveVars>>
    PROVE  DriveKept'
  <1>1. /\ UNCHANGED <<proc, object, flags, answer, contended, uploaded, discarded, trashed>>
        /\ Busy' = Busy /\ Hidden' = Hidden
    BY DEF driveVars, Busy, Hidden
  <1>2. Typed' /\ Disjoint'
    BY <1>1 DEF DriveKept, Typed, Disjoint
  <1>3. TrashKept'
    BY <1>1 DEF DriveKept, TrashKept, Flagged, TrashTurn
  <1>4. BytesKept'
    BY <1>1 DEF DriveKept, BytesKept, BytesSurvive, BytesTurn, Given, Replaceable
  <1> QED BY <1>2, <1>3, <1>4 DEF DriveKept

\* A step of one handler leaves alone what the others rely on.
LEMMA SteppedKeeps ==
    ASSUME DriveKept, NEW p \in Procs, proc[p] # Idle, Stepped(p)
    PROVE  DriveKept'
  <1> PICK e : e = proc[p]
    OBVIOUS
  <1> PICK g : g = proc'[p]
    OBVIOUS
  <1>1. Alone(p) /\ Effect(p) /\ Follows(g, e)' /\ p \in Busy
    BY DEF Stepped, Busy
  <1>2. g # Idle => /\ HandlerOK(g) /\ g.touches = e.touches
                    /\ TrashTurn(g)' /\ (contended' = {} => BytesTurn(g)')
    BY <1>1 DEF Follows
  <1>3. \A q \in Procs : q # p => (q \in Busy' <=> q \in Busy) /\ proc'[q] = proc[q]
    BY <1>1 DEF Alone, Busy
  <1>4. Typed'
    BY <1>1, <1>2 DEF DriveKept, Typed, Alone, Effect
  <1>5. Disjoint'
    <2> SUFFICES ASSUME NEW q \in Procs, NEW r \in Procs, q # r, q \in Busy', r \in Busy',
                        NEW k, k \in proc'[q].touches, k \in proc'[r].touches
                 PROVE  k \in contended'
      BY DEF Disjoint, Busy
    <2>1. q \in Busy /\ r \in Busy /\ k \in proc[q].touches /\ k \in proc[r].touches
      BY <1>1, <1>2, <1>3 DEF Busy
    <2> QED BY <1>1, <2>1 DEF DriveKept, Disjoint, Effect
  <1>6. ASSUME NEW q \in Procs, q # p, q \in Busy, NEW h, h = proc[q]
        PROVE  TrashTurn(h)' /\ (contended' = {} => BytesTurn(h)')
    <2>1. /\ TrashTurn(h) /\ HandlerOK(h)
          /\ contended = {} => BytesTurn(h)
          /\ \A k : k \in h.touches /\ k \in e.touches => k \in contended
      BY <1>1, <1>6 DEF DriveKept, Typed, Disjoint, TrashKept, BytesKept, Busy
    <2>2. \A k \in Keys : k \in h.touches => (k \in Hidden' <=> k \in Hidden)
      BY <1>1, <2>1 DEF Effect, Hidden
    <2>3. Hidden' \subseteq Keys /\ Hidden \subseteq Keys
      BY <1>1 DEF Effect, Hidden, DriveKept, Typed
    <2>4. TrashTurn(h)'
      <3>1. h.pc \in FlagPcs => Head(h.items) \in Keys /\ Head(h.items) \in h.touches
                                /\ ToSet(h.items) \subseteq h.touches
        BY <2>1, HeadOf DEF HandlerOK
      <3> QED BY <2>1, <2>2, <2>3, <3>1 DEF TrashTurn, HandlerOK
    <2>5. contended' = {} => \A k \in Keys : k \in h.touches => object'[k] = object[k]
      BY <1>1, <2>1 DEF Effect
    <2>6. contended' = {} => BytesTurn(h)'
      BY <1>1, <2>1, <2>5 DEF Effect, BytesTurn, Given, Replaceable, HandlerOK
    <2> QED BY <2>4, <2>6
  <1>7. \A q \in Procs : q \in Busy' =>
            TrashTurn(proc[q])' /\ (contended' = {} => BytesTurn(proc[q])')
    <2> SUFFICES ASSUME NEW q \in Procs, q \in Busy', NEW h, h = proc'[q]
                 PROVE  TrashTurn(h)' /\ (contended' = {} => BytesTurn(h)')
      BY DEF TrashTurn, BytesTurn, Given, Replaceable, Hidden
    <2>1. CASE q = p
      BY <1>2, <2>1 DEF Busy
    <2>2. CASE q # p
      BY <1>3, <1>6, <2>2
    <2> QED BY <2>1, <2>2
  <1>8. Flagged' /\ (contended' = {} => BytesSurvive')
    BY <1>1 DEF Effect
  <1> QED BY <1>4, <1>5, <1>7, <1>8 DEF DriveKept, TrashKept, BytesKept, Busy

LEMMA BegunTyped ==
    ASSUME Typed, NEW p \in Procs, NEW e, Begun(p, e)
    PROVE  Typed'
  BY DEF Typed, Begun

LEMMA SendKeeps ==
    ASSUME DriveKept, PageTyped, NEW p \in Procs, Send(p)
    PROVE  DriveKept' /\ PageTyped'
  <1> PICK call : call = Head(todo)
    OBVIOUS
  <1>1. SentAs(p, call) /\ todo # <<>> /\ todo' = Tail(todo) /\ view' = view
    BY DEF Send, MayGoOn
  <1>2. CallOK(call) /\ CallsOK(Tail(todo))
    BY <1>1, CallsRest DEF PageTyped
  <1>3. PageTyped'
    BY <1>1, <1>2 DEF PageTyped
  <1>4. Page \in Callers
    BY ConsoleAssumption
  <1>5. Disjoint' /\ TrashKept' /\ BytesKept' /\ \E e : Begun(p, e)
    <2>1. CASE call.do = "flags" /\ AskFlags(p, Page, call.items, call.patch)
      BY <1>2, <1>4, <2>1, AskFlagsStep DEF DriveKept, CallOK
    <2>2. CASE call.do = "delete" /\ AskDelete(p, Page, call.key)
      BY <1>2, <1>4, <2>2, AskDeleteStep DEF DriveKept, CallOK
    <2>3. CASE call.do = "move" /\ AskCopy(p, Page, call.key, call.to, TRUE)
      BY <1>2, <1>4, <2>3, AskCopyStep DEF DriveKept, CallOK
    <2>4. CASE \E pc \in FolderPcs : \E force : AskFolder(p, Page, pc, call.folder, force)
      BY <1>4, <2>4, AskFolderStep DEF DriveKept
    <2> QED BY <1>1, <2>1, <2>2, <2>3, <2>4 DEF SentAs
  <1> QED BY <1>3, <1>5, BegunTyped DEF DriveKept

LEMMA ElsewhereKeeps ==
    ASSUME DriveKept, PageTyped, NEW p \in Procs, Elsewhere(p)
    PROVE  DriveKept' /\ PageTyped'
  <1>1. PageTyped'
    BY DEF Elsewhere, pageVars, PageTyped
  <1>2. PICK caller \in Callers, k \in Keys :
            \/ \E c \in Contents \ (uploaded \cup discarded) : AskPut(p, caller, k, c)
            \/ AskDelete(p, caller, k)
            \/ \E patch \in Patterns : AskFlags(p, caller, <<k>>, patch)
    BY DEF Elsewhere
  <1>3. Disjoint' /\ TrashKept' /\ BytesKept' /\ \E e : Begun(p, e)
    <2>1. CASE \E c \in Contents : AskPut(p, caller, k, c)
      BY <2>1, AskPutStep DEF DriveKept
    <2>2. CASE AskDelete(p, caller, k)
      BY <2>2, AskDeleteStep DEF DriveKept
    <2>3. CASE \E patch \in Patterns : AskFlags(p, caller, <<k>>, patch)
      <3>1. <<k>> \in Seq(Keys) /\ Patterns \subseteq Patch
        BY ConsoleAssumption, OneItem DEF Patch
      <3> QED BY <2>3, <3>1, AskFlagsStep DEF DriveKept
    <2> QED BY <1>2, <2>1, <2>2, <2>3
  <1> QED BY <1>1, <1>3, BegunTyped DEF DriveKept

LEMMA InitKept == Init => DriveKept /\ PageTyped
  <1> SUFFICES ASSUME Init PROVE DriveKept /\ PageTyped
    OBVIOUS
  <1>1. /\ Busy = {} /\ Hidden = {} /\ uploaded = {} /\ trashed = {}
        /\ DOMAIN proc = Procs /\ \A p \in Procs : proc[p] = Idle
    BY DEF Init, InitRequests, InitDrive, Busy, Hidden
  <1>2. Typed
    BY <1>1 DEF Init, InitDrive, Typed
  <1>3. PageTyped
    BY NoCalls DEF Init, PageTyped
  <1> QED BY <1>1, <1>2, <1>3 DEF DriveKept, Disjoint, TrashKept, Flagged, BytesKept, BytesSurvive

LEMMA NextKept ==
    ASSUME DriveKept, PageTyped, [Next]_vars
    PROVE  DriveKept' /\ PageTyped'
  <1>1. CASE PageStep
    <2>1. UNCHANGED <<proc, driveVars>>
      BY <1>1 DEF PageStep, Navigate, Goto, ListArrives, ListFails, FlagObjects, DeleteForever,
                  RenameObject, BulkMove, NewFolder, DeleteFolder, Start, SendRefused, Expand,
                  EndWithRefresh, requestVars
    <2> QED BY <1>1, <2>1, DriveUntouched, PageStepTyped
  <1>2. CASE \E p \in Procs : Send(p) \/ Elsewhere(p)
    BY <1>2, SendKeeps, ElsewhereKeeps
  <1>3. ASSUME NEW p \in Procs, DriveStep(p) \/ DriveEvict(p), UNCHANGED pageVars
        PROVE  DriveKept' /\ PageTyped'
    <2>1. PageTyped'
      BY <1>3 DEF pageVars, PageTyped
    <2>2. Stepped(p) /\ proc[p] # Idle
      BY <1>3, HandlerStep DEF DriveKept
    <2> QED BY <2>1, <2>2, SteppedKeeps
  <1>4. CASE UNCHANGED vars
    <2>1. UNCHANGED <<proc, driveVars>> /\ UNCHANGED <<view, todo>>
      BY <1>4 DEF vars, requestVars, pageVars
    <2> QED BY <2>1, DriveUntouched DEF PageTyped
  <1> QED BY <1>1, <1>2, <1>3, <1>4 DEF Next

-----------------------------------------------------------------------------
(* The theorems *)

\* Every handler has the locals its program counter needs, requests under way touch
\* different keys or those keys are contended, and each handler may rely on what it read.
THEOREM Invariance == Spec => []Inv
  <1>1. Init => Inv
    BY InitKept DEF Inv
  <1>2. Inv /\ [Next]_vars => Inv'
    BY NextKept DEF Inv
  <1> QED BY <1>1, <1>2, PTL DEF Spec

\* Bytes whose upload was acknowledged stay readable under some key until a request is
\* told to delete or replace them, whatever fails between the steps of a move.
THEOREM BytesSurviveHolds == Spec => []BytesSurvive
  <1>1. Inv => BytesSurvive
    BY DEF Inv, DriveKept, BytesKept, BytesSurvive
  <1> QED BY <1>1, Invariance, PTL

\* What a caller has put in the trash is not served until it is restored, moved or deleted.
THEOREM TrashHidesHolds == Spec => []TrashHides
  <1>1. Inv => TrashHides
    BY DEF Inv, DriveKept, TrashKept, Flagged, TrashHides, Hidden, Served, InTrash
  <1> QED BY <1>1, Invariance, PTL

\* The page shows the objects of the folder it says it is in, as long as no two lists
\* crossed and none failed.
THEOREM ShowsWhereItIsHolds == Spec => []ShowsWhereItIs
  <1>1. Init => PageKept
    BY DEF Init, PageKept, Here
  <1>2. Inv /\ PageKept /\ [Next]_vars => PageKept'
    <2> SUFFICES ASSUME Inv, PageKept, [Next]_vars PROVE PageKept'
      OBVIOUS
    <2>1. {"mode", "path", "keys", "folders", "loading"} \subseteq DOMAIN view
      BY DEF Inv, PageTyped
    <2>2. ASSUME NEW mode, NEW path, Goto(Place(mode, path)) PROVE PageKept'
      BY <2>1, <2>2 DEF Goto, Refreshes, Refresh, PageKept, Here, Place
    <2>3. CASE Navigate
      BY <2>2, <2>3 DEF Navigate
    <2>4. ASSUME NEW place, ListArrives(place) PROVE PageKept'
      BY <2>1, <2>4 DEF ListArrives, PageKept, Here, Place, ListedObjects
    <2>5. ASSUME NEW place, ListFails(place) PROVE PageKept'
      BY <2>5 DEF ListFails, PageKept
    <2>6. CASE Refreshes(Here) /\ view' = [view EXCEPT !.loading = TRUE]
      <3>1. view'.mode = view.mode /\ view'.path = view.path /\ view'.loading
        BY <2>1, <2>6
      <3>2. Here' = Here
        BY <3>1 DEF Here
      <3>3. ~crossed' => lists' = {Here}
        BY <2>6 DEF Refreshes, Refresh
      <3> QED BY <3>1, <3>2, <3>3 DEF PageKept
    <2>7. CASE UNCHANGED <<view, lists, crossed>>
      BY <2>7 DEF PageKept, Here
    <2> QED BY <2>3, <2>4, <2>5, <2>6, <2>7
            DEF Next, PageStep, FlagObjects, DeleteForever, RenameObject, BulkMove, NewFolder,
                DeleteFolder, Start, SendRefused, Expand, EndWithRefresh, Send, Elsewhere, pageVars, vars
  <1>3. PageKept => ShowsWhereItIs
    BY DEF PageKept, ShowsWhereItIs
  <1> QED BY <1>1, <1>2, <1>3, Invariance, PTL DEF Spec

=============================================================================
