-------------------------- MODULE Workspace_proofs --------------------------
(***************************************************************************)
(* Proofs about Workspace and the push queue it drives, for any files,     *)
(* albums, retries and clicks.                                             *)
(***************************************************************************)
EXTENDS Workspace, FiniteSetTheorems, SequenceTheorems, WellFoundedInduction, TLAPS

EntryState == {"queued", "uploading", "retrying", "synced", "failed", "cancelled"}
QueueEntry == [id : Files, state : EntryState, attempt : Nat]
Group == [album : Albums \cup {NULL}, files : SUBSET Files]
SyncType == [due : BOOLEAN, todo : SUBSET Group, sent : SUBSET Group]

Typed ==
    /\ entries \in Seq(QueueEntry)
    /\ items \in [Files -> Item \cup {NULL}]
    /\ disk \in [Files -> Record \cup {NULL}]
    /\ stored \subseteq Files /\ saved \subseteq Files
    /\ filed \in [Files -> Albums \cup {NULL}]
    /\ sync \in SyncType
    /\ list # NULL => \A f \in DOMAIN list : list[f] \in Albums \cup {NULL}

-----------------------------------------------------------------------------
(* The queue *)

OneEntryPerFile(es) == \A i, j \in DOMAIN es : es[i].id = es[j].id => i = j

\* Where the loop has an entry in hand.
InHand == {"uploading", "retrying"}

\* The loop has the entry it works on in hand, and no other.
LoopOK(es, pt, cur, run) ==
    /\ pt \in {"nothing", "upload", "backoff", "backoffOver", "gap", "gapOver"}
    /\ run \in BOOLEAN
    /\ run => pt # "nothing"
    /\ ~run => pt = "nothing"
    /\ \A i \in DOMAIN es : es[i].state = "uploading" => pt = "upload" /\ i = cur
    /\ \A i \in DOMAIN es : es[i].state = "retrying" => pt \in {"backoff", "backoffOver"} /\ i = cur
    /\ pt = "upload" => cur \in DOMAIN es /\ es[cur].state = "uploading"
    /\ pt \in {"backoff", "backoffOver"} => cur \in DOMAIN es /\ es[cur].state = "retrying"

-----------------------------------------------------------------------------
(* Items, their records, and the queue *)

\* An item has its bytes unless it was uploaded, and so has its record, which may
\* be older.  up: what the server has stored; kept: what was written.
ItemFine(f, item, record, up, kept) ==
    /\ item # NULL => /\ item.blob \/ item.status = "synced"
                      /\ item.status = "synced" => f \in up
    /\ record # NULL => /\ item # NULL
                        /\ record.blob \/ record.status = "synced"
                        /\ record.status = "synced" => item.status = "synced"
                        /\ record.status # "pushing"
    /\ f \in kept => record # NULL

ItemOK(f) == ItemFine(f, items[f], disk[f], stored, saved)

\* An entry and the card of its file say the same.
EntryOK(i) ==
    LET f == entries[i].id IN
    /\ items[f] # NULL
    /\ f \in Present /\ items[f].status = "synced" => entries[i].state = "synced"
    /\ f \in Present /\ entries[i].state \in InHand => items[f].status = "pushing"

-----------------------------------------------------------------------------
(* Albums *)

\* An album that counts as synchronized is the one the server has.
AlbumFine(f, item, changed, album) ==
    item # NULL /\ f \notin changed /\ item.status = "synced" /\ item.albumSynced => album = item.album

AlbumOK(f) == AlbumFine(f, items[f], mixed, filed[f])

\* A file is in one group of the synchronization, with the album of its item.
SyncOK ==
    /\ sync.todo \cap sync.sent = {}
    /\ \A g, h \in sync.todo \cup sync.sent : \A f \in g.files \cap h.files : g = h
    /\ \A g \in sync.todo \cup sync.sent : \A f \in g.files :
         /\ items[f] # NULL
         /\ items[f].status = "synced"
         /\ f \notin mixed => items[f].album = g.album
    /\ \A g \in sync.todo : \A f \in g.files : ~items[f].albumSynced
    /\ \A g \in sync.sent : \A f \in g.files \ mixed : filed[f] = g.album

Consistent ==
    /\ Typed
    /\ OneEntryPerFile(entries)
    /\ LoopOK(entries, at, current, running)
    /\ PushingIsQueued
    /\ \A f \in Files : ItemOK(f) /\ AlbumOK(f)
    /\ \A i \in DOMAIN entries : EntryOK(i)
    /\ SyncOK

-----------------------------------------------------------------------------
(* Sequences of entries *)

LEMMA FunctionIsSeq ==
  ASSUME NEW S, NEW T, NEW es \in Seq(T), NEW g \in [DOMAIN es -> S]
  PROVE  g \in Seq(S)
  <1>1. Len(es) \in Nat /\ DOMAIN es = 1 .. Len(es)
    OBVIOUS
  <1>2. g \in [1 .. Len(es) -> S]
    BY <1>1
  <1> QED BY <1>1, <1>2, SeqDef

LEMMA EntryAt ==
  ASSUME NEW es \in Seq(QueueEntry)
  PROVE  /\ DOMAIN es \subseteq Nat \ {0}
         /\ \A i \in DOMAIN es : es[i] \in QueueEntry
  OBVIOUS

LEMMA FirstOfSome ==
  ASSUME NEW S, S \subseteq Nat, S # {}
  PROVE  \E j \in S : \A k \in S : j <= k
  <1> DEFINE R == {ss \in Nat \X Nat : ss[1] < ss[2]}
  <1>1. IsWellFoundedOn(R, Nat)
    BY NatLessThanWellFounded DEF OpToRel
  <1>2. PICK j \in S : \A k \in S : ~(<<k, j>> \in R)
    BY <1>1, WFMin
  <1>3. \A k \in S : k \in Nat /\ j \in Nat /\ <<k, j>> \in Nat \X Nat
    OBVIOUS
  <1>4. \A k \in S : ~(k < j)
    BY <1>2, <1>3
  <1> QED BY <1>3, <1>4

LEMMA NextQueuedIs ==
  ASSUME NEW es \in Seq(QueueEntry), AnyQueued(es)
  PROVE  NextQueued(es) \in DOMAIN es /\ es[NextQueued(es)].state = "queued"
  <1> DEFINE Q == {i \in DOMAIN es : es[i].state = "queued"}
             First(i) == es[i].state = "queued" /\ \A j \in 1 .. i - 1 : es[j].state # "queued"
  <1>1. Q \subseteq Nat /\ Q # {} /\ DOMAIN es = 1 .. Len(es) /\ Len(es) \in Nat
    BY DEF AnyQueued
  <1>2. PICK i \in Q : \A k \in Q : i <= k
    BY <1>1, FirstOfSome
  <1>3. \A j \in 1 .. i - 1 : j \in DOMAIN es /\ ~(i <= j)
    BY <1>1, <1>2
  <1>4. \E k \in DOMAIN es : First(k)
    BY <1>2, <1>3
  <1> QED BY <1>4 DEF NextQueued

-----------------------------------------------------------------------------
(* What the loop does to the queue *)

\* The same files, and the same ones uploaded.
Alike(es, fs) ==
    /\ fs \in Seq(QueueEntry)
    /\ DOMAIN fs = DOMAIN es
    /\ \A i \in DOMAIN es : fs[i].id = es[i].id /\ (fs[i].state = "synced" <=> es[i].state = "synced")

NoneInHand(es) == \A i \in DOMAIN es : es[i].state \notin InHand

LEMMA AlikeOne ==
  ASSUME NEW es, NEW fs, Alike(es, fs), OneEntryPerFile(es)
  PROVE  OneEntryPerFile(fs)
  BY DEF Alike, OneEntryPerFile

LEMMA CancelWaitingAlike ==
  ASSUME NEW es \in Seq(QueueEntry)
  PROVE  Alike(es, CancelWaiting(es)) /\ (NoneInHand(es) => NoneInHand(CancelWaiting(es)))
  <1>1. CancelWaiting(es) \in [DOMAIN es -> QueueEntry]
    BY EntryAt DEF CancelWaiting, QueueEntry, EntryState
  <1>2. CancelWaiting(es) \in Seq(QueueEntry)
    BY <1>1, FunctionIsSeq
  <1>3. \A i \in DOMAIN es : /\ CancelWaiting(es)[i].id = es[i].id
                             /\ CancelWaiting(es)[i].state = "synced" <=> es[i].state = "synced"
                             /\ CancelWaiting(es)[i].state \in {es[i].state, "cancelled"}
    BY EntryAt DEF CancelWaiting, QueueEntry
  <1>4. DOMAIN CancelWaiting(es) = DOMAIN es
    BY DEF CancelWaiting
  <1> QED BY <1>2, <1>3, <1>4 DEF Alike, NoneInHand, InHand

LEMMA LeaveKeeps ==
  ASSUME NEW es \in Seq(QueueEntry), NoneInHand(es), NEW ph, NEW cancel, NEW pause,
         Leave(es, ph, cancel, pause)
  PROVE  Alike(es, entries') /\ LoopOK(entries', at', current', running')
  <1>1. Alike(es, entries') /\ NoneInHand(entries')
    BY CancelWaitingAlike DEF Leave, Alike
  <1> QED BY <1>1 DEF Leave, LoopOK, NoneInHand, InHand

LEMMA TurnKeeps ==
  ASSUME NEW es \in Seq(QueueEntry), NoneInHand(es), NEW cancel, NEW pause,
         Turn(es, cancel, pause)
  PROVE  Alike(es, entries') /\ LoopOK(entries', at', current', running')
  <1>1. CASE \E ph, c, ps : Leave(es, ph, c, ps)
    BY <1>1, LeaveKeeps
  <1>2. CASE /\ AnyQueued(es) /\ current' = NextQueued(es) /\ at' = "upload" /\ running' = TRUE
             /\ entries' = [es EXCEPT ![NextQueued(es)] = Begun(es[NextQueued(es)])]
    <2>1. PICK i \in DOMAIN es : i = NextQueued(es) /\ es[i].state = "queued"
      BY <1>2, NextQueuedIs
    <2> DEFINE e == Begun(es[i])
    <2>2. current' = i /\ entries' = [es EXCEPT ![i] = e]
      BY <1>2, <2>1
    <2>7. e \in QueueEntry /\ e.id = es[i].id /\ e.state = "uploading"
      <3>1. es[i] \in QueueEntry
        BY EntryAt
      <3> QED BY <3>1 DEF QueueEntry, EntryState, Begun
    <2> HIDE DEF e
    <2>3. entries' \in [DOMAIN es -> QueueEntry]
      BY <2>2, <2>7, EntryAt
    <2>4. entries' \in Seq(QueueEntry)
      BY <2>3, FunctionIsSeq
    <2>5. \A j \in DOMAIN es : /\ entries'[j].id = es[j].id
                               /\ j # i => entries'[j].state = es[j].state
                               /\ j = i => entries'[j].state = "uploading"
      BY <2>2, <2>7, EntryAt
    <2>6. DOMAIN entries' = DOMAIN es
      BY <2>3
    <2>9. Alike(es, entries')
      BY <2>1, <2>4, <2>5, <2>6 DEF Alike
    <2>10. LoopOK(entries', "upload", i, TRUE)
      BY <2>1, <2>5, <2>6 DEF LoopOK, NoneInHand, InHand
    <2> QED BY <1>2, <2>2, <2>9, <2>10
  <1> QED BY <1>1, <1>2 DEF Turn

LEMMA AlikeTwice ==
  ASSUME NEW es, NEW fs, NEW gs, Alike(es, fs), Alike(fs, gs)
  PROVE  Alike(es, gs)
  BY DEF Alike

LEMMA AlikeSelf ==
  ASSUME NEW es \in Seq(QueueEntry)
  PROVE  Alike(es, es)
  BY DEF Alike

\* The entry in hand changes its state, and nothing else changes.
LEMMA WithIs ==
  ASSUME entries \in Seq(QueueEntry), current \in DOMAIN entries, NEW st \in EntryState
  PROVE  /\ With(st) \in Seq(QueueEntry)
         /\ DOMAIN With(st) = DOMAIN entries
         /\ With(st)[current].state = st
         /\ \A i \in DOMAIN entries : /\ With(st)[i].id = entries[i].id
                                      /\ i # current => With(st)[i] = entries[i]
  <1>1. With(st) \in [DOMAIN entries -> QueueEntry]
    BY EntryAt DEF With, QueueEntry
  <1>2. With(st) \in Seq(QueueEntry)
    BY <1>1, FunctionIsSeq
  <1> QED BY <1>1, <1>2, EntryAt DEF With, QueueEntry

LEMMA AfterFileKeeps ==
  ASSUME NEW es \in Seq(QueueEntry), NoneInHand(es), running = TRUE, AfterFile(es)
  PROVE  Alike(es, entries') /\ LoopOK(entries', at', current', running')
  <1>1. CASE \E ph, c, ps : Leave(es, ph, c, ps)
    BY <1>1, LeaveKeeps
  <1>2. CASE Turn(es, FALSE, FALSE)
    BY <1>2, TurnKeeps
  <1>3. CASE entries' = es /\ at' = "gap" /\ current' = 0 /\ running' = running
    BY <1>3, AlikeSelf DEF LoopOK, NoneInHand, InHand
  <1> QED BY <1>1, <1>2, <1>3 DEF AfterFile

\* What holds of the queue alone.
QueueOK ==
    /\ entries \in Seq(QueueEntry)
    /\ OneEntryPerFile(entries)
    /\ LoopOK(entries, at, current, running)

\* An upload that settles: the entry it was for may be synchronized now.
LEMMA SettlesKeeps ==
  ASSUME QueueOK, UploadSettles
  PROVE  /\ entries' \in Seq(QueueEntry)
         /\ DOMAIN entries' = DOMAIN entries
         /\ LoopOK(entries', at', current', running')
         /\ current \in DOMAIN entries
         /\ entries[current].state = "uploading"
         /\ \A i \in DOMAIN entries :
              /\ entries'[i].id = entries[i].id
              /\ i # current => (entries'[i].state = "synced" <=> entries[i].state = "synced")
  <1>1. current \in DOMAIN entries /\ entries[current].state = "uploading" /\ running = TRUE
    BY DEF QueueOK, LoopOK, UploadSettles
  <1>2. \A i \in DOMAIN entries : i # current => entries[i].state \notin InHand
    BY DEF QueueOK, LoopOK, UploadSettles, InHand
  <1>3. ASSUME NEW st \in {"synced", "failed"}, AfterFile(With(st))
        PROVE  /\ Alike(With(st), entries')
               /\ LoopOK(entries', at', current', running')
    <2>1. st \in EntryState /\ st \notin InHand
      BY DEF EntryState, InHand
    <2>2. With(st) \in Seq(QueueEntry) /\ NoneInHand(With(st))
      BY <1>1, <1>2, <2>1, WithIs DEF QueueOK, NoneInHand
    <2> QED BY <1>1, <1>3, <2>2, AfterFileKeeps DEF QueueOK
  <1>4. ASSUME NEW st \in {"synced", "failed"}, AfterFile(With(st))
        PROVE  /\ entries' \in Seq(QueueEntry)
               /\ DOMAIN entries' = DOMAIN entries
               /\ \A i \in DOMAIN entries :
                    /\ entries'[i].id = entries[i].id
                    /\ i # current => (entries'[i].state = "synced" <=> entries[i].state = "synced")
    <2>1. st \in EntryState
      BY DEF EntryState
    <2> QED BY <1>1, <1>3, <1>4, <2>1, WithIs DEF QueueOK, Alike
  <1>5. ASSUME entries' = With("retrying"), at' = "backoff", running' = running, current' = current
        PROVE  /\ entries' \in Seq(QueueEntry)
               /\ DOMAIN entries' = DOMAIN entries
               /\ LoopOK(entries', at', current', running')
               /\ \A i \in DOMAIN entries :
                    /\ entries'[i].id = entries[i].id
                    /\ i # current => (entries'[i].state = "synced" <=> entries[i].state = "synced")
    <2>1. "retrying" \in EntryState
      BY DEF EntryState
    <2>2. /\ entries' \in Seq(QueueEntry)
          /\ DOMAIN entries' = DOMAIN entries
          /\ entries'[current].state = "retrying"
          /\ \A i \in DOMAIN entries : /\ entries'[i].id = entries[i].id
                                       /\ i # current => entries'[i] = entries[i]
      BY <1>1, <1>5, <2>1, WithIs DEF QueueOK
    <2> QED BY <1>1, <1>2, <1>5, <2>2 DEF LoopOK, InHand
  <1> QED BY <1>1, <1>3, <1>4, <1>5 DEF UploadSettles

\* The other steps of the loop.
LEMMA LoopKeeps ==
  ASSUME QueueOK, SleepEnds \/ AfterBackoff \/ AfterGap
  PROVE  Alike(entries, entries') /\ LoopOK(entries', at', current', running')
  <1>1. CASE SleepEnds
    <2>1. entries' = entries /\ current' = current /\ running' = running
      BY <1>1 DEF SleepEnds, flags
    <2>2. \/ at = "backoff" /\ at' = "backoffOver"
          \/ at = "gap" /\ at' = "gapOver"
      BY <1>1 DEF SleepEnds
    <2>3. LoopOK(entries, at', current, running)
      BY <2>2 DEF QueueOK, LoopOK
    <2> QED BY <2>1, <2>3, AlikeSelf DEF QueueOK
  <1>2. CASE AfterBackoff
    <2>1. /\ current \in DOMAIN entries
          /\ entries[current].state = "retrying"
          /\ \A i \in DOMAIN entries : i # current => entries[i].state \notin InHand
      BY <1>2 DEF AfterBackoff, QueueOK, LoopOK, InHand
    <2>2. ASSUME NEW st \in {"failed", "queued"}
          PROVE  Alike(entries, With(st)) /\ NoneInHand(With(st)) /\ With(st) \in Seq(QueueEntry)
      <3>1. st \in EntryState
        BY DEF EntryState
      <3> QED BY <2>1, <3>1, WithIs DEF QueueOK, Alike, NoneInHand, InHand
    <2>3. CASE \E ph, c, ps : Leave(With("failed"), ph, c, ps)
      BY <2>2, <2>3, LeaveKeeps, AlikeTwice
    <2>4. CASE \E c, ps : Turn(With("queued"), c, ps)
      BY <2>2, <2>4, TurnKeeps, AlikeTwice
    <2> QED BY <1>2, <2>3, <2>4 DEF AfterBackoff
  <1>3. CASE AfterGap
    <2>1. NoneInHand(entries)
      BY <1>3 DEF AfterGap, QueueOK, LoopOK, InHand, NoneInHand
    <2> QED BY <1>3, <2>1, LeaveKeeps, TurnKeeps DEF AfterGap, QueueOK
  <1> QED BY <1>1, <1>2, <1>3

-----------------------------------------------------------------------------
(* What the page does to the queue *)

\* Where no loop runs, nothing is in hand.
LEMMA RestIsQuiet ==
  ASSUME NEW es, NEW pt, NEW cur, NEW run, LoopOK(es, pt, cur, run), ~run
  PROVE  NoneInHand(es)
  BY DEF LoopOK, NoneInHand, InHand

LEMMA StartKeeps ==
  ASSUME NEW es \in Seq(QueueEntry), LoopOK(es, at, current, running),
         NEW cancel, NEW pause, StartWith(es, cancel, pause)
  PROVE  Alike(es, entries') /\ LoopOK(entries', at', current', running')
  <1>1. CASE entries' = es /\ running' = running /\ at' = at /\ current' = current
    BY <1>1, AlikeSelf
  <1>2. CASE ~running /\ Turn(es, FALSE, FALSE)
    <2>1. NoneInHand(es)
      BY <1>2 DEF LoopOK, NoneInHand, InHand
    <2> QED BY <1>2, <2>1, TurnKeeps
  <1> QED BY <1>1, <1>2 DEF StartWith

LEMMA AwakeKeeps ==
  ASSUME NEW es, LoopOK(es, at, current, running)
  PROVE  LoopOK(es, Awake, current, running)
  BY DEF LoopOK, Awake

\* Files are queued again or added; what is in hand or synchronized stays.
Grown(es, en, fs) ==
    /\ en \in Seq(QueueEntry)
    /\ DOMAIN es \subseteq DOMAIN en
    /\ \A i \in DOMAIN es :
         /\ en[i].id = es[i].id
         /\ \/ en[i].state = es[i].state
            \/ en[i].state = "queued" /\ es[i].state \notin InHand \cup {"synced"}
    /\ \A i \in DOMAIN en \ DOMAIN es : en[i].state = "queued" /\ en[i].id \in fs

LEMMA SetToSeqIs ==
  ASSUME NEW S, IsFiniteSet(S)
  PROVE  /\ SetToSeq(S) \in Seq(S)
         /\ \A i, j \in DOMAIN SetToSeq(S) : SetToSeq(S)[i] = SetToSeq(S)[j] => i = j
  <1>1. Cardinality(S) \in Nat /\ ExistsBijection(1 .. Cardinality(S), S)
    BY FS_NatBijection, FS_CardinalityType
  <1>2. \E f \in [1 .. Cardinality(S) -> S] : IsInjective(f)
    BY <1>1 DEF ExistsBijection, Bijection, Injection, IsInjective
  <1>3. SetToSeq(S) \in [1 .. Cardinality(S) -> S] /\ IsInjective(SetToSeq(S))
    BY <1>2 DEF SetToSeq
  <1> QED BY <1>1, <1>3, SeqDef DEF IsInjective

LEMMA EnqueuedGrows ==
  ASSUME NEW es \in Seq(QueueEntry), OneEntryPerFile(es), NEW fs \in SUBSET Files,
         \A i \in DOMAIN es : es[i].state \in InHand => es[i].id \notin fs
  PROVE  Grown(es, Enqueued(es, fs), fs) /\ OneEntryPerFile(Enqueued(es, fs))
  <1> DEFINE new == {f \in fs : \A i \in DOMAIN es : es[i].id # f}
             fresh == SetToSeq(new)
             again == [i \in DOMAIN es |->
                         IF es[i].id \in fs /\ es[i].state \notin {"synced", "uploading"}
                         THEN MakeEntry(es[i].id) ELSE es[i]]
             added == [i \in DOMAIN fresh |-> MakeEntry(fresh[i])]
  <1>1. IsFiniteSet(new)
    BY FilesAssumption, FS_Subset
  <1>2. fresh \in Seq(new) /\ \A i, j \in DOMAIN fresh : fresh[i] = fresh[j] => i = j
    BY <1>1, SetToSeqIs
  <1> HIDE DEF fresh
  <1>3. again \in Seq(QueueEntry)
    <2>1. again \in [DOMAIN es -> QueueEntry]
      BY EntryAt DEF QueueEntry, EntryState, MakeEntry
    <2> HIDE DEF again
    <2> QED BY <2>1, FunctionIsSeq
  <1>4. added \in Seq(QueueEntry)
    <2>1. \A i \in DOMAIN fresh : fresh[i] \in new /\ fresh[i] \in Files
      BY <1>2
    <2>2. added \in [DOMAIN fresh -> QueueEntry]
      BY <2>1 DEF QueueEntry, EntryState, MakeEntry
    <2> HIDE DEF added
    <2> QED BY <1>2, <2>2, FunctionIsSeq
  <1>5. \A i \in DOMAIN es :
          /\ again[i].id = es[i].id
          /\ \/ again[i].state = es[i].state
             \/ again[i].state = "queued" /\ es[i].state \notin InHand \cup {"synced"}
    BY EntryAt DEF MakeEntry, InHand, QueueEntry
  <1>6. DOMAIN again = DOMAIN es /\ DOMAIN es = 1 .. Len(again) /\ Len(again) \in Nat
    BY <1>3
  <1>7. \A j \in DOMAIN added : /\ added[j].state = "queued"
                                /\ added[j].id \in fs
                                /\ \A i \in DOMAIN es : es[i].id # added[j].id
    BY <1>2 DEF MakeEntry
  <1>8. \A i, j \in DOMAIN added : added[i].id = added[j].id => i = j
    BY <1>2 DEF MakeEntry
  <1>9. DOMAIN added = 1 .. Len(added) /\ Len(added) \in Nat
    BY <1>4
  <1> DEFINE en == again \o added
  <1>10. Enqueued(es, fs) = en
    BY DEF Enqueued, fresh
  <1> HIDE DEF again, added
  <1>11. /\ en \in Seq(QueueEntry)
         /\ Len(en) = Len(again) + Len(added)
         /\ \A i \in 1 .. Len(en) : en[i] = IF i <= Len(again) THEN again[i] ELSE added[i - Len(again)]
    BY <1>3, <1>4, ConcatProperties
  <1>12. DOMAIN en = 1 .. Len(en)
    BY <1>11
  <1> HIDE DEF en
  <1>13. \A i \in DOMAIN es : i \in DOMAIN en /\ en[i] = again[i]
    BY <1>6, <1>9, <1>11, <1>12
  <1>14. \A i \in DOMAIN en \ DOMAIN es : i - Len(again) \in DOMAIN added /\ en[i] = added[i - Len(again)]
    BY <1>6, <1>9, <1>11, <1>12
  <1>15. Grown(es, en, fs)
    BY <1>5, <1>7, <1>11, <1>13, <1>14 DEF Grown
  <1>16. ASSUME NEW i \in DOMAIN en, NEW j \in DOMAIN en, en[i].id = en[j].id
         PROVE  i = j
    <2>1. CASE i \in DOMAIN es /\ j \in DOMAIN es
      BY <1>5, <1>13, <1>16, <2>1 DEF OneEntryPerFile
    <2>2. CASE i \notin DOMAIN es /\ j \notin DOMAIN es
      <3>1. i - Len(again) = j - Len(again)
        BY <1>8, <1>14, <1>16, <2>2
      <3> QED BY <3>1, <1>6, <1>11, <1>12
    <2>3. CASE i \in DOMAIN es /\ j \notin DOMAIN es
      BY <1>5, <1>7, <1>13, <1>14, <1>16, <2>3
    <2>4. CASE i \notin DOMAIN es /\ j \in DOMAIN es
      BY <1>5, <1>7, <1>13, <1>14, <1>16, <2>4
    <2> QED BY <2>1, <2>2, <2>3, <2>4
  <1>17. OneEntryPerFile(en)
    BY <1>16 DEF OneEntryPerFile
  <1> QED BY <1>10, <1>15, <1>17

LEMMA AgainGrows ==
  ASSUME NEW es, NEW en, NEW fs, Grown(es, en, fs), OneEntryPerFile(en)
  PROVE  Grown(es, Again(en), fs) /\ OneEntryPerFile(Again(en))
  <1>1. en \in Seq(QueueEntry)
    BY DEF Grown
  <1>2. Again(en) \in [DOMAIN en -> QueueEntry]
    BY <1>1, EntryAt DEF Again, QueueEntry, EntryState, MakeEntry
  <1>3. Again(en) \in Seq(QueueEntry) /\ DOMAIN Again(en) = DOMAIN en
    BY <1>1, <1>2, FunctionIsSeq
  <1>4. \A i \in DOMAIN en :
          /\ Again(en)[i].id = en[i].id
          /\ \/ Again(en)[i].state = en[i].state
             \/ Again(en)[i].state = "queued" /\ en[i].state \in {"failed", "cancelled"}
    BY <1>1, EntryAt DEF Again, QueueEntry, MakeEntry
  <1> QED BY <1>3, <1>4 DEF Grown, OneEntryPerFile, InHand

LEMMA GrownKeepsLoop ==
  ASSUME NEW es, NEW en, NEW fs, Grown(es, en, fs), NEW pt, NEW cur, NEW run, LoopOK(es, pt, cur, run)
  PROVE  LoopOK(en, pt, cur, run)
  BY DEF Grown, LoopOK, InHand


-----------------------------------------------------------------------------
(* The cards mirror the queue *)

\* What the queue es may be when the items its are mirrored.
Fits(es, its) ==
    /\ \A i \in DOMAIN es :
         /\ its[es[i].id] # NULL
         /\ es[i].id \in Present /\ its[es[i].id].status = "synced" => es[i].state = "synced"
    /\ \A f \in Present : its[f].status = "pushing" =>
         \E i \in DOMAIN es : es[i].id = f /\ es[i].state # "synced"

\* An item that differs in its status at most, and is stored if it was stored.
OnlyStatus(item, new) ==
    /\ new = NULL <=> item = NULL
    /\ item # NULL => /\ new.blob = item.blob
                      /\ new.album = item.album
                      /\ new.albumSynced = item.albumSynced
                      /\ new.gone = item.gone
                      /\ new.status = "synced" <=> item.status = "synced"

LEMMA CardStatusIs ==
  ASSUME NEW status \in Status, NEW state \in EntryState, status = "synced" => state = "synced"
  PROVE  /\ CardStatus(status, state) \in Status
         /\ CardStatus(status, state) = "synced" <=> status = "synced"
         /\ state \in InHand => CardStatus(status, state) = "pushing"
         /\ CardStatus(status, state) = "pushing" => state \in InHand \/ (status = "pushing" /\ state = "synced")
  <1>1. CASE state \in {"uploading", "retrying"}
    BY <1>1 DEF CardStatus, Status, InHand
  <1>2. CASE state = "failed"
    BY <1>2 DEF CardStatus, Status, InHand
  <1>3. CASE state \in {"cancelled", "queued"}
    BY <1>3 DEF CardStatus, Status, InHand
  <1>4. CASE state = "synced"
    BY <1>4 DEF CardStatus, Status, InHand
  <1> QED BY <1>1, <1>2, <1>3, <1>4 DEF EntryState

LEMMA StateInIs ==
  ASSUME NEW es, OneEntryPerFile(es), NEW i \in DOMAIN es
  PROVE  StateIn(es, es[i].id) = es[i].state
  BY DEF StateIn, OneEntryPerFile

LEMMA ItemParts ==
  ASSUME NEW item \in Item
  PROVE  /\ item # NULL
         /\ item.status \in Status
         /\ item.blob \in BOOLEAN
         /\ item.albumSynced \in BOOLEAN
         /\ item.gone \in BOOLEAN
         /\ item.album \in Albums \cup {NULL}
  BY RecordsAssumption DEF Item

LEMMA ToRecordIs ==
  ASSUME NEW item \in Item
  PROVE  /\ ToRecord(item) \in Record
         /\ ToRecord(item) # NULL
         /\ ToRecord(item).status = IF item.status = "pushing" THEN "pending" ELSE item.status
         /\ ToRecord(item).blob = HasBlob(item)
         /\ ToRecord(item).album = item.album
         /\ ToRecord(item).albumSynced = item.albumSynced
  <1>1. ToRecord(item) \in Record
    BY DEF ToRecord, HasBlob, Record, Item, Status
  <1> QED BY <1>1, RecordsAssumption DEF ToRecord

\* A record that has just been written is as good as its item.
LEMMA SavedIsFine ==
  ASSUME NEW f, NEW item \in Item, NEW up, NEW kept,
         item.blob \/ item.status = "synced",
         item.status = "synced" => f \in up
  PROVE  ItemFine(f, item, ToRecord(item), up, kept)
  BY ItemParts, ToRecordIs DEF ItemFine, HasBlob, Status

\* What a write of the items of fs leaves, whichever of its writes are lost.
ItemsAt(fs, its) == fs \in SUBSET Files /\ \A f \in fs : its[f] \in Item

Written(fs, its) ==
    /\ disk' \in [Files -> Record \cup {NULL}]
    /\ saved' \subseteq Files
    /\ \A f \in Files : \/ disk'[f] = disk[f] /\ (f \in saved' => f \in saved)
                        \/ f \in fs /\ disk'[f] = ToRecord(its[f])

LEMMA SaveIs ==
  ASSUME NEW fs, NEW its, Save(fs, its), ItemsAt(fs, its),
         disk \in [Files -> Record \cup {NULL}], saved \subseteq Files
  PROVE  Written(fs, its)
  <1>1. PICK written \in SUBSET fs :
          /\ disk' = [f \in Files |-> IF f \in written THEN ToRecord(its[f]) ELSE disk[f]]
          /\ saved' = saved \cup {f \in written : ~its[f].gone}
    BY DEF Save
  <1>2. \A f \in written : f \in fs /\ ToRecord(its[f]) \in Record
    BY <1>1, ToRecordIs DEF ItemsAt
  <1>3. \A f \in Files : disk'[f] \in Record \cup {NULL}
    BY <1>1, <1>2
  <1>4. disk' \in [Files -> Record \cup {NULL}]
    BY <1>1, <1>3
  <1>5. saved' \subseteq Files
    BY <1>1 DEF ItemsAt
  <1> QED BY <1>1, <1>2, <1>4, <1>5 DEF Written

\* An item whose status alone changed, with its record as it was or written anew.
LEMMA OnlyStatusIsFine ==
  ASSUME NEW f, NEW item \in Item, NEW new \in Item, NEW record, NEW up, NEW kept, NEW keptNow,
         ItemFine(f, item, record, up, kept), OnlyStatus(item, new)
  PROVE  /\ (f \in keptNow => f \in kept) => ItemFine(f, new, record, up, keptNow)
         /\ ItemFine(f, new, ToRecord(new), up, keptNow)
  <1>1. item # NULL /\ new # NULL
    BY ItemParts
  <1>2. (f \in keptNow => f \in kept) => ItemFine(f, new, record, up, keptNow)
    BY <1>1 DEF ItemFine, OnlyStatus
  <1>3. (new.blob \/ new.status = "synced") /\ (new.status = "synced" => f \in up)
    BY <1>1 DEF ItemFine, OnlyStatus
  <1> QED BY <1>2, <1>3, SavedIsFine

LEMMA MirrorKeeps ==
  ASSUME NEW es \in Seq(QueueEntry), OneEntryPerFile(es),
         NEW its \in [Files -> Item \cup {NULL}], disk \in [Files -> Record \cup {NULL}],
         saved \subseteq Files, NEW fs \in SUBSET Files, NEW up,
         \A f \in Files : /\ its[f] = NULL <=> items[f] = NULL
                          /\ items[f] # NULL => its[f].gone = items[f].gone
                          /\ ItemFine(f, its[f], disk[f], up, saved),
         \A f \in fs : its[f] \in Item,
         Fits(es, its), Mirror(es, its, fs)
  PROVE  /\ items' \in [Files -> Item \cup {NULL}]
         /\ disk' \in [Files -> Record \cup {NULL}]
         /\ saved' \subseteq Files
         /\ Present' = Present
         /\ \A f \in Files : /\ OnlyStatus(its[f], items'[f])
                             /\ ItemFine(f, items'[f], disk'[f], up, saved')
         /\ \A f \in Present : items'[f].status = "pushing" =>
              \E i \in DOMAIN es : es[i].id = f /\ es[i].state \in InHand
         /\ \A i \in DOMAIN es :
              /\ items'[es[i].id] # NULL
              /\ es[i].id \in Present /\ items'[es[i].id].status = "synced" => es[i].state = "synced"
              /\ es[i].id \in Present /\ es[i].state \in InHand => items'[es[i].id].status = "pushing"
  <1> DEFINE shown == {f \in Present : \E i \in DOMAIN es : es[i].id = f}
             Status2(f) == CardStatus(its[f].status, StateIn(es, f))
             New(f) == [status |-> Status2(f), blob |-> its[f].blob, album |-> its[f].album,
                        albumSynced |-> its[f].albumSynced, gone |-> its[f].gone]
             failures == {f \in shown : items'[f].status = "failed" /\ its[f].status # "failed"}
  <1>1. \A f \in Present : f \in Files /\ its[f] \in Item
    BY DEF Present
  <1>2. ASSUME NEW f \in shown
        PROVE  /\ Status2(f) \in Status
               /\ Status2(f) = "synced" <=> its[f].status = "synced"
               /\ StateIn(es, f) \in InHand => Status2(f) = "pushing"
               /\ Status2(f) = "pushing" => StateIn(es, f) \in InHand
               /\ its[f].status = "synced" => StateIn(es, f) = "synced"
    <2>1. PICK i \in DOMAIN es : es[i].id = f
      OBVIOUS
    <2>2. StateIn(es, f) = es[i].state /\ es[i].state \in EntryState
      BY <2>1, StateInIs, EntryAt DEF QueueEntry
    <2>3. its[f] \in Item /\ its[f].status \in Status /\ f \in Present
      BY <1>1, ItemParts
    <2>4. its[f].status = "synced" => es[i].state = "synced"
      BY <2>1, <2>3 DEF Fits
    <2>5. its[f].status = "pushing" => es[i].state # "synced"
      BY <2>1, <2>3 DEF Fits, OneEntryPerFile
    <2> QED BY <2>2, <2>3, <2>4, <2>5, CardStatusIs
  <1>3. \A f \in shown : New(f) \in Item
    BY <1>1, <1>2, ItemParts DEF Item
  <1>4. \A f \in Files : items'[f] = IF f \in shown THEN New(f) ELSE its[f]
    <2>1. \A f \in shown : Shown(its[f], StateIn(es, f)) = New(f)
      BY <1>1 DEF Item, Shown
    <2> HIDE DEF New, failures
    <2> QED BY <2>1 DEF Mirror
  <1>5. items' \in [Files -> Item \cup {NULL}]
    <2>1. DOMAIN items' = Files /\ items' = [f \in Files |-> items'[f]]
      BY DEF Mirror
    <2> HIDE DEF New, shown, failures
    <2> QED BY <1>3, <1>4, <2>1
  <1>6. \A f \in Files : OnlyStatus(its[f], items'[f])
    <2>1. ASSUME NEW f \in Files, f \in shown
          PROVE  OnlyStatus(its[f], New(f))
      <3>1. its[f] # NULL /\ New(f) # NULL
        BY <1>1, <1>3, <2>1, ItemParts
      <3> QED BY <1>2, <2>1, <3>1 DEF OnlyStatus
    <2>2. ASSUME NEW f \in Files
          PROVE  OnlyStatus(its[f], its[f])
      BY DEF OnlyStatus
    <2> HIDE DEF New, shown, failures
    <2> QED BY <1>4, <2>1, <2>2
  <1>7. Save(fs \cup failures, items')
    BY DEF Mirror
  <1>8. \A f \in shown : f \in Files /\ items'[f].status = Status2(f)
    <2>1. \A f \in shown : New(f).status = Status2(f)
      OBVIOUS
    <2> HIDE DEF New, Status2, failures
    <2> QED BY <1>1, <1>4, <2>1
  <1>9. fs \cup failures \in SUBSET Files /\ \A f \in fs \cup failures : items'[f] \in Item
    <2>1. \A f \in shown : its[f] \in Item /\ f \in Files
      BY <1>1
    <2>2. \A f \in failures : f \in shown
      OBVIOUS
    <2> HIDE DEF failures, shown, New
    <2> QED BY <1>3, <1>4, <2>1, <2>2
  <1> HIDE DEF failures
  <1>0. disk \in [Files -> Record \cup {NULL}] /\ saved \subseteq Files
    OBVIOUS
  <1>10. /\ disk' \in [Files -> Record \cup {NULL}]
         /\ saved' \subseteq Files
         /\ \A f \in Files : \/ disk'[f] = disk[f] /\ (f \in saved' => f \in saved)
                             \/ items'[f] \in Item /\ disk'[f] = ToRecord(items'[f])
    <2> HIDE DEF New, Status2, shown
    <2>1. PICK now, all : now = items' /\ all = fs \cup failures
      OBVIOUS
    <2>2. Save(all, now) /\ ItemsAt(all, now)
      BY <1>7, <1>9, <2>1 DEF ItemsAt
    <2>3. Written(all, now)
      BY <1>0, <2>2, SaveIs
    <2> QED BY <2>1, <2>2, <2>3 DEF ItemsAt, Written
  <1>11. ASSUME NEW f \in Files
        PROVE  ItemFine(f, items'[f], disk'[f], up, saved')
    <2>1. ItemFine(f, its[f], disk[f], up, saved) /\ OnlyStatus(its[f], items'[f])
      BY <1>6
    <2>2. CASE its[f] \in Item
      <3>1. items'[f] \in Item
        BY <1>5, <2>1, <2>2, ItemParts DEF OnlyStatus
      <3>2. /\ (f \in saved' => f \in saved) => ItemFine(f, items'[f], disk[f], up, saved')
            /\ ItemFine(f, items'[f], ToRecord(items'[f]), up, saved')
        BY <2>1, <2>2, <3>1, OnlyStatusIsFine
      <3> QED BY <1>10, <3>2
    <2>3. CASE its[f] = NULL
      <3>1. items'[f] = NULL /\ disk'[f] = disk[f] /\ (f \in saved' => f \in saved)
        BY <1>10, <2>1, <2>3, ItemParts DEF OnlyStatus
      <3> QED BY <2>1, <2>3, <3>1 DEF ItemFine
    <2> QED BY <2>2, <2>3
  <1>12. Present' = Present
    BY <1>6 DEF Present, OnlyStatus
  <1>13. ASSUME NEW f \in Present, items'[f].status = "pushing"
         PROVE  \E i \in DOMAIN es : es[i].id = f /\ es[i].state \in InHand
    <2>1. ASSUME f \notin shown
          PROVE  FALSE
      <3>1. f \in Files /\ items'[f] = its[f]
        <4> HIDE DEF shown, New
        <4> QED BY <1>1, <1>4, <2>1
      <3>2. its[f].status = "pushing"
        BY <1>13, <3>1
      <3>3. \E i \in DOMAIN es : es[i].id = f
        BY <3>2 DEF Fits
      <3> QED BY <2>1, <3>3
    <2>2. StateIn(es, f) \in InHand
      BY <1>2, <1>13, <1>8, <2>1
    <2> QED BY <2>1, <2>2, StateInIs
  <1>14. ASSUME NEW i \in DOMAIN es
         PROVE  /\ items'[es[i].id] # NULL
                /\ es[i].id \in Present /\ items'[es[i].id].status = "synced" => es[i].state = "synced"
                /\ es[i].id \in Present /\ es[i].state \in InHand => items'[es[i].id].status = "pushing"
    <2>1. es[i].id \in Files /\ its[es[i].id] # NULL
      BY EntryAt DEF QueueEntry, Fits
    <2>2. items'[es[i].id] # NULL
      BY <1>6, <2>1 DEF OnlyStatus
    <2>3. CASE es[i].id \in Present
      <3>1. es[i].id \in shown /\ StateIn(es, es[i].id) = es[i].state
        BY <2>3, StateInIs
      <3>2. items'[es[i].id].status = Status2(es[i].id)
        BY <1>8, <3>1
      <3> QED BY <1>2, <2>2, <3>1, <3>2
    <2> QED BY <2>2, <2>3
  <1> QED BY <1>5, <1>6, <1>10, <1>11, <1>12, <1>13, <1>14


-----------------------------------------------------------------------------
(* The steps of the workspace *)

LEMMA SyncTypes ==
  NoSync \in SyncType /\ SyncDue \in SyncType
  <1>1. {} \in SUBSET Group
    OBVIOUS
  <1>2. \A b \in BOOLEAN, s \in SUBSET Group : [due |-> b, todo |-> s, sent |-> s] \in SyncType
    BY DEF SyncType
  <1> QED BY <1>1, <1>2 DEF NoSync, SyncDue

LEMMA SyncStays ==
  ASSUME Consistent,
         sync' \in {sync, NoSync, SyncDue},
         mixed \subseteq mixed',
         \A f \in SyncedFiles :
           /\ items'[f] # NULL
           /\ items'[f].status = "synced"
           /\ f \notin mixed' => items'[f].album = items[f].album
           /\ ~items[f].albumSynced => ~items'[f].albumSynced
           /\ filed'[f] = filed[f]
  PROVE  SyncOK' /\ sync' \in SyncType
  <1>1. CASE sync' = sync
    BY <1>1 DEF Consistent, Typed, SyncOK, SyncedFiles
  <1>2. CASE sync' \in {NoSync, SyncDue}
    <2>1. sync'.todo = {} /\ sync'.sent = {}
      BY <1>2 DEF NoSync, SyncDue
    <2>2. sync' \in SyncType
      BY <1>2, SyncTypes
    <2> QED BY <2>1, <2>2 DEF SyncOK
  <1> QED BY <1>1, <1>2

\* What every change of the queue keeps, once the cards have followed.
LEMMA MirroredStep ==
  ASSUME Consistent,
         NEW its \in [Files -> Item \cup {NULL}], NEW fs \in SUBSET Files,
         \A f \in fs : its[f] \in Item,
         entries' \in Seq(QueueEntry), OneEntryPerFile(entries'),
         LoopOK(entries', at', current', running'),
         stored' \subseteq Files, filed' \in [Files -> Albums \cup {NULL}],
         list' = list, mixed' = mixed,
         sync' \in {sync, NoSync, SyncDue},
         \A f \in Files : /\ its[f] = NULL <=> items[f] = NULL
                          /\ items[f] # NULL => its[f].gone = items[f].gone
                          /\ ItemFine(f, its[f], disk[f], stored', saved)
                          /\ AlbumFine(f, its[f], mixed, filed'[f]),
         \A f \in SyncedFiles : its[f] = items[f] /\ filed'[f] = filed[f],
         Fits(entries', its), Mirror(entries', its, fs)
  PROVE  Consistent'
  <1>1. PICK es : es = entries'
    OBVIOUS
  <1>2. PICK up : up = stored'
    OBVIOUS
  <1>3. /\ es \in Seq(QueueEntry) /\ OneEntryPerFile(es) /\ Fits(es, its) /\ Mirror(es, its, fs)
        /\ disk \in [Files -> Record \cup {NULL}] /\ saved \subseteq Files
        /\ \A f \in Files : /\ its[f] = NULL <=> items[f] = NULL
                            /\ items[f] # NULL => its[f].gone = items[f].gone
                            /\ ItemFine(f, its[f], disk[f], up, saved)
    BY <1>1, <1>2 DEF Consistent, Typed
  <1>4. /\ items' \in [Files -> Item \cup {NULL}]
        /\ disk' \in [Files -> Record \cup {NULL}]
        /\ saved' \subseteq Files
        /\ Present' = Present
        /\ \A f \in Files : /\ OnlyStatus(its[f], items'[f])
                            /\ ItemFine(f, items'[f], disk'[f], up, saved')
        /\ \A f \in Present : items'[f].status = "pushing" =>
             \E i \in DOMAIN es : es[i].id = f /\ es[i].state \in InHand
        /\ \A i \in DOMAIN es :
             /\ items'[es[i].id] # NULL
             /\ es[i].id \in Present /\ items'[es[i].id].status = "synced" => es[i].state = "synced"
             /\ es[i].id \in Present /\ es[i].state \in InHand => items'[es[i].id].status = "pushing"
    BY <1>3, MirrorKeeps
  <1>5. \A f \in SyncedFiles :
          f \in Files /\ items[f] # NULL /\ items[f].status = "synced"
    BY DEF Consistent, Typed, SyncOK, SyncedFiles, SyncType, Group
  <1>6. \A f \in SyncedFiles :
           /\ items'[f] # NULL
           /\ items'[f].status = "synced"
           /\ items'[f].album = items[f].album
           /\ items'[f].albumSynced = items[f].albumSynced
           /\ filed'[f] = filed[f]
    <2> TAKE f \in SyncedFiles
    <2>1. f \in Files /\ items[f] # NULL /\ items[f].status = "synced" /\ its[f] = items[f]
      BY <1>5
    <2>2. OnlyStatus(items[f], items'[f])
      BY <1>4, <2>1
    <2> QED BY <2>1, <2>2 DEF OnlyStatus
  <1>7. SyncOK' /\ sync' \in SyncType
    BY <1>6, SyncStays
  <1>8. Typed'
    BY <1>4, <1>7 DEF Typed, Consistent
  <1>9. PushingIsQueued'
    BY <1>1, <1>4 DEF PushingIsQueued, InHand
  <1>10. ASSUME NEW f \in Files
         PROVE  ItemOK(f)' /\ AlbumOK(f)'
    <2>1. ItemFine(f, items'[f], disk'[f], stored', saved')
      BY <1>2, <1>4
    <2>2. AlbumFine(f, items'[f], mixed', filed'[f])
      BY <1>4 DEF AlbumFine, OnlyStatus
    <2> QED BY <2>1, <2>2 DEF ItemOK, AlbumOK
  <1>11. \A i \in DOMAIN entries' : EntryOK(i)'
    BY <1>1, <1>4 DEF EntryOK
  <1> QED BY <1>7, <1>8, <1>9, <1>10, <1>11 DEF Consistent


LEMMA FitsNow ==
  ASSUME Consistent
  PROVE  Fits(entries, items) /\ QueueOK
  BY DEF Consistent, Typed, QueueOK, Fits, EntryOK, PushingIsQueued

LEMMA FitsAlike ==
  ASSUME NEW es, NEW fs, NEW its, Fits(es, its), Alike(es, fs)
  PROVE  Fits(fs, its)
  BY DEF Fits, Alike

\* The queue changes, and nothing is stored.
LEMMA PlainStep ==
  ASSUME Consistent,
         entries' \in Seq(QueueEntry), OneEntryPerFile(entries'),
         LoopOK(entries', at', current', running'),
         UNCHANGED <<stored, filed, list, mixed>>,
         sync' \in {sync, NoSync, SyncDue},
         Fits(entries', items), Mirrored
  PROVE  Consistent'
  <1>1. /\ items \in [Files -> Item \cup {NULL}]
        /\ stored' \subseteq Files
        /\ filed' \in [Files -> Albums \cup {NULL}]
    BY DEF Consistent, Typed
  <1>2. \A f \in Files : /\ ItemFine(f, items[f], disk[f], stored', saved)
                         /\ AlbumFine(f, items[f], mixed, filed'[f])
    BY DEF Consistent, ItemOK, AlbumOK
  <1>3. Mirror(entries', items, {})
    BY DEF Mirrored
  <1> QED BY <1>1, <1>2, <1>3, MirroredStep

LEMMA AfterPushIs ==
  ASSUME AfterPush
  PROVE  sync' \in {sync, NoSync, SyncDue}
  BY DEF AfterPush

LEMMA QueueGoesOnKeeps ==
  ASSUME Consistent, QueueGoesOn
  PROVE  Consistent'
  <1>1. Alike(entries, entries') /\ LoopOK(entries', at', current', running')
    BY FitsNow, LoopKeeps DEF QueueGoesOn
  <1>2. entries' \in Seq(QueueEntry) /\ OneEntryPerFile(entries') /\ Fits(entries', items)
    BY <1>1, FitsNow, FitsAlike, AlikeOne DEF Alike, QueueOK
  <1> QED BY <1>1, <1>2, AfterPushIs, PlainStep DEF QueueGoesOn

LEMMA UploadedIs ==
  ASSUME NEW item \in Item
  PROVE  /\ Uploaded(item) \in Item
         /\ Uploaded(item).status = "synced"
         /\ Uploaded(item).album = item.album
         /\ Uploaded(item).albumSynced => item.album = NULL
         /\ Uploaded(item).gone = item.gone
  BY ItemParts DEF Uploaded, Item, Status

LEMMA UploadEndsKeeps ==
  ASSUME Consistent, UploadEnds
  PROVE  Consistent'
  <1> DEFINE f == entries[current].id
  <1>1. /\ entries' \in Seq(QueueEntry)
        /\ DOMAIN entries' = DOMAIN entries
        /\ LoopOK(entries', at', current', running')
        /\ current \in DOMAIN entries
        /\ entries[current].state = "uploading"
        /\ \A i \in DOMAIN entries :
             /\ entries'[i].id = entries[i].id
             /\ i # current => (entries'[i].state = "synced" <=> entries[i].state = "synced")
    BY FitsNow, SettlesKeeps DEF UploadEnds
  <1>2. OneEntryPerFile(entries')
    BY <1>1 DEF Consistent, OneEntryPerFile
  <1>3. f \in Files /\ items[f] # NULL /\ (f \in Present => items[f].status = "pushing")
    BY <1>1, EntryAt DEF Consistent, Typed, QueueEntry, EntryOK, InHand
  <1>4. \A i \in DOMAIN entries : entries[i].id = f => i = current
    BY <1>1 DEF Consistent, OneEntryPerFile
  <1>5. sync' \in {sync, NoSync, SyncDue} /\ list' = list /\ mixed' = mixed
    BY AfterPushIs DEF UploadEnds
  <1>6. Fits(entries, items)
    BY FitsNow
  <1>7. /\ items \in [Files -> Item \cup {NULL}]
        /\ stored \subseteq Files
        /\ filed \in [Files -> Albums \cup {NULL}]
        /\ \A h \in Files : /\ ItemFine(h, items[h], disk[h], stored, saved)
                            /\ AlbumFine(h, items[h], mixed, filed[h])
    BY DEF Consistent, Typed, ItemOK, AlbumOK
  <1>8. f \in Present => f \notin SyncedFiles
    BY <1>3 DEF Consistent, SyncOK, SyncedFiles
  <1>9. CASE entries'[current].state = "synced"
    <2> DEFINE its == [items EXCEPT ![f] = Uploaded(items[f])]
    <2>1. /\ f \in Present
          /\ stored' = stored \cup {f}
          /\ filed' = [filed EXCEPT ![f] = NULL]
          /\ Mirror(entries', its, {f})
      BY <1>3, <1>7, <1>9 DEF UploadEnds, Sendable
    <2>2. items[f] \in Item /\ items[f].status = "pushing"
      BY <1>3, <1>7, <2>1
    <2>3. Uploaded(items[f]) \in Item
      BY <2>2, UploadedIs
    <2>4. its \in [Files -> Item \cup {NULL}] /\ \A h \in {f} : its[h] \in Item
      BY <1>3, <1>7, <2>3
    <2>5. stored' \subseteq Files /\ filed' \in [Files -> Albums \cup {NULL}] /\ {f} \in SUBSET Files
      <3> HIDE DEF its, f
      <3> QED BY <1>3, <1>7, <2>1
    <2>6. ASSUME NEW h \in Files
          PROVE  /\ its[h] = NULL <=> items[h] = NULL
                 /\ items[h] # NULL => its[h].gone = items[h].gone
                 /\ ItemFine(h, its[h], disk[h], stored', saved)
                 /\ AlbumFine(h, its[h], mixed, filed'[h])
      <3>1. CASE h # f
        <4>1. its[h] = items[h] /\ (h \in stored' <=> h \in stored) /\ filed'[h] = filed[h]
          BY <1>7, <2>1, <3>1
        <4>2. ItemFine(h, items[h], disk[h], stored', saved)
          BY <1>7, <4>1 DEF ItemFine
        <4> HIDE DEF its
        <4> QED BY <1>7, <4>1, <4>2
      <3>2. CASE h = f
        <4>1. its[h] = Uploaded(items[f]) /\ h \in stored' /\ filed'[h] = NULL
          BY <1>3, <1>7, <2>1, <3>2
        <4>2. Uploaded(items[f]) # NULL /\ items[f] # NULL
          BY <2>2, <2>3, ItemParts
        <4>3. ItemFine(h, Uploaded(items[f]), disk[h], stored', saved)
          BY <1>7, <2>2, <2>3, <3>2, <4>1, <4>2, UploadedIs DEF ItemFine
        <4>4. AlbumFine(h, Uploaded(items[f]), mixed, NULL)
          BY <2>2, UploadedIs DEF AlbumFine
        <4> HIDE DEF its, f
        <4> QED BY <2>2, <3>2, <4>1, <4>2, <4>3, <4>4, UploadedIs
      <3> QED BY <3>1, <3>2
    <2>7. \A h \in SyncedFiles : its[h] = items[h] /\ filed'[h] = filed[h]
      <3>1. \A h \in SyncedFiles : h \in Files /\ h # f
        BY <1>8, <2>1 DEF Consistent, Typed, SyncedFiles, SyncType, Group
      <3> QED BY <1>7, <2>1, <3>1
    <2>8. Fits(entries', its)
      <3>1. \A h \in Present : h \in Files
        BY DEF Present
      <3>2. ASSUME NEW i \in DOMAIN entries'
            PROVE  /\ its[entries'[i].id] # NULL
                   /\ entries'[i].id \in Present /\ its[entries'[i].id].status = "synced" => entries'[i].state = "synced"
        <4>1. i \in DOMAIN entries /\ entries'[i].id = entries[i].id /\ entries'[i].id \in Files
          BY <1>1, EntryAt DEF QueueEntry
        <4>2. CASE i = current
          BY <1>3, <1>7, <1>9, <2>3, <4>1, <4>2, ItemParts
        <4>3. CASE i # current
          <5>1. entries[i].id # f
            BY <1>4, <4>1, <4>3
          <5>2. its[entries[i].id] = items[entries[i].id]
            BY <1>7, <4>1, <5>1
          <5> HIDE DEF its, f
          <5> QED BY <1>1, <1>6, <4>1, <4>3, <5>2 DEF Fits
        <4> QED BY <4>2, <4>3
      <3>3. ASSUME NEW h \in Present, its[h].status = "pushing"
            PROVE  \E i \in DOMAIN entries' : entries'[i].id = h /\ entries'[i].state # "synced"
        <4>1. h # f
          BY <1>3, <1>7, <2>2, <3>3, UploadedIs
        <4>2. items[h].status = "pushing"
          BY <1>7, <3>1, <3>3, <4>1
        <4>3. PICK i \in DOMAIN entries : entries[i].id = h /\ entries[i].state # "synced"
          BY <1>6, <4>2 DEF Fits
        <4> QED BY <1>1, <4>1, <4>3
      <3> QED BY <3>2, <3>3 DEF Fits
    <2> HIDE DEF its
    <2> QED BY <1>1, <1>2, <1>5, <2>1, <2>4, <2>5, <2>6, <2>7, <2>8, MirroredStep
  <1>10. CASE entries'[current].state # "synced"
    <2>1. /\ Mirror(entries', items, {})
          /\ \/ stored' = stored /\ filed' = filed
             \/ /\ f \in Present
                /\ stored' = stored \cup {f}
                /\ filed' = [filed EXCEPT ![f] = NULL]
      BY <1>3, <1>7, <1>10 DEF UploadEnds, Sendable, Mirrored
    <2>2. Alike(entries, entries')
      BY <1>1, <1>10 DEF Alike
    <2>3. Fits(entries', items)
      BY <1>6, <2>2, FitsAlike
    <2>4. stored' \subseteq Files /\ filed' \in [Files -> Albums \cup {NULL}]
      BY <1>3, <1>7, <2>1
    <2>5. ASSUME NEW h \in Files
          PROVE  /\ ItemFine(h, items[h], disk[h], stored', saved)
                 /\ AlbumFine(h, items[h], mixed, filed'[h])
      <3>1. CASE (h \in stored' <=> h \in stored) /\ filed'[h] = filed[h]
        BY <1>7, <3>1 DEF ItemFine
      <3>2. CASE h = f /\ h \in Present
        BY <1>3, <1>7, <3>2 DEF ItemFine, AlbumFine
      <3> QED BY <1>7, <2>1, <3>1, <3>2
    <2>6. \A h \in SyncedFiles : filed'[h] = filed[h]
      <3>1. \A h \in SyncedFiles : h \in Files
        BY DEF Consistent, Typed, SyncedFiles, SyncType, Group
      <3> QED BY <1>7, <1>8, <2>1, <3>1
    <2> QED BY <1>1, <1>2, <1>5, <1>7, <2>1, <2>3, <2>4, <2>5, <2>6, MirroredStep
  <1> QED BY <1>9, <1>10


\* No card says that a file is being pushed when the loop is at rest.
LEMMA NothingPushedAtRest ==
  ASSUME Consistent, ~running, NEW f \in Present
  PROVE  items[f].status # "pushing"
  BY DEF Consistent, LoopOK, PushingIsQueued

\* A queue that grew by files that can be pushed.
LEMMA GrownFits ==
  ASSUME Consistent, NEW en, NEW fs, Grown(entries, en, fs),
         \A f \in fs : f \in Present /\ items[f].status # "synced"
  PROVE  Fits(en, items)
  <1>1. \A f \in Present : items[f] # NULL
    BY DEF Present
  <1>2. Fits(entries, items)
    BY FitsNow
  <1>3. ASSUME NEW i \in DOMAIN en
        PROVE  /\ items[en[i].id] # NULL
               /\ en[i].id \in Present /\ items[en[i].id].status = "synced" => en[i].state = "synced"
    <2>1. CASE i \in DOMAIN entries
      BY <1>2, <2>1 DEF Fits, Grown
    <2>2. CASE i \notin DOMAIN entries
      BY <1>1, <1>3, <2>2 DEF Grown
    <2> QED BY <2>1, <2>2
  <1>4. ASSUME NEW f \in Present, items[f].status = "pushing"
        PROVE  \E i \in DOMAIN en : en[i].id = f /\ en[i].state # "synced"
    BY <1>2, <1>4 DEF Fits, Grown
  <1> QED BY <1>3, <1>4 DEF Fits

LEMMA PushItemsKeeps ==
  ASSUME Consistent, NEW fs \in SUBSET Files, PushItems(fs)
  PROVE  /\ entries' \in Seq(QueueEntry) /\ OneEntryPerFile(entries')
         /\ LoopOK(entries', at', current', running') /\ Fits(entries', items)
  <1> DEFINE targets == {f \in fs \cap Present : items[f].status \in {"pending", "failed"} /\ items[f].blob}
             before == IF ~running /\ phase \in {"done", "cancelled"} THEN <<>> ELSE entries
             en == Enqueued(before, targets)
  <1>1. targets \in SUBSET Files /\ \A f \in targets : f \in Present /\ items[f].status \in {"pending", "failed"}
    OBVIOUS
  <1>2. StartWith(en, cancelRequested, pauseRequested)
    BY DEF PushItems
  <1> HIDE DEF targets
  <1>3. CASE before = entries
    <2>1. entries \in Seq(QueueEntry) /\ OneEntryPerFile(entries) /\ LoopOK(entries, at, current, running)
      BY DEF Consistent, Typed
    <2>2. \A i \in DOMAIN entries : entries[i].state \in InHand => entries[i].id \notin targets
      BY <1>1 DEF Consistent, EntryOK
    <2>3. Grown(entries, en, targets) /\ OneEntryPerFile(en)
      BY <1>1, <1>3, <2>1, <2>2, EnqueuedGrows
    <2> HIDE DEF en
    <2>4. Fits(en, items)
      BY <1>1, <2>3, GrownFits
    <2>5. en \in Seq(QueueEntry) /\ LoopOK(en, at, current, running)
      BY <2>1, <2>3, GrownKeepsLoop DEF Grown
    <2>6. Alike(en, entries') /\ LoopOK(entries', at', current', running')
      BY <1>2, <2>5, StartKeeps
    <2> QED BY <2>3, <2>4, <2>6, FitsAlike, AlikeOne DEF Alike
  <1>4. CASE before = <<>> /\ ~running
    <2> PICK es : es = <<>>
      OBVIOUS
    <2>1. es \in Seq(QueueEntry) /\ DOMAIN es = {} /\ OneEntryPerFile(es) /\ LoopOK(es, at, current, running)
      BY <1>4 DEF Consistent, LoopOK, OneEntryPerFile
    <2>2. Grown(es, en, targets) /\ OneEntryPerFile(en)
      BY <1>1, <1>4, <2>1, EnqueuedGrows
    <2> HIDE DEF en
    <2>3. Fits(en, items)
      BY <1>1, <1>4, <2>1, <2>2, NothingPushedAtRest DEF Fits, Grown, Present
    <2>4. en \in Seq(QueueEntry) /\ LoopOK(en, at, current, running)
      BY <2>1, <2>2, GrownKeepsLoop DEF Grown
    <2>5. Alike(en, entries') /\ LoopOK(entries', at', current', running')
      BY <1>2, <2>4, StartKeeps
    <2> QED BY <2>2, <2>3, <2>5, FitsAlike, AlikeOne DEF Alike
  <1> QED BY <1>3, <1>4

LEMMA RetryKeeps ==
  ASSUME Consistent, RetryFailedItems
  PROVE  /\ entries' \in Seq(QueueEntry) /\ OneEntryPerFile(entries')
         /\ LoopOK(entries', at', current', running') /\ Fits(entries', items)
  <1> DEFINE retryable == {f \in Present : items[f].status = "failed" /\ items[f].blob}
             fresh == {f \in retryable : \A i \in DOMAIN entries : entries[i].id # f}
             en == Again(Enqueued(entries, fresh))
  <1>1. fresh \in SUBSET Files /\ \A f \in fresh : f \in Present /\ items[f].status = "failed"
    BY DEF Present
  <1>2. StartWith(en, FALSE, pauseRequested)
    BY DEF RetryFailedItems
  <1>3. \A i \in DOMAIN entries : entries[i].id \notin fresh
    OBVIOUS
  <1> HIDE DEF fresh
  <1>4. entries \in Seq(QueueEntry) /\ OneEntryPerFile(entries) /\ LoopOK(entries, at, current, running)
    BY DEF Consistent, Typed
  <1>5. Grown(entries, en, fresh) /\ OneEntryPerFile(en)
    BY <1>1, <1>3, <1>4, EnqueuedGrows, AgainGrows
  <1> HIDE DEF en
  <1>6. Fits(en, items)
    BY <1>1, <1>5, GrownFits
  <1>7. en \in Seq(QueueEntry) /\ LoopOK(en, at, current, running)
    BY <1>4, <1>5, GrownKeepsLoop DEF Grown
  <1>8. Alike(en, entries') /\ LoopOK(entries', at', current', running')
    BY <1>2, <1>7, StartKeeps
  <1> QED BY <1>5, <1>6, <1>8, FitsAlike, AlikeOne DEF Alike

LEMMA ButtonsKeep ==
  ASSUME Consistent, Pause \/ Resume \/ Cancel \/ Reset
  PROVE  /\ entries' \in Seq(QueueEntry) /\ OneEntryPerFile(entries')
         /\ LoopOK(entries', at', current', running') /\ Fits(entries', items)
  <1>1. /\ entries \in Seq(QueueEntry) /\ OneEntryPerFile(entries)
        /\ LoopOK(entries, at, current, running) /\ Fits(entries, items)
    BY FitsNow DEF QueueOK
  <1>2. CASE Alike(entries, entries') /\ LoopOK(entries', at', current', running')
    BY <1>1, <1>2, FitsAlike, AlikeOne DEF Alike
  <1>3. CASE Pause
    <2>1. entries' = entries /\ at' = Awake /\ current' = current /\ running' = running
      BY <1>3 DEF Pause
    <2>2. LoopOK(entries, Awake, current, running)
      BY <1>1, AwakeKeeps
    <2> QED BY <1>1, <2>1, <2>2
  <1>4. CASE Resume
    BY <1>1, <1>2, <1>4, StartKeeps DEF Resume
  <1>5. CASE Cancel
    <2>1. /\ entries' = IF running THEN entries ELSE CancelWaiting(entries)
          /\ at' = Awake /\ current' = current /\ running' = running
      BY <1>5 DEF Cancel
    <2>2. CASE running
      <3>1. LoopOK(entries, Awake, current, running)
        BY <1>1, AwakeKeeps
      <3> QED BY <1>1, <2>1, <2>2, <3>1
    <2>3. CASE ~running
      <3>1. NoneInHand(entries) /\ at = "nothing" /\ running = FALSE
        BY <1>1, <2>3 DEF LoopOK, NoneInHand, InHand
      <3>2. Alike(entries, entries') /\ NoneInHand(entries')
        BY <1>1, <2>1, <2>3, <3>1, CancelWaitingAlike
      <3>3. at' = "nothing" /\ running' = FALSE
        BY <2>1, <3>1 DEF Awake
      <3>4. LoopOK(entries', at', current', running')
        BY <3>2, <3>3 DEF LoopOK, NoneInHand, InHand
      <3> QED BY <1>2, <3>2, <3>4
    <2> QED BY <2>2, <2>3
  <1>6. CASE Reset
    <2>1. entries' = <<>> /\ at' = at /\ running' = running /\ ~running
      BY <1>6 DEF Reset
    <2>2. <<>> \in Seq(QueueEntry) /\ OneEntryPerFile(<<>>)
      BY DEF OneEntryPerFile
    <2>3. LoopOK(<<>>, at, current', running)
      BY <1>1, <2>1 DEF LoopOK
    <2>4. Fits(<<>>, items)
      BY <2>1, NothingPushedAtRest DEF Fits
    <2> QED BY <2>1, <2>2, <2>3, <2>4
  <1> QED BY <1>3, <1>4, <1>5, <1>6

LEMMA QueueClickKeeps ==
  ASSUME Consistent, QueueClick
  PROVE  Consistent'
  <1>1. /\ entries' \in Seq(QueueEntry) /\ OneEntryPerFile(entries')
        /\ LoopOK(entries', at', current', running') /\ Fits(entries', items)
    BY PushItemsKeeps, RetryKeeps, ButtonsKeep DEF QueueClick
  <1> QED BY <1>1, PlainStep DEF QueueClick


\* How the other actions change an item.
LEMMA EditedIs ==
  ASSUME NEW item \in Item, NEW a \in Albums \cup {NULL}, NEW b \in BOOLEAN, NEW c \in BOOLEAN
  PROVE  /\ Edited(item, a, b, c) \in Item
         /\ Edited(item, a, b, c).status = item.status
         /\ Edited(item, a, b, c).blob = item.blob
         /\ Edited(item, a, b, c).album = a
         /\ Edited(item, a, b, c).albumSynced = b
         /\ Edited(item, a, b, c).gone = c
  BY DEF Edited, Item

LEMMA GoneIs ==
  ASSUME NEW item \in Item
  PROVE  /\ Gone(item) \in Item
         /\ Gone(item).status = item.status
         /\ Gone(item).blob = item.blob
         /\ Gone(item).album = item.album
         /\ Gone(item).albumSynced = item.albumSynced
         /\ Gone(item).gone
  <1>1. Gone(item) \in Item
    BY ItemParts DEF Gone, Edited, Item
  <1> QED BY <1>1 DEF Gone, Edited

LEMMA AcknowledgedIs ==
  ASSUME NEW item \in Item
  PROVE  /\ Acknowledged(item) \in Item
         /\ Acknowledged(item).status = item.status
         /\ Acknowledged(item).blob = item.blob
         /\ Acknowledged(item).album = item.album
         /\ Acknowledged(item).gone = item.gone
  <1>1. Acknowledged(item) \in Item
    BY ItemParts DEF Acknowledged, Edited, Item
  <1> QED BY <1>1 DEF Acknowledged, Edited

LEMMA MovedIs ==
  ASSUME NEW item \in Item, NEW a \in Albums \cup {NULL}
  PROVE  /\ Moved(item, a) \in Item
         /\ Moved(item, a).status = item.status
         /\ Moved(item, a).albumSynced <=> item.status # "synced"
         /\ Moved(item, a).gone = item.gone
  <1>1. Moved(item, a) \in Item
    BY ItemParts DEF Moved, Edited, Item
  <1> QED BY <1>1 DEF Moved, Edited

\* An item that is edited, with its record as it was or written anew.
LEMMA EditIsFine ==
  ASSUME NEW f, NEW item \in Item, NEW a \in Albums \cup {NULL}, NEW b \in BOOLEAN, NEW c \in BOOLEAN,
         NEW record, NEW up, NEW kept, NEW keptNow,
         ItemFine(f, item, record, up, kept)
  PROVE  /\ Edited(item, a, b, c) \in Item
         /\ ItemFine(f, Edited(item, a, b, c), ToRecord(Edited(item, a, b, c)), up, keptNow)
         /\ (f \in keptNow => f \in kept) => ItemFine(f, Edited(item, a, b, c), record, up, keptNow)
  <1>1. item # NULL
    BY ItemParts
  <1>2. PICK new \in Item : new = Edited(item, a, b, c)
    BY EditedIs
  <1>3. new # NULL /\ new.status = item.status /\ new.blob = item.blob
    BY <1>2, ItemParts DEF Edited
  <1>4. (f \in keptNow => f \in kept) => ItemFine(f, new, record, up, keptNow)
    BY <1>1, <1>3 DEF ItemFine
  <1>5. ItemFine(f, new, ToRecord(new), up, keptNow)
    BY <1>1, <1>3, SavedIsFine DEF ItemFine
  <1> QED BY <1>2, <1>4, <1>5


\* The queue stays, and no card changes its status.
LEMMA ItemStep ==
  ASSUME Consistent, UNCHANGED <<entries, at, current, running>>,
         Typed', SyncOK',
         \A f \in Files : ItemOK(f)' /\ AlbumOK(f)',
         \A f \in Files :
           /\ items[f] # NULL =>
                /\ items'[f] # NULL
                /\ items'[f].status = items[f].status
                /\ items[f].gone => items'[f].gone
           /\ items[f] = NULL /\ items'[f] # NULL => items'[f].status = "pending"
  PROVE  Consistent'
  <1>1. PushingIsQueued'
    <2>1. SUFFICES ASSUME NEW f \in Files, items'[f] # NULL, ~items'[f].gone, items'[f].status = "pushing"
                   PROVE  \E i \in DOMAIN entries : entries[i].id = f /\ entries[i].state \in {"uploading", "retrying"}
      BY DEF PushingIsQueued, Present
    <2>2. f \in Present /\ items[f].status = "pushing"
      BY <2>1 DEF Present
    <2> QED BY <2>2 DEF Consistent, PushingIsQueued
  <1>2. ASSUME NEW i \in DOMAIN entries
        PROVE  EntryOK(i)'
    <2>1. entries[i].id \in Files /\ EntryOK(i)
      BY EntryAt DEF Consistent, Typed, QueueEntry
    <2> QED BY <2>1 DEF EntryOK, Present
  <1>3. OneEntryPerFile(entries)' /\ LoopOK(entries, at, current, running)'
    BY DEF Consistent
  <1>4. \A i \in DOMAIN entries' : EntryOK(i)'
    BY <1>2
  <1> QED BY <1>1, <1>3, <1>4 DEF Consistent

\* The parts that an action leaves alone.
LEMMA Parts ==
  ASSUME Consistent
  PROVE  /\ Typed
         /\ \A f \in Files : /\ ItemFine(f, items[f], disk[f], stored, saved)
                             /\ AlbumFine(f, items[f], mixed, filed[f])
                             /\ items[f] \in Item \cup {NULL}
                             /\ items[f] # NULL => items[f] \in Item
         /\ \A f \in SyncedFiles : f \in Files /\ items[f] \in Item /\ items[f].status = "synced"
         /\ \A g \in sync.todo \cup sync.sent : g \in Group /\ g.files \subseteq SyncedFiles
         /\ SyncOK
  <1>1. Typed /\ SyncOK
    BY DEF Consistent
  <1>2. \A f \in Files : /\ ItemFine(f, items[f], disk[f], stored, saved)
                         /\ AlbumFine(f, items[f], mixed, filed[f])
                         /\ items[f] \in Item \cup {NULL}
                         /\ items[f] # NULL => items[f] \in Item
    BY DEF Consistent, Typed, ItemOK, AlbumOK
  <1>3. \A g \in sync.todo \cup sync.sent : g \in Group /\ g.files \subseteq SyncedFiles /\ g.files \subseteq Files
    BY <1>1 DEF Typed, SyncType, Group, SyncedFiles
  <1>4. \A f \in SyncedFiles : f \in Files /\ items[f] # NULL /\ items[f].status = "synced"
    BY <1>1, <1>3 DEF SyncOK, SyncedFiles
  <1> QED BY <1>1, <1>2, <1>3, <1>4

\* Items, records and albums stay.
LEMMA SyncStep ==
  ASSUME Consistent, UNCHANGED <<entries, at, current, running, items, disk, stored, saved, filed, mixed>>,
         sync' \in SyncType, SyncOK',
         list' # NULL => \A f \in DOMAIN list' : list'[f] \in Albums \cup {NULL}
  PROVE  Consistent'
  <1>1. Typed'
    BY DEF Consistent, Typed
  <1>2. \A f \in Files : ItemOK(f)' /\ AlbumOK(f)'
    BY DEF Consistent, ItemOK, AlbumOK
  <1> QED BY <1>1, <1>2, ItemStep

LEMMA NewSyncIs ==
  ASSUME Consistent, sync' = NewSync, UNCHANGED <<items, mixed, filed>>
  PROVE  sync' \in SyncType /\ SyncOK'
  <1>1. sync' = [due |-> FALSE, todo |-> {g \in Groups : g.files # {}}, sent |-> {}]
    BY DEF NewSync
  <1>2. \A f \in Unsynced : f \in Files /\ items[f] # NULL /\ items[f].status = "synced" /\ ~items[f].albumSynced
    BY DEF Unsynced, Present
  <1>3. \A g \in Groups : /\ g \in Group
                          /\ g.files \subseteq Unsynced
                          /\ \A f \in g.files : items[f].album = g.album
    BY <1>2 DEF Groups, Group
  <1>4. \A g, h \in Groups : g.album = h.album => g = h
    BY DEF Groups
  <1>5. sync'.todo \subseteq Groups /\ sync'.sent = {}
    BY <1>1
  <1>6. sync' \in SyncType
    <2>1. sync'.todo \in SUBSET Group /\ {} \in SUBSET Group
      BY <1>3, <1>5
    <2> QED BY <1>1, <2>1 DEF SyncType
  <1>7. SyncOK'
    BY <1>2, <1>3, <1>4, <1>5 DEF SyncOK
  <1> QED BY <1>6, <1>7

LEMMA SyncStartsKeeps ==
  ASSUME Consistent, SyncStarts \/ SyncClick
  PROVE  Consistent'
  <1>1. /\ UNCHANGED <<entries, at, current, running, items, disk, stored, saved, filed, mixed, list>>
        /\ sync' = NewSync
    BY DEF SyncStarts, SyncClick, vars, flags
  <1>2. sync' \in SyncType /\ SyncOK'
    BY <1>1, NewSyncIs
  <1> QED BY <1>1, <1>2, Parts, SyncStep DEF Typed

LEMMA SyncFailsKeeps ==
  ASSUME Consistent, SyncFails
  PROVE  Consistent'
  <1>1. /\ UNCHANGED <<entries, at, current, running, items, disk, stored, saved, filed, mixed, list>>
        /\ sync' = NoSync
    BY DEF SyncFails, vars, flags
  <1>2. sync' \in SyncType
    BY <1>1, SyncTypes
  <1>3. SyncOK'
    BY <1>1 DEF NoSync, SyncOK
  <1> QED BY <1>1, <1>2, <1>3, Parts, SyncStep DEF Typed

LEMMA ListSteps ==
  ASSUME Consistent, AskList \/ ListFails
  PROVE  Consistent'
  <1>1. UNCHANGED <<entries, at, current, running, items, disk, stored, saved, filed, mixed, sync>>
    BY DEF AskList, ListFails, vars, flags
  <1>2. list' # NULL => \A f \in DOMAIN list' : list'[f] \in Albums \cup {NULL}
    <2>1. list' # NULL => list' = [f \in stored |-> filed[f]]
      BY DEF AskList, ListFails
    <2>2. \A f \in stored : filed[f] \in Albums \cup {NULL}
      BY Parts DEF Typed
    <2> QED BY <2>1, <2>2
  <1>3. sync' \in SyncType /\ SyncOK'
    BY <1>1, Parts DEF Typed, SyncOK
  <1> QED BY <1>1, <1>2, <1>3, SyncStep

LEMMA SendAssignKeeps ==
  ASSUME Consistent, SendAssign
  PROVE  Consistent'
  <1>1. PICK g \in sync.todo :
          /\ filed' = [f \in Files |-> IF f \in g.files /\ f \in stored THEN g.album ELSE filed[f]]
          /\ sync' = [due |-> sync.due, todo |-> sync.todo \ {g}, sent |-> {g}]
    BY DEF SendAssign
  <1>2. UNCHANGED <<entries, at, current, running, items, disk, stored, saved, mixed, list>> /\ sync.sent = {}
    BY DEF SendAssign, vars, flags
  <1>3. g \in Group /\ g.album \in Albums \cup {NULL} /\ g.files \subseteq Files
    BY Parts DEF Group
  <1>4. \A f \in g.files : /\ items[f] # NULL
                           /\ items[f].status = "synced"
                           /\ ~items[f].albumSynced
                           /\ f \in stored
                           /\ f \notin mixed => items[f].album = g.album
    BY <1>3, Parts DEF SyncOK, ItemFine
  <1>5. sync' \in SyncType
    <2>1. sync.due \in BOOLEAN /\ sync.todo \ {g} \in SUBSET Group /\ {g} \in SUBSET Group
      BY <1>3, Parts DEF Typed, SyncType
    <2> QED BY <1>1, <2>1 DEF SyncType
  <1>6. filed' \in [Files -> Albums \cup {NULL}]
    BY <1>1, <1>3, Parts DEF Typed
  <1>7. Typed'
    BY <1>2, <1>5, <1>6, Parts DEF Typed
  <1>8. SyncOK'
    <2>1. sync'.todo = sync.todo \ {g} /\ sync'.sent = {g} /\ items' = items /\ mixed' = mixed
      BY <1>1, <1>2
    <2>2. \A f \in g.files : filed'[f] = g.album
      BY <1>1, <1>3, <1>4
    <2> QED BY <1>2, <2>1, <2>2, Parts DEF SyncOK
  <1>9. ASSUME NEW f \in Files
        PROVE  ItemOK(f)' /\ AlbumOK(f)'
    <2>1. ItemFine(f, items'[f], disk'[f], stored', saved')
      BY <1>2, Parts
    <2>2. f \in g.files \/ filed'[f] = filed[f]
      BY <1>1
    <2>3. AlbumFine(f, items[f], mixed, filed'[f])
      BY <1>4, <2>2, Parts DEF AlbumFine
    <2> QED BY <1>2, <2>1, <2>3 DEF ItemOK, AlbumOK
  <1> QED BY <1>2, <1>7, <1>8, <1>9, ItemStep

LEMMA AckAssignKeeps ==
  ASSUME Consistent, AckAssign
  PROVE  Consistent'
  <1>1. /\ UNCHANGED <<entries, at, current, running, stored, filed, mixed, list>>
        /\ items' = [f \in Files |-> IF f \in Sent THEN Acknowledged(items[f]) ELSE items[f]]
        /\ Save(Sent, items')
        /\ sync' = [due |-> sync.due, todo |-> sync.todo, sent |-> {}]
    BY DEF AckAssign, vars, flags
  <1>2. \A f \in Sent : /\ f \in SyncedFiles /\ f \in Files /\ items[f] \in Item
                        /\ f \notin mixed => filed[f] = items[f].album
                        /\ \A g \in sync.todo : f \notin g.files
    BY Parts DEF Sent, SyncedFiles, SyncOK
  <1>3. ASSUME NEW f \in Sent
        PROVE  /\ items'[f] \in Item
               /\ items'[f].status = items[f].status
               /\ items'[f].album = items[f].album
               /\ items'[f].gone = items[f].gone
               /\ ItemFine(f, items'[f], ToRecord(items'[f]), stored, saved')
               /\ (f \in saved' => f \in saved) => ItemFine(f, items'[f], disk[f], stored, saved')
    <2>1. f \in Files /\ items[f] \in Item /\ items'[f] = Acknowledged(items[f])
      BY <1>1, <1>2
    <2>2. PICK item, now \in Item : item = items[f] /\ now = items'[f] /\ now = Acknowledged(item)
      BY <2>1, AcknowledgedIs
    <2>3. now.status = item.status /\ now.album = item.album /\ now.gone = item.gone
      BY <2>1, <2>2, AcknowledgedIs
    <2>4. PICK a \in Albums \cup {NULL}, b \in BOOLEAN, c \in BOOLEAN : now = Edited(item, a, b, c)
      BY <2>2, ItemParts DEF Acknowledged
    <2>5. ItemFine(f, item, disk[f], stored, saved)
      BY <2>1, <2>2, Parts
    <2>6. /\ ItemFine(f, now, ToRecord(now), stored, saved')
          /\ (f \in saved' => f \in saved) => ItemFine(f, now, disk[f], stored, saved')
      BY <2>4, <2>5, EditIsFine
    <2> QED BY <2>2, <2>3, <2>6
  <1>4. /\ disk' \in [Files -> Record \cup {NULL}]
        /\ saved' \subseteq Files
        /\ \A f \in Files : \/ disk'[f] = disk[f] /\ (f \in saved' => f \in saved)
                            \/ f \in Sent /\ disk'[f] = ToRecord(items'[f])
    <2>1. Sent \in SUBSET Files /\ disk \in [Files -> Record \cup {NULL}] /\ saved \subseteq Files
      BY <1>2, Parts DEF Typed
    <2>2. PICK now, fs : now = items' /\ fs = Sent
      OBVIOUS
    <2>3. Save(fs, now) /\ fs \in SUBSET Files /\ \A f \in fs : now[f] \in Item
      BY <1>1, <1>3, <2>1, <2>2
    <2>4. /\ disk' \in [Files -> Record \cup {NULL}]
          /\ saved' \subseteq Files
          /\ \A f \in Files : \/ disk'[f] = disk[f] /\ (f \in saved' => f \in saved)
                              \/ f \in fs /\ disk'[f] = ToRecord(now[f])
      BY <2>1, <2>3, SaveIs DEF ItemsAt, Written
    <2> QED BY <2>2, <2>4
  <1>5. /\ items' \in [Files -> Item \cup {NULL}]
        /\ \A f \in Files : f \notin Sent => items'[f] = items[f]
    <2>1. items' = [f \in Files |-> items'[f]] /\ \A f \in Files : f \notin Sent => items'[f] = items[f]
      BY <1>1
    <2> QED BY <1>3, <2>1, Parts DEF Typed
  <1>6. sync' \in SyncType
    <2>1. sync.due \in BOOLEAN /\ sync.todo \in SUBSET Group /\ {} \in SUBSET Group
      BY Parts DEF Typed, SyncType
    <2> QED BY <1>1, <2>1 DEF SyncType
  <1>7. Typed'
    BY <1>1, <1>4, <1>5, <1>6, Parts DEF Typed
  <1>8. SyncOK'
    <2>1. sync'.todo = sync.todo /\ sync'.sent = {} /\ mixed' = mixed
      BY <1>1
    <2>2. \A g \in sync.todo : \A f \in g.files : items'[f] = items[f]
      BY <1>2, <1>5, Parts
    <2> QED BY <2>1, <2>2, Parts DEF SyncOK
  <1>9. ASSUME NEW f \in Files
        PROVE  ItemOK(f)' /\ AlbumOK(f)'
    <2>1. ItemFine(f, items'[f], disk'[f], stored, saved')
      <3>1. CASE f \in Sent
        BY <1>3, <1>4, <3>1
      <3>2. CASE f \notin Sent
        BY <1>4, <1>5, <3>2, Parts DEF ItemFine
      <3> QED BY <3>1, <3>2
    <2>2. AlbumFine(f, items'[f], mixed, filed[f])
      <3>1. CASE f \in Sent
        <4>1. items'[f].album = items[f].album /\ (f \notin mixed => filed[f] = items[f].album)
          BY <1>2, <1>3, <3>1
        <4> QED BY <4>1 DEF AlbumFine
      <3>2. CASE f \notin Sent
        BY <1>1, <1>5, <3>2, Parts
      <3> QED BY <3>1, <3>2
    <2> QED BY <1>1, <2>1, <2>2 DEF ItemOK, AlbumOK
  <1>10. \A f \in Files :
           /\ items[f] # NULL =>
                /\ items'[f] # NULL
                /\ items'[f].status = items[f].status
                /\ items[f].gone => items'[f].gone
           /\ items[f] = NULL /\ items'[f] # NULL => items'[f].status = "pending"
    BY <1>2, <1>3, <1>5, ItemParts
  <1> QED BY <1>1, <1>7, <1>8, <1>9, <1>10, ItemStep


LEMMA ListArrivesKeeps ==
  ASSUME Consistent, ListArrives
  PROVE  Consistent'
  <1> DEFINE known == {f \in Present \cap DOMAIN list : items[f].status = "synced"}
  <1>1. /\ UNCHANGED <<entries, at, current, running, disk, stored, saved, filed, sync>>
        /\ items' = [f \in Files |-> IF f \in known THEN Listed(items[f], list[f]) ELSE items[f]]
        /\ mixed' = mixed \cup {f \in known : items[f].album # list[f]}
        /\ list' = NULL
    BY DEF ListArrives, vars, flags
  <1>2. \A f \in known : f \in Files /\ items[f] \in Item /\ list[f] \in Albums \cup {NULL}
    <2>1. list # NULL
      BY DEF ListArrives
    <2> QED BY <2>1, Parts DEF Typed, Present
  <1> HIDE DEF known
  <1>3. ASSUME NEW f \in Files, f \in known
        PROVE  /\ items'[f] \in Item
               /\ items'[f].status = items[f].status
               /\ items'[f].blob = items[f].blob
               /\ items'[f].albumSynced = items[f].albumSynced
               /\ items'[f].gone = items[f].gone
               /\ f \notin mixed' => items'[f].album = items[f].album /\ f \notin mixed
    <2>1. items[f] \in Item /\ items'[f] = Listed(items[f], list[f])
      BY <1>1, <1>2, <1>3
    <2>2. list[f] \in Albums \cup {NULL} /\ items[f].albumSynced \in BOOLEAN /\ items[f].gone \in BOOLEAN
      BY <1>2, <1>3, <2>1, ItemParts
    <2>3. items'[f] \in Item /\ items'[f].album = list[f]
          /\ items'[f].status = items[f].status
          /\ items'[f].blob = items[f].blob
          /\ items'[f].albumSynced = items[f].albumSynced
          /\ items'[f].gone = items[f].gone
      BY <2>1, <2>2, EditedIs DEF Listed
    <2> QED BY <1>1, <1>3, <2>3
  <1>4. \A f \in Files : f \notin known => items'[f] = items[f] /\ (f \in mixed' <=> f \in mixed)
    BY <1>1
  <1>5. items' \in [Files -> Item \cup {NULL}]
    <2>1. items' = [f \in Files |-> items'[f]]
      BY <1>1
    <2> QED BY <1>3, <1>4, <2>1, Parts DEF Typed
  <1>6. Typed'
    BY <1>1, <1>5, Parts DEF Typed
  <1>7. ASSUME NEW f \in Files
        PROVE  ItemOK(f)' /\ AlbumOK(f)'
    <2>1. items[f] # NULL <=> items'[f] # NULL
      BY <1>2, <1>3, <1>4, ItemParts
    <2>2. items[f] # NULL => /\ items'[f].status = items[f].status
                             /\ items'[f].blob = items[f].blob
                             /\ items'[f].albumSynced = items[f].albumSynced
                             /\ items'[f].gone = items[f].gone
                             /\ f \notin mixed' => items'[f].album = items[f].album /\ f \notin mixed
      BY <1>3, <1>4
    <2>3. ItemFine(f, items'[f], disk[f], stored, saved)
      BY <2>1, <2>2, Parts DEF ItemFine
    <2>4. AlbumFine(f, items'[f], mixed', filed[f])
      BY <2>1, <2>2, Parts DEF AlbumFine
    <2> QED BY <1>1, <2>3, <2>4 DEF ItemOK, AlbumOK
  <1>8. SyncOK'
    <2>1. \A f \in SyncedFiles : /\ items'[f] # NULL
                                 /\ items'[f].status = "synced"
                                 /\ f \notin mixed' => items'[f].album = items[f].album
                                 /\ ~items[f].albumSynced => ~items'[f].albumSynced
                                 /\ filed'[f] = filed[f]
      BY <1>1, <1>3, <1>4, Parts, ItemParts
    <2> QED BY <1>1, <2>1, SyncStays
  <1>9. \A f \in Files :
           /\ items[f] # NULL =>
                /\ items'[f] # NULL
                /\ items'[f].status = items[f].status
                /\ items[f].gone => items'[f].gone
           /\ items[f] = NULL /\ items'[f] # NULL => items'[f].status = "pending"
    BY <1>2, <1>3, <1>4, ItemParts
  <1> QED BY <1>1, <1>6, <1>7, <1>8, <1>9, ItemStep

\* One item is changed, and its record may be.
LEMMA OneItemStep ==
  ASSUME Consistent, NEW f \in Files, NEW item \in Item,
         UNCHANGED <<entries, at, current, running, stored, filed, sync, list>>,
         items' = [items EXCEPT ![f] = item], disk' \in [Files -> Record \cup {NULL}],
         saved' \subseteq Files,
         \A h \in Files \ {f} : disk'[h] = disk[h] /\ (h \in saved' => h \in saved),
         mixed \subseteq mixed', mixed' \subseteq mixed \cup {f},
         ItemFine(f, item, disk'[f], stored, saved'),
         AlbumFine(f, item, mixed', filed[f]),
         items[f] # NULL => item.status = items[f].status /\ (items[f].gone => item.gone),
         items[f] = NULL => item.status = "pending",
         f \in SyncedFiles => /\ f \notin mixed' => item.album = items[f].album
                              /\ ~items[f].albumSynced => ~item.albumSynced
  PROVE  Consistent'
  <1>1. /\ items'[f] = item /\ item # NULL
        /\ \A h \in Files : h # f => /\ items'[h] = items[h] /\ disk'[h] = disk[h]
                                     /\ h \in mixed' <=> h \in mixed
                                     /\ h \in saved' => h \in saved
    BY Parts, ItemParts DEF Typed
  <1>2. Typed'
    BY Parts DEF Typed
  <1>3. ASSUME NEW h \in Files
        PROVE  ItemOK(h)' /\ AlbumOK(h)'
    <2>1. CASE h = f
      BY <1>1, <2>1 DEF ItemOK, AlbumOK
    <2>2. CASE h # f
      <3>1. ItemFine(h, items'[h], disk'[h], stored, saved')
        BY <1>1, <2>2, Parts DEF ItemFine
      <3>2. AlbumFine(h, items'[h], mixed', filed[h])
        BY <1>1, <2>2, Parts DEF AlbumFine
      <3> QED BY <3>1, <3>2 DEF ItemOK, AlbumOK
    <2> QED BY <2>1, <2>2
  <1>4. SyncOK'
    <2>1. \A h \in SyncedFiles : /\ items'[h] # NULL
                                 /\ items'[h].status = "synced"
                                 /\ h \notin mixed' => items'[h].album = items[h].album
                                 /\ ~items[h].albumSynced => ~items'[h].albumSynced
                                 /\ filed'[h] = filed[h]
      BY <1>1, Parts, ItemParts
    <2> QED BY <2>1, SyncStays
  <1>5. \A h \in Files :
           /\ items[h] # NULL =>
                /\ items'[h] # NULL
                /\ items'[h].status = items[h].status
                /\ items[h].gone => items'[h].gone
           /\ items[h] = NULL /\ items'[h] # NULL => items'[h].status = "pending"
    BY <1>1
  <1> QED BY <1>2, <1>3, <1>4, <1>5, ItemStep

\* The item of one file is written, or the write is lost.
LEMMA OneSaved ==
  ASSUME Consistent, NEW f \in Files, NEW item \in Item,
         items' = [items EXCEPT ![f] = item], Save({f}, items')
  PROVE  /\ disk' \in [Files -> Record \cup {NULL}]
         /\ saved' \subseteq Files
         /\ \A h \in Files \ {f} : disk'[h] = disk[h] /\ (h \in saved' => h \in saved)
         /\ \/ disk'[f] = disk[f] /\ (f \in saved' => f \in saved)
            \/ disk'[f] = ToRecord(item)
  <1>1. items'[f] = item /\ disk \in [Files -> Record \cup {NULL}] /\ saved \subseteq Files
    BY Parts DEF Typed
  <1>2. PICK now, fs : now = items' /\ fs = {f}
    OBVIOUS
  <1>3. Save(fs, now) /\ fs \in SUBSET Files /\ \A h \in fs : now[h] \in Item
    BY <1>1, <1>2
  <1>4. /\ disk' \in [Files -> Record \cup {NULL}]
        /\ saved' \subseteq Files
        /\ \A h \in Files : \/ disk'[h] = disk[h] /\ (h \in saved' => h \in saved)
                            \/ h \in fs /\ disk'[h] = ToRecord(now[h])
    BY <1>1, <1>3, SaveIs DEF ItemsAt, Written
  <1> QED BY <1>1, <1>2, <1>4

LEMMA StageFileKeeps ==
  ASSUME Consistent, NEW f \in Files, NEW a \in Albums \cup {NULL}, StageFile(f, a)
  PROVE  Consistent'
  <1>1. StagedItem(a) \in Item /\ StagedItem(a).status = "pending" /\ StagedItem(a).blob
    BY DEF StagedItem, Item, Status
  <1>2. /\ items[f] = NULL
        /\ items' = [items EXCEPT ![f] = StagedItem(a)]
        /\ Save({f}, items')
        /\ UNCHANGED <<entries, at, current, running, stored, filed, sync, list, mixed>>
    BY DEF StageFile, Still, flags
  <1>3. ItemFine(f, StagedItem(a), disk'[f], stored, saved')
    <2>1. disk[f] = NULL /\ f \notin saved
      BY <1>2, Parts DEF ItemFine
    <2>2. ItemFine(f, StagedItem(a), ToRecord(StagedItem(a)), stored, saved')
      BY <1>1, SavedIsFine
    <2>3. f \notin saved' => ItemFine(f, StagedItem(a), NULL, stored, saved')
      BY <1>1 DEF ItemFine
    <2> QED BY <1>1, <1>2, <2>1, <2>2, <2>3, OneSaved
  <1>4. AlbumFine(f, StagedItem(a), mixed', filed[f])
    BY <1>1 DEF AlbumFine
  <1>5. f \notin SyncedFiles
    BY <1>2, Parts, ItemParts
  <1> QED BY <1>1, <1>2, <1>3, <1>4, <1>5, OneSaved, OneItemStep

LEMMA RemoveItemKeeps ==
  ASSUME Consistent, NEW f \in Files, RemoveItem(f)
  PROVE  Consistent'
  <1>1. /\ items[f] \in Item
        /\ items' = [items EXCEPT ![f] = Gone(items[f])]
        /\ disk' = [disk EXCEPT ![f] = NULL] \/ disk' = disk
        /\ saved' = saved \ {f}
        /\ UNCHANGED <<entries, at, current, running, stored, filed, sync, list, mixed>>
    BY Parts DEF RemoveItem, Present, Still, flags
  <1>2. /\ Gone(items[f]) \in Item
        /\ Gone(items[f]).status = items[f].status
        /\ Gone(items[f]).blob = items[f].blob
        /\ Gone(items[f]).album = items[f].album
        /\ Gone(items[f]).albumSynced = items[f].albumSynced
        /\ Gone(items[f]).gone
    BY <1>1, GoneIs
  <1>3. /\ disk' \in [Files -> Record \cup {NULL}] /\ saved' \subseteq Files
        /\ disk'[f] = NULL \/ disk'[f] = disk[f]
        /\ \A h \in Files \ {f} : disk'[h] = disk[h] /\ (h \in saved' => h \in saved)
    BY <1>1, Parts DEF Typed
  <1>4. ItemFine(f, Gone(items[f]), disk'[f], stored, saved')
    BY <1>1, <1>2, <1>3, Parts, ItemParts DEF ItemFine
  <1>5. AlbumFine(f, Gone(items[f]), mixed', filed[f])
    BY <1>1, <1>2, Parts, ItemParts DEF AlbumFine
  <1> QED BY <1>1, <1>2, <1>3, <1>4, <1>5, OneItemStep, ItemParts

LEMMA MoveToAlbumKeeps ==
  ASSUME Consistent, NEW f \in Files, NEW a \in Albums \cup {NULL}, MoveToAlbum(f, a)
  PROVE  Consistent'
  <1>1. /\ items[f] \in Item
        /\ items' = [items EXCEPT ![f] = Moved(items[f], a)]
        /\ Save({f}, items')
        /\ mixed' = IF UnderWay /\ f \in SyncedFiles THEN mixed \cup {f} ELSE mixed
        /\ UNCHANGED <<entries, at, current, running, stored, filed, sync, list>>
    BY Parts DEF MoveToAlbum, Present, Still, flags
  <1>2. (items[f].status # "synced") \in BOOLEAN /\ items[f].gone \in BOOLEAN
    BY <1>1, ItemParts
  <1>3. /\ Moved(items[f], a) \in Item
        /\ Moved(items[f], a).status = items[f].status
        /\ Moved(items[f], a).albumSynced <=> items[f].status # "synced"
        /\ Moved(items[f], a).gone = items[f].gone
    BY <1>1, MovedIs
  <1>4. ItemFine(f, Moved(items[f], a), disk'[f], stored, saved')
    <2>1. ItemFine(f, items[f], disk[f], stored, saved)
      BY Parts
    <2>2. /\ ItemFine(f, Moved(items[f], a), ToRecord(Moved(items[f], a)), stored, saved')
          /\ (f \in saved' => f \in saved) => ItemFine(f, Moved(items[f], a), disk[f], stored, saved')
      BY <1>1, <1>2, <2>1, EditIsFine DEF Moved
    <2> QED BY <1>1, <1>3, <2>2, OneSaved
  <1>5. AlbumFine(f, Moved(items[f], a), mixed', filed[f])
    BY <1>3 DEF AlbumFine
  <1>6. f \in SyncedFiles => f \in mixed' /\ ~Moved(items[f], a).albumSynced
    <2>1. f \in SyncedFiles => UnderWay
      BY DEF SyncedFiles, UnderWay
    <2> QED BY <1>1, <1>3, <2>1, Parts
  <1>7. mixed \subseteq mixed' /\ mixed' \subseteq mixed \cup {f}
    BY <1>1
  <1> QED BY <1>1, <1>3, <1>4, <1>5, <1>6, <1>7, OneSaved, OneItemStep, ItemParts

-----------------------------------------------------------------------------
(* The page is loaded anew *)

LEMMA RestoredIs ==
  ASSUME NEW record \in Record
  PROVE  /\ Restored(record) \in Item
         /\ Restored(record) # NULL
         /\ Restored(record).status = record.status
         /\ Restored(record).blob = record.blob
         /\ Restored(record).album = record.album
         /\ Restored(record).albumSynced = record.albumSynced
  <1>1. Restored(record) \in Item
    BY DEF Restored, Record, Item
  <1> QED BY <1>1, ItemParts DEF Restored

\* An item read from its record is fine, and its album as far as the record is
\* not older than the item.
LEMMA ReadIsFine ==
  ASSUME NEW f, NEW item \in Item, NEW record \in Record, NEW up, NEW upNow, NEW kept, NEW keptNow,
         NEW changed, NEW album, NEW albumNow,
         ItemFine(f, item, record, up, kept), AlbumFine(f, item, changed, album),
         f \in up => f \in upNow, albumNow = album \/ item.status # "synced"
  PROVE  /\ ItemFine(f, Restored(record), record, upNow, keptNow)
         /\ \/ record.album # item.album
            \/ record.albumSynced /\ ~item.albumSynced
            \/ AlbumFine(f, Restored(record), changed, albumNow)
  <1>1. PICK new \in Item : new = Restored(record)
    BY RestoredIs
  <1>2. /\ new.status = record.status /\ new.blob = record.blob
        /\ new.album = record.album /\ new.albumSynced = record.albumSynced
        /\ new # NULL /\ record # NULL /\ item # NULL
    BY <1>1, RestoredIs, RecordsAssumption, ItemParts
  <1>3. ItemFine(f, new, record, upNow, keptNow)
    BY <1>2 DEF ItemFine
  <1>4. ASSUME record.album = item.album, record.albumSynced => item.albumSynced
        PROVE  AlbumFine(f, new, changed, albumNow)
    BY <1>2, <1>4 DEF ItemFine, AlbumFine
  <1> QED BY <1>1, <1>3, <1>4

LEMMA RestoreKeeps ==
  ASSUME Consistent, NEW fs \in SUBSET Files, \A f \in fs : disk[f] # NULL,
         disk' = disk, stored' \subseteq Files, filed' \in [Files -> Albums \cup {NULL}],
         \A f \in Files : \/ (f \in stored' <=> f \in stored) /\ filed'[f] = filed[f]
                          \/ items[f] \in Item /\ items[f].status # "synced" /\ f \in stored',
         Restore(fs)
  PROVE  /\ items' \in [Files -> Item \cup {NULL}]
         /\ saved' \subseteq Files
         /\ \A f \in Files : ItemOK(f)' /\ AlbumOK(f)'
         /\ \A f \in Files : items'[f] # NULL /\ ~items'[f].gone => items'[f].status # "pushing"
  <1>1. /\ items' = [f \in Files |-> IF f \in fs THEN Restored(disk[f])
                                     ELSE IF items[f] = NULL THEN NULL ELSE Gone(items[f])]
        /\ saved' = saved \cup fs
        /\ mixed' = mixed \cup {f \in fs : Outdated(f)}
    BY DEF Restore
  <1>2. ASSUME NEW f \in fs
        PROVE  /\ items'[f] \in Item
               /\ items'[f].status # "pushing"
               /\ ItemOK(f)' /\ AlbumOK(f)'
    <2>1. disk[f] \in Record /\ items'[f] = Restored(disk[f]) /\ f \in saved'
      BY <1>1, Parts DEF Typed
    <2>2. items[f] \in Item /\ disk[f].status # "pushing"
      BY Parts DEF ItemFine
    <2>3. ItemFine(f, items[f], disk[f], stored, saved) /\ AlbumFine(f, items[f], mixed, filed[f])
      BY Parts
    <2>4. (f \in stored => f \in stored') /\ (filed'[f] = filed[f] \/ items[f].status # "synced")
      OBVIOUS
    <2>5. /\ ItemFine(f, items'[f], disk[f], stored', saved')
          /\ \/ disk[f].album # items[f].album
             \/ disk[f].albumSynced /\ ~items[f].albumSynced
             \/ AlbumFine(f, items'[f], mixed, filed'[f])
      BY <2>1, <2>2, <2>3, <2>4, ReadIsFine
    <2>6. f \notin mixed' => AlbumFine(f, items'[f], mixed, filed'[f])
      BY <1>1, <2>5 DEF Outdated
    <2>7. AlbumFine(f, items'[f], mixed', filed'[f])
      BY <1>1, <2>6 DEF AlbumFine
    <2>8. items'[f] \in Item /\ items'[f].status = disk[f].status
      BY <2>1, RestoredIs
    <2>9. ItemFine(f, items'[f], disk'[f], stored', saved')
      BY <2>1, <2>5
    <2> QED BY <2>2, <2>7, <2>8, <2>9 DEF ItemOK, AlbumOK
  <1>3. ASSUME NEW f \in Files, f \notin fs, items[f] # NULL
        PROVE  /\ items'[f] \in Item
               /\ items'[f].gone
               /\ ItemOK(f)' /\ AlbumOK(f)'
    <2>1. items[f] \in Item /\ items'[f] = Gone(items[f])
      BY <1>1, <1>3, Parts
    <2>2. /\ items'[f] \in Item
          /\ items'[f].status = items[f].status
          /\ items'[f].blob = items[f].blob
          /\ items'[f].album = items[f].album
          /\ items'[f].albumSynced = items[f].albumSynced
          /\ items'[f].gone
      BY <2>1, GoneIs
    <2>3. items'[f] # NULL /\ (f \in saved' <=> f \in saved) /\ (f \in mixed' <=> f \in mixed)
      BY <1>1, <1>3, <2>2, ItemParts
    <2>4. ItemFine(f, items'[f], disk[f], stored', saved')
      BY <1>3, <2>2, <2>3, Parts DEF ItemFine
    <2>5. AlbumFine(f, items'[f], mixed', filed'[f])
      BY <1>3, <2>2, <2>3, Parts DEF AlbumFine
    <2> QED BY <2>2, <2>4, <2>5 DEF ItemOK, AlbumOK
  <1>4. ASSUME NEW f \in Files, f \notin fs, items[f] = NULL
        PROVE  items'[f] = NULL /\ ItemOK(f)' /\ AlbumOK(f)'
    <2>1. items'[f] = NULL /\ (f \in saved' => f \in saved)
      BY <1>1, <1>4
    <2>2. ItemFine(f, NULL, disk[f], stored', saved')
      BY <1>4, <2>1, Parts DEF ItemFine
    <2>3. AlbumFine(f, NULL, mixed', filed'[f])
      BY DEF AlbumFine
    <2> QED BY <2>1, <2>2, <2>3 DEF ItemOK, AlbumOK
  <1>5. items' \in [Files -> Item \cup {NULL}]
    <2>1. items' = [f \in Files |-> items'[f]]
      BY <1>1
    <2>2. \A f \in Files : items'[f] \in Item \cup {NULL}
      BY <1>2, <1>3, <1>4
    <2> QED BY <2>1, <2>2
  <1>6. saved' \subseteq Files
    BY <1>1, Parts DEF Typed
  <1> QED BY <1>2, <1>3, <1>4, <1>5, <1>6

LEMMA ReloadKeeps ==
  ASSUME Consistent, Reload
  PROVE  Consistent'
  <1> DEFINE u == entries[current].id
  <1>1. /\ entries' = <<>> /\ running' = FALSE /\ at' = "nothing" /\ sync' = NoSync /\ list' = NULL
        /\ disk' = disk
        /\ \/ stored' = stored /\ filed' = filed
           \/ /\ at = "upload" /\ u \in Present
              /\ stored' = stored \cup {u}
              /\ filed' = [filed EXCEPT ![u] = NULL]
    BY DEF Reload, Sendable
  <1>2. \E fs \in SUBSET Files : (\A f \in fs : disk[f] # NULL) /\ Restore(fs)
    BY DEF Reload
  <1>3. at = "upload" /\ u \in Present => items[u].status = "pushing" /\ u \in Files /\ items[u] \in Item
    BY Parts DEF Consistent, LoopOK, EntryOK, InHand, Present
  <1> HIDE DEF u
  <1>4. stored \subseteq Files /\ filed \in [Files -> Albums \cup {NULL}]
    BY Parts DEF Typed
  <1>5. stored' \subseteq Files /\ filed' \in [Files -> Albums \cup {NULL}]
    BY <1>1, <1>3, <1>4
  <1>6. \A f \in Files : \/ (f \in stored' <=> f \in stored) /\ filed'[f] = filed[f]
                         \/ items[f] \in Item /\ items[f].status # "synced" /\ f \in stored'
    BY <1>1, <1>3, <1>4
  <1>7. /\ items' \in [Files -> Item \cup {NULL}]
        /\ saved' \subseteq Files
        /\ \A f \in Files : ItemOK(f)' /\ AlbumOK(f)'
        /\ \A f \in Files : items'[f] # NULL /\ ~items'[f].gone => items'[f].status # "pushing"
    BY <1>1, <1>2, <1>5, <1>6, RestoreKeeps
  <1>8. Typed'
    BY <1>1, <1>5, <1>7, SyncTypes, Parts DEF Typed
  <1>9. PushingIsQueued'
    BY <1>7 DEF PushingIsQueued, Present
  <1>10. /\ OneEntryPerFile(entries)' /\ LoopOK(entries, at, current, running)'
         /\ \A i \in DOMAIN entries' : EntryOK(i)'
    <2>1. DOMAIN entries' = {}
      BY <1>1
    <2> QED BY <1>1, <2>1 DEF OneEntryPerFile, LoopOK
  <1>11. SyncOK'
    BY <1>1 DEF SyncOK, NoSync
  <1> QED BY <1>7, <1>8, <1>9, <1>10, <1>11 DEF Consistent

-----------------------------------------------------------------------------
(* The theorems *)

LEMMA InitConsistent ==
  ASSUME WorkspaceInit
  PROVE  Consistent
  <1>1. entries = <<>> /\ at = "nothing" /\ running = FALSE
    BY DEF WorkspaceInit, Init
  <1>2. Typed
    BY SyncTypes DEF WorkspaceInit, Init, Typed
  <1>3. OneEntryPerFile(entries) /\ LoopOK(entries, at, current, running) /\ \A i \in DOMAIN entries : EntryOK(i)
    <2>1. DOMAIN entries = {}
      BY <1>1
    <2> QED BY <1>1, <2>1 DEF OneEntryPerFile, LoopOK
  <1>4. PushingIsQueued /\ \A f \in Files : ItemOK(f) /\ AlbumOK(f)
    BY DEF WorkspaceInit, PushingIsQueued, Present, ItemOK, AlbumOK, ItemFine, AlbumFine
  <1>5. SyncOK
    BY DEF WorkspaceInit, SyncOK, NoSync
  <1> QED BY <1>2, <1>3, <1>4, <1>5 DEF Consistent

LEMMA StutterConsistent ==
  ASSUME Consistent, UNCHANGED <<entries, at, current, running, itemVars>>
  PROVE  Consistent'
  <1>1. Typed' /\ SyncOK' /\ \A f \in Files : ItemOK(f)' /\ AlbumOK(f)'
    BY DEF itemVars, Consistent, Typed, SyncOK, ItemOK, AlbumOK
  <1> QED BY <1>1, ItemStep DEF itemVars

\* Every step of the loop, click and answer keeps items, records, the queue and
\* the synchronization of albums consistent.
LEMMA NextConsistent ==
  ASSUME Consistent, [WorkspaceNext]_allVars
  PROVE  Consistent'
  <1>1. CASE QueueStep
    BY <1>1, UploadEndsKeeps, QueueGoesOnKeeps DEF QueueStep
  <1>2. CASE Click
    BY <1>2, QueueClickKeeps, SyncStartsKeeps, ListSteps, ReloadKeeps, RemoveItemKeeps,
       StageFileKeeps, MoveToAlbumKeeps DEF Click
  <1>3. CASE NetworkChanges
    BY <1>3, StutterConsistent DEF NetworkChanges, Network, flags
  <1>4. CASE SyncStarts \/ SyncFails
    BY <1>4, SyncStartsKeeps, SyncFailsKeeps
  <1>5. CASE SendAssign \/ AckAssign
    BY <1>5, SendAssignKeeps, AckAssignKeeps
  <1>6. CASE ListArrives \/ ListFails
    BY <1>6, ListArrivesKeeps, ListSteps
  <1>7. CASE UNCHANGED allVars
    BY <1>7, StutterConsistent DEF allVars, vars, flags
  <1> QED BY <1>1, <1>2, <1>3, <1>4, <1>5, <1>6, <1>7 DEF WorkspaceNext

\* Whatever the user clicks, whenever the page is reloaded and whatever requests
\* fail, the queue, the cards, IndexedDB and the server's albums stay consistent.
THEOREM Consistency == WorkspaceSpec => []Consistent
  BY InitConsistent, NextConsistent, PTL DEF WorkspaceSpec

\* One file is uploaded at a time, and no file is in the queue twice.
THEOREM OneFileAtATimeHolds == WorkspaceSpec => []OneFileAtATime
  <1>1. ASSUME Consistent
        PROVE  OneFileAtATime
    <2> DEFINE U == {i \in DOMAIN entries : entries[i].state = "uploading"}
    <2>1. U \subseteq {current}
      BY <1>1 DEF Consistent, LoopOK
    <2>2. IsFiniteSet({current}) /\ Cardinality({current}) = 1
      BY FS_Singleton
    <2>3. Cardinality(U) <= 1
      BY <2>1, <2>2, FS_Subset
    <2> QED BY <1>1, <2>3 DEF OneFileAtATime, Consistent, OneEntryPerFile
  <1> QED BY <1>1, Consistency, PTL

\* A staged file that was not removed has its bytes on the page, and in IndexedDB
\* once they were written there, until the server has stored it, whichever writes
\* are lost.
THEOREM StagedIsKeptHolds == WorkspaceSpec => []StagedIsKept
  <1>1. ASSUME Consistent
        PROVE  StagedIsKept
    <2>1. \A f \in Present : f \in Files
      BY DEF Present
    <2>2. saved \subseteq Files
      BY <1>1 DEF Consistent, Typed
    <2> QED BY <1>1, <2>1, <2>2 DEF Consistent, StagedIsKept, ItemOK, ItemFine, Present
  <1> QED BY <1>1, Consistency, PTL

\* A card says that its file is being pushed only while the queue has it in hand.
THEOREM PushingIsQueuedHolds == WorkspaceSpec => []PushingIsQueued
  <1>1. Consistent => PushingIsQueued
    BY DEF Consistent
  <1> QED BY <1>1, Consistency, PTL

\* An album that counts as synchronized is the one the server has.
THEOREM AlbumIsFiledHolds == WorkspaceSpec => []AlbumIsFiled
  <1>1. Consistent => AlbumIsFiled
    BY DEF Consistent, AlbumIsFiled, AlbumOK, AlbumFine, Present
  <1> QED BY <1>1, Consistency, PTL

=============================================================================
