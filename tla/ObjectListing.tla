---------------------------- MODULE ObjectListing ----------------------------
(***************************************************************************)
(* Listing the objects of a bucket (functions/cloud/object-list-index.js,  *)
(* and listObjectsV2 of functions/cloud/s3-protocol.js):                   *)
(* a tree of index nodes in the order of the keys' bytes, walked a few     *)
(* entries at a time by requests that leave their position in a stored     *)
(* cursor, while mutations of other requests add and remove entries.       *)
(*                                                                         *)
(* A key is a sequence of bytes (numbers of 2 or more).  It is cut into    *)
(* chunks of ChunkSize bytes: every chunk but the last is a branch entry   *)
(* of a node, the last one a terminal entry, the leaf of the key.  An      *)
(* entry's name is its chunk and a marker which sorts before every byte.   *)
(***************************************************************************)
EXTENDS Naturals, FiniteSets, SequencesExt

CONSTANTS
    Keys,        \* object keys that exist in this bucket
    ChunkSize,   \* bytes of a chunk (32 in the code)
    Slash,       \* the delimiter's byte
    Populations, \* sets of keys the bucket may hold when the listing begins
    Selections,  \* records [prefix, grouped, after] a client may list; after is the
                 \* StartAfter of an S3 request, NULL if it has none
    NodePage,    \* entries the index returns in one call (6 in the code)
    Budget,      \* entries one request consumes at most (400 in the code)
    Limit,       \* results of one page
    MaxSourcePages, \* pages one S3 request takes from the engine (4 in the code)
    NULL,
    MaxWrites,   \* bound: mutations of objects
    MaxFaults    \* bound: failed calls, lost answers and expired cursors

ASSUME ListingAssumption ==
    /\ {ChunkSize, NodePage, Budget, Limit, MaxSourcePages} \subseteq Nat \ {0}
    /\ {MaxWrites, MaxFaults} \subseteq Nat

ASSUME KeysAssumption ==
    /\ IsFiniteSet(Keys)
    /\ Keys \subseteq Seq(Nat)
    /\ \A k \in Keys : Len(k) > 0 /\ \A i \in DOMAIN k : k[i] >= 2
    /\ Populations \subseteq SUBSET Keys

ASSUME SelectionAssumption ==
    /\ NULL \notin Seq(Nat) /\ NULL # "active"
    /\ \A s \in Selections :
          /\ s.prefix \in Seq(Nat)
          /\ s.grouped \in BOOLEAN
          /\ s.after # NULL => s.after \in Seq(Nat)

VARIABLES
    manifest,   \* per key: NULL, "active" or "deleted", the current manifest's state
    leaves,     \* keys with a terminal entry
    branches,   \* paths with a branch entry
    step,       \* per key: what its mutation does next to the index
    writes,     \* mutations so far
    faults,     \* failures so far
    cursor,     \* the stored state behind the cursor the client got last
    client,     \* what the client lists, and from where: the start, the cursor,
                \* an expired cursor, or nowhere once it is done
    received,   \* keys and common prefixes the client got, in order
    handler,    \* the request that serves the client's next page
    settled,    \* history: keys active and with a leaf ever since the listing began
    listable    \* history: keys active at some time since the listing began

indexVars == <<manifest, leaves, branches, step, writes>>
clientVars == <<cursor, client, received>>
vars == <<indexVars, faults, clientVars, handler, settled, listable>>

-----------------------------------------------------------------------------
(* Keys, chunks and entries *)

Terminal == 0
Branch == 1

\* The order of the names in the index.
Before(s, t) ==
    \E i \in DOMAIN t : /\ \A j \in 1 .. i - 1 : j \in DOMAIN s /\ s[j] = t[j]
                        /\ i \in DOMAIN s => s[i] < t[i]

Take(s, n) == SubSeq(s, 1, IF n < Len(s) THEN n ELSE Len(s))
Drop(s, n) == SubSeq(s, n + 1, Len(s))

\* The node that holds the leaf of a key, named by its path.
NodeOf(k) == Take(k, ChunkSize * ((Len(k) - 1) \div ChunkSize))

\* The branch entries that lead to it.
Trail(k) == {Take(k, ChunkSize * i) : i \in 1..((Len(k) - 1) \div ChunkSize)}

Entry(path, full, kind) == [token |-> Drop(full, Len(path)), kind |-> kind]

Name(e) == Append(e.token, e.kind)

Entries(path) ==
    {Entry(path, k, Terminal) : k \in {l \in leaves : NodeOf(l) = path}} \cup
    {Entry(path, b, Branch) : b \in {c \in branches : NodeOf(c) = path}}

\* What is left of the listed prefix below a path.
FilterFor(prefix, path) == Drop(prefix, Len(path))

\* The names one call returns: those with the prefix, after the cursor.
Matching(frame, prefix) ==
    {e \in Entries(frame.path) :
        /\ IsPrefix(Take(FilterFor(prefix, frame.path), ChunkSize), Name(e))
        /\ Before(frame.after, Name(e))}

InOrder(S) ==
    CHOOSE s \in [1 .. Cardinality(S) -> S] :
        \A i, j \in DOMAIN s : i < j => Before(Name(s[i]), Name(s[j]))

Selected(k, selection) == IsPrefix(selection.prefix, k)

\* Where the delimiter is after the prefix.
Cuts(k, selection) == {i \in Len(selection.prefix) + 1 .. Len(k) : k[i] = Slash}

IsGroup(k, selection) == selection.grouped /\ Cuts(k, selection) # {}

\* The part of a key up to the first delimiter after the prefix, or the key.
GroupForKey(k, selection) == IF IsGroup(k, selection) THEN Take(k, Min(Cuts(k, selection))) ELSE k

\* isStrictlyAfterUtf8: what an S3 request shows of a key or a common prefix.
Shows(selection, group) == selection.after = NULL \/ Before(selection.after, group)

-----------------------------------------------------------------------------
(* Positions *)

Frame(path) == [path |-> path, after |-> <<>>, complete |-> FALSE, pending |-> <<>>]

InitialState == [stack |-> <<Frame(<<>>)>>, lastGroup |-> NULL]

Exhausted(frame) == frame.pending = <<>> /\ frame.complete

PopExhausted(stack) ==
    LET kept == {i \in DOMAIN stack : ~Exhausted(stack[i])}
    IN IF kept = {} THEN <<>>
       ELSE Take(stack, CHOOSE i \in kept : \A j \in kept : j <= i)

Done == client.at = "done"

NoRequest == [pc |-> "idle"]

Init ==
    /\ leaves \in Populations
    /\ manifest = [k \in Keys |-> IF k \in leaves THEN "active" ELSE NULL]
    /\ branches = UNION {Trail(k) : k \in leaves}
    /\ step = [k \in Keys |-> "idle"]
    /\ writes = 0
    /\ faults = 0
    /\ cursor = InitialState
    /\ client \in [selection : Selections, at : {"start"}]
    /\ received = <<>>
    /\ handler = NoRequest
    /\ settled = leaves
    /\ listable = leaves

-----------------------------------------------------------------------------
(* Mutations: the manifest is current first, then the index follows *)

Observed ==
    /\ settled' = settled \cap leaves' \cap {k \in Keys : manifest'[k] = "active"}
    /\ listable' = listable \cup {k \in Keys : manifest'[k] = "active"}

Commit(k, state) ==
    /\ step[k] = "idle"
    /\ state = "deleted" => manifest[k] = "active"
    /\ writes < MaxWrites
    /\ writes' = writes + 1
    /\ manifest' = [manifest EXCEPT ![k] = state]
    /\ step' = [step EXCEPT ![k] = IF state = "active" THEN "branches" ELSE "leaf"]
    /\ UNCHANGED <<leaves, branches, faults, clientVars, handler>>
    /\ Observed

\* Branch markers are written from the root down, and only where there is none.
MaterializeBranches(k) ==
    /\ step[k] = "branches"
    /\ LET missing == Trail(k) \ branches
       IN IF missing = {}
          THEN UNCHANGED branches /\ step' = [step EXCEPT ![k] = "leaf"]
          ELSE /\ branches' = branches \cup
                      {CHOOSE b \in missing : \A c \in missing : Len(b) <= Len(c)}
               /\ UNCHANGED step
    /\ UNCHANGED <<manifest, leaves, writes, faults, clientVars, handler, settled, listable>>

MaterializeLeaf(k) ==
    /\ step[k] = "leaf"
    /\ leaves' = IF manifest[k] = "active" THEN leaves \cup {k} ELSE leaves \ {k}
    /\ step' = [step EXCEPT ![k] = "idle"]
    /\ UNCHANGED <<manifest, branches, writes, faults, clientVars, handler>>
    /\ Observed

Fails == faults < MaxFaults /\ faults' = faults + 1

\* A mutation stops between its manifest and its leaf.
Abandon(k) ==
    /\ step[k] # "idle"
    /\ Fails
    /\ step' = [step EXCEPT ![k] = "idle"]
    /\ UNCHANGED <<manifest, leaves, branches, writes, clientVars, handler, settled, listable>>

-----------------------------------------------------------------------------
(* A page *)

\* Mutant of StartPage: the budget is spent over all pages of a listing.
StartPageSpent ==
    /\ handler = NoRequest
    /\ client.at \in {"start", "cursor"}
    /\ handler' = [pc |-> "walk",
                   state |-> IF client.at = "start" THEN InitialState ELSE cursor,
                   entries |-> IF client.at = "start" THEN 0 ELSE Budget,
                   limit |-> Limit,
                   visible |-> <<>>,
                   sources |-> 1]
    /\ UNCHANGED <<indexVars, faults, clientVars, settled, listable>>

\* cursorStateFor: the state of the cursor, or the one of a new listing.
StartPage ==
    /\ handler = NoRequest
    /\ client.at \in {"start", "cursor"}
    /\ handler' = [pc |-> "walk",
                   state |-> IF client.at = "start" THEN InitialState ELSE cursor,
                   entries |-> 0,
                   limit |-> Limit,
                   visible |-> <<>>,
                   sources |-> 1]
    /\ UNCHANGED <<indexVars, faults, clientVars, settled, listable>>

Top == Last(handler.state.stack)

SetTop(frame) ==
    [handler EXCEPT !.state.stack = Append(Front(handler.state.stack), frame)]

MayContinue ==
    /\ handler.pc = "walk"
    /\ handler.limit > 0
    /\ handler.entries < Budget
    /\ handler.state.stack # <<>>

\* The top frame has nothing read ahead: ask the index for its next entries.
ListNode ==
    /\ MayContinue
    /\ Top.pending = <<>>
    /\ IF Top.complete
       THEN handler' = [handler EXCEPT !.state.stack = Front(handler.state.stack)]
       ELSE LET all == InOrder(Matching(Top, client.selection.prefix))
                some == Take(all, NodePage)
            IN handler' = SetTop([Top EXCEPT !.pending = some,
                                             !.complete = (some = all),
                                             !.after = IF some = all THEN <<>>
                                                       ELSE Name(Last(some))])
    /\ UNCHANGED <<indexVars, faults, clientVars, settled, listable>>

NextEntry == Head(Top.pending)

Shifted == [SetTop([Top EXCEPT !.pending = Tail(Top.pending)])
               EXCEPT !.entries = handler.entries + 1]

Descend ==
    /\ MayContinue
    /\ Top.pending # <<>>
    /\ NextEntry.kind = Branch
    /\ handler' = [Shifted EXCEPT !.state.stack =
                      Append(Shifted.state.stack, Frame(Top.path \o NextEntry.token))]
    /\ UNCHANGED <<indexVars, faults, clientVars, settled, listable>>

\* Mutant of Listed: a leaf is taken for an object.
ListedByLeaf(k) == Selected(k, client.selection)

\* The key of a terminal entry is listed when its manifest is active now.
Listed(k) == manifest[k] = "active" /\ Selected(k, client.selection)

\* A result of the engine's page; an S3 request shows it if it is after StartAfter.
Result(h, group) ==
    [h EXCEPT !.limit = h.limit - 1,
              !.visible = IF Shows(client.selection, group) THEN Append(h.visible, group)
                          ELSE h.visible]

Accept(h, k) ==
    LET group == GroupForKey(k, client.selection)
    IN IF ~IsGroup(k, client.selection)
       THEN [Result(h, group) EXCEPT !.state.lastGroup = NULL]
       ELSE IF h.state.lastGroup = group
       THEN h
       ELSE [Result(h, group) EXCEPT !.state.lastGroup = group]

Consumed(h) == [h EXCEPT !.state.stack = PopExhausted(h.state.stack)]

Visit ==
    /\ MayContinue
    /\ Top.pending # <<>>
    /\ NextEntry.kind = Terminal
    /\ LET k == Top.path \o NextEntry.token
           short == Len(FilterFor(client.selection.prefix, Top.path)) > Len(NextEntry.token)
       IN handler' = IF short THEN Shifted
                     ELSE IF Listed(k) THEN Accept(Consumed(Shifted), k)
                     ELSE Consumed(Shifted)
    /\ UNCHANGED <<indexVars, faults, clientVars, settled, listable>>

\* Mutant of Continuation: the last common prefix is not stored.
ContinuationForgets(state) ==
    [state EXCEPT !.stack = PopExhausted(state.stack), !.lastGroup = NULL]

\* What a page leaves behind: the stored cursor, and the answer.
Continuation(state) == [state EXCEPT !.stack = PopExhausted(state.stack)]

\* listObjectsV2 takes another page when StartAfter has hidden some of this one.
WantsSource ==
    /\ client.selection.after # NULL
    /\ Len(handler.visible) < Limit
    /\ Continuation(handler.state).stack # <<>>
    /\ handler.sources < MaxSourcePages

\* The page of the engine is over, and the S3 request goes on from its cursor.
NextSource ==
    /\ handler.pc = "walk"
    /\ ~MayContinue
    /\ WantsSource
    /\ handler' = [pc |-> "walk", state |-> Continuation(handler.state), entries |-> 0,
                   limit |-> Limit - Len(handler.visible),
                   visible |-> handler.visible, sources |-> handler.sources + 1]
    /\ UNCHANGED <<indexVars, faults, clientVars, settled, listable>>

EndPage ==
    /\ handler.pc = "walk"
    /\ ~MayContinue
    /\ ~WantsSource
    /\ LET left == Continuation(handler.state)
       IN \/ /\ received' = received \o handler.visible
             /\ client' = [client EXCEPT !.at = IF left.stack = <<>> THEN "done" ELSE "cursor"]
             /\ cursor' = left
             /\ UNCHANGED faults
          \/ Fails /\ UNCHANGED clientVars    \* the answer is lost: the client asks again
    /\ handler' = NoRequest
    /\ UNCHANGED <<indexVars, settled, listable>>

\* A call fails, or the handler is gone.
RequestFails ==
    /\ handler # NoRequest
    /\ Fails
    /\ handler' = NoRequest
    /\ UNCHANGED <<indexVars, clientVars, settled, listable>>

CursorExpires ==
    /\ client.at = "cursor"
    /\ handler = NoRequest
    /\ Fails
    /\ client' = [client EXCEPT !.at = "expired"]
    /\ cursor' = InitialState
    /\ UNCHANGED <<indexVars, received, handler, settled, listable>>

\* The answer to an expired cursor is an error: the client lists from the start.
ListAgain ==
    /\ client.at = "expired"
    /\ handler = NoRequest
    /\ client' = [client EXCEPT !.at = "start"]
    /\ received' = <<>>
    /\ settled' = {k \in leaves : manifest[k] = "active"}
    /\ listable' = {k \in Keys : manifest[k] = "active"}
    /\ UNCHANGED <<indexVars, faults, cursor, handler>>

Serve == StartPage \/ ListNode \/ Descend \/ Visit \/ NextSource \/ EndPage \/ ListAgain

Next ==
    \/ \E k \in Keys :
          \/ \E state \in {"active", "deleted"} : Commit(k, state)
          \/ MaterializeBranches(k)
          \/ MaterializeLeaf(k)
          \/ Abandon(k)
    \/ Serve
    \/ RequestFails
    \/ CursorExpires

Spec == Init /\ [][Next]_vars

\* A handler that runs goes on, and the client asks for pages until it has all.
FairSpec == Spec /\ WF_vars(Serve)

-----------------------------------------------------------------------------
(* Properties *)

\* "order: key:asc" holds over the pages of a listing, so nothing is repeated, also
\* when a page is asked for again after a lost answer; and a listing that ended has
\* every selected object that was there all the time, itself or as its common
\* prefix, whatever was written next to it and however the pages, nodes and chunks
\* cut the keys; an S3 listing starts after its StartAfter, however many pages of
\* the engine that hides.
StableListedInOrder ==
    /\ \A i \in DOMAIN received : Shows(client.selection, received[i])
    /\ \A i, j \in DOMAIN received : i < j => Before(received[i], received[j])
    /\ Done => \A k \in settled :
                   (Selected(k, client.selection)
                       /\ Shows(client.selection, GroupForKey(k, client.selection))) =>
                   \E i \in DOMAIN received : received[i] = GroupForKey(k, client.selection)

\* Only objects that existed during the listing are in it: a leaf that a
\* delete has not removed yet is no result.
NothingDeadListed ==
    \A i \in DOMAIN received : \E k \in listable :
        received[i] = GroupForKey(k, client.selection)

\* A listing ends although others write and pages may come back empty.
ListingEnds == <>Done

=============================================================================
