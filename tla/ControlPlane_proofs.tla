------------------------- MODULE ControlPlane_proofs -------------------------
(***************************************************************************)
(* Proofs about ControlPlane, for every number of handlers, projects,      *)
(* credentials, signing keys and links, and whatever calls fail.           *)
(*                                                                         *)
(* The four services share the handlers.  Each has an invariant of its     *)
(* own, which reads its own entries and the handlers that stand at one of  *)
(* its program points: a step of another service leaves both alone.        *)
(***************************************************************************)
EXTENDS ControlPlane, TLAPS

-----------------------------------------------------------------------------
(* Handlers *)

ProjectPcs == {"putNewProject", "putSlug", "confirmSlug", "undoProject", "checkSlug",
               "claimSlug", "putMoved", "undoSlug", "putUpdate", "putDeleted",
               "readOldSlug", "dropOldSlug"}

IssuePcs == {"putKey", "putLookup", "putEntry", "undoLookup", "undoEntry",
             "readTarget", "putRevoked", "dropLookup"}

SignerPcs == {"putSigner", "point", "again", "retire", "sign"}

SharingPcs == {"putLink", "putLinkOf", "undoLink", "dropLink", "dropLinkOf"}

Changes == [pc : ProjectPcs, id : Projects, next : Record, old : Slugs]

RevokePcs == {"readTarget", "putRevoked", "dropLookup"}

\* A revocation and a rotation know the credential they retire.
Issues == {h \in [pc : IssuePcs, key : Creds, new : Credential, from : Creds \cup {NULL},
                  target : Creds \cup {NULL}] :
               /\ h.pc \in RevokePcs => h.from \in Creds
               /\ h.target \in {h.from, h.key}
               /\ h.pc \notin RevokePcs => h.target = h.from}

\* A rotation knows the key it retires.
Signers == {h \in [pc : SignerPcs, op : {"issue", "first", "rotate"}, kid : Kids,
                   prev : Kids \cup {NULL}] :
                /\ h.op = "rotate" => h.prev \in Kids
                /\ h.pc = "retire" => h.op = "rotate"}

Sharings == [pc : SharingPcs, collection : Shared, link : Links]

Handlers == {Idle} \cup Changes \cup Issues \cup Signers \cup Sharings

ProjectTypes ==
    /\ project \in [Projects -> Record \cup {NULL}]
    /\ slugIndex \in [Slugs -> Projects \cup {NULL}]
    /\ accepted \subseteq Projects

CredentialTypes ==
    /\ cred \in [Creds -> Credential \cup {NULL}]
    /\ lookup \subseteq Creds
    /\ entry \subseteq Creds
    /\ revealed \subseteq Creds
    /\ rotated \subseteq Creds \X Creds

SigningTypes ==
    /\ signing \in [Kids -> {"current", "retired", NULL}]
    /\ pointer \in Kids \cup {NULL}
    /\ signed \subseteq Kids
    /\ purged \subseteq Kids

ShareTypes ==
    /\ linkRecord \in [Links -> Shared \cup {NULL}]
    /\ linkOf \in [Shared -> Links \cup {NULL}]
    /\ published \subseteq Links

\* Requests that overlap are remembered.
OneAtATime == ~overlapped => \A p, q \in Busy : p = q

Typed ==
    /\ proc \in [Procs -> Handlers]
    /\ overlapped \in BOOLEAN /\ lateEffect \in BOOLEAN
    /\ OneAtATime
    /\ ProjectTypes /\ CredentialTypes /\ SigningTypes /\ ShareTypes

\* A handler's program point tells which service it runs for.
LEMMA HandlerKinds ==
  ASSUME NEW h \in Handlers
  PROVE  /\ h.pc \in ProjectPcs => h \in Changes
         /\ h.pc \in IssuePcs => h \in Issues
         /\ h.pc \in SignerPcs => h \in Signers
         /\ h.pc \in SharingPcs => h \in Sharings
         /\ h.pc = "idle" <=> h = Idle
  BY DEF Handlers, Idle, Changes, Issues, Signers, Sharings,
         ProjectPcs, IssuePcs, SignerPcs, SharingPcs

\* What every step does to the handlers: one of them goes on, ends, or begins.
Moves(p, H) ==
    /\ \E h \in H \cup {Idle} : proc' = [proc EXCEPT ![p] = h]
    /\ overlapped' \in BOOLEAN /\ (overlapped => overlapped')
    /\ lateEffect' \in BOOLEAN /\ (lateEffect => lateEffect')
    /\ ~overlapped' => proc[p] # Idle \/ Busy = {}

LEMMA BeginMoves ==
  ASSUME Typed, NEW p \in Procs, NEW H, NEW h \in H, Begin(p, h)
  PROVE  Moves(p, H)
  BY DEF Typed, Moves, Begin

LEMMA SigningMoves ==
  ASSUME Typed, NEW p \in Procs, ExchangeToken(p) \/ SigningStart(p) \/ SigningStep(p)
  PROVE  Moves(p, Signers) /\ SigningTypes'
  <1>1. proc[p].pc \in SignerPcs => proc[p] \in Signers /\ proc[p] # Idle
    BY HandlerKinds DEF Typed, SignerPcs, Idle
  <1> USE DEF Typed, Moves, SigningTypes, Signers, SignerPcs, Signer,
              Write, Read, Fails, GoTo, Finish
  <1>2. CASE IssueToken(p) \/ RotateSigningKeys(p)
    <2>1. \E h \in Signers : Begin(p, h)
      BY <1>2 DEF IssueToken, RotateSigningKeys, UnusedKids, HasSigner
    <2>2. UNCHANGED signingVars
      BY <1>2 DEF IssueToken, RotateSigningKeys
    <2> QED BY <2>1, <2>2, BeginMoves DEF signingVars
  <1>4. CASE PutSigner(p)
    BY <1>1, <1>4 DEF PutSigner
  <1>5. CASE Point(p)
    BY <1>1, <1>5 DEF Point
  <1>6. CASE RotateFirst(p)
    BY <1>1, <1>6 DEF RotateFirst, UnusedKids, signingVars
  <1>7. CASE Retire(p)
    BY <1>1, <1>7 DEF Retire
  <1>8. CASE Sign(p)
    BY <1>1, <1>8 DEF Sign
  <1> QED BY <1>2, <1>4, <1>5, <1>6, <1>7, <1>8 DEF ExchangeToken, SigningStart, SigningStep

LEMMA ShareMoves ==
  ASSUME Typed, NEW p \in Procs, ShareStart(p) \/ ShareStep(p)
  PROVE  Moves(p, Sharings) /\ ShareTypes'
  <1>1. proc[p].pc \in SharingPcs => proc[p] \in Sharings /\ proc[p] # Idle
    BY HandlerKinds DEF Typed, SharingPcs, Idle
  <1> USE DEF Typed, Moves, ShareTypes, Sharings, SharingPcs, Sharing,
              Write, Read, Fails, GoTo, Finish
  <1>2. CASE ShareStart(p)
    <2>1. \E h \in Sharings : Begin(p, h)
      BY <1>2 DEF ShareStart, Publish, Revoke, UnusedLinks, StatusOf
    <2>2. UNCHANGED shareVars
      BY <1>2 DEF ShareStart, Publish, Revoke
    <2> QED BY <2>1, <2>2, BeginMoves DEF shareVars
  <1>3. CASE PutLink(p)
    BY <1>1, <1>3 DEF PutLink
  <1>4. CASE PutLinkOf(p)
    BY <1>1, <1>4 DEF PutLinkOf
  <1>5. CASE UndoLink(p)
    BY <1>1, <1>5 DEF UndoLink
  <1>6. CASE DropLink(p)
    BY <1>1, <1>6 DEF DropLink
  <1>7. CASE DropLinkOf(p)
    BY <1>1, <1>7 DEF DropLinkOf
  <1> QED BY <1>2, <1>3, <1>4, <1>5, <1>6, <1>7 DEF ShareStep

LEMMA ProjectMoves ==
  ASSUME Typed, NEW p \in Procs, ProjectStart(p) \/ ProjectStep(p)
  PROVE  Moves(p, Changes) /\ ProjectTypes'
  <1>1. proc[p].pc \in ProjectPcs => proc[p] \in Changes /\ proc[p] # Idle
    BY HandlerKinds DEF Typed, ProjectPcs, Idle
  <1> USE DEF Typed, Moves, ProjectTypes, Changes, ProjectPcs, Change,
              Write, Read, Fails, GoTo, Finish, Record
  <1>2. CASE ProjectStart(p)
    <2>1. \E h \in Changes : Begin(p, h)
      BY <1>2 DEF ProjectStart, StartCreateProject, StartUpdate, StartDelete, UnusedIds,
                  Exists, Statuses
    <2>2. UNCHANGED projectVars
      BY <1>2 DEF ProjectStart, StartCreateProject, StartUpdate, StartDelete
    <2> QED BY <2>1, <2>2, BeginMoves DEF projectVars
  <1>3. CASE PutNewProject(p) \/ PutUpdate(p) \/ PutMoved(p) \/ PutDeleted(p)
    BY <1>1, <1>3 DEF PutNewProject, PutUpdate, PutMoved, PutDeleted
  <1>4. CASE PutSlug(p) \/ ClaimSlug(p) \/ DropOldSlug(p)
    BY <1>1, <1>4 DEF PutSlug, ClaimSlug, DropOldSlug
  <1>5. CASE UndoProject(p) \/ UndoSlug(p)
    BY <1>1, <1>5 DEF UndoProject, UndoSlug
  <1>6. CASE ConfirmSlug(p) \/ CheckSlug(p) \/ ReadOldSlug(p)
    BY <1>1, <1>6 DEF ConfirmSlug, CheckSlug, ReadOldSlug, projectVars
  <1> QED BY <1>2, <1>3, <1>4, <1>5, <1>6 DEF ProjectStep

LEMMA CredentialMoves ==
  ASSUME Typed, NEW p \in Procs, CredentialStart(p) \/ CredentialStep(p)
  PROVE  Moves(p, Issues) /\ CredentialTypes'
  <1>1. proc[p].pc \in IssuePcs => proc[p] \in Issues /\ proc[p] # Idle
    BY HandlerKinds DEF Typed, IssuePcs, Idle
  <1> USE DEF Typed, Moves, CredentialTypes, Issues, IssuePcs, RevokePcs, Issue,
              Write, Read, Fails, GoTo, Finish, Credential
  <1>2. CASE CredentialStart(p)
    <2>1. \E h \in Issues : Begin(p, h)
      BY <1>2, CredsAssumption
         DEF CredentialStart, CreateKey, RotateKey, RevokeKey, CreateCredential,
             RotateCredential, RevokeCredential, StartIssue, StartRevoke, Rotate,
             ListedKeys, ListedCredentials, InProject, UnusedCreds
    <2>2. UNCHANGED credVars
      BY <1>2 DEF CredentialStart, CreateKey, RotateKey, RevokeKey, CreateCredential,
             RotateCredential, RevokeCredential, StartIssue, StartRevoke, Rotate
    <2> QED BY <2>1, <2>2, BeginMoves DEF credVars
  <1> USE DEF Reveal, Withhold, Revoked, RevokeFailed, Rotating, Dead
  <1>3. CASE PutKey(p)
    BY <1>1, <1>3 DEF PutKey
  <1>4. CASE PutLookup(p)
    BY <1>1, <1>4 DEF PutLookup
  <1>5. CASE PutEntry(p)
    BY <1>1, <1>5 DEF PutEntry
  <1>6. CASE UndoIssue(p)
    <2>1. cred' = cred \/ cred' = [cred EXCEPT ![proc[p].key] = NULL]
      BY <1>6 DEF UndoIssue
    <2>2. lookup' = lookup \/ lookup' = lookup \ {proc[p].key}
      BY <1>6 DEF UndoIssue
    <2>3. CredentialTypes'
      BY <1>1, <1>6, <2>1, <2>2 DEF UndoIssue
    <2>4. /\ proc' = [proc EXCEPT ![p] = Idle] /\ proc[p] # Idle
          /\ UNCHANGED <<overlapped, lateEffect>>
      BY <1>1, <1>6 DEF UndoIssue
    <2>5. Moves(p, Issues)
      BY <2>4
    <2> QED BY <2>3, <2>5
  <1>7. CASE ReadTarget(p)
    BY <1>1, <1>7 DEF ReadTarget
  <1>8. CASE PutRevoked(p)
    <2>1. proc[p].target \in Creds /\ Dead(p) \in Credential
      BY <1>1, <1>8 DEF PutRevoked
    <2> HIDE DEF Dead
    <2>2. CredentialTypes'
      BY <1>1, <1>8, <2>1 DEF PutRevoked
    <2>3. Moves(p, Issues)
      BY <1>1, <1>8, <2>1 DEF PutRevoked
    <2> QED BY <2>2, <2>3
  <1>9. CASE DropLookup(p)
    BY <1>1, <1>9 DEF DropLookup
  <1> QED BY <1>2, <1>3, <1>4, <1>5, <1>6, <1>7, <1>8, <1>9 DEF CredentialStep

LEMMA MovesTyped ==
  ASSUME Typed, NEW p \in Procs, Moves(p, Handlers)
  PROVE  /\ proc' \in [Procs -> Handlers]
         /\ overlapped' \in BOOLEAN /\ lateEffect' \in BOOLEAN
         /\ OneAtATime'
  <1>1. PICK h \in Handlers \cup {Idle} : proc' = [proc EXCEPT ![p] = h]
    BY DEF Moves
  <1>2. Idle \in Handlers
    BY DEF Handlers
  <1>3. proc' \in [Procs -> Handlers]
    BY <1>1, <1>2 DEF Typed
  <1>4. \A q \in Procs : q # p => proc'[q] = proc[q]
    BY <1>1 DEF Typed
  <1>5. OneAtATime'
    BY <1>4 DEF Typed, OneAtATime, Moves, Busy
  <1> QED BY <1>3, <1>5 DEF Moves

\* Which service a step belongs to, and what it leaves alone.
LEMMA TypedStep ==
  ASSUME Typed, [Next]_vars
  PROVE  Typed'
  <1>1. ASSUME NEW p \in Procs, Moves(p, Changes), ProjectTypes',
               UNCHANGED <<credVars, signingVars, shareVars>>
        PROVE  Typed'
    <2>1. Moves(p, Handlers)
      BY <1>1 DEF Moves, Handlers
    <2> QED BY <1>1, <2>1, MovesTyped DEF Typed, credVars, signingVars, shareVars,
            CredentialTypes, SigningTypes, ShareTypes
  <1>2. ASSUME NEW p \in Procs, Moves(p, Issues), CredentialTypes',
               UNCHANGED <<projectVars, signingVars, shareVars>>
        PROVE  Typed'
    <2>1. Moves(p, Handlers)
      BY <1>2 DEF Moves, Handlers
    <2> QED BY <1>2, <2>1, MovesTyped DEF Typed, projectVars, signingVars, shareVars,
            ProjectTypes, SigningTypes, ShareTypes
  <1>3. ASSUME NEW p \in Procs, Moves(p, Signers), SigningTypes',
               UNCHANGED <<registryVars, shareVars>>
        PROVE  Typed'
    <2>1. Moves(p, Handlers)
      BY <1>3 DEF Moves, Handlers
    <2> QED BY <1>3, <2>1, MovesTyped DEF Typed, registryVars, projectVars, credVars, shareVars,
            ProjectTypes, CredentialTypes, ShareTypes
  <1>4. ASSUME NEW p \in Procs, Moves(p, Sharings), ShareTypes',
               UNCHANGED <<registryVars, signingVars>>
        PROVE  Typed'
    <2>1. Moves(p, Handlers)
      BY <1>4 DEF Moves, Handlers
    <2> QED BY <1>4, <2>1, MovesTyped DEF Typed, registryVars, projectVars, credVars,
            signingVars, ProjectTypes, CredentialTypes, SigningTypes
  <1>5. ASSUME NEW p \in Procs, Evict(p), UNCHANGED <<registryVars, signingVars, shareVars>>
        PROVE  Typed'
    <2>1. Moves(p, Changes)
      BY <1>5 DEF Typed, Moves, Evict, Finish
    <2>2. ProjectTypes'
      BY <1>5 DEF Typed, registryVars, projectVars, ProjectTypes
    <2> QED BY <1>1, <1>5, <2>1, <2>2 DEF registryVars
  <1>6. CASE UNCHANGED vars
    BY <1>6 DEF vars, requestVars, registryVars, projectVars, credVars, signingVars, shareVars,
       Typed, OneAtATime, Busy, ProjectTypes, CredentialTypes, SigningTypes, ShareTypes
  <1> QED BY <1>1, <1>2, <1>3, <1>4, <1>5, <1>6, ProjectMoves, CredentialMoves, SigningMoves,
             ShareMoves DEF Next

LEMMA TypedInit ==
  ASSUME Init
  PROVE  Typed
  <1>1. proc \in [Procs -> Handlers] /\ OneAtATime
    BY DEF Init, InitRequests, Handlers, OneAtATime, Busy
  <1> QED BY <1>1 DEF Init, InitRequests, InitProjects, InitCredentials, InitSigning, InitShares,
     Typed, ProjectTypes, CredentialTypes, SigningTypes, ShareTypes

\* The state of the four services is what their types say in every reachable state.
THEOREM TypeCorrectness == Spec => []Typed
  <1>1. Init => Typed
    BY TypedInit
  <1>2. Typed /\ [Next]_vars => Typed'
    BY TypedStep
  <1> QED BY <1>1, <1>2, PTL DEF Spec

\* A step of another service leaves an invariant about the handlers at `pcs` alone.
Elsewhere(p, pcs) == \E h : h.pc \notin pcs /\ proc' = [proc EXCEPT ![p] = h]

-----------------------------------------------------------------------------
(* Signing keys *)

\* A key that is about to be written is nobody else's, and one that is about to sign,
\* to be pointed to or to be retired is there.
SignerOK(p) ==
    /\ proc[p].pc = "putSigner" =>
        /\ signing[proc[p].kid] = NULL
        /\ \A q \in Procs \ {p} : proc[q].pc = "putSigner" => proc[q].kid # proc[p].kid
    /\ proc[p].pc \in {"point", "again", "sign"} => signing[proc[p].kid] # NULL
    /\ proc[p].pc \in SignerPcs /\ proc[p].op = "rotate" => signing[proc[p].prev] # NULL

SigningInv == (\A p \in Procs : SignerOK(p)) /\ TokensSurviveRotation

LEMMA SigningFrame ==
  ASSUME Typed, SigningInv, UNCHANGED signingVars, NEW p \in Procs,
         Elsewhere(p, SignerPcs)
  PROVE  SigningInv'
  <1>1. \A q \in Procs : proc'[q].pc \in SignerPcs => proc'[q] = proc[q]
    BY DEF Typed, Elsewhere
  <1>2. \A q \in Procs : SignerOK(q)'
    BY <1>1 DEF SigningInv, SignerOK, signingVars, SignerPcs
  <1> QED BY <1>2 DEF SigningInv, TokensSurviveRotation, Published, Verifies, signingVars

LEMMA UnusedKid ==
  ASSUME Typed, NEW k \in UnusedKids, NEW q \in Procs, proc[q].pc \in SignerPcs
  PROVE  k \in Kids /\ signing[k] = NULL /\ proc[q].kid # k
  <1>1. proc[q] \in Signers /\ proc[q] # Idle
    BY HandlerKinds DEF Typed, SignerPcs, Idle
  <1>2. "kid" \in DOMAIN proc[q]
    BY <1>1 DEF Signers
  <1> QED BY <1>1, <1>2 DEF UnusedKids, Busy

LEMMA SigningInvStep ==
  ASSUME Typed, SigningInv, NEW p \in Procs,
         ExchangeToken(p) \/ SigningStart(p) \/ SigningStep(p)
  PROVE  SigningInv'
  <1>1. \A q \in Procs : proc[q].pc \in SignerPcs => proc[q] \in Signers
    BY HandlerKinds DEF Typed
  <1> USE KidsAssumption DEF SignerOK, SignerPcs, Signers, TokensSurviveRotation,
          Published, Verifies
  <1> USE DEF Write, Read, GoTo, Finish, Idle, Signer, Typed, SigningTypes
  <1>2. CASE IssueToken(p) \/ RotateSigningKeys(p)
    <2>1. \/ \E op \in {"issue", "rotate", "first"}, k \in UnusedKids, prev \in Kids \cup {NULL} :
              /\ op = "rotate" => signing[prev] # NULL
              /\ proc' = [proc EXCEPT ![p] = Signer("putSigner", op, k, prev)]
          \/ /\ signing[pointer] # NULL
             /\ proc' = [proc EXCEPT ![p] = Signer("sign", "issue", pointer, NULL)]
      BY <1>2 DEF IssueToken, RotateSigningKeys, Begin, HasSigner
    <2>2. UNCHANGED signingVars
      BY <1>2 DEF IssueToken, RotateSigningKeys
    <2>3. ASSUME NEW q \in Procs PROVE SignerOK(q)'
      <3>1. CASE q = p
        <4>1. ASSUME NEW op \in {"issue", "rotate", "first"}, NEW k \in UnusedKids,
                     NEW prev \in Kids \cup {NULL}, op = "rotate" => signing[prev] # NULL,
                     proc' = [proc EXCEPT ![p] = Signer("putSigner", op, k, prev)]
              PROVE  SignerOK(q)'
          <5>1. signing[k] = NULL
            BY DEF UnusedKids
          <5>2. \A r \in Procs \ {p} : proc'[r].pc = "putSigner" => proc'[r].kid # k
            BY <4>1, UnusedKid
          <5>3. /\ proc'[p].pc = "putSigner" /\ proc'[p].kid = k
                /\ proc'[p].prev = prev /\ proc'[p].op = op
            BY <4>1
          <5> QED BY <2>2, <3>1, <4>1, <5>1, <5>2, <5>3 DEF signingVars
        <4>2. ASSUME signing[pointer] # NULL,
                     proc' = [proc EXCEPT ![p] = Signer("sign", "issue", pointer, NULL)]
              PROVE  SignerOK(q)'
          BY <2>2, <3>1, <4>2 DEF signingVars
        <4> QED BY <2>1, <4>1, <4>2
      <3>2. CASE q # p
        BY <2>1, <2>2, <3>2, UnusedKid DEF SigningInv, signingVars
      <3> QED BY <3>1, <3>2
    <2> QED BY <2>2, <2>3 DEF SigningInv, signingVars
  <1>3. CASE PutSigner(p)
    <2>1. ASSUME NEW q \in Procs PROVE SignerOK(q)'
      BY <1>1, <1>3 DEF PutSigner, SigningInv
    <2>2. TokensSurviveRotation'
      BY <1>1, <1>3 DEF PutSigner, SigningInv
    <2> QED BY <2>1, <2>2 DEF SigningInv
  <1>4. CASE Point(p)
    <2>1. ASSUME NEW q \in Procs PROVE SignerOK(q)'
      BY <1>1, <1>4 DEF Point, SigningInv
    <2> QED BY <1>4, <2>1 DEF Point, SigningInv
  <1>5. CASE RotateFirst(p)
    <2>1. PICK k \in UnusedKids :
            proc' = [proc EXCEPT ![p] = Signer("putSigner", "rotate", k, proc[p].kid)]
      BY <1>1, <1>5 DEF RotateFirst
    <2>2. ASSUME NEW q \in Procs PROVE SignerOK(q)'
      BY <1>1, <1>5, <2>1, UnusedKid DEF RotateFirst, SigningInv, signingVars
    <2> QED BY <1>5, <2>2 DEF RotateFirst, SigningInv, signingVars
  <1>6. CASE Retire(p)
    <2>1. proc[p].prev \in Kids /\ signing[proc[p].prev] # NULL
      BY <1>1, <1>6 DEF Retire, SigningInv
    <2>2. ASSUME NEW q \in Procs PROVE SignerOK(q)'
      BY <1>1, <1>6, <2>1 DEF Retire, SigningInv
    <2>3. TokensSurviveRotation'
      BY <1>1, <1>6, <2>1 DEF Retire, SigningInv
    <2> QED BY <2>2, <2>3 DEF SigningInv
  <1>7. CASE Sign(p)
    <2>1. ASSUME NEW q \in Procs PROVE SignerOK(q)'
      BY <1>1, <1>7 DEF Sign, SigningInv
    <2> QED BY <1>1, <1>7, <2>1 DEF Sign, SigningInv
  <1> QED BY <1>2, <1>3, <1>4, <1>5, <1>6, <1>7 DEF ExchangeToken, SigningStart, SigningStep

-----------------------------------------------------------------------------
(* Public links *)

\* For one request at a time: the link a handler works on is the one of its
\* collection, and no other link somebody was given leads there.
SharingOK(p) ==
    LET h == proc[p] IN
    /\ h.pc \in {"putLink", "putLinkOf", "undoLink"} => h.link \notin published
    /\ h.pc \in {"putLink", "putLinkOf"} =>
        \A l \in published : linkRecord[l] # h.collection
    /\ h.pc = "putLinkOf" => linkRecord[h.link] = h.collection
    /\ h.pc \in {"dropLink", "dropLinkOf"} => linkOf[h.collection] = h.link
    /\ h.pc = "dropLinkOf" => linkRecord[h.link] = NULL

SharingInv == LinksCanBeRevoked /\ (~overlapped => \A p \in Procs : SharingOK(p))

LEMMA SharingFrame ==
  ASSUME Typed, SharingInv, UNCHANGED shareVars, NEW p \in Procs, overlapped => overlapped',
         Elsewhere(p, SharingPcs)
  PROVE  SharingInv'
  <1>1. \A q \in Procs : proc'[q].pc \in SharingPcs => proc'[q] = proc[q]
    BY DEF Typed, Elsewhere
  <1>2. ~overlapped' => \A q \in Procs : SharingOK(q)'
    BY <1>1 DEF SharingInv, SharingOK, shareVars, SharingPcs, Typed
  <1> QED BY <1>2 DEF SharingInv, LinksCanBeRevoked, Resolves, shareVars, Typed

LEMMA SharingInvStep ==
  ASSUME Typed, SharingInv, NEW p \in Procs, ShareStart(p) \/ ShareStep(p)
  PROVE  SharingInv'
  <1> SUFFICES ASSUME ~overlapped'
               PROVE  LinksCanBeRevoked' /\ \A q \in Procs : SharingOK(q)'
    BY DEF SharingInv, LinksCanBeRevoked
  <1>1. ~overlapped /\ ShareTypes /\ LinksCanBeRevoked /\ SharingOK(p)
    BY ShareMoves DEF Moves, Typed, SharingInv
  <1>2. proc[p].pc \in SharingPcs => proc[p] \in Sharings
    BY HandlerKinds DEF Typed
  <1>3. \A q \in Procs : q # p => SharingOK(q)'
    <2>1. \A q \in Procs : q # p => proc'[q] = Idle
      BY ShareMoves DEF Moves, Typed, OneAtATime, Busy
    <2> QED BY <2>1 DEF SharingOK, Idle
  <1> SUFFICES LinksCanBeRevoked' /\ SharingOK(p)'
    BY <1>3
  <1> USE LinksAssumption DEF SharingPcs, Sharings, Sharing, LinksCanBeRevoked, Resolves,
          ShareTypes, SharingOK, Typed, Write, Read, GoTo, Finish, Idle
  <1>4. ASSUME NEW c \in Shared, Publish(p, c) PROVE LinksCanBeRevoked' /\ SharingOK(p)'
    BY <1>1, <1>4 DEF Publish, StatusOf, UnusedLinks, Begin, shareVars
  <1>5. ASSUME NEW c \in Shared, Revoke(p, c) PROVE LinksCanBeRevoked' /\ SharingOK(p)'
    BY <1>1, <1>5 DEF Revoke, StatusOf, Begin, shareVars
  <1>6. CASE PutLink(p)
    BY <1>1, <1>2, <1>6 DEF PutLink
  <1>7. CASE PutLinkOf(p)
    BY <1>1, <1>2, <1>7 DEF PutLinkOf
  <1>8. CASE UndoLink(p)
    BY <1>1, <1>2, <1>8 DEF UndoLink
  <1>9. CASE DropLink(p)
    BY <1>1, <1>2, <1>9 DEF DropLink
  <1>10. CASE DropLinkOf(p)
    BY <1>1, <1>2, <1>10 DEF DropLinkOf
  <1> QED BY <1>4, <1>5, <1>6, <1>7, <1>8, <1>9, <1>10 DEF ShareStart, ShareStep

-----------------------------------------------------------------------------
(* Credentials *)

CreationPcs == {"putKey", "putLookup", "putEntry", "undoLookup", "undoEntry"}

\* The handlers that made a credential nobody was given yet: creations, the removals
\* of those that failed, and rotations until they are answered.
Creates(h) ==
    \/ h.pc \in CreationPcs
    \/ h.pc \in RevokePcs /\ h.from # h.key

Retired(c) == cred[c] # NULL => cred[c].status = "revoked"

\* An active API key is found by its secret.
Found(c) == cred[c].status = "active" /\ cred[c].kind = "api" => c \in lookup

IssueOK(p) ==
    LET h == proc[p] IN
    /\ Creates(h) =>
        /\ h.key \notin revealed
        /\ \A q \in Procs \ {p} : Creates(proc[q]) => proc[q].key # h.key
    /\ h.pc \in {"putKey", "putLookup", "putEntry"} =>
        /\ h.key \notin entry
        /\ h.from # NULL => h.from \in entry
    /\ h.pc \in {"putLookup", "putEntry"} => cred[h.key] = h.new
    /\ h.pc = "putEntry" => Found(h.key)
    /\ h.pc \in RevokePcs =>
        /\ h.from \in entry /\ h.key \in entry
        /\ h.from # h.key => cred[h.key] # NULL /\ Found(h.key)
    /\ h.pc = "dropLookup" => Retired(h.target)

IssuesOK == \A p \in Procs : IssueOK(p)

RotatedOK == \A r \in rotated : r[1] \in entry /\ Retired(r[1])

RevealedOK == \A c \in revealed : cred[c] # NULL /\ c \in entry /\ Found(c)

CredentialInv == IssuesOK /\ RotatedOK /\ RevealedOK

LEMMA CredentialFrame ==
  ASSUME Typed, CredentialInv, UNCHANGED credVars, NEW p \in Procs, Elsewhere(p, IssuePcs)
  PROVE  CredentialInv'
  <1>1. \A q \in Procs : proc'[q].pc \in IssuePcs => proc'[q] = proc[q]
    BY DEF Typed, Elsewhere
  <1>2. ASSUME NEW q \in Procs PROVE IssueOK(q)'
    BY <1>1 DEF CredentialInv, IssuesOK, IssueOK, Creates, CreationPcs, RevokePcs, IssuePcs, credVars,
       Retired, Found
  <1> QED BY <1>2 DEF CredentialInv, IssuesOK, RotatedOK, RevealedOK, credVars, Retired, Found

LEMMA UnusedCred ==
  ASSUME Typed, CredentialInv, NEW c \in UnusedCreds
  PROVE  /\ c \in Creds /\ cred[c] = NULL /\ c \notin lookup /\ c \notin entry
         /\ c \notin revealed
         /\ \A q \in Procs : proc[q].pc \in IssuePcs => proc[q].key # c
  <1>1. \A q \in Procs : proc[q].pc \in IssuePcs =>
            proc[q] \in Issues /\ proc[q] # Idle /\ "key" \in DOMAIN proc[q]
    BY HandlerKinds DEF Typed, Idle, Issues, IssuePcs
  <1> QED BY <1>1 DEF UnusedCreds, Busy, CredentialInv, RevealedOK

LEMMA CredentialInvStart ==
  ASSUME Typed, CredentialInv, NEW p \in Procs, CredentialStart(p)
  PROVE  CredentialInv'
  <1> DEFINE Creation(c, from) ==
               \E new \in Credential :
                  proc' = [proc EXCEPT ![p] = Issue("putKey", c, new, from)]
             Revocation(c) ==
               \E new \in Credential \cup {NULL} :
                  proc' = [proc EXCEPT ![p] = Issue("putRevoked", c, new, c)]
  <1>1. UNCHANGED credVars
    BY DEF CredentialStart, CreateKey, RotateKey, RevokeKey, CreateCredential,
           RotateCredential, RevokeCredential, StartIssue, StartRevoke, Rotate
  <1>2. \/ \E c \in UnusedCreds, from \in entry \cup {NULL} : Creation(c, from)
        \/ \E c \in entry : Revocation(c)
    BY DEF CredentialStart, CreateKey, RotateKey, RevokeKey, CreateCredential, Begin,
           RotateCredential, RevokeCredential, StartIssue, StartRevoke, Rotate,
           ListedKeys, ListedCredentials, InProject, Typed, CredentialTypes, Credential
  <1>3. ASSUME NEW c \in UnusedCreds, NEW from \in entry \cup {NULL}, Creation(c, from),
               NEW q \in Procs
        PROVE  IssueOK(q)'
    BY <1>1, <1>3, UnusedCred DEF Typed, CredentialInv, IssuesOK, IssueOK, Creates, CreationPcs,
       RevokePcs, IssuePcs, Issue, Retired, Found, credVars
  <1>4. ASSUME NEW c \in entry, Revocation(c), NEW q \in Procs
        PROVE  IssueOK(q)'
    BY <1>1, <1>4 DEF Typed, CredentialInv, IssuesOK, IssueOK, Creates, CreationPcs,
       RevokePcs, IssuePcs, Issue, Retired, Found, credVars
  <1>5. IssuesOK'
    BY <1>2, <1>3, <1>4 DEF IssuesOK
  <1> QED BY <1>1, <1>5 DEF CredentialInv, RotatedOK, RevealedOK, Retired, Found, credVars

LEMMA CredentialInvStep ==
  ASSUME Typed, CredentialInv, NEW p \in Procs, CredentialStep(p)
  PROVE  CredentialInv'
  <1>1. \A q \in Procs : proc[q].pc \in IssuePcs => proc[q] \in Issues
    BY HandlerKinds DEF Typed
  <1> USE CredsAssumption DEF IssuePcs, CreationPcs, RevokePcs, Creates, Issues,
          Retired, Found, Credential, Write, Read, GoTo, Finish, Idle, Typed, CredentialTypes
  <1> USE DEF IssueOK, Reveal, Withhold, Revoked, RevokeFailed, Rotating, Dead
  <1>2. CASE PutKey(p)
    <2>1. ASSUME NEW q \in Procs PROVE IssueOK(q)'
      BY <1>1, <1>2 DEF PutKey, CredentialInv, IssuesOK
    <2>2. RotatedOK'
      BY <1>1, <1>2 DEF PutKey, CredentialInv, IssuesOK, RotatedOK
    <2>3. RevealedOK'
      BY <1>1, <1>2 DEF PutKey, CredentialInv, IssuesOK, RevealedOK
    <2> QED BY <2>1, <2>2, <2>3 DEF CredentialInv, IssuesOK
  <1>3. CASE PutLookup(p)
    <2>1. ASSUME NEW q \in Procs PROVE IssueOK(q)'
      BY <1>1, <1>3 DEF PutLookup, CredentialInv, IssuesOK
    <2>2. RotatedOK'
      BY <1>1, <1>3 DEF PutLookup, CredentialInv, IssuesOK, RotatedOK
    <2>3. RevealedOK'
      BY <1>1, <1>3 DEF PutLookup, CredentialInv, IssuesOK, RevealedOK
    <2> QED BY <2>1, <2>2, <2>3 DEF CredentialInv, IssuesOK
  <1>4. CASE PutEntry(p)
    <2>1. ASSUME NEW q \in Procs PROVE IssueOK(q)'
      BY <1>1, <1>4 DEF PutEntry, CredentialInv, IssuesOK
    <2>2. RotatedOK'
      BY <1>1, <1>4 DEF PutEntry, CredentialInv, IssuesOK, RotatedOK
    <2>3. RevealedOK'
      BY <1>1, <1>4 DEF PutEntry, CredentialInv, IssuesOK, RevealedOK
    <2> QED BY <2>1, <2>2, <2>3 DEF CredentialInv, IssuesOK
  <1>5. CASE UndoIssue(p)
    <2>1. ASSUME NEW q \in Procs PROVE IssueOK(q)'
      BY <1>1, <1>5 DEF UndoIssue, CredentialInv, IssuesOK
    <2>2. RotatedOK'
      BY <1>1, <1>5 DEF UndoIssue, CredentialInv, IssuesOK, RotatedOK
    <2>3. RevealedOK'
      BY <1>1, <1>5 DEF UndoIssue, CredentialInv, IssuesOK, RevealedOK
    <2> QED BY <2>1, <2>2, <2>3 DEF CredentialInv, IssuesOK
  <1>6. CASE ReadTarget(p)
    <2>1. ASSUME NEW q \in Procs PROVE IssueOK(q)'
      BY <1>1, <1>6 DEF ReadTarget, CredentialInv, IssuesOK
    <2>2. RotatedOK'
      BY <1>1, <1>6 DEF ReadTarget, CredentialInv, IssuesOK, RotatedOK
    <2>3. RevealedOK'
      BY <1>1, <1>6 DEF ReadTarget, CredentialInv, IssuesOK, RevealedOK
    <2> QED BY <2>1, <2>2, <2>3 DEF CredentialInv, IssuesOK
  <1>7. CASE PutRevoked(p)
    <2>1. ASSUME NEW q \in Procs PROVE IssueOK(q)'
      BY <1>1, <1>7 DEF PutRevoked, CredentialInv, IssuesOK
    <2>2. RotatedOK'
      BY <1>1, <1>7 DEF PutRevoked, CredentialInv, IssuesOK, RotatedOK
    <2>3. RevealedOK'
      BY <1>1, <1>7 DEF PutRevoked, CredentialInv, IssuesOK, RevealedOK
    <2> QED BY <2>1, <2>2, <2>3 DEF CredentialInv, IssuesOK
  <1>8. CASE DropLookup(p)
    <2>1. ASSUME NEW q \in Procs PROVE IssueOK(q)'
      BY <1>1, <1>8 DEF DropLookup, CredentialInv, IssuesOK
    <2>2. RotatedOK'
      BY <1>1, <1>8 DEF DropLookup, CredentialInv, IssuesOK, RotatedOK
    <2>3. RevealedOK'
      BY <1>1, <1>8 DEF DropLookup, CredentialInv, IssuesOK, RevealedOK
    <2> QED BY <2>1, <2>2, <2>3 DEF CredentialInv, IssuesOK
  <1> QED BY <1>2, <1>3, <1>4, <1>5, <1>6, <1>7, <1>8 DEF CredentialStep

-----------------------------------------------------------------------------
(* Projects *)

NewPcs == {"putSlug", "confirmSlug", "undoProject"}

\* What the handler of the only request there is knows of the record it works on ...
RecordOK(p) ==
    LET h == proc[p] IN
    /\ h.pc \in {"putNewProject"} \cup NewPcs =>
        h.next.status = "active" /\ h.id \notin accepted
    /\ h.pc = "putNewProject" => project[h.id] = NULL
    /\ h.pc \in NewPcs => project[h.id] = h.next
    /\ h.pc \in {"checkSlug", "claimSlug", "putMoved", "putUpdate", "putDeleted"} =>
        Exists(h.id) /\ project[h.id].slug = h.old
    /\ h.pc \in {"putUpdate", "putDeleted"} => h.next.slug = h.old
    /\ h.pc \in {"checkSlug", "claimSlug", "putMoved", "undoSlug"} => h.next.slug # h.old
    /\ h.pc = "putDeleted" => h.next.status = "deleted"

\* ... and of the entries of its slugs, as long as a write that failed had no effect.
SlugOK(p) ==
    LET h == proc[p] IN
    /\ h.pc \in {"putNewProject", "putSlug"} => slugIndex[h.next.slug] = NULL
    /\ h.pc = "claimSlug" => slugIndex[h.next.slug] \in {NULL, h.id}
    /\ h.pc \in {"putMoved", "undoSlug"} => slugIndex[h.next.slug] = h.id
    /\ h.pc = "undoSlug" => Exists(h.id) /\ project[h.id].slug = h.old
    /\ h.pc \in {"readOldSlug", "dropOldSlug"} =>
        ~(Exists(h.id) /\ project[h.id].slug = h.old)
    /\ h.pc = "dropOldSlug" => slugIndex[h.old] = h.id

ProjectInv ==
    /\ ~overlapped =>
        /\ \A p \in Procs : RecordOK(p)
        /\ \A i \in accepted : project[i] # NULL
    /\ ~overlapped /\ ~lateEffect => \A p \in Procs : SlugOK(p)
    /\ SlugsResolve

LEMMA ProjectFrame ==
  ASSUME Typed, ProjectInv, UNCHANGED projectVars, NEW p \in Procs,
         overlapped => overlapped', lateEffect => lateEffect', Elsewhere(p, ProjectPcs)
  PROVE  ProjectInv'
  <1>1. \A q \in Procs : proc'[q].pc \in ProjectPcs => proc'[q] = proc[q]
    BY DEF Typed, Elsewhere
  <1> USE DEF ProjectPcs, NewPcs, Exists, projectVars, ProjectInv
  <1>2. ~overlapped' => \A q \in Procs : RecordOK(q)'
    BY <1>1 DEF RecordOK
  <1>3. ~overlapped' /\ ~lateEffect' => \A q \in Procs : SlugOK(q)'
    BY <1>1 DEF SlugOK
  <1>4. SlugsResolve'
    BY DEF SlugsResolve, ListedProjects, Typed
  <1> QED BY <1>2, <1>3, <1>4

LEMMA ProjectInvStep ==
  ASSUME Typed, ProjectInv, NEW p \in Procs, ProjectStart(p) \/ ProjectStep(p)
  PROVE  ProjectInv'
  <1> SUFFICES ASSUME ~overlapped'
               PROVE  ProjectInv'
    BY DEF ProjectInv, SlugsResolve
  <1>1. /\ ~overlapped /\ ProjectTypes /\ RecordOK(p) /\ SlugsResolve
        /\ lateEffect => lateEffect'
        /\ ~lateEffect => SlugOK(p)
        /\ \A i \in accepted : project[i] # NULL
    BY ProjectMoves DEF Moves, Typed, ProjectInv
  <1>2. proc[p].pc \in ProjectPcs => proc[p] \in Changes
    BY HandlerKinds DEF Typed
  <1>3. \A q \in Procs : q # p => RecordOK(q)' /\ SlugOK(q)'
    <2>1. \A q \in Procs : q # p => proc'[q] = Idle
      BY ProjectMoves DEF Moves, Typed, OneAtATime, Busy
    <2> QED BY <2>1 DEF RecordOK, SlugOK, NewPcs, Idle
  <1> DEFINE Result ==
        /\ RecordOK(p)' /\ (\A i \in accepted : project[i] # NULL)'
        /\ ~lateEffect' => SlugOK(p)'
        /\ SlugsResolve'
  <1> SUFFICES Result
    BY <1>3 DEF ProjectInv
  <1> USE ProjectsAssumption DEF ProjectPcs, NewPcs, Changes, Change, SlugsResolve,
          ListedProjects, Exists, ProjectTypes, Record, Statuses, RecordOK, SlugOK, Typed
  <1> USE DEF Write, Read, GoTo, Finish, Idle
  <1>4. ASSUME NEW s \in Slugs, StartCreateProject(p, s) PROVE Result
    BY <1>1, <1>4 DEF StartCreateProject, UnusedIds, Begin, projectVars
  <1>5. ASSUME NEW i \in Projects, NEW next \in Record, StartUpdate(p, i, next) PROVE Result
    BY <1>1, <1>5 DEF StartUpdate, Begin, projectVars
  <1>6. ASSUME NEW i \in Projects, StartDelete(p, i) PROVE Result
    BY <1>1, <1>6 DEF StartDelete, Begin, projectVars
  <1>7. CASE PutNewProject(p)
    BY <1>1, <1>2, <1>7 DEF PutNewProject
  <1>8. CASE PutSlug(p)
    BY <1>1, <1>2, <1>8 DEF PutSlug
  <1>9. CASE ConfirmSlug(p)
    BY <1>1, <1>2, <1>9 DEF ConfirmSlug
  <1>10. CASE UndoProject(p)
    BY <1>1, <1>2, <1>10 DEF UndoProject
  <1>11. CASE CheckSlug(p)
    BY <1>1, <1>2, <1>11 DEF CheckSlug, SlugAvailable, projectVars
  <1>12. CASE ClaimSlug(p)
    BY <1>1, <1>2, <1>12 DEF ClaimSlug
  <1>13. CASE PutMoved(p)
    BY <1>1, <1>2, <1>13 DEF PutMoved
  <1>14. CASE UndoSlug(p)
    BY <1>1, <1>2, <1>14 DEF UndoSlug
  <1>15. CASE PutUpdate(p)
    BY <1>1, <1>2, <1>15 DEF PutUpdate
  <1>16. CASE PutDeleted(p)
    BY <1>1, <1>2, <1>16 DEF PutDeleted
  <1>17. CASE ReadOldSlug(p)
    BY <1>1, <1>2, <1>17 DEF ReadOldSlug, projectVars
  <1>18. CASE DropOldSlug(p)
    BY <1>1, <1>2, <1>18 DEF DropOldSlug
  <1> QED BY <1>4, <1>5, <1>6, <1>7, <1>8, <1>9, <1>10, <1>11, <1>12, <1>13, <1>14, <1>15,
             <1>16, <1>17, <1>18 DEF ProjectStart, ProjectStep

\* The record of a deleted project is not written again by the only request there is.
LEMMA DeletedStep ==
  ASSUME Typed, ProjectInv, NEW p \in Procs, ProjectStart(p) \/ ProjectStep(p),
         ~overlapped', NEW i \in Projects, project[i] # NULL, project[i].status = "deleted"
  PROVE  project'[i] = project[i]
  <1>1. ~overlapped /\ RecordOK(p)
    BY ProjectMoves DEF Moves, Typed, ProjectInv
  <1>2. proc[p].pc \in ProjectPcs => proc[p] \in Changes
    BY HandlerKinds DEF Typed
  <1>3. \/ project' = project
        \/ proc[p].pc \in {"putNewProject", "putMoved", "putUpdate", "putDeleted"}
           /\ project' = [project EXCEPT ![proc[p].id] = proc[p].next]
        \/ proc[p].pc = "undoProject" /\ project' = [project EXCEPT ![proc[p].id] = NULL]
    BY DEF ProjectStart, ProjectStep, StartCreateProject, StartUpdate, StartDelete,
           PutNewProject, PutSlug, ConfirmSlug, UndoProject, CheckSlug, ClaimSlug, PutMoved,
           UndoSlug, PutUpdate, PutDeleted, ReadOldSlug, DropOldSlug, projectVars, Write, Read
  <1>4. proc[p].pc \in {"putNewProject", "putMoved", "putUpdate", "putDeleted", "undoProject"}
          => proc[p].id # i
    BY <1>1, <1>2 DEF RecordOK, NewPcs, Exists, ProjectPcs, Changes
  <1> QED BY <1>3, <1>4 DEF Typed, ProjectTypes

-----------------------------------------------------------------------------
(* The services together *)

Inv == Typed /\ SigningInv /\ SharingInv /\ CredentialInv /\ ProjectInv

LEMMA InvInit ==
  ASSUME Init
  PROVE  Inv
  <1>1. \A q \in Procs : proc[q].pc = "idle"
    BY DEF Init, InitRequests, Idle
  <1>2. SigningInv
    BY <1>1 DEF Init, InitSigning, SigningInv, SignerOK, SignerPcs, TokensSurviveRotation
  <1>3. SharingInv
    BY <1>1 DEF Init, InitShares, SharingInv, SharingOK, LinksCanBeRevoked
  <1>4. CredentialInv
    BY <1>1 DEF Init, InitCredentials, CredentialInv, IssuesOK, IssueOK, Creates, CreationPcs,
       RevokePcs, RotatedOK, RevealedOK
  <1>5. ProjectInv
    BY <1>1 DEF Init, InitProjects, ProjectInv, RecordOK, SlugOK, NewPcs, SlugsResolve
  <1> QED BY <1>2, <1>3, <1>4, <1>5, TypedInit DEF Inv

LEMMA InvStep ==
  ASSUME Inv, [Next]_vars
  PROVE  Inv'
  <1>1. Typed'
    BY TypedStep DEF Inv
  <1>2. ASSUME NEW p \in Procs, ProjectStart(p) \/ ProjectStep(p),
               UNCHANGED <<credVars, signingVars, shareVars>>
        PROVE  Inv'
    <2>1. Moves(p, Changes)
      BY <1>2, ProjectMoves DEF Inv
    <2>2. Elsewhere(p, IssuePcs) /\ Elsewhere(p, SignerPcs) /\ Elsewhere(p, SharingPcs)
      BY <2>1 DEF Moves, Elsewhere, Changes, Idle, ProjectPcs, IssuePcs, SignerPcs, SharingPcs
    <2>3. ProjectInv'
      BY <1>2, ProjectInvStep DEF Inv
    <2>4. CredentialInv'
      BY <1>2, <2>1, <2>2, CredentialFrame DEF Inv, Moves
    <2>5. SigningInv'
      BY <1>2, <2>1, <2>2, SigningFrame DEF Inv, Moves
    <2>6. SharingInv'
      BY <1>2, <2>1, <2>2, SharingFrame DEF Inv, Moves
    <2> QED BY <1>1, <2>4, <2>5, <2>6, <2>3 DEF Inv
  <1>3. ASSUME NEW p \in Procs, CredentialStart(p) \/ CredentialStep(p),
               UNCHANGED <<projectVars, signingVars, shareVars>>
        PROVE  Inv'
    <2>1. Moves(p, Issues)
      BY <1>3, CredentialMoves DEF Inv
    <2>2. Elsewhere(p, ProjectPcs) /\ Elsewhere(p, SignerPcs) /\ Elsewhere(p, SharingPcs)
      BY <2>1 DEF Moves, Elsewhere, Issues, Idle, ProjectPcs, IssuePcs, SignerPcs, SharingPcs
    <2>3. CredentialInv'
      BY <1>3, CredentialInvStart, CredentialInvStep DEF Inv
    <2>4. ProjectInv'
      BY <1>3, <2>1, <2>2, ProjectFrame DEF Inv, Moves
    <2>5. SigningInv'
      BY <1>3, <2>1, <2>2, SigningFrame DEF Inv, Moves
    <2>6. SharingInv'
      BY <1>3, <2>1, <2>2, SharingFrame DEF Inv, Moves
    <2> QED BY <1>1, <2>4, <2>5, <2>6, <2>3 DEF Inv
  <1>4. ASSUME NEW p \in Procs, ExchangeToken(p) \/ SigningStart(p) \/ SigningStep(p),
               UNCHANGED <<registryVars, shareVars>>
        PROVE  Inv'
    <2>1. Moves(p, Signers)
      BY <1>4, SigningMoves DEF Inv
    <2>2. Elsewhere(p, ProjectPcs) /\ Elsewhere(p, IssuePcs) /\ Elsewhere(p, SharingPcs)
      BY <2>1 DEF Moves, Elsewhere, Signers, Idle, ProjectPcs, IssuePcs, SignerPcs, SharingPcs
    <2>3. SigningInv'
      BY <1>4, SigningInvStep DEF Inv
    <2>4. ProjectInv'
      BY <1>4, <2>1, <2>2, ProjectFrame DEF Inv, Moves, registryVars
    <2>5. CredentialInv'
      BY <1>4, <2>1, <2>2, CredentialFrame DEF Inv, Moves, registryVars
    <2>6. SharingInv'
      BY <1>4, <2>1, <2>2, SharingFrame DEF Inv, Moves, registryVars
    <2> QED BY <1>1, <2>4, <2>5, <2>6, <2>3 DEF Inv
  <1>5. ASSUME NEW p \in Procs, ShareStart(p) \/ ShareStep(p),
               UNCHANGED <<registryVars, signingVars>>
        PROVE  Inv'
    <2>1. Moves(p, Sharings)
      BY <1>5, ShareMoves DEF Inv
    <2>2. Elsewhere(p, ProjectPcs) /\ Elsewhere(p, IssuePcs) /\ Elsewhere(p, SignerPcs)
      BY <2>1 DEF Moves, Elsewhere, Sharings, Idle, ProjectPcs, IssuePcs, SignerPcs, SharingPcs
    <2>3. SharingInv'
      BY <1>5, SharingInvStep DEF Inv
    <2>4. ProjectInv'
      BY <1>5, <2>1, <2>2, ProjectFrame DEF Inv, Moves, registryVars
    <2>5. CredentialInv'
      BY <1>5, <2>1, <2>2, CredentialFrame DEF Inv, Moves, registryVars
    <2>6. SigningInv'
      BY <1>5, <2>1, <2>2, SigningFrame DEF Inv, Moves, registryVars
    <2> QED BY <1>1, <2>4, <2>5, <2>6, <2>3 DEF Inv
  <1>6. ASSUME NEW p \in Procs, Evict(p), UNCHANGED <<registryVars, signingVars, shareVars>>
        PROVE  Inv'
    <2>1. /\ proc' = [proc EXCEPT ![p] = Idle]
          /\ UNCHANGED <<overlapped, lateEffect>>
      BY <1>6 DEF Evict, Finish
    <2>2. /\ Elsewhere(p, ProjectPcs) /\ Elsewhere(p, IssuePcs)
          /\ Elsewhere(p, SignerPcs) /\ Elsewhere(p, SharingPcs)
      BY <2>1 DEF Elsewhere, Idle, ProjectPcs, IssuePcs, SignerPcs, SharingPcs
    <2>3. ProjectInv'
      BY <1>6, <2>1, <2>2, ProjectFrame DEF Inv, Moves, registryVars
    <2>4. CredentialInv'
      BY <1>6, <2>1, <2>2, CredentialFrame DEF Inv, Moves, registryVars
    <2>5. SigningInv'
      BY <1>6, <2>1, <2>2, SigningFrame DEF Inv, Moves, registryVars
    <2>6. SharingInv'
      BY <1>6, <2>1, <2>2, SharingFrame DEF Inv, Moves, registryVars
    <2> QED BY <1>1, <2>3, <2>4, <2>5, <2>6 DEF Inv
  <1>7. CASE UNCHANGED vars
    <2>1. /\ SigningInv'
          /\ SharingInv'
      BY <1>7 DEF vars, requestVars, signingVars, shareVars, Inv, SigningInv, SignerOK,
         TokensSurviveRotation, Published, Verifies, SharingInv, SharingOK, LinksCanBeRevoked,
         Resolves
    <2>2. CredentialInv'
      BY <1>7 DEF vars, requestVars, registryVars, credVars, Inv, CredentialInv, IssuesOK,
         IssueOK, Creates, RotatedOK, RevealedOK, Retired, Found
    <2>3. ProjectInv'
      BY <1>7 DEF vars, requestVars, registryVars, projectVars, Inv, ProjectInv, RecordOK,
         SlugOK, SlugsResolve, ListedProjects, Exists
    <2> QED BY <1>1, <2>1, <2>2, <2>3 DEF Inv
  <1> QED BY <1>2, <1>3, <1>4, <1>5, <1>6, <1>7 DEF Next

\* What the properties below rest on holds in every reachable state: of projects and
\* slugs, of issued keys and credentials, of signing keys and of shared links.
THEOREM Invariance == Spec => []Inv
  BY InvInit, InvStep, PTL DEF Spec

\* Tokens that were issued verify for as long as they live, and a rotation of the
\* signing key that was answered did retire it, whatever handlers interleave.
THEOREM TokensSurviveRotationHolds == Spec => []TokensSurviveRotation
  <1>1. Inv => TokensSurviveRotation
    BY DEF Inv, SigningInv
  <1> QED BY <1>1, Invariance, PTL

\* A link that somebody was given and that resolves can be revoked by its collection.
THEOREM LinksCanBeRevokedHolds == Spec => []LinksCanBeRevoked
  <1>1. Inv => LinksCanBeRevoked
    BY DEF Inv, SharingInv
  <1> QED BY <1>1, Invariance, PTL

\* What a rotation that was answered replaced is dead for good.
THEOREM RotationRetiresHolds == Spec => []RotationRetires
  <1>1. Inv => RotationRetires
    BY DEF Inv, CredentialInv, RotatedOK, RotationRetires, Retired
  <1> QED BY <1>1, Invariance, PTL

\* A secret that somebody was given belongs to a credential its administrator sees, and
\* its bearer is found by it.
THEOREM RevealedIsManageableHolds == Spec => []RevealedIsManageable
  <1>1. Inv => RevealedIsManageable
    BY DEF Inv, CredentialInv, RevealedOK, RevealedIsManageable, ListedKeys,
       ListedCredentials, InProject, Found, KeyAuthenticates, SignatureAuthenticates,
       IsActive, Typed, CredentialTypes, Credential
  <1> QED BY <1>1, Invariance, PTL

\* A project keeps its slug until it is deleted, and no two projects share one.
THEOREM SlugsResolveHolds == Spec => []SlugsResolve
  <1>1. Inv => SlugsResolve
    BY DEF Inv, ProjectInv
  <1> QED BY <1>1, Invariance, PTL

\* The record of a deleted project is never written again.
THEOREM DeletedStaysDeletedHolds == Spec => DeletedStaysDeleted
  <1> DEFINE Kept == ~overlapped' => \A i \in Projects :
               project[i] # NULL /\ project[i].status = "deleted" => project'[i] = project[i]
  <1>1. Inv /\ [Next]_vars => [Kept]_<<requestVars, projectVars>>
    <2> SUFFICES ASSUME Inv, [Next]_vars PROVE Kept \/ UNCHANGED <<requestVars, projectVars>>
      OBVIOUS
    <2>1. ASSUME NEW p \in Procs, ProjectStart(p) \/ ProjectStep(p) PROVE Kept
      BY <2>1, DeletedStep DEF Inv
    <2>2. CASE UNCHANGED project
      BY <2>2
    <2> QED BY <2>1, <2>2 DEF Next, vars, registryVars, projectVars
  <1> QED BY <1>1, Invariance, PTL DEF Spec, DeletedStaysDeleted

=============================================================================
