----------------------------- MODULE Credentials -----------------------------
(***************************************************************************)
(* Developer API keys (functions/cloud/developer-api-keys.js) and S3       *)
(* credentials (functions/cloud/s3-credentials.js) of a project.           *)
(*                                                                         *)
(* A credential is a record, an entry in the list of its project, and, for *)
(* an API key, a lookup entry by which the bearer of the secret finds it.  *)
(* The secret is in no record: it is revealed once, in the answer of a     *)
(* creation or of a rotation that succeeded.                               *)
(*                                                                         *)
(* Abstractions: labels, scopes, times, digests and the marker of the last *)
(* use are left out.  The reads a request begins with are one step: all    *)
(* that they tell is used after later calls, when it may be stale anyway.  *)
(***************************************************************************)
EXTENDS ProjectRegistry

CONSTANTS Creds \* ids of credentials

Credential == [kind : {"api", "s3"}, project : Projects, status : {"active", "revoked"}]

ASSUME CredsAssumption == NULL \notin Creds \cup Credential

VARIABLES
    cred,     \* credential records: kind "api" or "s3", project, status
    lookup,   \* the API keys that have a lookup entry
    entry,    \* the credentials in the list of their project
    revealed, \* history: credentials whose secret somebody was given
    rotated   \* history: <<old, new>> of the rotations answered with success

credVars == <<cred, lookup, entry, revealed, rotated>>

InitCredentials ==
    /\ cred = [c \in Creds |-> NULL]
    /\ lookup = {}
    /\ entry = {}
    /\ revealed = {}
    /\ rotated = {}

\* scopedKey, scopedCredential
InProject(c, i) == cred[c] # NULL /\ cred[c].project = i

\* What the administrator of a project is shown: listKeys and listCredentials.
ListedKeys(i) == {c \in entry : InProject(c, i) /\ cred[c].kind = "api"}

ListedCredentials(i) == {c \in entry : InProject(c, i) /\ cred[c].kind = "s3"}

\* authenticate: the bearer of the secret of API key c is let in.
KeyAuthenticates(c) ==
    /\ c \in revealed
    /\ c \in lookup
    /\ cred[c] # NULL
    /\ cred[c].status = "active"
    /\ IsActive(cred[c].project)

\* resolveSigningCredential, and what authenticateS3Request asks of the project.
SignatureAuthenticates(c) ==
    /\ c \in revealed
    /\ cred[c] # NULL
    /\ cred[c].status = "active"
    /\ IsActive(cred[c].project)

\* `new` is the record a handler creates, `key` its id, `from` what it replaces, and
\* `target` the credential that is revoked.
Issue(pc, c, new, from) == [pc |-> pc, key |-> c, new |-> new, from |-> from, target |-> from]

\* allocateKeyId, allocateAccessKeyId
UnusedCreds == {c \in Creds :
    /\ cred[c] = NULL
    /\ c \notin lookup \cup entry
    /\ \A p \in Busy : "key" \in DOMAIN proc[p] => proc[p].key # c}

-----------------------------------------------------------------------------
(* createKeyInternal, createCredentialInternal *)

StartIssue(p, i, kind, from) ==
    /\ Exists(i)
    /\ \E c \in UnusedCreds :
        Begin(p, Issue("putKey", c, [kind |-> kind, project |-> i, status |-> "active"], from))
    /\ UNCHANGED credVars

\* createKey
CreateKey(p, i) == StartIssue(p, i, "api", NULL)

\* createCredential
CreateCredential(p, i) == StartIssue(p, i, "s3", NULL)

\* Only an active credential of the project can be rotated.  The administrator knows
\* its id from the list of the project.
Rotate(p, c) ==
    /\ cred[c].status = "active"
    /\ StartIssue(p, cred[c].project, cred[c].kind, c)

\* rotateKey
RotateKey(p, i) == \E c \in ListedKeys(i) : Rotate(p, c)

\* rotateCredential
RotateCredential(p, i) == \E c \in ListedCredentials(i) : Rotate(p, c)

PutKey(p) ==
    /\ proc[p].pc = "putKey"
    /\ Write(cred' = [cred EXCEPT ![proc[p].key] = proc[p].new], UNCHANGED cred,
             GoTo(p, IF proc[p].new.kind = "api" THEN "putLookup" ELSE "putEntry"), Finish(p))
    /\ UNCHANGED <<lookup, entry, revealed, rotated>>

PutLookup(p) ==
    /\ proc[p].pc = "putLookup"
    /\ Write(lookup' = lookup \cup {proc[p].key}, UNCHANGED lookup,
             GoTo(p, "putEntry"), GoTo(p, "undoLookup"))
    /\ UNCHANGED <<cred, entry, revealed, rotated>>

\* The answer carries the secret.
Reveal(p) ==
    /\ Finish(p)
    /\ revealed' = revealed \cup {proc[p].key}
    /\ rotated' = IF proc[p].from = NULL THEN rotated
                                         ELSE rotated \cup {<<proc[p].from, proc[p].key>>}

Withhold == UNCHANGED <<revealed, rotated>>

\* Mutant of PutEntry: the secret is revealed although the list entry failed.
PutEntryMaybe(p) ==
    /\ proc[p].pc = "putEntry"
    /\ Write(entry' = entry \cup {proc[p].key}, UNCHANGED entry,
             IF proc[p].from = NULL THEN Reveal(p) ELSE GoTo(p, "readTarget") /\ Withhold,
             IF proc[p].from = NULL THEN Reveal(p) ELSE GoTo(p, "readTarget") /\ Withhold)
    /\ UNCHANGED <<cred, lookup>>

PutEntry(p) ==
    /\ proc[p].pc = "putEntry"
    /\ Write(entry' = entry \cup {proc[p].key}, UNCHANGED entry,
             IF proc[p].from = NULL THEN Reveal(p) ELSE GoTo(p, "readTarget") /\ Withhold,
             GoTo(p, "undoEntry") /\ Withhold)
    /\ UNCHANGED <<cred, lookup>>

\* A failed creation removes what it knows it wrote: the writes that were reported
\* as done, and not the one that failed.  Each removal is best effort.
UndoIssue(p) ==
    /\ proc[p].pc \in {"undoLookup", "undoEntry"}
    /\ \E kept \in SUBSET {"cred", "lookup"} :
        /\ Read(kept = {}, kept # {})
        /\ cred' = IF "cred" \in kept THEN cred ELSE [cred EXCEPT ![proc[p].key] = NULL]
        /\ lookup' = IF proc[p].pc = "undoLookup" \/ "lookup" \in kept THEN lookup
                                                                 ELSE lookup \ {proc[p].key}
    /\ Finish(p)
    /\ UNCHANGED <<entry, revealed, rotated>>

-----------------------------------------------------------------------------
(* revokeKey, revokeCredential, and the second half of a rotation *)

StartRevoke(p, c) ==
    /\ cred[c].status = "active"
    /\ Exists(cred[c].project)
    /\ Begin(p, Issue("putRevoked", c, cred[c], c))
    /\ UNCHANGED credVars

RevokeKey(p, i) == \E c \in ListedKeys(i) : StartRevoke(p, c)

RevokeCredential(p, i) == \E c \in ListedCredentials(i) : StartRevoke(p, c)

\* What is written over a revoked credential: the record as it was read.
Dead(p) == [proc[p].new EXCEPT !.status = "revoked"]

Rotating(p) == proc[p].from # proc[p].key

\* The end of a revocation: of the prior credential, which completes a rotation; of
\* the replacement, which gives a rotation up; or one that was asked for.
Revoked(p) ==
    IF Rotating(p) /\ proc[p].target = proc[p].from THEN Reveal(p) ELSE Finish(p) /\ Withhold

\* When the prior credential could not be revoked, the replacement is, if it can be.
RevokeFailed(p) ==
    /\ Withhold
    /\ IF Rotating(p) /\ proc[p].target = proc[p].from
       THEN proc' = [proc EXCEPT ![p].pc = "readTarget", ![p].target = proc[p].key]
       ELSE Finish(p)

\* A rotation calls revokeKey, which reads the project and the credential again.
ReadTarget(p) ==
    /\ proc[p].pc = "readTarget"
    /\ LET c == proc[p].target IN
       \/ /\ Exists(proc[p].new.project)
          /\ InProject(c, proc[p].new.project)
          /\ Read(IF cred[c].status = "revoked" THEN Revoked(p)
                                                ELSE GoTo(p, "putRevoked") /\ Withhold,
                  RevokeFailed(p))
       \/ /\ ~(Exists(proc[p].new.project) /\ InProject(c, proc[p].new.project))
          /\ Read(RevokeFailed(p), RevokeFailed(p))
    /\ UNCHANGED <<cred, lookup, entry>>

\* Mutant of PutRevoked: a failure to revoke is treated as done.
PutRevokedOrNot(p) ==
    /\ proc[p].pc = "putRevoked"
    /\ Write(cred' = [cred EXCEPT ![proc[p].target] = Dead(p)], UNCHANGED cred,
             IF proc[p].new.kind = "api" THEN GoTo(p, "dropLookup") /\ Withhold ELSE Revoked(p),
             IF proc[p].new.kind = "api" THEN GoTo(p, "dropLookup") /\ Withhold ELSE Revoked(p))
    /\ UNCHANGED <<lookup, entry>>

PutRevoked(p) ==
    /\ proc[p].pc = "putRevoked"
    /\ Write(cred' = [cred EXCEPT ![proc[p].target] = Dead(p)], UNCHANGED cred,
             IF proc[p].new.kind = "api" THEN GoTo(p, "dropLookup") /\ Withhold ELSE Revoked(p),
             RevokeFailed(p))
    /\ UNCHANGED <<lookup, entry>>

\* The lookup entry of a revoked key is removed if that works.
DropLookup(p) ==
    /\ proc[p].pc = "dropLookup"
    /\ Read(lookup' = lookup \ {proc[p].target}, UNCHANGED lookup)
    /\ Revoked(p)
    /\ UNCHANGED <<cred, entry>>

CredentialStart(p) == \E i \in Projects :
    \/ CreateKey(p, i) \/ RotateKey(p, i) \/ RevokeKey(p, i)
    \/ CreateCredential(p, i) \/ RotateCredential(p, i) \/ RevokeCredential(p, i)

CredentialStep(p) ==
    \/ PutKey(p) \/ PutLookup(p) \/ PutEntry(p) \/ UndoIssue(p)
    \/ ReadTarget(p) \/ PutRevoked(p) \/ DropLookup(p)

-----------------------------------------------------------------------------
(* Properties *)

\* When a rotation was answered, what it replaced is dead for good, whatever other
\* handlers do and whatever fails: a rotation never leaves the client with two live
\* secrets.
RotationRetires == \A r \in rotated : cred[r[1]] # NULL => cred[r[1]].status = "revoked"

\* A secret that somebody was given belongs to a credential the administrator can
\* see in the list of its project, and as long as it is active its bearer is found by
\* it: no failure leaves a live secret that cannot be revoked, or one that is dead
\* although nobody revoked it.
RevealedIsManageable ==
    \A c \in revealed :
        /\ cred[c] # NULL
        /\ c \in ListedKeys(cred[c].project) \cup ListedCredentials(cred[c].project)
        /\ cred[c].status = "active" => (IF cred[c].kind = "api" THEN KeyAuthenticates(c)
                                         ELSE SignatureAuthenticates(c))
                                            = IsActive(cred[c].project)

=============================================================================
