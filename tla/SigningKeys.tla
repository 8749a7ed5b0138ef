----------------------------- MODULE SigningKeys -----------------------------
(***************************************************************************)
(* The keys that sign access tokens: functions/cloud/jwt-auth.js.          *)
(*                                                                         *)
(* A key is a record; a pointer names the one that signs.  Rotation writes *)
(* a new key, moves the pointer, and then retires the old key, which loses *)
(* its private part and stays published for the tokens it signed.          *)
(*                                                                         *)
(* Abstractions: a token is the key that signed it; claims, lifetimes and  *)
(* the cryptography are left out.                                          *)
(***************************************************************************)
EXTENDS CloudRequests

CONSTANTS Kids \* ids of signing keys

ASSUME KidsAssumption == NULL \notin Kids \cup {"current", "retired"}

VARIABLES
    signing, \* key records: "current" with a private part, "retired" without
    pointer, \* the key that signs
    signed,  \* history: keys that signed a token somebody was given
    purged   \* history: keys that a rotation was answered to have retired

signingVars == <<signing, pointer, signed, purged>>

InitSigning ==
    /\ signing = [k \in Kids |-> NULL]
    /\ pointer = NULL
    /\ signed = {}
    /\ purged = {}

\* verifyToken: a token is accepted when the record of its key is there.
Verifies(k) == signing[k] # NULL

\* publicJwks: the published keys.
Published == {k \in Kids : Verifies(k)}

UnusedKids == {k \in Kids :
    signing[k] = NULL /\ \A p \in Busy : "kid" \in DOMAIN proc[p] => proc[p].kid # k}

\* `op` is what the current key is wanted for, `prev` the key that a rotation retires.
Signer(pc, op, k, prev) == [pc |-> pc, op |-> op, kid |-> k, prev |-> prev]

-----------------------------------------------------------------------------

\* currentSigningKey: the key the pointer names is good, or a new one is made.
HasSigner == pointer # NULL /\ signing[pointer] = "current"

\* issueToken reads the current key and signs with its private part.
IssueToken(p) ==
    /\ \/ HasSigner /\ Begin(p, Signer("sign", "issue", pointer, NULL))
       \/ ~HasSigner /\ \E k \in UnusedKids : Begin(p, Signer("putSigner", "issue", k, NULL))
    /\ UNCHANGED signingVars

\* rotateSigningKeys begins with the current key, which it makes if there is none.
RotateSigningKeys(p) ==
    /\ \E k \in UnusedKids : Begin(p, IF HasSigner THEN Signer("putSigner", "rotate", k, pointer)
                                                   ELSE Signer("putSigner", "first", k, NULL))
    /\ UNCHANGED signingVars

PutSigner(p) ==
    /\ proc[p].pc = "putSigner"
    /\ Write(signing' = [signing EXCEPT ![proc[p].kid] = "current"], UNCHANGED signing,
             GoTo(p, "point"), Finish(p))
    /\ UNCHANGED <<pointer, signed, purged>>

Point(p) ==
    /\ proc[p].pc = "point"
    /\ Write(pointer' = proc[p].kid, UNCHANGED pointer,
             CASE proc[p].op = "issue" -> GoTo(p, "sign")
               [] proc[p].op = "first" -> GoTo(p, "again")
               [] OTHER -> GoTo(p, "retire"),
             Finish(p))
    /\ UNCHANGED <<signing, signed, purged>>

\* A rotation that had to make a first key goes on to replace it.
RotateFirst(p) ==
    /\ proc[p].pc = "again"
    /\ \E k \in UnusedKids : proc' = [proc EXCEPT ![p] = Signer("putSigner", "rotate", k, @.kid)]
    /\ UNCHANGED <<requests, faults, overlapped, lateEffect, signingVars>>

\* Mutant of Retire: the record is removed, with its public part.
RetireWhole(p) ==
    /\ proc[p].pc = "retire"
    /\ Write(signing' = [signing EXCEPT ![proc[p].prev] = NULL], UNCHANGED signing,
             purged' = purged \cup {proc[p].prev}, UNCHANGED purged)
    /\ Finish(p)
    /\ UNCHANGED <<pointer, signed>>

Retire(p) ==
    /\ proc[p].pc = "retire"
    /\ Write(signing' = [signing EXCEPT ![proc[p].prev] = "retired"], UNCHANGED signing,
             purged' = purged \cup {proc[p].prev}, UNCHANGED purged)
    /\ Finish(p)
    /\ UNCHANGED <<pointer, signed>>

\* The answer carries the token.
Sign(p) ==
    /\ proc[p].pc = "sign"
    /\ signed' = signed \cup {proc[p].kid}
    /\ Finish(p)
    /\ UNCHANGED <<requests, faults, overlapped, lateEffect, signing, pointer, purged>>

SigningStart(p) == RotateSigningKeys(p)

SigningStep(p) == PutSigner(p) \/ Point(p) \/ RotateFirst(p) \/ Retire(p) \/ Sign(p)

-----------------------------------------------------------------------------
(* Properties *)

\* A token that was issued verifies for as long as it lives, also after rotations, and
\* a rotation that was answered did purge the private part it says it did.
TokensSurviveRotation ==
    /\ signed \subseteq Published
    /\ \A k \in purged : signing[k] = "retired"

=============================================================================
