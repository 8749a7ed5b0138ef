----------------------------- MODULE ControlPlane -----------------------------
(***************************************************************************)
(* The services behind /api/projects, /api/auth and /p together: projects, *)
(* credentials, signing keys and public links share the handlers and the   *)
(* index.  A token is issued to the bearer of a credential that            *)
(* authenticates (functions/api/auth/token.js).                            *)
(***************************************************************************)
EXTENDS Credentials, SigningKeys, CollectionShares

registryVars == <<projectVars, credVars>>
vars == <<requestVars, registryVars, signingVars, shareVars>>

Init ==
    /\ InitRequests
    /\ InitProjects
    /\ InitCredentials
    /\ InitSigning
    /\ InitShares

\* POST /api/auth/token: the bearer of an API key gets a token.
ExchangeToken(p) ==
    /\ \E c \in Creds : KeyAuthenticates(c)
    /\ IssueToken(p)

Next == \E p \in Procs :
    \/ (ProjectStart(p) \/ ProjectStep(p)) /\ UNCHANGED <<credVars, signingVars, shareVars>>
    \/ (CredentialStart(p) \/ CredentialStep(p)) /\ UNCHANGED <<projectVars, signingVars, shareVars>>
    \/ (ExchangeToken(p) \/ SigningStart(p) \/ SigningStep(p)) /\ UNCHANGED <<registryVars, shareVars>>
    \/ (ShareStart(p) \/ ShareStep(p)) /\ UNCHANGED <<registryVars, signingVars>>
    \/ Evict(p) /\ UNCHANGED <<registryVars, signingVars, shareVars>>

Spec == Init /\ [][Next]_vars

=============================================================================
