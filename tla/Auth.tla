-------------------------------- MODULE Auth --------------------------------
(***************************************************************************)
(* The auth component: every operation of the auth usecase that touches    *)
(* accounts or tokens, over the tables they share.  Requests interleave at *)
(* their repository calls; each of them may be cut short after any call.   *)
(***************************************************************************)
EXTENDS Sessions, TwoFactor, OAuth

Step(r) ==
    \/ SessionsStep(r)
    \/ TwoFactorStep(r)
    \/ OAuthStep(r)
    \/ OpenSession(r)
    \/ Challenge(r)
    \/ Reply(r)
    \/ Drop(r)

\* No request is being handled: the server waits.
Quiescent == InFlight = {} /\ UNCHANGED vars

Next ==
    \/ \E r \in Requests : Step(r)
    \/ Tick
    \/ Quiescent

Spec == StoreInit /\ [][Next]_vars

----------------------------------------------------------------------------
(***************************************************************************)
(* Sessions                                                                *)
(***************************************************************************)

Minted(r) == tokens[r].audience = "access"

\* A refresh that has spent the old token and not stored the next one yet.
Renewing(r) == At(r, "Refresh", "mint")

\* A refresh that has spent its token: it is renewing or has renewed.
Redeemed(r) == Renewing(r) \/ (req[r].op = "Refresh" /\ Minted(r))

LiveRows(s) == {h \in refreshTokens : tokens[h].session = s}

Renewals(s) == {r \in Requests : Renewing(r) /\ tokens[req[r].token].session = s}

\* Whatever can carry the session on: a row of the table, or a refresh that
\* has taken the row out.
Holders(s) == LiveRows(s) \cup Renewals(s)

\* However requests interleave and fail, a session has at most one row or
\* pending renewal: two refreshes never fork it (Refresh, DeleteRefreshToken).
OneCredential ==
    \A s \in Requests : \A a, b \in Holders(s) : a = b

\* A refresh token is traded at most once, also when two requests present it
\* at the same time ("401: already used", docs/openapi.yaml:89).
RefreshOnce ==
    \A a, b \in Requests :
        (Redeemed(a) /\ Redeemed(b) /\ req[a].token = req[b].token) => a = b

\* A session whose row a logout or a password change removed is never carried
\* on again, whoever still holds one of its old tokens (Logout, ChangePassword).
RevokedStaysDead ==
    \A v \in revoked : Holders(v.session) = {}

\* Access tokens are not stored and cannot be revoked; the last one of a
\* revoked session dies at most AccessTTL after the revocation (createTokens).
AccessWindow ==
    \A v \in revoked, r \in Requests :
        (Minted(r) /\ tokens[r].session = v.session)
            => tokens[r].expiresAt <= v.at + AccessTTL

\* The sign-in a request's tokens go back to: the one that opened the session,
\* or the half sign-in that a VerifyTwoFactor completed.
Origin(r) ==
    LET s == IF Minted(r) THEN tokens[r].session ELSE r
    IN  IF req[s].op = "VerifyTwoFactor" THEN req[s].token ELSE s

\* An account made by GitHub is only ever entered through GitHub, and an
\* account with a password never is, even when somebody signs up under the
\* address GitHub vouches for (SignIn, HandleOAuthCallback, createOAuthUser).
ProviderOnly ==
    \A r \in Requests :
        tokens[r] # NoTokens =>
            (users[tokens[r].user].external <=> req[Origin(r)].op = "GitHubCallback")

----------------------------------------------------------------------------
(***************************************************************************)
(* Two-factor sign-in                                                      *)
(***************************************************************************)

\* Nobody gets an access token of an account with 2FA on before someone gave a
\* code of its secret: neither a half sign-in nor its 2FA token opens any other
\* door (startSession, parseToken, VerifyTwoFactor).
CodeBeforeSession ==
    \A r \in Requests :
        (Minted(r) /\ tokens[r].user \in Enrolled) =>
            \E v \in Requests :
                /\ req[v].op = "VerifyTwoFactor"
                /\ Minted(v)
                /\ tokens[v].user = tokens[r].user
                /\ req[v].code = FirstSecret

----------------------------------------------------------------------------
(***************************************************************************)
(* Password changes                                                        *)
(***************************************************************************)

\* The password given when the session was opened.
PasswordBehind(s) ==
    LET origin == req[Origin(s)]
    IN  IF origin.op = "ChangePassword" THEN origin.newPassword ELSE origin.password

\* With no request in hand, every session of a password account was opened
\* with its present password: a change logs all the other devices out
\* (docs/openapi.yaml:125).  A sign-in that overlaps the change breaks it.
OthersLoggedOut ==
    InFlight = {} =>
        \A h \in refreshTokens :
            LET l == tokens[h].user
            IN  ~users[l].external => PasswordBehind(tokens[h].session) = users[l].password

----------------------------------------------------------------------------
(***************************************************************************)
(* The component implements SessionLifecycle                               *)
(***************************************************************************)

Opened(s) == Minted(s) /\ tokens[s].session = s

PhaseOf(s) ==
    IF ~Opened(s) THEN "none"
    ELSE IF LiveRows(s) # {} THEN "live"
    ELSE IF Renewals(s) # {} THEN "renewing"
    ELSE "ended"

phase == [s \in Requests |-> PhaseOf(s)]

OwnerOf(s) == IF Opened(s) THEN tokens[s].user ELSE NoPassword

owner == [s \in Requests |-> OwnerOf(s)]

Lifecycle == INSTANCE SessionLifecycle
                 WITH Sessions <- Requests, Owners <- Logins, Nobody <- NoPassword

\* Every step of the component opens, renews or ends a session as
\* SessionLifecycle allows, or leaves all of them alone.
ImplementsLifecycle == Lifecycle!Spec
=============================================================================
