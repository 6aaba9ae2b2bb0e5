--------------------------- MODULE AuthInduction ---------------------------
(***************************************************************************)
(* The inductive invariants behind the theorems of AuthProofs: why the     *)
(* properties of Auth hold, in a form every single step preserves.         *)
(***************************************************************************)
EXTENDS Auth

\* Tokens are minted for the user of the request, or, by a refresh, for the user
\* of the old pair; no other request gets that far.
MintsForSomeone ==
    \A r \in Requests :
        /\ pc[r] = "mint" => req[r].op \notin {"none", "Logout"}
        /\ pc[r] = "challenge" => req[r].op \notin {"none", "Logout", "Refresh"}

\* Why the types hold: TypeOK, strengthened until every step preserves it.
TypeInv == TypeOK /\ MintsForSomeone

\* A request mints last: what it minted, it can only hand out.
MintedLast ==
    \A r \in Requests : tokens[r] # NoTokens => pc[r] \in {"reply", "done", "dropped"}

\* The rows of refresh_tokens belong to minted pairs.
RowsMinted == \A h \in refreshTokens : Minted(h)

\* A pair belongs to a session some request opened, for the same user.
PairsRooted ==
    \A r \in Requests :
        Minted(r) => /\ Opened(tokens[r].session)
                     /\ tokens[tokens[r].session].user = tokens[r].user

\* What a refresh has spent is a minted pair whose row is gone.
SpentIsGone ==
    \A r \in Requests :
        Redeemed(r) => Minted(req[r].token) /\ req[r].token \notin refreshTokens

\* Only sessions that were opened are revoked.
RevokedOpened == \A v \in revoked : Opened(v.session)

\* An access token never outlives its time by the present clock.
FreshBound ==
    \A r \in Requests : Minted(r) => tokens[r].expiresAt <= now + AccessTTL

\* A session is carried by one thread only, and by none once it is revoked.
SessionInv ==
    /\ TypeInv
    /\ MintedLast
    /\ RowsMinted
    /\ PairsRooted
    /\ SpentIsGone
    /\ RefreshOnce
    /\ OneCredential
    /\ RevokedOpened
    /\ RevokedStaysDead
    /\ FreshBound
    /\ AccessWindow

----------------------------------------------------------------------------

\* A right code of the first secret has opened a session of the account.
CodeGiven(l) ==
    \E v \in Requests :
        /\ req[v].op = "VerifyTwoFactor"
        /\ Minted(v)
        /\ tokens[v].user = l
        /\ req[v].code = FirstSecret

\* How far a request for an account can get while no code of it was given.
StopsShort(input, label) ==
    \/ label \in {"rejected", "dropped"}
    \/ input.op = "SignUp" /\ label = "create"
    \/ input.op = "SignIn" /\ label \in {"read", "challenge", "reply", "done"}
    \/ input.op = "GitHubCallback" /\ label \in {"read", "create"}
    \/ input.op = "VerifyTwoFactor" /\ label = "read"
    \/ input.op = "VerifyTwoFactor" /\ label = "mint" /\ input.code = FirstSecret

About(input, l) == input.op \notin {"none", "Refresh", "Logout"} /\ input.user = l

\* An account that has been kept locked since the start.
Locked(l) ==
    /\ users[l].exists /\ ~users[l].external
    /\ users[l].enabled /\ users[l].secret = FirstSecret
    /\ \A r \in Requests : Minted(r) => tokens[r].user # l
    /\ \A r \in Requests : About(req[r], l) => StopsShort(req[r], pc[r])

\* An enrolled account stays locked until a code of its secret is given.
LockedUntilCode == \A l \in Enrolled : CodeGiven(l) \/ Locked(l)
----------------------------------------------------------------------------

\* Request r enters account l, which is there, the way its owner does: through
\* GitHub if GitHub made it, and in no case otherwise.
OwnDoor(r, l) ==
    /\ users[l].exists
    /\ users[l].external <=> req[Origin(r)].op = "GitHubCallback"

\* Why a request that got this far entered by its own door: half a sign-in is a
\* SignIn's or a callback's, a VerifyTwoFactor holds the half it completes, and
\* a ChangePassword has found a password.
Entered(r) ==
    /\ tokens[r] # NoTokens => OwnDoor(r, tokens[r].user)
    /\ pc[r] \in {"mint", "challenge"} /\ req[r].op # "Refresh" => OwnDoor(r, req[r].user)
    /\ tokens[r].audience = "2fa" \/ pc[r] = "challenge" =>
          req[r].op \in {"SignIn", "GitHubCallback"}
    /\ req[r].op = "VerifyTwoFactor" /\ pc[r] # "rejected" =>
          /\ tokens[req[r].token].audience = "2fa"
          /\ tokens[req[r].token].user = req[r].user
    /\ req[r].op = "ChangePassword" =>
          /\ users[req[r].user].exists
          /\ pc[r] \in {"update", "sweep"} => ~users[req[r].user].external

ProviderInv == \A r \in Requests : Entered(r)
=============================================================================
