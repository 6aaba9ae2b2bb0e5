----------------------------- MODULE AuthStore -----------------------------
(***************************************************************************)
(* The state behind the auth API: the two tables of the auth repository    *)
(* (users, refresh_tokens), the tokens the usecase mints, and the HTTP     *)
(* requests being handled.  The operators are the repository calls and the *)
(* usecase's token helpers; the modules Sessions, TwoFactor and OAuth make *)
(* one action of every repository call of a handler out of them.           *)
(*                                                                         *)
(* A request is handled once, so what it mints is named after it: the hash *)
(* of its refresh token, its access token, its 2FA token and its TOTP      *)
(* secret are all "those of r".  rand.Text, rand.Read and uuid.NewV4 never *)
(* repeat a value, and neither does a name.                                *)
(*                                                                         *)
(* A definition whose comment starts with "Variant" is no part of the      *)
(* model: it is the definition below it with a plausible bug, kept to show *)
(* that a property notices.                                                *)
(***************************************************************************)
EXTENDS Naturals, FiniteSets

CONSTANTS
    Requests,       \* requests the server handles, numbered as they arrive
    Logins,         \* the values of users.login (and of users.email)
    Registered,     \* logins with a password account when the model starts
    Enrolled,       \* those of them with two-factor sign-in switched on
    Passwords,
    WeakPasswords,  \* the passwords validatePassword turns down
    Ops,            \* the operations clients call in this instance
    MaxInFlight,    \* how many requests may be handled at once
    Faults,         \* TRUE: any call may fail, and any answer may be lost
    AccessTTL, TwoFactorTTL, RefreshTTL,   \* token.go, in ticks
    MaxTime,        \* bound on the clock
    FirstSecret,    \* the TOTP secret of the Enrolled accounts
    NoSecret,       \* users.totp_secret = ''
    NoPassword      \* users.password_hash IS NULL

ASSUME RequestsAssumption ==
    /\ Requests \subseteq Nat
    /\ IsFiniteSet(Requests)

ASSUME AccountsAssumption ==
    /\ Registered \subseteq Logins
    /\ Enrolled \subseteq Registered
    /\ WeakPasswords \subseteq Passwords
    /\ NoPassword \notin Passwords

ASSUME SecretsAssumption ==
    /\ FirstSecret \notin Requests
    /\ NoSecret \notin Requests
    /\ NoSecret # FirstSecret

ASSUME TimesAssumption ==
    /\ AccessTTL \in Nat \ {0}
    /\ TwoFactorTTL \in Nat \ {0}
    /\ RefreshTTL \in Nat \ {0}
    /\ MaxTime \in Nat

ASSUME BoundsAssumption ==
    /\ MaxInFlight \in Nat
    /\ Faults \in BOOLEAN

VARIABLES
    users,          \* the table users, by login
    refreshTokens,  \* the token hashes in the table refresh_tokens
    tokens,         \* what each request minted; a row of refresh_tokens is
                    \* never updated, so its columns are kept here too
    req,            \* the input of each request
    pc,             \* the call each request makes next, or how it ended
    now,            \* time.Now()
    revoked         \* history: sessions a logout or a password change ended

vars == <<users, refreshTokens, tokens, req, pc, now, revoked>>

----------------------------------------------------------------------------
(***************************************************************************)
(* Types                                                                   *)
(***************************************************************************)

Secrets == Requests \cup {FirstSecret, NoSecret}

User == [exists: BOOLEAN, external: BOOLEAN,
         password: Passwords \cup {NoPassword},
         secret: Secrets, enabled: BOOLEAN]

NoUser == [exists |-> FALSE, external |-> FALSE, password |-> NoPassword,
           secret |-> NoSecret, enabled |-> FALSE]

\* A row CreateUser inserts: 2FA is off.
NewUser(external, password) ==
    [exists |-> TRUE, external |-> external, password |-> password,
     secret |-> NoSecret, enabled |-> FALSE]

\* Signed in: an access token and, with it, a refresh token.  session is a
\* history field: the request that opened the session the tokens belong to.
AuthTokens == [audience: {"access"}, user: Logins, session: Requests,
               expiresAt: Nat, refreshExpiresAt: Nat]

\* Half signed in: the password was right, the TOTP code is still missing.
TwoFactorTokens == [audience: {"2fa"}, user: Logins, expiresAt: Nat]

NoTokens == [audience |-> "none"]

Input ==
    [op: {"none"}]
    \cup [op: {"SignUp", "SignIn"}, user: Logins, password: Passwords]
    \cup [op: {"Refresh", "Logout"}, token: Requests]
    \cup [op: {"ChangePassword"}, token: Requests, user: Logins,
          oldPassword: Passwords, newPassword: Passwords]
    \cup [op: {"Generate2FA"}, token: Requests, user: Logins]
    \cup [op: {"Enable2FA", "Disable2FA", "VerifyTwoFactor"},
          token: Requests, user: Logins, code: Secrets]
    \cup [op: {"GitHubCallback"}, user: Logins, vouched: BOOLEAN]

NoInput == [op |-> "none"]

\* The labels of a request in hand: the repository call it makes next.
Working == {"create", "read", "update", "sweep", "delete", "mint",
            "challenge", "write", "set", "unset", "erase", "reply"}

Label == Working \cup {"idle", "done", "rejected", "dropped"}

TypeOK ==
    /\ users \in [Logins -> User]
    /\ refreshTokens \subseteq Requests
    /\ tokens \in [Requests -> AuthTokens \cup TwoFactorTokens \cup {NoTokens}]
    /\ req \in [Requests -> Input]
    /\ pc \in [Requests -> Label]
    /\ now \in Nat
    /\ revoked \subseteq [session: Requests, at: Nat]

StoreInit ==
    /\ \E password \in [Registered -> Passwords \ WeakPasswords] :
          users = [l \in Logins |->
                     IF l \in Registered
                     THEN [exists |-> TRUE, external |-> FALSE,
                           password |-> password[l],
                           secret |-> IF l \in Enrolled THEN FirstSecret ELSE NoSecret,
                           enabled |-> l \in Enrolled]
                     ELSE NoUser]
    /\ refreshTokens = {}
    /\ tokens = [r \in Requests |-> NoTokens]
    /\ req = [r \in Requests |-> NoInput]
    /\ pc = [r \in Requests |-> "idle"]
    /\ now = 0
    /\ revoked = {}

----------------------------------------------------------------------------
(***************************************************************************)
(* Requests                                                                *)
(***************************************************************************)

InFlight == {r \in Requests : pc[r] \in Working}

\* What a client can put in a cookie: the tokens of an answer it received.
Presentable == {r \in Requests : pc[r] = "done" /\ tokens[r] # NoTokens}

\* The secrets a client can compute a code from: the one it enrolled with, the
\* ones whose QR code it received, and the empty one, which anyone knows.
KnownSecrets ==
    {FirstSecret, NoSecret}
    \cup {r \in Requests : pc[r] = "done" /\ req[r].op = "Generate2FA"}

\* A request arrives; its handler runs up to its first repository call, or to
\* an answer that needs none ("rejected").
Admit(r, input, next) ==
    /\ pc[r] = "idle"
    /\ input.op \in Ops
    /\ \A q \in Requests : q < r => pc[q] # "idle"
    /\ Cardinality(InFlight) < MaxInFlight
    /\ req' = [req EXCEPT ![r] = input]
    /\ pc' = [pc EXCEPT ![r] = next]
    /\ UNCHANGED <<users, refreshTokens, tokens, now, revoked>>

At(r, op, label) == req[r].op = op /\ pc[r] = label

Goto(r, next) ==
    /\ pc' = [pc EXCEPT ![r] = next]
    /\ UNCHANGED <<req, now>>

\* Variant: any token the server signed passes for any other.
ParseTokenAnyAudience(t, audience) == tokens[t] # NoTokens /\ now < tokens[t].expiresAt

\* parseToken: the signature is the server's own, the audience is the one
\* asked for, and the token has not expired.
ParseToken(t, audience) == tokens[t].audience = audience /\ now < tokens[t].expiresAt

----------------------------------------------------------------------------
(***************************************************************************)
(* Repository calls: one SQL statement each                                *)
(***************************************************************************)

CreateUser(login, user) ==
    /\ ~users[login].exists
    /\ users' = [users EXCEPT ![login] = user]

ReadUserByLogin(login) == users[login].exists

\* Only createOAuthUser fills users.email, and it fills users.login with it too.
ReadUserByEmail(email) == users[email].exists /\ users[email].external

UpdatePassword(login, password) ==
    users' = [users EXCEPT ![login].password = password]

UpdateTOTPSecret(login, secret) ==
    users' = [users EXCEPT ![login].secret = secret]

Set2FAStatus(login, enabled) ==
    users' = [users EXCEPT ![login].enabled = enabled]

\* Variant: the row is looked up and stays in the table.
DeleteRefreshTokenKept(hash) == hash \in refreshTokens /\ UNCHANGED refreshTokens

\* Variant: nobody looks whether the row of a signed token was there.
DeleteRefreshTokenBlind(hash) ==
    /\ tokens[hash].audience = "access"
    /\ refreshTokens' = refreshTokens \ {hash}

\* One DELETE ... RETURNING: the row is there and gone in the same step.
DeleteRefreshToken(hash) ==
    /\ hash \in refreshTokens
    /\ refreshTokens' = refreshTokens \ {hash}

RowsOf(login) == {h \in refreshTokens : tokens[h].user = login}

DeleteUserRefreshTokens(login) == refreshTokens' = refreshTokens \ RowsOf(login)

\* The history of the sessions whose row one of the two calls above removed
\* for good.
Revoke(rows) ==
    revoked' = revoked \cup {[session |-> tokens[h].session, at |-> now] : h \in rows}

----------------------------------------------------------------------------
(***************************************************************************)
(* Token helpers of the usecase                                            *)
(***************************************************************************)

\* checkCode: the code is one computed from the secret.  The code of one secret
\* is not that of another; the empty secret has a code like any other.
CheckCode(secret, code) == secret = code

\* createTokens: sign the access token, insert the row of the refresh token.
CreateTokens(r, login, session) ==
    /\ tokens' = [tokens EXCEPT ![r] =
                    [audience |-> "access", user |-> login, session |-> session,
                     expiresAt |-> now + AccessTTL,
                     refreshExpiresAt |-> now + RefreshTTL]]
    /\ refreshTokens' = refreshTokens \cup {r}

\* startSession up to its next repository call: full tokens straight away, or
\* a 2FA token when the account, as it was read, asks for a code.
StartSession(user) == IF user.enabled THEN "challenge" ELSE "mint"

\* createTokens of every handler but Refresh: a new session.
OpenSession(r) ==
    /\ pc[r] = "mint"
    /\ req[r].op # "Refresh"
    /\ CreateTokens(r, req[r].user, r)
    /\ Goto(r, "reply")
    /\ UNCHANGED <<users, revoked>>

\* Variant: the 2FA token is signed without an expiry.
ChallengeForever(r) ==
    /\ pc[r] = "challenge"
    /\ tokens' = [tokens EXCEPT ![r] = [audience |-> "2fa", user |-> req[r].user]]
    /\ Goto(r, "reply")
    /\ UNCHANGED <<users, refreshTokens, revoked>>

\* startSession when the account asks for a code: nothing is stored.
Challenge(r) ==
    /\ pc[r] = "challenge"
    /\ tokens' = [tokens EXCEPT ![r] =
                    [audience |-> "2fa", user |-> req[r].user,
                     expiresAt |-> now + TwoFactorTTL]]
    /\ Goto(r, "reply")
    /\ UNCHANGED <<users, refreshTokens, revoked>>

----------------------------------------------------------------------------
(***************************************************************************)
(* The environment of a request                                            *)
(***************************************************************************)

\* The answer, cookies included, reaches the client.
Reply(r) ==
    /\ pc[r] = "reply"
    /\ Goto(r, "done")
    /\ UNCHANGED <<users, refreshTokens, tokens, revoked>>

\* A repository call fails, the client hangs up (which cancels the context of
\* every later call), the process dies, or the answer is lost: the handler
\* stops where it is.  No handler undoes what its earlier calls stored.
Drop(r) ==
    /\ Faults
    /\ pc[r] \in Working
    /\ Goto(r, "dropped")
    /\ UNCHANGED <<users, refreshTokens, tokens, revoked>>

Tick ==
    /\ now < MaxTime
    /\ now' = now + 1
    /\ UNCHANGED <<users, refreshTokens, tokens, req, pc, revoked>>
=============================================================================
