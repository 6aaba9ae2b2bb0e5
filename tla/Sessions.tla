------------------------------ MODULE Sessions ------------------------------
(***************************************************************************)
(* SignUp, SignIn, Refresh, Logout and ChangePassword.  A session is a     *)
(* chain of token pairs: opened by a sign-in, carried on by Refresh, which *)
(* trades the refresh token for a new pair, ended by Logout or by a        *)
(* password change.                                                        *)
(***************************************************************************)
EXTENDS AuthStore

Strong(password) == password \notin WeakPasswords

\* verifyPassword: a stored hash stands for the password it was made from.  A
\* missing hash verifies for none.
VerifyPassword(password, hash) == hash = password

\* SignUp: validate, insert the account, open a session.
SignUpBegin(r) ==
    \E login \in Logins, password \in Passwords :
        Admit(r, [op |-> "SignUp", user |-> login, password |-> password],
              IF Strong(password) THEN "create" ELSE "rejected")

SignUpCreate(r) ==
    /\ At(r, "SignUp", "create")
    /\ CreateUser(req[r].user, NewUser(FALSE, req[r].password))
    /\ Goto(r, "mint")
    /\ UNCHANGED <<refreshTokens, tokens, revoked>>

SignUpConflict(r) ==
    /\ At(r, "SignUp", "create")
    /\ users[req[r].user].exists
    /\ Goto(r, "rejected")
    /\ UNCHANGED <<users, refreshTokens, tokens, revoked>>

\* SignIn: everything is decided on the account as it was read.
SignInBegin(r) ==
    \E login \in Logins, password \in Passwords :
        Admit(r, [op |-> "SignIn", user |-> login, password |-> password], "read")

SignInRead(r) ==
    LET user == users[req[r].user]
        accepted == /\ ReadUserByLogin(req[r].user)
                    /\ ~user.external
                    /\ VerifyPassword(req[r].password, user.password)
    IN  /\ At(r, "SignIn", "read")
        /\ Goto(r, IF accepted THEN StartSession(user) ELSE "rejected")
        /\ UNCHANGED <<users, refreshTokens, tokens, revoked>>

\* Refresh: take the row out of the table, check its age, mint the next pair.
RefreshBegin(r) ==
    \E t \in Presentable : Admit(r, [op |-> "Refresh", token |-> t], "delete")

RefreshDelete(r) ==
    /\ At(r, "Refresh", "delete")
    /\ DeleteRefreshToken(req[r].token)
    /\ Goto(r, "mint")
    /\ UNCHANGED <<users, tokens, revoked>>

RefreshUnknown(r) ==
    /\ At(r, "Refresh", "delete")
    /\ req[r].token \notin refreshTokens
    /\ Goto(r, "rejected")
    /\ UNCHANGED <<users, refreshTokens, tokens, revoked>>

\* time.Now().After(expiresAt): a token is still good in the tick it expires.
RefreshMint(r) ==
    LET old == tokens[req[r].token]
    IN  /\ At(r, "Refresh", "mint")
        /\ now <= old.refreshExpiresAt
        /\ CreateTokens(r, old.user, old.session)
        /\ Goto(r, "reply")
        /\ UNCHANGED <<users, revoked>>

RefreshExpired(r) ==
    /\ At(r, "Refresh", "mint")
    /\ now > tokens[req[r].token].refreshExpiresAt
    /\ Goto(r, "rejected")
    /\ UNCHANGED <<users, refreshTokens, tokens, revoked>>

\* Logout answers 200 whether or not the row was there.
LogoutBegin(r) ==
    \E t \in Presentable : Admit(r, [op |-> "Logout", token |-> t], "delete")

LogoutDelete(r) ==
    /\ At(r, "Logout", "delete")
    /\ DeleteRefreshToken(req[r].token)
    /\ Revoke({req[r].token})
    /\ Goto(r, "reply")
    /\ UNCHANGED <<users, tokens>>

LogoutUnknown(r) ==
    /\ At(r, "Logout", "delete")
    /\ req[r].token \notin refreshTokens
    /\ Goto(r, "reply")
    /\ UNCHANGED <<users, refreshTokens, tokens, revoked>>

\* ChangePassword: three statements and no transaction around them.
ChangePasswordBegin(r) ==
    \E t \in Presentable, old, new \in Passwords :
        Admit(r, [op |-> "ChangePassword", token |-> t, user |-> tokens[t].user,
                  oldPassword |-> old, newPassword |-> new],
              IF ParseToken(t, "access") /\ Strong(new) THEN "read" ELSE "rejected")

ChangePasswordRead(r) ==
    LET user == users[req[r].user]
        accepted == ~user.external /\ VerifyPassword(req[r].oldPassword, user.password)
    IN  /\ At(r, "ChangePassword", "read")
        /\ Goto(r, IF accepted THEN "update" ELSE "rejected")
        /\ UNCHANGED <<users, refreshTokens, tokens, revoked>>

ChangePasswordUpdate(r) ==
    /\ At(r, "ChangePassword", "update")
    /\ UpdatePassword(req[r].user, req[r].newPassword)
    /\ Goto(r, "sweep")
    /\ UNCHANGED <<refreshTokens, tokens, revoked>>

ChangePasswordSweep(r) ==
    /\ At(r, "ChangePassword", "sweep")
    /\ DeleteUserRefreshTokens(req[r].user)
    /\ Revoke(RowsOf(req[r].user))
    /\ Goto(r, "mint")
    /\ UNCHANGED <<users, tokens>>

SessionsStep(r) ==
    \/ SignUpBegin(r) \/ SignUpCreate(r) \/ SignUpConflict(r)
    \/ SignInBegin(r) \/ SignInRead(r)
    \/ RefreshBegin(r) \/ RefreshDelete(r) \/ RefreshUnknown(r)
    \/ RefreshMint(r) \/ RefreshExpired(r)
    \/ LogoutBegin(r) \/ LogoutDelete(r) \/ LogoutUnknown(r)
    \/ ChangePasswordBegin(r) \/ ChangePasswordRead(r)
    \/ ChangePasswordUpdate(r) \/ ChangePasswordSweep(r)
=============================================================================
