------------------------------- MODULE OAuth -------------------------------
(***************************************************************************)
(* GitHubCallback: GitHub sends the browser back with a code; the server   *)
(* trades it for a profile, finds or creates the account of the profile's  *)
(* email and opens a session.  The exchange with GitHub changes nothing    *)
(* here and is part of the arrival: vouched says whether the state is the  *)
(* one in the cookie and GitHub trades the code for a profile with an      *)
(* email.                                                                  *)
(***************************************************************************)
EXTENDS AuthStore

CONSTANT Emails     \* the emails of the profiles GitHub vouches for

ASSUME EmailsAssumption == Emails \subseteq Logins

CallbackBegin(r) ==
    \E email \in Emails, vouched \in BOOLEAN :
        Admit(r, [op |-> "GitHubCallback", user |-> email, vouched |-> vouched],
              IF vouched THEN "read" ELSE "rejected")

\* The account is looked up by email; when there is none it is created.
CallbackRead(r) ==
    LET email == req[r].user
    IN  /\ At(r, "GitHubCallback", "read")
        /\ Goto(r, IF ReadUserByEmail(email) THEN StartSession(users[email])
                                             ELSE "create")
        /\ UNCHANGED <<users, refreshTokens, tokens, revoked>>

\* createOAuthUser: the email is the login too, and there is no password.
CallbackCreate(r) ==
    /\ At(r, "GitHubCallback", "create")
    /\ CreateUser(req[r].user, NewUser(TRUE, NoPassword))
    /\ Goto(r, "mint")
    /\ UNCHANGED <<refreshTokens, tokens, revoked>>

\* The login is taken: by another callback since the read, or by a password
\* account that was signed up under that address.
CallbackConflict(r) ==
    /\ At(r, "GitHubCallback", "create")
    /\ users[req[r].user].exists
    /\ Goto(r, "rejected")
    /\ UNCHANGED <<users, refreshTokens, tokens, revoked>>

OAuthStep(r) ==
    \/ CallbackBegin(r) \/ CallbackRead(r)
    \/ CallbackCreate(r) \/ CallbackConflict(r)
=============================================================================
