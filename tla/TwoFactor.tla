----------------------------- MODULE TwoFactor -----------------------------
(***************************************************************************)
(* Generate2FA, Enable2FA, Disable2FA and VerifyTwoFactor.  The account    *)
(* keeps a secret and a switch, written by separate statements: generating *)
(* stores a secret, enabling turns the switch on for a right code,         *)
(* disabling turns it off and then erases the secret.                      *)
(***************************************************************************)
EXTENDS AuthStore

\* The three operations behind the access cookie: the middleware puts the user
\* of the access token in the context, or answers 401.
Authenticated(t) == IF ParseToken(t, "access") THEN "read" ELSE "rejected"

\* Generate2FA: refuse when the account, as it was read, has 2FA on; otherwise
\* store a new secret.
Generate2FABegin(r) ==
    \E t \in Presentable :
        Admit(r, [op |-> "Generate2FA", token |-> t, user |-> tokens[t].user],
              Authenticated(t))

\* Variant: the switch is not looked at.
Generate2FAReadUnchecked(r) ==
    /\ At(r, "Generate2FA", "read")
    /\ Goto(r, "write")
    /\ UNCHANGED <<users, refreshTokens, tokens, revoked>>

Generate2FARead(r) ==
    /\ At(r, "Generate2FA", "read")
    /\ Goto(r, IF users[req[r].user].enabled THEN "rejected" ELSE "write")
    /\ UNCHANGED <<users, refreshTokens, tokens, revoked>>

Generate2FAWrite(r) ==
    /\ At(r, "Generate2FA", "write")
    /\ UpdateTOTPSecret(req[r].user, r)
    /\ Goto(r, "reply")
    /\ UNCHANGED <<refreshTokens, tokens, revoked>>

\* Enable2FA: a secret must be there and the code must be one of its codes.
\* The statement that follows turns the switch on, whatever happened since.
Enable2FABegin(r) ==
    \E t \in Presentable, code \in KnownSecrets :
        Admit(r, [op |-> "Enable2FA", token |-> t, user |-> tokens[t].user,
                  code |-> code],
              Authenticated(t))

Enable2FARead(r) ==
    LET secret == users[req[r].user].secret
        accepted == secret # NoSecret /\ CheckCode(secret, req[r].code)
    IN  /\ At(r, "Enable2FA", "read")
        /\ Goto(r, IF accepted THEN "set" ELSE "rejected")
        /\ UNCHANGED <<users, refreshTokens, tokens, revoked>>

Enable2FASet(r) ==
    /\ At(r, "Enable2FA", "set")
    /\ Set2FAStatus(req[r].user, TRUE)
    /\ Goto(r, "reply")
    /\ UNCHANGED <<refreshTokens, tokens, revoked>>

\* Disable2FA: the switch first, then the secret.
Disable2FABegin(r) ==
    \E t \in Presentable, code \in KnownSecrets :
        Admit(r, [op |-> "Disable2FA", token |-> t, user |-> tokens[t].user,
                  code |-> code],
              Authenticated(t))

RightCode(r) ==
    LET user == users[req[r].user]
    IN  user.enabled /\ CheckCode(user.secret, req[r].code)

Disable2FARead(r) ==
    /\ At(r, "Disable2FA", "read")
    /\ Goto(r, IF RightCode(r) THEN "unset" ELSE "rejected")
    /\ UNCHANGED <<users, refreshTokens, tokens, revoked>>

Disable2FAUnset(r) ==
    /\ At(r, "Disable2FA", "unset")
    /\ Set2FAStatus(req[r].user, FALSE)
    /\ Goto(r, "erase")
    /\ UNCHANGED <<refreshTokens, tokens, revoked>>

Disable2FAErase(r) ==
    /\ At(r, "Disable2FA", "erase")
    /\ UpdateTOTPSecret(req[r].user, NoSecret)
    /\ Goto(r, "reply")
    /\ UNCHANGED <<refreshTokens, tokens, revoked>>

\* VerifyTwoFactor: the second half of a sign-in.  The 2FA token is a signed
\* token like the access token, with an audience of its own; nothing marks it
\* as used.
VerifyBegin(r) ==
    \E t \in Presentable, code \in KnownSecrets :
        Admit(r, [op |-> "VerifyTwoFactor", token |-> t, user |-> tokens[t].user,
                  code |-> code],
              IF ParseToken(t, "2fa") THEN "read" ELSE "rejected")

VerifyRead(r) ==
    /\ At(r, "VerifyTwoFactor", "read")
    /\ Goto(r, IF RightCode(r) THEN "mint" ELSE "rejected")
    /\ UNCHANGED <<users, refreshTokens, tokens, revoked>>

TwoFactorStep(r) ==
    \/ Generate2FABegin(r) \/ Generate2FARead(r) \/ Generate2FAWrite(r)
    \/ Enable2FABegin(r) \/ Enable2FARead(r) \/ Enable2FASet(r)
    \/ Disable2FABegin(r) \/ Disable2FARead(r)
    \/ Disable2FAUnset(r) \/ Disable2FAErase(r)
    \/ VerifyBegin(r) \/ VerifyRead(r)
=============================================================================
