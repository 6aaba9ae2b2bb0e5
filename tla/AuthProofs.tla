----------------------------- MODULE AuthProofs -----------------------------
(***************************************************************************)
(* Theorems about Auth, for every value of its constants: the types, the   *)
(* safety of sessions, and that Auth implements SessionLifecycle.          *)
(***************************************************************************)
EXTENDS AuthInduction, TLAPS

(***************************************************************************)
(* Types                                                                   *)
(***************************************************************************)

\* The user in a token a client presents is an account's login.
LEMMA PresentedUser ==
    ASSUME TypeOK, NEW t \in Presentable
    PROVE  t \in Requests /\ tokens[t].user \in Logins
  <1>1. t \in Requests /\ tokens[t] \in AuthTokens \cup TwoFactorTokens
    BY DEF TypeOK, Presentable
  <1>2. QED
    BY <1>1 DEF AuthTokens, TwoFactorTokens

\* A client's codes are computed from secrets.
LEMMA KnownSecretsType == KnownSecrets \subseteq Secrets
  BY DEF KnownSecrets, Secrets

\* Every request but these three kinds carries the login it is about.
LEMMA RequestUser ==
    ASSUME TypeOK, NEW r \in Requests, req[r].op \notin {"none", "Refresh", "Logout"}
    PROVE  req[r].user \in Logins
  <1>1. req[r] \in Input
    BY DEF TypeOK
  <1>2. QED
    BY <1>1 DEF Input

\* A request that arrives keeps the types.
LEMMA AdmitType ==
    ASSUME TypeInv, NEW r \in Requests, NEW input \in Input, NEW next \in Label,
           Admit(r, input, next), next \notin {"mint", "challenge"}
    PROVE  TypeInv'
  <1>1. TypeOK'
    BY DEF TypeInv, TypeOK, Admit
  <1>2. MintsForSomeone'
    BY DEF TypeInv, TypeOK, MintsForSomeone, Admit
  <1>3. QED
    BY <1>1, <1>2 DEF TypeInv

\* A step of a request in hand keeps the types if what it stores has its type.
LEMMA GotoType ==
    ASSUME TypeInv, NEW r \in Requests, NEW next \in Label, Goto(r, next),
           next = "mint" => req[r].op \notin {"none", "Logout"},
           next = "challenge" => req[r].op \notin {"none", "Logout", "Refresh"},
           users' \in [Logins -> User],
           refreshTokens' \subseteq Requests,
           tokens' \in [Requests -> AuthTokens \cup TwoFactorTokens \cup {NoTokens}],
           revoked' \subseteq [session: Requests, at: Nat]
    PROVE  TypeInv'
  <1>1. TypeOK'
    BY DEF TypeInv, TypeOK, Goto
  <1>2. MintsForSomeone'
    BY DEF TypeInv, TypeOK, MintsForSomeone, Goto
  <1>3. QED
    BY <1>1, <1>2 DEF TypeInv

\* The initial state is typed; accounts start with a strong password.
LEMMA TypeInit == StoreInit => TypeInv
  <1> SUFFICES ASSUME StoreInit PROVE TypeInv
    OBVIOUS
  <1>1. PICK password \in [Registered -> Passwords \ WeakPasswords] :
          users = [l \in Logins |->
                     IF l \in Registered
                     THEN [exists |-> TRUE, external |-> FALSE,
                           password |-> password[l],
                           secret |-> IF l \in Enrolled THEN FirstSecret ELSE NoSecret,
                           enabled |-> l \in Enrolled]
                     ELSE NoUser]
    BY DEF StoreInit
  <1>2. \A l \in Logins : users[l] \in User
    BY <1>1 DEF User, NoUser, Secrets
  <1>3. users \in [Logins -> User]
    BY <1>1, <1>2
  <1>4. NoInput \in Input
    BY DEF NoInput, Input
  <1>5. TypeOK
    BY <1>3, <1>4 DEF StoreInit, TypeOK, Label
  <1>6. MintsForSomeone
    BY DEF StoreInit, MintsForSomeone
  <1>7. QED
    BY <1>5, <1>6 DEF TypeInv

\* createTokens stores a well-formed pair.
LEMMA CreateTokensType ==
    ASSUME TypeOK, NEW r \in Requests, NEW l \in Logins, NEW s \in Requests,
           CreateTokens(r, l, s)
    PROVE  /\ refreshTokens' \subseteq Requests
           /\ tokens' \in [Requests -> AuthTokens \cup TwoFactorTokens \cup {NoTokens}]
  <1>1. now \in Nat /\ now + AccessTTL \in Nat /\ now + RefreshTTL \in Nat
    BY TimesAssumption DEF TypeOK
  <1>2. [audience |-> "access", user |-> l, session |-> s,
         expiresAt |-> now + AccessTTL, refreshExpiresAt |-> now + RefreshTTL] \in AuthTokens
    BY <1>1 DEF AuthTokens
  <1>3. QED
    BY <1>2 DEF TypeOK, CreateTokens

\* Ending the sessions of some rows records sessions.
LEMMA RevokeType ==
    ASSUME TypeOK, RowsMinted, NEW rows \in SUBSET refreshTokens, Revoke(rows)
    PROVE  revoked' \subseteq [session: Requests, at: Nat]
  <1>1. \A h \in rows : tokens[h].session \in Requests
    BY DEF TypeOK, RowsMinted, Minted, AuthTokens, TwoFactorTokens, NoTokens
  <1>2. QED
    BY <1>1 DEF TypeOK, Revoke

\* What a renewal took out of the table was a pair of some login and session.
LEMMA SpentType ==
    ASSUME TypeOK, SpentIsGone, NEW r \in Requests, Renewing(r)
    PROVE  /\ req[r].token \in Requests
           /\ tokens[req[r].token] \in AuthTokens
  <1>1. req[r] \in Input /\ req[r].op = "Refresh"
    BY DEF TypeOK, Renewing, At
  <1>2. req[r].token \in Requests
    BY <1>1 DEF Input
  <1>3. Minted(req[r].token)
    BY DEF SpentIsGone, Redeemed
  <1>4. QED
    BY <1>2, <1>3 DEF TypeOK, Minted, AuthTokens, TwoFactorTokens, NoTokens

\* The operations of Sessions keep the types.
LEMMA SessionsType ==
    ASSUME SessionInv, NEW r \in Requests, SessionsStep(r)
    PROVE  TypeInv'
  <1> USE DEF SessionInv, Label, Working
  <1>0. TypeInv /\ TypeOK
    BY DEF TypeInv
  <1>1. CASE SignUpBegin(r)
    <2>1. PICK login \in Logins, password \in Passwords :
            Admit(r, [op |-> "SignUp", user |-> login, password |-> password],
                  IF Strong(password) THEN "create" ELSE "rejected")
      BY <1>1 DEF SignUpBegin
    <2>2. [op |-> "SignUp", user |-> login, password |-> password] \in Input
      BY DEF Input
    <2>3. QED
      BY <1>0, <2>1, <2>2, AdmitType
  <1>2. CASE SignUpCreate(r)
    <2>1. req[r].user \in Logins /\ req[r].password \in Passwords
      BY <1>0, <1>2 DEF SignUpCreate, At, TypeOK, Input
    <2>2. users' \in [Logins -> User]
      BY <1>0, <1>2, <2>1 DEF SignUpCreate, CreateUser, NewUser, TypeOK, User, Secrets
    <2>3. QED
      BY <1>0, <1>2, <2>2, GotoType DEF SignUpCreate, At, TypeOK
  <1>3. CASE SignUpConflict(r)
    BY <1>0, <1>3, GotoType DEF SignUpConflict, At, TypeOK
  <1>4. CASE SignInBegin(r)
    <2>1. PICK login \in Logins, password \in Passwords :
            Admit(r, [op |-> "SignIn", user |-> login, password |-> password], "read")
      BY <1>4 DEF SignInBegin
    <2>2. [op |-> "SignIn", user |-> login, password |-> password] \in Input
      BY DEF Input
    <2>3. QED
      BY <1>0, <2>1, <2>2, AdmitType
  <1>5. CASE SignInRead(r)
    <2>1. PICK next \in {"challenge", "mint", "rejected"} : Goto(r, next)
      BY <1>5 DEF SignInRead, StartSession
    <2>2. QED
      BY <1>0, <1>5, <2>1, GotoType DEF SignInRead, At, TypeOK
  <1>6. CASE RefreshBegin(r)
    <2>1. PICK t \in Presentable : Admit(r, [op |-> "Refresh", token |-> t], "delete")
      BY <1>6 DEF RefreshBegin
    <2>2. [op |-> "Refresh", token |-> t] \in Input
      BY <1>0, PresentedUser DEF Input
    <2>3. QED
      BY <1>0, <2>1, <2>2, AdmitType
  <1>7. CASE RefreshDelete(r)
    BY <1>0, <1>7, GotoType DEF RefreshDelete, DeleteRefreshToken, At, TypeOK
  <1>8. CASE RefreshUnknown(r)
    BY <1>0, <1>8, GotoType DEF RefreshUnknown, At, TypeOK
  <1>9. CASE RefreshMint(r)
    <2>1. Renewing(r)
      BY <1>9 DEF RefreshMint, Renewing
    <2>2. /\ tokens[req[r].token].user \in Logins
          /\ tokens[req[r].token].session \in Requests
      BY <1>0, <2>1, SpentType DEF AuthTokens
    <2>3. /\ refreshTokens' \subseteq Requests
          /\ tokens' \in [Requests -> AuthTokens \cup TwoFactorTokens \cup {NoTokens}]
      BY <1>0, <1>9, <2>2, CreateTokensType DEF RefreshMint
    <2>4. QED
      BY <1>0, <1>9, <2>3, GotoType DEF RefreshMint, At, TypeOK
  <1>10. CASE RefreshExpired(r)
    BY <1>0, <1>10, GotoType DEF RefreshExpired, At, TypeOK
  <1>11. CASE LogoutBegin(r)
    <2>1. PICK t \in Presentable : Admit(r, [op |-> "Logout", token |-> t], "delete")
      BY <1>11 DEF LogoutBegin
    <2>2. [op |-> "Logout", token |-> t] \in Input
      BY <1>0, PresentedUser DEF Input
    <2>3. QED
      BY <1>0, <2>1, <2>2, AdmitType
  <1>12. CASE LogoutDelete(r)
    <2>1. revoked' \subseteq [session: Requests, at: Nat]
      BY <1>0, <1>12, RevokeType DEF LogoutDelete, DeleteRefreshToken
    <2>2. QED
      BY <1>0, <1>12, <2>1, GotoType DEF LogoutDelete, DeleteRefreshToken, At, TypeOK
  <1>13. CASE LogoutUnknown(r)
    BY <1>0, <1>13, GotoType DEF LogoutUnknown, At, TypeOK
  <1>14. CASE ChangePasswordBegin(r)
    <2>1. PICK t \in Presentable, old, new \in Passwords :
            Admit(r, [op |-> "ChangePassword", token |-> t, user |-> tokens[t].user,
                      oldPassword |-> old, newPassword |-> new],
                  IF ParseToken(t, "access") /\ Strong(new) THEN "read" ELSE "rejected")
      BY <1>14 DEF ChangePasswordBegin
    <2>2. [op |-> "ChangePassword", token |-> t, user |-> tokens[t].user,
           oldPassword |-> old, newPassword |-> new] \in Input
      BY <1>0, PresentedUser DEF Input
    <2>3. QED
      BY <1>0, <2>1, <2>2, AdmitType
  <1>15. CASE ChangePasswordRead(r)
    <2>1. PICK next \in {"update", "rejected"} : Goto(r, next)
      BY <1>15 DEF ChangePasswordRead
    <2>2. QED
      BY <1>0, <1>15, <2>1, GotoType DEF ChangePasswordRead, At, TypeOK
  <1>16. CASE ChangePasswordUpdate(r)
    <2>1. req[r].user \in Logins /\ req[r].newPassword \in Passwords
      BY <1>0, <1>16 DEF ChangePasswordUpdate, At, TypeOK, Input
    <2>2. users' \in [Logins -> User]
      BY <1>0, <1>16, <2>1 DEF ChangePasswordUpdate, UpdatePassword, TypeOK, User
    <2>3. QED
      BY <1>0, <1>16, <2>2, GotoType DEF ChangePasswordUpdate, At, TypeOK
  <1>17. CASE ChangePasswordSweep(r)
    <2>1. revoked' \subseteq [session: Requests, at: Nat]
      BY <1>0, <1>17, RevokeType DEF ChangePasswordSweep, RowsOf
    <2>2. QED
      BY <1>0, <1>17, <2>1, GotoType
      DEF ChangePasswordSweep, DeleteUserRefreshTokens, At, TypeOK
  <1>18. QED
    BY <1>1, <1>2, <1>3, <1>4, <1>5, <1>6, <1>7, <1>8, <1>9, <1>10, <1>11, <1>12,
       <1>13, <1>14, <1>15, <1>16, <1>17 DEF SessionsStep

\* The operations of TwoFactor keep the types.
LEMMA TwoFactorType ==
    ASSUME SessionInv, NEW r \in Requests, TwoFactorStep(r)
    PROVE  TypeInv'
  <1> USE DEF SessionInv, Label, Working
  <1>0. TypeInv /\ TypeOK
    BY DEF TypeInv
  <1>1. ASSUME NEW t \in Presentable, NEW code \in KnownSecrets,
               NEW op \in {"Enable2FA", "Disable2FA", "VerifyTwoFactor"},
               NEW next \in {"read", "rejected"},
               Admit(r, [op |-> op, token |-> t, user |-> tokens[t].user, code |-> code], next)
        PROVE  TypeInv'
    <2>1. [op |-> op, token |-> t, user |-> tokens[t].user, code |-> code] \in Input
      BY <1>0, PresentedUser, KnownSecretsType DEF Input
    <2>2. QED
      BY <1>0, <1>1, <2>1, AdmitType
  <1>2. CASE Generate2FABegin(r)
    <2>1. PICK t \in Presentable :
            Admit(r, [op |-> "Generate2FA", token |-> t, user |-> tokens[t].user],
                  Authenticated(t))
      BY <1>2 DEF Generate2FABegin
    <2>2. [op |-> "Generate2FA", token |-> t, user |-> tokens[t].user] \in Input
      BY <1>0, PresentedUser DEF Input
    <2>3. QED
      BY <1>0, <2>1, <2>2, AdmitType DEF Authenticated
  <1>3. CASE Generate2FARead(r)
    BY <1>0, <1>3, GotoType DEF Generate2FARead, At, TypeOK
  <1>4. CASE Generate2FAWrite(r)
    <2>1. req[r].user \in Logins /\ r \in Secrets
      BY <1>0, <1>4 DEF Generate2FAWrite, At, TypeOK, Input, Secrets
    <2>2. users' \in [Logins -> User]
      BY <1>0, <1>4, <2>1 DEF Generate2FAWrite, UpdateTOTPSecret, TypeOK, User
    <2>3. QED
      BY <1>0, <1>4, <2>2, GotoType DEF Generate2FAWrite, At, TypeOK
  <1>5. CASE Enable2FABegin(r)
    BY <1>1, <1>5 DEF Enable2FABegin, Authenticated
  <1>6. CASE Enable2FARead(r)
    <2>1. PICK next \in {"set", "rejected"} : Goto(r, next)
      BY <1>6 DEF Enable2FARead
    <2>2. QED
      BY <1>0, <1>6, <2>1, GotoType DEF Enable2FARead, At, TypeOK
  <1>7. CASE Enable2FASet(r)
    <2>1. req[r].user \in Logins
      BY <1>0, <1>7, RequestUser DEF Enable2FASet, At
    <2>2. users' \in [Logins -> User]
      BY <1>0, <1>7, <2>1 DEF Enable2FASet, Set2FAStatus, TypeOK, User
    <2>3. QED
      BY <1>0, <1>7, <2>2, GotoType DEF Enable2FASet, At, TypeOK
  <1>8. CASE Disable2FABegin(r)
    BY <1>1, <1>8 DEF Disable2FABegin, Authenticated
  <1>9. CASE Disable2FARead(r)
    <2>1. PICK next \in {"unset", "rejected"} : Goto(r, next)
      BY <1>9 DEF Disable2FARead
    <2>2. QED
      BY <1>0, <1>9, <2>1, GotoType DEF Disable2FARead, At, TypeOK
  <1>10. CASE Disable2FAUnset(r)
    <2>1. req[r].user \in Logins
      BY <1>0, <1>10, RequestUser DEF Disable2FAUnset, At
    <2>2. users' \in [Logins -> User]
      BY <1>0, <1>10, <2>1 DEF Disable2FAUnset, Set2FAStatus, TypeOK, User
    <2>3. QED
      BY <1>0, <1>10, <2>2, GotoType DEF Disable2FAUnset, At, TypeOK
  <1>11. CASE Disable2FAErase(r)
    <2>1. req[r].user \in Logins /\ NoSecret \in Secrets
      BY <1>0, <1>11, RequestUser DEF Disable2FAErase, At, Secrets
    <2>2. users' \in [Logins -> User]
      BY <1>0, <1>11, <2>1 DEF Disable2FAErase, UpdateTOTPSecret, TypeOK, User
    <2>3. QED
      BY <1>0, <1>11, <2>2, GotoType DEF Disable2FAErase, At, TypeOK
  <1>12. CASE VerifyBegin(r)
    BY <1>1, <1>12 DEF VerifyBegin
  <1>13. CASE VerifyRead(r)
    <2>1. PICK next \in {"mint", "rejected"} : Goto(r, next)
      BY <1>13 DEF VerifyRead
    <2>2. QED
      BY <1>0, <1>13, <2>1, GotoType DEF VerifyRead, At, TypeOK
  <1>14. QED
    BY <1>2, <1>3, <1>4, <1>5, <1>6, <1>7, <1>8, <1>9, <1>10, <1>11, <1>12, <1>13
    DEF TwoFactorStep

\* The GitHub callback keeps the types.
LEMMA OAuthType ==
    ASSUME SessionInv, NEW r \in Requests, OAuthStep(r)
    PROVE  TypeInv'
  <1> USE DEF SessionInv, Label, Working
  <1>0. TypeInv /\ TypeOK
    BY DEF TypeInv
  <1>1. CASE CallbackBegin(r)
    <2>1. PICK email \in Emails, vouched \in BOOLEAN :
            Admit(r, [op |-> "GitHubCallback", user |-> email, vouched |-> vouched],
                  IF vouched THEN "read" ELSE "rejected")
      BY <1>1 DEF CallbackBegin
    <2>2. [op |-> "GitHubCallback", user |-> email, vouched |-> vouched] \in Input
      BY EmailsAssumption DEF Input
    <2>3. QED
      BY <1>0, <2>1, <2>2, AdmitType
  <1>2. CASE CallbackRead(r)
    <2>1. PICK next \in {"mint", "challenge", "create"} : Goto(r, next)
      BY <1>2 DEF CallbackRead, StartSession
    <2>2. QED
      BY <1>0, <1>2, <2>1, GotoType DEF CallbackRead, At, TypeOK
  <1>3. CASE CallbackCreate(r)
    <2>1. req[r].user \in Logins
      BY <1>0, <1>3, RequestUser DEF CallbackCreate, At
    <2>2. users' \in [Logins -> User]
      BY <1>0, <1>3, <2>1 DEF CallbackCreate, CreateUser, NewUser, TypeOK, User, Secrets
    <2>3. QED
      BY <1>0, <1>3, <2>2, GotoType DEF CallbackCreate, At, TypeOK
  <1>4. CASE CallbackConflict(r)
    BY <1>0, <1>4, GotoType DEF CallbackConflict, At, TypeOK
  <1>5. QED
    BY <1>1, <1>2, <1>3, <1>4 DEF OAuthStep

\* Every step of the component keeps the types.
LEMMA TypeStep == SessionInv /\ [Next]_vars => TypeInv'
  <1> SUFFICES ASSUME SessionInv, [Next]_vars PROVE TypeInv'
    OBVIOUS
  <1> USE DEF Label, Working
  <1>0. TypeInv /\ TypeOK
    BY DEF SessionInv, TypeInv
  <1>1. ASSUME NEW r \in Requests, Step(r) PROVE TypeInv'
    <2>1. CASE SessionsStep(r)
      BY <2>1, SessionsType
    <2>2. CASE TwoFactorStep(r)
      BY <2>2, TwoFactorType
    <2>3. CASE OAuthStep(r)
      BY <2>3, OAuthType
    <2>4. CASE OpenSession(r)
      <3>1. req[r].op \notin {"none", "Refresh", "Logout"}
        BY <1>0, <2>4 DEF OpenSession, TypeInv, MintsForSomeone
      <3>2. req[r].user \in Logins
        BY <1>0, <3>1, RequestUser
      <3>3. /\ refreshTokens' \subseteq Requests
            /\ tokens' \in [Requests -> AuthTokens \cup TwoFactorTokens \cup {NoTokens}]
        BY <1>0, <2>4, <3>2, CreateTokensType DEF OpenSession
      <3>4. QED
        BY <1>0, <2>4, <3>3, GotoType DEF OpenSession, TypeOK
    <2>5. CASE Challenge(r)
      <3>1. req[r].op \notin {"none", "Refresh", "Logout"}
        BY <1>0, <2>5 DEF Challenge, TypeInv, MintsForSomeone
      <3>2. req[r].user \in Logins /\ now + TwoFactorTTL \in Nat
        BY <1>0, <3>1, RequestUser, TimesAssumption DEF TypeOK
      <3>3. [audience |-> "2fa", user |-> req[r].user, expiresAt |-> now + TwoFactorTTL]
              \in TwoFactorTokens
        BY <3>2 DEF TwoFactorTokens
      <3>4. tokens' \in [Requests -> AuthTokens \cup TwoFactorTokens \cup {NoTokens}]
        BY <1>0, <2>5, <3>3 DEF Challenge, TypeOK
      <3>5. QED
        BY <1>0, <2>5, <3>4, GotoType DEF Challenge, TypeOK
    <2>6. CASE Reply(r)
      BY <1>0, <2>6, GotoType DEF Reply, TypeOK
    <2>7. CASE Drop(r)
      BY <1>0, <2>7, GotoType DEF Drop, TypeOK
    <2>8. QED
      BY <1>1, <2>1, <2>2, <2>3, <2>4, <2>5, <2>6, <2>7 DEF Step
  <1>2. CASE Tick
    BY <1>0, <1>2 DEF Tick, TypeInv, TypeOK, MintsForSomeone
  <1>3. CASE Quiescent \/ UNCHANGED vars
    BY <1>0, <1>3 DEF Quiescent, vars, TypeInv, TypeOK, MintsForSomeone
  <1>4. QED
    BY <1>1, <1>2, <1>3 DEF Next

----------------------------------------------------------------------------
(***************************************************************************)
(* Sessions                                                                *)
(***************************************************************************)

\* A step that leaves the tokens, their rows and the history alone, and starts
\* no renewal.
LocalStep ==
    /\ UNCHANGED <<tokens, refreshTokens, revoked>>
    /\ now' >= now
    /\ MintedLast'
    /\ \A q \in Requests : Renewing(q)' => Renewing(q)
    /\ \A q \in Requests : Redeemed(q)' => Redeemed(q)
    /\ \A q \in Requests : Redeemed(q)' => req'[q].token = req[q].token

\* Such a step disturbs none of the session invariants.
LEMMA LocalInv ==
    ASSUME SessionInv, TypeInv', LocalStep
    PROVE  SessionInv'
  <1> USE DEF SessionInv
  <1>1. \A q \in Requests : Minted(q)' = Minted(q) /\ Opened(q)' = Opened(q)
    BY DEF LocalStep, Minted, Opened
  <1>2. RowsMinted' /\ RevokedOpened'
    BY <1>1 DEF LocalStep, RowsMinted, RevokedOpened, Minted, Opened
  <1>3. PairsRooted'
    BY <1>1 DEF LocalStep, PairsRooted, Minted, Opened
  <1>4. SpentIsGone'
    BY DEF LocalStep, SpentIsGone, Minted
  <1>5. RefreshOnce'
    BY DEF LocalStep, RefreshOnce
  <1>6. \A q \in Requests : Renewing(q) => Redeemed(q)
    BY DEF Redeemed
  <1>7. \A q \in Requests : Renewing(q)' => Redeemed(q)'
    BY DEF Redeemed
  <1>8. \A s : Holders(s)' \subseteq Holders(s)
    BY <1>6, <1>7 DEF LocalStep, Holders, LiveRows, Renewals
  <1>9. OneCredential'
    BY <1>8 DEF OneCredential
  <1>10. RevokedStaysDead'
    BY <1>8 DEF LocalStep, RevokedStaysDead
  <1>11. FreshBound'
    <2>1. ASSUME NEW q \in Requests, Minted(q)' PROVE tokens'[q].expiresAt <= now' + AccessTTL
      <3>1. Minted(q) /\ tokens[q].expiresAt <= now + AccessTTL
        BY <1>1, <2>1 DEF FreshBound
      <3>2. tokens[q].expiresAt \in Nat
        BY <3>1 DEF TypeInv, TypeOK, Minted, AuthTokens, TwoFactorTokens, NoTokens
      <3>3. now \in Nat /\ now' \in Nat /\ AccessTTL \in Nat /\ now' >= now /\ tokens' = tokens
        BY TimesAssumption DEF TypeInv, TypeOK, LocalStep
      <3>4. QED
        BY <3>1, <3>2, <3>3
    <2>2. QED
      BY <2>1 DEF FreshBound
  <1>12. AccessWindow'
    BY <1>1 DEF LocalStep, AccessWindow, Minted
  <1>13. QED
    BY <1>2, <1>3, <1>4, <1>5, <1>9, <1>10, <1>11, <1>12 DEF LocalStep

\* A request's arrival is such a step ...
LEMMA AdmitLocal ==
    ASSUME SessionInv, NEW r \in Requests, NEW input, NEW next,
           Admit(r, input, next), next # "mint"
    PROVE  LocalStep
  <1> USE DEF SessionInv
  <1>1. TypeOK /\ now \in Nat
    BY DEF TypeInv, TypeOK
  <1>2. tokens[r] = NoTokens
    BY DEF Admit, MintedLast
  <1>3. \A q \in Requests : q # r => pc'[q] = pc[q] /\ req'[q] = req[q]
    BY <1>1 DEF TypeOK, Admit
  <1>4. pc'[r] = next
    BY <1>1 DEF TypeOK, Admit
  <1>5. MintedLast'
    BY <1>2, <1>3 DEF MintedLast, Admit
  <1>6. ~Renewing(r)' /\ ~Redeemed(r)'
    BY <1>2, <1>4 DEF Renewing, Redeemed, Minted, At, Admit, NoTokens
  <1>7. \A q \in Requests : q # r => Renewing(q)' = Renewing(q) /\ Redeemed(q)' = Redeemed(q)
    BY <1>3 DEF Renewing, Redeemed, Minted, At, Admit
  <1>8. QED
    BY <1>1, <1>3, <1>5, <1>6, <1>7 DEF LocalStep, Admit

\* ... and so is most of its progress.
LEMMA GotoLocal ==
    ASSUME SessionInv, NEW r \in Requests, NEW next, Goto(r, next),
           UNCHANGED <<tokens, refreshTokens, revoked>>,
           next = "mint" => req[r].op # "Refresh",
           pc[r] \in {"reply", "done", "dropped"} => next \in {"reply", "done", "dropped"}
    PROVE  LocalStep
  <1> USE DEF SessionInv
  <1>1. TypeOK /\ now \in Nat
    BY DEF TypeInv, TypeOK
  <1>2. pc' = [pc EXCEPT ![r] = next] /\ req' = req /\ now' = now
    BY DEF Goto
  <1>3. \A q \in Requests : q # r => pc'[q] = pc[q]
    BY <1>1, <1>2 DEF TypeOK
  <1>4. pc'[r] = next
    BY <1>1, <1>2 DEF TypeOK
  <1>5. MintedLast'
    BY <1>3, <1>4 DEF MintedLast
  <1>6. \A q \in Requests : Renewing(q)' => Renewing(q)
    BY <1>2, <1>3, <1>4 DEF Renewing, At
  <1>7. \A q \in Requests : Redeemed(q)' => Redeemed(q)
    BY <1>2, <1>6 DEF Redeemed, Minted
  <1>8. QED
    BY <1>1, <1>2, <1>5, <1>6, <1>7 DEF LocalStep

\* The parts of the invariant that speak of one pair are kept when rows are
\* deleted and no pair is minted.
LEMMA DeleteKeeps ==
    ASSUME SessionInv, UNCHANGED <<tokens, now>>, refreshTokens' \subseteq refreshTokens
    PROVE  /\ \A q \in Requests : Minted(q)' = Minted(q) /\ Opened(q)' = Opened(q)
           /\ RowsMinted' /\ PairsRooted' /\ FreshBound'
           /\ \A s : LiveRows(s)' \subseteq LiveRows(s)
  <1>1. \A q \in Requests : Minted(q)' = Minted(q) /\ Opened(q)' = Opened(q)
    BY DEF Minted, Opened
  <1>2. RowsMinted'
    BY DEF SessionInv, RowsMinted, Minted
  <1>3. PairsRooted'
    BY DEF SessionInv, PairsRooted, Minted, Opened
  <1>4. FreshBound'
    BY DEF SessionInv, FreshBound, Minted
  <1>5. \A s : LiveRows(s)' \subseteq LiveRows(s)
    BY DEF LiveRows
  <1>6. QED
    BY <1>1, <1>2, <1>3, <1>4, <1>5

\* Refresh takes the row out: the session passes from the row to the request.
LEMMA RefreshDeleteInv ==
    ASSUME SessionInv, TypeInv', NEW r \in Requests, RefreshDelete(r)
    PROVE  SessionInv'
  <1> USE DEF SessionInv
  <1> DEFINE t == req[r].token
  <1>1. TypeOK /\ pc[r] = "delete" /\ req[r].op = "Refresh"
    BY DEF TypeInv, RefreshDelete, At
  <1>2. t \in refreshTokens /\ refreshTokens' = refreshTokens \ {t}
    BY DEF RefreshDelete, DeleteRefreshToken
  <1>3. UNCHANGED <<tokens, now, req, revoked>> /\ pc' = [pc EXCEPT ![r] = "mint"]
    BY DEF RefreshDelete, Goto
  <1>4. \A q \in Requests : q # r => pc'[q] = pc[q]
    BY <1>1, <1>3 DEF TypeOK
  <1>5. pc'[r] = "mint"
    BY <1>1, <1>3 DEF TypeOK
  <1>6. tokens[r] = NoTokens
    BY <1>1 DEF MintedLast
  <1>7. t \in Requests /\ Minted(t)
    BY <1>1, <1>2 DEF TypeOK, RowsMinted
  <1>8. /\ \A q \in Requests : Minted(q)' = Minted(q) /\ Opened(q)' = Opened(q)
        /\ RowsMinted' /\ PairsRooted' /\ FreshBound'
        /\ \A s : LiveRows(s)' \subseteq LiveRows(s)
    BY <1>2, <1>3, DeleteKeeps
  <1>9. \A q \in Requests : q # r => Renewing(q)' = Renewing(q) /\ Redeemed(q)' = Redeemed(q)
    BY <1>3, <1>4, <1>8 DEF Renewing, Redeemed, At
  <1>10. Renewing(r)' /\ Redeemed(r)' /\ ~Renewing(r) /\ ~Redeemed(r)
    BY <1>1, <1>3, <1>5, <1>6 DEF Renewing, Redeemed, At, Minted, NoTokens
  <1>11. MintedLast'
    BY <1>3, <1>4, <1>6 DEF MintedLast
  <1>12. SpentIsGone'
    <2>1. ASSUME NEW q \in Requests, Redeemed(q)'
          PROVE  Minted(req[q].token)' /\ req[q].token \notin refreshTokens'
      <3>1. CASE q = r
        BY <1>2, <1>3, <1>7, <3>1 DEF Minted
      <3>2. CASE q # r
        BY <1>2, <1>3, <1>9, <2>1, <3>2 DEF SpentIsGone, Minted
      <3>3. QED
        BY <3>1, <3>2
    <2>2. QED
      BY <1>3, <2>1 DEF SpentIsGone
  <1>13. RefreshOnce'
    <2>1. \A q \in Requests : (q # r /\ Redeemed(q)') => req[q].token # t
      BY <1>2, <1>9 DEF SpentIsGone
    <2>2. QED
      BY <1>3, <1>9, <2>1 DEF RefreshOnce
  <1>14. PICK session \in Requests : session = tokens[t].session
    BY <1>1, <1>7 DEF TypeOK, Minted, AuthTokens, TwoFactorTokens, NoTokens
  <1>15. t \in Holders(session)
    BY <1>2, <1>14 DEF Holders, LiveRows
  <1>16. \A h \in Holders(session) : h = t
    BY <1>15 DEF OneCredential
  <1>17. \A s : s # session => Holders(s)' \subseteq Holders(s)
    BY <1>3, <1>8, <1>9, <1>14 DEF Holders, Renewals
  <1>18. Holders(session)' \subseteq {r}
    <2>1. LiveRows(session)' = {}
      BY <1>2, <1>8, <1>16 DEF Holders, LiveRows
    <2>2. Renewals(session) = {}
      <3>1. pc[t] # "mint"
        BY <1>7 DEF MintedLast, Minted, NoTokens
      <3>2. QED
        BY <1>16, <3>1 DEF Holders, Renewals, Renewing, At
    <2>3. Renewals(session)' \subseteq {r}
      BY <1>3, <1>9, <2>2 DEF Renewals
    <2>4. QED
      BY <2>1, <2>3 DEF Holders
  <1>19. OneCredential'
    <2>1. ASSUME NEW s \in Requests, NEW a \in Holders(s)', NEW b \in Holders(s)'
          PROVE  a = b
      <3>1. CASE s = session
        BY <1>18, <3>1
      <3>2. CASE s # session
        BY <1>17, <3>2 DEF OneCredential
      <3>3. QED
        BY <3>1, <3>2
    <2>2. QED
      BY <2>1 DEF OneCredential
  <1>20. RevokedOpened' /\ AccessWindow'
    BY <1>3 DEF RevokedOpened, AccessWindow, Minted, Opened
  <1>21. RevokedStaysDead'
    <2>1. \A v \in revoked : v.session # session
      BY <1>15 DEF RevokedStaysDead
    <2>2. QED
      BY <1>3, <1>17, <2>1 DEF RevokedStaysDead
  <1>22. QED
    BY <1>8, <1>11, <1>12, <1>13, <1>19, <1>20, <1>21

\* Logout and ChangePassword delete rows for good and record their sessions.
LEMMA RevokeInv ==
    ASSUME SessionInv, TypeInv', NEW r \in Requests, NEW next,
           NEW rows \in SUBSET refreshTokens, refreshTokens' = refreshTokens \ rows,
           Revoke(rows), Goto(r, next), UNCHANGED tokens,
           pc[r] \in {"delete", "sweep"}, next = "mint" => req[r].op # "Refresh"
    PROVE  SessionInv'
  <1> USE DEF SessionInv
  <1>1. TypeOK /\ tokens[r] = NoTokens
    BY DEF TypeInv, MintedLast
  <1>2. UNCHANGED <<tokens, now, req>> /\ pc' = [pc EXCEPT ![r] = next]
    BY DEF Goto
  <1>3. /\ \A q \in Requests : q # r => pc'[q] = pc[q]
        /\ pc'[r] = next
    BY <1>1, <1>2 DEF TypeOK
  <1>4. /\ \A q \in Requests : Minted(q)' = Minted(q) /\ Opened(q)' = Opened(q)
        /\ RowsMinted' /\ PairsRooted' /\ FreshBound'
        /\ \A s : LiveRows(s)' \subseteq LiveRows(s)
    BY <1>2, DeleteKeeps
  <1>5. \A q \in Requests : Renewing(q)' = Renewing(q)
    BY <1>2, <1>3 DEF Renewing, At
  <1>6. \A q \in Requests : Redeemed(q)' = Redeemed(q)
    BY <1>2, <1>4, <1>5 DEF Redeemed
  <1>7. MintedLast'
    BY <1>1, <1>2, <1>3 DEF MintedLast
  <1>8. SpentIsGone'
    BY <1>2, <1>6 DEF SpentIsGone, Minted
  <1>9. RefreshOnce'
    BY <1>2, <1>6 DEF RefreshOnce
  <1>10. \A s : Holders(s)' \subseteq Holders(s)
    BY <1>2, <1>4, <1>5 DEF Holders, Renewals
  <1>11. OneCredential'
    BY <1>10 DEF OneCredential
  <1>12. ASSUME NEW v \in revoked'
         PROVE  \/ v \in revoked
                \/ \E h \in rows : v = [session |-> tokens[h].session, at |-> now]
    BY <1>12 DEF Revoke
  <1>13. ASSUME NEW h \in rows
         PROVE  /\ h \in Requests /\ tokens[h].session \in Requests
                /\ Opened(tokens[h].session)
                /\ Holders(tokens[h].session)' = {}
    <2>1. h \in Requests /\ h \in refreshTokens /\ Minted(h)
      BY <1>1 DEF TypeOK, RowsMinted
    <2>2. PICK s \in Requests : s = tokens[h].session
      BY <1>1, <2>1 DEF TypeOK, Minted, AuthTokens, TwoFactorTokens, NoTokens
    <2>3. h \in Holders(s)
      BY <2>1, <2>2 DEF Holders, LiveRows
    <2>4. \A x \in Holders(s)' : x = h
      BY <1>10, <2>3 DEF OneCredential
    <2>5. pc'[h] # "mint"
      BY <1>2, <1>3, <1>4, <2>1, <1>7 DEF MintedLast, Minted, NoTokens
    <2>6. h \notin Holders(s)'
      BY <2>5 DEF Holders, LiveRows, Renewals, Renewing, At
    <2>7. Holders(s)' = {}
      BY <2>4, <2>6
    <2>8. Opened(s)
      BY <2>1, <2>2 DEF PairsRooted
    <2>9. s = tokens'[h].session
      BY <1>2, <2>2
    <2>10. QED
      BY <2>1, <2>2, <2>7, <2>8, <2>9
  <1>14. RevokedOpened'
    <2>1. ASSUME NEW v \in revoked' PROVE Opened(v.session)
      BY <1>12, <1>13 DEF RevokedOpened
    <2>2. QED
      BY <1>2, <2>1 DEF RevokedOpened, Opened, Minted
  <1>15. RevokedStaysDead'
    <2>1. ASSUME NEW v \in revoked' PROVE Holders(v.session)' = {}
      <3>1. CASE v \in revoked
        BY <1>10, <3>1 DEF RevokedStaysDead
      <3>2. CASE \E h \in rows : v = [session |-> tokens[h].session, at |-> now]
        <4>1. PICK h \in rows : v.session = tokens[h].session
          BY <3>2
        <4>2. Holders(tokens[h].session)' = {}
          BY <1>13
        <4>3. tokens[h].session' = tokens[h].session
          BY <1>2
        <4>4. QED
          BY <1>2, <4>1, <4>2, <4>3
      <3>3. QED
        BY <1>12, <3>1, <3>2
    <2>2. QED
      BY <2>1 DEF RevokedStaysDead
  <1>16. AccessWindow'
    <2>1. ASSUME NEW v \in revoked', NEW q \in Requests,
                 Minted(q), tokens[q].session = v.session
          PROVE  tokens[q].expiresAt <= v.at + AccessTTL
      <3>1. CASE v \in revoked
        BY <2>1, <3>1 DEF AccessWindow
      <3>2. CASE \E h \in rows : v = [session |-> tokens[h].session, at |-> now]
        BY <2>1, <3>2 DEF FreshBound
      <3>3. QED
        BY <1>12, <3>1, <3>2
    <2>2. QED
      BY <1>2, <2>1 DEF AccessWindow, Minted
  <1>17. QED
    BY <1>4, <1>7, <1>8, <1>9, <1>11, <1>14, <1>15, <1>16

\* A pair is minted: for a session that starts with it, or by the refresh that
\* carries its session.
LEMMA MintInv ==
    ASSUME SessionInv, TypeInv', NEW r \in Requests, NEW l \in Logins, NEW s \in Requests,
           pc[r] = "mint", CreateTokens(r, l, s), Goto(r, "reply"), UNCHANGED revoked,
           s = r \/ (Opened(s) /\ tokens[s].user = l),
           Holders(s) \subseteq {r},
           \A v \in revoked : v.session # s
    PROVE  SessionInv'
  <1> USE DEF SessionInv
  <1>1. TypeOK /\ tokens[r] = NoTokens /\ r \notin refreshTokens
    BY DEF TypeInv, MintedLast, RowsMinted, Minted, NoTokens
  <1>2. UNCHANGED <<now, req>> /\ pc' = [pc EXCEPT ![r] = "reply"]
    BY DEF Goto
  <1>3. /\ \A q \in Requests : q # r => pc'[q] = pc[q]
        /\ pc'[r] = "reply"
    BY <1>1, <1>2 DEF TypeOK
  <1>4. /\ refreshTokens' = refreshTokens \cup {r}
        /\ \A q \in Requests : q # r => tokens'[q] = tokens[q]
    BY <1>1 DEF CreateTokens, TypeOK
  <1>5. /\ tokens'[r].audience = "access" /\ tokens'[r].user = l
        /\ tokens'[r].session = s /\ tokens'[r].expiresAt = now + AccessTTL
    BY <1>1 DEF CreateTokens, TypeOK
  <1>6. ~Minted(r) /\ Minted(r)'
    BY <1>1, <1>5 DEF Minted, NoTokens
  <1>7. \A q \in Requests : q # r => Minted(q)' = Minted(q) /\ Opened(q)' = Opened(q)
    BY <1>4 DEF Minted, Opened
  <1>8. \A q \in Requests : Renewing(q)' = (Renewing(q) /\ q # r)
    BY <1>2, <1>3 DEF Renewing, At
  <1>9. \A q \in Requests : Redeemed(q)' = Redeemed(q)
    <2>1. ASSUME NEW q \in Requests, q # r PROVE Redeemed(q)' = Redeemed(q)
      BY <1>2, <1>7, <1>8, <2>1 DEF Redeemed
    <2>2. Redeemed(r)' = Redeemed(r)
      BY <1>2, <1>6, <1>8 DEF Redeemed, Renewing, At
    <2>3. QED
      BY <2>1, <2>2
  <1>10. \A q \in Requests : Redeemed(q) => req[q].token # r
    BY <1>6 DEF SpentIsGone
  <1>11. MintedLast'
    BY <1>3, <1>4 DEF MintedLast
  <1>12. RowsMinted'
    BY <1>1, <1>4, <1>6, <1>7 DEF RowsMinted, TypeOK
  <1>13. PairsRooted'
    <2>1. ASSUME NEW q \in Requests, Minted(q)'
          PROVE  (Opened(tokens[q].session) /\ tokens[tokens[q].session].user = tokens[q].user)'
      <3>1. CASE q = r
        <4>1. CASE s = r
          BY <1>5, <1>6, <3>1, <4>1 DEF Opened
        <4>2. CASE s # r
          <5>1. Opened(s)' /\ tokens'[s].user = l
            BY <1>4, <1>7, <4>2
          <5>2. QED
            BY <1>5, <3>1, <5>1 DEF Opened, Minted
        <4>3. QED
          BY <4>1, <4>2
      <3>2. CASE q # r
        <4>1. Minted(q) /\ tokens'[q] = tokens[q]
          BY <1>4, <1>7, <2>1, <3>2
        <4>2. Opened(tokens[q].session) /\ tokens[tokens[q].session].user = tokens[q].user
          BY <4>1 DEF PairsRooted
        <4>3. tokens[q].session \in Requests
          BY <1>1, <4>1 DEF TypeOK, Minted, AuthTokens, TwoFactorTokens, NoTokens
        <4>4. tokens[q].session # r
          BY <1>6, <4>2 DEF Opened
        <4>5. tokens'[tokens[q].session] = tokens[tokens[q].session]
          BY <1>4, <4>3, <4>4
        <4>6. QED
          BY <4>1, <4>2, <4>5 DEF Opened, Minted
      <3>3. QED
        BY <3>1, <3>2
    <2>2. QED
      BY <2>1 DEF PairsRooted
  <1>14. SpentIsGone'
    <2>1. ASSUME NEW q \in Requests, Redeemed(q)
          PROVE  tokens'[req[q].token].audience = "access" /\ req[q].token \notin refreshTokens'
      <3>1. Minted(req[q].token) /\ req[q].token \notin refreshTokens /\ req[q].token # r
        BY <1>10, <2>1 DEF SpentIsGone
      <3>2. tokens'[req[q].token] = tokens[req[q].token]
        BY <1>1, <3>1 DEF CreateTokens, TypeOK
      <3>3. QED
        BY <1>4, <3>1, <3>2 DEF Minted
    <2>2. QED
      BY <1>2, <1>9, <2>1 DEF SpentIsGone, Minted
  <1>15. RefreshOnce'
    BY <1>2, <1>9 DEF RefreshOnce
  <1>16. ASSUME NEW x, x # s PROVE Holders(x)' \subseteq Holders(x)
    <2>1. LiveRows(x)' \subseteq LiveRows(x)
      BY <1>1, <1>4, <1>5, <1>16 DEF LiveRows, TypeOK
    <2>2. Renewals(x)' \subseteq Renewals(x)
      <3>1. \A q \in Requests : Renewing(q)' => Renewing(q) /\ Redeemed(q)
        BY <1>8 DEF Redeemed
      <3>2. \A q \in Requests : Renewing(q)' => tokens'[req[q].token] = tokens[req[q].token]
        BY <1>1, <1>10, <3>1 DEF CreateTokens, TypeOK
      <3>3. QED
        BY <1>2, <3>1, <3>2 DEF Renewals
    <2>3. QED
      BY <2>1, <2>2 DEF Holders
  <1>17. Holders(s)' \subseteq {r}
    <2>1. LiveRows(s)' \subseteq {r}
      BY <1>1, <1>4 DEF LiveRows, TypeOK, Holders
    <2>2. Renewals(s)' \subseteq {r}
      <3>1. \A q \in Requests : Renewing(q)' => Renewing(q) /\ Redeemed(q)
        BY <1>8 DEF Redeemed
      <3>2. \A q \in Requests : Renewing(q)' => tokens'[req[q].token] = tokens[req[q].token]
        BY <1>1, <1>10, <3>1 DEF CreateTokens, TypeOK
      <3>3. Renewals(s)' \subseteq Renewals(s)
        BY <1>2, <3>1, <3>2 DEF Renewals
      <3>4. QED
        BY <3>3 DEF Holders
    <2>3. QED
      BY <2>1, <2>2 DEF Holders
  <1>18. OneCredential'
    <2>1. ASSUME NEW x \in Requests, NEW a \in Holders(x)', NEW b \in Holders(x)'
          PROVE  a = b
      <3>1. CASE x = s
        BY <1>17, <3>1
      <3>2. CASE x # s
        BY <1>16, <3>2 DEF OneCredential
      <3>3. QED
        BY <3>1, <3>2
    <2>2. QED
      BY <2>1 DEF OneCredential
  <1>19. RevokedOpened'
    <2>1. \A v \in revoked : v.session \in Requests /\ v.session # r
      BY <1>1, <1>6 DEF TypeOK, RevokedOpened, Opened
    <2>2. QED
      BY <1>7, <2>1 DEF RevokedOpened
  <1>20. RevokedStaysDead'
    BY <1>16 DEF RevokedStaysDead
  <1>21. FreshBound'
    <2>1. now \in Nat /\ now + AccessTTL <= now + AccessTTL
      BY <1>1, TimesAssumption DEF TypeOK
    <2>2. QED
      BY <1>2, <1>4, <1>5, <1>7, <2>1 DEF FreshBound
  <1>22. AccessWindow'
    <2>1. ASSUME NEW v \in revoked, NEW q \in Requests, Minted(q)', tokens'[q].session = v.session
          PROVE  tokens'[q].expiresAt <= v.at + AccessTTL
      <3>1. q # r
        BY <1>5, <2>1
      <3>2. QED
        BY <1>4, <1>7, <2>1, <3>1 DEF AccessWindow
    <2>2. QED
      BY <2>1 DEF AccessWindow
  <1>23. QED
    BY <1>11, <1>12, <1>13, <1>14, <1>15, <1>18, <1>19, <1>20, <1>21, <1>22

\* A sign-in that stops at the code mints no pair.
LEMMA ChallengeInv ==
    ASSUME SessionInv, TypeInv', NEW r \in Requests, Challenge(r)
    PROVE  SessionInv'
  <1> USE DEF SessionInv
  <1>1. TypeOK /\ tokens[r] = NoTokens /\ r \notin refreshTokens /\ ~Minted(r)
    BY DEF TypeInv, MintedLast, RowsMinted, Minted, NoTokens, Challenge
  <1>2. /\ UNCHANGED <<now, req, refreshTokens, revoked>>
        /\ pc' = [pc EXCEPT ![r] = "reply"] /\ pc[r] = "challenge"
    BY DEF Goto, Challenge
  <1>3. /\ \A q \in Requests : q # r => pc'[q] = pc[q]
        /\ pc'[r] = "reply"
    BY <1>1, <1>2 DEF TypeOK
  <1>4. \A q \in Requests : q # r => tokens'[q] = tokens[q]
    BY <1>1 DEF Challenge, TypeOK
  <1>5. tokens'[r].audience = "2fa"
    BY <1>1 DEF Challenge, TypeOK
  <1>6. \A q \in Requests : Minted(q) => q # r /\ tokens'[q] = tokens[q]
    BY <1>1, <1>4
  <1>7. \A q \in Requests : Minted(q)' = Minted(q)
    BY <1>1, <1>4, <1>5 DEF Minted
  <1>8. \A q \in Requests : Opened(q)' = Opened(q)
    BY <1>6, <1>7 DEF Opened
  <1>9. \A q \in Requests : Renewing(q)' = Renewing(q)
    BY <1>2, <1>3 DEF Renewing, At
  <1>10. \A q \in Requests : Redeemed(q)' = Redeemed(q)
    BY <1>2, <1>7, <1>9 DEF Redeemed
  <1>11. ASSUME NEW q \in Requests, Redeemed(q)
         PROVE  tokens'[req[q].token] = tokens[req[q].token] /\ Minted(req[q].token)
    BY <1>1, <1>11 DEF SpentIsGone, Challenge, TypeOK
  <1>12. MintedLast'
    BY <1>3, <1>4 DEF MintedLast
  <1>13. RowsMinted'
    BY <1>1, <1>2, <1>7 DEF RowsMinted, TypeOK
  <1>14. PairsRooted'
    <2>1. ASSUME NEW q \in Requests, Minted(q)
          PROVE  (Opened(tokens[q].session) /\ tokens[tokens[q].session].user = tokens[q].user)'
      <3>1. Opened(tokens[q].session) /\ tokens[tokens[q].session].user = tokens[q].user
        BY <2>1 DEF PairsRooted
      <3>2. tokens[q].session \in Requests
        BY <1>1, <2>1 DEF TypeOK, Minted, AuthTokens, TwoFactorTokens, NoTokens
      <3>3. tokens'[q] = tokens[q] /\ tokens'[tokens[q].session] = tokens[tokens[q].session]
        BY <1>6, <2>1, <3>1, <3>2 DEF Opened
      <3>4. QED
        BY <3>1, <3>3 DEF Opened, Minted
    <2>2. QED
      BY <1>7, <2>1 DEF PairsRooted
  <1>15. SpentIsGone'
    BY <1>2, <1>10, <1>11 DEF SpentIsGone, Minted
  <1>16. RefreshOnce'
    BY <1>2, <1>10 DEF RefreshOnce
  <1>17. \A s : Holders(s)' \subseteq Holders(s)
    <2>1. \A s : LiveRows(s)' \subseteq LiveRows(s)
      BY <1>1, <1>2, <1>4 DEF LiveRows, TypeOK
    <2>2. \A s : Renewals(s)' \subseteq Renewals(s)
      BY <1>2, <1>9, <1>11 DEF Renewals, Redeemed
    <2>3. QED
      BY <2>1, <2>2 DEF Holders
  <1>18. OneCredential'
    BY <1>17 DEF OneCredential
  <1>19. RevokedOpened'
    BY <1>1, <1>2, <1>8 DEF RevokedOpened, TypeOK
  <1>20. RevokedStaysDead'
    BY <1>2, <1>17 DEF RevokedStaysDead
  <1>21. FreshBound' /\ AccessWindow'
    BY <1>2, <1>6, <1>7 DEF FreshBound, AccessWindow
  <1>22. QED
    BY <1>12, <1>13, <1>14, <1>15, <1>16, <1>18, <1>19, <1>20, <1>21

\* The steps of Sessions keep the session invariant.
LEMMA SessionsInv ==
    ASSUME SessionInv, TypeInv', NEW r \in Requests, SessionsStep(r)
    PROVE  SessionInv'
  <1>0. TypeOK
    BY DEF SessionInv, TypeInv
  <1>1. CASE SignUpBegin(r) \/ SignInBegin(r) \/ RefreshBegin(r) \/ LogoutBegin(r)
             \/ ChangePasswordBegin(r)
    <2> SUFFICES LocalStep
      BY LocalInv
    <2>1. CASE SignUpBegin(r)
      BY <2>1, AdmitLocal DEF SignUpBegin
    <2>2. CASE SignInBegin(r)
      BY <2>2, AdmitLocal DEF SignInBegin
    <2>3. CASE RefreshBegin(r)
      BY <2>3, AdmitLocal DEF RefreshBegin
    <2>4. CASE LogoutBegin(r)
      BY <2>4, AdmitLocal DEF LogoutBegin
    <2>5. CASE ChangePasswordBegin(r)
      BY <2>5, AdmitLocal DEF ChangePasswordBegin
    <2>6. QED
      BY <1>1, <2>1, <2>2, <2>3, <2>4, <2>5
  <1>2. CASE SignUpCreate(r) \/ SignUpConflict(r)
    BY <1>2, GotoLocal, LocalInv DEF SignUpCreate, SignUpConflict, At
  <1>3. CASE SignInRead(r)
    BY <1>3, GotoLocal, LocalInv DEF SignInRead, At
  <1>4. CASE RefreshDelete(r)
    BY <1>4, RefreshDeleteInv
  <1>5. CASE RefreshUnknown(r) \/ RefreshExpired(r)
    BY <1>5, GotoLocal, LocalInv DEF RefreshUnknown, RefreshExpired, At
  <1>6. CASE RefreshMint(r)
    <2> DEFINE old == tokens[req[r].token]
    <2>1. Renewing(r) /\ Redeemed(r) /\ pc[r] = "mint"
      BY <1>6 DEF RefreshMint, Renewing, Redeemed, At
    <2>2. req[r].token \in Requests /\ Minted(req[r].token)
      BY <1>0, <2>1, SpentType DEF SessionInv, SpentIsGone
    <2>3. old.user \in Logins /\ old.session \in Requests
      BY <1>0, <2>1, SpentType DEF SessionInv, AuthTokens
    <2>4. Opened(old.session) /\ tokens[old.session].user = old.user
      BY <2>2 DEF SessionInv, PairsRooted
    <2>5. r \in Holders(old.session)
      BY <2>1 DEF Holders, Renewals
    <2>6. Holders(old.session) \subseteq {r}
      BY <2>3, <2>5 DEF SessionInv, OneCredential
    <2>7. \A v \in revoked : v.session # old.session
      BY <2>5 DEF SessionInv, RevokedStaysDead
    <2>8. CreateTokens(r, old.user, old.session) /\ Goto(r, "reply") /\ UNCHANGED revoked
      BY <1>6 DEF RefreshMint
    <2> HIDE DEF old
    <2>9. QED
      BY <2>1, <2>3, <2>4, <2>6, <2>7, <2>8, MintInv
  <1>7. CASE LogoutDelete(r)
    <2>1. {req[r].token} \in SUBSET refreshTokens /\ Revoke({req[r].token})
      BY <1>7 DEF LogoutDelete, DeleteRefreshToken
    <2>2. QED
      BY <1>7, <2>1, RevokeInv DEF LogoutDelete, DeleteRefreshToken, At
  <1>8. CASE LogoutUnknown(r)
    BY <1>8, GotoLocal, LocalInv DEF LogoutUnknown, At
  <1>9. CASE ChangePasswordRead(r)
    BY <1>9, GotoLocal, LocalInv DEF ChangePasswordRead, At
  <1>10. CASE ChangePasswordUpdate(r)
    BY <1>10, GotoLocal, LocalInv DEF ChangePasswordUpdate, At
  <1>11. CASE ChangePasswordSweep(r)
    <2>1. RowsOf(req[r].user) \in SUBSET refreshTokens
      BY DEF RowsOf
    <2>2. QED
      BY <1>11, <2>1, RevokeInv DEF ChangePasswordSweep, DeleteUserRefreshTokens, At
  <1>12. QED
    BY <1>1, <1>2, <1>3, <1>4, <1>5, <1>6, <1>7, <1>8, <1>9, <1>10, <1>11
    DEF SessionsStep

\* The steps of TwoFactor and of OAuth are local ones.
LEMMA OtherStepsLocal ==
    ASSUME SessionInv, NEW r \in Requests, TwoFactorStep(r) \/ OAuthStep(r)
    PROVE  LocalStep
  <1>1. CASE Generate2FABegin(r) \/ Enable2FABegin(r) \/ Disable2FABegin(r)
             \/ VerifyBegin(r) \/ CallbackBegin(r)
    <2>1. CASE Generate2FABegin(r)
      BY <2>1, AdmitLocal DEF Generate2FABegin, Authenticated
    <2>2. CASE Enable2FABegin(r)
      BY <2>2, AdmitLocal DEF Enable2FABegin, Authenticated
    <2>3. CASE Disable2FABegin(r)
      BY <2>3, AdmitLocal DEF Disable2FABegin, Authenticated
    <2>4. CASE VerifyBegin(r)
      BY <2>4, AdmitLocal DEF VerifyBegin
    <2>5. CASE CallbackBegin(r)
      BY <2>5, AdmitLocal DEF CallbackBegin
    <2>6. QED
      BY <1>1, <2>1, <2>2, <2>3, <2>4, <2>5
  <1>2. CASE Generate2FARead(r) \/ Enable2FARead(r) \/ Disable2FARead(r)
             \/ VerifyRead(r) \/ CallbackRead(r)
    BY <1>2, GotoLocal
    DEF Generate2FARead, Enable2FARead, Disable2FARead, VerifyRead, CallbackRead, At
  <1>3. CASE Generate2FAWrite(r) \/ Enable2FASet(r) \/ Disable2FAUnset(r) \/ Disable2FAErase(r)
    BY <1>3, GotoLocal
    DEF Generate2FAWrite, Enable2FASet, Disable2FAUnset, Disable2FAErase, At
  <1>4. CASE CallbackCreate(r) \/ CallbackConflict(r)
    BY <1>4, GotoLocal DEF CallbackCreate, CallbackConflict, At
  <1>5. QED
    BY <1>1, <1>2, <1>3, <1>4 DEF TwoFactorStep, OAuthStep

\* No session exists at the start.
LEMMA SessionInit == StoreInit => SessionInv
  <1> SUFFICES ASSUME StoreInit PROVE SessionInv
    OBVIOUS
  <1>1. TypeInv
    BY TypeInit
  <1>2. /\ tokens = [r \in Requests |-> NoTokens] /\ refreshTokens = {} /\ revoked = {}
        /\ pc = [r \in Requests |-> "idle"]
    BY DEF StoreInit
  <1>3. \A r \in Requests : ~Minted(r) /\ ~Renewing(r) /\ ~Redeemed(r)
    BY <1>2 DEF Minted, Renewing, Redeemed, At, NoTokens
  <1>4. \A s : Holders(s) = {}
    BY <1>2, <1>3 DEF Holders, LiveRows, Renewals
  <1>5. MintedLast /\ RowsMinted
    BY <1>2 DEF MintedLast, RowsMinted
  <1>6. PairsRooted /\ SpentIsGone /\ RefreshOnce /\ FreshBound
    BY <1>3 DEF PairsRooted, SpentIsGone, RefreshOnce, FreshBound
  <1>7. OneCredential
    BY <1>4 DEF OneCredential
  <1>8. RevokedOpened /\ RevokedStaysDead /\ AccessWindow
    BY <1>2 DEF RevokedOpened, RevokedStaysDead, AccessWindow
  <1>9. QED
    BY <1>1, <1>5, <1>6, <1>7, <1>8 DEF SessionInv

\* Every step of the component keeps the session invariant.
LEMMA SessionStep == SessionInv /\ [Next]_vars => SessionInv'
  <1> SUFFICES ASSUME SessionInv, [Next]_vars PROVE SessionInv'
    OBVIOUS
  <1>1. TypeInv' /\ TypeOK
    BY TypeStep DEF SessionInv, TypeInv
  <1>2. ASSUME NEW r \in Requests, Step(r) PROVE SessionInv'
    <2>1. CASE SessionsStep(r)
      BY <1>1, <2>1, SessionsInv
    <2>2. CASE TwoFactorStep(r) \/ OAuthStep(r)
      BY <1>1, <2>2, OtherStepsLocal, LocalInv
    <2>3. CASE OpenSession(r)
      <3>1. pc[r] = "mint" /\ req[r].op \notin {"none", "Refresh", "Logout"}
        BY <2>3 DEF OpenSession, SessionInv, TypeInv, MintsForSomeone
      <3>2. req[r].user \in Logins
        BY <1>1, <3>1, RequestUser
      <3>3. ~Minted(r)
        BY <3>1 DEF SessionInv, MintedLast, Minted, NoTokens
      <3>4. LiveRows(r) = {}
        BY <1>1, <3>3 DEF LiveRows, TypeOK, SessionInv, RowsMinted, PairsRooted, Opened
      <3>5. Renewals(r) = {}
        <4>1. ASSUME NEW q \in Renewals(r) PROVE FALSE
          <5>1. q \in Requests /\ Renewing(q) /\ tokens[req[q].token].session = r
            BY <4>1 DEF Renewals
          <5>2. req[q].token \in Requests /\ Minted(req[q].token)
            BY <1>1, <5>1, SpentType DEF SessionInv, SpentIsGone, Redeemed
          <5>3. Opened(r)
            BY <5>1, <5>2 DEF SessionInv, PairsRooted
          <5>4. QED
            BY <3>3, <5>3 DEF Opened
        <4>2. QED
          BY <4>1
      <3>6. \A v \in revoked : v.session # r
        BY <3>3 DEF SessionInv, RevokedOpened, Opened
      <3>7. QED
        BY <1>1, <2>3, <3>1, <3>2, <3>4, <3>5, <3>6, MintInv DEF OpenSession, Holders
    <2>4. CASE Challenge(r)
      BY <1>1, <2>4, ChallengeInv
    <2>5. CASE Reply(r)
      BY <1>1, <2>5, GotoLocal, LocalInv DEF Reply
    <2>6. CASE Drop(r)
      BY <1>1, <2>6, GotoLocal, LocalInv DEF Drop
    <2>7. QED
      BY <1>2, <2>1, <2>2, <2>3, <2>4, <2>5, <2>6 DEF Step
  <1>3. CASE Tick \/ Quiescent \/ UNCHANGED vars
    <2>1. /\ UNCHANGED <<tokens, refreshTokens, revoked, req, pc>>
          /\ now' \in Nat /\ now' >= now
      BY <1>1, <1>3 DEF Tick, Quiescent, vars, TypeInv, TypeOK
    <2>2. LocalStep
      BY <2>1 DEF LocalStep, SessionInv, MintedLast, Renewing, Redeemed, At, Minted
    <2>3. QED
      BY <1>1, <2>2, LocalInv
  <1>4. QED
    BY <1>2, <1>3 DEF Next

\* The session invariant holds in every reachable state, however requests
\* interleave, fail and age.
THEOREM SessionCorrect == Spec => []SessionInv
  <1>1. StoreInit => SessionInv
    BY SessionInit
  <1>2. SessionInv /\ [Next]_vars => SessionInv'
    BY SessionStep
  <1>3. QED
    BY <1>1, <1>2, PTL DEF Spec

\* Every variable keeps its type.
THEOREM TypeCorrect == Spec => []TypeOK
  <1>1. SessionInv => TypeOK
    BY DEF SessionInv, TypeInv
  <1>2. QED
    BY <1>1, SessionCorrect, PTL

\* However many requests present the tokens of a session at the same time, at
\* most one row or pending renewal can carry it on (DeleteRefreshToken).
THEOREM SessionNeverForks == Spec => []OneCredential
  <1>1. SessionInv => OneCredential
    BY DEF SessionInv
  <1>2. QED
    BY <1>1, SessionCorrect, PTL

\* A refresh token is traded at most once (Refresh).
THEOREM RefreshTokenSpentOnce == Spec => []RefreshOnce
  <1>1. SessionInv => RefreshOnce
    BY DEF SessionInv
  <1>2. QED
    BY <1>1, SessionCorrect, PTL

\* A session whose row a logout or a password change removed never comes back.
THEOREM RevocationIsFinal == Spec => []RevokedStaysDead
  <1>1. SessionInv => RevokedStaysDead
    BY DEF SessionInv
  <1>2. QED
    BY <1>1, SessionCorrect, PTL

\* The access tokens of a revoked session die within AccessTTL.
THEOREM RevocationWindow == Spec => []AccessWindow
  <1>1. SessionInv => AccessWindow
    BY DEF SessionInv
  <1>2. QED
    BY <1>1, SessionCorrect, PTL

----------------------------------------------------------------------------
(***************************************************************************)
(* Auth implements SessionLifecycle: every step of every request opens,    *)
(* renews or ends a session in a way SessionLifecycle allows, or leaves    *)
(* all the sessions as they are.                                           *)
(***************************************************************************)

\* A session nobody touched is in the same phase, with the same owner.
LEMMA SameSession ==
    ASSUME NEW s \in Requests, Opened(s)' = Opened(s), LiveRows(s)' = LiveRows(s),
           Renewals(s)' = Renewals(s), Opened(s) => tokens'[s] = tokens[s]
    PROVE  PhaseOf(s)' = PhaseOf(s) /\ OwnerOf(s)' = OwnerOf(s)
  BY DEF PhaseOf, OwnerOf

\* The renewals of a session are the same when no request starts or ends one
\* and the pairs they spent are as they were.
LEMMA SameRenewals ==
    ASSUME NEW s, req' = req, \A q \in Requests : Renewing(q)' = Renewing(q),
           \A q \in Requests : Renewing(q) => tokens'[req[q].token] = tokens[req[q].token]
    PROVE  Renewals(s)' = Renewals(s)
  BY DEF Renewals

\* A step that starts and ends no renewal and touches no pair or row is a
\* stutter.
LEMMA Stutter ==
    ASSUME UNCHANGED <<tokens, refreshTokens>>,
           \A q \in Requests : Renewing(q)' = Renewing(q),
           \A q \in Requests : Renewing(q) => req'[q] = req[q]
    PROVE  phase' = phase /\ owner' = owner
  <1>1. \A s \in Requests : Opened(s)' = Opened(s) /\ LiveRows(s)' = LiveRows(s)
    BY DEF Opened, Minted, LiveRows
  <1>2. \A s \in Requests : Renewals(s)' = Renewals(s)
    BY DEF Renewals
  <1>3. \A s \in Requests : PhaseOf(s)' = PhaseOf(s) /\ OwnerOf(s)' = OwnerOf(s)
    BY <1>1, <1>2 DEF PhaseOf, OwnerOf
  <1>4. QED
    BY <1>3 DEF phase, owner

\* The arrival of a request is a stutter.
LEMMA AdmitStutter ==
    ASSUME SessionInv, NEW r \in Requests, NEW input, NEW next,
           Admit(r, input, next), next # "mint"
    PROVE  phase' = phase /\ owner' = owner
  <1>1. TypeOK
    BY DEF SessionInv, TypeInv
  <1>2. \A q \in Requests : q # r => pc'[q] = pc[q] /\ req'[q] = req[q]
    BY <1>1 DEF TypeOK, Admit
  <1>3. pc[r] = "idle" /\ pc'[r] = next
    BY <1>1 DEF TypeOK, Admit
  <1>4. \A q \in Requests : Renewing(q)' = Renewing(q)
    BY <1>2, <1>3 DEF Renewing, At
  <1>5. \A q \in Requests : Renewing(q) => req'[q] = req[q]
    BY <1>2, <1>3 DEF Renewing, At
  <1>6. QED
    BY <1>4, <1>5, Stutter DEF Admit

\* So is the progress of a request that neither enters nor leaves a renewal.
LEMMA GotoStutter ==
    ASSUME SessionInv, NEW r \in Requests, NEW next, Goto(r, next),
           UNCHANGED <<tokens, refreshTokens>>, ~Renewing(r),
           next = "mint" => req[r].op # "Refresh"
    PROVE  phase' = phase /\ owner' = owner
  <1>1. TypeOK
    BY DEF SessionInv, TypeInv
  <1>2. req' = req /\ \A q \in Requests : q # r => pc'[q] = pc[q]
    BY <1>1 DEF TypeOK, Goto
  <1>3. pc'[r] = next
    BY <1>1 DEF TypeOK, Goto
  <1>4. \A q \in Requests : Renewing(q)' = Renewing(q)
    BY <1>2, <1>3 DEF Renewing, At
  <1>5. QED
    BY <1>2, <1>4, Stutter

\* The session a row or a renewal carries: it is opened and nothing else
\* carries it.
LEMMA Carrier ==
    ASSUME SessionInv, NEW s \in Requests, NEW x \in Holders(s)
    PROVE  /\ x \in Requests
           /\ Opened(s)
           /\ \A y \in Holders(s) : y = x
  <1>1. TypeOK
    BY DEF SessionInv, TypeInv
  <1>2. CASE x \in LiveRows(s)
    BY <1>1, <1>2 DEF LiveRows, TypeOK, SessionInv, RowsMinted, PairsRooted, OneCredential
  <1>3. CASE x \in Renewals(s)
    <2>1. x \in Requests /\ Renewing(x) /\ tokens[req[x].token].session = s
      BY <1>3 DEF Renewals
    <2>2. req[x].token \in Requests /\ Minted(req[x].token)
      BY <1>1, <2>1, SpentType DEF SessionInv, SpentIsGone, Redeemed
    <2>3. QED
      BY <2>1, <2>2 DEF SessionInv, PairsRooted, OneCredential
  <1>4. QED
    BY <1>2, <1>3 DEF Holders

\* A renewal that is given up ends its session.
LEMMA GiveUp ==
    ASSUME SessionInv, NEW r \in Requests, NEW next, Goto(r, next), next # "mint",
           UNCHANGED <<tokens, refreshTokens>>, Renewing(r)
    PROVE  Lifecycle!Next
  <1>1. TypeOK /\ req' = req /\ pc'[r] = next
    BY DEF SessionInv, TypeInv, TypeOK, Goto
  <1>2. \A q \in Requests : q # r => pc'[q] = pc[q]
    BY <1>1 DEF TypeOK, Goto
  <1>3. PICK s \in Requests : s = tokens[req[r].token].session
    BY <1>1, SpentType DEF SessionInv, AuthTokens
  <1>4. r \in Renewals(s) /\ r \in Holders(s)
    BY <1>3 DEF Renewals, Holders
  <1>5. Opened(s) /\ \A y \in Holders(s) : y = r
    BY <1>4, Carrier
  <1>6. pc[r] = "mint" /\ r \notin refreshTokens
    <2>1. pc[r] = "mint"
      BY DEF Renewing, At
    <2>2. QED
      BY <2>1 DEF SessionInv, RowsMinted, MintedLast, Minted, NoTokens
  <1>7. LiveRows(s) = {} /\ LiveRows(s)' = {}
    BY <1>5, <1>6 DEF Holders, LiveRows
  <1>8. \A q \in Requests : Renewing(q)' = (Renewing(q) /\ q # r)
    BY <1>1, <1>2 DEF Renewing, At
  <1>9. Renewals(s)' = {}
    BY <1>1, <1>5, <1>8 DEF Holders, Renewals
  <1>10. \A x \in Requests : Opened(x)' = Opened(x) /\ LiveRows(x)' = LiveRows(x)
    BY DEF Opened, Minted, LiveRows
  <1>11. PhaseOf(s) = "renewing" /\ PhaseOf(s)' = "ended"
    BY <1>4, <1>5, <1>7, <1>9, <1>10 DEF PhaseOf
  <1>12. \A x \in Requests : x # s => Renewals(x)' = Renewals(x)
    BY <1>1, <1>3, <1>8 DEF Renewals
  <1>13. \A x \in Requests : OwnerOf(x)' = OwnerOf(x)
    BY <1>10 DEF OwnerOf
  <1>14. \A x \in Requests : x # s => PhaseOf(x)' = PhaseOf(x)
    BY <1>10, <1>12 DEF PhaseOf
  <1>15. Lifecycle!End(s)
    BY <1>11, <1>13, <1>14 DEF Lifecycle!End, phase, owner
  <1>16. QED
    BY <1>15 DEF Lifecycle!Next

\* A sign-in opens a session.
LEMMA OpenRefines ==
    ASSUME SessionInv, SessionInv', NEW r \in Requests, OpenSession(r)
    PROVE  Lifecycle!Next
  <1>1. TypeOK /\ TypeOK' /\ tokens[r] = NoTokens /\ r \notin refreshTokens /\ ~Minted(r)
    BY DEF SessionInv, TypeInv, MintedLast, RowsMinted, Minted, NoTokens, OpenSession
  <1>2. req[r].op \notin {"none", "Refresh", "Logout"}
    BY DEF SessionInv, TypeInv, MintsForSomeone, OpenSession
  <1>3. PICK u \in Logins : u = req[r].user
    BY <1>1, <1>2, RequestUser
  <1>4. /\ \A q \in Requests : q # r => tokens'[q] = tokens[q]
        /\ tokens'[r].audience = "access" /\ tokens'[r].user = u /\ tokens'[r].session = r
        /\ refreshTokens' = refreshTokens \cup {r}
    BY <1>1, <1>3 DEF OpenSession, CreateTokens, TypeOK
  <1>5. /\ req' = req /\ pc'[r] = "reply"
        /\ \A q \in Requests : q # r => pc'[q] = pc[q]
    BY <1>1 DEF OpenSession, Goto, TypeOK
  <1>6. \A q \in Requests : Renewing(q)' = Renewing(q)
    BY <1>2, <1>5 DEF Renewing, At
  <1>7. \A q \in Requests : Renewing(q) => tokens'[req[q].token] = tokens[req[q].token]
    BY <1>1, <1>4, SpentType DEF SessionInv, SpentIsGone, Redeemed
  <1>8. ~Opened(r) /\ Opened(r)'
    BY <1>1, <1>4 DEF Opened, Minted
  <1>9. r \in LiveRows(r)'
    BY <1>4 DEF LiveRows
  <1>10. PhaseOf(r) = "none" /\ PhaseOf(r)' = "live" /\ OwnerOf(r)' = u
    BY <1>4, <1>8, <1>9 DEF PhaseOf, OwnerOf
  <1>11. ASSUME NEW s \in Requests, s # r
         PROVE  PhaseOf(s)' = PhaseOf(s) /\ OwnerOf(s)' = OwnerOf(s)
    <2>1. Opened(s)' = Opened(s) /\ tokens'[s] = tokens[s]
      BY <1>4, <1>11 DEF Opened, Minted
    <2>2. LiveRows(s)' = LiveRows(s)
      BY <1>1, <1>4, <1>11 DEF LiveRows, TypeOK
    <2>3. Renewals(s)' = Renewals(s)
      BY <1>5, <1>6, <1>7, SameRenewals
    <2>4. QED
      BY <2>1, <2>2, <2>3, SameSession
  <1>12. Lifecycle!Open(r, u)
    BY <1>10, <1>11 DEF Lifecycle!Open, phase, owner
  <1>13. QED
    BY <1>12 DEF Lifecycle!Next

\* Taking a row out for a renewal rotates its session.
LEMMA RotateRefines ==
    ASSUME SessionInv, NEW r \in Requests, RefreshDelete(r)
    PROVE  Lifecycle!Next
  <1> DEFINE t == req[r].token
  <1>1. TypeOK /\ req[r].op = "Refresh" /\ pc[r] = "delete"
    BY DEF SessionInv, TypeInv, RefreshDelete, At
  <1>2. t \in refreshTokens /\ refreshTokens' = refreshTokens \ {t}
    BY DEF RefreshDelete, DeleteRefreshToken
  <1>3. UNCHANGED <<tokens, req>> /\ pc'[r] = "mint"
    BY <1>1 DEF RefreshDelete, Goto, TypeOK
  <1>4. \A q \in Requests : q # r => pc'[q] = pc[q]
    BY <1>1 DEF RefreshDelete, Goto, TypeOK
  <1>5. PICK s \in Requests : s = tokens[t].session
    BY <1>1, <1>2 DEF TypeOK, SessionInv, RowsMinted, Minted,
                      AuthTokens, TwoFactorTokens, NoTokens
  <1>6. t \in LiveRows(s) /\ t \in Holders(s)
    BY <1>2, <1>5 DEF LiveRows, Holders
  <1>7. Opened(s) /\ \A y \in Holders(s) : y = t
    BY <1>6, Carrier
  <1>8. LiveRows(s)' = {}
    BY <1>2, <1>3, <1>7 DEF Holders, LiveRows
  <1>9. \A q \in Requests : Renewing(q)' = (Renewing(q) \/ q = r)
    BY <1>1, <1>3, <1>4 DEF Renewing, At
  <1>10. r \in Renewals(s)'
    BY <1>3, <1>5, <1>9 DEF Renewals
  <1>11. \A x \in Requests : Opened(x)' = Opened(x) /\ OwnerOf(x)' = OwnerOf(x)
    BY <1>3 DEF OwnerOf, Opened, Minted
  <1>12. PhaseOf(s) = "live" /\ PhaseOf(s)' = "renewing"
    BY <1>6, <1>7, <1>8, <1>10, <1>11 DEF PhaseOf
  <1>13. ASSUME NEW x \in Requests, x # s PROVE PhaseOf(x)' = PhaseOf(x)
    <2>1. LiveRows(x)' = LiveRows(x)
      BY <1>2, <1>3, <1>5, <1>13 DEF LiveRows
    <2>2. Renewals(x)' = Renewals(x)
      BY <1>3, <1>5, <1>9, <1>13 DEF Renewals
    <2>3. QED
      BY <1>11, <2>1, <2>2 DEF PhaseOf
  <1>14. Lifecycle!Rotate(s)
    BY <1>11, <1>12, <1>13 DEF Lifecycle!Rotate, phase, owner
  <1>15. QED
    BY <1>14 DEF Lifecycle!Next

\* Storing the next pair renews the session.
LEMMA RenewRefines ==
    ASSUME SessionInv, NEW r \in Requests, RefreshMint(r)
    PROVE  Lifecycle!Next
  <1>1. TypeOK /\ Renewing(r) /\ tokens[r] = NoTokens /\ r \notin refreshTokens /\ ~Minted(r)
    BY DEF SessionInv, TypeInv, MintedLast, RowsMinted, Minted, NoTokens,
           RefreshMint, Renewing, At
  <1>2. PICK s \in Requests, u \in Logins :
            s = tokens[req[r].token].session /\ u = tokens[req[r].token].user
    BY <1>1, SpentType DEF SessionInv, AuthTokens
  <1>3. r \in Renewals(s) /\ r \in Holders(s)
    BY <1>1, <1>2 DEF Renewals, Holders
  <1>4. Opened(s) /\ s # r /\ \A y \in Holders(s) : y = r
    BY <1>1, <1>3, Carrier DEF Opened
  <1>5. /\ \A q \in Requests : q # r => tokens'[q] = tokens[q]
        /\ tokens'[r].audience = "access" /\ tokens'[r].session = s
        /\ refreshTokens' = refreshTokens \cup {r}
    BY <1>1, <1>2 DEF RefreshMint, CreateTokens, TypeOK
  <1>6. /\ req' = req /\ pc'[r] = "reply"
        /\ \A q \in Requests : q # r => pc'[q] = pc[q]
    BY <1>1 DEF RefreshMint, Goto, TypeOK
  <1>7. \A q \in Requests : Renewing(q)' = (Renewing(q) /\ q # r)
    BY <1>6 DEF Renewing, At
  <1>8. \A q \in Requests : Renewing(q) => tokens'[req[q].token] = tokens[req[q].token]
    BY <1>1, <1>5, SpentType DEF SessionInv, SpentIsGone, Redeemed
  <1>9. LiveRows(s) = {}
    BY <1>1, <1>4 DEF Holders, LiveRows
  <1>10. r \in LiveRows(s)'
    BY <1>5 DEF LiveRows
  <1>11. \A x \in Requests : Opened(x)' = Opened(x)
    BY <1>1, <1>4, <1>5 DEF Opened, Minted
  <1>12. \A x \in Requests : OwnerOf(x)' = OwnerOf(x)
    BY <1>1, <1>5, <1>11 DEF OwnerOf, Opened
  <1>13. PhaseOf(s) = "renewing" /\ PhaseOf(s)' = "live"
    BY <1>3, <1>4, <1>9, <1>10, <1>11 DEF PhaseOf
  <1>14. ASSUME NEW x \in Requests, x # s PROVE PhaseOf(x)' = PhaseOf(x)
    <2>1. LiveRows(x)' = LiveRows(x)
      BY <1>1, <1>5, <1>14 DEF LiveRows, TypeOK
    <2>2. Renewals(x)' = Renewals(x)
      BY <1>2, <1>6, <1>7, <1>8, <1>14 DEF Renewals
    <2>3. QED
      BY <1>11, <2>1, <2>2 DEF PhaseOf
  <1>15. Lifecycle!Renew(s)
    BY <1>12, <1>13, <1>14 DEF Lifecycle!Renew, phase, owner
  <1>16. QED
    BY <1>15 DEF Lifecycle!Next

\* A logout that finds its row ends the session.
LEMMA LogoutRefines ==
    ASSUME SessionInv, NEW r \in Requests, LogoutDelete(r)
    PROVE  Lifecycle!Next
  <1> DEFINE t == req[r].token
  <1>1. TypeOK /\ req[r].op = "Logout"
    BY DEF SessionInv, TypeInv, LogoutDelete, At
  <1>2. t \in refreshTokens /\ refreshTokens' = refreshTokens \ {t}
    BY DEF LogoutDelete, DeleteRefreshToken
  <1>3. UNCHANGED <<tokens, req>>
    BY DEF LogoutDelete, Goto
  <1>4. \A q \in Requests : q # r => pc'[q] = pc[q]
    BY <1>1 DEF LogoutDelete, Goto, TypeOK
  <1>5. PICK s \in Requests : s = tokens[t].session
    BY <1>1, <1>2 DEF TypeOK, SessionInv, RowsMinted, Minted,
                      AuthTokens, TwoFactorTokens, NoTokens
  <1>6. t \in Requests /\ t \in LiveRows(s) /\ t \in Holders(s) /\ Minted(t)
    BY <1>1, <1>2, <1>5 DEF LiveRows, Holders, SessionInv, RowsMinted, TypeOK
  <1>7. Opened(s) /\ \A y \in Holders(s) : y = t
    BY <1>6, Carrier
  <1>8. LiveRows(s)' = {}
    BY <1>2, <1>3, <1>7 DEF Holders, LiveRows
  <1>9. \A q \in Requests : Renewing(q)' = Renewing(q)
    BY <1>1, <1>3, <1>4 DEF Renewing, At
  <1>10. \A x : Renewals(x)' = Renewals(x)
    BY <1>3, <1>9 DEF Renewals
  <1>11. Renewals(s) = {}
    BY <1>6, <1>7 DEF Holders, Renewals, Renewing, At, SessionInv, MintedLast, Minted, NoTokens
  <1>12. \A x \in Requests : Opened(x)' = Opened(x) /\ OwnerOf(x)' = OwnerOf(x)
    BY <1>3 DEF OwnerOf, Opened, Minted
  <1>13. PhaseOf(s) = "live" /\ PhaseOf(s)' = "ended"
    BY <1>6, <1>7, <1>8, <1>10, <1>11, <1>12 DEF PhaseOf
  <1>14. ASSUME NEW x \in Requests, x # s PROVE PhaseOf(x)' = PhaseOf(x)
    <2>1. LiveRows(x)' = LiveRows(x)
      BY <1>2, <1>3, <1>5, <1>14 DEF LiveRows
    <2>2. QED
      BY <1>10, <1>12, <2>1 DEF PhaseOf
  <1>15. Lifecycle!End(s)
    BY <1>12, <1>13, <1>14 DEF Lifecycle!End, phase, owner
  <1>16. QED
    BY <1>15 DEF Lifecycle!Next

\* The sweep of a password change ends the user's live sessions, and spares the
\* ones that are being renewed.
LEMMA SweepRefines ==
    ASSUME SessionInv, NEW r \in Requests, ChangePasswordSweep(r)
    PROVE  Lifecycle!Next
  <1>1. TypeOK /\ req[r].op = "ChangePassword"
    BY DEF SessionInv, TypeInv, ChangePasswordSweep, At
  <1>2. PICK u \in Logins : u = req[r].user
    BY <1>1, RequestUser
  <1>3. refreshTokens' = refreshTokens \ RowsOf(u)
    BY <1>2 DEF ChangePasswordSweep, DeleteUserRefreshTokens
  <1>4. UNCHANGED <<tokens, req>>
    BY DEF ChangePasswordSweep, Goto
  <1>5. \A q \in Requests : q # r => pc'[q] = pc[q]
    BY <1>1 DEF ChangePasswordSweep, Goto, TypeOK
  <1>6. \A q \in Requests : Renewing(q)' = Renewing(q)
    BY <1>1, <1>4, <1>5 DEF Renewing, At
  <1>7. \A x : Renewals(x)' = Renewals(x)
    BY <1>4, <1>6 DEF Renewals
  <1>8. \A x \in Requests : Opened(x)' = Opened(x) /\ OwnerOf(x)' = OwnerOf(x)
    BY <1>4 DEF OwnerOf, Opened, Minted
  <1>9. \A x \in Requests : \A h \in LiveRows(x) : Opened(x) /\ tokens[h].user = OwnerOf(x)
    BY <1>1 DEF LiveRows, TypeOK, SessionInv, RowsMinted, PairsRooted, OwnerOf
  <1>10. ASSUME NEW x \in Requests
         PROVE  PhaseOf(x)' = IF OwnerOf(x) = u /\ PhaseOf(x) = "live"
                              THEN "ended" ELSE PhaseOf(x)
    <2>1. CASE LiveRows(x) = {}
      <3>1. LiveRows(x)' = {}
        BY <1>3, <1>4, <2>1 DEF LiveRows
      <3>2. QED
        BY <1>7, <1>8, <2>1, <3>1 DEF PhaseOf
    <2>2. CASE LiveRows(x) # {} /\ OwnerOf(x) # u
      <3>1. LiveRows(x)' = LiveRows(x)
        BY <1>3, <1>4, <1>9, <2>2 DEF LiveRows, RowsOf
      <3>2. QED
        BY <1>7, <1>8, <2>2, <3>1 DEF PhaseOf
    <2>3. CASE LiveRows(x) # {} /\ OwnerOf(x) = u
      <3>1. LiveRows(x)' = {}
        BY <1>3, <1>4, <1>9, <2>3 DEF LiveRows, RowsOf
      <3>2. PICK h : h \in LiveRows(x)
        BY <2>3
      <3>3. h \in Requests /\ Minted(h) /\ \A y \in Holders(x) : y = h
        BY <1>1, <3>2, Carrier DEF Holders, LiveRows, TypeOK, SessionInv, RowsMinted
      <3>4. Renewals(x) = {}
        BY <3>3 DEF Holders, Renewals, Renewing, At, SessionInv, MintedLast, Minted, NoTokens
      <3>5. Opened(x)
        BY <1>9, <3>2
      <3>6. QED
        BY <1>7, <1>8, <2>3, <3>1, <3>4, <3>5 DEF PhaseOf
    <2>4. QED
      BY <2>1, <2>2, <2>3
  <1>11. Lifecycle!EndAll(u)
    BY <1>8, <1>10 DEF Lifecycle!EndAll, phase, owner
  <1>12. QED
    BY <1>11 DEF Lifecycle!Next

\* A sign-in that stops at the code is a stutter.
LEMMA ChallengeStutter ==
    ASSUME SessionInv, NEW r \in Requests, Challenge(r)
    PROVE  phase' = phase /\ owner' = owner
  <1>1. TypeOK /\ ~Minted(r) /\ r \notin refreshTokens /\ pc[r] = "challenge"
    BY DEF SessionInv, TypeInv, MintedLast, RowsMinted, Minted, NoTokens, Challenge
  <1>2. /\ \A q \in Requests : q # r => tokens'[q] = tokens[q]
        /\ tokens'[r].audience = "2fa"
        /\ refreshTokens' = refreshTokens
    BY <1>1 DEF Challenge, TypeOK
  <1>3. /\ req' = req /\ pc'[r] = "reply"
        /\ \A q \in Requests : q # r => pc'[q] = pc[q]
    BY <1>1 DEF Challenge, Goto, TypeOK
  <1>4. \A q \in Requests : Renewing(q)' = Renewing(q)
    BY <1>1, <1>3 DEF Renewing, At
  <1>5. \A q \in Requests : Renewing(q) => tokens'[req[q].token] = tokens[req[q].token]
    BY <1>1, <1>2, SpentType DEF SessionInv, SpentIsGone, Redeemed
  <1>6. \A s \in Requests : Opened(s)' = Opened(s) /\ (Opened(s) => tokens'[s] = tokens[s])
    BY <1>1, <1>2 DEF Opened, Minted
  <1>7. \A s \in Requests : LiveRows(s)' = LiveRows(s)
    BY <1>1, <1>2 DEF LiveRows, TypeOK
  <1>8. \A s \in Requests : Renewals(s)' = Renewals(s)
    BY <1>3, <1>4, <1>5, SameRenewals
  <1>9. \A s \in Requests : PhaseOf(s)' = PhaseOf(s) /\ OwnerOf(s)' = OwnerOf(s)
    BY <1>6, <1>7, <1>8 DEF PhaseOf, OwnerOf
  <1>10. QED
    BY <1>9 DEF phase, owner

\* A step of one request is a step of SessionLifecycle or a stutter.
LEMMA RequestRefines ==
    ASSUME SessionInv, SessionInv', NEW r \in Requests, Step(r)
    PROVE  Lifecycle!Next \/ (phase' = phase /\ owner' = owner)
  <1>1. CASE SessionsStep(r)
    <2>1. CASE SignUpBegin(r)
      BY <2>1, AdmitStutter DEF SignUpBegin
    <2>2. CASE SignUpCreate(r) \/ SignUpConflict(r)
      BY <2>2, GotoStutter DEF SignUpCreate, SignUpConflict, At, Renewing
    <2>3. CASE SignInBegin(r)
      BY <2>3, AdmitStutter DEF SignInBegin
    <2>4. CASE SignInRead(r)
      BY <2>4, GotoStutter DEF SignInRead, At, Renewing
    <2>5. CASE RefreshBegin(r)
      BY <2>5, AdmitStutter DEF RefreshBegin
    <2>6. CASE RefreshDelete(r)
      BY <2>6, RotateRefines
    <2>7. CASE RefreshUnknown(r)
      BY <2>7, GotoStutter DEF RefreshUnknown, At, Renewing
    <2>8. CASE RefreshMint(r)
      BY <2>8, RenewRefines
    <2>9. CASE RefreshExpired(r)
      BY <2>9, GiveUp DEF RefreshExpired, Renewing
    <2>10. CASE LogoutBegin(r)
      BY <2>10, AdmitStutter DEF LogoutBegin
    <2>11. CASE LogoutDelete(r)
      BY <2>11, LogoutRefines
    <2>12. CASE LogoutUnknown(r)
      BY <2>12, GotoStutter DEF LogoutUnknown, At, Renewing
    <2>13. CASE ChangePasswordBegin(r)
      BY <2>13, AdmitStutter DEF ChangePasswordBegin
    <2>14. CASE ChangePasswordRead(r)
      BY <2>14, GotoStutter DEF ChangePasswordRead, At, Renewing
    <2>15. CASE ChangePasswordUpdate(r)
      BY <2>15, GotoStutter DEF ChangePasswordUpdate, At, Renewing
    <2>16. CASE ChangePasswordSweep(r)
      BY <2>16, SweepRefines
    <2>17. QED
      BY <1>1, <2>1, <2>2, <2>3, <2>4, <2>5, <2>6, <2>7, <2>8, <2>9, <2>10, <2>11,
         <2>12, <2>13, <2>14, <2>15, <2>16 DEF SessionsStep
  <1>2. CASE TwoFactorStep(r) \/ OAuthStep(r)
    <2>1. CASE Generate2FABegin(r)
      BY <2>1, AdmitStutter DEF Generate2FABegin, Authenticated
    <2>2. CASE Enable2FABegin(r)
      BY <2>2, AdmitStutter DEF Enable2FABegin, Authenticated
    <2>3. CASE Disable2FABegin(r)
      BY <2>3, AdmitStutter DEF Disable2FABegin, Authenticated
    <2>4. CASE VerifyBegin(r)
      BY <2>4, AdmitStutter DEF VerifyBegin
    <2>5. CASE CallbackBegin(r)
      BY <2>5, AdmitStutter DEF CallbackBegin
    <2>6. CASE Generate2FARead(r) \/ Enable2FARead(r) \/ Disable2FARead(r)
               \/ VerifyRead(r) \/ CallbackRead(r)
      BY <2>6, GotoStutter
      DEF Generate2FARead, Enable2FARead, Disable2FARead, VerifyRead, CallbackRead,
          At, Renewing
    <2>7. CASE Generate2FAWrite(r) \/ Enable2FASet(r) \/ Disable2FAUnset(r)
               \/ Disable2FAErase(r)
      BY <2>7, GotoStutter
      DEF Generate2FAWrite, Enable2FASet, Disable2FAUnset, Disable2FAErase, At, Renewing
    <2>8. CASE CallbackCreate(r) \/ CallbackConflict(r)
      BY <2>8, GotoStutter DEF CallbackCreate, CallbackConflict, At, Renewing
    <2>9. QED
      BY <1>2, <2>1, <2>2, <2>3, <2>4, <2>5, <2>6, <2>7, <2>8 DEF TwoFactorStep, OAuthStep
  <1>3. CASE OpenSession(r)
    BY <1>3, OpenRefines
  <1>4. CASE Challenge(r)
    BY <1>4, ChallengeStutter
  <1>5. CASE Reply(r)
    BY <1>5, GotoStutter DEF Reply, At, Renewing
  <1>6. CASE Drop(r)
    <2>1. Goto(r, "dropped") /\ UNCHANGED <<tokens, refreshTokens>>
      BY <1>6 DEF Drop
    <2>2. CASE Renewing(r)
      BY <2>1, <2>2, GiveUp
    <2>3. CASE ~Renewing(r)
      BY <2>1, <2>3, GotoStutter
    <2>4. QED
      BY <2>2, <2>3
  <1>7. QED
    BY <1>1, <1>2, <1>3, <1>4, <1>5, <1>6 DEF Step

\* No session is open at first.
LEMMA LifecycleInit == StoreInit => Lifecycle!Init
  <1>1. SUFFICES ASSUME StoreInit PROVE Lifecycle!Init
    OBVIOUS
  <1>2. \A s \in Requests : ~Opened(s)
    BY <1>1 DEF StoreInit, Opened, Minted, NoTokens
  <1>3. QED
    BY <1>2 DEF Lifecycle!Init, phase, owner, PhaseOf, OwnerOf

\* The auth component implements SessionLifecycle: a session is opened once,
\* keeps its owner, is carried by one credential at a time and ends for good
\* (SignIn, Refresh, Logout, ChangePassword and the rest of the usecase).
THEOREM AuthImplementsLifecycle == Spec => ImplementsLifecycle
  <1>1. StoreInit => Lifecycle!Init
    BY LifecycleInit
  <1>2. SessionInv /\ SessionInv' /\ [Next]_vars
            => Lifecycle!Next \/ (phase' = phase /\ owner' = owner)
    <2>1. SUFFICES ASSUME SessionInv, SessionInv', [Next]_vars
                   PROVE  Lifecycle!Next \/ (phase' = phase /\ owner' = owner)
      OBVIOUS
    <2>2. CASE \E r \in Requests : Step(r)
      BY <2>1, <2>2, RequestRefines
    <2>3. CASE Tick \/ Quiescent \/ UNCHANGED vars
      <3>1. UNCHANGED <<tokens, refreshTokens, req, pc>>
        BY <2>3 DEF Tick, Quiescent, vars
      <3>2. \A q \in Requests : Renewing(q)' = Renewing(q)
        BY <3>1 DEF Renewing, At
      <3>3. QED
        BY <3>1, <3>2, Stutter
    <2>4. QED
      BY <2>1, <2>2, <2>3 DEF Next
  <1>3. SessionInv /\ SessionInv' /\ [Next]_vars => [Lifecycle!Next]_<<phase, owner>>
    BY <1>2
  <1>4. QED
    BY <1>1, <1>3, SessionCorrect, PTL DEF Spec, ImplementsLifecycle, Lifecycle!Spec
=============================================================================
