---------------------------- MODULE AccountProofs ----------------------------
(***************************************************************************)
(* Theorems about the accounts behind the sessions, for every value of the *)
(* constants: what two-factor sign-in and sign-in through GitHub promise.  *)
(***************************************************************************)
EXTENDS AuthProofs, Enrolment

(***************************************************************************)
(* An account with 2FA on stays locked until someone gives a code of its   *)
(* secret.                                                                 *)
(***************************************************************************)

\* A request's arrival locks nothing out or in, unless it starts where only a
\* code or an access token leads.
LEMMA LockedAdmit ==
    ASSUME SessionInv, NEW l \in Enrolled, Locked(l),
           NEW r \in Requests, NEW input, NEW next, Admit(r, input, next),
           About(input, l) => StopsShort(input, next)
    PROVE  Locked(l)'
  <1>1. TypeOK
    BY DEF SessionInv, TypeInv
  <1>2. /\ users' = users /\ tokens' = tokens
        /\ pc'[r] = next /\ req'[r] = input
        /\ \A q \in Requests : q # r => pc'[q] = pc[q] /\ req'[q] = req[q]
    BY <1>1 DEF Admit, TypeOK
  <1>3. \A q \in Requests : About(req'[q], l) => StopsShort(req'[q], pc'[q])
    BY <1>2 DEF Locked
  <1>4. QED
    BY <1>2, <1>3 DEF Locked, Minted

\* Neither does the progress of a request that leaves the account alone, mints
\* nothing for it and stops short.
LEMMA LockedGoto ==
    ASSUME SessionInv, NEW l \in Enrolled, Locked(l),
           NEW r \in Requests, NEW next, Goto(r, next),
           users'[l] = users[l],
           \A q \in Requests : Minted(q)' => tokens'[q].user # l,
           About(req[r], l) => StopsShort(req[r], next)
    PROVE  Locked(l)'
  <1>1. TypeOK
    BY DEF SessionInv, TypeInv
  <1>2. /\ req' = req /\ pc'[r] = next
        /\ \A q \in Requests : q # r => pc'[q] = pc[q]
    BY <1>1 DEF Goto, TypeOK
  <1>3. \A q \in Requests : About(req'[q], l) => StopsShort(req'[q], pc'[q])
    BY <1>2 DEF Locked
  <1>4. QED
    BY <1>3 DEF Locked

\* Nothing is minted for a locked account when the tokens do not change.
LEMMA NothingMinted ==
    ASSUME NEW l \in Enrolled, Locked(l), UNCHANGED tokens
    PROVE  \A q \in Requests : Minted(q)' => tokens'[q].user # l
  BY DEF Locked, Minted

\* The operations of Sessions leave a locked account locked.
LEMMA SessionsLocked ==
    ASSUME SessionInv, NEW l \in Enrolled, Locked(l), NEW r \in Requests, SessionsStep(r)
    PROVE  Locked(l)'
  <1> USE DEF About, StopsShort
  <1>0. TypeOK /\ l \in Logins
    BY AccountsAssumption DEF SessionInv, TypeInv
  <1>1. CASE SignUpBegin(r)
    BY <1>1, LockedAdmit DEF SignUpBegin
  <1>2. CASE SignUpCreate(r)
    <2>1. req[r].user # l
      BY <1>2 DEF SignUpCreate, CreateUser, Locked
    <2>2. users'[l] = users[l]
      BY <1>0, <1>2, <2>1 DEF SignUpCreate, CreateUser, TypeOK
    <2>3. QED
      BY <1>2, <2>1, <2>2, NothingMinted, LockedGoto DEF SignUpCreate
  <1>3. CASE SignUpConflict(r)
    BY <1>3, NothingMinted, LockedGoto DEF SignUpConflict
  <1>4. CASE SignInBegin(r)
    BY <1>4, LockedAdmit DEF SignInBegin
  <1>5. CASE SignInRead(r)
    <2>1. PICK next : Goto(r, next) /\ (req[r].user = l => next \in {"challenge", "rejected"})
      BY <1>5 DEF SignInRead, StartSession, Locked
    <2>2. QED
      BY <1>5, <2>1, NothingMinted, LockedGoto DEF SignInRead, At
  <1>6. CASE RefreshBegin(r)
    BY <1>6, LockedAdmit DEF RefreshBegin
  <1>7. CASE RefreshDelete(r) \/ RefreshUnknown(r) \/ RefreshExpired(r)
    BY <1>7, NothingMinted, LockedGoto DEF RefreshDelete, RefreshUnknown, RefreshExpired, At
  <1>8. CASE RefreshMint(r)
    <2>1. Renewing(r)
      BY <1>8 DEF RefreshMint, Renewing
    <2>2. req[r].token \in Requests /\ Minted(req[r].token)
      BY <1>0, <2>1, SpentType DEF SessionInv, SpentIsGone, Redeemed
    <2>3. tokens[req[r].token].user # l
      BY <2>2 DEF Locked
    <2>4. \A q \in Requests : Minted(q)' => tokens'[q].user # l
      BY <1>0, <1>8, <2>3 DEF RefreshMint, CreateTokens, TypeOK, Locked, Minted
    <2>5. QED
      BY <1>8, <2>4, LockedGoto DEF RefreshMint, At
  <1>9. CASE LogoutBegin(r)
    BY <1>9, LockedAdmit DEF LogoutBegin
  <1>10. CASE LogoutDelete(r) \/ LogoutUnknown(r)
    BY <1>10, NothingMinted, LockedGoto DEF LogoutDelete, LogoutUnknown, At
  <1>11. CASE ChangePasswordBegin(r)
    <2>1. PICK t \in Presentable, old, new \in Passwords :
            Admit(r, [op |-> "ChangePassword", token |-> t, user |-> tokens[t].user,
                      oldPassword |-> old, newPassword |-> new],
                  IF ParseToken(t, "access") /\ Strong(new) THEN "read" ELSE "rejected")
      BY <1>11 DEF ChangePasswordBegin
    <2>2. tokens[t].user = l => ~ParseToken(t, "access")
      BY DEF Presentable, Locked, Minted, ParseToken
    <2>3. QED
      BY <2>1, <2>2, LockedAdmit
  <1>12. CASE ChangePasswordRead(r) \/ ChangePasswordUpdate(r) \/ ChangePasswordSweep(r)
    <2>1. req[r].op = "ChangePassword" /\ pc[r] \in {"read", "update", "sweep"}
      BY <1>12 DEF ChangePasswordRead, ChangePasswordUpdate, ChangePasswordSweep, At
    <2>2. ~About(req[r], l)
      BY <2>1 DEF Locked
    <2>3. req[r].user # l
      BY <2>1, <2>2
    <2>4. users'[l] = users[l]
      BY <1>0, <1>12, <2>3
      DEF ChangePasswordRead, ChangePasswordUpdate, ChangePasswordSweep, UpdatePassword, TypeOK
    <2>5. PICK next : Goto(r, next) /\ UNCHANGED tokens
      BY <1>12 DEF ChangePasswordRead, ChangePasswordUpdate, ChangePasswordSweep
    <2> HIDE DEF About
    <2>6. QED
      BY <2>2, <2>4, <2>5, NothingMinted, LockedGoto
  <1>13. QED
    BY <1>1, <1>2, <1>3, <1>4, <1>5, <1>6, <1>7, <1>8, <1>9, <1>10, <1>11, <1>12
    DEF SessionsStep

\* An operation behind the access cookie is turned away before its first read:
\* there is no access token of a locked account to present.
LEMMA LockedAway ==
    ASSUME NEW l \in Enrolled, Locked(l), NEW t \in Presentable, tokens[t].user = l
    PROVE  Authenticated(t) = "rejected"
  BY DEF Presentable, Locked, Minted, ParseToken, Authenticated

\* The operations of TwoFactor leave a locked account locked.
LEMMA TwoFactorLocked ==
    ASSUME SessionInv, NEW l \in Enrolled, Locked(l), NEW r \in Requests, TwoFactorStep(r)
    PROVE  Locked(l)'
  <1> USE DEF About, StopsShort
  <1>0. TypeOK /\ l \in Logins
    BY AccountsAssumption DEF SessionInv, TypeInv
  <1>1. CASE Generate2FABegin(r)
    BY <1>1, LockedAway, LockedAdmit DEF Generate2FABegin
  <1>2. CASE Enable2FABegin(r)
    BY <1>2, LockedAway, LockedAdmit DEF Enable2FABegin
  <1>3. CASE Disable2FABegin(r)
    BY <1>3, LockedAway, LockedAdmit DEF Disable2FABegin
  <1>4. CASE VerifyBegin(r)
    BY <1>4, LockedAdmit DEF VerifyBegin
  <1>5. CASE VerifyRead(r)
    <2>1. PICK next : /\ Goto(r, next)
                      /\ \/ next = "rejected"
                         \/ next = "mint" /\ RightCode(r)
      BY <1>5 DEF VerifyRead
    <2>2. (req[r].user = l /\ RightCode(r)) => req[r].code = FirstSecret
      BY DEF RightCode, CheckCode, Locked
    <2>3. req[r].op = "VerifyTwoFactor" /\ UNCHANGED <<users, tokens>>
      BY <1>5 DEF VerifyRead, At
    <2>4. About(req[r], l) => StopsShort(req[r], next)
      BY <2>1, <2>2, <2>3
    <2> HIDE DEF About, StopsShort
    <2>5. QED
      BY <2>1, <2>3, <2>4, NothingMinted, LockedGoto
  <1>6. CASE \/ Generate2FARead(r) \/ Generate2FAWrite(r)
             \/ Enable2FARead(r) \/ Enable2FASet(r)
             \/ Disable2FARead(r) \/ Disable2FAUnset(r) \/ Disable2FAErase(r)
    <2>1. /\ req[r].op \in {"Generate2FA", "Enable2FA", "Disable2FA"}
          /\ pc[r] \in {"read", "write", "set", "unset", "erase"}
      BY <1>6 DEF Generate2FARead, Generate2FAWrite, Enable2FARead, Enable2FASet,
                  Disable2FARead, Disable2FAUnset, Disable2FAErase, At
    <2>2. ~About(req[r], l)
      BY <2>1 DEF Locked
    <2>3. req[r].user # l
      BY <2>1, <2>2
    <2>4. users'[l] = users[l]
      BY <1>0, <1>6, <2>3
      DEF Generate2FARead, Generate2FAWrite, Enable2FARead, Enable2FASet, Disable2FARead,
          Disable2FAUnset, Disable2FAErase, UpdateTOTPSecret, Set2FAStatus, TypeOK
    <2>5. PICK next : Goto(r, next) /\ UNCHANGED tokens
      BY <1>6 DEF Generate2FARead, Generate2FAWrite, Enable2FARead, Enable2FASet,
                  Disable2FARead, Disable2FAUnset, Disable2FAErase
    <2> HIDE DEF About
    <2>6. QED
      BY <2>2, <2>4, <2>5, NothingMinted, LockedGoto
  <1>7. QED
    BY <1>1, <1>2, <1>3, <1>4, <1>5, <1>6 DEF TwoFactorStep

\* GitHub vouches for nobody with a password account.
LEMMA OAuthLocked ==
    ASSUME SessionInv, NEW l \in Enrolled, Locked(l), NEW r \in Requests, OAuthStep(r)
    PROVE  Locked(l)'
  <1> USE DEF About, StopsShort
  <1>0. TypeOK /\ l \in Logins
    BY AccountsAssumption DEF SessionInv, TypeInv
  <1>1. CASE CallbackBegin(r)
    BY <1>1, LockedAdmit DEF CallbackBegin
  <1>2. CASE CallbackRead(r)
    <2>1. PICK next : Goto(r, next) /\ (req[r].user = l => next = "create")
      BY <1>2 DEF CallbackRead, ReadUserByEmail, Locked
    <2>2. QED
      BY <1>2, <2>1, NothingMinted, LockedGoto DEF CallbackRead, At
  <1>3. CASE CallbackCreate(r)
    <2>1. req[r].user # l
      BY <1>3 DEF CallbackCreate, CreateUser, Locked
    <2>2. users'[l] = users[l]
      BY <1>0, <1>3, <2>1 DEF CallbackCreate, CreateUser, TypeOK
    <2>3. QED
      BY <1>3, <2>1, <2>2, NothingMinted, LockedGoto DEF CallbackCreate
  <1>4. CASE CallbackConflict(r)
    BY <1>4, NothingMinted, LockedGoto DEF CallbackConflict
  <1>5. QED
    BY <1>1, <1>2, <1>3, <1>4 DEF OAuthStep

\* A session of a locked account is opened by its code only.
LEMMA OpenSessionLocked ==
    ASSUME SessionInv, NEW l \in Enrolled, Locked(l), NEW r \in Requests, OpenSession(r)
    PROVE  CodeGiven(l)' \/ Locked(l)'
  <1>1. TypeOK /\ pc[r] = "mint" /\ req[r].op \notin {"none", "Refresh", "Logout"}
    BY DEF SessionInv, TypeInv, MintsForSomeone, OpenSession
  <1>2. /\ tokens'[r].audience = "access" /\ tokens'[r].user = req[r].user
        /\ \A q \in Requests : q # r => tokens'[q] = tokens[q]
        /\ req' = req /\ users' = users
    BY <1>1 DEF OpenSession, CreateTokens, Goto, TypeOK
  <1>3. CASE req[r].user = l
    <2>1. req[r].op = "VerifyTwoFactor" /\ req[r].code = FirstSecret
      BY <1>1, <1>3 DEF Locked, About, StopsShort
    <2>2. QED
      BY <1>2, <1>3, <2>1 DEF CodeGiven, Minted
  <1>4. CASE req[r].user # l
    <2>1. \A q \in Requests : Minted(q)' => tokens'[q].user # l
      BY <1>2, <1>4 DEF Locked, Minted
    <2>2. ~About(req[r], l)
      BY <1>4 DEF About
    <2>3. QED
      BY <1>2, <2>1, <2>2, LockedGoto DEF OpenSession
  <1>5. QED
    BY <1>3, <1>4

\* Half a sign-in, an answer, a failure and the clock unlock nothing.
LEMMA RestLocked ==
    ASSUME SessionInv, NEW l \in Enrolled, Locked(l), NEW r \in Requests,
           Challenge(r) \/ Reply(r) \/ Drop(r)
    PROVE  Locked(l)'
  <1> USE DEF About, StopsShort
  <1>0. TypeOK
    BY DEF SessionInv, TypeInv
  <1>1. CASE Challenge(r)
    <2>1. \A q \in Requests : Minted(q)' => tokens'[q].user # l
      BY <1>0, <1>1 DEF Challenge, TypeOK, Locked, Minted
    <2>2. About(req[r], l) => req[r].op = "SignIn"
      BY <1>1 DEF Locked, Challenge
    <2>3. QED
      BY <1>1, <2>1, <2>2, LockedGoto DEF Challenge
  <1>2. CASE Reply(r)
    <2>1. About(req[r], l) => req[r].op = "SignIn"
      BY <1>2 DEF Locked, Reply
    <2>2. QED
      BY <1>2, <2>1, NothingMinted, LockedGoto DEF Reply
  <1>3. CASE Drop(r)
    BY <1>3, NothingMinted, LockedGoto DEF Drop
  <1>4. QED
    BY <1>1, <1>2, <1>3

\* A pair and the request that minted it never change.
LEMMA MintedKept ==
    ASSUME SessionInv, [Next]_vars, NEW v \in Requests, Minted(v)
    PROVE  tokens'[v] = tokens[v] /\ req'[v] = req[v]
  <1>1. TypeOK /\ pc[v] \in {"reply", "done", "dropped"}
    BY DEF SessionInv, TypeInv, MintedLast, Minted, NoTokens
  <1>2. ASSUME NEW r \in Requests, NEW input, NEW next, Admit(r, input, next)
        PROVE  tokens'[v] = tokens[v] /\ req'[v] = req[v]
    BY <1>1, <1>2 DEF Admit, TypeOK
  <1>3. ASSUME NEW r \in Requests, NEW l, NEW s, pc[r] = "mint", CreateTokens(r, l, s)
        PROVE  tokens'[v] = tokens[v]
    BY <1>1, <1>3 DEF CreateTokens, TypeOK
  <1>4. ASSUME NEW r \in Requests, SessionsStep(r)
        PROVE  tokens'[v] = tokens[v] /\ req'[v] = req[v]
    <2>1. CASE SignUpBegin(r)
      BY <1>2, <2>1 DEF SignUpBegin
    <2>2. CASE SignInBegin(r)
      BY <1>2, <2>2 DEF SignInBegin
    <2>3. CASE RefreshBegin(r)
      BY <1>2, <2>3 DEF RefreshBegin
    <2>4. CASE LogoutBegin(r)
      BY <1>2, <2>4 DEF LogoutBegin
    <2>5. CASE ChangePasswordBegin(r)
      BY <1>2, <2>5 DEF ChangePasswordBegin
    <2>6. CASE RefreshMint(r)
      BY <1>3, <2>6 DEF RefreshMint, At, Goto
    <2>7. CASE \/ SignUpCreate(r) \/ SignUpConflict(r) \/ SignInRead(r) \/ RefreshDelete(r)
               \/ RefreshUnknown(r) \/ RefreshExpired(r) \/ LogoutDelete(r)
               \/ LogoutUnknown(r) \/ ChangePasswordRead(r) \/ ChangePasswordUpdate(r)
               \/ ChangePasswordSweep(r)
      BY <2>7 DEF SignUpCreate, SignUpConflict, SignInRead, RefreshDelete, RefreshUnknown,
                  RefreshExpired, LogoutDelete, LogoutUnknown, ChangePasswordRead,
                  ChangePasswordUpdate, ChangePasswordSweep, Goto
    <2>8. QED
      BY <1>4, <2>1, <2>2, <2>3, <2>4, <2>5, <2>6, <2>7 DEF SessionsStep
  <1>5. ASSUME NEW r \in Requests, TwoFactorStep(r) \/ OAuthStep(r)
        PROVE  tokens'[v] = tokens[v] /\ req'[v] = req[v]
    <2>1. CASE Generate2FABegin(r)
      BY <1>2, <2>1 DEF Generate2FABegin
    <2>2. CASE Enable2FABegin(r)
      BY <1>2, <2>2 DEF Enable2FABegin
    <2>3. CASE Disable2FABegin(r)
      BY <1>2, <2>3 DEF Disable2FABegin
    <2>4. CASE VerifyBegin(r)
      BY <1>2, <2>4 DEF VerifyBegin
    <2>5. CASE CallbackBegin(r)
      BY <1>2, <2>5 DEF CallbackBegin
    <2>6. CASE \/ Generate2FARead(r) \/ Generate2FAWrite(r) \/ Enable2FARead(r)
               \/ Enable2FASet(r) \/ Disable2FARead(r) \/ Disable2FAUnset(r)
               \/ Disable2FAErase(r) \/ VerifyRead(r)
               \/ CallbackRead(r) \/ CallbackCreate(r) \/ CallbackConflict(r)
      BY <2>6 DEF Generate2FARead, Generate2FAWrite, Enable2FARead, Enable2FASet,
                  Disable2FARead, Disable2FAUnset, Disable2FAErase, VerifyRead,
                  CallbackRead, CallbackCreate, CallbackConflict, Goto
    <2>7. QED
      BY <1>5, <2>1, <2>2, <2>3, <2>4, <2>5, <2>6 DEF TwoFactorStep, OAuthStep
  <1>6. ASSUME NEW r \in Requests, Challenge(r)
        PROVE  tokens'[v] = tokens[v] /\ req'[v] = req[v]
    BY <1>1, <1>6 DEF Challenge, Goto, TypeOK
  <1>7. ASSUME NEW r \in Requests, OpenSession(r)
        PROVE  tokens'[v] = tokens[v] /\ req'[v] = req[v]
    BY <1>3, <1>7 DEF OpenSession, Goto
  <1>8. ASSUME NEW r \in Requests, Reply(r) \/ Drop(r)
        PROVE  tokens'[v] = tokens[v] /\ req'[v] = req[v]
    BY <1>8 DEF Reply, Drop, Goto
  <1>9. CASE Tick \/ Quiescent \/ UNCHANGED vars
    BY <1>9 DEF Tick, Quiescent, vars
  <1>10. QED
    BY <1>4, <1>5, <1>6, <1>7, <1>8, <1>9 DEF Next, Step

\* Every step keeps an enrolled account locked until its code is given.
LEMMA LockedStep == SessionInv /\ LockedUntilCode /\ [Next]_vars => LockedUntilCode'
  <1> SUFFICES ASSUME SessionInv, LockedUntilCode, [Next]_vars, NEW l \in Enrolled
               PROVE  CodeGiven(l)' \/ Locked(l)'
    BY DEF LockedUntilCode
  <1>1. CASE CodeGiven(l)
    BY <1>1, MintedKept DEF CodeGiven, Minted
  <1>2. CASE Locked(l)
    <2>1. ASSUME NEW r \in Requests, Step(r) PROVE CodeGiven(l)' \/ Locked(l)'
      BY <1>2, <2>1, SessionsLocked, TwoFactorLocked, OAuthLocked, OpenSessionLocked, RestLocked
      DEF Step
    <2>2. CASE Tick \/ Quiescent \/ UNCHANGED vars
      <3>1. UNCHANGED <<users, tokens, req, pc>>
        BY <2>2 DEF Tick, Quiescent, vars
      <3>2. QED
        BY <1>2, <3>1 DEF Locked, Minted
    <2>3. QED
      BY <2>1, <2>2 DEF Next
  <1>3. QED
    BY <1>1, <1>2 DEF LockedUntilCode

\* An account with 2FA on from the start is locked at the start.
LEMMA LockedInit == StoreInit => LockedUntilCode
  <1> SUFFICES ASSUME StoreInit, NEW l \in Enrolled PROVE Locked(l)
    BY DEF LockedUntilCode
  <1>1. l \in Registered /\ l \in Logins
    BY AccountsAssumption
  <1>2. PICK password \in [Registered -> Passwords \ WeakPasswords] :
          users = [m \in Logins |->
                     IF m \in Registered
                     THEN [exists |-> TRUE, external |-> FALSE,
                           password |-> password[m],
                           secret |-> IF m \in Enrolled THEN FirstSecret ELSE NoSecret,
                           enabled |-> m \in Enrolled]
                     ELSE NoUser]
    BY DEF StoreInit
  <1>3. users[l] = [exists |-> TRUE, external |-> FALSE, password |-> password[l],
                    secret |-> FirstSecret, enabled |-> TRUE]
    BY <1>1, <1>2
  <1>4. /\ users[l].exists /\ ~users[l].external
        /\ users[l].enabled /\ users[l].secret = FirstSecret
    BY <1>3
  <1>5. \A r \in Requests : ~Minted(r) /\ ~About(req[r], l)
    BY DEF StoreInit, Minted, NoTokens, About, NoInput
  <1>6. QED
    BY <1>4, <1>5 DEF Locked

\* An account with 2FA on stays as it was enrolled, with no token of it out and
\* no request for it past the check of its code, until a code of its secret is
\* given: nothing else switches 2FA off or changes the secret (startSession,
\* Generate2FA, Enable2FA, Disable2FA, VerifyTwoFactor).
THEOREM LockedUntilGiven == Spec => []LockedUntilCode
  <1>1. StoreInit => SessionInv /\ LockedUntilCode
    BY SessionInit, LockedInit
  <1>2. SessionInv /\ LockedUntilCode /\ [Next]_vars => (SessionInv /\ LockedUntilCode)'
    BY SessionStep, LockedStep
  <1>3. QED
    BY <1>1, <1>2, PTL DEF Spec

\* Nobody gets an access token of an account with 2FA on before a code of its
\* secret was given, whatever else is signed in, verified, enabled or disabled
\* at the same time (startSession, parseToken, VerifyTwoFactor).
THEOREM CodeComesFirst == Spec => []CodeBeforeSession
  <1>1. LockedUntilCode => CodeBeforeSession
    BY DEF LockedUntilCode, CodeGiven, Locked, CodeBeforeSession
  <1>2. QED
    BY <1>1, LockedUntilGiven, PTL
----------------------------------------------------------------------------
(***************************************************************************)
(* An account is entered by its own door only: through GitHub if GitHub    *)
(* made it, and in no case otherwise.                                      *)
(***************************************************************************)

\* A step of request r leaves every other request alone, takes back no token and
\* turns no account into another.
StepOf(r) ==
    /\ \A q \in Requests : q # r => /\ req'[q] = req[q]
                                    /\ pc'[q] = pc[q]
                                    /\ tokens'[q] = tokens[q]
    /\ tokens[r] # NoTokens => tokens'[r] = tokens[r]
    /\ pc[r] # "idle" => req'[r] = req[r]
    /\ \A l \in Logins : users[l].exists => /\ users'[l].exists
                                            /\ users'[l].external = users[l].external

\* Tokens once minted stay, and so does the input of the request that minted them.
LEMMA TokensStay ==
    ASSUME SessionInv, NEW r \in Requests, StepOf(r), NEW q \in Requests,
           tokens[q] # NoTokens
    PROVE  tokens'[q] = tokens[q] /\ req'[q] = req[q]
  BY DEF SessionInv, MintedLast, StepOf

\* The sign-in behind the tokens of a request, and what it was, never change.
LEMMA OriginStays ==
    ASSUME SessionInv, ProviderInv, NEW r \in Requests, StepOf(r),
           NEW q \in Requests, pc[q] \notin {"idle", "rejected"},
           tokens'[q] = tokens[q] \/ (~Minted(q)' /\ ~Minted(q))
    PROVE  req[Origin(q)]' = req[Origin(q)]
  <1>1. TypeOK /\ req'[q] = req[q]
    BY DEF SessionInv, TypeInv, StepOf
  <1>2. Minted(q)' <=> Minted(q)
    BY DEF Minted
  <1>3. PICK s \in Requests :
            /\ s = (IF Minted(q) THEN tokens[q].session ELSE q)
            /\ s = (IF Minted(q)' THEN tokens'[q].session ELSE q)
            /\ pc[s] \notin {"idle", "rejected"}
            /\ req'[s] = req[s]
    <2>1. CASE Minted(q)
      <3>1. Opened(tokens[q].session) /\ tokens[q].session \in Requests
        BY <1>1, <2>1 DEF SessionInv, PairsRooted, Minted, TypeOK, AuthTokens,
                          TwoFactorTokens, NoTokens
      <3>2. tokens[tokens[q].session] # NoTokens
        BY <3>1 DEF Opened, Minted, NoTokens
      <3>3. QED
        BY <1>2, <2>1, <3>1, <3>2, TokensStay DEF SessionInv, MintedLast
    <2>2. CASE ~Minted(q)
      BY <1>1, <1>2, <2>2
    <2>3. QED
      BY <2>1, <2>2
  <1>4. CASE req[s].op = "VerifyTwoFactor"
    <2>1. tokens[req[s].token].audience = "2fa"
      BY <1>3, <1>4 DEF ProviderInv, Entered
    <2>2. req[s].token \in Requests
      BY <1>1, <1>4 DEF TypeOK, Input
    <2>3. req'[req[s].token] = req[req[s].token]
      BY <2>1, <2>2, TokensStay DEF NoTokens
    <2>4. QED
      BY <1>3, <1>4, <2>3 DEF Origin
  <1>5. CASE req[s].op # "VerifyTwoFactor"
    BY <1>3, <1>5 DEF Origin
  <1>6. QED
    BY <1>4, <1>5

\* An account once entered by its own door always was.
LEMMA DoorStays ==
    ASSUME SessionInv, ProviderInv, NEW r \in Requests, StepOf(r),
           NEW q \in Requests, pc[q] \notin {"idle", "rejected"},
           tokens'[q] = tokens[q] \/ (~Minted(q)' /\ ~Minted(q)),
           NEW l \in Logins, OwnDoor(q, l)
    PROVE  OwnDoor(q, l)'
  <1>1. req[Origin(q)]' = req[Origin(q)]
    BY OriginStays
  <1>2. users'[l].exists /\ users'[l].external = users[l].external
    BY DEF StepOf, OwnDoor
  <1>3. QED
    BY <1>1, <1>2 DEF OwnDoor

\* What one request has learned no step of another takes back.
LEMMA OthersEntered ==
    ASSUME SessionInv, ProviderInv, NEW r \in Requests, StepOf(r), Entered(r)'
    PROVE  ProviderInv'
  <1> SUFFICES ASSUME NEW q \in Requests, q # r PROVE Entered(q)'
    BY DEF ProviderInv
  <1>1. TypeOK
    BY DEF SessionInv, TypeInv
  <1>2. Entered(q) /\ req'[q] = req[q] /\ pc'[q] = pc[q] /\ tokens'[q] = tokens[q]
    BY DEF ProviderInv, StepOf
  <1>3. ASSUME tokens[q] # NoTokens PROVE OwnDoor(q, tokens[q].user)'
    <2>1. tokens[q].user \in Logins /\ pc[q] \notin {"idle", "rejected"}
      BY <1>1, <1>3 DEF TypeOK, AuthTokens, TwoFactorTokens, SessionInv, MintedLast
    <2>2. PICK l \in Logins : l = tokens[q].user
      BY <2>1
    <2>3. OwnDoor(q, l)
      BY <1>2, <1>3, <2>2 DEF Entered
    <2>4. OwnDoor(q, l)'
      BY <1>2, <2>1, <2>3, DoorStays
    <2>5. QED
      BY <1>2, <2>2, <2>4 DEF OwnDoor
  <1>4. ASSUME pc[q] \in {"mint", "challenge"}, req[q].op # "Refresh"
        PROVE  OwnDoor(q, req[q].user)'
    <2>1. req[q].user \in Logins
      BY <1>1, <1>4, RequestUser DEF SessionInv, TypeInv, MintsForSomeone
    <2>2. PICK l \in Logins : l = req[q].user
      BY <2>1
    <2>3. OwnDoor(q, l)
      BY <1>2, <1>4, <2>2 DEF Entered
    <2>4. OwnDoor(q, l)'
      BY <1>2, <1>4, <2>3, DoorStays
    <2>5. QED
      BY <1>2, <2>2, <2>4 DEF OwnDoor
  <1>5. ASSUME req[q].op = "VerifyTwoFactor", pc[q] # "rejected"
        PROVE  tokens'[req[q].token] = tokens[req[q].token]
    <2>1. req[q].token \in Requests
      BY <1>1, <1>5 DEF TypeOK, Input
    <2>2. tokens[req[q].token] # NoTokens
      BY <1>2, <1>5 DEF Entered, NoTokens
    <2>3. QED
      BY <2>1, <2>2, TokensStay
  <1>6. ASSUME req[q].op = "ChangePassword"
        PROVE  /\ users'[req[q].user].exists
               /\ users'[req[q].user].external = users[req[q].user].external
    <2>1. req[q].user \in Logins
      BY <1>1, <1>6, RequestUser
    <2>2. QED
      BY <1>2, <1>6, <2>1 DEF Entered, StepOf
  <1>7. QED
    BY <1>2, <1>3, <1>4, <1>5, <1>6 DEF Entered

\* A request arrives with tokens of the kind its operation asks for.
LEMMA AdmitEntered ==
    ASSUME SessionInv, ProviderInv, NEW r \in Requests, NEW input \in Input, NEW next,
           Admit(r, input, next),
           next \notin {"mint", "challenge", "update", "sweep"},
           input.op = "VerifyTwoFactor" /\ next # "rejected" =>
               /\ tokens[input.token].audience = "2fa"
               /\ tokens[input.token].user = input.user,
           input.op = "ChangePassword" => users[input.user].exists
    PROVE  ProviderInv'
  <1>1. TypeOK /\ tokens[r] = NoTokens
    BY DEF SessionInv, TypeInv, MintedLast, Admit
  <1>2. /\ UNCHANGED <<users, tokens>> /\ req'[r] = input /\ pc'[r] = next /\ pc[r] = "idle"
        /\ \A q \in Requests : q # r => req'[q] = req[q] /\ pc'[q] = pc[q]
    BY <1>1 DEF Admit, TypeOK
  <1>3. StepOf(r)
    BY <1>2 DEF StepOf
  <1>4. Entered(r)'
    BY <1>1, <1>2 DEF Entered, NoTokens
  <1>5. QED
    BY <1>3, <1>4, OthersEntered

\* A request comes to its next call: to the mint only by the account's own door.
LEMMA GotoEntered ==
    ASSUME SessionInv, ProviderInv, NEW r \in Requests, NEW next, Goto(r, next),
           UNCHANGED tokens, pc[r] \in Working,
           \A l \in Logins : users[l].exists => /\ users'[l].exists
                                                /\ users'[l].external = users[l].external,
           next \in {"mint", "challenge"} /\ req[r].op # "Refresh" => OwnDoor(r, req[r].user)',
           next = "challenge" => req[r].op \in {"SignIn", "GitHubCallback"},
           req[r].op = "ChangePassword" /\ next \in {"update", "sweep"} =>
               ~users[req[r].user].external
    PROVE  ProviderInv'
  <1>1. TypeOK /\ Entered(r)
    BY DEF SessionInv, TypeInv, ProviderInv
  <1>2. /\ req' = req /\ pc'[r] = next /\ pc[r] \notin {"idle", "rejected"}
        /\ \A q \in Requests : q # r => pc'[q] = pc[q]
    BY <1>1 DEF Goto, TypeOK, Working
  <1>3. StepOf(r)
    BY <1>2 DEF StepOf
  <1>4. ASSUME tokens[r] # NoTokens PROVE OwnDoor(r, tokens[r].user)'
    <2>1. tokens[r].user \in Logins
      BY <1>1, <1>4 DEF TypeOK, AuthTokens, TwoFactorTokens
    <2>2. PICK l \in Logins : l = tokens[r].user
      BY <2>1
    <2>3. OwnDoor(r, l)
      BY <1>1, <1>4, <2>2 DEF Entered
    <2>4. OwnDoor(r, l)'
      BY <1>2, <1>3, <2>3, DoorStays
    <2>5. QED
      BY <2>2, <2>4 DEF OwnDoor
  <1>5. req[r].op = "ChangePassword" =>
            /\ users'[req[r].user].exists
            /\ users'[req[r].user].external = users[req[r].user].external
    BY <1>1, RequestUser DEF Entered
  <1>6. Entered(r)'
    BY <1>1, <1>2, <1>4, <1>5 DEF Entered
  <1>7. QED
    BY <1>3, <1>6, OthersEntered

\* Whatever a step does with passwords, secrets and switches, accounts stay.
LEMMA AccountsStay ==
    ASSUME TypeOK, NEW m,
           \/ UNCHANGED users
           \/ \E user \in User : CreateUser(m, user)
           \/ \E password : UpdatePassword(m, password)
           \/ \E secret : UpdateTOTPSecret(m, secret)
           \/ \E enabled : Set2FAStatus(m, enabled)
    PROVE  \A l \in Logins : users[l].exists =>
               users'[l].exists /\ users'[l].external = users[l].external
  BY DEF TypeOK, User, CreateUser, UpdatePassword, UpdateTOTPSecret, Set2FAStatus

\* A request that has no tokens yet and is no VerifyTwoFactor is its own origin.
LEMMA OwnOrigin ==
    ASSUME SessionInv, NEW r \in Requests, pc[r] \notin {"reply", "done", "dropped"},
           req[r].op # "VerifyTwoFactor"
    PROVE  Origin(r) = r
  BY DEF SessionInv, MintedLast, Minted, NoTokens, Origin

\* SignUp, SignIn and ChangePassword enter accounts with a password only, and a
\* refresh stays where it is.
LEMMA SessionsEntered ==
    ASSUME SessionInv, ProviderInv, NEW r \in Requests, SessionsStep(r)
    PROVE  ProviderInv'
  <1>0. TypeOK /\ Entered(r)
    BY DEF SessionInv, TypeInv, ProviderInv
  <1>1. CASE SignUpBegin(r)
    BY <1>1, AdmitEntered DEF SignUpBegin, Input
  <1>2. CASE SignInBegin(r)
    BY <1>2, AdmitEntered DEF SignInBegin, Input
  <1>3. CASE RefreshBegin(r)
    BY <1>3, AdmitEntered DEF RefreshBegin, Input, Presentable
  <1>4. CASE LogoutBegin(r)
    BY <1>4, AdmitEntered DEF LogoutBegin, Input, Presentable
  <1>5. CASE ChangePasswordBegin(r)
    <2>1. PICK t \in Presentable, old, new \in Passwords :
            Admit(r, [op |-> "ChangePassword", token |-> t, user |-> tokens[t].user,
                      oldPassword |-> old, newPassword |-> new],
                  IF ParseToken(t, "access") /\ Strong(new) THEN "read" ELSE "rejected")
      BY <1>5 DEF ChangePasswordBegin
    <2>2. t \in Requests /\ tokens[t].user \in Logins
      BY <1>0, PresentedUser
    <2>3. users[tokens[t].user].exists
      BY <2>2 DEF Presentable, ProviderInv, Entered, OwnDoor
    <2>4. QED
      BY <2>1, <2>2, <2>3, AdmitEntered DEF Input
  <1>6. CASE SignUpCreate(r)
    <2>1. /\ pc[r] = "create" /\ req[r].op = "SignUp" /\ req[r].user \in Logins
          /\ req[r].password \in Passwords
      BY <1>0, <1>6 DEF SignUpCreate, At, TypeOK, Input
    <2>2. NewUser(FALSE, req[r].password) \in User
      BY <2>1 DEF NewUser, User, Secrets
    <2>3. \A l \in Logins : users[l].exists =>
              users'[l].exists /\ users'[l].external = users[l].external
      BY <1>0, <1>6, <2>2, AccountsStay DEF SignUpCreate
    <2>4. OwnDoor(r, req[r].user)'
      <3>1. Origin(r)' = r /\ req' = req
        BY <1>6, <2>1, OwnOrigin DEF SignUpCreate, Goto, Origin, Minted
      <3>2. users'[req[r].user].exists /\ ~users'[req[r].user].external
        BY <1>0, <1>6, <2>1 DEF SignUpCreate, CreateUser, NewUser, TypeOK
      <3>3. QED
        BY <2>1, <3>1, <3>2 DEF OwnDoor
    <2>5. QED
      BY <1>6, <2>1, <2>3, <2>4, GotoEntered DEF SignUpCreate, Working
  <1>7. CASE SignInRead(r)
    <2>1. PICK next : /\ Goto(r, next)
                      /\ next \in {"mint", "challenge", "rejected"}
                      /\ next # "rejected" => /\ users[req[r].user].exists
                                              /\ ~users[req[r].user].external
      BY <1>7 DEF SignInRead, StartSession, ReadUserByLogin
    <2>2. pc[r] = "read" /\ req[r].op = "SignIn" /\ UNCHANGED <<users, tokens>>
      BY <1>7 DEF SignInRead, At
    <2>3. Origin(r)' = r /\ req' = req
      BY <2>1, <2>2, OwnOrigin DEF Goto, Origin, Minted
    <2>4. next # "rejected" => OwnDoor(r, req[r].user)'
      BY <2>1, <2>2, <2>3 DEF OwnDoor
    <2>5. QED
      BY <2>1, <2>2, <2>4, GotoEntered DEF Working
  <1>8. CASE SignUpConflict(r) \/ RefreshDelete(r) \/ RefreshUnknown(r) \/ RefreshExpired(r)
             \/ LogoutDelete(r) \/ LogoutUnknown(r)
    <2>1. PICK next \in {"mint", "rejected", "reply"} :
            /\ Goto(r, next) /\ UNCHANGED <<users, tokens>>
            /\ pc[r] \in Working
            /\ next = "mint" => req[r].op = "Refresh"
      BY <1>8 DEF SignUpConflict, RefreshDelete, RefreshUnknown, RefreshExpired,
                  LogoutDelete, LogoutUnknown, At, Working
    <2>2. QED
      BY <2>1, GotoEntered
  <1>9. CASE ChangePasswordRead(r)
    <2>1. PICK next : /\ Goto(r, next)
                      /\ \/ next = "rejected"
                         \/ next = "update" /\ ~users[req[r].user].external
      BY <1>9 DEF ChangePasswordRead
    <2>2. QED
      BY <1>9, <2>1, GotoEntered DEF ChangePasswordRead, At, Working
  <1>10. CASE ChangePasswordUpdate(r)
    <2>1. /\ pc[r] = "update" /\ req[r].op = "ChangePassword"
          /\ ~users[req[r].user].external
      BY <1>0, <1>10 DEF ChangePasswordUpdate, At, Entered
    <2>2. \A l \in Logins : users[l].exists =>
              users'[l].exists /\ users'[l].external = users[l].external
      BY <1>0, <1>10, AccountsStay DEF ChangePasswordUpdate
    <2>3. QED
      BY <1>10, <2>1, <2>2, GotoEntered DEF ChangePasswordUpdate, Working
  <1>11. CASE ChangePasswordSweep(r)
    <2>1. /\ pc[r] = "sweep" /\ req[r].op = "ChangePassword"
          /\ users[req[r].user].exists /\ ~users[req[r].user].external
          /\ UNCHANGED <<users, tokens>> /\ Goto(r, "mint")
      BY <1>0, <1>11 DEF ChangePasswordSweep, At, Entered
    <2>2. Origin(r)' = r /\ req' = req
      BY <2>1, OwnOrigin DEF Goto, Origin, Minted
    <2>3. OwnDoor(r, req[r].user)'
      BY <2>1, <2>2 DEF OwnDoor
    <2>4. QED
      BY <2>1, <2>3, GotoEntered DEF Working
  <1>12. CASE RefreshMint(r)
    <2>1. Renewing(r) /\ UNCHANGED <<users, req>>
      BY <1>12 DEF RefreshMint, Renewing, Goto
    <2>2. PICK t \in Requests : t = req[r].token /\ Minted(t) /\ tokens[t] \in AuthTokens
      BY <1>0, <2>1, SpentType DEF SessionInv, SpentIsGone, Redeemed
    <2>3. /\ tokens[r] = NoTokens
          /\ tokens'[r].audience = "access" /\ tokens'[r].user = tokens[t].user
          /\ tokens'[r].session = tokens[t].session
          /\ pc[r] = "mint" /\ pc'[r] = "reply" /\ req[r].op = "Refresh"
          /\ \A q \in Requests : q # r => tokens'[q] = tokens[q] /\ pc'[q] = pc[q]
      BY <1>0, <1>12, <2>2
      DEF RefreshMint, CreateTokens, Goto, At, TypeOK, SessionInv, MintedLast
    <2>4. StepOf(r)
      BY <2>1, <2>3 DEF StepOf
    <2>5. PICK l \in Logins : l = tokens[t].user
      BY <2>2 DEF AuthTokens
    <2>6. OwnDoor(t, l)'
      <3>1. OwnDoor(t, l) /\ pc[t] \notin {"idle", "rejected"} /\ t # r
        BY <2>2, <2>3, <2>5
        DEF ProviderInv, Entered, SessionInv, MintedLast, Minted, NoTokens
      <3>2. QED
        BY <2>3, <2>4, <3>1, DoorStays
    <2>7. Origin(r)' = Origin(t)'
      BY <2>2, <2>3 DEF Origin, Minted, NoTokens
    <2>8. OwnDoor(r, l)'
      BY <2>6, <2>7 DEF OwnDoor
    <2>9. Entered(r)'
      BY <2>1, <2>3, <2>5, <2>8 DEF Entered, OwnDoor
    <2>10. QED
      BY <2>4, <2>9, OthersEntered
  <1>13. QED
    BY <1>1, <1>2, <1>3, <1>4, <1>5, <1>6, <1>7, <1>8, <1>9, <1>10, <1>11, <1>12
    DEF SessionsStep

\* A right code lets its account in the way the half sign-in came; nothing else
\* about two-factor sign-in opens a session.
LEMMA TwoFactorEntered ==
    ASSUME SessionInv, ProviderInv, NEW r \in Requests, TwoFactorStep(r)
    PROVE  ProviderInv'
  <1>0. TypeOK /\ Entered(r)
    BY DEF SessionInv, TypeInv, ProviderInv
  <1>1. CASE Generate2FABegin(r)
    BY <1>0, <1>1, PresentedUser, AdmitEntered
    DEF Generate2FABegin, Authenticated, Input, Presentable
  <1>2. CASE Enable2FABegin(r)
    BY <1>0, <1>2, PresentedUser, KnownSecretsType, AdmitEntered
    DEF Enable2FABegin, Authenticated, Input, Presentable
  <1>3. CASE Disable2FABegin(r)
    BY <1>0, <1>3, PresentedUser, KnownSecretsType, AdmitEntered
    DEF Disable2FABegin, Authenticated, Input, Presentable
  <1>4. CASE VerifyBegin(r)
    BY <1>0, <1>4, PresentedUser, KnownSecretsType, AdmitEntered
    DEF VerifyBegin, ParseToken, Input, Presentable
  <1>5. CASE VerifyRead(r)
    <2>1. PICK next \in {"mint", "rejected"} : Goto(r, next)
      BY <1>5 DEF VerifyRead
    <2>2. pc[r] = "read" /\ req[r].op = "VerifyTwoFactor" /\ UNCHANGED <<users, tokens>>
      BY <1>5 DEF VerifyRead, At
    <2>3. PICK t \in Requests :
            t = req[r].token /\ tokens[t].audience = "2fa" /\ tokens[t].user = req[r].user
      BY <1>0, <2>2 DEF TypeOK, Input, Entered
    <2>4. OwnDoor(t, req[r].user) /\ Origin(t) = t
      BY <2>3 DEF ProviderInv, Entered, NoTokens, Origin, Minted
    <2>5. Origin(r)' = t /\ req' = req
      BY <2>1, <2>2, <2>3 DEF SessionInv, MintedLast, Minted, NoTokens, Origin, Goto
    <2>6. OwnDoor(r, req[r].user)'
      BY <2>2, <2>4, <2>5 DEF OwnDoor
    <2>7. QED
      BY <2>1, <2>2, <2>6, GotoEntered DEF Working
  <1>6. CASE Generate2FARead(r) \/ Enable2FARead(r) \/ Disable2FARead(r)
    <2>1. PICK next \in {"rejected", "write", "set", "unset"} : Goto(r, next)
      BY <1>6 DEF Generate2FARead, Enable2FARead, Disable2FARead
    <2>2. pc[r] \in Working /\ UNCHANGED <<users, tokens>>
      BY <1>6 DEF Generate2FARead, Enable2FARead, Disable2FARead, At, Working
    <2>3. QED
      BY <2>1, <2>2, GotoEntered
  <1>7. CASE \/ Generate2FAWrite(r) \/ Enable2FASet(r)
             \/ Disable2FAUnset(r) \/ Disable2FAErase(r)
    <2>1. \A l \in Logins : users[l].exists =>
              users'[l].exists /\ users'[l].external = users[l].external
      BY <1>0, <1>7, AccountsStay
      DEF Generate2FAWrite, Enable2FASet, Disable2FAUnset, Disable2FAErase
    <2>2. PICK next \in {"reply", "erase"} : Goto(r, next)
      BY <1>7 DEF Generate2FAWrite, Enable2FASet, Disable2FAUnset, Disable2FAErase
    <2>3. pc[r] \in Working /\ UNCHANGED tokens
      BY <1>7 DEF Generate2FAWrite, Enable2FASet, Disable2FAUnset, Disable2FAErase,
                  At, Working
    <2>4. QED
      BY <2>1, <2>2, <2>3, GotoEntered
  <1>8. QED
    BY <1>1, <1>2, <1>3, <1>4, <1>5, <1>6, <1>7 DEF TwoFactorStep

\* A callback enters the account it finds by email, which only GitHub makes, or
\* the one it has made.
LEMMA OAuthEntered ==
    ASSUME SessionInv, ProviderInv, NEW r \in Requests, OAuthStep(r)
    PROVE  ProviderInv'
  <1>0. TypeOK /\ Entered(r)
    BY DEF SessionInv, TypeInv, ProviderInv
  <1>1. CASE CallbackBegin(r)
    BY <1>1, EmailsAssumption, AdmitEntered DEF CallbackBegin, Input
  <1>2. CASE CallbackRead(r)
    <2>1. PICK next : /\ Goto(r, next)
                      /\ next \in {"mint", "challenge", "create"}
                      /\ next # "create" => /\ users[req[r].user].exists
                                            /\ users[req[r].user].external
      BY <1>2 DEF CallbackRead, StartSession, ReadUserByEmail
    <2>2. pc[r] = "read" /\ req[r].op = "GitHubCallback" /\ UNCHANGED <<users, tokens>>
      BY <1>2 DEF CallbackRead, At
    <2>3. Origin(r)' = r /\ req' = req
      BY <2>1, <2>2, OwnOrigin DEF Goto, Origin, Minted
    <2>4. next # "create" => OwnDoor(r, req[r].user)'
      BY <2>1, <2>2, <2>3 DEF OwnDoor
    <2>5. QED
      BY <2>1, <2>2, <2>4, GotoEntered DEF Working
  <1>3. CASE CallbackCreate(r)
    <2>1. pc[r] = "create" /\ req[r].op = "GitHubCallback" /\ req[r].user \in Logins
      BY <1>0, <1>3, RequestUser DEF CallbackCreate, At
    <2>2. NewUser(TRUE, NoPassword) \in User
      BY DEF NewUser, User, Secrets
    <2>3. \A l \in Logins : users[l].exists =>
              users'[l].exists /\ users'[l].external = users[l].external
      BY <1>0, <1>3, <2>2, AccountsStay DEF CallbackCreate
    <2>4. OwnDoor(r, req[r].user)'
      <3>1. Origin(r)' = r /\ req' = req
        BY <1>3, <2>1, OwnOrigin DEF CallbackCreate, Goto, Origin, Minted
      <3>2. users'[req[r].user].exists /\ users'[req[r].user].external
        BY <1>0, <1>3, <2>1 DEF CallbackCreate, CreateUser, NewUser, TypeOK
      <3>3. QED
        BY <2>1, <3>1, <3>2 DEF OwnDoor
    <2>5. QED
      BY <1>3, <2>1, <2>3, <2>4, GotoEntered DEF CallbackCreate, Working
  <1>4. CASE CallbackConflict(r)
    BY <1>4, GotoEntered DEF CallbackConflict, At, Working
  <1>5. QED
    BY <1>1, <1>2, <1>3, <1>4 DEF OAuthStep

\* Tokens are minted for the account that was entered.
LEMMA MintEntered ==
    ASSUME SessionInv, ProviderInv, NEW r \in Requests, OpenSession(r) \/ Challenge(r)
    PROVE  ProviderInv'
  <1>1. TypeOK /\ Entered(r) /\ tokens[r] = NoTokens
    BY DEF SessionInv, TypeInv, ProviderInv, MintedLast, OpenSession, Challenge
  <1>2. /\ pc[r] \in {"mint", "challenge"} /\ req[r].op \notin {"none", "Refresh", "Logout"}
        /\ pc'[r] = "reply" /\ UNCHANGED <<users, req>>
        /\ \A q \in Requests : q # r => tokens'[q] = tokens[q] /\ pc'[q] = pc[q]
        /\ tokens'[r].user = req[r].user
        /\ \/ tokens'[r].audience = "access" /\ tokens'[r].session = r
           \/ tokens'[r].audience = "2fa" /\ pc[r] = "challenge"
    BY <1>1
    DEF OpenSession, Challenge, CreateTokens, Goto, TypeOK, SessionInv, TypeInv, MintsForSomeone
  <1>3. StepOf(r)
    BY <1>1, <1>2 DEF StepOf
  <1>4. Origin(r)' = Origin(r)
    BY <1>1, <1>2 DEF Origin, Minted, NoTokens
  <1>5. OwnDoor(r, req[r].user)'
    BY <1>1, <1>2, <1>4 DEF Entered, OwnDoor
  <1>6. req[r].op = "VerifyTwoFactor" =>
            /\ tokens'[req[r].token].audience = "2fa"
            /\ tokens'[req[r].token].user = req[r].user
    BY <1>1, <1>2 DEF Entered, TypeOK, Input, NoTokens
  <1>7. Entered(r)'
    BY <1>1, <1>2, <1>5, <1>6 DEF Entered, OwnDoor
  <1>8. QED
    BY <1>3, <1>7, OthersEntered

\* At the start nobody has entered anything.
LEMMA ProviderInit == StoreInit => ProviderInv
  BY DEF StoreInit, ProviderInv, Entered, NoTokens, NoInput

\* Every step keeps the doors apart.
LEMMA ProviderStep == SessionInv /\ ProviderInv /\ [Next]_vars => ProviderInv'
  <1> SUFFICES ASSUME SessionInv, ProviderInv, [Next]_vars PROVE ProviderInv'
    OBVIOUS
  <1>1. ASSUME NEW r \in Requests, Reply(r) \/ Drop(r) PROVE ProviderInv'
    <2>1. PICK next \in {"done", "dropped"} : Goto(r, next)
      BY <1>1 DEF Reply, Drop
    <2>2. pc[r] \in Working /\ UNCHANGED <<users, tokens>>
      BY <1>1 DEF Reply, Drop, Working
    <2>3. QED
      BY <2>1, <2>2, GotoEntered
  <1>2. ASSUME NEW r \in Requests, Step(r) PROVE ProviderInv'
    BY <1>1, <1>2, SessionsEntered, TwoFactorEntered, OAuthEntered, MintEntered DEF Step
  <1>3. CASE Tick \/ Quiescent \/ UNCHANGED vars
    <2>1. UNCHANGED <<users, tokens, req, pc>>
      BY <1>3 DEF Tick, Quiescent, vars
    <2>2. QED
      BY <2>1 DEF ProviderInv, Entered, OwnDoor, Origin, Minted
  <1>4. QED
    BY <1>2, <1>3 DEF Next

\* An account GitHub made is entered through GitHub only and an account with a
\* password never is, also when both have the same address, a sign-up and a
\* callback race for it, or the sign-in is completed by a code, renewed or
\* replaced by a password change (SignIn, HandleOAuthCallback, createOAuthUser).
THEOREM DoorsStayApart == Spec => []ProviderOnly
  <1>1. StoreInit => SessionInv /\ ProviderInv
    BY SessionInit, ProviderInit
  <1>2. SessionInv /\ ProviderInv /\ [Next]_vars => (SessionInv /\ ProviderInv)'
    BY SessionStep, ProviderStep
  <1>3. ProviderInv => ProviderOnly
    BY DEF ProviderInv, Entered, OwnDoor, ProviderOnly
  <1>4. QED
    BY <1>1, <1>2, <1>3, PTL DEF Spec
----------------------------------------------------------------------------
(***************************************************************************)
(* The switch and the secret stay together wherever an operation is cut    *)
(* short and whatever overlaps, unless an Enable2FA overlaps one of the    *)
(* operations that write the secret.                                       *)
(***************************************************************************)

\* A step of request r: the other requests stay where they are, accounts stay,
\* and what it makes overlap goes on record.
OwnStep(r) ==
    /\ \A q \in Requests : q # r => req'[q] = req[q] /\ pc'[q] = pc[q]
    /\ pc[r] # "idle" => req'[r] = req[r]
    /\ pc[r] \in {"set", "reply"} => pc'[r] \in {"reply", "done", "dropped"}
    /\ pc[r] \in {"idle"} \cup Working
    /\ \A l \in Logins : users[l].exists => users'[l].exists
    /\ contested' = contested \cup Contested'

\* A request is admitted in front of its first call.
LEMMA AdmitOwn ==
    ASSUME SessionInv, NEW r \in Requests, NEW input, NEW next, Admit(r, input, next),
           contested' = contested \cup Contested'
    PROVE  OwnStep(r) /\ UNCHANGED users /\ pc'[r] = next /\ req'[r] = input
  BY DEF SessionInv, TypeInv, TypeOK, Admit, OwnStep

\* A request in hand goes on.
LEMMA GotoOwn ==
    ASSUME SessionInv, NEW r \in Requests, NEW next, Goto(r, next), pc[r] \in Working,
           pc[r] \in {"set", "reply"} => next \in {"reply", "done", "dropped"},
           \A l \in Logins : users[l].exists => users'[l].exists,
           contested' = contested \cup Contested'
    PROVE  OwnStep(r) /\ req' = req /\ pc'[r] = next
  BY DEF SessionInv, TypeInv, TypeOK, Goto, OwnStep

\* What was confirmed stays confirmed.
LEMMA ConfirmedStays ==
    ASSUME NEW r \in Requests, OwnStep(r), NEW l, NEW s, Confirmed(l, s)
    PROVE  Confirmed(l, s)'
  <1>1. CASE l \in Enrolled /\ s = FirstSecret
    BY <1>1 DEF Confirmed
  <1>2. CASE ~(l \in Enrolled /\ s = FirstSecret)
    <2>1. PICK e \in Requests :
            /\ req[e].op = "Enable2FA" /\ req[e].user = l /\ req[e].code = s
            /\ pc[e] \in {"set", "reply", "done", "dropped"}
      BY <1>2 DEF Confirmed
    <2>2. req'[e] = req[e] /\ pc'[e] \in {"set", "reply", "done", "dropped"}
      BY <2>1 DEF OwnStep, Working
    <2>3. QED
      BY <2>1, <2>2 DEF Confirmed
  <1>3. QED
    BY <1>1, <1>2

\* Who is about to write the secret and who is about to turn the switch on for
\* one account are on record.
LEMMA WritersAreContested ==
    ASSUME ConfirmedInv, TypeOK, NEW q \in Requests, NEW r \in Requests,
           At(q, "Enable2FA", "set"), req[r].user = req[q].user,
           At(r, "Generate2FA", "write") \/ At(r, "Disable2FA", "erase")
    PROVE  req[q].user \in contested
  <1>1. req[q].user \in Logins
    BY RequestUser DEF At
  <1>2. q \in InHand(req[q].user, {"Enable2FA"})
    BY DEF InHand, InFlight, At, Working
  <1>3. r \in InHand(req[q].user, {"Generate2FA", "Disable2FA"})
    BY DEF InHand, InFlight, At, Working
  <1>4. QED
    BY <1>1, <1>2, <1>3 DEF ConfirmedInv, Contested

\* A step that turns no switch on and writes no secret another request has
\* checked keeps the invariant as long as it checks before it writes.
LEMMA CalmConfirmed ==
    ASSUME SessionInv, ConfirmedInv, NEW r \in Requests, OwnStep(r), KeptBy(r)',
           \A l \in Logins \ contested :
               users'[l].enabled => /\ users[l].enabled
                                    /\ users'[l].secret = users[l].secret,
           \A q \in Requests \ {r} :
               At(q, "Enable2FA", "set") /\ req[q].user \notin contested =>
                   users'[req[q].user].secret = users[req[q].user].secret
    PROVE  ConfirmedInv'
  <1>0. TypeOK
    BY DEF SessionInv, TypeInv
  <1>1. Contested' \subseteq contested'
    BY DEF OwnStep
  <1>2. EnabledIsConfirmed'
    <2>1. ASSUME NEW l \in Logins, l \notin contested', users'[l].enabled
          PROVE  users'[l].secret # NoSecret /\ Confirmed(l, users[l].secret)'
      <3>1. /\ users[l].enabled /\ l \notin contested
            /\ users'[l].secret = users[l].secret
        BY <2>1 DEF OwnStep
      <3>2. users[l].secret # NoSecret /\ Confirmed(l, users[l].secret)
        BY <3>1 DEF ConfirmedInv, EnabledIsConfirmed, SecretIsConfirmed
      <3>3. PICK s : s = users[l].secret
        OBVIOUS
      <3>4. Confirmed(l, s)'
        BY <3>2, <3>3, ConfirmedStays
      <3>5. QED
        BY <3>1, <3>2, <3>3, <3>4 DEF Confirmed
    <2>2. QED
      BY <2>1 DEF EnabledIsConfirmed, SecretIsConfirmed
  <1>3. ASSUME NEW q \in Requests, q # r PROVE KeptBy(q)'
    <2>1. SUFFICES ASSUME req'[q].op \in SwitchOps PROVE KeptBy(q)'
      BY DEF KeptBy
    <2>2. /\ req'[q] = req[q] /\ pc'[q] = pc[q]
          /\ req[q].user \in Logins
          /\ users[req[q].user].exists
          /\ req[q].user \in contested \/ StillChecked(q)
      BY <1>0, <1>3, <2>1, RequestUser DEF OwnStep, ConfirmedInv, KeptBy, SwitchOps
    <2>3. users'[req'[q].user].exists
      BY <2>2 DEF OwnStep
    <2>4. CASE req[q].user \in contested
      BY <2>2, <2>3, <2>4 DEF KeptBy, OwnStep
    <2>5. CASE req[q].user \notin contested
      <3>1. StillChecked(q)'
        BY <1>3, <2>2, <2>5 DEF StillChecked, At
      <3>2. QED
        BY <2>3, <3>1 DEF KeptBy
    <2>6. QED
      BY <2>4, <2>5
  <1>4. QED
    BY <1>1, <1>2, <1>3 DEF ConfirmedInv, KeptBy

\* A request that arrives has written nothing yet.
LEMMA AdmitConfirmed ==
    ASSUME SessionInv, ConfirmedInv, contested' = contested \cup Contested',
           NEW r \in Requests, NEW input, NEW next, Admit(r, input, next),
           next \in {"create", "read", "delete", "rejected"},
           input.op \in SwitchOps => users[input.user].exists
    PROVE  ConfirmedInv'
  <1>1. OwnStep(r) /\ UNCHANGED users /\ pc'[r] = next /\ req'[r] = input
    BY AdmitOwn
  <1>2. KeptBy(r)'
    BY <1>1 DEF KeptBy, StillChecked, At
  <1>3. QED
    BY <1>1, <1>2, CalmConfirmed

\* A request that goes on to a call that relies on no check.
LEMMA GotoConfirmed ==
    ASSUME SessionInv, ConfirmedInv, contested' = contested \cup Contested',
           NEW r \in Requests, NEW next, Goto(r, next),
           pc[r] \in Working, next \notin {"write", "erase", "set"},
           pc[r] \in {"set", "reply"} => next \in {"reply", "done", "dropped"},
           \A l \in Logins : users[l].exists => /\ users'[l].exists
                                                /\ users'[l].secret = users[l].secret,
           \A l \in Logins : users'[l].enabled => /\ users[l].enabled
                                                  /\ users'[l].secret = users[l].secret
    PROVE  ConfirmedInv'
  <1>1. OwnStep(r) /\ req' = req /\ pc'[r] = next
    BY GotoOwn
  <1>2. TypeOK
    BY DEF SessionInv, TypeInv
  <1>3. KeptBy(r)'
    BY <1>1, <1>2, RequestUser DEF KeptBy, StillChecked, At, ConfirmedInv, SwitchOps
  <1>4. \A q \in Requests \ {r} : At(q, "Enable2FA", "set") =>
            users'[req[q].user].secret = users[req[q].user].secret
    BY <1>2, RequestUser DEF ConfirmedInv, KeptBy, SwitchOps, At
  <1>5. QED
    BY <1>1, <1>3, <1>4, CalmConfirmed

\* Sign-ins, sign-ups and password changes leave secrets and switches alone.
LEMMA SessionsConfirmed ==
    ASSUME SessionInv, ConfirmedInv, contested' = contested \cup Contested',
           NEW r \in Requests, SessionsStep(r) \/ OAuthStep(r)
    PROVE  ConfirmedInv'
  <1>0. TypeOK
    BY DEF SessionInv, TypeInv
  <1>1. CASE \/ SignUpBegin(r) \/ SignInBegin(r) \/ RefreshBegin(r) \/ LogoutBegin(r)
             \/ ChangePasswordBegin(r) \/ CallbackBegin(r)
    <2>1. PICK input, next : /\ Admit(r, input, next)
                             /\ next \in {"create", "read", "delete", "rejected"}
                             /\ input.op \notin SwitchOps
      <3>1. CASE SignUpBegin(r)
        BY <3>1 DEF SignUpBegin, SwitchOps
      <3>2. CASE SignInBegin(r)
        BY <3>2 DEF SignInBegin, SwitchOps
      <3>3. CASE RefreshBegin(r)
        BY <3>3 DEF RefreshBegin, SwitchOps
      <3>4. CASE LogoutBegin(r)
        BY <3>4 DEF LogoutBegin, SwitchOps
      <3>5. CASE ChangePasswordBegin(r)
        BY <3>5 DEF ChangePasswordBegin, SwitchOps
      <3>6. CASE CallbackBegin(r)
        BY <3>6 DEF CallbackBegin, SwitchOps
      <3>7. QED
        BY <1>1, <3>1, <3>2, <3>3, <3>4, <3>5, <3>6
    <2>2. QED
      BY <2>1, AdmitConfirmed
  <1>2. CASE \/ SignUpConflict(r) \/ SignInRead(r) \/ RefreshDelete(r) \/ RefreshUnknown(r)
             \/ RefreshMint(r) \/ RefreshExpired(r) \/ LogoutDelete(r) \/ LogoutUnknown(r)
             \/ ChangePasswordRead(r) \/ ChangePasswordSweep(r)
             \/ CallbackRead(r) \/ CallbackConflict(r)
    <2>1. PICK next \in {"mint", "challenge", "create", "rejected", "reply", "update"} :
            Goto(r, next)
      BY <1>2 DEF SignUpConflict, SignInRead, RefreshDelete, RefreshUnknown, RefreshMint,
                  RefreshExpired, LogoutDelete, LogoutUnknown, ChangePasswordRead,
                  ChangePasswordSweep, CallbackRead, CallbackConflict, StartSession
    <2>2. UNCHANGED users /\ pc[r] \in Working \ {"set", "reply"}
      BY <1>2 DEF SignUpConflict, SignInRead, RefreshDelete, RefreshUnknown, RefreshMint,
                  RefreshExpired, LogoutDelete, LogoutUnknown, ChangePasswordRead,
                  ChangePasswordSweep, CallbackRead, CallbackConflict, At, Working
    <2>3. QED
      BY <2>1, <2>2, GotoConfirmed
  <1>3. CASE SignUpCreate(r) \/ CallbackCreate(r)
    <2>1. PICK user : CreateUser(req[r].user, user) /\ ~user.enabled /\ user.exists
      BY <1>3 DEF SignUpCreate, CallbackCreate, NewUser
    <2>2. /\ \A l \in Logins : users[l].exists => /\ users'[l].exists
                                                  /\ users'[l].secret = users[l].secret
          /\ \A l \in Logins : users'[l].enabled => /\ users[l].enabled
                                                    /\ users'[l].secret = users[l].secret
      BY <1>0, <2>1 DEF CreateUser, TypeOK
    <2>3. Goto(r, "mint") /\ pc[r] = "create"
      BY <1>3 DEF SignUpCreate, CallbackCreate, At
    <2>4. QED
      BY <2>2, <2>3, GotoConfirmed DEF Working
  <1>4. CASE ChangePasswordUpdate(r)
    <2>1. /\ \A l \in Logins : users[l].exists => /\ users'[l].exists
                                                  /\ users'[l].secret = users[l].secret
          /\ \A l \in Logins : users'[l].enabled => /\ users[l].enabled
                                                    /\ users'[l].secret = users[l].secret
      BY <1>0, <1>4 DEF ChangePasswordUpdate, UpdatePassword, TypeOK, User
    <2>2. QED
      BY <1>4, <2>1, GotoConfirmed DEF ChangePasswordUpdate, At, Working
  <1>5. QED
    BY <1>1, <1>2, <1>3, <1>4 DEF SessionsStep, OAuthStep

\* The operations on the switch and the secret check before they write, and
\* what they have checked is still so when they do, or the account is on record.
LEMMA TwoFactorConfirmed ==
    ASSUME SessionInv, ProviderInv, ConfirmedInv, contested' = contested \cup Contested',
           NEW r \in Requests, TwoFactorStep(r)
    PROVE  ConfirmedInv'
  <1>0. TypeOK /\ KeptBy(r)
    BY DEF SessionInv, TypeInv, ConfirmedInv, KeptBy
  <1>1. CASE \/ Generate2FABegin(r) \/ Enable2FABegin(r) \/ Disable2FABegin(r)
             \/ VerifyBegin(r)
    <2>1. \A t \in Presentable : users[tokens[t].user].exists
      BY DEF Presentable, ProviderInv, Entered, OwnDoor
    <2>2. PICK input, next : /\ Admit(r, input, next) /\ next \in {"read", "rejected"}
                             /\ users[input.user].exists
      <3>1. CASE Generate2FABegin(r)
        BY <2>1, <3>1 DEF Generate2FABegin, Authenticated
      <3>2. CASE Enable2FABegin(r)
        BY <2>1, <3>2 DEF Enable2FABegin, Authenticated
      <3>3. CASE Disable2FABegin(r)
        BY <2>1, <3>3 DEF Disable2FABegin, Authenticated
      <3>4. CASE VerifyBegin(r)
        BY <2>1, <3>4 DEF VerifyBegin
      <3>5. QED
        BY <1>1, <3>1, <3>2, <3>3, <3>4
    <2>3. QED
      BY <2>2, AdmitConfirmed
  <1>2. CASE Generate2FARead(r)
    <2>1. PICK next : /\ Goto(r, next)
                      /\ \/ next = "rejected"
                         \/ next = "write" /\ ~users[req[r].user].enabled
      BY <1>2 DEF Generate2FARead
    <2>2. pc[r] = "read" /\ req[r].op = "Generate2FA" /\ UNCHANGED users
      BY <1>2 DEF Generate2FARead, At
    <2>3. OwnStep(r) /\ req' = req /\ pc'[r] = next
      BY <2>1, <2>2, GotoOwn DEF Working
    <2>4. KeptBy(r)'
      BY <1>0, <2>1, <2>2, <2>3 DEF KeptBy, StillChecked, At
    <2>5. QED
      BY <2>2, <2>3, <2>4, CalmConfirmed
  <1>3. CASE Enable2FARead(r)
    <2>1. PICK next : /\ Goto(r, next)
                      /\ \/ next = "rejected"
                         \/ /\ next = "set" /\ req[r].code # NoSecret
                            /\ users[req[r].user].secret = req[r].code
      BY <1>3 DEF Enable2FARead, CheckCode
    <2>2. pc[r] = "read" /\ req[r].op = "Enable2FA" /\ UNCHANGED users
      BY <1>3 DEF Enable2FARead, At
    <2>3. OwnStep(r) /\ req' = req /\ pc'[r] = next
      BY <2>1, <2>2, GotoOwn DEF Working
    <2>4. KeptBy(r)'
      BY <1>0, <2>1, <2>2, <2>3 DEF KeptBy, StillChecked, At
    <2>5. QED
      BY <2>2, <2>3, <2>4, CalmConfirmed
  <1>4. CASE Disable2FARead(r) \/ VerifyRead(r)
    <2>1. PICK next \in {"mint", "unset", "rejected"} : Goto(r, next)
      BY <1>4 DEF Disable2FARead, VerifyRead
    <2>2. UNCHANGED users /\ pc[r] = "read"
      BY <1>4 DEF Disable2FARead, VerifyRead, At
    <2>3. QED
      BY <2>1, <2>2, GotoConfirmed DEF Working
  <1>5. CASE Generate2FAWrite(r) \/ Disable2FAErase(r)
    <2>1. /\ At(r, "Generate2FA", "write") \/ At(r, "Disable2FA", "erase")
          /\ \E secret : UpdateTOTPSecret(req[r].user, secret)
          /\ Goto(r, "reply") /\ pc[r] \in {"write", "erase"}
          /\ req[r].user \in Logins
      BY <1>0, <1>5, RequestUser DEF Generate2FAWrite, Disable2FAErase, At
    <2>2. /\ \A l \in Logins : /\ users'[l].enabled = users[l].enabled
                               /\ users'[l].exists = users[l].exists
          /\ \A l \in Logins : l # req[r].user => users'[l] = users[l]
      BY <1>0, <2>1 DEF UpdateTOTPSecret, TypeOK, User
    <2>3. OwnStep(r) /\ req' = req /\ pc'[r] = "reply"
      BY <2>1, <2>2, GotoOwn DEF Working
    <2>4. KeptBy(r)'
      BY <1>0, <2>1, <2>2, <2>3 DEF KeptBy, StillChecked, At
    <2>5. ASSUME NEW q \in Requests, q # r, At(q, "Enable2FA", "set"),
                 req[q].user \notin contested
          PROVE  users'[req[q].user].secret = users[req[q].user].secret
      <3>1. req[q].user # req[r].user
        BY <1>0, <2>1, <2>5, WritersAreContested
      <3>2. req[q].user \in Logins
        BY <1>0, <2>5, RequestUser DEF At
      <3>3. QED
        BY <2>2, <3>1, <3>2
    <2>6. \A l \in Logins \ contested :
              users'[l].enabled => /\ users[l].enabled
                                   /\ users'[l].secret = users[l].secret
      <3>1. req[r].user \notin contested => ~users[req[r].user].enabled
        BY <1>0, <2>1 DEF KeptBy, StillChecked, SwitchOps, At
      <3>2. QED
        BY <2>1, <2>2, <3>1
    <2>7. QED
      BY <2>3, <2>4, <2>5, <2>6, CalmConfirmed
  <1>6. CASE Disable2FAUnset(r)
    <2>1. /\ pc[r] = "unset" /\ req[r].op = "Disable2FA" /\ Goto(r, "erase")
          /\ req[r].user \in Logins
      BY <1>0, <1>6, RequestUser DEF Disable2FAUnset, At
    <2>2. /\ \A l \in Logins : /\ users'[l].exists = users[l].exists
                               /\ users'[l].secret = users[l].secret
                               /\ users'[l].enabled => users[l].enabled
          /\ ~users'[req[r].user].enabled
      BY <1>0, <1>6, <2>1 DEF Disable2FAUnset, Set2FAStatus, TypeOK, User
    <2>3. OwnStep(r) /\ req' = req /\ pc'[r] = "erase"
      BY <2>1, <2>2, GotoOwn DEF Working
    <2>4. KeptBy(r)'
      BY <1>0, <2>1, <2>2, <2>3 DEF KeptBy, StillChecked, At
    <2>5. \A q \in Requests \ {r} : At(q, "Enable2FA", "set") =>
              users'[req[q].user].secret = users[req[q].user].secret
      BY <1>0, <2>2, RequestUser DEF At
    <2>6. QED
      BY <2>2, <2>3, <2>4, <2>5, CalmConfirmed
  <1>7. CASE Enable2FASet(r)
    <2>1. /\ pc[r] = "set" /\ req[r].op = "Enable2FA" /\ Goto(r, "reply")
          /\ req[r].user \in Logins /\ users[req[r].user].exists
          /\ At(r, "Enable2FA", "set")
      BY <1>0, <1>7, RequestUser DEF Enable2FASet, At, KeptBy, SwitchOps
    <2>2. /\ \A l \in Logins : /\ users'[l].exists = users[l].exists
                               /\ users'[l].secret = users[l].secret
          /\ \A l \in Logins : l # req[r].user => users'[l] = users[l]
      BY <1>0, <1>7, <2>1 DEF Enable2FASet, Set2FAStatus, TypeOK, User
    <2>3. OwnStep(r) /\ req' = req /\ pc'[r] = "reply"
      BY <2>1, <2>2, GotoOwn DEF Working
    <2>4. EnabledIsConfirmed'
      <3>1. SUFFICES ASSUME NEW l \in Logins, l \notin contested', users'[l].enabled
                     PROVE  users'[l].secret # NoSecret /\ Confirmed(l, users[l].secret)'
        BY DEF EnabledIsConfirmed, SecretIsConfirmed
      <3>2. l \notin contested /\ users'[l].secret = users[l].secret
        BY <2>2, <2>3, <3>1 DEF OwnStep
      <3>3. CASE l = req[r].user
        <4>1. users[l].secret = req[r].code /\ req[r].code # NoSecret
          BY <1>0, <2>1, <3>2, <3>3 DEF KeptBy, StillChecked, SwitchOps
        <4>2. QED
          BY <2>1, <2>3, <3>2, <3>3, <4>1 DEF Confirmed
      <3>4. CASE l # req[r].user
        <4>1. users[l].secret # NoSecret /\ Confirmed(l, users[l].secret)
          BY <2>2, <3>1, <3>2, <3>4 DEF ConfirmedInv, EnabledIsConfirmed, SecretIsConfirmed
        <4>2. PICK s : s = users[l].secret
          OBVIOUS
        <4>3. Confirmed(l, s)'
          BY <2>3, <4>1, <4>2, ConfirmedStays
        <4>4. QED
          BY <3>2, <4>1, <4>2, <4>3 DEF Confirmed
      <3>5. QED
        BY <3>3, <3>4
    <2>5. ASSUME NEW q \in Requests PROVE KeptBy(q)'
      <3>1. CASE q = r
        BY <2>1, <2>2, <2>3, <3>1 DEF KeptBy, StillChecked, At
      <3>2. CASE q # r
        <4>1. SUFFICES ASSUME req'[q].op \in SwitchOps PROVE KeptBy(q)'
          BY DEF KeptBy
        <4>2. /\ req'[q] = req[q] /\ pc'[q] = pc[q] /\ req[q].user \in Logins
              /\ KeptBy(q) /\ contested \subseteq contested'
          BY <1>0, <2>3, <3>2, <4>1, RequestUser DEF OwnStep, ConfirmedInv, SwitchOps
        <4>3. users'[req'[q].user].exists
          BY <2>2, <4>1, <4>2 DEF KeptBy
        <4>4. CASE req[q].user \in contested
          BY <4>2, <4>3, <4>4 DEF KeptBy
        <4>5. CASE req[q].user \notin contested
          <5>1. StillChecked(q)
            BY <4>1, <4>2, <4>5 DEF KeptBy
          <5>2. At(q, "Generate2FA", "write") \/ At(q, "Disable2FA", "erase") =>
                    req[q].user # req[r].user
            BY <1>0, <2>1, <4>5, WritersAreContested
          <5>3. StillChecked(q)'
            BY <2>2, <4>2, <5>1, <5>2 DEF StillChecked, At
          <5>4. QED
            BY <4>3, <5>3 DEF KeptBy
        <4>6. QED
          BY <4>4, <4>5
      <3>3. QED
        BY <3>1, <3>2
    <2>6. Contested' \subseteq contested'
      BY <2>3 DEF OwnStep
    <2>7. QED
      BY <2>4, <2>5, <2>6 DEF ConfirmedInv
  <1>8. QED
    BY <1>1, <1>2, <1>3, <1>4, <1>5, <1>6, <1>7 DEF TwoFactorStep

\* At the start the enrolled accounts have the secret they were enrolled with.
LEMMA ConfirmedInit == EnrolmentInit => ConfirmedInv
  <1> SUFFICES ASSUME EnrolmentInit PROVE ConfirmedInv
    OBVIOUS
  <1> USE DEF EnrolmentInit
  <1>1. /\ Contested \subseteq contested
        /\ \A r \in Requests : KeptBy(r)
    BY DEF StoreInit, Contested, InHand, InFlight, Working, KeptBy, SwitchOps, NoInput
  <1>2. PICK password \in [Registered -> Passwords \ WeakPasswords] :
          users = [m \in Logins |->
                     IF m \in Registered
                     THEN [exists |-> TRUE, external |-> FALSE,
                           password |-> password[m],
                           secret |-> IF m \in Enrolled THEN FirstSecret ELSE NoSecret,
                           enabled |-> m \in Enrolled]
                     ELSE NoUser]
    BY DEF StoreInit
  <1>3. ASSUME NEW l \in Logins, users[l].enabled
        PROVE  l \in Enrolled /\ users[l].secret = FirstSecret
    BY <1>2, <1>3 DEF NoUser
  <1>4. EnabledIsConfirmed
    BY <1>3, SecretsAssumption DEF EnabledIsConfirmed, SecretIsConfirmed, Confirmed
  <1>5. QED
    BY <1>1, <1>4 DEF ConfirmedInv

\* Every step keeps the switch and the secret of an account together, or puts
\* the account on record.
LEMMA ConfirmedStep ==
    SessionInv /\ ProviderInv /\ ConfirmedInv /\ [EnrolmentNext]_enrolmentVars
        => ConfirmedInv'
  <1> SUFFICES ASSUME SessionInv, ProviderInv, ConfirmedInv, [EnrolmentNext]_enrolmentVars
               PROVE  ConfirmedInv'
    OBVIOUS
  <1>1. CASE EnrolmentNext
    <2>0. contested' = contested \cup Contested' /\ Next
      BY <1>1 DEF EnrolmentNext
    <2>1. ASSUME NEW r \in Requests, OpenSession(r) \/ Challenge(r) \/ Reply(r) \/ Drop(r)
          PROVE  ConfirmedInv'
      <3>1. PICK next \in {"reply", "done", "dropped"} : Goto(r, next)
        BY <2>1 DEF OpenSession, Challenge, Reply, Drop
      <3>2. UNCHANGED users /\ pc[r] \in Working
        BY <2>1 DEF OpenSession, Challenge, Reply, Drop, Working
      <3>3. QED
        BY <2>0, <3>1, <3>2, GotoConfirmed
    <2>2. ASSUME NEW r \in Requests, Step(r) PROVE ConfirmedInv'
      BY <2>0, <2>1, <2>2, SessionsConfirmed, TwoFactorConfirmed DEF Step
    <2>3. CASE Tick \/ Quiescent
      <3>1. UNCHANGED <<users, req, pc>>
        BY <2>3 DEF Tick, Quiescent, vars
      <3>2. Contested' \subseteq contested' /\ contested \subseteq contested'
        BY <2>0, <3>1 DEF ConfirmedInv, Contested, InHand, InFlight
      <3>3. QED
        BY <3>1, <3>2
        DEF ConfirmedInv, EnabledIsConfirmed, SecretIsConfirmed, Confirmed, KeptBy,
            StillChecked, At
    <2>4. QED
      BY <2>0, <2>2, <2>3 DEF Next
  <1>2. CASE UNCHANGED enrolmentVars
    <2>1. UNCHANGED <<users, req, pc, contested>>
      BY <1>2 DEF enrolmentVars, vars
    <2>2. QED
      BY <2>1
      DEF ConfirmedInv, Contested, InHand, InFlight, EnabledIsConfirmed,
          SecretIsConfirmed, Confirmed, KeptBy, StillChecked, At
  <1>3. QED
    BY <1>1, <1>2

\* However many requests are handled at a time and wherever each of them is cut
\* short, an account with 2FA on has a secret its user has shown to have, unless
\* an Enable2FA of that account was in hand together with a Generate2FA or a
\* Disable2FA of it (Generate2FA, Enable2FA, Disable2FA).
THEOREM NobodyIsLockedOut == EnrolmentSpec => []EnabledIsConfirmed
  <1>1. EnrolmentInit => SessionInv /\ ProviderInv /\ ConfirmedInv
    BY SessionInit, ProviderInit, ConfirmedInit DEF EnrolmentInit
  <1>2. [EnrolmentNext]_enrolmentVars => [Next]_vars
    BY DEF EnrolmentNext, enrolmentVars
  <1>3. /\ SessionInv /\ ProviderInv /\ ConfirmedInv
        /\ [EnrolmentNext]_enrolmentVars
        => (SessionInv /\ ProviderInv /\ ConfirmedInv)'
    BY <1>2, SessionStep, ProviderStep, ConfirmedStep
  <1>4. ConfirmedInv => EnabledIsConfirmed
    BY DEF ConfirmedInv
  <1>5. QED
    BY <1>1, <1>3, <1>4, PTL DEF EnrolmentSpec
=============================================================================
