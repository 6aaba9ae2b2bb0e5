---------------------------- MODULE BrowserProofs ----------------------------
(***************************************************************************)
(* Theorems about Browser, for every value of its constants: any number of *)
(* browsers and tabs, answers in any order, failures anywhere.             *)
(***************************************************************************)
EXTENDS BrowserInduction, AuthProofs

(***************************************************************************)
(* What one step of the server does, as far as a browser can tell          *)
(***************************************************************************)

\* Every request but r is left alone.
OthersStay(r) ==
    \A q \in Requests : q # r => /\ req'[q] = req[q]
                                 /\ pc'[q] = pc[q]
                                 /\ tokens'[q] = tokens[q]

\* What the arrival of a request can be: a callback nobody vouches for is
\* turned away at once.
Arrives(r) ==
    /\ UNCHANGED <<tokens, refreshTokens, revoked>>
    /\ pc'[r] \notin {"idle", "mint", "done"}
    /\ (req'[r].op = "GitHubCallback" /\ ~req'[r].vouched) => pc'[r] = "rejected"

\* What the work on a request can be: it mints last, and every row it takes out
\* of the table is accounted for.
Proceeds(r) ==
    /\ pc[r] \notin {"done", "rejected", "dropped"}
    /\ pc'[r] # "idle"
    /\ pc'[r] = "done" => pc[r] = "reply"
    /\ req'[r] = req[r]
    /\ tokens[r] # NoTokens => tokens'[r] = tokens[r]
    /\ revoked \subseteq revoked'
    /\ (Minted(r)' /\ ~Minted(r)) =>
          /\ pc[r] = "mint" /\ pc'[r] = "reply" /\ r \in refreshTokens'
          /\ tokens'[r].session = IF req[r].op = "Refresh"
                                  THEN tokens[req[r].token].session ELSE r
    /\ \A t \in refreshTokens \ refreshTokens' :
          \/ \E v \in revoked' : v.session = tokens[t].session
          \/ Renewing(r)' /\ req[r].token = t
    /\ Renewing(r) => \/ Minted(r)'
                      \/ pc'[r] = "dropped"
                      \/ now > tokens[req[r].token].refreshExpiresAt

StepEffect(r) ==
    /\ now' = now
    /\ OthersStay(r)
    /\ IF pc[r] = "idle" THEN Arrives(r) ELSE Proceeds(r)

\* A request arrives.
LEMMA AdmitEffect ==
    ASSUME TypeOK, NEW r \in Requests, NEW input, NEW next,
           Admit(r, input, next), next \notin {"idle", "mint", "done"},
           (input.op = "GitHubCallback" /\ ~input.vouched) => next = "rejected"
    PROVE  StepEffect(r)
  <1>1. /\ req' = [req EXCEPT ![r] = input] /\ pc' = [pc EXCEPT ![r] = next]
        /\ UNCHANGED <<tokens, refreshTokens, revoked, now>> /\ pc[r] = "idle"
    BY DEF Admit
  <1>2. req'[r] = input /\ pc'[r] = next
    BY <1>1 DEF TypeOK
  <1>3. OthersStay(r)
    BY <1>1 DEF TypeOK, OthersStay
  <1>4. QED
    BY <1>1, <1>2, <1>3 DEF StepEffect, Arrives

\* A request takes a step that mints nothing and takes no row out.
LEMMA GotoEffect ==
    ASSUME SessionInv, NEW r \in Requests, NEW next, Goto(r, next),
           UNCHANGED <<tokens, refreshTokens, revoked>>,
           pc[r] \notin {"idle", "done", "rejected", "dropped"},
           next # "idle", next = "done" => pc[r] = "reply",
           Renewing(r) => \/ next = "dropped"
                          \/ now > tokens[req[r].token].refreshExpiresAt
    PROVE  StepEffect(r)
  <1>1. req' = req /\ now' = now /\ pc' = [pc EXCEPT ![r] = next] /\ TypeOK
    BY DEF Goto, SessionInv, TypeInv
  <1>2. pc'[r] = next /\ Minted(r)' = Minted(r)
    BY <1>1 DEF TypeOK, Minted
  <1>3. OthersStay(r)
    BY <1>1 DEF TypeOK, OthersStay
  <1>4. Proceeds(r)
    BY <1>1, <1>2 DEF Proceeds
  <1>5. QED
    BY <1>1, <1>3, <1>4 DEF StepEffect

\* A request mints a pair.
LEMMA MintEffect ==
    ASSUME SessionInv, NEW r \in Requests, NEW l, NEW s,
           pc[r] = "mint", CreateTokens(r, l, s), Goto(r, "reply"), UNCHANGED revoked,
           s = IF req[r].op = "Refresh" THEN tokens[req[r].token].session ELSE r
    PROVE  StepEffect(r)
  <1>1. req' = req /\ now' = now /\ pc' = [pc EXCEPT ![r] = "reply"] /\ TypeOK
    BY DEF Goto, SessionInv, TypeInv
  <1>2. pc'[r] = "reply" /\ tokens[r] = NoTokens
    BY <1>1 DEF TypeOK, SessionInv, MintedLast
  <1>3. tokens'[r].session = s /\ Minted(r)'
    BY <1>1 DEF CreateTokens, TypeOK, Minted
  <1>4. refreshTokens' = refreshTokens \cup {r}
    BY DEF CreateTokens
  <1>5. OthersStay(r)
    BY <1>1 DEF TypeOK, OthersStay, CreateTokens
  <1>6. Proceeds(r)
    BY <1>1, <1>2, <1>3, <1>4 DEF Proceeds
  <1>7. QED
    BY <1>1, <1>2, <1>5, <1>6 DEF StepEffect

\* A request takes rows out for good.
LEMMA RevokeEffect ==
    ASSUME SessionInv, NEW r \in Requests, NEW next \in {"reply", "mint"}, NEW rows,
           refreshTokens' = refreshTokens \ rows, Revoke(rows), Goto(r, next),
           UNCHANGED tokens, pc[r] \in {"delete", "sweep"}
    PROVE  StepEffect(r)
  <1>1. req' = req /\ now' = now /\ pc' = [pc EXCEPT ![r] = next] /\ TypeOK
    BY DEF Goto, SessionInv, TypeInv
  <1>2. pc'[r] = next /\ Minted(r)' = Minted(r) /\ ~Renewing(r)
    BY <1>1 DEF TypeOK, Minted, Renewing, At
  <1>3. \A t \in refreshTokens \ refreshTokens' :
          \E v \in revoked' : v.session = tokens[t].session
    <2>1. ASSUME NEW t \in refreshTokens \ refreshTokens'
          PROVE  \E v \in revoked' : v.session = tokens[t].session
      <3>1. [session |-> tokens[t].session, at |-> now] \in revoked'
        BY <2>1 DEF Revoke
      <3>2. QED
        BY <3>1
    <2>2. QED
      BY <2>1
  <1>4. revoked \subseteq revoked'
    BY DEF Revoke
  <1>5. OthersStay(r)
    BY <1>1 DEF TypeOK, OthersStay
  <1>6. Proceeds(r)
    BY <1>1, <1>2, <1>3, <1>4 DEF Proceeds
  <1>7. QED
    BY <1>1, <1>5, <1>6 DEF StepEffect
\* The operations of Sessions.
LEMMA SessionsEffect ==
    ASSUME SessionInv, NEW r \in Requests, SessionsStep(r)
    PROVE  StepEffect(r)
  <1>0. TypeOK
    BY DEF SessionInv, TypeInv
  <1>1. CASE \/ SignUpBegin(r) \/ SignInBegin(r) \/ RefreshBegin(r)
             \/ LogoutBegin(r) \/ ChangePasswordBegin(r)
    <2>1. CASE SignUpBegin(r)
      BY <1>0, <2>1, AdmitEffect DEF SignUpBegin
    <2>2. CASE SignInBegin(r)
      BY <1>0, <2>2, AdmitEffect DEF SignInBegin
    <2>3. CASE RefreshBegin(r)
      BY <1>0, <2>3, AdmitEffect DEF RefreshBegin
    <2>4. CASE LogoutBegin(r)
      BY <1>0, <2>4, AdmitEffect DEF LogoutBegin
    <2>5. CASE ChangePasswordBegin(r)
      BY <1>0, <2>5, AdmitEffect DEF ChangePasswordBegin
    <2>6. QED
      BY <1>1, <2>1, <2>2, <2>3, <2>4, <2>5
  <1>2. CASE SignUpCreate(r) \/ SignUpConflict(r)
    <2>1. PICK next \in {"mint", "rejected"} : Goto(r, next)
      BY <1>2 DEF SignUpCreate, SignUpConflict
    <2>2. QED
      BY <1>2, <2>1, GotoEffect DEF SignUpCreate, SignUpConflict, At, Renewing
  <1>3. CASE SignInRead(r) \/ ChangePasswordRead(r)
    <2>1. PICK next \in {"challenge", "mint", "update", "rejected"} : Goto(r, next)
      BY <1>3 DEF SignInRead, ChangePasswordRead, StartSession
    <2>2. QED
      BY <1>3, <2>1, GotoEffect DEF SignInRead, ChangePasswordRead, At, Renewing
  <1>4. CASE ChangePasswordUpdate(r)
    BY <1>4, GotoEffect DEF ChangePasswordUpdate, At, Renewing
  <1>5. CASE RefreshUnknown(r)
    BY <1>5, GotoEffect DEF RefreshUnknown, At, Renewing
  <1>6. CASE LogoutUnknown(r)
    BY <1>6, GotoEffect DEF LogoutUnknown, At, Renewing
  <1>7. CASE RefreshExpired(r)
    BY <1>7, GotoEffect DEF RefreshExpired, At
  <1>8. CASE RefreshDelete(r)
    <2>1. /\ req' = req /\ now' = now /\ pc' = [pc EXCEPT ![r] = "mint"]
          /\ pc[r] = "delete" /\ req[r].op = "Refresh" /\ UNCHANGED <<tokens, revoked>>
          /\ refreshTokens' = refreshTokens \ {req[r].token}
      BY <1>8 DEF RefreshDelete, DeleteRefreshToken, Goto, At
    <2>2. pc'[r] = "mint" /\ Minted(r)' = Minted(r)
      BY <1>0, <2>1 DEF TypeOK, Minted
    <2>3. Renewing(r)' /\ ~Renewing(r)
      BY <2>1, <2>2 DEF Renewing, At
    <2>4. OthersStay(r)
      BY <1>0, <2>1 DEF TypeOK, OthersStay
    <2>5. Proceeds(r)
      BY <2>1, <2>2, <2>3 DEF Proceeds
    <2>6. QED
      BY <2>1, <2>4, <2>5 DEF StepEffect
  <1>9. CASE RefreshMint(r)
    BY <1>9, MintEffect DEF RefreshMint, At
  <1>10. CASE LogoutDelete(r)
    BY <1>10, RevokeEffect DEF LogoutDelete, DeleteRefreshToken, At
  <1>11. CASE ChangePasswordSweep(r)
    BY <1>11, RevokeEffect DEF ChangePasswordSweep, DeleteUserRefreshTokens, At
  <1>12. QED
    BY <1>1, <1>2, <1>3, <1>4, <1>5, <1>6, <1>7, <1>8, <1>9, <1>10, <1>11 DEF SessionsStep

\* The operations of TwoFactor.
LEMMA TwoFactorEffect ==
    ASSUME SessionInv, NEW r \in Requests, TwoFactorStep(r)
    PROVE  StepEffect(r)
  <1>0. TypeOK
    BY DEF SessionInv, TypeInv
  <1>1. CASE \/ Generate2FABegin(r) \/ Enable2FABegin(r) \/ Disable2FABegin(r)
             \/ VerifyBegin(r)
    <2>1. CASE Generate2FABegin(r)
      BY <1>0, <2>1, AdmitEffect DEF Generate2FABegin, Authenticated
    <2>2. CASE Enable2FABegin(r)
      BY <1>0, <2>2, AdmitEffect DEF Enable2FABegin, Authenticated
    <2>3. CASE Disable2FABegin(r)
      BY <1>0, <2>3, AdmitEffect DEF Disable2FABegin, Authenticated
    <2>4. CASE VerifyBegin(r)
      BY <1>0, <2>4, AdmitEffect DEF VerifyBegin
    <2>5. QED
      BY <1>1, <2>1, <2>2, <2>3, <2>4
  <1>2. CASE Generate2FARead(r) \/ Enable2FARead(r) \/ Disable2FARead(r) \/ VerifyRead(r)
    <2>1. PICK next \in {"write", "set", "unset", "mint", "rejected"} : Goto(r, next)
      BY <1>2 DEF Generate2FARead, Enable2FARead, Disable2FARead, VerifyRead
    <2>2. pc[r] = "read" /\ UNCHANGED <<tokens, refreshTokens, revoked>>
      BY <1>2 DEF Generate2FARead, Enable2FARead, Disable2FARead, VerifyRead, At
    <2>3. QED
      BY <2>1, <2>2, GotoEffect DEF At, Renewing
  <1>3. CASE Generate2FAWrite(r) \/ Enable2FASet(r) \/ Disable2FAUnset(r) \/ Disable2FAErase(r)
    <2>1. PICK next \in {"erase", "reply"} : Goto(r, next)
      BY <1>3 DEF Generate2FAWrite, Enable2FASet, Disable2FAUnset, Disable2FAErase
    <2>2. /\ pc[r] \in {"write", "set", "unset", "erase"}
          /\ UNCHANGED <<tokens, refreshTokens, revoked>>
      BY <1>3 DEF Generate2FAWrite, Enable2FASet, Disable2FAUnset, Disable2FAErase, At
    <2>3. QED
      BY <2>1, <2>2, GotoEffect DEF At, Renewing
  <1>4. QED
    BY <1>1, <1>2, <1>3 DEF TwoFactorStep

\* The GitHub callback.
LEMMA OAuthEffect ==
    ASSUME SessionInv, NEW r \in Requests, OAuthStep(r)
    PROVE  StepEffect(r)
  <1>0. TypeOK
    BY DEF SessionInv, TypeInv
  <1>1. CASE CallbackBegin(r)
    <2>1. PICK email \in Emails, vouched \in BOOLEAN :
            Admit(r, [op |-> "GitHubCallback", user |-> email, vouched |-> vouched],
                  IF vouched THEN "read" ELSE "rejected")
      BY <1>1 DEF CallbackBegin
    <2>2. QED
      BY <1>0, <2>1, AdmitEffect
  <1>2. CASE CallbackRead(r)
    <2>1. PICK next \in {"mint", "challenge", "create"} : Goto(r, next)
      BY <1>2 DEF CallbackRead, StartSession
    <2>2. QED
      BY <1>2, <2>1, GotoEffect DEF CallbackRead, At, Renewing
  <1>3. CASE CallbackCreate(r) \/ CallbackConflict(r)
    <2>1. PICK next \in {"mint", "rejected"} : Goto(r, next)
      BY <1>3 DEF CallbackCreate, CallbackConflict
    <2>2. QED
      BY <1>3, <2>1, GotoEffect DEF CallbackCreate, CallbackConflict, At, Renewing
  <1>4. QED
    BY <1>1, <1>2, <1>3 DEF OAuthStep

\* Every step of every request has no other effect than these.
LEMMA EveryEffect ==
    ASSUME SessionInv, NEW r \in Requests, Step(r)
    PROVE  StepEffect(r)
  <1>0. TypeOK
    BY DEF SessionInv, TypeInv
  <1>1. CASE SessionsStep(r) \/ TwoFactorStep(r) \/ OAuthStep(r)
    BY <1>1, SessionsEffect, TwoFactorEffect, OAuthEffect
  <1>2. CASE OpenSession(r)
    BY <1>2, MintEffect DEF OpenSession
  <1>3. CASE Challenge(r)
    <2>1. /\ req' = req /\ now' = now /\ pc' = [pc EXCEPT ![r] = "reply"]
          /\ pc[r] = "challenge" /\ UNCHANGED <<refreshTokens, revoked>>
      BY <1>3 DEF Challenge, Goto
    <2>2. pc'[r] = "reply" /\ ~Renewing(r) /\ tokens[r] = NoTokens
      BY <1>0, <2>1 DEF TypeOK, Renewing, At, SessionInv, MintedLast
    <2>3. tokens'[r].audience = "2fa"
      BY <1>0, <1>3 DEF Challenge, TypeOK
    <2>4. OthersStay(r)
      BY <1>0, <1>3, <2>1 DEF TypeOK, OthersStay, Challenge
    <2>5. Proceeds(r)
      BY <2>1, <2>2, <2>3 DEF Proceeds, Minted
    <2>6. QED
      BY <2>1, <2>4, <2>5 DEF StepEffect
  <1>4. CASE Reply(r)
    BY <1>4, GotoEffect DEF Reply, Renewing, At
  <1>5. CASE Drop(r)
    BY <1>5, GotoEffect DEF Drop, Working
  <1>6. QED
    BY <1>1, <1>2, <1>3, <1>4, <1>5 DEF Step

----------------------------------------------------------------------------
(***************************************************************************)
(* The steps of a browser                                                  *)
(***************************************************************************)

\* A tab sends request r with the cookies of its jar, or a logout with none.
Sends(b, r, s) ==
    /\ pc[r] = "idle"
    /\ StepEffect(r)
    /\ SendState(b, r, s)
    /\ \/ req'[r] = [op |-> "Logout", token |-> r]
       \/ /\ (s = NoCookie) <=> (req'[r].op # "GitHubCallback")
          /\ Carries(b, req'[r], s)

\* The server works on request r.
Handles(r) ==
    /\ pc[r] # "idle" /\ pc'[r] # "done"
    /\ StepEffect(r)
    /\ UNCHANGED <<jar, sent, started>>

\* The answer to r goes into the jar it was asked from.
Receives(r) ==
    /\ pc[r] = "reply" /\ pc'[r] = "done"
    /\ StepEffect(r)
    /\ UNCHANGED <<tokens, refreshTokens, revoked, sent, started>>
    /\ jar' = [jar EXCEPT ![sent[r].browser] = Answered(@, r)]

\* Nothing but the clock moves.
Waits ==
    /\ UNCHANGED <<refreshTokens, tokens, req, pc, revoked, jar, sent, started>>
    /\ now' \in {now, now + 1}

Moves ==
    \/ \E b \in Browsers, r \in Requests, s \in States \cup {NoCookie} : Sends(b, r, s)
    \/ \E r \in Requests : Handles(r) \/ Receives(r)
    \/ \E b \in Browsers : GitHubLogin(b)
    \/ Waits

\* These are all the steps there are, and none of them disturbs the sessions.
LEMMA BrowserMoves ==
    ASSUME SessionInv, [BrowserNext]_browserVars
    PROVE  SessionInv' /\ Moves
  <1>0. TypeInv /\ TypeOK
    BY DEF SessionInv, TypeInv
  <1>1. CASE \E b \in Browsers, r \in Requests : Send(b, r)
    <2>1. PICK b \in Browsers, r \in Requests : Send(b, r)
      BY <1>1
    <2>2. Step(r) /\ StepEffect(r)
      BY <2>1, EveryEffect DEF Send
    <2>3. SessionInv'
      BY <2>2, SessionStep DEF Next
    <2>4. \E s \in States \cup {NoCookie} : Sends(b, r, s)
      BY <2>1, <2>2 DEF Send, Sends
    <2>5. QED
      BY <2>3, <2>4 DEF Moves
  <1>2. CASE \E b \in Browsers, r \in Requests : SendBareLogout(b, r)
    <2>1. PICK b \in Browsers, r \in Requests : SendBareLogout(b, r)
      BY <1>2
    <2>2. Admit(r, [op |-> "Logout", token |-> r], "reply") /\ SendState(b, r, NoCookie)
      BY <2>1 DEF SendBareLogout
    <2>3. [op |-> "Logout", token |-> r] \in Input
      BY DEF Input
    <2>4. TypeInv'
      BY <1>0, <2>2, <2>3, AdmitType DEF Label, Working
    <2>5. LocalStep
      BY <2>2, AdmitLocal
    <2>6. SessionInv'
      BY <2>4, <2>5, LocalInv
    <2>7. StepEffect(r)
      BY <1>0, <2>2, AdmitEffect
    <2>8. pc[r] = "idle" /\ req'[r] = [op |-> "Logout", token |-> r]
      BY <1>0, <2>2 DEF Admit, TypeOK
    <2>9. Sends(b, r, NoCookie)
      BY <2>2, <2>7, <2>8 DEF Sends
    <2>10. QED
      BY <2>6, <2>9 DEF Moves
  <1>3. CASE \E r \in Requests : Handle(r)
    <2>1. PICK r \in Requests : Handle(r)
      BY <1>3
    <2>2. Step(r) /\ StepEffect(r)
      BY <2>1, EveryEffect DEF Handle
    <2>3. SessionInv'
      BY <2>2, SessionStep DEF Next
    <2>4. QED
      BY <2>1, <2>2, <2>3 DEF Handle, Handles, Moves
  <1>4. CASE \E r \in Requests : Receive(r)
    <2>1. PICK r \in Requests : Receive(r)
      BY <1>4
    <2>2. Reply(r) /\ Step(r) /\ StepEffect(r)
      BY <2>1, EveryEffect DEF Receive, Step
    <2>3. SessionInv'
      BY <2>2, SessionStep DEF Next
    <2>4. /\ pc[r] = "reply" /\ pc'[r] = "done"
          /\ UNCHANGED <<tokens, refreshTokens, revoked>>
      BY <1>0, <2>2 DEF Reply, Goto, TypeOK
    <2>5. QED
      BY <2>1, <2>2, <2>3, <2>4 DEF Receive, Receives, Moves
  <1>5. CASE \E b \in Browsers : GitHubLogin(b)
    <2>1. UNCHANGED vars
      BY <1>5 DEF GitHubLogin
    <2>2. QED
      BY <1>5, <2>1, SessionStep DEF Moves
  <1>6. CASE ((Tick \/ Quiescent) /\ UNCHANGED <<jar, sent, started>>) \/ UNCHANGED browserVars
    <2>1. [Next]_vars
      BY <1>6 DEF Next, browserVars
    <2>2. SessionInv'
      BY <2>1, SessionStep
    <2>3. Waits
      BY <1>6 DEF Waits, Tick, Quiescent, vars, browserVars
    <2>4. QED
      BY <2>2, <2>3 DEF Moves
  <1>7. QED
    BY <1>1, <1>2, <1>3, <1>4, <1>5, <1>6 DEF BrowserNext

\* A request moves by its own steps only.
LEMMA OwnSteps ==
    ASSUME Moves, NEW q \in Requests
    PROVE  \/ req'[q] = req[q] /\ pc'[q] = pc[q] /\ tokens'[q] = tokens[q]
           \/ \E b \in Browsers, s \in States \cup {NoCookie} : Sends(b, q, s)
           \/ Handles(q) \/ Receives(q)
  <1>1. \A r \in Requests :
          (StepEffect(r) /\ r # q) =>
              req'[q] = req[q] /\ pc'[q] = pc[q] /\ tokens'[q] = tokens[q]
    BY DEF StepEffect, OthersStay
  <1>2. \A r, b, s : Sends(b, r, s) \/ Handles(r) \/ Receives(r) => StepEffect(r)
    BY DEF Sends, Handles, Receives
  <1>3. CASE (\E b \in Browsers : GitHubLogin(b)) \/ Waits
    BY <1>3 DEF GitHubLogin, vars, Waits
  <1>4. QED
    BY <1>1, <1>2, <1>3 DEF Moves

\* What is settled stays: the input and the origin of a request once it is sent,
\* the tokens it minted, its end, the browser a state was handed to, the sessions
\* that were ended.
Kept ==
    /\ \A q \in Requests : pc[q] # "idle" => /\ pc'[q] # "idle"
                                              /\ req'[q] = req[q]
                                              /\ sent'[q] = sent[q]
    /\ \A q \in Requests : tokens[q] # NoTokens => tokens'[q] = tokens[q]
    /\ \A q \in Requests : pc[q] \in {"done", "rejected", "dropped"} => pc'[q] = pc[q]
    /\ \A s \in States : started[s] # NoCookie => started'[s] = started[s]
    /\ revoked \subseteq revoked'

LEMMA MovesKeep ==
    ASSUME SessionInv, BrowserType, Moves
    PROVE  Kept
  <1>0. TypeOK
    BY DEF SessionInv, TypeInv
  <1>1. CASE \E b \in Browsers, r \in Requests, s \in States \cup {NoCookie} : Sends(b, r, s)
    <2>1. PICK b \in Browsers, r \in Requests, s \in States \cup {NoCookie} : Sends(b, r, s)
      BY <1>1
    <2>2. \A q \in Requests : q # r => sent'[q] = sent[q]
      BY <2>1 DEF Sends, SendState, BrowserType
    <2>3. QED
      BY <2>1, <2>2 DEF Sends, SendState, StepEffect, OthersStay, Arrives, Kept
  <1>2. CASE \E r \in Requests : Handles(r) \/ Receives(r)
    <2>1. PICK r \in Requests : Handles(r) \/ Receives(r)
      BY <1>2
    <2>2. UNCHANGED <<sent, started>> /\ OthersStay(r) /\ Proceeds(r)
      BY <2>1 DEF Handles, Receives, StepEffect
    <2>3. QED
      BY <2>2 DEF OthersStay, Proceeds, Kept
  <1>3. CASE \E b \in Browsers : GitHubLogin(b)
    BY <1>3 DEF GitHubLogin, vars, Kept, BrowserType
  <1>4. CASE Waits
    BY <1>4 DEF Waits, Kept
  <1>5. QED
    BY <1>1, <1>2, <1>3, <1>4 DEF Moves

\* A minted pair stays, with the request that minted it.
LEMMA MintedStays ==
    ASSUME SessionInv, Kept, NEW q \in Requests, Minted(q)
    PROVE  /\ Minted(q)' /\ tokens'[q] = tokens[q]
           /\ req'[q] = req[q] /\ sent'[q] = sent[q]
  BY DEF SessionInv, MintedLast, Minted, NoTokens, Kept

LEMMA BroughtStays ==
    ASSUME SessionInv, Kept, NEW q \in Requests, NEW b, Brought(q, b)
    PROVE  Brought(q, b)'
  BY MintedStays DEF Brought, Kept

LEMMA SucceededStays ==
    ASSUME SessionInv, Kept, NEW t, Succeeded(t)
    PROVE  Succeeded(t)'
  BY MintedStays DEF Succeeded

\* What the answer to r does to the jars.
LEMMA AnswerCookies ==
    ASSUME BrowserType, NEW r \in Requests, Receives(r)
    PROVE  /\ sent[r].browser \in Browsers
           /\ jar' \in [Browsers -> Jar]
           /\ \A c \in Browsers : c # sent[r].browser => jar'[c] = jar[c]
           /\ \A c \in Browsers : jar'[c].state \in {NoCookie, jar[c].state}
           /\ jar'[sent[r].browser].auth =
                 IF req[r].op = "Logout" THEN NoCookie
                 ELSE IF Minted(r) THEN r ELSE jar[sent[r].browser].auth
  <1> DEFINE b == sent[r].browser
             after == Answered(jar[b], r)
  <1>1. b \in Browsers /\ jar[b] \in Jar
    BY DEF Receives, BrowserType
  <1> DEFINE auth == IF req[r].op = "Logout" THEN NoCookie
                     ELSE IF Minted(r) THEN r ELSE jar[b].auth
             twoFactor == IF req[r].op = "VerifyTwoFactor" THEN NoCookie
                          ELSE IF tokens[r].audience = "2fa" THEN r ELSE jar[b].twoFactor
             state == IF req[r].op = "GitHubCallback" THEN NoCookie ELSE jar[b].state
  <1>2. after = [auth |-> auth, twoFactor |-> twoFactor, state |-> state]
    BY DEF Answered
  <1>3. after \in Jar /\ after.auth = auth /\ after.state = state
    BY <1>1, <1>2 DEF Jar
  <1>4. jar' = [jar EXCEPT ![b] = after] /\ jar \in [Browsers -> Jar]
    BY DEF Receives, BrowserType
  <1>5. jar'[b] = after /\ \A c \in Browsers : c # b => jar'[c] = jar[c]
    BY <1>1, <1>4
  <1>6. QED
    BY <1>1, <1>2, <1>3, <1>4, <1>5

LEMMA BrowserTypeStep ==
    ASSUME SessionInv, BrowserType, Moves
    PROVE  BrowserType'
  <1>0. TypeOK /\ Kept
    BY MovesKeep DEF SessionInv, TypeInv
  <1>1. CASE \E b \in Browsers, r \in Requests, s \in States \cup {NoCookie} : Sends(b, r, s)
    <2>1. PICK b \in Browsers, r \in Requests, s \in States \cup {NoCookie} : Sends(b, r, s)
      BY <1>1
    <2>2. UNCHANGED <<jar, started>> /\ sent' = [sent EXCEPT ![r] = [browser |-> b, state |-> s]]
      BY <2>1 DEF Sends, SendState
    <2>3. sent'[r].browser = b
      BY <2>2 DEF BrowserType
    <2>4. \A q \in Requests : q # r => pc'[q] = pc[q] /\ sent'[q] = sent[q]
      BY <2>1, <2>2 DEF Sends, StepEffect, OthersStay, BrowserType
    <2>5. \A q \in Requests : pc'[q] # "idle" => sent'[q].browser \in Browsers
      BY <2>3, <2>4 DEF BrowserType
    <2>6. QED
      BY <2>2, <2>5 DEF BrowserType
  <1>2. CASE \E r \in Requests : Handles(r) \/ Receives(r)
    <2>1. PICK r \in Requests : Handles(r) \/ Receives(r)
      BY <1>2
    <2>2. UNCHANGED <<sent, started>> /\ jar' \in [Browsers -> Jar]
      BY <2>1, AnswerCookies DEF Handles, Receives, BrowserType
    <2>3. \A q \in Requests : pc'[q] # "idle" => pc[q] # "idle"
      BY <2>1 DEF Handles, Receives, StepEffect, OthersStay
    <2>4. QED
      BY <2>2, <2>3 DEF BrowserType
  <1>3. CASE \E b \in Browsers : GitHubLogin(b)
    <2>1. PICK b \in Browsers, s \in States :
            /\ started' = [started EXCEPT ![s] = b]
            /\ jar' = [jar EXCEPT ![b].state = s]
            /\ UNCHANGED <<vars, sent>>
      BY <1>3 DEF GitHubLogin
    <2>2. jar' \in [Browsers -> Jar]
      BY <2>1 DEF BrowserType, Jar
    <2>3. QED
      BY <2>1, <2>2 DEF BrowserType, vars
  <1>4. CASE Waits
    BY <1>4 DEF Waits, BrowserType
  <1>5. QED
    BY <1>1, <1>2, <1>3, <1>4 DEF Moves

\* A new state goes to one browser only.
LEMMA StatesHomeStep ==
    ASSUME SessionInv, BrowserType, StatesHome, Moves
    PROVE  StatesHome'
  <1>0. Kept
    BY MovesKeep
  <1>1. ASSUME NEW c \in Browsers, jar'[c].state \in {NoCookie, jar[c].state},
               jar'[c].state # NoCookie
        PROVE  started'[jar'[c].state] = c
    <2>1. jar[c].state \in States /\ started[jar[c].state] = c /\ c # NoCookie
      BY <1>1, CookiesAssumption DEF BrowserType, Jar, StatesHome
    <2>2. QED
      BY <1>0, <1>1, <2>1 DEF Kept
  <1>2. CASE \E b \in Browsers : GitHubLogin(b)
    <2>1. PICK b \in Browsers, s \in States :
            /\ started[s] = NoCookie
            /\ started' = [started EXCEPT ![s] = b]
            /\ jar' = [jar EXCEPT ![b].state = s]
      BY <1>2 DEF GitHubLogin
    <2>2. jar'[b].state = s /\ started'[s] = b
      BY <2>1 DEF BrowserType, Jar
    <2>3. \A c \in Browsers : c # b => jar'[c].state = jar[c].state
      BY <2>1 DEF BrowserType
    <2>4. QED
      BY <1>1, <2>2, <2>3 DEF StatesHome
  <1>3. CASE ~\E b \in Browsers : GitHubLogin(b)
    <2>1. \A c \in Browsers : jar'[c].state \in {NoCookie, jar[c].state}
      BY <1>3, AnswerCookies DEF Moves, Sends, SendState, Handles, Waits
    <2>2. QED
      BY <1>1, <2>1 DEF StatesHome
  <1>4. QED
    BY <1>2, <1>3

\* A callback that is vouched for brings the state its browser was handed.
LEMMA CallbacksHomeStep ==
    ASSUME SessionInv, SessionInv', BrowserType, StatesHome, CallbacksHome, Moves
    PROVE  CallbacksHome'
  <1>0. Kept /\ TypeOK /\ TypeOK'
    BY MovesKeep DEF SessionInv, TypeInv
  <1>1. ASSUME NEW q \in Requests, req'[q] = req[q], sent'[q] = sent[q],
               pc[q] = "rejected" => pc'[q] = "rejected",
               req'[q].op = "GitHubCallback"
        PROVE  IF req'[q].vouched
               THEN /\ sent'[q].state \in States
                    /\ sent'[q].browser \in Browsers
                    /\ started'[sent'[q].state] = sent'[q].browser
               ELSE pc'[q] = "rejected"
    BY <1>0, <1>1, CookiesAssumption DEF CallbacksHome, Kept
  <1>2. CASE \E b \in Browsers, r \in Requests, s \in States \cup {NoCookie} : Sends(b, r, s)
    <2>1. PICK b \in Browsers, r \in Requests, s \in States \cup {NoCookie} : Sends(b, r, s)
      BY <1>2
    <2>2. /\ sent'[r].browser = b /\ sent'[r].state = s /\ started' = started
          /\ \A q \in Requests : q # r => sent'[q] = sent[q]
      BY <2>1 DEF Sends, SendState, BrowserType
    <2>3. ASSUME req'[r].op = "GitHubCallback"
          PROVE  IF req'[r].vouched
                 THEN /\ s \in States /\ started[s] = b
                 ELSE pc'[r] = "rejected"
      <3>1. s \in States /\ Carries(b, req'[r], s)
        BY <2>1, <2>3 DEF Sends
      <3>2. CASE req'[r].vouched
        <4>1. jar[b].state = s
          BY <2>3, <3>1, <3>2 DEF Carries
        <4>2. QED
          BY <3>1, <3>2, <4>1, CookiesAssumption DEF StatesHome
      <3>3. CASE ~req'[r].vouched
        BY <2>1, <2>3, <3>3 DEF Sends, StepEffect, Arrives
      <3>4. QED
        BY <3>2, <3>3
    <2>4. \A q \in Requests : q # r => req'[q] = req[q] /\ pc'[q] = pc[q]
      BY <2>1 DEF Sends, StepEffect, OthersStay
    <2>5. QED
      BY <1>1, <2>2, <2>3, <2>4 DEF CallbacksHome
  <1>3. CASE \E r \in Requests : Handles(r) \/ Receives(r)
    <2>1. PICK r \in Requests : Handles(r) \/ Receives(r)
      BY <1>3
    <2>2. UNCHANGED sent /\ OthersStay(r) /\ Proceeds(r)
      BY <2>1 DEF Handles, Receives, StepEffect
    <2>3. \A q \in Requests : req'[q] = req[q] /\ (pc[q] = "rejected" => pc'[q] = "rejected")
      BY <2>2 DEF OthersStay, Proceeds
    <2>4. QED
      BY <1>1, <2>2, <2>3 DEF CallbacksHome
  <1>4. CASE (\E b \in Browsers : GitHubLogin(b)) \/ Waits
    <2>1. UNCHANGED <<req, pc, sent>>
      BY <1>4 DEF GitHubLogin, vars, Waits
    <2>2. QED
      BY <1>1, <2>1 DEF CallbacksHome
  <1>5. QED
    BY <1>2, <1>3, <1>4 DEF Moves

\* A jar keeps its tokens, loses them, or gets those of an answer.
LEMMA JarAuth ==
    ASSUME BrowserType, Moves, NEW c \in Browsers
    PROVE  \/ jar'[c].auth \in {NoCookie, jar[c].auth}
           \/ \E r \in Requests :
                 Receives(r) /\ Minted(r) /\ sent[r].browser = c /\ jar'[c].auth = r
  <1>1. CASE \E r \in Requests : Receives(r)
    BY <1>1, AnswerCookies
  <1>2. CASE \E b \in Browsers : GitHubLogin(b)
    BY <1>2 DEF GitHubLogin, BrowserType, Jar
  <1>3. CASE ~\E b \in Browsers : GitHubLogin(b)
    BY <1>1, <1>3 DEF Moves, Sends, SendState, Handles, Waits
  <1>4. QED
    BY <1>2, <1>3

\* What an answer brings is brought for good.
LEMMA JarBroughtStep ==
    ASSUME SessionInv, BrowserType, JarBrought, Moves
    PROVE  JarBrought'
  <1>0. Kept /\ TypeOK
    BY MovesKeep DEF SessionInv, TypeInv
  <1> SUFFICES ASSUME NEW c \in Browsers, jar'[c].auth # NoCookie
               PROVE  Brought(jar[c].auth, c)'
    BY DEF JarBrought
  <1>1. CASE jar'[c].auth = jar[c].auth
    <2>1. PICK t \in Requests : t = jar[c].auth
      BY <1>1 DEF BrowserType, Jar
    <2>2. Brought(t, c)
      BY <1>1, <2>1 DEF JarBrought
    <2>3. Brought(t, c)'
      BY <1>0, <2>2, BroughtStays
    <2>4. QED
      BY <1>1, <2>1, <2>3 DEF Brought, Minted
  <1>2. CASE \E r \in Requests :
               Receives(r) /\ Minted(r) /\ sent[r].browser = c /\ jar'[c].auth = r
    BY <1>2 DEF Receives, Brought, Minted
  <1>3. QED
    BY <1>1, <1>2, JarAuth

\* A refresh or a logout is sent with what the jar holds.
LEMMA PresentsBroughtStep ==
    ASSUME SessionInv, SessionInv', BrowserType, JarBrought, PresentsBrought, Moves
    PROVE  PresentsBrought'
  <1>0. Kept /\ TypeOK /\ TypeOK'
    BY MovesKeep DEF SessionInv, TypeInv
  <1> SUFFICES ASSUME NEW q \in Requests
               PROVE  /\ req'[q].op = "Refresh" => Brought(req[q].token, sent[q].browser)'
                      /\ req'[q].op = "Logout" =>
                            /\ ~Minted(q)'
                            /\ \/ req'[q].token = q
                               \/ Brought(req[q].token, sent[q].browser)'
    BY DEF PresentsBrought
  <1>1. CASE req'[q] = req[q] /\ sent'[q] = sent[q] /\ (Minted(q)' => Minted(q) \/ pc[q] = "mint")
    <2>1. req'[q].op \in {"Refresh", "Logout"} => req[q].token \in Requests
      BY <1>0, <1>1 DEF TypeOK, Input
    <2>2. ASSUME req[q].op \in {"Refresh", "Logout"}, Brought(req[q].token, sent[q].browser)
          PROVE  Brought(req[q].token, sent[q].browser)'
      <3>1. PICK t \in Requests : t = req[q].token
        BY <1>1, <2>1, <2>2
      <3>2. PICK b : b = sent[q].browser
        OBVIOUS
      <3>3. Brought(t, b)'
        BY <1>0, <2>2, <3>1, <3>2, BroughtStays
      <3>4. QED
        BY <1>1, <3>1, <3>2, <3>3 DEF Brought, Minted
    <2>3. pc[q] = "mint" => req[q].op # "Logout"
      BY DEF SessionInv, TypeInv, MintsForSomeone
    <2>4. QED
      BY <1>1, <2>2, <2>3 DEF PresentsBrought
  <1>2. CASE \E b \in Browsers, s \in States \cup {NoCookie} : Sends(b, q, s)
    <2>1. PICK b \in Browsers, s \in States \cup {NoCookie} : Sends(b, q, s)
      BY <1>2
    <2>2. sent'[q].browser = b /\ jar' = jar
      BY <2>1 DEF Sends, SendState, BrowserType
    <2>3. ~Minted(q)'
      BY <2>1 DEF Sends, StepEffect, Arrives, SessionInv, MintedLast, Minted, NoTokens
    <2>4. CASE req'[q] = [op |-> "Logout", token |-> q]
      BY <2>3, <2>4
    <2>5. CASE Carries(b, req'[q], s) /\ req'[q].op \in {"Refresh", "Logout"}
      <3>1. req'[q].token = jar[b].auth
        BY <2>5 DEF Carries
      <3>2. PICK t \in Requests : t = req'[q].token
        BY <1>0, <2>5 DEF TypeOK, Input
      <3>3. Brought(t, b)
        BY <3>1, <3>2, CookiesAssumption DEF JarBrought
      <3>4. Brought(t, b)'
        BY <1>0, <3>3, BroughtStays
      <3>5. QED
        BY <2>2, <2>3, <3>2, <3>4 DEF Brought, Minted
    <2>6. QED
      BY <2>1, <2>4, <2>5 DEF Sends
  <1>3. CASE ~\E b \in Browsers, s \in States \cup {NoCookie} : Sends(b, q, s)
    <2>1. CASE \E b \in Browsers, r \in Requests, s \in States \cup {NoCookie} : Sends(b, r, s)
      <3>1. PICK b \in Browsers, r \in Requests, s \in States \cup {NoCookie} : Sends(b, r, s)
        BY <2>1
      <3>2. q # r
        BY <1>3, <3>1
      <3>3. req'[q] = req[q] /\ tokens'[q] = tokens[q] /\ sent'[q] = sent[q]
        BY <3>1, <3>2 DEF Sends, StepEffect, OthersStay, SendState, BrowserType
      <3>4. QED
        BY <1>1, <3>3 DEF Minted
    <2>2. CASE \E r \in Requests : Handles(r) \/ Receives(r)
      BY <1>1, <2>2 DEF Handles, Receives, StepEffect, OthersStay, Proceeds, Minted
    <2>3. CASE (\E b \in Browsers : GitHubLogin(b)) \/ Waits
      BY <1>1, <2>3 DEF GitHubLogin, vars, Waits, Minted
    <2>4. QED
      BY <2>1, <2>2, <2>3 DEF Moves
  <1>4. QED
    BY <1>2, <1>3

\* A pair appears only when its request is worked on: it starts a session, or it
\* is the next of the pair the refresh has spent.
LEMMA FreshPair ==
    ASSUME SessionInv, Moves, NEW r \in Requests, Minted(r)', ~Minted(r)
    PROVE  /\ Handles(r) /\ pc[r] = "mint" /\ r \in refreshTokens' /\ req'[r] = req[r]
           /\ tokens'[r].session = IF req[r].op = "Refresh"
                                   THEN tokens[req[r].token].session ELSE r
           /\ \A q \in Requests : q # r => tokens'[q] = tokens[q]
  <1>1. CASE \E q \in Requests : Handles(q)
    <2>1. PICK q \in Requests : Handles(q)
      BY <1>1
    <2>2. q = r
      BY <2>1 DEF Handles, StepEffect, OthersStay, Minted
    <2>3. QED
      BY <2>1, <2>2 DEF Handles, StepEffect, OthersStay, Proceeds
  <1>2. CASE ~\E q \in Requests : Handles(q)
    <2>1. \A q, b, s : (q \in Requests /\ Sends(b, q, s)) => tokens' = tokens
      BY DEF Sends, StepEffect, Arrives
    <2>2. tokens' = tokens
      BY <1>2, <2>1 DEF Moves, Receives, GitHubLogin, vars, Waits
    <2>3. QED
      BY <2>2 DEF Minted
  <1>3. QED
    BY <1>1, <1>2

\* The next pair is appended to the end of the chain of its session.
LEMMA OneTailStep ==
    ASSUME SessionInv, BrowserType, PresentsBrought, OneTail, Moves
    PROVE  OneTail'
  <1>0. Kept /\ TypeOK
    BY MovesKeep DEF SessionInv, TypeInv
  <1>1. ASSUME NEW r \in Requests, NEW b \in Requests, r # b,
               Minted(r)', ~Minted(r), Minted(b), tokens'[r].session = tokens[b].session
        PROVE  Succeeded(r)' \/ Succeeded(b)'
    <2>1. /\ pc[r] = "mint" /\ req'[r] = req[r]
          /\ tokens'[r].session = IF req[r].op = "Refresh"
                                  THEN tokens[req[r].token].session ELSE r
      BY <1>1, FreshPair
    <2>2. CASE req[r].op # "Refresh"
      <3>1. Opened(tokens[b].session) /\ tokens[b].session = r
        BY <1>1, <2>1, <2>2 DEF SessionInv, PairsRooted
      <3>2. QED
        BY <1>1, <3>1 DEF Opened
    <2>3. CASE req[r].op = "Refresh"
      <3>1. PICK t \in Requests : t = req[r].token
        BY <1>0, <2>3 DEF TypeOK, Input
      <3>2. Minted(t) /\ tokens[t].session = tokens[b].session
        BY <1>1, <2>1, <2>3, <3>1 DEF PresentsBrought, Brought
      <3>3. Succeeded(t)'
        BY <1>1, <2>1, <2>3, <3>1 DEF Succeeded
      <3>4. CASE t = b
        BY <3>3, <3>4
      <3>5. CASE t # b
        <4>1. ~Succeeded(t)
          <5>1. ASSUME NEW q \in Requests, req[q].op = "Refresh", req[q].token = t, Minted(q)
                PROVE  FALSE
            <6>1. Redeemed(q) /\ Redeemed(r)
              BY <2>1, <2>3, <5>1 DEF Redeemed, Renewing, At
            <6>2. q = r
              BY <3>1, <5>1, <6>1 DEF SessionInv, RefreshOnce
            <6>3. QED
              BY <1>1, <5>1, <6>2
          <5>2. QED
            BY <5>1 DEF Succeeded
        <4>2. Succeeded(b)
          BY <3>2, <3>5, <4>1, <1>1 DEF OneTail, SessionOf
        <4>3. QED
          BY <1>0, <4>2, SucceededStays
      <3>6. QED
        BY <3>4, <3>5
    <2>4. QED
      BY <2>2, <2>3
  <1> SUFFICES ASSUME NEW a \in Requests, NEW b \in Requests, a # b,
                      Minted(a)', Minted(b)', tokens'[a].session = tokens'[b].session
               PROVE  Succeeded(a)' \/ Succeeded(b)'
    BY DEF OneTail, SessionOf
  <1>2. CASE Minted(a) /\ Minted(b)
    <2>1. tokens'[a] = tokens[a] /\ tokens'[b] = tokens[b]
      BY <1>0, <1>2, MintedStays
    <2>2. Succeeded(a) \/ Succeeded(b)
      BY <1>2, <2>1 DEF OneTail, SessionOf
    <2>3. QED
      BY <1>0, <2>2, SucceededStays
  <1>3. CASE ~Minted(a)
    <2>1. Minted(b) /\ tokens'[b] = tokens[b]
      BY <1>3, FreshPair DEF Minted
    <2>2. QED
      BY <1>1, <1>3, <2>1
  <1>4. CASE ~Minted(b)
    <2>1. Minted(a) /\ tokens'[a] = tokens[a]
      BY <1>4, FreshPair DEF Minted
    <2>2. QED
      BY <1>1, <1>4, <2>1
  <1>5. QED
    BY <1>2, <1>3, <1>4

\* After a logout a late answer brings the session back only as the next pair of
\* the token the logout presented.
LEMMA LoggedOutStep ==
    ASSUME SessionInv, SessionInv', BrowserType, BrowserType', JarBrought, JarBrought',
           PresentsBrought, PresentsBrought', OneTail, LoggedOut, Moves
    PROVE  LoggedOut'
  <1>0. Kept /\ TypeOK /\ TypeOK'
    BY MovesKeep DEF SessionInv, TypeInv
  <1> SUFFICES ASSUME NEW r \in Requests, At(r, "Logout", "done")',
                      jar'[sent'[r].browser].auth # NoCookie, Minted(req[r].token)'
               PROVE  \/ SessionOf(jar[sent[r].browser].auth)' # SessionOf(req[r].token)'
                      \/ Succeeded(req[r].token)'
    BY DEF LoggedOut
  <1>1. /\ pc[r] # "idle" /\ req'[r] = req[r] /\ sent'[r] = sent[r]
        /\ req[r].op = "Logout" /\ sent[r].browser \in Browsers
    <2>1. pc[r] # "idle"
      BY OwnSteps DEF Sends, StepEffect, Arrives, Handles, Receives, At
    <2>2. QED
      BY <1>0, <2>1 DEF Kept, At, BrowserType
  <1>2. PICK t \in Requests, c \in Browsers : t = req[r].token /\ c = sent[r].browser
    BY <1>0, <1>1 DEF TypeOK, Input
  <1>3. PICK p \in Requests : p = jar'[c].auth /\ Brought(p, c)'
    BY <1>1, <1>2 DEF BrowserType, Jar, JarBrought
  <1>4. Brought(t, c)
    <2>1. ~Minted(r)'
      BY <1>1 DEF PresentsBrought
    <2>2. QED
      BY <1>1, <1>2, <2>1 DEF PresentsBrought
  <1>5. Minted(t) /\ tokens'[t] = tokens[t]
    BY <1>0, <1>4, MintedStays DEF Brought
  <1>6. tokens'[p].session # tokens[t].session \/ Succeeded(t)'
    <2>1. CASE pc[r] # "done"
      <3>1. Receives(r)
        BY <1>1, <2>1, OwnSteps DEF At, Sends, Handles
      <3>2. QED
        BY <1>1, <1>2, <3>1, AnswerCookies
    <2>2. CASE pc[r] = "done" /\ jar'[c].auth = jar[c].auth
      <3>1. Brought(p, c)
        BY <1>1, <1>2, <1>3, <2>2 DEF JarBrought
      <3>2. tokens'[p] = tokens[p]
        BY <1>0, <3>1, MintedStays DEF Brought
      <3>3. tokens[p].session # tokens[t].session \/ Succeeded(t)
        BY <1>1, <1>2, <1>3, <1>5, <2>2 DEF LoggedOut, At, SessionOf
      <3>4. QED
        BY <1>0, <3>2, <3>3, SucceededStays
    <2>3. CASE Receives(p) /\ Minted(p)
      <3>1. pc[p] = "reply" /\ tokens'[p] = tokens[p]
        BY <2>3 DEF Receives
      <3>2. p # t
        BY <1>4, <3>1 DEF Brought
      <3>3. ~Succeeded(p)
        BY <3>1 DEF Succeeded, PresentsBrought, Brought
      <3>4. tokens[p].session # tokens[t].session \/ Succeeded(t)
        BY <1>5, <2>3, <3>2, <3>3 DEF OneTail, SessionOf
      <3>5. QED
        BY <1>0, <3>1, <3>4, SucceededStays
    <2>4. QED
      BY <1>1, <1>2, <1>3, <2>1, <2>2, <2>3, JarAuth
  <1>7. QED
    BY <1>1, <1>2, <1>3, <1>5, <1>6 DEF SessionOf

\* A row that leaves the table is accounted for, and so it stays.
LEMMA RowsAccountedStep ==
    ASSUME SessionInv, SessionInv', BrowserType, PresentsBrought, RowsAccounted, Moves
    PROVE  RowsAccounted'
  <1>0. Kept /\ TypeOK /\ TypeOK'
    BY MovesKeep DEF SessionInv, TypeInv
  <1> SUFFICES ASSUME NEW t \in Requests, Minted(t)'
               PROVE  \/ t \in refreshTokens'
                      \/ \E v \in revoked' : v.session = tokens'[t].session
                      \/ \E q \in Requests :
                            /\ req'[q].op = "Refresh" /\ req'[q].token = t
                            /\ Redeemed(q)' \/ pc'[q] = "dropped"
                      \/ now' > tokens'[t].refreshExpiresAt
    BY DEF RowsAccounted, SessionOf
  <1>1. CASE ~Minted(t)
    BY <1>1, FreshPair
  <1>2. CASE Minted(t)
    <2>1. tokens'[t] = tokens[t] /\ tokens[t].refreshExpiresAt \in Nat
      BY <1>0, <1>2, MintedStays DEF TypeOK, Minted, AuthTokens, TwoFactorTokens, NoTokens
    <2>2. CASE t \in refreshTokens /\ t \notin refreshTokens'
      <3>1. PICK r \in Requests : Handles(r)
        <4>1. \A q, b, s : (q \in Requests /\ Sends(b, q, s)) => refreshTokens' = refreshTokens
          BY DEF Sends, StepEffect, Arrives
        <4>2. QED
          BY <2>2, <4>1 DEF Moves, Receives, GitHubLogin, vars, Waits
      <3>2. \/ \E v \in revoked' : v.session = tokens[t].session
            \/ Renewing(r)' /\ req[r].token = t /\ req'[r] = req[r]
        BY <2>2, <3>1 DEF Handles, StepEffect, Proceeds
      <3>3. QED
        BY <2>1, <3>2 DEF Redeemed, Renewing, At
    <2>3. CASE \E v \in revoked : v.session = tokens[t].session
      BY <1>0, <2>1, <2>3 DEF Kept
    <2>4. CASE now > tokens[t].refreshExpiresAt
      <3>1. now \in Nat /\ now' \in {now, now + 1}
        BY <1>0 DEF TypeOK, Moves, Sends, Handles, Receives, StepEffect, GitHubLogin,
                    vars, Waits
      <3>2. QED
        BY <2>1, <2>4, <3>1
    <2>5. ASSUME NEW q \in Requests, req[q].op = "Refresh", req[q].token = t,
                 Redeemed(q) \/ pc[q] = "dropped"
          PROVE  \/ Redeemed(q)' \/ pc'[q] = "dropped"
                 \/ now' > tokens'[t].refreshExpiresAt
      <3>1. CASE pc[q] = "dropped"
        BY <1>0, <3>1 DEF Kept
      <3>2. CASE Minted(q)
        BY <1>0, <2>5, <3>2, MintedStays DEF Redeemed
      <3>3. CASE Renewing(q)
        <4>1. CASE Handles(q)
          BY <2>1, <2>5, <4>1, <3>3 DEF Handles, StepEffect, Proceeds, Redeemed, Renewing, At
        <4>2. CASE ~Handles(q)
          <5>1. pc'[q] = pc[q] /\ req'[q] = req[q]
            BY <3>3, <4>2, OwnSteps DEF Sends, Receives, Renewing, At
          <5>2. QED
            BY <3>3, <5>1 DEF Redeemed, Renewing, At
        <4>3. QED
          BY <4>1, <4>2
      <3>4. QED
        BY <2>5, <3>1, <3>2, <3>3 DEF Redeemed
    <2>6. ASSUME NEW q \in Requests, req[q].op = "Refresh", req[q].token = t,
                 Redeemed(q) \/ pc[q] = "dropped"
          PROVE  req'[q] = req[q]
      BY <1>0, <2>6 DEF Kept, Redeemed, Renewing, At, SessionInv, MintedLast, Minted, NoTokens
    <2>7. QED
      BY <1>2, <2>1, <2>2, <2>3, <2>4, <2>5, <2>6 DEF RowsAccounted, SessionOf
  <1>3. QED
    BY <1>1, <1>2

\* The answer of a refresh replaces the very pair it has spent.
LEMMA SpentLeavesJarStep ==
    ASSUME SessionInv, SessionInv', BrowserType, BrowserType', JarBrought, JarBrought',
           PresentsBrought, PresentsBrought', SpentLeavesJar, Moves
    PROVE  SpentLeavesJar'
  <1>0. Kept /\ TypeOK'
    BY MovesKeep DEF SessionInv, TypeInv
  <1> SUFFICES ASSUME NEW c \in Browsers, NEW q \in Requests, req'[q].op = "Refresh",
                      req'[q].token = jar'[c].auth, Minted(q)', pc'[q] = "done"
               PROVE  FALSE
    BY DEF SpentLeavesJar
  <1>1. PICK t \in Requests : t = req'[q].token
    BY <1>0 DEF TypeOK, Input
  <1>2. pc[q] # "idle" /\ req'[q] = req[q] /\ sent'[q] = sent[q]
    <2>1. pc[q] # "idle"
      BY OwnSteps DEF Sends, StepEffect, Arrives, Handles, Receives
    <2>2. QED
      BY <1>0, <2>1 DEF Kept
  <1>3. Brought(t, sent[q].browser)
    BY <1>1, <1>2 DEF PresentsBrought
  <1>4. pc[t] = "done" /\ sent[t].browser = sent[q].browser
    BY <1>3 DEF Brought
  <1>5. sent'[t].browser = c /\ sent'[t] = sent[t]
    <2>1. Brought(t, c)'
      BY <1>1, CookiesAssumption DEF JarBrought, Brought, Minted
    <2>2. QED
      BY <1>0, <1>4, <2>1 DEF Brought, Kept
  <1>6. sent[q].browser = c
    BY <1>4, <1>5
  <1>7. CASE pc[q] # "done"
    <2>1. Receives(q)
      BY <1>2, <1>7, OwnSteps DEF Sends, Handles
    <2>2. Minted(q) /\ req[q].op # "Logout"
      BY <1>2, <2>1 DEF Receives, Minted
    <2>3. jar'[c].auth = q
      BY <1>6, <2>1, <2>2, AnswerCookies
    <2>4. QED
      BY <1>1, <1>4, <1>7, <2>3
  <1>8. CASE pc[q] = "done"
    <2>1. Minted(q)
      BY <1>8, OwnSteps DEF Sends, Handles, StepEffect, Proceeds, Receives, Minted
    <2>2. jar[c].auth # t
      BY <1>1, <1>2, <1>8, <2>1 DEF SpentLeavesJar
    <2>3. PICK r \in Requests : Receives(r) /\ jar'[c].auth = r
      BY <1>1, <2>2, CookiesAssumption, JarAuth
    <2>4. QED
      BY <1>1, <1>4, <2>3 DEF Receives
  <1>9. QED
    BY <1>7, <1>8

----------------------------------------------------------------------------
(***************************************************************************)
(* The theorems                                                            *)
(***************************************************************************)

LEMMA BrowserInvInit == BrowserInit => SessionInv /\ BrowserInv
  <1> SUFFICES ASSUME BrowserInit PROVE SessionInv /\ BrowserInv
    OBVIOUS
  <1>1. SessionInv
    BY SessionInit DEF BrowserInit
  <1>2. \A r \in Requests : pc[r] = "idle" /\ req[r] = NoInput /\ ~Minted(r)
    BY DEF BrowserInit, StoreInit, Minted, NoTokens
  <1>3. BrowserType
    BY <1>2 DEF BrowserInit, BrowserType, Jar, EmptyJar, Nowhere
  <1>4. \A b \in Browsers : jar[b].auth = NoCookie /\ jar[b].state = NoCookie
    BY DEF BrowserInit, EmptyJar
  <1>5. StatesHome /\ JarBrought
    BY <1>4 DEF StatesHome, JarBrought
  <1>6. CallbacksHome /\ PresentsBrought /\ LoggedOut /\ SpentLeavesJar
    BY <1>2 DEF CallbacksHome, PresentsBrought, LoggedOut, SpentLeavesJar, At, NoInput
  <1>7. OneTail /\ RowsAccounted
    BY <1>2 DEF OneTail, RowsAccounted
  <1>8. QED
    BY <1>1, <1>3, <1>5, <1>6, <1>7 DEF BrowserInv

LEMMA BrowserInvStep ==
    SessionInv /\ BrowserInv /\ [BrowserNext]_browserVars => SessionInv' /\ BrowserInv'
  <1> SUFFICES ASSUME SessionInv, BrowserInv, [BrowserNext]_browserVars
               PROVE  SessionInv' /\ BrowserInv'
    OBVIOUS
  <1> USE DEF BrowserInv
  <1>1. SessionInv' /\ Moves
    BY BrowserMoves
  <1>2. BrowserType' /\ StatesHome' /\ CallbacksHome'
    BY <1>1, BrowserTypeStep, StatesHomeStep, CallbacksHomeStep
  <1>3. JarBrought' /\ PresentsBrought' /\ OneTail'
    BY <1>1, JarBroughtStep, PresentsBroughtStep, OneTailStep
  <1>4. LoggedOut'
    BY <1>1, <1>2, <1>3, LoggedOutStep
  <1>5. RowsAccounted'
    BY <1>1, RowsAccountedStep
  <1>6. SpentLeavesJar'
    BY <1>1, <1>2, <1>3, SpentLeavesJarStep
  <1>7. QED
    BY <1>1, <1>2, <1>3, <1>4, <1>5, <1>6

\* However tabs, answers and failures interleave, what a jar holds, what is on its
\* way to it and what the tables hold stay in step.
THEOREM JarsCorrect == BrowserSpec => [](SessionInv /\ BrowserInv)
  <1>1. BrowserInit => SessionInv /\ BrowserInv
    BY BrowserInvInit
  <1>2. SessionInv /\ BrowserInv /\ [BrowserNext]_browserVars
            => (SessionInv /\ BrowserInv)'
    BY BrowserInvStep
  <1>3. QED
    BY <1>1, <1>2, PTL DEF BrowserSpec

\* A browser at rest holds no spent token: the token in its jar has its row, or
\* expired, or belongs to a session that was ended, or its renewal failed halfway
\* (setAuthCookies, Refresh, Logout, ChangePassword).
THEOREM BrowserStaysSignedIn == BrowserSpec => []JarAlive
  <1>1. SessionInv /\ BrowserInv => JarAlive
    <2> SUFFICES ASSUME SessionInv, BrowserInv, InFlight = {}, NEW b \in Browsers,
                        jar[b].auth # NoCookie, jar[b].auth \notin refreshTokens,
                        ~\E v \in revoked : v.session = SessionOf(jar[b].auth),
                        ~(now > tokens[jar[b].auth].refreshExpiresAt)
                 PROVE  LostRenewal(jar[b].auth)
      BY DEF JarAlive
    <2>1. PICK t \in Requests : t = jar[b].auth
      BY DEF BrowserInv, BrowserType, Jar
    <2>2. Minted(t)
      BY <2>1 DEF BrowserInv, JarBrought, Brought
    <2>3. PICK q \in Requests : /\ req[q].op = "Refresh" /\ req[q].token = t
                                /\ Redeemed(q) \/ pc[q] = "dropped"
      BY <2>1, <2>2 DEF BrowserInv, RowsAccounted
    <2>4. pc[q] \notin Working
      BY DEF InFlight
    <2>5. ~Renewing(q)
      BY <2>4 DEF Renewing, At, Working
    <2>6. Minted(q) => pc[q] \in {"done", "dropped"}
      BY <2>4 DEF SessionInv, MintedLast, Minted, NoTokens, Working
    <2>7. Minted(q) => pc[q] # "done"
      BY <2>1, <2>3 DEF BrowserInv, SpentLeavesJar
    <2>8. pc[q] = "dropped"
      BY <2>3, <2>5, <2>6, <2>7 DEF Redeemed
    <2>9. QED
      BY <2>1, <2>3, <2>8 DEF LostRenewal
  <1>2. QED
    BY <1>1, JarsCorrect, PTL

\* A logout stays a logout, unless another tab had the next pair of the same token
\* on its way (Logout, clearAuthCookies, Refresh).
THEOREM LogoutIsUndoneByItsTwinOnly == BrowserSpec => []LogoutSticks
  <1>1. BrowserInv => LogoutSticks
    BY DEF BrowserInv, LoggedOut, LogoutSticks, Succeeded, Redeemed
  <1>2. QED
    BY <1>1, JarsCorrect, PTL

\* A sign-in through GitHub ends in the browser it began in, whoever opens the
\* page GitHub sends people to (GitHubLogin, GitHubCallback).
THEOREM SignInEndsWhereItBegan == BrowserSpec => []CallbackFromHere
  <1>1. SessionInv /\ BrowserInv => CallbackFromHere
    BY DEF SessionInv, MintedLast, BrowserInv, CallbacksHome, CallbackFromHere
  <1>2. QED
    BY <1>1, JarsCorrect, PTL

\* Seen through their cookies the sessions still are those of SessionLifecycle: no
\* order of answers opens one twice, forks it or brings an ended one back.
THEOREM BrowsersImplementLifecycle == BrowserSpec => ImplementsLifecycle
  <1>1. BrowserInit => Lifecycle!Init
    BY LifecycleInit DEF BrowserInit
  <1>2. SessionInv /\ SessionInv' /\ [BrowserNext]_browserVars
            => [Lifecycle!Next]_<<phase, owner>>
    <2>1. SUFFICES ASSUME SessionInv, SessionInv', [BrowserNext]_browserVars
                   PROVE  Lifecycle!Next \/ (phase' = phase /\ owner' = owner)
      OBVIOUS
    <2>2. CASE \E r \in Requests : Step(r)
      BY <2>1, <2>2, RequestRefines
    <2>3. CASE \E b \in Browsers, r \in Requests : SendBareLogout(b, r)
      BY <2>1, <2>3, AdmitStutter DEF SendBareLogout
    <2>4. CASE UNCHANGED <<tokens, refreshTokens, req, pc>>
      <3>1. \A q \in Requests : Renewing(q)' = Renewing(q)
        BY <2>4 DEF Renewing, At
      <3>2. QED
        BY <2>4, <3>1, Stutter
    <2>5. QED
      BY <2>1, <2>2, <2>3, <2>4
      DEF BrowserNext, Send, Handle, Receive, Step, GitHubLogin, Tick, Quiescent, vars,
          browserVars
  <1>3. QED
    BY <1>1, <1>2, JarsCorrect, PTL DEF BrowserSpec, ImplementsLifecycle, Lifecycle!Spec

=============================================================================
