------------------------------- MODULE Browser -------------------------------
(***************************************************************************)
(* The browsers in front of Auth.  A browser has one cookie jar; its tabs  *)
(* send requests at once, each with the cookies that are in the jar when   *)
(* it is sent, and the cookies of an answer go into the jar when it        *)
(* arrives.  Answers arrive in any order and may be lost (Drop).           *)
(***************************************************************************)
EXTENDS Auth

CONSTANTS
    Browsers,
    States,         \* the values of the state of a sign-in through GitHub
    NoCookie

VARIABLES
    jar,            \* the cookies of each browser; a token goes by the name of
                    \* the request whose answer brought it
    sent,           \* where each request came from, and the state of a callback
    started         \* history: the browser each state was handed to

browserVars == <<vars, jar, sent, started>>

ASSUME CookiesAssumption == NoCookie \notin Requests \cup States \cup Browsers

\* bnn_access and bnn_refresh are set and cleared together: auth is the pair.
Jar == [auth: Requests \cup {NoCookie}, twoFactor: Requests \cup {NoCookie},
        state: States \cup {NoCookie}]

EmptyJar == [auth |-> NoCookie, twoFactor |-> NoCookie, state |-> NoCookie]

Nowhere == [browser |-> NoCookie, state |-> NoCookie]

BrowserInit ==
    /\ StoreInit
    /\ jar = [b \in Browsers |-> EmptyJar]
    /\ sent = [r \in Requests |-> Nowhere]
    /\ started = [s \in States |-> NoCookie]

\* GitHub trades a code once.
Traded(s) ==
    \E q \in Requests :
        sent[q].state = s /\ req[q].op = "GitHubCallback" /\ req[q].vouched

\* Variant: the state is not compared with the cookie.
CarriesAnyState(b, input, s) ==
    CASE input.op \in {"SignUp", "SignIn"} -> TRUE
      [] input.op = "VerifyTwoFactor" -> input.token = jar[b].twoFactor
      [] input.op = "GitHubCallback" ->
            /\ started[s] # NoCookie
            /\ input.vouched => ~Traded(s)
      [] OTHER -> input.token = jar[b].auth

\* What a handler reads from the cookies of its request.  The callback is a page
\* GitHub sends some browser to; its state is compared with the cookie.
Carries(b, input, s) ==
    CASE input.op \in {"SignUp", "SignIn"} -> TRUE
      [] input.op = "VerifyTwoFactor" -> input.token = jar[b].twoFactor
      [] input.op = "GitHubCallback" ->
            /\ started[s] # NoCookie
            /\ input.vouched => jar[b].state = s /\ ~Traded(s)
      [] OTHER -> input.token = jar[b].auth

SendState(b, r, s) ==
    /\ sent' = [sent EXCEPT ![r] = [browser |-> b, state |-> s]]
    /\ UNCHANGED <<jar, started>>

Send(b, r) ==
    /\ pc[r] = "idle"
    /\ Step(r)
    /\ \E s \in States \cup {NoCookie} :
          /\ (s = NoCookie) <=> (req'[r].op # "GitHubCallback")
          /\ Carries(b, req'[r], s)
          /\ SendState(b, r, s)

\* Logout without a cookie makes no repository call and clears the cookies all
\* the same.  It presents no token but one that nobody has: its own.
SendBareLogout(b, r) ==
    /\ jar[b].auth = NoCookie
    /\ Admit(r, [op |-> "Logout", token |-> r], "reply")
    /\ SendState(b, r, NoCookie)

Handle(r) ==
    /\ pc[r] # "idle"
    /\ Step(r)
    /\ pc'[r] # "done"
    /\ UNCHANGED <<jar, sent, started>>

\* Variant: the cookies are cleared under another path, and stay.
AnsweredLogoutKeeps(cookies, r) ==
    IF req[r].op = "Logout" THEN cookies
    ELSE [cookies EXCEPT !.auth = IF Minted(r) THEN r ELSE @]

\* Variant: Refresh answers without the new refresh token.
AnsweredNoRefresh(cookies, r) ==
    CASE req[r].op = "Logout" -> [cookies EXCEPT !.auth = NoCookie]
      [] req[r].op # "Refresh" /\ Minted(r) -> [cookies EXCEPT !.auth = r]
      [] OTHER -> cookies

\* The jar once the Set-Cookie headers of the answer to r are in it.  An error
\* has none.
Answered(cookies, r) ==
    LET op == req[r].op
    IN  [auth |-> IF op = "Logout" THEN NoCookie
                  ELSE IF Minted(r) THEN r ELSE cookies.auth,
         twoFactor |-> IF op = "VerifyTwoFactor" THEN NoCookie
                       ELSE IF tokens[r].audience = "2fa" THEN r ELSE cookies.twoFactor,
         state |-> IF op = "GitHubCallback" THEN NoCookie ELSE cookies.state]

Receive(r) ==
    /\ Reply(r)
    /\ jar' = [jar EXCEPT ![sent[r].browser] = Answered(@, r)]
    /\ UNCHANGED <<sent, started>>

\* GitHubLogin touches no table: a new state goes into the jar, and with it the
\* browser is sent to GitHub.
GitHubLogin(b) ==
    \E s \in States :
        /\ started[s] = NoCookie
        /\ started' = [started EXCEPT ![s] = b]
        /\ jar' = [jar EXCEPT ![b].state = s]
        /\ UNCHANGED <<vars, sent>>

BrowserNext ==
    \/ \E b \in Browsers, r \in Requests : Send(b, r) \/ SendBareLogout(b, r)
    \/ \E r \in Requests : Handle(r) \/ Receive(r)
    \/ \E b \in Browsers : GitHubLogin(b)
    \/ (Tick \/ Quiescent) /\ UNCHANGED <<jar, sent, started>>

BrowserSpec == BrowserInit /\ [][BrowserNext]_browserVars

----------------------------------------------------------------------------

SessionOf(r) == tokens[r].session

\* The refresh that took the row of t out failed before its answer arrived.
LostRenewal(t) ==
    \E q \in Requests :
        /\ req[q].op = "Refresh" /\ req[q].token = t
        /\ pc[q] = "dropped"

\* However the answers of its tabs overtake each other, a browser at rest is
\* left with a refresh token that has its row, unless the token has expired, the
\* session was ended by a logout or a password change or the renewal failed
\* halfway: an answer that comes late never puts a spent token back
\* (setAuthCookies, Refresh).
JarAlive ==
    InFlight = {} =>
        \A b \in Browsers :
            LET t == jar[b].auth
            IN  \/ t = NoCookie
                \/ t \in refreshTokens
                \/ \E v \in revoked : v.session = SessionOf(t)
                \/ LostRenewal(t)
                \/ now > tokens[t].refreshExpiresAt

\* After a logout the browser is in the session again only if another tab was
\* trading the very token the logout presented (Logout, clearAuthCookies).
LogoutSticks ==
    \A r \in Requests :
        LET t == jar[sent[r].browser].auth
        IN  (At(r, "Logout", "done") /\ t # NoCookie /\ Minted(req[r].token)) =>
                \/ SessionOf(t) # SessionOf(req[r].token)
                \/ \E q \in Requests :
                      req[q].op = "Refresh" /\ req[q].token = req[r].token /\ Redeemed(q)

\* A sign-in through GitHub ends in the browser where it began, whichever tab
\* or browser the page GitHub sends people to is opened in (GitHubLogin,
\* GitHubCallback).
CallbackFromHere ==
    \A r \in Requests :
        (req[r].op = "GitHubCallback" /\ tokens[r] # NoTokens) =>
            started[sent[r].state] = sent[r].browser

\* "Deletes the session of this device and clears both cookies"
\* (docs/openapi.yaml:96): once a logout is answered, the browser has no token
\* of that session.
LogoutSignsOut ==
    \A r \in Requests :
        LET t == jar[sent[r].browser].auth
        IN  (At(r, "Logout", "done") /\ t # NoCookie /\ Minted(req[r].token)) =>
                SessionOf(t) # SessionOf(req[r].token)
=============================================================================
