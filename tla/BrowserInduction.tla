-------------------------- MODULE BrowserInduction --------------------------
(***************************************************************************)
(* The inductive invariant behind the theorems of BrowserProofs: what the  *)
(* cookies in a jar, the answers still on their way and the rows of        *)
(* refresh_tokens have to do with each other, whatever order the answers   *)
(* arrive in.                                                              *)
(***************************************************************************)
EXTENDS Browser, AuthInduction

BrowserType ==
    /\ jar \in [Browsers -> Jar]
    /\ sent \in [Requests -> [browser: Browsers \cup {NoCookie},
                              state: States \cup {NoCookie}]]
    /\ started \in [States -> Browsers \cup {NoCookie}]
    /\ \A r \in Requests : pc[r] # "idle" => sent[r].browser \in Browsers

\* The state in a jar is one that was handed to this browser.
StatesHome ==
    \A b \in Browsers : jar[b].state # NoCookie => started[jar[b].state] = b

\* A callback gets past the door only with a state of its own browser.
CallbacksHome ==
    \A r \in Requests :
        req[r].op = "GitHubCallback" =>
            IF req[r].vouched
            THEN /\ sent[r].state \in States
                 /\ sent[r].browser \in Browsers
                 /\ started[sent[r].state] = sent[r].browser
            ELSE pc[r] = "rejected"

\* The pair of t was brought to browser b by an answer.
Brought(t, b) == Minted(t) /\ pc[t] = "done" /\ sent[t].browser = b

\* The tokens in a jar were brought there by an answer to this browser.
JarBrought == \A b \in Browsers : jar[b].auth # NoCookie => Brought(jar[b].auth, b)

\* A refresh and a logout present what was brought to their browser before; only
\* a logout may present nothing.
PresentsBrought ==
    \A r \in Requests :
        /\ req[r].op = "Refresh" => Brought(req[r].token, sent[r].browser)
        /\ req[r].op = "Logout" =>
              /\ ~Minted(r)
              /\ req[r].token = r \/ Brought(req[r].token, sent[r].browser)

\* A refresh has traded the token of t for the next pair.
Succeeded(t) ==
    \E q \in Requests : req[q].op = "Refresh" /\ req[q].token = t /\ Minted(q)

\* Of the pairs of a session all but one were traded: the chain has one end.
OneTail ==
    \A a, b \in Requests :
        (Minted(a) /\ Minted(b) /\ SessionOf(a) = SessionOf(b) /\ a # b)
            => Succeeded(a) \/ Succeeded(b)

\* LogoutSticks in the form a step preserves: a renewal under way may yet fail.
LoggedOut ==
    \A r \in Requests :
        LET t == jar[sent[r].browser].auth
        IN  (At(r, "Logout", "done") /\ t # NoCookie /\ Minted(req[r].token)) =>
                SessionOf(t) # SessionOf(req[r].token) \/ Succeeded(req[r].token)

\* Where the row of a pair can have gone.
RowsAccounted ==
    \A t \in Requests :
        Minted(t) =>
            \/ t \in refreshTokens
            \/ \E v \in revoked : v.session = SessionOf(t)
            \/ \E q \in Requests :
                  /\ req[q].op = "Refresh" /\ req[q].token = t
                  /\ Redeemed(q) \/ pc[q] = "dropped"
            \/ now > tokens[t].refreshExpiresAt

\* The answer that brings the next pair takes the spent one out of the jar.
SpentLeavesJar ==
    \A b \in Browsers, q \in Requests :
        (req[q].op = "Refresh" /\ req[q].token = jar[b].auth /\ Minted(q))
            => pc[q] # "done"

BrowserInv ==
    /\ BrowserType
    /\ StatesHome
    /\ CallbacksHome
    /\ JarBrought
    /\ PresentsBrought
    /\ OneTail
    /\ LoggedOut
    /\ RowsAccounted
    /\ SpentLeavesJar
=============================================================================
