------------------------------ MODULE Enrolment ------------------------------
(***************************************************************************)
(* Auth with a history of the accounts whose second factor was contested:  *)
(* Enable2FA checks a code of the secret it has read and then turns the    *)
(* switch on, while the other two write secret or switch as well, and      *)
(* nothing but the order of their statements keeps the two together.       *)
(***************************************************************************)
EXTENDS Auth

VARIABLE contested      \* history: accounts that had an Enable2FA in hand
                        \* together with a Generate2FA or a Disable2FA

enrolmentVars == <<vars, contested>>

InHand(l, ops) == {r \in InFlight : req[r].op \in ops /\ req[r].user = l}

Contested ==
    {l \in Logins : /\ InHand(l, {"Enable2FA"}) # {}
                    /\ InHand(l, {"Generate2FA", "Disable2FA"}) # {}}

EnrolmentInit == StoreInit /\ contested = {}

EnrolmentNext == Next /\ contested' = contested \cup Contested'

EnrolmentSpec == EnrolmentInit /\ [][EnrolmentNext]_enrolmentVars

----------------------------------------------------------------------------

\* The codes of secret s were shown to be in the user's hands: the account
\* started with it, or an Enable2FA passed the check with one.  (One that was
\* dropped counts in any case: it brought such a code.)
Confirmed(l, s) ==
    \/ l \in Enrolled /\ s = FirstSecret
    \/ \E e \in Requests :
          /\ req[e].op = "Enable2FA"
          /\ req[e].user = l
          /\ req[e].code = s
          /\ pc[e] \in {"set", "reply", "done", "dropped"}

SecretIsConfirmed(l) ==
    users[l].enabled => /\ users[l].secret # NoSecret
                        /\ Confirmed(l, users[l].secret)

\* While the switch is on there is a secret, and the user has proved to have
\* it: a Disable2FA cut between its statements, a Generate2FA that was never
\* confirmed, two of one kind at once or a sign-in in between lock nobody out.
\* Only an Enable2FA that overlaps a Generate2FA or a Disable2FA of the same
\* account can (Generate2FA, Enable2FA, Disable2FA).
EnabledIsConfirmed == \A l \in Logins \ contested : SecretIsConfirmed(l)

\* The same for every account: enabling is "confirm and turn on" and no secret
\* is handed out while the switch is on (docs/openapi.yaml:199 and :205).
\* Generate2FA and Enable2FA look in one statement and write in another: each
\* of them may have looked before the other wrote.
OnMeansConfirmed == \A l \in Logins : SecretIsConfirmed(l)

----------------------------------------------------------------------------
(***************************************************************************)
(* The inductive invariant                                                 *)
(***************************************************************************)

\* What a request between two statements relies on: the check it has made
\* still holds.
StillChecked(r) ==
    /\ At(r, "Generate2FA", "write") \/ At(r, "Disable2FA", "erase") =>
          ~users[req[r].user].enabled
    /\ At(r, "Enable2FA", "set") =>
          users[req[r].user].secret = req[r].code /\ req[r].code # NoSecret

SwitchOps == {"Generate2FA", "Enable2FA", "Disable2FA"}

\* An operation on the switch is for an account that is there, and still holds
\* what it has checked unless the account was contested.
KeptBy(r) ==
    req[r].op \in SwitchOps =>
        /\ users[req[r].user].exists
        /\ req[r].user \in contested \/ StillChecked(r)

ConfirmedInv ==
    /\ Contested \subseteq contested
    /\ EnabledIsConfirmed
    /\ \A r \in Requests : KeptBy(r)
=============================================================================
