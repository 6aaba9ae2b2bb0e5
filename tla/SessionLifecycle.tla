-------------------------- MODULE SessionLifecycle --------------------------
(***************************************************************************)
(* What the auth component promises about sessions, without tokens, tables *)
(* or requests.  A session is opened once, for one user who never changes; *)
(* it is renewed any number of times, each time passing through a moment   *)
(* when nobody holds a credential for it; and it ends for good.  Ending    *)
(* all the sessions of a user reaches the live ones only: one that is      *)
(* being renewed at that moment comes back.                                *)
(***************************************************************************)
CONSTANTS Sessions, Owners, Nobody

VARIABLES phase, owner

Init ==
    /\ phase = [s \in Sessions |-> "none"]
    /\ owner = [s \in Sessions |-> Nobody]

Open(s, u) ==
    /\ phase[s] = "none"
    /\ phase' = [phase EXCEPT ![s] = "live"]
    /\ owner' = [owner EXCEPT ![s] = u]

\* The refresh token is spent ...
Rotate(s) ==
    /\ phase[s] = "live"
    /\ phase' = [phase EXCEPT ![s] = "renewing"]
    /\ UNCHANGED owner

\* ... and the next one stored.
Renew(s) ==
    /\ phase[s] = "renewing"
    /\ phase' = [phase EXCEPT ![s] = "live"]
    /\ UNCHANGED owner

\* A logout, or a renewal that came too late or was cut short.
End(s) ==
    /\ phase[s] \in {"live", "renewing"}
    /\ phase' = [phase EXCEPT ![s] = "ended"]
    /\ UNCHANGED owner

\* A password change.
EndAll(u) ==
    /\ phase' = [s \in Sessions |->
                   IF owner[s] = u /\ phase[s] = "live" THEN "ended" ELSE phase[s]]
    /\ UNCHANGED owner

Next ==
    \/ \E s \in Sessions :
          \/ \E u \in Owners : Open(s, u)
          \/ Rotate(s)
          \/ Renew(s)
          \/ End(s)
    \/ \E u \in Owners : EndAll(u)

Spec == Init /\ [][Next]_<<phase, owner>>
=============================================================================
