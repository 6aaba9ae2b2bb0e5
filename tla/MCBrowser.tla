------------------------------ MODULE MCBrowser ------------------------------
(***************************************************************************)
(* Instances of Browser for TLC.                                           *)
(***************************************************************************)
EXTENDS Browser, TLC

TabOps ==
    {"SignIn", "Refresh", "Logout", "ChangePassword", "GitHubCallback", "VerifyTwoFactor"}

Alike == Permutations(Browsers) \cup Permutations(States)

SessionOps == {"SignIn", "Refresh", "Logout"}
=============================================================================
