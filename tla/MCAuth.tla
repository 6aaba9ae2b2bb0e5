------------------------------- MODULE MCAuth -------------------------------
(***************************************************************************)
(* Instances of Auth for TLC: the .cfg files give its CONSTANTS values,    *)
(* some of them by the names defined here.                                 *)
(***************************************************************************)
EXTENDS AuthInduction

SessionOps == {"SignIn", "Refresh", "Logout", "ChangePassword"}

TwoFactorOps ==
    {"SignIn", "Generate2FA", "Enable2FA", "Disable2FA", "VerifyTwoFactor"}

ProviderOps ==
    {"SignUp", "SignIn", "GitHubCallback", "VerifyTwoFactor", "ChangePassword", "Refresh"}

AllOps == SessionOps \cup TwoFactorOps \cup ProviderOps
=============================================================================
