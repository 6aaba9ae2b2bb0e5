----------------------------- MODULE MCEnrolment -----------------------------
(***************************************************************************)
(* Instances of Enrolment for TLC.                                         *)
(***************************************************************************)
EXTENDS Enrolment

TwoFactorOps ==
    {"SignIn", "Generate2FA", "Enable2FA", "Disable2FA", "VerifyTwoFactor"}
=============================================================================
