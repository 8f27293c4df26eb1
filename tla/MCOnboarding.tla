---------------------------- MODULE MCOnboarding ----------------------------
(* Onboarding on small instances.                                           *)
EXTENDS Onboarding, TLC

OneProvider == {<<"Brevo">>}

============================================================================
