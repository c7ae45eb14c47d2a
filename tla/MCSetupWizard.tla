--------------------------- MODULE MCSetupWizard ---------------------------
(* An instance of SetupWizard for TLC. *)
EXTENDS SetupWizard, TLC
=============================================================================
