------------------------- MODULE MCSetupOperations -------------------------
(* Small instances of SetupOperations for TLC; the constants are model      *)
(* values, and liveness is checked, so there is no symmetry.                *)
EXTENDS SetupOperations
=============================================================================
