------------------------ MODULE MCProtectedShutdown ------------------------
(* Small instances of ProtectedShutdown for TLC; the constants are model    *)
(* values, and liveness is checked, so there is no symmetry.                *)
EXTENDS ProtectedShutdown
=============================================================================
