--------------------------- MODULE MCHealthChecker ---------------------------
(***************************************************************************)
(* HealthChecker for TLC.                                                  *)
(***************************************************************************)
EXTENDS HealthChecker

=============================================================================
