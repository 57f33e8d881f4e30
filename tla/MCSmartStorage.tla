--------------------------- MODULE MCSmartStorage ---------------------------
(***************************************************************************)
(* SmartStorage for TLC: one data type, mapped to two backends.            *)
(***************************************************************************)
EXTENDS SmartStorage, TLC

CONSTANT k1

BothMapped == (k1 :> "both")

=============================================================================
