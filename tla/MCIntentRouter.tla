--------------------------- MODULE MCIntentRouter ---------------------------
(***************************************************************************)
(* Constants of IntentRouter for TLC.                                      *)
(***************************************************************************)
EXTENDS IntentRouter, TLC

CONSTANTS c1, c2, n1, n2, here

\* One call for a service of two remote nodes, and one for a service of the
\* second of them and the local node.
Overlapping == (c1 :> <<n1, n2>>) @@ (c2 :> <<n2, here>>)

=============================================================================
