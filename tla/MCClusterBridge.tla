--------------------------- MODULE MCClusterBridge ---------------------------
(***************************************************************************)
(* Clusters for TLC.                                                       *)
(***************************************************************************)
EXTENDS ClusterBridge

CONSTANTS n1, n2

\* Two nodes that have each other as peers.
Pair == [a \in {n1, n2} |-> {n1, n2} \ {a}]
PairServices == [a \in {n1, n2} |-> IF a = n1 THEN {"users"} ELSE {"chat"}]

=============================================================================
