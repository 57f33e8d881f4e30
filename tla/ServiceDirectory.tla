-------------------------- MODULE ServiceDirectory --------------------------
(***************************************************************************)
(* What the service registry promises its users, without its data          *)
(* structure: a directory of which node offers which service pattern.      *)
(* Joining or announcing states exactly what a node offers from then on,   *)
(* leaving removes all of it.                                              *)
(***************************************************************************)
CONSTANTS NodeIds, Patterns

VARIABLES
    known,   \* the nodes of the cluster
    offers   \* the pairs <<n, p>>: node n offers pattern p

dirVars == <<known, offers>>

Offering(n, S) == {<<n, p>> : p \in S}

DirInit == known = {} /\ offers = {}

\* The node is (or becomes) known and offers exactly S.
Declare(n, S) ==
    /\ known' = known \cup {n}
    /\ offers' = (offers \ Offering(n, Patterns)) \cup Offering(n, S)

Leave(n) ==
    /\ known' = known \ {n}
    /\ offers' = offers \ Offering(n, Patterns)

DirNext == \E n \in NodeIds : Leave(n) \/ \E S \in SUBSET Patterns : Declare(n, S)

DirSpec == DirInit /\ [][DirNext]_dirVars

=============================================================================
