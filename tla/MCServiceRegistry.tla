-------------------------- MODULE MCServiceRegistry --------------------------
(***************************************************************************)
(* ServiceRegistry for TLC, with a history of the nodes                    *)
(* resolve_load_balanced returned since the healthy candidates of the      *)
(* intent last changed.                                                    *)
(***************************************************************************)
EXTENDS ServiceRegistry

\* One intent name with its wildcard.
OneNamePatterns == {"user:get", "user:*"}
OneName == {"user:get"}
OneWildcardOf == [i \in OneName |-> "user:*"]

VARIABLE picks  \* intent -> the last Cardinality(NodeIds) nodes returned

LastN(s, k) == IF Len(s) <= k THEN s ELSE SubSeq(s, Len(s) - k + 1, Len(s))

MCInit == Init /\ picks = [i \in Names |-> << >>]

MCNext ==
    \/ /\ MembershipStep
       /\ picks' = [i \in Names |-> IF ResolveAll(i)' = ResolveAll(i) THEN picks[i] ELSE << >>]
    \/ \E i \in Names :
        /\ ResolveLoadBalanced(i)
        /\ picks' = [picks EXCEPT ![i] = LastN(Append(@, LoadBalanced(i)), Cardinality(NodeIds))]

MCSpec == MCInit /\ [][MCNext]_<<vars, picks>>

\* "Round-robin load balancing across healthy nodes" (registry.py:19): while
\* the healthy candidates of an intent stay the same, any run of as many
\* picks as there are candidates returns each of them exactly once, also
\* when the counter was left at any value by a longer or a shorter list.
RoundRobin ==
    \A i \in Names :
        LET k == Len(ResolveAll(i))
            recent == LastN(picks[i], k)
        IN  /\ \A a, b \in DOMAIN recent : recent[a] = recent[b] => a = b
            /\ IdsIn(recent) \subseteq IdsIn(ResolveAll(i))

=============================================================================
