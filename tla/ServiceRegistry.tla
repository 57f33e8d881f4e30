--------------------------- MODULE ServiceRegistry ---------------------------
(***************************************************************************)
(* evoid_cluster/registry.py: the service registry of one cluster node.    *)
(* All methods are synchronous, so every call is one step.                 *)
(***************************************************************************)
EXTENDS RegistryOps

CONSTANTS
    NodeIds,          \* the ids of cluster nodes
    Patterns,         \* service patterns, exact names and wildcards alike
    Names,            \* the intent names that are resolved
    WildcardOf,       \* WildcardOf[i]: the pattern "<prefix of i>:*"
    NoNode,           \* Python's None as the result of a resolution
    AllowReRegister   \* may a node id be registered while it is known?

ASSUME NodeIdsAssumption == IsFiniteSet(NodeIds)
ASSUME NamesAssumption == Names \subseteq Patterns
ASSUME WildcardAssumption == WildcardOf \in [Names -> Patterns]
ASSUME NoNodeAssumption == NoNode \notin NodeIds
ASSUME ReRegisterAssumption == AllowReRegister \in BOOLEAN

VARIABLES
    nodes,        \* _nodes: node id -> [services, status], known ids only
    service_map,  \* _service_map: pattern -> list of node ids
    rr_index      \* _rr_index, 0 for an intent that has no entry yet

vars == <<nodes, service_map, rr_index>>

NodeRecord == [services : SUBSET Patterns, status : NodeStatus]

TypeOK ==
    /\ DOMAIN nodes \subseteq NodeIds
    /\ \A n \in DOMAIN nodes : nodes[n] \in NodeRecord
    /\ nodes = [n \in DOMAIN nodes |-> nodes[n]]
    /\ DOMAIN service_map \subseteq Patterns
    /\ \A svc \in DOMAIN service_map : service_map[svc] \in Seq(NodeIds)
    /\ service_map = [svc \in DOMAIN service_map |-> service_map[svc]]
    /\ rr_index \in [Names -> Nat]

Init ==
    /\ nodes = [n \in {} |-> [services |-> {}, status |-> "offline"]]
    /\ service_map = [svc \in {} |-> << >>]
    /\ rr_index = [i \in Names |-> 0]

-----------------------------------------------------------------------------
(* Membership.                                                             *)

\* register_node replaces the record of the node but only ever adds to the
\* index: what an earlier record of the same id was indexed under stays.
RegisterNode(n, svcs, st) ==
    /\ AllowReRegister \/ n \notin DOMAIN nodes
    /\ nodes' = PutNode(nodes, n, svcs, st)
    /\ service_map' = Index(service_map, n, svcs)
    /\ UNCHANGED rr_index

\* Mutant: the record goes, the index keeps the node.
UnregisterRecordOnly(n) ==
    /\ n \in DOMAIN nodes
    /\ nodes' = PopNode(nodes, n)
    /\ UNCHANGED <<service_map, rr_index>>

\* unregister_node visits only the services of the record it removes.
UnregisterNode(n) ==
    /\ n \in DOMAIN nodes
    /\ nodes' = PopNode(nodes, n)
    /\ service_map' = Unindex(service_map, n, nodes[n].services)
    /\ UNCHANGED rr_index

\* Mutant: new services are indexed, dropped ones are not removed.
UpdateAddsOnly(n, svcs) ==
    /\ n \in DOMAIN nodes
    /\ service_map' = Index(service_map, n, svcs \ nodes[n].services)
    /\ nodes' = [nodes EXCEPT ![n].services = svcs]
    /\ UNCHANGED rr_index

\* Mutant: all the new services are appended, the known ones again.
UpdateAppends(n, svcs) ==
    /\ n \in DOMAIN nodes
    /\ LET left == Unindex(service_map, n, nodes[n].services \ svcs)
       IN  service_map' = [svc \in DOMAIN left \cup svcs |->
                            IF svc \in svcs THEN Append(IdsFor(left, svc), n) ELSE left[svc]]
    /\ nodes' = [nodes EXCEPT ![n].services = svcs]
    /\ UNCHANGED rr_index

\* update_services applies the difference of the old and the new set.
UpdateServices(n, svcs) ==
    /\ n \in DOMAIN nodes
    /\ LET old == nodes[n].services
       IN  service_map' = Index(Unindex(service_map, n, old \ svcs), n, svcs \ old)
    /\ nodes' = [nodes EXCEPT ![n].services = svcs]
    /\ UNCHANGED rr_index

MarkNode(n, st) ==
    /\ n \in DOMAIN nodes
    /\ nodes' = SetStatus(nodes, n, st)
    /\ UNCHANGED <<service_map, rr_index>>

MembershipStep ==
    \E n \in NodeIds :
        \/ \E svcs \in SUBSET Patterns, st \in NodeStatus : RegisterNode(n, svcs, st)
        \/ UnregisterNode(n)
        \/ \E svcs \in SUBSET Patterns : UpdateServices(n, svcs)
        \/ \E st \in {"online", "offline"} : MarkNode(n, st)

-----------------------------------------------------------------------------
(* Resolution.                                                             *)

\* Mutant: only the head of the list is looked at.
FindHead(ids) ==
    IF ids = << >> THEN NoNode ELSE IF IsHealthy(nodes, ids[1]) THEN ids[1] ELSE NoNode

\* _find_healthy: the first healthy node of a list.
FindHealthy(ids) ==
    IF HealthyAt(nodes, ids) = {} THEN NoNode ELSE NthHealthy(nodes, ids, 0)

\* resolve: the exact pattern, and the wildcard when it has no healthy node.
Resolve(i) ==
    LET exact == FindHealthy(IdsFor(service_map, i))
    IN  IF exact # NoNode THEN exact ELSE FindHealthy(IdsFor(service_map, WildcardOf[i]))

\* The candidates of resolve_load_balanced and resolve_all: the exact
\* pattern, and the wildcard only when the exact pattern has no entry at all.
Candidates(i) ==
    IF IdsFor(service_map, i) # << >> THEN IdsFor(service_map, i)
                                      ELSE IdsFor(service_map, WildcardOf[i])

\* resolve_all
ResolveAll(i) == HealthyList(nodes, Candidates(i))

\* The position resolve_load_balanced takes in the list of healthy nodes.
RoundRobinSlot(i) == rr_index[i] % Cardinality(HealthyAt(nodes, Candidates(i)))

\* The node that the next resolve_load_balanced(i) returns.
LoadBalanced(i) ==
    IF HealthyAt(nodes, Candidates(i)) = {} THEN NoNode
    ELSE NthHealthy(nodes, Candidates(i), RoundRobinSlot(i))

\* Mutant: the counter is stored without being advanced.
BalanceStuck(i) ==
    /\ HealthyAt(nodes, Candidates(i)) # {}
    /\ rr_index' = [rr_index EXCEPT ![i] = RoundRobinSlot(i)]
    /\ UNCHANGED <<nodes, service_map>>

\* resolve_load_balanced: the only resolution that changes the registry.
ResolveLoadBalanced(i) ==
    /\ HealthyAt(nodes, Candidates(i)) # {}
    /\ rr_index' = [rr_index EXCEPT ![i] = RoundRobinSlot(i) + 1]
    /\ UNCHANGED <<nodes, service_map>>

\* is_local
IsLocal(i, local) == Resolve(i) = local

Next == MembershipStep \/ \E i \in Names : ResolveLoadBalanced(i)

Spec == Init /\ [][Next]_vars

-----------------------------------------------------------------------------
(* Properties.                                                             *)

\* No list of the index is empty or names a node twice, whatever sequence of
\* registrations, updates and removals led to it: the emptied patterns are
\* deleted (registry.py:45, :61) and every append is guarded (:33, :65).
UniqueEntries ==
    \A svc \in DOMAIN service_map :
        /\ service_map[svc] # << >>
        /\ \A i, j \in DOMAIN service_map[svc] :
               service_map[svc][i] = service_map[svc][j] => i = j

\* The index is complete: a known node is listed under each of its services.
\* update_services only applies a difference and unregister_node edits lists
\* shared with other nodes, so this relates records to several past calls.
IndexComplete ==
    \A n \in DOMAIN nodes : \A svc \in nodes[n].services :
        n \in IdsIn(IdsFor(service_map, svc))

\* The index is sound: a listed node is known and offers the service.  Holds
\* when no id is registered over a known one; register_node (registry.py:28)
\* does not remove what the record it replaces was indexed under.
IndexSound ==
    \A svc \in DOMAIN service_map : \A n \in IdsIn(service_map[svc]) :
        n \in DOMAIN nodes /\ svc \in nodes[n].services

\* The index as a directory: the pairs it lists.
Listed == {e \in NodeIds \X Patterns : e[1] \in IdsIn(IdsFor(service_map, e[2]))}

Directory == INSTANCE ServiceDirectory WITH known <- DOMAIN nodes, offers <- Listed

\* Without registration over a known id, the registry implements the
\* directory it stands for: after every operation the index lists exactly
\* what the last declaration of each known node said (registry.py:28-68).
ImplementsDirectory == Directory!DirSpec

\* When some online node offers the intent, exactly or by wildcard, resolve
\* finds a node and it is online (registry.py:70-81).  It is about resolve alone:
\* resolve_all, which failover and load balancing use, looks at the wildcard
\* only where no node is listed under the exact name, online or not (:102).
ResolveComplete ==
    \A i \in Names :
        (\E n \in DOMAIN nodes :
            /\ nodes[n].status = "online"
            /\ i \in nodes[n].services \/ WildcardOf[i] \in nodes[n].services)
        => Resolve(i) # NoNode /\ IsHealthy(nodes, Resolve(i))

=============================================================================
