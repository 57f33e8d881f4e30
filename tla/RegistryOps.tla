----------------------------- MODULE RegistryOps -----------------------------
(***************************************************************************)
(* The data structure of evoid_cluster/registry.py as operators on values: *)
(* the node table (_nodes) and the index from service pattern to the       *)
(* ordered list of node ids that serve it (_service_map).  ServiceRegistry *)
(* puts one registry under its public operations; ClusterBridge gives one  *)
(* to every node of a cluster.                                             *)
(*                                                                         *)
(* A node record keeps what the registry reads of a ClusterNode: the set   *)
(* of its services (every use of the list goes through membership or       *)
(* set()) and its status.                                                  *)
(***************************************************************************)
EXTENDS Naturals, Sequences, FiniteSets, SequencesExt

\* NodeStatus of node.py.
NodeStatus == {"online", "offline", "degraded"}

\* The node ids of a list.
IdsIn(ids) == {ids[i] : i \in DOMAIN ids}

\* self._service_map.get(svc, [])
IdsFor(map, svc) == IF svc \in DOMAIN map THEN map[svc] ELSE << >>

\* "if node_id not in ids: ids.append(node_id)"
AddId(ids, n) == IF n \in IdsIn(ids) THEN ids ELSE Append(ids, n)

\* "[nid for nid in ids if nid != node_id]".  An id occurs at most once in a
\* list (UniqueEntries), so there is at most one position to remove and the
\* removal of that position is the filter.
DropId(ids, n) ==
    IF n \in IdsIn(ids) THEN RemoveAt(ids, CHOOSE i \in DOMAIN ids : ids[i] = n)
                        ELSE ids

\* The loops that index node n under every pattern of svcs.
Index(map, n, svcs) ==
    [svc \in DOMAIN map \cup svcs |->
        IF svc \in svcs THEN AddId(IdsFor(map, svc), n) ELSE map[svc]]

\* Mutant: the pattern is deleted although other nodes are left under it.
UnindexAll(map, n, svcs) == [svc \in DOMAIN map \ svcs |-> map[svc]]

\* The loops that remove node n from every pattern of svcs and delete the
\* patterns whose list becomes empty.
Unindex(map, n, svcs) ==
    LET Left(svc) == IF svc \in svcs THEN DropId(map[svc], n) ELSE map[svc]
    IN  [svc \in {s \in DOMAIN map : Left(s) # << >>} |-> Left(svc)]

\* _is_healthy
IsHealthy(nodes, n) == n \in DOMAIN nodes /\ nodes[n].status = "online"

\* The positions of a list whose node is healthy.
HealthyAt(nodes, ids) == {i \in DOMAIN ids : IsHealthy(nodes, ids[i])}

\* Element k (counted from 0) of the list of healthy nodes.
NthHealthy(nodes, ids, k) ==
    LET P == HealthyAt(nodes, ids)
    IN  ids[CHOOSE i \in P : Cardinality({j \in P : j < i}) = k]

\* "[nid for nid in node_ids if self._is_healthy(nid)]"
HealthyList(nodes, ids) ==
    [k \in 1 .. Cardinality(HealthyAt(nodes, ids)) |-> NthHealthy(nodes, ids, k - 1)]

\* mark_node_offline, mark_node_online: nothing for an unknown node.
SetStatus(nodes, n, st) ==
    IF n \in DOMAIN nodes THEN [nodes EXCEPT ![n].status = st] ELSE nodes

\* self._nodes[node.node_id] = node
PutNode(nodes, n, svcs, st) ==
    [m \in DOMAIN nodes \cup {n} |->
        IF m = n THEN [services |-> svcs, status |-> st] ELSE nodes[m]]

\* self._nodes.pop(node_id, None)
PopNode(nodes, n) == [m \in DOMAIN nodes \ {n} |-> nodes[m]]

=============================================================================
