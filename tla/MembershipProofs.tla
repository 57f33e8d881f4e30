-------------------------- MODULE MembershipProofs ---------------------------
(****************************************************************************)
(* Proofs about what a node knows of the others: the service registry       *)
(* (ServiceRegistry), for any finite set of nodes and any patterns, and the *)
(* health checker (HealthChecker), for any peers and clocks.  The two are   *)
(* separate specifications; what a theorem is about is the one it names.    *)
(****************************************************************************)
EXTENDS MCServiceRegistry, HealthChecker, RegistryOpsProofs, SequenceTheorems, FiniteSetTheorems,
        WellFoundedInduction, TLAPS

-----------------------------------------------------------------------------
(* The inductive invariant.                                                *)

\* IndexComplete needs nothing else to be inductive but the shape of the
\* index; IndexSound needs that no id is registered over a known one.
IInv ==
    /\ TypeOK
    /\ UniqueEntries
    /\ IndexComplete
    /\ AllowReRegister \/ IndexSound

\* TypeOK and UniqueEntries say that service_map is a well-formed index.
LEMMA IndexShape ==
    (TypeOK /\ UniqueEntries) <=>
        /\ IsIndex(service_map, NodeIds, Patterns)
        /\ DOMAIN nodes \subseteq NodeIds
        /\ \A n \in DOMAIN nodes : nodes[n] \in NodeRecord
        /\ nodes = [n \in DOMAIN nodes |-> nodes[n]]
        /\ rr_index \in [Names -> Nat]
BY DEF TypeOK, UniqueEntries, IsIndex, Injective

\* The same for the next state.
LEMMA IndexShapePrimed ==
    ASSUME IsIndex(service_map', NodeIds, Patterns),
           DOMAIN nodes' \subseteq NodeIds,
           \A n \in DOMAIN nodes' : nodes'[n] \in NodeRecord,
           nodes' = [n \in DOMAIN nodes' |-> nodes'[n]],
           rr_index' \in [Names -> Nat]
    PROVE  (TypeOK /\ UniqueEntries)'
BY DEF TypeOK, UniqueEntries, IsIndex, Injective

\* resolve_load_balanced never divides by zero and leaves a counter.
LEMMA RoundRobinSlotType ==
    ASSUME TypeOK, NEW i \in Names, HealthyAt(nodes, Candidates(i)) # {}
    PROVE  RoundRobinSlot(i) \in Nat
<1> DEFINE ids == Candidates(i)
           H == HealthyAt(nodes, ids)
<1>1. ids \in Seq(NodeIds)
  <2>1. \A svc : IdsFor(service_map, svc) \in Seq(NodeIds)
    BY DEF TypeOK, IdsFor
  <2> QED
    BY <2>1 DEF Candidates
<1> HIDE DEF ids
<1>2. H \subseteq 1..Len(ids) /\ Len(ids) \in Nat
  BY <1>1 DEF HealthyAt
<1>3. H # {} /\ RoundRobinSlot(i) = rr_index[i] % Cardinality(H)
  BY DEF RoundRobinSlot, ids
<1> HIDE DEF H
<1>4. Cardinality(H) \in Nat /\ Cardinality(H) # 0
  <2>1. IsFiniteSet(1..Len(ids))
    BY <1>2, FS_Interval
  <2>2. IsFiniteSet(H)
    BY <1>2, <2>1, FS_Subset
  <2> QED
    BY <1>3, <2>2, FS_CardinalityType, FS_EmptySet
<1>5. rr_index[i] \in Nat
  BY DEF TypeOK
<1> QED
  BY <1>3, <1>4, <1>5

\* The empty registry of ServiceRegistry.__init__ satisfies the invariant.
LEMMA InitIInv == Init => IInv
BY DEF Init, IInv, TypeOK, UniqueEntries, IndexComplete, IndexSound

\* register_node keeps the index complete; it may leave it unsound only when
\* it registers over a known id.
LEMMA RegisterNodeIInv ==
    ASSUME IInv, NEW n \in NodeIds, NEW svcs \in SUBSET Patterns, NEW st \in NodeStatus,
           RegisterNode(n, svcs, st)
    PROVE  IInv'
<1>1. /\ DOMAIN nodes' = DOMAIN nodes \cup {n}
      /\ nodes' = [m \in DOMAIN nodes' |-> nodes'[m]]
      /\ nodes'[n] = [services |-> svcs, status |-> st]
      /\ \A m \in DOMAIN nodes \ {n} : nodes'[m] = nodes[m]
  BY DEF RegisterNode, PutNode
<1>2. /\ IsIndex(service_map', NodeIds, Patterns)
      /\ \A svc : ListedUnder(service_map', svc) =
            IF svc \in svcs THEN ListedUnder(service_map, svc) \cup {n}
                            ELSE ListedUnder(service_map, svc)
  BY IndexShape, IndexFacts DEF IInv, RegisterNode
<1>3. (TypeOK /\ UniqueEntries)'
  <2>1. nodes'[n] \in NodeRecord
    BY <1>1 DEF NodeRecord
  <2>2. \A m \in DOMAIN nodes' : nodes'[m] \in NodeRecord
    BY <1>1, <2>1 DEF IInv, TypeOK
  <2>3. DOMAIN nodes' \subseteq NodeIds /\ rr_index' \in [Names -> Nat]
    BY <1>1 DEF IInv, TypeOK, RegisterNode
  <2> QED
    BY <1>1, <1>2, <2>2, <2>3, IndexShapePrimed
<1>4. IndexComplete'
  <2> SUFFICES ASSUME NEW m \in DOMAIN nodes', NEW svc \in nodes'[m].services
               PROVE  m \in ListedUnder(service_map', svc)
    BY DEF IndexComplete, ListedUnder
  <2>1. CASE m = n
    BY <1>1, <1>2, <2>1
  <2>2. CASE m # n
    BY <1>1, <1>2, <2>2 DEF IInv, IndexComplete, ListedUnder
  <2> QED
    BY <2>1, <2>2
<1>5. AllowReRegister \/ IndexSound'
  <2> SUFFICES ASSUME ~AllowReRegister, NEW svc \in DOMAIN service_map',
                      NEW m \in ListedUnder(service_map', svc)
               PROVE  m \in DOMAIN nodes' /\ svc \in nodes'[m].services
    BY DEF IndexSound, ListedUnder, IdsFor
  <2>1. n \notin DOMAIN nodes
    BY DEF RegisterNode
  <2>2. CASE m = n /\ svc \in svcs
    BY <1>1, <2>2
  <2>3. CASE m \in ListedUnder(service_map, svc)
    <3>1. svc \in DOMAIN service_map
      BY <2>3 DEF ListedUnder, IdsFor, IdsIn
    <3>2. m \in DOMAIN nodes /\ svc \in nodes[m].services
      BY <2>3, <3>1 DEF IInv, IndexSound, ListedUnder, IdsFor
    <3> QED
      BY <1>1, <2>1, <3>2
  <2> QED
    BY <1>2, <2>2, <2>3
<1> QED
  BY <1>3, <1>4, <1>5 DEF IInv

\* unregister_node removes the record and, where the index is sound, every
\* entry of the node; no other node loses an entry.
LEMMA UnregisterNodeIInv ==
    ASSUME IInv, NEW n \in NodeIds, UnregisterNode(n)
    PROVE  IInv'
<1> DEFINE gone == nodes[n].services
<1>1. /\ n \in DOMAIN nodes /\ DOMAIN nodes' = DOMAIN nodes \ {n}
      /\ nodes' = [m \in DOMAIN nodes' |-> nodes'[m]]
      /\ \A m \in DOMAIN nodes' : nodes'[m] = nodes[m]
  BY DEF UnregisterNode, PopNode
<1>2. /\ IsIndex(service_map', NodeIds, Patterns)
      /\ \A svc : ListedUnder(service_map', svc) =
            IF svc \in gone THEN ListedUnder(service_map, svc) \ {n}
                            ELSE ListedUnder(service_map, svc)
  <2>1. IsIndex(service_map, NodeIds, Patterns)
    BY IndexShape DEF IInv
  <2>2. service_map' = Unindex(service_map, n, gone)
    BY DEF UnregisterNode
  <2> HIDE DEF gone
  <2> QED
    BY <2>1, <2>2, UnindexFacts
<1>3. (TypeOK /\ UniqueEntries)'
  <2>1. \A m \in DOMAIN nodes' : nodes'[m] \in NodeRecord
    BY <1>1 DEF IInv, TypeOK
  <2>2. DOMAIN nodes' \subseteq NodeIds /\ rr_index' \in [Names -> Nat]
    BY <1>1 DEF IInv, TypeOK, UnregisterNode
  <2> QED
    BY <1>1, <1>2, <2>1, <2>2, IndexShapePrimed
<1>4. IndexComplete'
  <2> SUFFICES ASSUME NEW m \in DOMAIN nodes', NEW svc \in nodes'[m].services
               PROVE  m \in ListedUnder(service_map', svc)
    BY DEF IndexComplete, ListedUnder
  <2>1. m # n /\ m \in ListedUnder(service_map, svc)
    BY <1>1 DEF IInv, IndexComplete, ListedUnder
  <2> QED
    BY <1>2, <2>1
<1>5. AllowReRegister \/ IndexSound'
  <2> SUFFICES ASSUME ~AllowReRegister, NEW svc \in DOMAIN service_map',
                      NEW m \in ListedUnder(service_map', svc)
               PROVE  m \in DOMAIN nodes' /\ svc \in nodes'[m].services
    BY DEF IndexSound, ListedUnder, IdsFor
  <2>1. m \in ListedUnder(service_map, svc)
    BY <1>2
  <2>2. svc \in DOMAIN service_map
    BY <2>1 DEF ListedUnder, IdsFor, IdsIn
  <2>3. m \in DOMAIN nodes /\ svc \in nodes[m].services
    BY <2>1, <2>2 DEF IInv, IndexSound, ListedUnder, IdsFor
  <2>4. m # n
    BY <1>2, <2>3
  <2> QED
    BY <1>1, <2>3, <2>4
<1> QED
  BY <1>3, <1>4, <1>5 DEF IInv

\* update_services applies the difference of two sets, and after it the node
\* is listed under exactly the new one (where the index was sound).
LEMMA UpdateServicesIInv ==
    ASSUME IInv, NEW n \in NodeIds, NEW svcs \in SUBSET Patterns, UpdateServices(n, svcs)
    PROVE  IInv'
<1> DEFINE old == nodes[n].services
           mid == Unindex(service_map, n, old \ svcs)
<1>1. /\ n \in DOMAIN nodes /\ DOMAIN nodes' = DOMAIN nodes
      /\ nodes' = [m \in DOMAIN nodes' |-> nodes'[m]]
      /\ \A m \in DOMAIN nodes \ {n} : nodes'[m] = nodes[m]
  BY DEF UpdateServices, IInv, TypeOK
<1>2. nodes'[n] \in NodeRecord /\ nodes'[n].services = svcs
  BY DEF UpdateServices, IInv, TypeOK, NodeRecord
<1>3. /\ IsIndex(mid, NodeIds, Patterns)
      /\ \A svc : ListedUnder(mid, svc) =
            IF svc \in old \ svcs THEN ListedUnder(service_map, svc) \ {n}
                                  ELSE ListedUnder(service_map, svc)
  <2>1. IsIndex(service_map, NodeIds, Patterns)
    BY IndexShape DEF IInv
  <2> DEFINE gone == old \ svcs
  <2> HIDE DEF old, gone
  <2>2. /\ IsIndex(Unindex(service_map, n, gone), NodeIds, Patterns)
        /\ \A svc : ListedUnder(Unindex(service_map, n, gone), svc) =
            IF svc \in gone THEN ListedUnder(service_map, svc) \ {n} ELSE ListedUnder(service_map, svc)
    BY <2>1, UnindexFacts
  <2> QED
    BY <2>2 DEF gone
<1>4. svcs \ old \in SUBSET Patterns /\ service_map' = Index(mid, n, svcs \ old)
  BY DEF UpdateServices
<1> HIDE DEF mid
<1>5. /\ IsIndex(service_map', NodeIds, Patterns)
      /\ \A svc : ListedUnder(service_map', svc) =
            IF svc \in svcs \ old THEN ListedUnder(mid, svc) \cup {n}
                                  ELSE ListedUnder(mid, svc)
  <2> DEFINE added == svcs \ old
  <2>1. IsIndex(mid, NodeIds, Patterns) /\ added \in SUBSET Patterns /\ service_map' = Index(mid, n, added)
    BY <1>3, <1>4
  <2> HIDE DEF added
  <2>2. /\ IsIndex(service_map', NodeIds, Patterns)
        /\ \A svc : ListedUnder(service_map', svc) =
            IF svc \in added THEN ListedUnder(mid, svc) \cup {n} ELSE ListedUnder(mid, svc)
    BY <2>1, IndexFacts
  <2> QED
    BY <2>2 DEF added
<1>6. (TypeOK /\ UniqueEntries)'
  <2>1. \A m \in DOMAIN nodes' : nodes'[m] \in NodeRecord
    BY <1>1, <1>2 DEF IInv, TypeOK
  <2>2. DOMAIN nodes' \subseteq NodeIds /\ rr_index' \in [Names -> Nat]
    BY <1>1 DEF IInv, TypeOK, UpdateServices
  <2> QED
    BY <1>1, <1>5, <2>1, <2>2, IndexShapePrimed
<1>7. \A svc : \A m : m # n =>
        (m \in ListedUnder(service_map', svc) <=> m \in ListedUnder(service_map, svc))
  BY <1>3, <1>5
<1>8. IndexComplete'
  <2> SUFFICES ASSUME NEW m \in DOMAIN nodes', NEW svc \in nodes'[m].services
               PROVE  m \in ListedUnder(service_map', svc)
    BY DEF IndexComplete, ListedUnder
  <2>1. CASE m = n /\ svc \notin old
    BY <1>2, <1>5, <2>1
  <2>2. CASE m = n /\ svc \in old
    <3>1. n \in ListedUnder(service_map, svc)
      BY <1>1, <2>2 DEF IInv, IndexComplete, ListedUnder
    <3> QED
      BY <1>2, <1>3, <1>5, <2>2, <3>1
  <2>3. CASE m # n
    <3>1. m \in ListedUnder(service_map, svc)
      BY <1>1, <2>3 DEF IInv, IndexComplete, ListedUnder
    <3> QED
      BY <1>7, <2>3, <3>1
  <2> QED
    BY <2>1, <2>2, <2>3
<1>9. AllowReRegister \/ IndexSound'
  <2> SUFFICES ASSUME ~AllowReRegister, NEW svc \in DOMAIN service_map',
                      NEW m \in ListedUnder(service_map', svc)
               PROVE  m \in DOMAIN nodes' /\ svc \in nodes'[m].services
    BY DEF IndexSound, ListedUnder, IdsFor
  <2>1. \A k \in ListedUnder(service_map, svc) : k \in DOMAIN nodes /\ svc \in nodes[k].services
    BY DEF IInv, IndexSound, ListedUnder, IdsFor, IdsIn
  <2>2. CASE m # n
    BY <1>1, <1>7, <2>1, <2>2
  <2>3. CASE m = n
    <3>1. svc \in svcs
      BY <1>3, <1>5, <2>1, <2>3
    <3> QED
      BY <1>1, <1>2, <2>3, <3>1
  <2> QED
    BY <2>2, <2>3
<1> QED
  BY <1>6, <1>8, <1>9 DEF IInv

\* Marking a node changes a status only.
LEMMA MarkNodeIInv ==
    ASSUME IInv, NEW n \in NodeIds, NEW st \in NodeStatus, MarkNode(n, st)
    PROVE  IInv'
<1>1. /\ n \in DOMAIN nodes /\ DOMAIN nodes' = DOMAIN nodes
      /\ nodes' = [m \in DOMAIN nodes' |-> nodes'[m]]
      /\ \A m \in DOMAIN nodes \ {n} : nodes'[m] = nodes[m]
      /\ nodes'[n] \in NodeRecord /\ nodes'[n].services = nodes[n].services
      /\ service_map' = service_map /\ rr_index' = rr_index
  BY DEF MarkNode, SetStatus, IInv, TypeOK, NodeRecord
<1>2. \A m \in DOMAIN nodes' : nodes'[m] \in NodeRecord /\ nodes'[m].services = nodes[m].services
  BY <1>1 DEF IInv, TypeOK
<1>3. (TypeOK /\ UniqueEntries)'
  BY <1>1, <1>2 DEF IInv, TypeOK, UniqueEntries
<1>4. IndexComplete' /\ (AllowReRegister \/ IndexSound')
  BY <1>1, <1>2 DEF IInv, IndexComplete, IndexSound
<1> QED
  BY <1>3, <1>4 DEF IInv

\* resolve_load_balanced changes a counter only.
LEMMA ResolveLoadBalancedIInv ==
    ASSUME IInv, NEW i \in Names, ResolveLoadBalanced(i)
    PROVE  IInv'
<1>1. RoundRobinSlot(i) \in Nat
  BY RoundRobinSlotType DEF IInv, ResolveLoadBalanced
<1>2. rr_index' \in [Names -> Nat] /\ nodes' = nodes /\ service_map' = service_map
  BY <1>1 DEF IInv, TypeOK, ResolveLoadBalanced
<1> QED
  BY <1>2 DEF IInv, TypeOK, UniqueEntries, IndexComplete, IndexSound

\* Every registry call preserves the invariant.
LEMMA NextIInv == IInv /\ [Next]_vars => IInv'
<1> SUFFICES ASSUME IInv, [Next]_vars PROVE IInv'
  OBVIOUS
<1>1. ASSUME NEW n \in NodeIds, NEW svcs \in SUBSET Patterns, NEW st \in NodeStatus,
             RegisterNode(n, svcs, st)
      PROVE  IInv'
  BY <1>1, RegisterNodeIInv
<1>2. ASSUME NEW n \in NodeIds, UnregisterNode(n) PROVE IInv'
  BY <1>2, UnregisterNodeIInv
<1>3. ASSUME NEW n \in NodeIds, NEW svcs \in SUBSET Patterns, UpdateServices(n, svcs)
      PROVE  IInv'
  BY <1>3, UpdateServicesIInv
<1>4. ASSUME NEW n \in NodeIds, NEW st \in {"online", "offline"}, MarkNode(n, st)
      PROVE  IInv'
  BY <1>4, MarkNodeIInv DEF NodeStatus
<1>5. ASSUME NEW i \in Names, ResolveLoadBalanced(i) PROVE IInv'
  BY <1>5, ResolveLoadBalancedIInv
<1>6. CASE UNCHANGED vars
  BY <1>6 DEF vars, IInv, TypeOK, UniqueEntries, IndexComplete, IndexSound
<1> QED
  BY <1>1, <1>2, <1>3, <1>4, <1>5, <1>6 DEF Next, MembershipStep

-----------------------------------------------------------------------------
(* Theorems.                                                               *)

\* The inductive invariant holds in every reachable state.
THEOREM Invariance == Spec => []IInv
BY InitIInv, NextIInv, PTL DEF Spec

\* Type correctness of registry.py's three dictionaries.
THEOREM TypeCorrect == Spec => []TypeOK
<1>1. IInv => TypeOK
  BY DEF IInv
<1> QED
  BY <1>1, Invariance, PTL

\* No list of the index is empty or names a node twice, for any number of
\* nodes and services and any sequence of calls.
THEOREM IndexHasUniqueEntries == Spec => []UniqueEntries
<1>1. IInv => UniqueEntries
  BY DEF IInv
<1> QED
  BY <1>1, Invariance, PTL

\* A known node is always listed under each of its services.
THEOREM IndexIsComplete == Spec => []IndexComplete
<1>1. IInv => IndexComplete
  BY DEF IInv
<1> QED
  BY <1>1, Invariance, PTL

\* When no id is registered over a known one, every listed node is known and
\* offers the service it is listed under.
THEOREM IndexIsSound == ~AllowReRegister /\ Spec => []IndexSound
<1>1. ~AllowReRegister /\ IInv => IndexSound
  BY DEF IInv
<1>2. CASE ~AllowReRegister
  <2>1. IInv => IndexSound
    BY <1>1, <1>2
  <2> QED
    BY <2>1, Invariance, PTL
<1> QED
  BY <1>2

-----------------------------------------------------------------------------
(* Refinement: the index as a directory.                                   *)

\* Membership in the directory the index stands for.
LEMMA ListedFacts ==
    ASSUME NEW n \in NodeIds, NEW p \in Patterns
    PROVE  <<n, p>> \in Listed <=> n \in ListedUnder(service_map, p)
BY DEF Listed, ListedUnder

\* The same for the next state.
LEMMA ListedPrimedFacts ==
    ASSUME NEW n \in NodeIds, NEW p \in Patterns
    PROVE  <<n, p>> \in Listed' <=> n \in ListedUnder(service_map', p)
BY DEF Listed, ListedUnder

\* Two directories with the same pairs are equal.
LEMMA DirectoryEqual ==
    ASSUME NEW A \in SUBSET (NodeIds \X Patterns), NEW B \in SUBSET (NodeIds \X Patterns),
           \A n \in NodeIds, p \in Patterns : <<n, p>> \in A <=> <<n, p>> \in B
    PROVE  A = B
OBVIOUS

\* The pairs a node offers.
LEMMA OfferingFacts ==
    ASSUME NEW n \in NodeIds, NEW S \in SUBSET Patterns
    PROVE  /\ Directory!Offering(n, S) \in SUBSET (NodeIds \X Patterns)
           /\ \A m \in NodeIds, p \in Patterns :
                <<m, p>> \in Directory!Offering(n, S) <=> m = n /\ p \in S
BY DEF Directory!Offering

\* A step after which node n is listed under exactly the patterns of S, and
\* every other node as before, declares S.
LEMMA DeclareStep ==
    ASSUME NEW n \in NodeIds, NEW S \in SUBSET Patterns,
           DOMAIN nodes' = DOMAIN nodes \cup {n},
           \A p \in Patterns : \A m \in NodeIds :
                m \in ListedUnder(service_map', p) <=>
                    IF m = n THEN p \in S ELSE m \in ListedUnder(service_map, p)
    PROVE  Directory!Declare(n, S)
<1> DEFINE new == (Listed \ Directory!Offering(n, Patterns)) \cup Directory!Offering(n, S)
<1>1. Listed \in SUBSET (NodeIds \X Patterns) /\ Listed' \in SUBSET (NodeIds \X Patterns)
  BY DEF Listed
<1>2. new \in SUBSET (NodeIds \X Patterns)
  BY <1>1, OfferingFacts
<1>3. ASSUME NEW m \in NodeIds, NEW p \in Patterns
      PROVE  <<m, p>> \in Listed' <=> <<m, p>> \in new
  BY ListedFacts, ListedPrimedFacts, OfferingFacts
<1> HIDE DEF new
<1>4. Listed' = new
  BY <1>1, <1>2, <1>3, DirectoryEqual
<1> QED
  BY <1>4 DEF Directory!Declare, new

\* A step after which node n is listed nowhere, and every other node as
\* before, is its departure.
LEMMA LeaveStep ==
    ASSUME NEW n \in NodeIds,
           DOMAIN nodes' = DOMAIN nodes \ {n},
           \A p \in Patterns : \A m \in NodeIds :
                m \in ListedUnder(service_map', p) <=>
                    m # n /\ m \in ListedUnder(service_map, p)
    PROVE  Directory!Leave(n)
<1> DEFINE new == Listed \ Directory!Offering(n, Patterns)
<1>1. Listed' \in SUBSET (NodeIds \X Patterns) /\ new \in SUBSET (NodeIds \X Patterns)
  BY DEF Listed
<1>2. ASSUME NEW m \in NodeIds, NEW p \in Patterns
      PROVE  <<m, p>> \in Listed' <=> <<m, p>> \in new
  BY ListedFacts, ListedPrimedFacts, OfferingFacts
<1> HIDE DEF new
<1>3. Listed' = new
  BY <1>1, <1>2, DirectoryEqual
<1> QED
  BY <1>3 DEF Directory!Leave, new

\* Every step of a registry in which no id is registered over a known one is
\* a step of the directory, or leaves it unchanged.
LEMMA DirectoryStep ==
    ASSUME ~AllowReRegister, IInv, [Next]_vars
    PROVE  [Directory!DirNext]_(Directory!dirVars)
<1>1. IsIndex(service_map, NodeIds, Patterns)
  BY IndexShape DEF IInv
<1>2. \A p \in Patterns : \A m \in ListedUnder(service_map, p) :
        m \in DOMAIN nodes /\ p \in nodes[m].services
  BY DEF IInv, IndexSound, ListedUnder, IdsFor, IdsIn
<1>3. \A m \in DOMAIN nodes : nodes[m].services \in SUBSET Patterns /\
        \A p \in nodes[m].services : m \in ListedUnder(service_map, p)
  BY DEF IInv, TypeOK, NodeRecord, IndexComplete, ListedUnder
<1>4. ASSUME NEW n \in NodeIds, NEW svcs \in SUBSET Patterns, NEW st \in NodeStatus,
             RegisterNode(n, svcs, st)
      PROVE  Directory!Declare(n, svcs)
  <2>1. n \notin DOMAIN nodes /\ DOMAIN nodes' = DOMAIN nodes \cup {n}
    BY <1>4 DEF RegisterNode, PutNode
  <2>2. service_map' = Index(service_map, n, svcs)
    BY <1>4 DEF RegisterNode
  <2>3. \A p : ListedUnder(service_map', p) =
            IF p \in svcs THEN ListedUnder(service_map, p) \cup {n}
                          ELSE ListedUnder(service_map, p)
    BY <1>1, <2>2, IndexFacts
  <2> QED
    BY <1>2, <2>1, <2>3, DeclareStep
<1>5. ASSUME NEW n \in NodeIds, UnregisterNode(n)
      PROVE  Directory!Leave(n)
  <2> DEFINE gone == nodes[n].services
  <2>1. n \in DOMAIN nodes /\ DOMAIN nodes' = DOMAIN nodes \ {n}
    BY <1>5 DEF UnregisterNode, PopNode
  <2>2. service_map' = Unindex(service_map, n, gone)
    BY <1>5 DEF UnregisterNode
  <2>3. \A p \in Patterns : n \in ListedUnder(service_map, p) => p \in gone
    BY <1>2
  <2> HIDE DEF gone
  <2>4. \A p : ListedUnder(service_map', p) =
            IF p \in gone THEN ListedUnder(service_map, p) \ {n} ELSE ListedUnder(service_map, p)
    BY <1>1, <2>2, UnindexFacts
  <2> QED
    BY <2>1, <2>3, <2>4, LeaveStep
<1>6. ASSUME NEW n \in NodeIds, NEW svcs \in SUBSET Patterns, UpdateServices(n, svcs)
      PROVE  Directory!Declare(n, svcs)
  <2> DEFINE old == nodes[n].services
             removed == old \ svcs
             added == svcs \ old
             mid == Unindex(service_map, n, removed)
  <2>1. DOMAIN nodes' = DOMAIN nodes \cup {n} /\ service_map' = Index(mid, n, added)
    BY <1>6 DEF UpdateServices
  <2>2. \A p \in Patterns : n \in ListedUnder(service_map, p) <=> p \in old
    BY <1>2, <1>3, <1>6 DEF UpdateServices
  <2>3. added \in SUBSET Patterns /\ \A p : p \in added <=> p \in svcs /\ p \notin old
    OBVIOUS
  <2>4. \A p : p \in removed <=> p \in old /\ p \notin svcs
    OBVIOUS
  <2> HIDE DEF old, removed, added
  <2>5. /\ IsIndex(mid, NodeIds, Patterns)
        /\ \A p : ListedUnder(mid, p) =
            IF p \in removed THEN ListedUnder(service_map, p) \ {n}
                             ELSE ListedUnder(service_map, p)
    BY <1>1, UnindexFacts
  <2> HIDE DEF mid
  <2>6. \A p : ListedUnder(service_map', p) =
            IF p \in added THEN ListedUnder(mid, p) \cup {n} ELSE ListedUnder(mid, p)
    BY <2>1, <2>3, <2>5, IndexFacts
  <2>7. \A p \in Patterns : \A m \in NodeIds :
            m \in ListedUnder(service_map', p) <=>
                IF m = n THEN p \in svcs ELSE m \in ListedUnder(service_map, p)
    BY <2>2, <2>3, <2>4, <2>5, <2>6
  <2> QED
    BY <2>1, <2>7, DeclareStep
<1>7. ASSUME NEW n \in NodeIds, NEW st \in {"online", "offline"}, MarkNode(n, st)
      PROVE  UNCHANGED Directory!dirVars
  BY <1>7 DEF MarkNode, SetStatus, Directory!dirVars, Listed
<1>8. ASSUME NEW i \in Names, ResolveLoadBalanced(i) PROVE UNCHANGED Directory!dirVars
  BY <1>8 DEF ResolveLoadBalanced, Directory!dirVars, Listed
<1>9. CASE UNCHANGED vars
  BY <1>9 DEF vars, Directory!dirVars, Listed
<1> QED
  BY <1>4, <1>5, <1>6, <1>7, <1>8, <1>9 DEF Next, MembershipStep, Directory!DirNext

\* A registry in which no id is registered over a known one implements the
\* directory: after every call it lists exactly what was last declared.
THEOREM RegistryImplementsDirectory == ~AllowReRegister /\ Spec => ImplementsDirectory
<1>1. Init => Directory!DirInit
  BY DEF Init, Directory!DirInit, Listed, IdsFor, IdsIn
<1>2. CASE ~AllowReRegister
  <2>1. IInv /\ [Next]_vars => [Directory!DirNext]_(Directory!dirVars)
    BY <1>2, DirectoryStep
  <2> QED
    BY <1>1, <2>1, Invariance, PTL DEF Spec, ImplementsDirectory, Directory!DirSpec
<1> QED
  BY <1>2

-----------------------------------------------------------------------------
(* Resolution finds what the index lists.                                  *)

\* A list with a healthy node has a first one, and _find_healthy returns it.
LEMMA FindHealthyFacts ==
    ASSUME TypeOK, NEW ids \in Seq(NodeIds)
    PROVE  IF HealthyAt(nodes, ids) = {}
           THEN FindHealthy(ids) = NoNode
           ELSE FindHealthy(ids) # NoNode /\ IsHealthy(nodes, FindHealthy(ids))
<1> DEFINE P == HealthyAt(nodes, ids)
           First(i) == Cardinality({j \in P : j < i}) = 0
<1>1. CASE P = {}
  BY <1>1 DEF FindHealthy
<1>2. CASE P # {}
  <2>1. P \subseteq Nat /\ P \subseteq DOMAIN ids
    BY DEF HealthyAt
  <2>2. PICK i \in P : \A j \in P : ~(<<j, i>> \in OpToRel(<, Nat))
    <3> HIDE DEF P
    <3> QED
      BY <1>2, <2>1, WFMin, NatLessThanWellFounded
  <2>3. {j \in P : j < i} = {}
    BY <2>1, <2>2 DEF OpToRel
  <2>4. First(i)
    BY <2>3, FS_EmptySet
  <2>5. FindHealthy(ids) = ids[CHOOSE k \in P : First(k)]
    BY <1>2 DEF FindHealthy, NthHealthy
  <2>6. (CHOOSE k \in P : First(k)) \in P
    BY <2>4
  <2>7. PICK k \in P : FindHealthy(ids) = ids[k]
    BY <2>5, <2>6
  <2>8. IsHealthy(nodes, ids[k]) /\ ids[k] \in NodeIds
    BY <2>1, <2>7 DEF HealthyAt
  <2> QED
    BY <1>2, <2>7, <2>8, NoNodeAssumption
<1> QED
  BY <1>1, <1>2

\* A node that is online and listed makes its list healthy.
LEMMA ListedIsHealthy ==
    ASSUME NEW svc, NEW n \in ListedUnder(service_map, svc), IsHealthy(nodes, n)
    PROVE  HealthyAt(nodes, IdsFor(service_map, svc)) # {}
BY DEF ListedUnder, IdsIn, HealthyAt

\* Failover works for any cluster: when some online node offers an intent,
\* exactly or by wildcard, resolve returns an online node.
THEOREM ResolveIsComplete == Spec => []ResolveComplete
<1>1. IInv => ResolveComplete
  <2> SUFFICES ASSUME IInv, NEW i \in Names, NEW n \in DOMAIN nodes,
                      nodes[n].status = "online",
                      i \in nodes[n].services \/ WildcardOf[i] \in nodes[n].services
               PROVE  Resolve(i) # NoNode /\ IsHealthy(nodes, Resolve(i))
    BY DEF ResolveComplete
  <2> DEFINE exact == IdsFor(service_map, i)
             wild == IdsFor(service_map, WildcardOf[i])
  <2>1. TypeOK /\ exact \in Seq(NodeIds) /\ wild \in Seq(NodeIds)
    BY DEF IInv, TypeOK, IdsFor
  <2>2. IsHealthy(nodes, n)
    BY DEF IsHealthy
  <2>3. HealthyAt(nodes, exact) # {} \/ HealthyAt(nodes, wild) # {}
    BY <2>2, ListedIsHealthy DEF IInv, IndexComplete, ListedUnder
  <2>4. Resolve(i) = IF FindHealthy(exact) # NoNode THEN FindHealthy(exact)
                                                    ELSE FindHealthy(wild)
    BY DEF Resolve
  <2> HIDE DEF exact, wild
  <2>5. \/ HealthyAt(nodes, exact) = {} /\ FindHealthy(exact) = NoNode
        \/ FindHealthy(exact) # NoNode /\ IsHealthy(nodes, FindHealthy(exact))
    BY <2>1, FindHealthyFacts
  <2>6. \/ HealthyAt(nodes, wild) = {}
        \/ FindHealthy(wild) # NoNode /\ IsHealthy(nodes, FindHealthy(wild))
    BY <2>1, FindHealthyFacts
  <2> QED
    BY <2>3, <2>4, <2>5, <2>6
<1> QED
  BY <1>1, Invariance, PTL

-----------------------------------------------------------------------------
(* Round robin.                                                            *)

\* The position j picks before the one at r, in a list of k nodes.
Back(r, k, j) == IF j < r THEN r - j ELSE r + k - j

\* The last pick is the one the counter is at, and the ones before it are at
\* the positions before, counted round the list: as many as are remembered,
\* but once round at most.
PicksOK(i) ==
    LET list == ResolveAll(i)
        n == Len(picks[i])
    IN  /\ picks[i] \in Seq(NodeIds)
        /\ n > 0 => rr_index[i] \in 1 .. Len(list)
        /\ \A j \in 0 .. n - 1 :
              j < Len(list) => picks[i][n - j] = list[Back(rr_index[i], Len(list), j)]

\* The invariant of the registry, with the picks of every intent.
BalanceInv == IInv /\ DOMAIN picks = Names /\ \A i \in Names : PicksOK(i)

\* The invariant about one intent, spelled out.
LEMMA PicksFacts ==
    ASSUME BalanceInv, NEW i \in Names
    PROVE  LET list == ResolveAll(i)
               k == Len(list)
               r == rr_index[i]
               old == picks[i]
           IN  /\ old \in Seq(NodeIds) /\ Len(old) \in Nat
               /\ Len(old) > 0 => r \in 1 .. k
               /\ \A j \in 0 .. Len(old) - 1 :
                     j < k => old[Len(old) - j] = list[Back(r, k, j)]
<1>1. PicksOK(i)
  BY DEF BalanceInv
<1>2. picks[i] \in Seq(NodeIds)
  BY <1>1 DEF PicksOK
<1>3. Len(picks[i]) \in Nat
  BY <1>2
<1> QED
  BY <1>1, <1>2, <1>3, Zenon DEF PicksOK

\* What the candidates of an intent name are, and what resolve_all makes of them.
LEMMA ResolveAllFacts ==
    ASSUME IInv, NEW i \in Names
    PROVE  /\ ResolveAll(i) \in Seq(NodeIds) /\ Injective(ResolveAll(i))
           /\ Len(ResolveAll(i)) = Cardinality(HealthyAt(nodes, Candidates(i)))
           /\ Len(ResolveAll(i)) \in Nat
           /\ (Len(ResolveAll(i)) = 0 <=> HealthyAt(nodes, Candidates(i)) = {})
           /\ \A k \in 0 .. Len(ResolveAll(i)) - 1 :
                NthHealthy(nodes, Candidates(i), k) = ResolveAll(i)[k + 1]
<1>1. \A svc : IdsFor(service_map, svc) \in Seq(NodeIds) /\ Injective(IdsFor(service_map, svc))
  BY DEF IInv, TypeOK, UniqueEntries, IdsFor, Injective
<1>2. Candidates(i) \in Seq(NodeIds) /\ Injective(Candidates(i))
  BY <1>1 DEF Candidates
<1> QED
  BY <1>2, HealthyListFacts DEF ResolveAll

\* The last n elements of a sequence, counted from the end.
LEMMA LastNFacts ==
    ASSUME NEW S, NEW s \in Seq(S), NEW n \in Nat
    PROVE  LET t == LastN(s, n)
           IN  /\ t \in Seq(S) /\ Len(t) <= n /\ Len(t) <= Len(s) /\ Len(t) \in Nat
               /\ (Len(s) > 0 /\ n > 0 => Len(t) > 0)
               /\ \A j \in 0 .. Len(t) - 1 : t[Len(t) - j] = s[Len(s) - j]
<1>0. Len(s) \in Nat
  OBVIOUS
<1>1. CASE Len(s) <= n
  BY <1>0, <1>1 DEF LastN
<1>2. CASE ~(Len(s) <= n)
  <2> DEFINE a == Len(s) - n + 1
             t == SubSeq(s, a, Len(s))
  <2>1. LastN(s, n) = t
    BY <1>2 DEF LastN
  <2>2. t \in Seq(S)
    BY <1>0, <1>2
  <2>3. Len(t) = n /\ \A j \in 1 .. n : t[j] = s[a + j - 1]
    BY <1>0, <1>2, Z3
  <2> HIDE DEF t
  <2>4. ASSUME NEW j \in 0 .. n - 1 PROVE t[n - j] = s[Len(s) - j]
    <3>1. n - j \in 1 .. n /\ a + (n - j) - 1 = Len(s) - j
      BY <1>0, <1>2
    <3> QED
      BY <2>3, <3>1
  <2> QED
    BY <2>1, <2>2, <2>3, <2>4, <1>0, <1>2
<1> QED
  BY <1>1, <1>2

\* The remainder of a counter that is within the list.
LEMMA SlotFacts ==
    ASSUME NEW k \in Nat \ {0}, NEW r \in Nat
    PROVE  r % k \in 0 .. k - 1 /\ (r \in 1 .. k => r % k = IF r = k THEN 0 ELSE r)
<1>1. r % k \in 0 .. k - 1
  OBVIOUS
<1>2. CASE r = k
  BY <1>2
<1>3. CASE r \in 1 .. k - 1
  BY <1>3
<1> QED
  BY <1>1, <1>2, <1>3

\* A pick returns the element after the counter's, round the list.
LEMMA PickFacts ==
    ASSUME BalanceInv, NEW i \in Names, ResolveLoadBalanced(i)
    PROVE  LET list == ResolveAll(i)
               slot == RoundRobinSlot(i)
           IN  /\ Len(list) \in Nat \ {0} /\ slot \in 0 .. Len(list) - 1
               /\ LoadBalanced(i) = list[slot + 1] /\ LoadBalanced(i) \in NodeIds
               /\ rr_index' = [rr_index EXCEPT ![i] = slot + 1]
               /\ rr_index[i] \in 1 .. Len(list) =>
                    slot = IF rr_index[i] = Len(list) THEN 0 ELSE rr_index[i]
<1> DEFINE list == ResolveAll(i)
           slot == RoundRobinSlot(i)
<1>1. /\ list \in Seq(NodeIds) /\ Len(list) = Cardinality(HealthyAt(nodes, Candidates(i)))
      /\ Len(list) \in Nat \ {0} /\ HealthyAt(nodes, Candidates(i)) # {}
      /\ \A k \in 0 .. Len(list) - 1 : NthHealthy(nodes, Candidates(i), k) = list[k + 1]
  BY ResolveAllFacts DEF BalanceInv, ResolveLoadBalanced
<1>2. slot = rr_index[i] % Len(list) /\ LoadBalanced(i) = NthHealthy(nodes, Candidates(i), slot)
  BY <1>1 DEF RoundRobinSlot, LoadBalanced
<1>3. rr_index[i] \in Nat /\ rr_index' = [rr_index EXCEPT ![i] = slot + 1]
  BY DEF BalanceInv, IInv, TypeOK, ResolveLoadBalanced
<1> HIDE DEF list, slot
<1>4. /\ slot \in 0 .. Len(list) - 1
      /\ rr_index[i] \in 1 .. Len(list) =>
            slot = IF rr_index[i] = Len(list) THEN 0 ELSE rr_index[i]
  BY <1>1, <1>2, <1>3, SlotFacts
<1>5. LoadBalanced(i) = list[slot + 1] /\ slot + 1 \in 1 .. Len(list)
  BY <1>1, <1>2, <1>4
<1>6. LoadBalanced(i) \in NodeIds
  BY <1>1, <1>5, ElementOfSeq
<1> QED
  BY <1>1, <1>3, <1>4, <1>5, <1>6 DEF list, slot

\* A pick moves the counter by one place round the list, and is remembered.
LEMMA PickStep ==
    ASSUME BalanceInv, NEW i \in Names, ResolveLoadBalanced(i),
           picks' = [picks EXCEPT ![i] = LastN(Append(@, LoadBalanced(i)), Cardinality(NodeIds))]
    PROVE  \A x \in Names : PicksOK(x)'
<1> DEFINE list == ResolveAll(i)
           k == Len(list)
           r == rr_index[i]
           slot == RoundRobinSlot(i)
           old == picks[i]
           more == Append(old, LoadBalanced(i))
           n == Cardinality(NodeIds)
           new == LastN(more, n)
<1>1. /\ k \in Nat \ {0} /\ slot \in 0 .. k - 1
      /\ LoadBalanced(i) = list[slot + 1] /\ LoadBalanced(i) \in NodeIds
      /\ rr_index' = [rr_index EXCEPT ![i] = slot + 1]
      /\ (r \in 1 .. k => slot = IF r = k THEN 0 ELSE r)
  BY PickFacts
<1>2. ResolveAll(i)' = list /\ \A x \in Names : ResolveAll(x)' = ResolveAll(x)
  BY DEF ResolveLoadBalanced, ResolveAll, Candidates
<1>3. /\ old \in Seq(NodeIds) /\ Len(old) \in Nat
      /\ Len(old) > 0 => r \in 1 .. k
      /\ \A j \in 0 .. Len(old) - 1 : j < k => old[Len(old) - j] = list[Back(r, k, j)]
  BY PicksFacts
<1>4. rr_index'[i] = slot + 1 /\ picks'[i] = new
  BY <1>1 DEF BalanceInv, IInv, TypeOK
<1>5. n \in Nat
  BY NodeIdsAssumption, FS_CardinalityType
<1> HIDE DEF list, k, r, slot, old, n
<1>6. /\ more \in Seq(NodeIds) /\ Len(more) = Len(old) + 1
      /\ more[Len(old) + 1] = LoadBalanced(i)
      /\ \A x \in 1 .. Len(old) : more[x] = old[x]
  BY <1>1, <1>3
<1>7. ASSUME NEW j \in 0 .. Len(more) - 1, j < k
      PROVE  more[Len(more) - j] = list[Back(slot + 1, k, j)]
  <2> HIDE DEF more
  <2>1. CASE j = 0
    <3>1. Back(slot + 1, k, j) = slot + 1 /\ Len(more) - j = Len(old) + 1
      BY <1>1, <1>3, <1>6, <2>1 DEF Back
    <3> QED
      BY <1>1, <1>6, <3>1
  <2>2. CASE j # 0
    <3>1. /\ j - 1 \in 0 .. Len(old) - 1 /\ j - 1 < k /\ Len(old) > 0
          /\ Len(more) - j = Len(old) - (j - 1) /\ Len(more) - j \in 1 .. Len(old)
      BY <1>1, <1>3, <1>6, <1>7, <2>2
    <3>2. more[Len(more) - j] = list[Back(r, k, j - 1)]
      BY <1>3, <1>6, <3>1
    <3>3. Back(r, k, j - 1) = Back(slot + 1, k, j)
      <4>1. r \in 1 .. k /\ slot = (IF r = k THEN 0 ELSE r) /\ j \in 1 .. k - 1 /\ k \in Nat
        BY <1>1, <1>3, <3>1, <1>7, <2>2
      <4>2. CASE r = k
        BY <4>1, <4>2 DEF Back
      <4>3. CASE r # k
        BY <4>1, <4>3 DEF Back
      <4> QED
        BY <4>2, <4>3
    <3> QED
      BY <3>2, <3>3
  <2> QED
    BY <2>1, <2>2
<1> HIDE DEF more
<1>8. /\ new \in Seq(NodeIds) /\ Len(new) <= Len(more) /\ Len(new) \in Nat
      /\ \A j \in 0 .. Len(new) - 1 : new[Len(new) - j] = more[Len(more) - j]
  BY <1>5, <1>6, LastNFacts
<1> HIDE DEF new
<1>9. \A j \in 0 .. Len(new) - 1 : j < k => new[Len(new) - j] = list[Back(slot + 1, k, j)]
  BY <1>3, <1>6, <1>7, <1>8
<1>10. PicksOK(i)'
  BY <1>1, <1>2, <1>4, <1>8, <1>9 DEF PicksOK, k
<1>11. ASSUME NEW x \in Names, x # i PROVE PicksOK(x)'
  <2>1. picks'[x] = picks[x] /\ rr_index'[x] = rr_index[x] /\ ResolveAll(x)' = ResolveAll(x)
    BY <1>1, <1>2, <1>11 DEF BalanceInv, IInv, TypeOK
  <2> QED
    BY <2>1 DEF BalanceInv, PicksOK
<1> QED
  BY <1>10, <1>11

\* A change of the membership forgets the picks of a list that changed.
LEMMA MembershipPicks ==
    ASSUME BalanceInv, MembershipStep,
           picks' = [i \in Names |-> IF ResolveAll(i)' = ResolveAll(i) THEN picks[i] ELSE << >>]
    PROVE  \A i \in Names : PicksOK(i)'
<1> SUFFICES ASSUME NEW i \in Names PROVE PicksOK(i)'
  OBVIOUS
<1>1. rr_index' = rr_index
  BY DEF MembershipStep, RegisterNode, UnregisterNode, UpdateServices, MarkNode
<1>2. CASE ResolveAll(i)' = ResolveAll(i)
  <2>1. picks'[i] = picks[i]
    BY <1>2
  <2> QED
    BY <1>1, <1>2, <2>1 DEF BalanceInv, PicksOK
<1>3. CASE ResolveAll(i)' # ResolveAll(i)
  <2>1. picks'[i] = << >>
    BY <1>3
  <2>2. << >> \in Seq(NodeIds) /\ Len(<< >>) = 0
    OBVIOUS
  <2>3. picks'[i] \in Seq(NodeIds) /\ Len(picks'[i]) = 0
    BY <2>1, <2>2
  <2> QED
    BY <2>3 DEF PicksOK
<1> QED
  BY <1>2, <1>3

\* Every step: a pick, or a change of the candidates, which forgets the picks.
LEMMA BalanceStep == BalanceInv /\ [MCNext]_<<vars, picks>> => BalanceInv'
<1> SUFFICES ASSUME BalanceInv, [MCNext]_<<vars, picks>> PROVE BalanceInv'
  OBVIOUS
<1>1. [Next]_vars
  BY DEF MCNext, Next
<1>2. IInv'
  BY <1>1, NextIInv DEF BalanceInv
<1>3. DOMAIN picks' = Names
  BY DEF MCNext, BalanceInv
<1>4. CASE MembershipStep /\
           picks' = [i \in Names |-> IF ResolveAll(i)' = ResolveAll(i) THEN picks[i] ELSE << >>]
  BY <1>2, <1>3, <1>4, MembershipPicks DEF BalanceInv
<1>5. ASSUME NEW i \in Names, ResolveLoadBalanced(i),
             picks' = [picks EXCEPT ![i] = LastN(Append(@, LoadBalanced(i)), Cardinality(NodeIds))]
      PROVE  BalanceInv'
  BY <1>2, <1>3, <1>5, PickStep DEF BalanceInv
<1>6. CASE UNCHANGED <<vars, picks>>
  <2>1. \A i \in Names : PicksOK(i)' <=> PicksOK(i)
    BY <1>6 DEF PicksOK, ResolveAll, Candidates, vars
  <2> QED
    BY <1>2, <1>3, <2>1 DEF BalanceInv
<1> QED
  BY <1>4, <1>5, <1>6 DEF MCNext

\* Within one round the positions are different.
LEMMA RoundRobinFollows ==
    ASSUME BalanceInv
    PROVE  RoundRobin
<1> SUFFICES ASSUME NEW i \in Names
             PROVE  LET recent == LastN(picks[i], Len(ResolveAll(i)))
                    IN  /\ \A a, b \in DOMAIN recent : recent[a] = recent[b] => a = b
                        /\ IdsIn(recent) \subseteq IdsIn(ResolveAll(i))
  BY DEF RoundRobin
<1> DEFINE list == ResolveAll(i)
           k == Len(list)
           r == rr_index[i]
           old == picks[i]
           recent == LastN(old, k)
           n == Len(recent)
           pos(a) == Back(r, k, n - a)
<1>1. list \in Seq(NodeIds) /\ Injective(list) /\ k \in Nat /\ DOMAIN list = 1 .. k
  BY ResolveAllFacts DEF BalanceInv
<1>2. /\ old \in Seq(NodeIds) /\ Len(old) \in Nat
      /\ Len(old) > 0 => r \in 1 .. k
      /\ \A j \in 0 .. Len(old) - 1 : j < k => old[Len(old) - j] = list[Back(r, k, j)]
  BY PicksFacts
<1> HIDE DEF list, r, old
<1>3. /\ recent \in Seq(NodeIds) /\ n \in Nat /\ n <= k /\ n <= Len(old)
      /\ \A j \in 0 .. n - 1 : recent[n - j] = old[Len(old) - j]
  BY <1>1, <1>2, LastNFacts
<1>4. DOMAIN recent = 1 .. n
  BY <1>3
<1> HIDE DEF recent, k, n
<1>5. ASSUME NEW a \in 1 .. n
      PROVE  r \in 1 .. k /\ pos(a) \in 1 .. k /\ recent[a] = list[pos(a)]
  <2> DEFINE j == n - a
  <2>0. n \in Nat /\ n <= k /\ n <= Len(old) /\ Len(old) \in Nat /\ k \in Nat
    BY <1>1, <1>2, <1>3
  <2>1. /\ j \in 0 .. n - 1 /\ j < k /\ j \in 0 .. Len(old) - 1 /\ Len(old) > 0
        /\ n - j = a
    BY <2>0
  <2>2. recent[a] = list[Back(r, k, j)]
    <3> HIDE DEF j
    <3> QED
      BY <1>2, <1>3, <2>1
  <2>3. r \in 1 .. k
    BY <1>2, <2>1
  <2> QED
    BY <1>1, <2>1, <2>2, <2>3 DEF Back
<1>6. ASSUME NEW a \in 1 .. n, NEW b \in 1 .. n, recent[a] = recent[b] PROVE a = b
  <2>1. pos(a) = pos(b)
    BY <1>1, <1>5, <1>6 DEF Injective
  <2>2. r \in 1 .. k
    BY <1>5
  <2> QED
    BY <1>1, <1>3, <2>1, <2>2 DEF Back
<1>7. IdsIn(recent) \subseteq IdsIn(list)
  BY <1>1, <1>4, <1>5 DEF IdsIn
<1> QED
  BY <1>4, <1>6, <1>7 DEF recent, k, list, old

\* Round robin is fair for any number of nodes: while the healthy candidates
\* of an intent stay the same, as many picks as there are candidates return
\* each of them once, wherever the counter was left by earlier lists.
THEOREM LoadIsBalanced == MCSpec => []RoundRobin
<1>1. MCInit => BalanceInv
  <2> SUFFICES ASSUME MCInit PROVE BalanceInv
    OBVIOUS
  <2>1. IInv
    BY InitIInv DEF MCInit
  <2>2. \A i \in Names : picks[i] = << >>
    BY DEF MCInit
  <2>3. << >> \in Seq(NodeIds) /\ Len(<< >>) = 0
    OBVIOUS
  <2> QED
    BY <2>1, <2>2, <2>3 DEF BalanceInv, PicksOK, MCInit
<1>2. BalanceInv => RoundRobin
  BY RoundRobinFollows
<1> QED
  BY <1>1, <1>2, BalanceStep, PTL DEF MCSpec

-----------------------------------------------------------------------------
(* The health checker.                                                     *)

\* While the loop sends, it knows no peer older than the peer is; in a pass
\* that has not been suspended yet, the dead peers it has still to handle are
\* too old now; and a pass that closes a connection is one that was suspended.
AgeInv ==
    /\ loop = "sending" => \A p \in Peers : delta[p] <= age[p]
    /\ loop = "checking" /\ ~waited => \A p \in dead : age[p] > MaxAge
    /\ loop = "closing" => waited

\* The inductive invariant of the health checker.
HealthInv == CheckerTypeOK /\ AgeInv

\* Both loops sleep and nothing was seen.
LEMMA HealthInit == CheckerInit => HealthInv
<1> SUFFICES ASSUME CheckerInit PROVE HealthInv
  OBVIOUS
<1>1. CheckerTypeOK
  <2>1. 0 \in 0 .. MaxAge + 1
    BY MaxAgeAssumption
  <2> QED
    BY <2>1 DEF CheckerInit, CheckerTypeOK
<1>2. AgeInv
  BY DEF CheckerInit, AgeInv
<1> QED
  BY <1>1, <1>2 DEF HealthInv

\* What mark_node_online and mark_node_offline leave in the registry.
LEMMA MarkedType ==
    ASSUME CheckerTypeOK, NEW p \in Peers, NEW st \in {"online", "offline"}
    PROVE  Marked(p, st) \in [Peers -> {"unknown", "online", "offline"}]
BY DEF CheckerTypeOK, Marked

\* A recorded heartbeat.
LEMMA RecordStep ==
    ASSUME HealthInv, NEW p \in Peers, RecordHeartbeat(p), Interruptible,
           UNCHANGED <<loop, dead, waited>>
    PROVE  /\ AgeInv'
           /\ status' \in [Peers -> {"unknown", "online", "offline"}]
           /\ seen' \subseteq Peers /\ dead' \subseteq seen'
           /\ age' \in [Peers -> 0 .. MaxAge + 1] /\ delta' \in [Peers -> 0 .. MaxAge + 1]
<1>1. 0 \in 0 .. MaxAge + 1 /\ MaxAge \in Nat
  BY MaxAgeAssumption
<1>2. status' \in [Peers -> {"unknown", "online", "offline"}]
  BY MarkedType DEF RecordHeartbeat, HealthInv
<1>3. /\ seen' \subseteq Peers /\ dead' \subseteq seen'
      /\ age' \in [Peers -> 0 .. MaxAge + 1] /\ delta' \in [Peers -> 0 .. MaxAge + 1]
  BY <1>1 DEF RecordHeartbeat, HealthInv, CheckerTypeOK
<1>4. AgeInv'
  <2>1. CASE loop = "sending"
    <3>1. /\ age' = [age EXCEPT ![p] = 0] /\ delta' = [delta EXCEPT ![p] = 0]
          /\ loop' = "sending"
      BY <2>1 DEF RecordHeartbeat
    <3>2. \A q \in Peers : delta'[q] <= age'[q]
      BY <2>1, <3>1 DEF HealthInv, AgeInv, CheckerTypeOK
    <3> QED
      BY <3>1, <3>2 DEF AgeInv
  <2>2. CASE loop # "sending"
    BY <2>2 DEF HealthInv, AgeInv, Interruptible
  <2> QED
    BY <2>1, <2>2
<1> QED
  BY <1>2, <1>3, <1>4

\* A step that leaves the loop and what it looks at alone.
LEMMA ElsewhereStep ==
    ASSUME HealthInv, UNCHANGED <<seenVars, loopVars>>
    PROVE  AgeInv'
BY DEF HealthInv, AgeInv, seenVars, loopVars

\* Every step keeps the types.
LEMMA HealthTyped == CheckerTypeOK /\ [CheckerNext]_checkerVars /\ HealthInv => CheckerTypeOK'
<1> SUFFICES ASSUME CheckerTypeOK, [CheckerNext]_checkerVars, HealthInv PROVE CheckerTypeOK'
  OBVIOUS
<1> USE DEF peerVars, connVars, seenVars, loopVars
<1>1. CASE UNCHANGED checkerVars
  BY <1>1 DEF checkerVars, CheckerTypeOK
<1>2. CASE LoopWakes
  <2>1. delta' \in [Peers -> 0 .. MaxAge + 1]
    BY <1>2, MaxAgeAssumption DEF LoopWakes, CheckerTypeOK
  <2>2. pongs' \subseteq Peers
    BY <1>2 DEF LoopWakes, CheckerTypeOK
  <2>3. loop' \in {"asleep", "sending", "checking", "closing"} /\ waited' \in BOOLEAN
    BY <1>2 DEF LoopWakes
  <2> QED
    BY <1>2, <2>1, <2>2, <2>3 DEF LoopWakes, CheckerTypeOK
<1>3. CASE LoopChecks
  BY <1>3 DEF LoopChecks, CheckerTypeOK
<1>4. CASE CloseReturns
  BY <1>4 DEF CloseReturns, CheckerTypeOK
<1>5. CASE Tick
  <2>1. age' \in [Peers -> 0 .. MaxAge + 1]
    BY <1>5, MaxAgeAssumption DEF Tick, CheckerTypeOK
  <2> QED
    BY <1>5, <2>1 DEF Tick, CheckerTypeOK
<1>6. ASSUME NEW p \in Peers, ServerReceives(p) PROVE CheckerTypeOK'
  <2>1. /\ status' \in [Peers -> {"unknown", "online", "offline"}]
        /\ seen' \subseteq Peers /\ dead' \subseteq seen'
        /\ age' \in [Peers -> 0 .. MaxAge + 1] /\ delta' \in [Peers -> 0 .. MaxAge + 1]
    BY <1>6, RecordStep DEF ServerReceives
  <2> QED
    BY <1>6, <2>1 DEF ServerReceives, CheckerTypeOK
<1>7. ASSUME NEW p \in Peers, ListenerReceives(p) PROVE CheckerTypeOK'
  <2>1. /\ status' \in [Peers -> {"unknown", "online", "offline"}]
        /\ seen' \subseteq Peers /\ dead' \subseteq seen'
        /\ age' \in [Peers -> 0 .. MaxAge + 1] /\ delta' \in [Peers -> 0 .. MaxAge + 1]
    BY <1>7, RecordStep DEF ListenerReceives
  <2> QED
    BY <1>7, <2>1 DEF ListenerReceives, CheckerTypeOK
<1>8. ASSUME NEW p \in Peers, ListenerEnds(p) PROVE CheckerTypeOK'
  <2>1. status' \in [Peers -> {"unknown", "online", "offline"}]
    BY <1>8, MarkedType DEF ListenerEnds
  <2> QED
    BY <1>8, <2>1 DEF ListenerEnds, CheckerTypeOK
<1>9. ASSUME NEW p \in Peers, HandleNodeOffline(p) PROVE CheckerTypeOK'
  <2>1. status' \in [Peers -> {"unknown", "online", "offline"}] /\ ws' \subseteq Peers
    BY <1>9 DEF HandleNodeOffline, CheckerTypeOK
  <2>2. conn' \in [Peers -> {"none", "open", "half", "closed"}]
    BY <1>9 DEF HandleNodeOffline, CheckerTypeOK
  <2>3. loop' \in {"asleep", "sending", "checking", "closing"} /\ waited' \in BOOLEAN
    BY <1>9 DEF HandleNodeOffline, CheckerTypeOK
  <2> QED
    BY <1>9, <2>1, <2>2, <2>3 DEF HandleNodeOffline, CheckerTypeOK
<1>10. ASSUME NEW p \in Peers, Reconnect(p) PROVE CheckerTypeOK'
  BY <1>10 DEF Reconnect, CheckerTypeOK
<1>11. ASSUME NEW p \in Peers, PeerSends(p) PROVE CheckerTypeOK'
  BY <1>11 DEF PeerSends, CheckerTypeOK
<1>12. ASSUME NEW p \in Peers, Dies(p) PROVE CheckerTypeOK'
  <2>1. conn' \in [Peers -> {"none", "open", "half", "closed"}]
    BY <1>12 DEF Dies, CheckerTypeOK
  <2> QED
    BY <1>12, <2>1 DEF Dies, CheckerTypeOK
<1>13. ASSUME NEW p \in Peers, Restarts(p) PROVE CheckerTypeOK'
  BY <1>13 DEF Restarts, CheckerTypeOK
<1>14. ASSUME NEW p \in Peers, ConnectionLost(p) PROVE CheckerTypeOK'
  BY <1>14 DEF ConnectionLost, CheckerTypeOK
<1>15. ASSUME NEW p \in Peers, RouterMarksOffline(p) PROVE CheckerTypeOK'
  BY <1>15 DEF RouterMarksOffline, CheckerTypeOK
<1> QED
  BY <1>1, <1>2, <1>3, <1>4, <1>5, <1>6, <1>7, <1>8, <1>9, <1>10, <1>11, <1>12, <1>13, <1>14, <1>15 DEF CheckerNext

\* Every step keeps the invariant: a heartbeat that arrives between the checks of
\* one pass is behind a suspension.
LEMMA HealthStep == HealthInv /\ [CheckerNext]_checkerVars => HealthInv'
<1> SUFFICES ASSUME HealthInv, [CheckerNext]_checkerVars PROVE AgeInv'
  BY HealthTyped DEF HealthInv
<1> USE DEF seenVars, loopVars
<1>0. \A p \in Peers : age[p] \in 0 .. MaxAge + 1 /\ delta[p] \in 0 .. MaxAge + 1
  BY DEF HealthInv, CheckerTypeOK
<1>1. CASE UNCHANGED checkerVars
  BY <1>1, ElsewhereStep DEF checkerVars
<1>2. CASE LoopWakes
  <2>1. loop' = "sending" /\ age' = age
    BY <1>2 DEF LoopWakes
  <2>2. \A p \in Peers : delta'[p] <= age[p]
    BY <1>0, <1>2 DEF LoopWakes
  <2> QED
    BY <2>1, <2>2 DEF AgeInv
<1>3. CASE LoopChecks
  <2>1. /\ loop = "sending" /\ loop' \in {"asleep", "checking"} /\ age' = age
        /\ dead' = {p \in seen : delta[p] > MaxAge} /\ seen \subseteq Peers
    BY <1>3 DEF LoopChecks, HealthInv, CheckerTypeOK
  <2>2. \A p \in dead' : age'[p] > MaxAge
    BY <1>0, <2>1, MaxAgeAssumption DEF HealthInv, AgeInv
  <2> QED
    BY <2>1, <2>2 DEF AgeInv
<1>4. CASE CloseReturns
  BY <1>4 DEF CloseReturns, HealthInv, AgeInv
<1>5. CASE Tick
  <2>1. loop # "checking" /\ UNCHANGED <<loop, delta, dead, waited>>
    BY <1>5 DEF Tick, Interruptible
  <2>2. \A p \in Peers : age'[p] >= age[p]
    BY <1>0, <1>5, MaxAgeAssumption DEF Tick
  <2>3. \A p \in Peers : age'[p] \in Nat /\ age[p] \in Nat /\ delta[p] \in Nat
    <3>1. \A p \in Peers : age[p] \in Nat /\ delta[p] \in Nat
      BY <1>0, MaxAgeAssumption
    <3> QED
      BY <3>1, <1>5 DEF Tick
  <2>4. loop = "sending" => \A p \in Peers : delta'[p] <= age'[p]
    BY <2>1, <2>2, <2>3 DEF HealthInv, AgeInv
  <2> QED
    BY <2>1, <2>4 DEF HealthInv, AgeInv
<1>6. ASSUME NEW p \in Peers, ServerReceives(p) PROVE AgeInv'
  BY <1>6, RecordStep DEF ServerReceives
<1>7. ASSUME NEW p \in Peers, ListenerReceives(p) PROVE AgeInv'
  BY <1>7, RecordStep DEF ListenerReceives
<1>8. ASSUME NEW p \in Peers, HandleNodeOffline(p) PROVE AgeInv'
  <2>1. /\ loop = "checking" /\ dead' \subseteq dead /\ age' = age
        /\ loop' \in {"asleep", "checking", "closing"}
        /\ (loop' = "closing" => waited') /\ (waited => waited')
    BY <1>8 DEF HandleNodeOffline
  <2> QED
    BY <2>1 DEF HealthInv, AgeInv
<1>9. ASSUME NEW p \in Peers,
             \/ ListenerEnds(p) \/ Reconnect(p) \/ PeerSends(p) \/ Dies(p) \/ Restarts(p)
             \/ ConnectionLost(p) \/ RouterMarksOffline(p)
      PROVE  AgeInv'
  BY <1>9, ElsewhereStep DEF ListenerEnds, Reconnect, PeerSends, Dies, Restarts,
     ConnectionLost, RouterMarksOffline
<1> QED
  BY <1>1, <1>2, <1>3, <1>4, <1>5, <1>6, <1>7, <1>8, <1>9 DEF CheckerNext

\* Only the handling of a dead peer takes a peer offline within a pass.
LEMMA TimeoutStep ==
    ASSUME HealthInv, [CheckerNext]_checkerVars, NEW p \in Peers,
           status[p] = "online", status'[p] = "offline", loop = "checking"
    PROVE  age[p] > MaxAge \/ waited
<1>1. p \in dead
  <2>1. status' # status
    OBVIOUS
  <2>2. \E q \in Peers : HandleNodeOffline(q)
    BY <2>1 DEF CheckerNext, checkerVars, LoopWakes, LoopChecks, CloseReturns, Tick, ServerReceives,
       ListenerReceives, ListenerEnds, Reconnect, PeerSends, Dies, Restarts, ConnectionLost,
       RouterMarksOffline, Interruptible
  <2>3. PICK q \in Peers : HandleNodeOffline(q)
    BY <2>2
  <2>4. q \in dead /\ status' = [status EXCEPT ![q] = "offline"]
    BY <2>1, <2>3 DEF HandleNodeOffline
  <2> QED
    BY <2>4 DEF HealthInv, CheckerTypeOK
<1> QED
  BY <1>1 DEF HealthInv, AgeInv

\* The ages, the connections and the state of both loops keep their types, for
\* any peers and any timeout.
THEOREM HealthTypeCorrect == CheckerSpec => []CheckerTypeOK
<1>1. CheckerSpec => []HealthInv
  BY HealthInit, HealthStep, PTL DEF CheckerSpec
<1> QED
  BY <1>1, PTL DEF HealthInv

\* Until a pass is first suspended, the loop takes a peer offline only when its
\* heartbeat is too old in that very moment, not when it was copied (health.py:70-90).
THEOREM OnlyTheSilentGoOffline == CheckerSpec => TimeoutIsCurrent
<1>1. CheckerSpec => []HealthInv
  BY HealthInit, HealthStep, PTL DEF CheckerSpec
<1>2. HealthInv /\ [CheckerNext]_checkerVars =>
        [\A p \in Peers :
            status[p] = "online" /\ status'[p] = "offline" /\ loop = "checking" =>
                age[p] > MaxAge \/ waited]_checkerVars
  BY TimeoutStep
<1> QED
  BY <1>1, <1>2, PTL DEF CheckerSpec, TimeoutIsCurrent

=============================================================================
