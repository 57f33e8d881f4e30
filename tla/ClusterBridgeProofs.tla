------------------------- MODULE ClusterBridgeProofs -------------------------
(***************************************************************************)
(* Proofs about ClusterBridge, for any number of nodes, any peers (a node   *)
(* may name itself) and any services: whatever order connections,           *)
(* announcements, losses, stops and new services come in, the registries of *)
(* all nodes agree with what was announced, and the sockets are tracked.    *)
(***************************************************************************)
EXTENDS ClusterBridge, RegistryOpsProofs, FiniteSetTheorems, TLAPS

-----------------------------------------------------------------------------
(* The inductive invariant.                                                *)

NodeRecord == [services : SUBSET AllServices, status : NodeStatus]

\* A registry, its table and its index, is well-formed.
RegistryOK(known, map) ==
    /\ known = [b \in DOMAIN known |-> known[b]]
    /\ DOMAIN known \subseteq Nodes
    /\ \A b \in DOMAIN known : known[b] \in NodeRecord
    /\ IsIndex(map, Nodes, AllServices)

\* The registry of b lists nodes for services they have, and a remote node
\* for exactly what its record says.
Agrees(b, known, map, offered) ==
    \A a \in Nodes : \A svc \in AllServices :
        /\ a \in ListedUnder(map, svc) => svc \in offered[a]
        /\ a # b => (a \in ListedUnder(map, svc) <=> (a \in DOMAIN known /\ svc \in known[a].services))

RegistriesOK ==
    /\ nodes = [a \in Nodes |-> nodes[a]] /\ smap = [a \in Nodes |-> smap[a]]
    /\ \A a \in Nodes : RegistryOK(nodes[a], smap[a]) /\ Agrees(a, nodes[a], smap[a], services)

\* The rest of TypeOK.
BridgeTyped ==
    /\ phase \in [Nodes -> Phases]
    /\ services \in [Nodes -> SUBSET AllServices]
    /\ conn \in [Nodes -> [Nodes -> {"none", "open", "closed"}]]
    /\ ws \in [Nodes -> SUBSET Nodes]
    /\ todo \in [Nodes -> SUBSET Nodes]
    /\ size \in [Nodes -> 0 .. Cardinality(Nodes)]
    /\ said \in [Nodes -> SUBSET AllServices]
    /\ announces \subseteq [from : Nodes, to : Nodes, services : SUBSET AllServices]

\* What is on its way was a service of its sender when it was sent.
SaidOK ==
    /\ \A a \in Nodes : said[a] \subseteq services[a]
    /\ \A m \in announces : m.services \subseteq services[m.from]

\* start() registers a peer that it connects to without services: it must not
\* be one that has announced some already.
NotYetKnown ==
    \A a \in Nodes :
        /\ phase[a] \in {"down", "starting", "failed"} => DOMAIN nodes[a] \subseteq {a}
        /\ phase[a] = "connecting" => todo[a] \cap DOMAIN nodes[a] \subseteq {a}

IInv == BridgeTyped /\ RegistriesOK /\ SaidOK /\ NotYetKnown /\ SocketsAreTracked

-----------------------------------------------------------------------------
(* What the invariant implies.                                             *)

\* The properties of the registries follow from their agreement.
LEMMA AgreeFacts ==
    ASSUME RegistriesOK
    PROVE  OnlyOwnServices /\ RemoteIndexAgrees
<1>1. \A a, b \in Nodes : \A svc : Lists(b, a, svc) <=> a \in ListedUnder(smap[b], svc)
  BY DEF Lists, ListedUnder
<1>2. \A a \in Nodes : DOMAIN smap[a] \subseteq AllServices
  BY DEF RegistriesOK, RegistryOK, IsIndex
<1>3. \A b \in Nodes : \A a \in DOMAIN nodes[b] : nodes[b][a].services \subseteq AllServices
  BY DEF RegistriesOK, RegistryOK, NodeRecord
<1>4. OnlyOwnServices
  BY <1>1, <1>2 DEF OnlyOwnServices, RegistriesOK, Agrees
<1>5. RemoteIndexAgrees
  <2> SUFFICES ASSUME NEW a \in Nodes, NEW b \in Nodes, a # b
               PROVE  {svc \in AllServices : Lists(b, a, svc)} =
                          IF a \in DOMAIN nodes[b] THEN nodes[b][a].services ELSE {}
    BY DEF RemoteIndexAgrees
  <2>1. \A svc \in AllServices : Lists(b, a, svc) <=> (a \in DOMAIN nodes[b] /\ svc \in nodes[b][a].services)
    BY <1>1 DEF RegistriesOK, Agrees
  <2> QED
    BY <1>3, <2>1
<1> QED
  BY <1>4, <1>5

\* So does the type of the registries.
LEMMA TypeFacts ==
    ASSUME BridgeTyped, RegistriesOK
    PROVE  TypeOK
BY DEF BridgeTyped, RegistriesOK, RegistryOK, NodeRecord, IsIndex, TypeOK

-----------------------------------------------------------------------------
(* The steps of one registry.                                              *)

\* A step that changes the registry of one node.
LEMMA OneRegistry ==
    ASSUME RegistriesOK, NEW b \in Nodes, NEW known, NEW map, UNCHANGED services,
           RegistryOK(known, map), Agrees(b, known, map, services),
           nodes' = [nodes EXCEPT ![b] = known], smap' = [smap EXCEPT ![b] = map]
    PROVE  /\ RegistriesOK'
           /\ nodes'[b] = known /\ \A a \in Nodes \ {b} : nodes'[a] = nodes[a]
<1>1. /\ nodes' = [a \in Nodes |-> IF a = b THEN known ELSE nodes[a]]
      /\ smap' = [a \in Nodes |-> IF a = b THEN map ELSE smap[a]]
  BY DEF RegistriesOK
<1>2. \A a \in Nodes : RegistryOK(nodes'[a], smap'[a]) /\ Agrees(a, nodes'[a], smap'[a], services)
  BY <1>1 DEF RegistriesOK
<1>3. nodes' = [a \in Nodes |-> nodes'[a]] /\ smap' = [a \in Nodes |-> smap'[a]]
  BY <1>1
<1>4. RegistriesOK'
  BY <1>2, <1>3 DEF RegistriesOK
<1> QED
  BY <1>1, <1>4

\* register_node of a node that the registry does not know, or of the local
\* node itself.
LEMMA RegisterKeeps ==
    ASSUME RegistriesOK, NEW b \in Nodes, NEW n \in Nodes, n = b \/ n \notin DOMAIN nodes[b],
           NEW svcs \in SUBSET AllServices, svcs \subseteq services[n],
           UNCHANGED services, Register(b, n, svcs, "online")
    PROVE  /\ RegistriesOK'
           /\ DOMAIN nodes'[b] = DOMAIN nodes[b] \cup {n}
           /\ \A a \in Nodes \ {b} : nodes'[a] = nodes[a]
<1> DEFINE known == PutNode(nodes[b], n, svcs, "online")
           map == Index(smap[b], n, svcs)
<1>1. RegistryOK(nodes[b], smap[b]) /\ Agrees(b, nodes[b], smap[b], services)
  BY DEF RegistriesOK
<1>2. nodes' = [nodes EXCEPT ![b] = known] /\ smap' = [smap EXCEPT ![b] = map]
  BY DEF Register
<1>3. /\ DOMAIN known = DOMAIN nodes[b] \cup {n}
      /\ known = [m \in DOMAIN known |-> known[m]]
      /\ known[n] = [services |-> svcs, status |-> "online"]
      /\ \A m \in DOMAIN nodes[b] \ {n} : known[m] = nodes[b][m]
  BY DEF PutNode
<1>4. /\ IsIndex(map, Nodes, AllServices)
      /\ \A svc : ListedUnder(map, svc) =
            IF svc \in svcs THEN ListedUnder(smap[b], svc) \cup {n} ELSE ListedUnder(smap[b], svc)
  <2>1. IsIndex(smap[b], Nodes, AllServices)
    BY <1>1 DEF RegistryOK
  <2> DEFINE before == smap[b]
  <2>2. IsIndex(before, Nodes, AllServices)
    BY <2>1
  <2> HIDE DEF before
  <2>3. /\ IsIndex(Index(before, n, svcs), Nodes, AllServices)
        /\ \A svc : ListedUnder(Index(before, n, svcs), svc) =
              IF svc \in svcs THEN ListedUnder(before, svc) \cup {n} ELSE ListedUnder(before, svc)
    BY <2>2, IndexFacts
  <2> QED
    BY <2>3 DEF before
<1> HIDE DEF known, map
<1>5. RegistryOK(known, map)
  BY <1>1, <1>3, <1>4 DEF RegistryOK, NodeRecord, NodeStatus
<1>6. Agrees(b, known, map, services)
  BY <1>1, <1>3, <1>4 DEF Agrees
<1> QED
  BY <1>2, <1>3, <1>5, <1>6, OneRegistry

\* update_services of a known node with what it announced.
LEMMA UpdateKeeps ==
    ASSUME RegistriesOK, NEW b \in Nodes, NEW n \in DOMAIN nodes[b],
           NEW svcs \in SUBSET AllServices, svcs \subseteq services[n], UNCHANGED services,
           smap' = [smap EXCEPT ![b] = Index(Unindex(@, n, nodes[b][n].services \ svcs), n, svcs \ nodes[b][n].services)],
           nodes' = [nodes EXCEPT ![b][n].services = svcs]
    PROVE  /\ RegistriesOK'
           /\ DOMAIN nodes'[b] = DOMAIN nodes[b]
           /\ \A a \in Nodes \ {b} : nodes'[a] = nodes[a]
<1> DEFINE old == nodes[b][n].services
           removed == old \ svcs
           added == svcs \ old
           mid == Unindex(smap[b], n, removed)
           map == Index(mid, n, added)
           known == [nodes[b] EXCEPT ![n].services = svcs]
<1>1. RegistryOK(nodes[b], smap[b]) /\ Agrees(b, nodes[b], smap[b], services) /\ n \in Nodes
  BY DEF RegistriesOK, RegistryOK
<1>2. nodes' = [nodes EXCEPT ![b] = known] /\ smap' = [smap EXCEPT ![b] = map]
  BY DEF RegistriesOK
<1>3. /\ DOMAIN known = DOMAIN nodes[b]
      /\ known = [m \in DOMAIN known |-> known[m]]
      /\ known[n] \in NodeRecord /\ known[n].services = svcs
      /\ \A m \in DOMAIN nodes[b] \ {n} : known[m] = nodes[b][m]
  <2>1. nodes[b][n] \in NodeRecord /\ nodes[b] = [m \in DOMAIN nodes[b] |-> nodes[b][m]]
    BY <1>1 DEF RegistryOK
  <2>2. [nodes[b][n] EXCEPT !.services = svcs] \in NodeRecord
         /\ [nodes[b][n] EXCEPT !.services = svcs].services = svcs
    BY <2>1 DEF NodeRecord
  <2>3. known = [m \in DOMAIN nodes[b] |-> IF m = n THEN [nodes[b][n] EXCEPT !.services = svcs] ELSE nodes[b][m]]
    BY <2>1
  <2> HIDE DEF known
  <2> QED
    BY <2>2, <2>3
<1>4. /\ \A p : p \in removed <=> p \in old /\ p \notin svcs
      /\ \A p : p \in added <=> p \in svcs /\ p \notin old
      /\ added \in SUBSET AllServices
  OBVIOUS
<1>5. \A svc \in AllServices : n # b => (n \in ListedUnder(smap[b], svc) <=> svc \in old)
  BY <1>1 DEF Agrees
<1> HIDE DEF old, removed, added
<1>6. /\ IsIndex(mid, Nodes, AllServices)
      /\ \A svc : ListedUnder(mid, svc) =
            IF svc \in removed THEN ListedUnder(smap[b], svc) \ {n} ELSE ListedUnder(smap[b], svc)
  <2>1. IsIndex(smap[b], Nodes, AllServices)
    BY <1>1 DEF RegistryOK
  <2> DEFINE before == smap[b]
  <2>2. IsIndex(before, Nodes, AllServices)
    BY <2>1
  <2> HIDE DEF before
  <2>3. /\ IsIndex(Unindex(before, n, removed), Nodes, AllServices)
        /\ \A svc : ListedUnder(Unindex(before, n, removed), svc) =
              IF svc \in removed THEN ListedUnder(before, svc) \ {n} ELSE ListedUnder(before, svc)
    BY <2>2, UnindexFacts
  <2> QED
    BY <2>3 DEF before
<1> HIDE DEF mid
<1>7. /\ IsIndex(map, Nodes, AllServices)
      /\ \A svc : ListedUnder(map, svc) =
            IF svc \in added THEN ListedUnder(mid, svc) \cup {n} ELSE ListedUnder(mid, svc)
  BY <1>1, <1>4, <1>6, IndexFacts
<1> HIDE DEF known, map
<1>8. RegistryOK(known, map)
  BY <1>1, <1>3, <1>7 DEF RegistryOK
<1>9. Agrees(b, known, map, services)
  <2> SUFFICES ASSUME NEW a \in Nodes, NEW svc \in AllServices
               PROVE  /\ a \in ListedUnder(map, svc) => svc \in services[a]
                      /\ a # b => (a \in ListedUnder(map, svc) <=> (a \in DOMAIN known /\ svc \in known[a].services))
    BY DEF Agrees
  <2>1. /\ a \in ListedUnder(smap[b], svc) => svc \in services[a]
        /\ a # b => (a \in ListedUnder(smap[b], svc) <=> (a \in DOMAIN nodes[b] /\ svc \in nodes[b][a].services))
    BY <1>1 DEF Agrees
  <2>2. CASE a # n
    BY <1>3, <1>6, <1>7, <2>1, <2>2
  <2>3. CASE a = n
    <3>1. n \in ListedUnder(map, svc) => n \in ListedUnder(smap[b], svc) \/ svc \in svcs
      BY <1>4, <1>6, <1>7
    <3>2. n # b => (n \in ListedUnder(map, svc) <=> svc \in svcs)
      BY <1>4, <1>5, <1>6, <1>7
    <3> QED
      BY <1>3, <2>1, <2>3, <3>1, <3>2
  <2> QED
    BY <2>2, <2>3
<1> QED
  BY <1>2, <1>3, <1>8, <1>9, OneRegistry

\* mark_node_offline of a peer.
LEMMA MarkKeeps ==
    ASSUME RegistriesOK, NEW b \in Nodes, NEW n \in Nodes, UNCHANGED <<services, smap>>,
           nodes' = [nodes EXCEPT ![b] = SetStatus(@, n, "offline")]
    PROVE  /\ RegistriesOK'
           /\ DOMAIN nodes'[b] = DOMAIN nodes[b]
           /\ \A a \in Nodes \ {b} : nodes'[a] = nodes[a]
<1> DEFINE known == SetStatus(nodes[b], n, "offline")
<1>1. RegistryOK(nodes[b], smap[b]) /\ Agrees(b, nodes[b], smap[b], services)
  BY DEF RegistriesOK
<1>2. nodes' = [nodes EXCEPT ![b] = known] /\ smap' = [smap EXCEPT ![b] = smap[b]]
  BY DEF RegistriesOK
<1>3. /\ DOMAIN known = DOMAIN nodes[b]
      /\ known = [m \in DOMAIN known |-> known[m]]
      /\ \A m \in DOMAIN nodes[b] : known[m] \in NodeRecord /\ known[m].services = nodes[b][m].services
  <2>1. nodes[b] = [m \in DOMAIN nodes[b] |-> nodes[b][m]] /\ \A m \in DOMAIN nodes[b] : nodes[b][m] \in NodeRecord
    BY <1>1 DEF RegistryOK
  <2>2. CASE n \notin DOMAIN nodes[b]
    BY <2>1, <2>2 DEF SetStatus
  <2>3. CASE n \in DOMAIN nodes[b]
    <3>1. [nodes[b][n] EXCEPT !.status = "offline"] \in NodeRecord
           /\ [nodes[b][n] EXCEPT !.status = "offline"].services = nodes[b][n].services
      BY <2>1, <2>3 DEF NodeRecord, NodeStatus
    <3>2. known = [m \in DOMAIN nodes[b] |->
                      IF m = n THEN [nodes[b][n] EXCEPT !.status = "offline"] ELSE nodes[b][m]]
      BY <2>1, <2>3 DEF SetStatus
    <3> HIDE DEF known
    <3> QED
      BY <2>1, <3>1, <3>2
  <2> QED
    BY <2>2, <2>3
<1> HIDE DEF known
<1>4. RegistryOK(known, smap[b])
  BY <1>1, <1>3 DEF RegistryOK
<1>5. Agrees(b, known, smap[b], services)
  BY <1>1, <1>3 DEF Agrees
<1> QED
  BY <1>2, <1>3, <1>4, <1>5, OneRegistry

\* service(): the list in the record of the local node is the configuration's,
\* and no index changes.
LEMMA AddServiceKeeps ==
    ASSUME BridgeTyped, RegistriesOK, NEW b \in Nodes, NEW p \in Extra, AddService(b, p)
    PROVE  /\ RegistriesOK' /\ services' \in [Nodes -> SUBSET AllServices]
           /\ \A a \in Nodes : services[a] \subseteq services'[a] /\ DOMAIN nodes'[a] = DOMAIN nodes[a]
<1> DEFINE svcs == services[b] \cup {p}
           known == [nodes[b] EXCEPT ![b].services = svcs]
<1>1. /\ services' = [a \in Nodes |-> IF a = b THEN svcs ELSE services[a]] /\ smap' = smap
      /\ services' \in [Nodes -> SUBSET AllServices] /\ svcs \in SUBSET AllServices
  <2>1. p \in AllServices
    BY DEF AllServices
  <2>2. svcs \in SUBSET AllServices /\ services' = [services EXCEPT ![b] = svcs] /\ smap' = smap
    BY <2>1 DEF AddService, BridgeTyped
  <2> HIDE DEF svcs
  <2> QED
    BY <2>2 DEF BridgeTyped
<1>2. \A a \in Nodes : services[a] \subseteq services'[a]
  BY <1>1
<1>3. \A a \in Nodes : RegistryOK(nodes[a], smap[a]) /\ Agrees(a, nodes[a], smap[a], services')
  BY <1>2 DEF RegistriesOK, Agrees
<1>4. CASE b \notin DOMAIN nodes[b]
  <2>1. nodes' = nodes
    BY <1>4 DEF AddService
  <2>2. RegistriesOK'
    BY <1>1, <1>3, <2>1 DEF RegistriesOK
  <2> QED
    BY <1>1, <1>2, <2>1, <2>2
<1>5. CASE b \in DOMAIN nodes[b]
  <2>1. services'[b] = svcs
    BY <1>1
  <2>2. nodes' = [a \in Nodes |-> IF a = b THEN known ELSE nodes[a]]
    BY <1>5, <2>1, ZenonT(30) DEF AddService, RegistriesOK
  <2>3. /\ DOMAIN known = DOMAIN nodes[b] /\ known = [m \in DOMAIN known |-> known[m]]
        /\ known[b] \in NodeRecord /\ \A m \in DOMAIN nodes[b] \ {b} : known[m] = nodes[b][m]
    <3>1. nodes[b][b] \in NodeRecord /\ nodes[b] = [m \in DOMAIN nodes[b] |-> nodes[b][m]]
      BY <1>3, <1>5 DEF RegistryOK
    <3>2. [nodes[b][b] EXCEPT !.services = svcs] \in NodeRecord
      BY <1>1, <3>1 DEF NodeRecord
    <3>3. known = [m \in DOMAIN nodes[b] |-> IF m = b THEN [nodes[b][b] EXCEPT !.services = svcs] ELSE nodes[b][m]]
      BY <3>1, <1>5
    <3> HIDE DEF known, svcs
    <3> QED
      BY <1>5, <3>2, <3>3
  <2> HIDE DEF known
  <2>4. RegistryOK(known, smap[b])
    BY <1>3, <2>3 DEF RegistryOK
  <2>5. Agrees(b, known, smap[b], services')
    BY <1>3, <2>3 DEF Agrees
  <2>6. \A a \in Nodes : RegistryOK(nodes'[a], smap'[a]) /\ Agrees(a, nodes'[a], smap'[a], services')
    BY <1>1, <1>3, <2>2, <2>4, <2>5
  <2>7. RegistriesOK'
    BY <1>1, <2>2, <2>6 DEF RegistriesOK
  <2> QED
    BY <1>1, <1>2, <2>2, <2>3, <2>7
<1> QED
  BY <1>4, <1>5

\* A step that touches no registry.
LEMMA SameRegistries ==
    ASSUME RegistriesOK, UNCHANGED <<nodes, smap, services>>
    PROVE  RegistriesOK'
BY DEF RegistriesOK

\* The number of websockets of a node.
LEMMA SizeFacts ==
    ASSUME BridgeTyped, NEW a \in Nodes
    PROVE  Cardinality(ws[a]) \in 0 .. Cardinality(Nodes)
<1>1. ws[a] \subseteq Nodes /\ IsFiniteSet(Nodes)
  BY PeersAssumption DEF BridgeTyped
<1>2. IsFiniteSet(ws[a]) /\ Cardinality(ws[a]) <= Cardinality(Nodes)
  BY <1>1, FS_Subset
<1> QED
  BY <1>1, <1>2, FS_CardinalityType

-----------------------------------------------------------------------------
(* The theorems.                                                           *)

\* The invariant holds at the start.
LEMMA InitInv ==
    ASSUME Init PROVE IInv
<1>1. services \in [Nodes -> SUBSET AllServices]
  BY ServicesAssumption DEF Init, AllServices
<1>2. Cardinality(Nodes) \in Nat
  BY PeersAssumption, FS_CardinalityType
<1>3. BridgeTyped
  BY <1>1, <1>2 DEF Init, BridgeTyped, Phases
<1>4. RegistriesOK
  <2>1. ASSUME NEW a \in Nodes PROVE DOMAIN nodes[a] = {} /\ DOMAIN smap[a] = {}
          /\ nodes[a] = [b \in DOMAIN nodes[a] |-> nodes[a][b]]
          /\ smap[a] = [b \in DOMAIN smap[a] |-> smap[a][b]]
    BY DEF Init
  <2>2. ASSUME NEW a \in Nodes PROVE RegistryOK(nodes[a], smap[a])
    BY <2>1 DEF RegistryOK, IsIndex
  <2>3. ASSUME NEW a \in Nodes, NEW svc PROVE ListedUnder(smap[a], svc) = {}
    <3>1. IdsFor(smap[a], svc) = << >>
      BY <2>1, <2>3 DEF IdsFor
    <3>2. IdsIn(<< >>) = {}
      BY DEF IdsIn
    <3> QED
      BY <3>1, <3>2 DEF ListedUnder
  <2>4. ASSUME NEW a \in Nodes PROVE Agrees(a, nodes[a], smap[a], services)
    BY <2>1, <2>3 DEF Agrees
  <2> QED
    BY <2>2, <2>4 DEF Init, RegistriesOK
<1>5. SaidOK /\ NotYetKnown /\ SocketsAreTracked
  BY DEF Init, SaidOK, NotYetKnown, SocketsAreTracked
<1> QED
  BY <1>3, <1>4, <1>5 DEF IInv

\* The steps of start().
LEMMA StartInv ==
    ASSUME IInv, NEW a \in Nodes, StartStep(a)
    PROVE  IInv'
<1>0. BridgeTyped /\ RegistriesOK /\ SaidOK /\ NotYetKnown /\ SocketsAreTracked
  BY DEF IInv
<1>1. CASE StartServer(a)
  <2>1. /\ phase[a] \in {"down", "failed"} /\ phase' = [phase EXCEPT ![a] = "starting"]
        /\ Register(a, a, services[a], "online")
        /\ UNCHANGED <<services, todo, size, said, conn, ws, announces>>
    BY <1>1 DEF StartServer, netVars
  <2>2. services[a] \in SUBSET AllServices
    BY <1>0 DEF BridgeTyped
  <2>3. RegistriesOK' /\ DOMAIN nodes'[a] = DOMAIN nodes[a] \cup {a} /\ \A b \in Nodes \ {a} : nodes'[b] = nodes[b]
    BY <1>0, <2>1, <2>2, RegisterKeeps
  <2>4. BridgeTyped'
    BY <1>0, <2>1 DEF BridgeTyped, Phases
  <2>5. NotYetKnown'
    BY <1>0, <2>1, <2>3 DEF NotYetKnown, BridgeTyped
  <2>6. SaidOK' /\ SocketsAreTracked'
    BY <1>0, <2>1 DEF SaidOK, SocketsAreTracked, BridgeTyped
  <2> QED
    BY <2>3, <2>4, <2>5, <2>6 DEF IInv
<1>2. ASSUME NEW b \in Nodes, ConnectToPeer(a, b) PROVE IInv'
  <2>1. /\ phase[a] = "connecting" /\ b \in todo[a]
        /\ todo' = [todo EXCEPT ![a] = @ \ {b}]
        /\ conn' = [conn EXCEPT ![a] = [conn[a] EXCEPT ![b] = "open"]]
        /\ ws' = [ws EXCEPT ![a] = @ \cup {b}]
        /\ Register(a, b, {}, "online")
        /\ UNCHANGED <<phase, services, size, said, announces>>
    BY <1>2 DEF ConnectToPeer
  <2>2. b = a \/ b \notin DOMAIN nodes[a]
    BY <1>0, <2>1 DEF NotYetKnown
  <2>3. RegistriesOK' /\ DOMAIN nodes'[a] = DOMAIN nodes[a] \cup {b} /\ \A c \in Nodes \ {a} : nodes'[c] = nodes[c]
    BY <1>0, <2>1, <2>2, RegisterKeeps
  <2>4. conn' \in [Nodes -> [Nodes -> {"none", "open", "closed"}]]
    BY <1>0, <2>1 DEF BridgeTyped
  <2>5. BridgeTyped'
    BY <1>0, <2>1, <2>4 DEF BridgeTyped
  <2>6. NotYetKnown'
    BY <1>0, <2>1, <2>3 DEF NotYetKnown, BridgeTyped
  <2>7. SocketsAreTracked'
    BY <1>0, <2>1 DEF SocketsAreTracked, BridgeTyped
  <2>8. SaidOK'
    BY <1>0, <2>1 DEF SaidOK
  <2> QED
    BY <2>3, <2>5, <2>6, <2>7, <2>8 DEF IInv
<1>3. ASSUME NEW b \in Nodes, ConnectFails(a, b) PROVE IInv'
  <2>1. /\ todo' = [todo EXCEPT ![a] = @ \ {b}]
        /\ UNCHANGED <<phase, services, size, said, nodes, smap, conn, ws, announces>>
    BY <1>3 DEF ConnectFails, regVars, netVars
  <2>2. BridgeTyped' /\ RegistriesOK'
    BY <1>0, <2>1, SameRegistries DEF BridgeTyped
  <2>3. NotYetKnown'
    BY <1>0, <2>1 DEF NotYetKnown, BridgeTyped
  <2>4. SaidOK' /\ SocketsAreTracked'
    BY <1>0, <2>1 DEF SaidOK, SocketsAreTracked
  <2> QED
    BY <2>2, <2>3, <2>4 DEF IInv
<1>4. CASE BeginAnnounce(a)
  <2>1. /\ phase' = [phase EXCEPT ![a] = "announcing"]
        /\ todo' = [todo EXCEPT ![a] = ws[a]]
        /\ size' = [size EXCEPT ![a] = Cardinality(ws[a])]
        /\ said' = [said EXCEPT ![a] = services[a]]
        /\ UNCHANGED <<services, nodes, smap, conn, ws, announces>>
    BY <1>4 DEF BeginAnnounce, regVars, netVars
  <2>2. BridgeTyped'
    <3>1. size' \in [Nodes -> 0 .. Cardinality(Nodes)]
      BY <1>0, <2>1, SizeFacts DEF BridgeTyped
    <3> QED
      BY <1>0, <2>1, <3>1 DEF BridgeTyped, Phases
  <2>3. RegistriesOK'
    BY <1>0, <2>1, SameRegistries
  <2>4. NotYetKnown'
    BY <1>0, <2>1 DEF NotYetKnown, BridgeTyped
  <2>5. SaidOK'
    <3>1. \A b \in Nodes : said'[b] \subseteq services[b]
      BY <1>0, <2>1 DEF SaidOK, BridgeTyped
    <3> QED
      BY <1>0, <2>1, <3>1 DEF SaidOK
  <2>6. SocketsAreTracked'
    BY <1>0, <1>4, <2>1 DEF SocketsAreTracked, BridgeTyped, BeginAnnounce
  <2> QED
    BY <2>2, <2>3, <2>4, <2>5, <2>6 DEF IInv
<1>5. ASSUME NEW b \in Nodes, AnnounceTo(a, b) PROVE IInv'
  <2>1. /\ phase[a] = "announcing" /\ todo' = [todo EXCEPT ![a] = @ \ {b}]
        /\ \/ announces' = announces \cup {[from |-> a, to |-> b, services |-> said[a]]}
           \/ announces' = announces
        /\ UNCHANGED <<phase, services, size, said, nodes, smap, conn, ws>>
    BY <1>5 DEF AnnounceTo, regVars
  <2>2. BridgeTyped'
    BY <1>0, <2>1 DEF BridgeTyped
  <2>3. RegistriesOK'
    BY <1>0, <2>1, SameRegistries
  <2>4. NotYetKnown'
    BY <1>0, <2>1 DEF NotYetKnown, BridgeTyped
  <2>5. SaidOK' /\ SocketsAreTracked'
    BY <1>0, <2>1 DEF SaidOK, SocketsAreTracked
  <2> QED
    BY <2>2, <2>3, <2>4, <2>5 DEF IInv
<1>6. CASE Started(a) \/ StartBreaks(a)
  <2>1. /\ phase' = [phase EXCEPT ![a] = "running"] \/ phase' = [phase EXCEPT ![a] = "broken"]
        /\ todo' = todo \/ todo' = [todo EXCEPT ![a] = {}]
        /\ UNCHANGED <<services, size, said, nodes, smap, conn, ws, announces>>
    BY <1>6 DEF Started, StartBreaks, regVars, netVars
  <2>2. phase[a] = "announcing"
    BY <1>6 DEF Started, StartBreaks
  <2>3. BridgeTyped' /\ RegistriesOK'
    BY <1>0, <2>1, SameRegistries DEF BridgeTyped, Phases
  <2>4. NotYetKnown'
    BY <1>0, <2>1, <2>2 DEF NotYetKnown, BridgeTyped
  <2>5. SaidOK' /\ SocketsAreTracked'
    BY <1>0, <2>1, <2>2 DEF SaidOK, SocketsAreTracked, BridgeTyped
  <2> QED
    BY <2>3, <2>4, <2>5 DEF IInv
<1>7. CASE ServerStarts(a) \/ ServeFails(a)
  <2>1. /\ phase[a] = "starting"
        /\ \/ phase' = [phase EXCEPT ![a] = "connecting"] /\ todo' = [todo EXCEPT ![a] = PeersOf[a]]
           \/ phase' = [phase EXCEPT ![a] = "failed"] /\ todo' = todo
        /\ UNCHANGED <<services, size, said, nodes, smap, conn, ws, announces>>
    BY <1>7 DEF ServerStarts, ServeFails, regVars, netVars
  <2>2. BridgeTyped' /\ RegistriesOK'
    BY <1>0, <2>1, SameRegistries, PeersAssumption DEF BridgeTyped, Phases
  <2>3. NotYetKnown'
    BY <1>0, <2>1 DEF NotYetKnown, BridgeTyped
  <2>4. SaidOK' /\ SocketsAreTracked'
    BY <1>0, <2>1 DEF SaidOK, SocketsAreTracked, BridgeTyped
  <2> QED
    BY <2>2, <2>3, <2>4 DEF IInv
<1> QED
  BY <1>1, <1>2, <1>3, <1>4, <1>5, <1>6, <1>7 DEF StartStep

\* The steps of stop(), and its beginning.
LEMMA StopInv ==
    ASSUME IInv, NEW a \in Nodes, BeginStop(a) \/ StopUnserved(a) \/ StopStep(a)
    PROVE  IInv'
<1>0. BridgeTyped /\ RegistriesOK /\ SaidOK /\ NotYetKnown /\ SocketsAreTracked
  BY DEF IInv
<1>1. CASE ServerClosed(a)
  <2>1. /\ phase' = [phase EXCEPT ![a] = "stopping"]
        /\ todo' = [todo EXCEPT ![a] = ws[a]]
        /\ size' = [size EXCEPT ![a] = Cardinality(ws[a])]
        /\ announces' \subseteq announces
        /\ UNCHANGED <<services, said, nodes, smap, ws>>
    BY <1>1 DEF ServerClosed, Surviving, regVars
  <2>2. /\ conn' \in [Nodes -> [Nodes -> {"none", "open", "closed"}]]
        /\ \A x, y \in Nodes : conn'[x][y] = conn[x][y] \/ (conn[x][y] = "open" /\ conn'[x][y] = "closed")
    BY <1>0, <1>1 DEF ServerClosed, BridgeTyped
  <2>3. size' \in [Nodes -> 0 .. Cardinality(Nodes)]
    BY <1>0, <2>1, SizeFacts DEF BridgeTyped
  <2>4. BridgeTyped'
    BY <1>0, <2>1, <2>2, <2>3 DEF BridgeTyped, Phases
  <2>5. RegistriesOK'
    BY <1>0, <2>1, SameRegistries
  <2>6. NotYetKnown'
    BY <1>0, <2>1 DEF NotYetKnown, BridgeTyped
  <2>7. SaidOK'
    BY <1>0, <2>1 DEF SaidOK
  <2>8. SocketsAreTracked'
    BY <1>0, <1>1, <2>1, <2>2 DEF SocketsAreTracked, BridgeTyped, ServerClosed
  <2> QED
    BY <2>4, <2>5, <2>6, <2>7, <2>8 DEF IInv
<1>2. ASSUME NEW b \in Nodes, StopCloses(a, b) PROVE IInv'
  <2>1. /\ phase[a] = "stopping" /\ todo' = [todo EXCEPT ![a] = @ \ {b}]
        /\ UNCHANGED <<phase, services, size, said, nodes, smap, ws, announces>>
    BY <1>2 DEF StopCloses, regVars
  <2>2. /\ conn' \in [Nodes -> [Nodes -> {"none", "open", "closed"}]]
        /\ \A x, y \in Nodes : conn'[x][y] = conn[x][y] \/ (conn[x][y] = "open" /\ conn'[x][y] = "closed")
    BY <1>0, <1>2 DEF StopCloses, BridgeTyped
  <2>3. BridgeTyped' /\ RegistriesOK'
    BY <1>0, <2>1, <2>2, SameRegistries DEF BridgeTyped
  <2>4. NotYetKnown' /\ SaidOK'
    BY <1>0, <2>1 DEF NotYetKnown, SaidOK, BridgeTyped
  <2>5. SocketsAreTracked'
    BY <1>0, <2>1, <2>2 DEF SocketsAreTracked, BridgeTyped
  <2> QED
    BY <2>3, <2>4, <2>5 DEF IInv
<1>3. CASE Stopped(a) \/ StopBreaks(a) \/ StopUnserved(a)
  <2>1. /\ phase' = [phase EXCEPT ![a] = "stopped"]
        /\ ws' = ws \/ ws' = [ws EXCEPT ![a] = {}]
        /\ todo' = todo \/ todo' = [todo EXCEPT ![a] = {}]
        /\ UNCHANGED <<services, size, said, nodes, smap, conn, announces>>
    BY <1>3 DEF Stopped, StopBreaks, StopUnserved, regVars, netVars
  <2>2. BridgeTyped' /\ RegistriesOK'
    BY <1>0, <2>1, SameRegistries DEF BridgeTyped, Phases
  <2>3. NotYetKnown' /\ SaidOK'
    BY <1>0, <2>1 DEF NotYetKnown, SaidOK, BridgeTyped
  <2>4. SocketsAreTracked'
    BY <1>0, <2>1 DEF SocketsAreTracked, BridgeTyped
  <2> QED
    BY <2>2, <2>3, <2>4 DEF IInv
<1>4. CASE BeginStop(a)
  <2>1. /\ phase[a] \in {"running", "broken"} /\ phase' = [phase EXCEPT ![a] = "closing"]
        /\ UNCHANGED <<services, todo, size, said, nodes, smap, conn, ws, announces>>
    BY <1>4 DEF BeginStop, regVars, netVars
  <2>2. BridgeTyped' /\ RegistriesOK'
    BY <1>0, <2>1, SameRegistries DEF BridgeTyped, Phases
  <2>3. NotYetKnown' /\ SaidOK'
    BY <1>0, <2>1 DEF NotYetKnown, SaidOK, BridgeTyped
  <2>4. SocketsAreTracked'
    BY <1>0, <2>1 DEF SocketsAreTracked, BridgeTyped
  <2> QED
    BY <2>2, <2>3, <2>4 DEF IInv
<1> QED
  BY <1>1, <1>2, <1>3, <1>4 DEF StopStep

\* The connections: losses, listeners and announcements.
LEMMA NetworkInv ==
    ASSUME IInv,
           \/ \E a, b \in Nodes : ConnectionLost(a, b) \/ ListenerEnds(a, b)
           \/ \E m \in announces : ReceiveAnnounce(m)
    PROVE  IInv'
<1>0. BridgeTyped /\ RegistriesOK /\ SaidOK /\ NotYetKnown /\ SocketsAreTracked
  BY DEF IInv
<1>1. ASSUME NEW a \in Nodes, NEW b \in Nodes, ConnectionLost(a, b) PROVE IInv'
  <2>1. announces' \subseteq announces /\ UNCHANGED <<phase, services, todo, size, said, nodes, smap, ws>>
    BY <1>1 DEF ConnectionLost, Surviving, bridgeVars, regVars
  <2>2. /\ conn' \in [Nodes -> [Nodes -> {"none", "open", "closed"}]]
        /\ \A x, y \in Nodes : conn'[x][y] = conn[x][y] \/ (conn[x][y] = "open" /\ conn'[x][y] = "closed")
    BY <1>0, <1>1 DEF ConnectionLost, BridgeTyped
  <2>3. BridgeTyped' /\ RegistriesOK'
    BY <1>0, <2>1, <2>2, SameRegistries DEF BridgeTyped
  <2>4. NotYetKnown' /\ SaidOK'
    BY <1>0, <2>1 DEF NotYetKnown, SaidOK
  <2>5. SocketsAreTracked'
    BY <1>0, <2>1, <2>2 DEF SocketsAreTracked, BridgeTyped
  <2> QED
    BY <2>3, <2>4, <2>5 DEF IInv
<1>2. ASSUME NEW a \in Nodes, NEW b \in Nodes, ListenerEnds(a, b) PROVE IInv'
  <2>1. /\ ws' = [ws EXCEPT ![a] = @ \ {b}]
        /\ nodes' = [nodes EXCEPT ![a] = SetStatus(@, b, "offline")]
        /\ UNCHANGED <<phase, services, todo, size, said, smap, announces>>
    BY <1>2 DEF ListenerEnds, bridgeVars
  <2>2. /\ conn' \in [Nodes -> [Nodes -> {"none", "open", "closed"}]]
        /\ conn'[a][b] = "none" /\ \A x, y \in Nodes : <<x, y>> # <<a, b>> => conn'[x][y] = conn[x][y]
    BY <1>0, <1>2 DEF ListenerEnds, BridgeTyped
  <2>3. RegistriesOK' /\ DOMAIN nodes'[a] = DOMAIN nodes[a] /\ \A c \in Nodes \ {a} : nodes'[c] = nodes[c]
    BY <1>0, <2>1, MarkKeeps
  <2>4. BridgeTyped'
    BY <1>0, <2>1, <2>2 DEF BridgeTyped
  <2>5. NotYetKnown' /\ SaidOK'
    BY <1>0, <2>1, <2>3 DEF NotYetKnown, SaidOK
  <2>6. SocketsAreTracked'
    <3> SUFFICES ASSUME NEW x \in Nodes, NEW y \in Nodes
                 PROVE  /\ y \in ws'[x] => conn'[x][y] # "none"
                        /\ (conn'[x][y] = "open" /\ phase'[x] # "stopped") => y \in ws'[x]
      BY DEF SocketsAreTracked
    <3>1. CASE x = a /\ y = b
      BY <1>0, <2>1, <2>2, <3>1 DEF BridgeTyped
    <3>2. CASE ~(x = a /\ y = b)
      <4>1. conn'[x][y] = conn[x][y] /\ phase' = phase /\ (y \in ws'[x] <=> y \in ws[x])
        BY <1>0, <2>1, <2>2, <3>2 DEF BridgeTyped
      <4> QED
        BY <1>0, <4>1 DEF SocketsAreTracked
    <3> QED
      BY <3>1, <3>2
  <2> QED
    BY <2>3, <2>4, <2>5, <2>6 DEF IInv
<1>3. ASSUME NEW m \in announces, ReceiveAnnounce(m) PROVE IInv'
  <2> DEFINE b == m.to
             n == m.from
  <2>0. b \in Nodes /\ n \in Nodes /\ m.services \in SUBSET AllServices /\ m.services \subseteq services[n]
    BY <1>0 DEF BridgeTyped, SaidOK
  <2>1. announces' \subseteq announces /\ UNCHANGED <<phase, services, todo, size, said, conn, ws>>
    BY <1>3 DEF ReceiveAnnounce, bridgeVars
  <2>2. RegistriesOK' /\ \A c \in Nodes : DOMAIN nodes'[c] = DOMAIN nodes[c]
    <3>1. CASE n \in DOMAIN nodes[b]
      <4>1. /\ smap' = [smap EXCEPT ![b] =
                  Index(Unindex(@, n, nodes[b][n].services \ m.services), n, m.services \ nodes[b][n].services)]
            /\ nodes' = [nodes EXCEPT ![b][n].services = m.services]
        BY <1>3, <3>1 DEF ReceiveAnnounce
      <4> DEFINE svcs == m.services
      <4> HIDE DEF b, n, svcs
      <4>2. RegistriesOK' /\ DOMAIN nodes'[b] = DOMAIN nodes[b] /\ \A c \in Nodes \ {b} : nodes'[c] = nodes[c]
        BY <1>0, <2>0, <2>1, <3>1, <4>1, UpdateKeeps DEF svcs
      <4> QED
        BY <4>2
    <3>2. CASE n \notin DOMAIN nodes[b]
      <4>1. UNCHANGED <<nodes, smap>>
        BY <1>3, <3>2 DEF ReceiveAnnounce, regVars
      <4> QED
        BY <1>0, <2>1, <4>1, SameRegistries
    <3> QED
      BY <3>1, <3>2
  <2>3. BridgeTyped'
    BY <1>0, <2>1 DEF BridgeTyped
  <2>4. NotYetKnown' /\ SaidOK' /\ SocketsAreTracked'
    BY <1>0, <2>1, <2>2 DEF NotYetKnown, SaidOK, SocketsAreTracked
  <2> QED
    BY <2>2, <2>3, <2>4 DEF IInv
<1> QED
  BY <1>1, <1>2, <1>3

\* service() at any time.
LEMMA AddServiceInv ==
    ASSUME IInv, NEW a \in Nodes, NEW p \in Extra, AddService(a, p)
    PROVE  IInv'
<1>0. BridgeTyped /\ RegistriesOK /\ SaidOK /\ NotYetKnown /\ SocketsAreTracked
  BY DEF IInv
<1>1. UNCHANGED <<phase, todo, size, said, conn, ws, announces>>
  BY DEF AddService, netVars
<1>2. /\ RegistriesOK' /\ services' \in [Nodes -> SUBSET AllServices]
      /\ \A b \in Nodes : services[b] \subseteq services'[b] /\ DOMAIN nodes'[b] = DOMAIN nodes[b]
  BY <1>0, AddServiceKeeps
<1>3. BridgeTyped'
  BY <1>0, <1>1, <1>2 DEF BridgeTyped
<1>4. SaidOK'
  <2>1. \A m \in announces : m.from \in Nodes
    BY <1>0 DEF BridgeTyped
  <2> QED
    BY <1>0, <1>1, <1>2, <2>1 DEF SaidOK
<1>5. NotYetKnown' /\ SocketsAreTracked'
  BY <1>0, <1>1, <1>2 DEF NotYetKnown, SocketsAreTracked
<1> QED
  BY <1>2, <1>3, <1>4, <1>5 DEF IInv

\* The inductive invariant is one of the specification.
THEOREM Invariance == Spec => []IInv
<1>1. Init => IInv
  BY InitInv
<1>2. IInv /\ [Next]_vars => IInv'
  <2>1. ASSUME IInv, Next PROVE IInv'
    BY <2>1, StartInv, StopInv, NetworkInv, AddServiceInv DEF Next
  <2>2. ASSUME IInv, UNCHANGED vars PROVE IInv'
    <3>1. UNCHANGED <<phase, services, nodes, smap, conn, ws, todo, size, said, announces>>
      BY <2>2 DEF vars, bridgeVars, regVars, netVars
    <3>2. RegistriesOK'
      BY <2>2, <3>1, SameRegistries DEF IInv
    <3>3. (BridgeTyped /\ SaidOK /\ NotYetKnown /\ SocketsAreTracked)'
      BY <2>2, <3>1 DEF IInv, BridgeTyped, SaidOK, NotYetKnown, SocketsAreTracked
    <3> QED
      BY <3>2, <3>3 DEF IInv
  <2> QED
    BY <2>1, <2>2
<1> QED
  BY <1>1, <1>2, PTL DEF Spec

\* The bridges and their registries keep their types.
THEOREM TypeCorrect == Spec => []TypeOK
<1>1. IInv => TypeOK
  BY TypeFacts DEF IInv
<1> QED
  BY <1>1, Invariance, PTL

\* No registry of any cluster lists a node for a service it never had.
THEOREM ListsOwnServices == Spec => []OnlyOwnServices
<1>1. IInv => OnlyOwnServices
  BY AgreeFacts DEF IInv
<1> QED
  BY <1>1, Invariance, PTL

\* What a registry knows of a remote node is exactly what it lists it for.
THEOREM RecordsMatchLists == Spec => []RemoteIndexAgrees
<1>1. IInv => RemoteIndexAgrees
  BY AgreeFacts DEF IInv
<1> QED
  BY <1>1, Invariance, PTL

\* _nodes_ws and the sockets that are open stay together.
THEOREM SocketsStayTracked == Spec => []SocketsAreTracked
<1>1. IInv => SocketsAreTracked
  BY DEF IInv
<1> QED
  BY <1>1, Invariance, PTL

=============================================================================
