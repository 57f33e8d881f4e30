---------------------------- MODULE ClusterBridge ----------------------------
(***************************************************************************)
(* evoid_cluster/bridge.py: the bridges of all nodes of a cluster, how they *)
(* start, connect, announce their services and stop.  Every node has its    *)
(* own registry (RegistryOps) and runs in its own asyncio thread; a step    *)
(* happens between two suspension points of one node.  Heartbeats are the   *)
(* subject of HealthChecker and calls that of IntentRouter.                 *)
(***************************************************************************)
EXTENDS RegistryOps

CONSTANTS
    Nodes,      \* the nodes of the cluster
    PeersOf,    \* PeersOf[a]: the peers in the configuration of a
    ServicesOf, \* ServicesOf[a]: the services in the configuration of a
    Extra       \* patterns that service() may add to a configuration

ASSUME PeersAssumption == IsFiniteSet(Nodes) /\ PeersOf \in [Nodes -> SUBSET Nodes]
ASSUME ServicesAssumption == ServicesOf = [a \in Nodes |-> ServicesOf[a]]

VARIABLES
    phase,     \* how far start() or stop() of each node is
    services,  \* config.services
    nodes,     \* registry._nodes of each node
    smap,      \* registry._service_map of each node
    conn,      \* conn[a][b]: the websocket a opened to b: "none", "open", or
               \* "closed" while _listen_peer has not ended yet
    ws,        \* the keys of _nodes_ws of each node
    todo,      \* the peers start() or stop() of a node has still to visit
    size,      \* the size of _nodes_ws when the loop over it began
    said,      \* the services in the ANNOUNCE message a node has built
    announces  \* the pairs <<a, b>>: an ANNOUNCE of a is on its way to b,
               \* with the services it carries

bridgeVars == <<phase, services, todo, size, said>>
regVars == <<nodes, smap>>
netVars == <<conn, ws, announces>>
vars == <<bridgeVars, regVars, netVars>>

AllServices == Extra \cup UNION {ServicesOf[a] : a \in Nodes}

\* "failed": start() ended because the server could not be started; "broken": it
\* ended with an exception later; "stopped": stop() ended, with one or without.
Phases == {"down", "starting", "failed", "connecting", "announcing", "running", "broken",
           "closing", "stopping", "stopped"}

\* Is the WebSocket server of b accepting connections?
Serving(b) == phase[b] \in {"connecting", "announcing", "running", "broken"}

TypeOK ==
    /\ phase \in [Nodes -> Phases]
    /\ services \in [Nodes -> SUBSET AllServices]
    /\ \A a \in Nodes :
        /\ DOMAIN nodes[a] \subseteq Nodes
        /\ \A b \in DOMAIN nodes[a] :
            nodes[a][b] \in [services : SUBSET AllServices, status : NodeStatus]
        /\ \A svc \in DOMAIN smap[a] : smap[a][svc] \in Seq(Nodes)
    /\ conn \in [Nodes -> [Nodes -> {"none", "open", "closed"}]]
    /\ ws \in [Nodes -> SUBSET Nodes]
    /\ todo \in [Nodes -> SUBSET Nodes]
    /\ size \in [Nodes -> 0 .. Cardinality(Nodes)]
    /\ said \in [Nodes -> SUBSET AllServices]
    /\ announces \subseteq [from : Nodes, to : Nodes, services : SUBSET AllServices]

Init ==
    /\ phase = [a \in Nodes |-> "down"]
    /\ services = ServicesOf
    /\ nodes = [a \in Nodes |-> [b \in {} |-> [services |-> {}, status |-> "offline"]]]
    /\ smap = [a \in Nodes |-> [svc \in {} |-> << >>]]
    /\ conn = [a \in Nodes |-> [b \in Nodes |-> "none"]]
    /\ ws = [a \in Nodes |-> {}]
    /\ todo = [a \in Nodes |-> {}]
    /\ size = [a \in Nodes |-> 0]
    /\ said = [a \in Nodes |-> {}]
    /\ announces = {}

\* ServiceRegistry.register_node on the registry of a.
Register(a, n, svcs, st) ==
    /\ nodes' = [nodes EXCEPT ![a] = PutNode(@, n, svcs, st)]
    /\ smap' = [smap EXCEPT ![a] = Index(@, n, svcs)]

-----------------------------------------------------------------------------
(* start().                                                                *)

\* The local node is registered and serve() awaited; start() may be called
\* again after it has failed.
StartServer(a) ==
    /\ phase[a] \in {"down", "failed"}
    /\ phase' = [phase EXCEPT ![a] = "starting"]
    /\ Register(a, a, services[a], "online")
    /\ UNCHANGED <<services, todo, size, said, netVars>>

\* The server accepts connections, and the configured peers are visited.
ServerStarts(a) ==
    /\ phase[a] = "starting"
    /\ phase' = [phase EXCEPT ![a] = "connecting"]
    /\ todo' = [todo EXCEPT ![a] = PeersOf[a]]
    /\ UNCHANGED <<services, size, said, regVars, netVars>>

\* serve() raises, as when the port is in use, and start() with it.
ServeFails(a) ==
    /\ phase[a] = "starting"
    /\ phase' = [phase EXCEPT ![a] = "failed"]
    /\ UNCHANGED <<services, todo, size, said, regVars, netVars>>

\* _connect_to_peer: a connected peer is registered without services.
ConnectToPeer(a, b) ==
    /\ phase[a] = "connecting"
    /\ b \in todo[a]
    /\ Serving(b)
    /\ todo' = [todo EXCEPT ![a] = @ \ {b}]
    /\ conn' = [conn EXCEPT ![a][b] = "open"]
    /\ ws' = [ws EXCEPT ![a] = @ \cup {b}]
    /\ Register(a, b, {}, "online")
    /\ UNCHANGED <<phase, services, size, said, announces>>

\* ... and a failure (the peer is down, or the network is) is logged and not
\* tried again.
ConnectFails(a, b) ==
    /\ phase[a] = "connecting"
    /\ b \in todo[a]
    /\ todo' = [todo EXCEPT ![a] = @ \ {b}]
    /\ UNCHANGED <<phase, services, size, said, regVars, netVars>>

\* _announce_services builds the message from the services of that moment, and
\* the loop of _broadcast over _nodes_ws.values() begins.
BeginAnnounce(a) ==
    /\ phase[a] = "connecting"
    /\ todo[a] = {}
    /\ phase' = [phase EXCEPT ![a] = "announcing"]
    /\ todo' = [todo EXCEPT ![a] = ws[a]]
    /\ size' = [size EXCEPT ![a] = Cardinality(ws[a])]
    /\ said' = [said EXCEPT ![a] = services[a]]
    /\ UNCHANGED <<services, regVars, netVars>>

\* A dict iterator refuses to go on when the size of the dict has changed.
IteratorValid(a) == Cardinality(ws[a]) = size[a]

\* The next websocket of the loop: an exception of its send is swallowed.
AnnounceTo(a, b) ==
    /\ phase[a] = "announcing"
    /\ b \in todo[a]
    /\ IteratorValid(a)
    /\ todo' = [todo EXCEPT ![a] = @ \ {b}]
    /\ announces' = IF conn[a][b] = "open"
                    THEN announces \cup {[from |-> a, to |-> b, services |-> said[a]]}
                    ELSE announces
    /\ UNCHANGED <<phase, services, size, said, regVars, conn, ws>>

\* The loop ends; the heartbeat starts and the message bus is hooked.
Started(a) ==
    /\ phase[a] = "announcing"
    /\ todo[a] = {}
    /\ IteratorValid(a)
    /\ phase' = [phase EXCEPT ![a] = "running"]
    /\ UNCHANGED <<services, todo, size, said, regVars, netVars>>

\* A listener removed its websocket while the loop was suspended in a send:
\* "dictionary changed size during iteration" leaves start() half done.
StartBreaks(a) ==
    /\ phase[a] = "announcing"
    /\ ~IteratorValid(a)
    /\ phase' = [phase EXCEPT ![a] = "broken"]
    /\ todo' = [todo EXCEPT ![a] = {}]
    /\ UNCHANGED <<services, size, said, regVars, netVars>>

-----------------------------------------------------------------------------
(* Connections.                                                            *)

\* Mutant: the services are recorded for the receiver itself.
AnnounceToSelf(m) ==
    /\ m \in announces
    /\ announces' = announces \ {m}
    /\ LET b == m.to
       IN  /\ smap' = [smap EXCEPT ![b] = Index(@, b, m.services)]
           /\ nodes' = [nodes EXCEPT ![b][b].services = m.services]
    /\ UNCHANGED <<bridgeVars, conn, ws>>

\* Mutant: only the services that went are applied.
AnnounceRemovesOnly(m) ==
    /\ m \in announces
    /\ announces' = announces \ {m}
    /\ LET b == m.to
           n == m.from
       IN  IF n \in DOMAIN nodes[b]
           THEN /\ smap' = [smap EXCEPT ![b] = Unindex(@, n, nodes[b][n].services \ m.services)]
                /\ nodes' = [nodes EXCEPT ![b][n].services = @ \cap m.services]
           ELSE UNCHANGED regVars
    /\ UNCHANGED <<bridgeVars, conn, ws>>

\* _handle_connection receives an ANNOUNCE: it is dropped unless the node is
\* already known here.
ReceiveAnnounce(m) ==
    /\ m \in announces
    /\ announces' = announces \ {m}
    /\ LET b == m.to
           n == m.from
           old == nodes[b][n].services
       IN  IF n \in DOMAIN nodes[b]
           THEN /\ smap' = [smap EXCEPT ![b] =
                        Index(Unindex(@, n, old \ m.services), n, m.services \ old)]
                /\ nodes' = [nodes EXCEPT ![b][n].services = m.services]
           ELSE UNCHANGED regVars
    /\ UNCHANGED <<bridgeVars, conn, ws>>

\* What is left of the announcements when connections are lost: those the
\* receivers have buffered are still read, the others are gone.
Surviving(lost) == {announces, announces \ lost}

\* The network drops the websocket a opened to b.
ConnectionLost(a, b) ==
    /\ conn[a][b] = "open"
    /\ conn' = [conn EXCEPT ![a][b] = "closed"]
    /\ announces' \in Surviving({m \in announces : m.from = a /\ m.to = b})
    /\ UNCHANGED <<bridgeVars, regVars, ws>>

\* Mutant: the peer's record is removed, its index entries are not.
ListenerForgets(a, b) ==
    /\ conn[a][b] = "closed"
    /\ conn' = [conn EXCEPT ![a][b] = "none"]
    /\ ws' = [ws EXCEPT ![a] = @ \ {b}]
    /\ nodes' = [nodes EXCEPT ![a] = PopNode(@, b)]
    /\ UNCHANGED <<bridgeVars, smap, announces>>

\* Mutant: the websocket stays in _nodes_ws.
ListenerKeepsSocket(a, b) ==
    /\ conn[a][b] = "closed"
    /\ conn' = [conn EXCEPT ![a][b] = "none"]
    /\ nodes' = [nodes EXCEPT ![a] = SetStatus(@, b, "offline")]
    /\ UNCHANGED <<bridgeVars, smap, ws, announces>>

\* The finally clause of _listen_peer.
ListenerEnds(a, b) ==
    /\ conn[a][b] = "closed"
    /\ conn' = [conn EXCEPT ![a][b] = "none"]
    /\ ws' = [ws EXCEPT ![a] = @ \ {b}]
    /\ nodes' = [nodes EXCEPT ![a] = SetStatus(@, b, "offline")]
    /\ UNCHANGED <<bridgeVars, smap, announces>>

-----------------------------------------------------------------------------
(* stop() and service().                                                   *)

\* stop() closes the server, which accepts no connection from now on, and
\* awaits that it is closed.  A node whose start() raised may be stopped too.
BeginStop(a) ==
    /\ phase[a] \in {"running", "broken"}
    /\ phase' = [phase EXCEPT ![a] = "closing"]
    /\ UNCHANGED <<services, todo, size, said, regVars, netVars>>

\* The connections that others opened to a are closed by now, and the loop over
\* _nodes_ws.values() begins.
ServerClosed(a) ==
    /\ phase[a] = "closing"
    /\ phase' = [phase EXCEPT ![a] = "stopping"]
    /\ todo' = [todo EXCEPT ![a] = ws[a]]
    /\ size' = [size EXCEPT ![a] = Cardinality(ws[a])]
    /\ conn' = [x \in Nodes |-> IF conn[x][a] = "open" THEN [conn[x] EXCEPT ![a] = "closed"]
                                                       ELSE conn[x]]
    /\ announces' \in Surviving({m \in announces : m.to = a})
    /\ UNCHANGED <<services, said, regVars, ws>>

\* stop() without a server awaits nothing: there is no websocket either.
StopUnserved(a) ==
    /\ phase[a] = "failed"
    /\ phase' = [phase EXCEPT ![a] = "stopped"]
    /\ ws' = [ws EXCEPT ![a] = {}]
    /\ UNCHANGED <<services, todo, size, said, regVars, conn, announces>>

\* The next websocket of the loop is closed, after what was sent on it.
StopCloses(a, b) ==
    /\ phase[a] = "stopping"
    /\ b \in todo[a]
    /\ IteratorValid(a)
    /\ todo' = [todo EXCEPT ![a] = @ \ {b}]
    /\ conn' = [conn EXCEPT ![a][b] = IF @ = "open" THEN "closed" ELSE @]
    /\ UNCHANGED <<phase, services, size, said, regVars, ws, announces>>

Stopped(a) ==
    /\ phase[a] = "stopping"
    /\ todo[a] = {}
    /\ IteratorValid(a)
    /\ phase' = [phase EXCEPT ![a] = "stopped"]
    /\ ws' = [ws EXCEPT ![a] = {}]
    /\ UNCHANGED <<services, todo, size, said, regVars, conn, announces>>

\* A listener removed its websocket while stop() awaited a close: the loop
\* raises, and neither the other websockets are closed nor the dict cleared.
StopBreaks(a) ==
    /\ phase[a] = "stopping"
    /\ ~IteratorValid(a)
    /\ phase' = [phase EXCEPT ![a] = "stopped"]
    /\ todo' = [todo EXCEPT ![a] = {}]
    /\ UNCHANGED <<services, size, said, regVars, netVars>>

\* The decorator service(pattern) appends to config.services, which is also
\* the list in the registry's record of the local node.
AddService(a, p) ==
    /\ p \notin services[a]
    /\ services' = [services EXCEPT ![a] = @ \cup {p}]
    /\ nodes' = IF a \in DOMAIN nodes[a] THEN [nodes EXCEPT ![a][a].services = services'[a]]
                                         ELSE nodes
    /\ UNCHANGED <<phase, todo, size, said, smap, netVars>>

StartStep(a) ==
    \/ StartServer(a) \/ ServerStarts(a) \/ ServeFails(a)
    \/ BeginAnnounce(a) \/ Started(a) \/ StartBreaks(a)
    \/ \E b \in Nodes : ConnectToPeer(a, b) \/ ConnectFails(a, b) \/ AnnounceTo(a, b)

StopStep(a) == ServerClosed(a) \/ Stopped(a) \/ StopBreaks(a) \/ \E b \in Nodes : StopCloses(a, b)

Next ==
    \/ \E a \in Nodes : StartStep(a) \/ BeginStop(a) \/ StopUnserved(a) \/ StopStep(a)
    \/ \E a \in Nodes, p \in Extra : AddService(a, p)
    \/ \E a, b \in Nodes : ConnectionLost(a, b) \/ ListenerEnds(a, b)
    \/ \E m \in announces : ReceiveAnnounce(m)

\* Every start() and stop() goes on, listeners end, messages arrive.
Fairness ==
    /\ \A a \in Nodes : WF_vars(StartStep(a)) /\ WF_vars(StopStep(a))
    /\ \A a, b \in Nodes : WF_vars(ListenerEnds(a, b))
    /\ WF_vars(\E m \in announces : ReceiveAnnounce(m))

Spec == Init /\ [][Next]_vars
FairSpec == Spec /\ Fairness

-----------------------------------------------------------------------------
(* Properties.                                                             *)

\* b lists a under the service svc.
Lists(b, a, svc) == a \in IdsIn(IdsFor(smap[b], svc))

\* No registry lists a node for a service the node never had: announcements
\* in any order, from connections that came and went, only bring patterns of
\* the sender's own configuration (bridge.py:206-211, :269-276).
OnlyOwnServices ==
    \A a, b \in Nodes : \A svc \in DOMAIN smap[b] : Lists(b, a, svc) => svc \in services[a]

\* What a node knows of a remote node is what it lists it for: the registry
\* record and the index agree although connecting, announcing and losing the
\* connection each touch only one of them (bridge.py:210, :249, :267).
RemoteIndexAgrees ==
    \A a, b \in Nodes : a # b =>
        {svc \in AllServices : Lists(b, a, svc)} =
            IF a \in DOMAIN nodes[b] THEN nodes[b][a].services ELSE {}

\* A websocket in _nodes_ws is open or its listener is about to remove it;
\* one that is open is in _nodes_ws until the node stops (bridge.py:241, :266).
SocketsAreTracked ==
    \A a, b \in Nodes :
        /\ b \in ws[a] => conn[a][b] # "none"
        /\ conn[a][b] = "open" /\ phase[a] # "stopped" => b \in ws[a]

\* An announcement that reaches a node which knows its sender is recorded:
\* the receiver lists the sender for all it announced, unless the connection
\* that carries it is lost (bridge.py:206-211).
KnownAnnounceIsRecorded ==
    \A a, b \in Nodes : \A added \in SUBSET Extra : LET S == ServicesOf[a] \cup added IN
        ([from |-> a, to |-> b, services |-> S] \in announces /\ a \in DOMAIN nodes[b])
            ~> (conn[a][b] # "open" \/ \A svc \in S : Lists(b, a, svc))

=============================================================================
