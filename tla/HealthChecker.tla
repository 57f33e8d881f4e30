---------------------------- MODULE HealthChecker ----------------------------
(***************************************************************************)
(* evoid_cluster/health.py with the parts of bridge.py it works on: the    *)
(* health checker of one node, the websockets the node opened to its peers *)
(* (_nodes_ws) and their listeners, and the heartbeats of the peers.       *)
(*                                                                         *)
(* Time is kept as the age of the last heartbeat of each peer, up to one   *)
(* more than the timeout; a step of the model happens between two          *)
(* suspension points of the asyncio thread.                                *)
(***************************************************************************)
EXTENDS Naturals, FiniteSets

CONSTANTS
    Peers,      \* the configured peers
    Mutual,     \* the peers that have this node in their own configuration
    MaxAge      \* heartbeat_timeout, in clock ticks

ASSUME PeersAssumption == Mutual \subseteq Peers
ASSUME MaxAgeAssumption == MaxAge \in Nat \ {0}

VARIABLES
    alive,      \* the peers whose process runs
    inbound,    \* the peers with an open connection of their own to this node
    inbox,      \* the peers with a heartbeat in the buffer of that connection
    pongs,      \* the peers with an answer on the way to this node's heartbeat
    conn,       \* this node's websocket to a peer: "none", "open", "half" open
                \* when the peer's process is gone, or "closed" while its
                \* listener has not ended yet
    ws,         \* the keys of _nodes_ws
    status,     \* the peer in the registry, "unknown" when it is not there
    seen,       \* the keys of _last_seen
    age,        \* time since the last heartbeat of a peer in seen
    loop,       \* where _heartbeat_loop is suspended
    delta,      \* its "now - last", frozen when the loop reads the items
    dead,       \* the peers it has still to handle in this pass
    waited,     \* did this pass suspend while it handled dead peers?
    retried     \* the peers _reconnect_loop has tried to connect to

peerVars == <<alive, inbound, inbox>>
connVars == <<pongs, conn, ws>>
seenVars == <<seen, age>>
loopVars == <<loop, delta, dead, waited>>
checkerVars == <<peerVars, connVars, status, seenVars, loopVars, retried>>

CheckerTypeOK ==
    /\ alive \subseteq Peers /\ inbound \subseteq alive /\ inbox \subseteq Peers
    /\ pongs \subseteq Peers /\ ws \subseteq Peers
    /\ conn \in [Peers -> {"none", "open", "half", "closed"}]
    /\ status \in [Peers -> {"unknown", "online", "offline"}]
    /\ seen \subseteq Peers
    /\ age \in [Peers -> 0 .. MaxAge + 1]
    /\ loop \in {"asleep", "sending", "checking", "closing"}
    /\ delta \in [Peers -> 0 .. MaxAge + 1]
    /\ dead \subseteq seen
    /\ waited \in BOOLEAN
    /\ retried \subseteq Peers

\* start() has connected to the peers that were up, which it registered as
\* online, and failed to connect to the others, which stay unknown.
CheckerInit ==
    /\ alive \in SUBSET Peers
    /\ inbound = alive \cap Mutual
    /\ inbox = {} /\ pongs = {}
    /\ ws = alive
    /\ conn = [p \in Peers |-> IF p \in ws THEN "open" ELSE "none"]
    /\ status = [p \in Peers |-> IF p \in ws THEN "online" ELSE "unknown"]
    /\ seen = {} /\ age = [p \in Peers |-> 0]
    /\ loop = "asleep" /\ delta = [p \in Peers |-> 0] /\ dead = {} /\ waited = FALSE
    /\ retried = {}

\* The loop over the dead nodes runs without suspension, except for close().
Interruptible == loop # "checking"

\* mark_node_offline, mark_node_online: nothing for an unknown node.
Marked(p, st) == IF status[p] = "unknown" THEN status ELSE [status EXCEPT ![p] = st]

-----------------------------------------------------------------------------
(* Heartbeats.                                                             *)

\* Mutant: a heartbeat does not bring the peer back.
RecordOnly(p) ==
    /\ seen' = seen \cup {p}
    /\ age' = [age EXCEPT ![p] = 0]
    /\ delta' = IF loop = "sending" THEN [delta EXCEPT ![p] = 0] ELSE delta
    /\ UNCHANGED status

\* Mutant: the loop compares with what was last seen when it woke up.
RecordUnseenByLoop(p) ==
    /\ seen' = seen \cup {p}
    /\ age' = [age EXCEPT ![p] = 0]
    /\ status' = Marked(p, "online")
    /\ UNCHANGED delta

\* record_heartbeat, of a heartbeat that came on either connection.
RecordHeartbeat(p) ==
    /\ seen' = seen \cup {p}
    /\ age' = [age EXCEPT ![p] = 0]
    /\ status' = Marked(p, "online")
    /\ delta' = IF loop = "sending" THEN [delta EXCEPT ![p] = 0] ELSE delta

\* The server side receives a heartbeat of p (its pong goes back to p).
ServerReceives(p) ==
    /\ Interruptible
    /\ p \in inbox
    /\ inbox' = inbox \ {p}
    /\ RecordHeartbeat(p)
    /\ UNCHANGED <<alive, inbound, connVars, loop, dead, waited, retried>>

\* _listen_peer receives the answer to a heartbeat; what was buffered is
\* still read after the close.
ListenerReceives(p) ==
    /\ Interruptible
    /\ p \in pongs
    /\ conn[p] # "none"
    /\ pongs' = pongs \ {p}
    /\ RecordHeartbeat(p)
    /\ UNCHANGED <<peerVars, conn, ws, loop, dead, waited, retried>>

\* The finally clause of _listen_peer.
ListenerEnds(p) ==
    /\ Interruptible
    /\ conn[p] = "closed"
    /\ conn' = [conn EXCEPT ![p] = "none"]
    /\ pongs' = pongs \ {p}
    /\ ws' = ws \ {p}
    /\ status' = Marked(p, "offline")
    /\ UNCHANGED <<peerVars, seenVars, loopVars, retried>>

-----------------------------------------------------------------------------
(* The two loops.                                                          *)

\* The heartbeat loop takes the time and sends to every peer in _nodes_ws.
LoopWakes ==
    /\ loop = "asleep"
    /\ loop' = "sending"
    /\ delta' = [p \in Peers |-> IF p \in seen THEN age[p] ELSE 0]
    /\ pongs' = pongs \cup {p \in ws : conn[p] = "open"}
    /\ waited' = FALSE
    /\ UNCHANGED <<peerVars, conn, ws, status, seenVars, dead, retried>>

\* Mutant: the loop only sends.
LoopSkipsCheck ==
    /\ loop = "sending"
    /\ loop' = "asleep"
    /\ UNCHANGED <<peerVars, connVars, status, seenVars, delta, dead, waited, retried>>

\* The sends are done; list(self._last_seen.items()) freezes the items.
LoopChecks ==
    /\ loop = "sending"
    /\ dead' = {p \in seen : delta[p] > MaxAge}
    /\ loop' = IF dead' = {} THEN "asleep" ELSE "checking"
    /\ UNCHANGED <<peerVars, connVars, status, seenVars, delta, waited, retried>>

\* _handle_node_offline: only an online node is marked and disconnected, and
\* the loop is suspended while the websocket closes.
HandleNodeOffline(p) ==
    /\ loop = "checking"
    /\ p \in dead
    /\ dead' = dead \ {p}
    /\ IF status[p] = "online"
       THEN /\ status' = [status EXCEPT ![p] = "offline"]
            /\ ws' = ws \ {p}
            /\ conn' = IF p \in ws /\ conn[p] # "none" THEN [conn EXCEPT ![p] = "closed"] ELSE conn
       ELSE UNCHANGED <<status, ws, conn>>
    /\ LET closes == status[p] = "online" /\ p \in ws
       IN  /\ waited' = (waited \/ closes)
           /\ loop' = IF closes THEN "closing" ELSE IF dead' = {} THEN "asleep" ELSE "checking"
    /\ UNCHANGED <<peerVars, pongs, seenVars, delta, retried>>

CloseReturns ==
    /\ loop = "closing"
    /\ loop' = IF dead = {} THEN "asleep" ELSE "checking"
    /\ UNCHANGED <<peerVars, connVars, status, seenVars, delta, dead, waited, retried>>

\* _reconnect_loop calls _connect_to_peer(peer_id, peer_config), without the
\* port that it requires: the TypeError is caught, and nothing is connected.
Reconnect(p) ==
    /\ Interruptible
    /\ p \notin ws
    /\ status[p] # "online"
    /\ retried' = retried \cup {p}
    /\ UNCHANGED <<peerVars, connVars, status, seenVars, loopVars>>

-----------------------------------------------------------------------------
(* The environment.                                                        *)

\* Ages beyond the timeout are all alike.
Tick ==
    /\ Interruptible
    /\ age' = [p \in Peers |-> IF p \in seen /\ age[p] <= MaxAge THEN age[p] + 1 ELSE age[p]]
    /\ UNCHANGED <<peerVars, connVars, status, seen, loopVars, retried>>

\* The peer's own heartbeat loop sends on the connection it opened.
PeerSends(p) ==
    /\ Interruptible
    /\ p \in inbound
    /\ inbox' = inbox \cup {p}
    /\ UNCHANGED <<alive, inbound, connVars, status, seenVars, loopVars, retried>>

\* The peer's process ends, or runs again and connects to the nodes it is
\* configured with.
Dies(p) ==
    /\ Interruptible
    /\ p \in alive
    /\ alive' = alive \ {p} /\ inbound' = inbound \ {p}
    /\ conn' = [conn EXCEPT ![p] = IF @ = "open" THEN "half" ELSE @]
    /\ UNCHANGED <<inbox, pongs, ws, status, seenVars, loopVars, retried>>

Restarts(p) ==
    /\ Interruptible
    /\ p \notin alive
    /\ alive' = alive \cup {p}
    /\ inbound' = inbound \cup ({p} \cap Mutual)
    /\ UNCHANGED <<inbox, connVars, status, seenVars, loopVars, retried>>

\* This node's websocket is lost: the network fails, or the keepalive of the
\* websockets library notices that the peer is gone.
ConnectionLost(p) ==
    /\ Interruptible
    /\ conn[p] \in {"open", "half"}
    /\ conn' = [conn EXCEPT ![p] = "closed"]
    /\ UNCHANGED <<peerVars, pongs, ws, status, seenVars, loopVars, retried>>

\* route_with_failover gave up on the peer (router.py:74).
RouterMarksOffline(p) ==
    /\ Interruptible
    /\ status[p] = "online"
    /\ status' = [status EXCEPT ![p] = "offline"]
    /\ UNCHANGED <<peerVars, connVars, seenVars, loopVars, retried>>

CheckerNext ==
    \/ LoopWakes \/ LoopChecks \/ CloseReturns \/ Tick
    \/ \E p \in Peers :
        \/ ServerReceives(p) \/ ListenerReceives(p) \/ ListenerEnds(p)
        \/ HandleNodeOffline(p) \/ Reconnect(p)
        \/ PeerSends(p) \/ Dies(p) \/ Restarts(p) \/ ConnectionLost(p) \/ RouterMarksOffline(p)

\* The event loop runs both periodic tasks and every listener, time passes,
\* a running peer sends, and a half-open socket is found lost.  Strong
\* fairness is for the steps the check of the dead nodes holds up: it runs in
\* one turn of the event loop, so what is ready before it is ready after it.
Fairness ==
    /\ WF_checkerVars(LoopWakes) /\ WF_checkerVars(LoopChecks) /\ WF_checkerVars(CloseReturns) /\ SF_checkerVars(Tick)
    /\ \A p \in Peers :
        /\ SF_checkerVars(ServerReceives(p)) /\ SF_checkerVars(ListenerReceives(p)) /\ SF_checkerVars(ListenerEnds(p))
        /\ WF_checkerVars(HandleNodeOffline(p)) /\ SF_checkerVars(Reconnect(p)) /\ SF_checkerVars(PeerSends(p))
        /\ SF_checkerVars(conn[p] = "half" /\ ConnectionLost(p))

CheckerSpec == CheckerInit /\ [][CheckerNext]_checkerVars
FairSpec == CheckerSpec /\ Fairness

-----------------------------------------------------------------------------
(* Properties.                                                             *)

\* The heartbeat loop takes a peer offline only when its last heartbeat is
\* older than the timeout, except in a pass that has already suspended to
\* close another connection: until then what the loop read is still true,
\* although it took the time before it sent its heartbeats (health.py:62-80).
TimeoutIsCurrent ==
    [][\A p \in Peers :
        status[p] = "online" /\ status'[p] = "offline" /\ loop = "checking" =>
            age[p] > MaxAge \/ waited]_checkerVars

\* A peer that is gone for good ends up not online and stays so, also when
\* its buffered heartbeats are read after its connection was lost and put it
\* back online (health.py:76-80, bridge.py:265-267).
DeadIsDetected ==
    \A p \in Peers : <>[](p \notin alive) => <>[](status[p] # "online")

\* A known peer that keeps a connection to this node is online again and
\* again, whatever took it offline (health.py:50-58).
AliveIsRestored ==
    \A p \in Peers :
        <>[](p \in inbound /\ status[p] # "unknown") => []<>(status[p] = "online")

\* health.py:24: "Auto-reconnect when nodes come back online".  A peer that
\* is up for good should at some time be connected.
Reconnects ==
    \A p \in Peers : <>[](p \in alive) => []<>(p \in ws)

=============================================================================
