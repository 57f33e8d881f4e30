---------------------------- MODULE IntentRouter ----------------------------
(***************************************************************************)
(* evoid_cluster/router.py: the router of one node, with the calls it has  *)
(* in progress, the websockets it sends on and the nodes it asks.          *)
(*                                                                         *)
(* The router runs in one asyncio thread: a step is what happens between   *)
(* two suspension points.  The providers of the service a call asks for    *)
(* are listed by resolve_all in the order Providers[c]; ServiceRegistry is *)
(* about the list itself.  A message id is modelled by the attempt it is   *)
(* made for, the pair of a call and a provider: generate_id never repeats  *)
(* one, and a call asks a provider at most once.                           *)
(***************************************************************************)
EXTENDS Naturals, Sequences, FiniteSets

CONSTANTS
    Calls,      \* the calls of route and route_with_failover
    Providers,  \* the node ids listed for the service of each call, in order
    Local       \* the id of this node

Positions(c) == DOMAIN Providers[c]
Nodes == UNION {{Providers[c][i] : i \in Positions(c)} : c \in Calls}
Remotes == Nodes \ {Local}
Attempts == Calls \X Remotes

ASSUME ProvidersAssumption ==
    \A c \in Calls :
        /\ Providers[c] \in Seq(Nodes)
        /\ \A i, j \in Positions(c) : Providers[c][i] = Providers[c][j] => i = j

VARIABLES
    status,    \* the status of each provider in the registry
    link,      \* "up": in _nodes_ws and open; "dying": in _nodes_ws but
               \* closed; "none": not in _nodes_ws
    call,      \* the progress of each call
    pending,   \* the keys of _pending
    future,    \* the future of each attempt
    net,       \* the messages in flight, in both directions
    executed   \* the attempts whose intent a remote node has executed

vars == <<status, link, call, pending, future, net, executed>>

\* Where a call is suspended, or how it ended.
Suspended == {"local", "sending", "waiting"}
Ended == {"returned", "raised", "cancelled"}

\* at: the position of the node being asked, 0 when none; todo: the
\* positions of the nodes still to be tried.
CallState(c) == [pc : {"idle"} \cup Suspended \cup Ended,
                 mode : {"failover", "route"},
                 at : Positions(c) \cup {0},
                 todo : SUBSET Positions(c)]

FutureState == {"none", "open", "value", "error", "cancelled"}

Messages == [type : {"intent", "result", "failure", "error"}, id : Attempts]

TypeOK ==
    /\ status \in [Nodes -> {"online", "offline"}]
    /\ link \in [Remotes -> {"up", "dying", "none"}]
    /\ DOMAIN call = Calls /\ \A c \in Calls : call[c] \in CallState(c)
    /\ pending \in SUBSET Attempts
    /\ future \in [Attempts -> FutureState]
    /\ net \in SUBSET Messages
    /\ executed \in SUBSET Attempts

\* The peers that start() could connect to are registered online, the others
\* are known and offline (an admin registration).
Init ==
    /\ link \in [Remotes -> {"up", "none"}]
    /\ status = [n \in Nodes |-> IF n = Local \/ link[n] = "up" THEN "online" ELSE "offline"]
    /\ call = [c \in Calls |-> [pc |-> "idle", mode |-> "route", at |-> 0, todo |-> {}]]
    /\ pending = {}
    /\ future = [a \in Attempts |-> "none"]
    /\ net = {}
    /\ executed = {}

\* The node a call is asking, and the attempt that makes.
Asked(c) == Providers[c][call[c].at]
Current(c) == <<c, Asked(c)>>
AskingRemote(c) == call[c].pc \in {"sending", "waiting"}

OnlinePositions(c) == {i \in Positions(c) : status[Providers[c][i]] = "online"}
First(S) == CHOOSE i \in S : \A j \in S : i <= j

-----------------------------------------------------------------------------
(* A call.                                                                 *)

\* The loop of route_with_failover reaches its next node: the local one is
\* executed; for a remote one _forward_remote enters the future in _pending
\* before it sends, and send returns at once when the node has no websocket.
\* With no node left the call raises.  kept and settled are _pending and the
\* futures after what the step did to the attempt it leaves.
Proceed(c, mode, todo, kept, settled) ==
    IF todo = {}
    THEN /\ call' = [call EXCEPT ![c] = [@ EXCEPT !.pc = "raised", !.mode = mode, !.todo = {}]]
         /\ pending' = kept
         /\ future' = settled
    ELSE LET i == First(todo)
             n == Providers[c][i]
             Suspend(pc) ==
                call' = [call EXCEPT ![c] = [pc |-> pc, mode |-> mode, at |-> i, todo |-> todo \ {i}]]
         IN  IF n = Local
             THEN Suspend("local") /\ pending' = kept /\ future' = settled
             ELSE /\ Suspend(IF link[n] = "none" THEN "waiting" ELSE "sending")
                  /\ pending' = kept \cup {<<c, n>>}
                  /\ future' = [settled EXCEPT ![<<c, n>>] = "open"]

\* route_with_failover takes the list of healthy nodes once, when it starts.
RouteWithFailover(c) ==
    /\ call[c].pc = "idle"
    /\ Proceed(c, "failover", OnlinePositions(c), pending, future)
    /\ UNCHANGED <<status, link, net, executed>>

\* Mutant: route goes on to the next healthy node as well.
RouteTriesAll(c) ==
    /\ call[c].pc = "idle"
    /\ Proceed(c, "route", OnlinePositions(c), pending, future)
    /\ UNCHANGED <<status, link, net, executed>>

\* route asks one healthy node (the one the round robin is at), or raises.
Route(c) ==
    /\ call[c].pc = "idle"
    /\ \E pick \in IF OnlinePositions(c) = {} THEN {{}} ELSE {{i} : i \in OnlinePositions(c)} :
            Proceed(c, "route", pick, pending, future)
    /\ UNCHANGED <<status, link, net, executed>>

\* The call has its result.
Return(c) == call' = [call EXCEPT ![c].pc = "returned"]

\* The attempt at a remote node failed with an exception: failover marks the
\* node offline and goes on, route lets the exception through.
AttemptFails(c, kept, settled) ==
    /\ status' = IF call[c].mode = "failover" THEN [status EXCEPT ![Asked(c)] = "offline"]
                                              ELSE status
    /\ Proceed(c, call[c].mode, call[c].todo, kept, settled)

\* _execute_local returns or raises; a local failure marks nothing offline.
LocalReturns(c) ==
    /\ call[c].pc = "local"
    /\ Return(c)
    /\ UNCHANGED <<status, link, pending, future, net, executed>>

LocalRaises(c) ==
    /\ call[c].pc = "local"
    /\ Proceed(c, call[c].mode, call[c].todo, pending, future)
    /\ UNCHANGED <<status, link, net, executed>>

\* "await self._send(...)" completes, and the call waits for its future.
SendCompletes(c) ==
    /\ call[c].pc = "sending"
    /\ link[Asked(c)] = "up"
    /\ call' = [call EXCEPT ![c].pc = "waiting"]
    /\ net' = net \cup {[type |-> "intent", id |-> Current(c)]}
    /\ UNCHANGED <<status, link, pending, future, executed>>

\* The websocket is closed: send raises ConnectionClosed, which is not the
\* TimeoutError _forward_remote handles, so the entry stays in _pending.
SendRaises(c) ==
    /\ call[c].pc = "sending"
    /\ link[Asked(c)] # "up"
    /\ AttemptFails(c, pending, future)
    /\ UNCHANGED <<link, net, executed>>

\* The future is done and the call resumes.
ResumeWithValue(c) ==
    /\ call[c].pc = "waiting"
    /\ future[Current(c)] = "value"
    /\ Return(c)
    /\ UNCHANGED <<status, link, pending, future, net, executed>>

ResumeWithError(c) ==
    /\ call[c].pc = "waiting"
    /\ future[Current(c)] = "error"
    /\ AttemptFails(c, pending, future)
    /\ UNCHANGED <<link, net, executed>>

\* Mutant: a timeout drops everything that waits for the node.
TimeoutDropsNode(c) ==
    /\ call[c].pc = "waiting"
    /\ AttemptFails(c, {a \in pending : a[2] # Asked(c)},
                    [future EXCEPT ![Current(c)] = IF @ = "open" THEN "cancelled" ELSE @])
    /\ UNCHANGED <<link, net, executed>>

\* Mutant: a timeout leaves the entry in _pending.
TimeoutKeepsEntry(c) ==
    /\ call[c].pc = "waiting"
    /\ AttemptFails(c, pending,
                    [future EXCEPT ![Current(c)] = IF @ = "open" THEN "cancelled" ELSE @])
    /\ UNCHANGED <<link, net, executed>>

\* Mutant: the wait has no timeout.
TimeoutNever(c) == FALSE /\ UNCHANGED vars

\* wait_for times out and the entry is popped.  The timer may also fire
\* between the answer and the resumption of the call: asyncio (3.12, the
\* version the package requires) then cancels the task, and the answer is
\* dropped.
Timeout(c) ==
    /\ call[c].pc = "waiting"
    /\ AttemptFails(c, pending \ {Current(c)},
                    [future EXCEPT ![Current(c)] = IF @ = "open" THEN "cancelled" ELSE @])
    /\ UNCHANGED <<link, net, executed>>

\* The task of the caller is cancelled: CancelledError passes every handler
\* of the router, so the entry stays in _pending.
Cancel(c) ==
    /\ call[c].pc \in Suspended
    /\ call' = [call EXCEPT ![c].pc = "cancelled"]
    /\ future' = IF call[c].pc = "waiting" /\ future[Current(c)] = "open"
                 THEN [future EXCEPT ![Current(c)] = "cancelled"] ELSE future
    /\ UNCHANGED <<status, link, pending, net, executed>>

CallStep(c) ==
    \/ LocalReturns(c) \/ LocalRaises(c)
    \/ SendCompletes(c) \/ SendRaises(c)
    \/ ResumeWithValue(c) \/ ResumeWithError(c) \/ Timeout(c)

-----------------------------------------------------------------------------
(* Messages.                                                               *)

\* The asked node runs _handle_remote_intent: it executes the intent and
\* answers with its result, with an unsuccessful result, with an error when
\* the handler raises, or not at all: its send drops the answer silently when
\* the node has no connection of its own to this one.
RemoteExecutes(m) ==
    /\ m \in net
    /\ m.type = "intent"
    /\ executed' = executed \cup {m.id}
    /\ \E replies \in {{"result"}, {"failure"}, {"error"}, {}} :
            net' = (net \ {m}) \cup {[type |-> t, id |-> m.id] : t \in replies}
    /\ UNCHANGED <<status, link, call, pending, future>>

\* Mutant: an answer settles whatever the call is waiting for now.
ReplyByCall(m) ==
    /\ m \in net
    /\ m.type # "intent"
    /\ net' = net \ {m}
    /\ pending' = pending \ {m.id}
    /\ LET c == m.id[1]
       IN  future' = IF AskingRemote(c) /\ future[Current(c)] = "open"
                     THEN [future EXCEPT ![Current(c)] =
                              IF m.type = "result" THEN "value" ELSE "error"]
                     ELSE future
    /\ UNCHANGED <<status, link, call, executed>>

\* _handle_remote_result and _handle_remote_error pop the entry and settle
\* the future unless it is done; an answer without an entry is ignored.
HandleReply(m) ==
    /\ m \in net
    /\ m.type # "intent"
    /\ net' = net \ {m}
    /\ pending' = pending \ {m.id}
    /\ future' = IF m.id \in pending /\ future[m.id] = "open"
                 THEN [future EXCEPT ![m.id] = IF m.type = "result" THEN "value" ELSE "error"]
                 ELSE future
    /\ UNCHANGED <<status, link, call, executed>>

\* A connection breaks with the message in its buffers.
Lose(m) ==
    /\ m \in net
    /\ net' = net \ {m}
    /\ UNCHANGED <<status, link, call, pending, future, executed>>

-----------------------------------------------------------------------------
(* The bridge around the router.                                           *)

LinkBreaks(n) ==
    /\ link[n] = "up"
    /\ link' = [link EXCEPT ![n] = "dying"]
    /\ UNCHANGED <<status, call, pending, future, net, executed>>

\* The listener's finally clause: _nodes_ws.pop and mark_node_offline.
ListenerEnds(n) ==
    /\ link[n] = "dying"
    /\ link' = [link EXCEPT ![n] = "none"]
    /\ status' = [status EXCEPT ![n] = "offline"]
    /\ UNCHANGED <<call, pending, future, net, executed>>

\* A heartbeat of n arrives, on the connection n opened: n is online again,
\* whether or not this node has a websocket to it.
HeartbeatArrives(n) ==
    /\ status[n] = "offline"
    /\ status' = [status EXCEPT ![n] = "online"]
    /\ UNCHANGED <<link, call, pending, future, net, executed>>

Next ==
    \/ \E c \in Calls : RouteWithFailover(c) \/ Route(c) \/ CallStep(c) \/ Cancel(c)
    \/ \E m \in net : RemoteExecutes(m) \/ HandleReply(m) \/ Lose(m)
    \/ \E n \in Remotes : LinkBreaks(n) \/ ListenerEnds(n) \/ HeartbeatArrives(n)

\* The event loop runs every call that can go on: timers fire, futures that
\* are done resume their task, a local execution and a write to a socket end.
Fairness == \A c \in Calls : WF_vars(CallStep(c))

Spec == Init /\ [][Next]_vars
FairSpec == Spec /\ Fairness

-----------------------------------------------------------------------------
(* Properties.                                                             *)

\* A call that returns from a remote node returns the answer of the node it
\* was asking, which has executed the intent for this very attempt: the late
\* answer of a node given up before never settles a later attempt
\* (router.py:98, :104, :155).
OwnAnswer ==
    \A c \in Calls :
        call[c].pc = "returned" /\ Asked(c) # Local =>
            Current(c) \in executed /\ future[Current(c)] = "value"

\* A call that waits with an open future can still be answered: its entry is
\* in _pending, whatever other calls, late answers and timeouts did
\* (router.py:98).
WaiterIsReachable ==
    \A c \in Calls :
        AskingRemote(c) /\ future[Current(c)] = "open" => Current(c) \in pending

\* _pending leaks only what its error handling does not cover: an entry
\* belongs to the attempt in progress, or to one whose send raised, or to a
\* call that was cancelled; never to one that timed out or was answered
\* (router.py:100-105).
LeaksAreSendFailures ==
    \A a \in pending :
        \/ AskingRemote(a[1]) /\ Current(a[1]) = a
        \/ future[a] = "open"
        \/ call[a[1]].pc = "cancelled"

\* An intent runs at two remote nodes only under failover, and only after the
\* call gave the first of them up: route never repeats an intent, and no call
\* has two attempts alive (router.py:53-76).
RetriedOnlyByFailover ==
    \A c \in Calls : \A i, j \in Positions(c) :
        i < j /\ {<<c, Providers[c][i]>>, <<c, Providers[c][j]>>} \subseteq executed =>
            call[c].mode = "failover" /\ call[c].at > i

\* Every call ends: a lost message, a silent node, a dropped answer or a
\* broken link delays it by its timeouts and no longer (router.py:102).
CallsEnd == \A c \in Calls : call[c].pc \in Suspended ~> call[c].pc \in Ended

=============================================================================
