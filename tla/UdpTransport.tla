---------------------------- MODULE UdpTransport ----------------------------
(***************************************************************************)
(* evoid-transport: the Python UDP server (UDPServer), its acknowledgement *)
(* tracker (ACKTracker) and the port that publishes received intents on    *)
(* the message bus (EvoidUDPPort).  The network duplicates, reorders and   *)
(* loses datagrams, and truncates them at the 4096 bytes of one recvfrom.  *)
(*                                                                         *)
(* Sequence numbers are taken modulo Modulus (2^32 in the code) and the    *)
(* header carries HeaderBits bits of the bitfield (32 in the code), here   *)
(* the set of the positions of its 1 bits.  The tracker's own bitfield is  *)
(* a Python integer that grows with every shift; its only reader is the    *)
(* header, so the bits above HeaderBits are left out of the state.         *)
(***************************************************************************)
EXTENDS Integers, Sequences, FiniteSets

CONSTANTS
    Addrs,        \* client addresses
    Modulus,      \* sequence numbers wrap here
    HeaderBits,   \* width of the bitfield on the wire
    MaxDelay,     \* bound: a datagram arrives before this many later ones were sent
    MaxSent,      \* bound: datagrams each address sends
    MaxIds,       \* bound: registrations
    MaxTasks,     \* bound: received intents not yet published
    Permits       \* _publish_semaphore (50 in the code)

\* Half the sequence space: 0x7FFFFFFF.  Within MaxDelay a late datagram is never
\* taken for a new one.
Half == Modulus \div 2 - 1

ASSUME TransportAssumption ==
    /\ Modulus \in Nat /\ Modulus >= 6 /\ Modulus % 2 = 0
    /\ HeaderBits \in 1 .. Modulus /\ MaxDelay \in 1 .. Half
    /\ Permits \in Nat \ {0} /\ MaxSent \in [Addrs -> Nat]

VARIABLES
    up,         \* running, with a bound socket
    clients,    \* clients: address -> {client_id, tracker}, or NoClient
    nextId,     \* next_client_id
    waiting,    \* publish tasks before the semaphore, oldest first
    publishing, \* publish tasks awaiting publish()
    sent,       \* environment: how many datagrams each address has sent
    high,       \* history: unwrapped number of the tracker's remote_sequence, -1: none
    received,   \* history: unwrapped numbers received in this registration, as far
                \* back as a header reaches
    owner       \* history: the address each client id was given to

vars == <<up, clients, nextId, waiting, publishing, sent, high, received, owner>>

NoClient == [id |-> 0]
Unknown == 0             \* player_id "unknown"; client ids start at 2

\* A new ACKTracker and the id it is stored with.
NewClient(id) == [id |-> id, local |-> 0, remote |-> 0, bits |-> {}]
Known(a) == clients[a] # NoClient

-----------------------------------------------------------------------------
\* ACKTracker.next_sequence and the header stamped with it: it changes
\* local_sequence alone.
NextSequence(c) == [c EXCEPT !.local = (@ + 1) % Modulus]

\* build_header: what of a bitfield goes on the wire.
OnWire(bits) == {k \in bits : k < HeaderBits}

Delta(c, seq) == (seq - c.remote) % Modulus

\* Mutant: no window, any number but the last is taken for a new one.
AcceptsAnyOther(c, seq) == Delta(c, seq) # 0

\* ACKTracker.update_remote: a late or repeated number leaves no mark.
Accepts(c, seq) == Delta(c, seq) \in 1 .. Half

\* Mutant: the bitfield is shifted by one, whatever was lost in between.
UpdateRemoteByOne(c, seq) ==
    IF Accepts(c, seq)
    THEN [c EXCEPT !.bits = OnWire({k + 1 : k \in @} \cup {0}), !.remote = seq]
    ELSE c

UpdateRemote(c, seq) ==
    IF Accepts(c, seq)
    THEN [c EXCEPT !.bits = OnWire({k + Delta(c, seq) : k \in @} \cup {0}),
                   !.remote = seq]
    ELSE c

-----------------------------------------------------------------------------
Init ==
    /\ up = FALSE
    /\ clients = [a \in Addrs |-> NoClient]
    /\ nextId = 2
    /\ waiting = <<>> /\ publishing = {}
    /\ sent = [a \in Addrs |-> 0]
    /\ high = [a \in Addrs |-> -1]
    /\ received = [a \in Addrs |-> {}]
    /\ owner = <<>>

\* start and stop: the clients and the publish tasks survive both.
Start ==
    /\ ~up /\ up' = TRUE
    /\ UNCHANGED <<clients, nextId, waiting, publishing, sent, high, received, owner>>

Stop ==
    /\ up /\ up' = FALSE
    /\ UNCHANGED <<clients, nextId, waiting, publishing, sent, high, received, owner>>

\* Mutant: ids are given out by the number of clients.
RegisterClientByCount(a) ==
    /\ nextId < MaxIds + 2
    /\ LET id == Cardinality({b \in Addrs : Known(b)}) + 2
       IN  clients' = [clients EXCEPT ![a] = NewClient(id)]
    /\ nextId' = nextId + 1
    /\ owner' = Append(owner, a)
    /\ high' = [high EXCEPT ![a] = -1]
    /\ received' = [received EXCEPT ![a] = {}]
    /\ UNCHANGED <<up, waiting, publishing, sent>>

\* register_client: a new id and a new tracker, for a known address too.
RegisterClient(a) ==
    /\ nextId < MaxIds + 2
    /\ clients' = [clients EXCEPT ![a] = NewClient(nextId)]
    /\ nextId' = nextId + 1
    /\ owner' = Append(owner, a)
    /\ high' = [high EXCEPT ![a] = -1]
    /\ received' = [received EXCEPT ![a] = {}]
    /\ UNCHANGED <<up, waiting, publishing, sent>>

\* remove_client
RemoveClient(a) ==
    /\ Known(a)
    /\ clients' = [clients EXCEPT ![a] = NoClient]
    /\ UNCHANGED <<up, nextId, waiting, publishing, sent, high, received, owner>>

\* The peer at a sends its next datagram.  It does not run half the sequence
\* space ahead of what the server last accepted.
Send(a) ==
    /\ sent[a] < MaxSent[a]
    /\ high[a] # -1 => sent[a] - high[a] <= Half
    /\ sent' = [sent EXCEPT ![a] = @ + 1]
    /\ UNCHANGED <<up, clients, nextId, waiting, publishing, high, received, owner>>

\* Datagrams the network may still deliver: any of the last MaxDelay, in any
\* order, again and again.
InFlight(a) == {s \in 0 .. sent[a] - 1 : s >= sent[a] - MaxDelay}

\* _handle_packet of a datagram whose header parses: the tracker of a known
\* client is updated first, whatever the rest of the datagram is.
Track(a, s) ==
    /\ IF Known(a)
       THEN /\ high' = IF Accepts(clients[a], s % Modulus) THEN [high EXCEPT ![a] = s]
                       ELSE high
            /\ received' = [received EXCEPT ![a] =
                    {r \in @ \cup {s} : r > high'[a] - HeaderBits}]
       ELSE UNCHANGED <<received, high>>
    /\ UNCHANGED <<up, nextId, publishing, sent, owner>>

\* _handle_packet of an intent: _handle_udp_intent makes a task for it, from a
\* known address or not.
ReceiveIntent(a) ==
    /\ up /\ Len(waiting) < MaxTasks
    /\ \E s \in InFlight(a) :
        /\ Track(a, s)
        /\ clients' = IF Known(a)
                      THEN [clients EXCEPT ![a] = UpdateRemote(@, s % Modulus)]
                      ELSE clients
    /\ waiting' = Append(waiting, [addr |-> a, sender |-> clients[a].id])

\* _handle_packet of a ping, or of an intent the 4096 bytes cut short (answered
\* by nothing).  A pong is stamped after the tracker was updated.
ReceivePing(a) ==
    /\ up /\ Known(a)
    /\ \E s \in InFlight(a), whole \in BOOLEAN :
        /\ Track(a, s)
        /\ clients' = [clients EXCEPT ![a] =
                LET c == UpdateRemote(@, s % Modulus)
                IN  IF whole THEN NextSequence(c) ELSE c]
    /\ UNCHANGED waiting

\* send_intent_to_client and measure_latency: one header is stamped, with or
\* without a socket to send it on.
SendIntentToClient(a) ==
    /\ Known(a)
    /\ clients' = [clients EXCEPT ![a] = NextSequence(@)]
    /\ UNCHANGED <<up, nextId, waiting, publishing, sent, high, received, owner>>

\* broadcast_state_sync: one header for every client.
BroadcastStateSync ==
    /\ up
    /\ clients' = [a \in Addrs |-> IF Known(a) THEN NextSequence(clients[a]) ELSE NoClient]
    /\ UNCHANGED <<up, nextId, waiting, publishing, sent, high, received, owner>>

\* _publish_intent enters the semaphore: the client is looked up only now, not
\* when its datagram was received.
BeginPublish ==
    /\ waiting # <<>> /\ Cardinality(publishing) < Permits
    /\ LET t == Head(waiting)
       IN  \E n \in 1 .. Permits :
            /\ \A p \in publishing : p.slot # n
            /\ publishing' = publishing \cup
                {[slot |-> n, addr |-> t.addr, sender |-> t.sender, player |-> clients[t.addr].id]}
    /\ waiting' = Tail(waiting)
    /\ UNCHANGED <<up, clients, nextId, sent, high, received, owner>>

\* publish() returns or raises: `async with` releases the semaphore either way.
EndPublish ==
    /\ \E p \in publishing : publishing' = publishing \ {p}
    /\ UNCHANGED <<up, clients, nextId, waiting, sent, high, received, owner>>

Next ==
    \/ Start \/ Stop \/ BroadcastStateSync \/ BeginPublish \/ EndPublish
    \/ \E a \in Addrs :
        \/ RegisterClient(a) \/ RemoveClient(a) \/ Send(a)
        \/ ReceiveIntent(a) \/ ReceivePing(a) \/ SendIntentToClient(a)

Spec == Init /\ [][Next]_vars

-----------------------------------------------------------------------------
TypeOK ==
    /\ up \in BOOLEAN
    /\ \A a \in Addrs : Known(a) =>
        /\ clients[a].id \in 2 .. nextId - 1
        /\ clients[a].local \in 0 .. Modulus - 1 /\ clients[a].remote \in 0 .. Modulus - 1
        /\ clients[a].bits \subseteq 0 .. HeaderBits - 1
    /\ Cardinality(publishing) <= Permits
    /\ nextId = Len(owner) + 2

\* The bits the server puts in the headers it sends a client acknowledge only
\* datagrams that it received from that address since the client was registered,
\* through the wrap-around of the sequence numbers and whatever the network
\* repeats, reorders or loses (__init__.py:185-190, :236-243, :296-305).
AcksAreReceived ==
    \A a \in Addrs : Known(a) =>
        \A k \in clients[a].bits : high[a] - k \in received[a]

\* Within one registration the acknowledged number only moves forward: a late or
\* repeated datagram never takes the tracker back, across the wrap-around
\* (__init__.py:185-190).
AckNeverRegresses ==
    [][\A a \in Addrs : clients'[a].id = clients[a].id => high'[a] >= high[a]]_vars

\* The player an intent is published for is one the sender's address was
\* registered as, and it is the player that sent the datagram unless the address
\* was removed or registered again before the task ran (__init__.py:296-311,
\* :356-386).
PlayerIsSender ==
    \A p \in publishing :
        /\ p.player # Unknown => owner[p.player - 1] = p.addr
        /\ p.player # p.sender => p.player = Unknown \/ p.player > p.sender
=============================================================================
