----------------------------- MODULE GodotProofs -----------------------------
(****************************************************************************)
(* Proofs about what a Godot game talks to.  UdpTransport, for any modulus and*)
(* header width: acknowledgements are true and players are senders.         *)
(* GameHosting, for any builds, sizes and chunk counts: a merged file is the*)
(* whole file of one build whenever its chunks are.  The two are separate   *)
(* specifications; what a theorem is about is the one it names.             *)
(****************************************************************************)
EXTENDS Integers, UdpTransport, GameHosting, FiniteSetTheorems, SequenceTheorems, WellFoundedInduction, TLAPS

-----------------------------------------------------------------------------
(* The UDP transport.                                                      *)

-----------------------------------------------------------------------------
(* Sequence numbers.                                                       *)

\* The half of the sequence space that counts as ahead.
LEMMA HalfFacts ==
    /\ Half \in Nat /\ Half >= 2 /\ Modulus = 2 * Half + 2 /\ Modulus \in Nat
    /\ HeaderBits \in Nat /\ HeaderBits >= 1
    /\ MaxDelay \in Nat /\ 1 <= MaxDelay /\ MaxDelay <= Half
BY TransportAssumption DEF Half

\* Division with remainder.
LEMMA Remainder ==
    ASSUME NEW a \in Int, NEW m \in Nat, m > 0
    PROVE  /\ a % m \in 0..(m - 1)
           /\ a \div m \in Int
           /\ a = m * (a \div m) + (a % m)
OBVIOUS

\* A multiple of the modulus nearer to 0 than the modulus is 0.
LEMMA SmallMultiple ==
    ASSUME NEW k \in Int, -Modulus < Modulus * k, Modulus * k < Modulus
    PROVE  k = 0
<1>1. Modulus \in Nat /\ Modulus > 0
  BY HalfFacts
<1>2. CASE k >= 1
  BY <1>1, <1>2
<1>3. CASE k <= -1
  BY <1>1, <1>3
<1> QED
  BY <1>2, <1>3

\* The window of update_remote: between numbers at most half the sequence
\* space apart, a difference of 1 .. Half modulo the modulus is the true
\* difference, wrapped or not.
LEMMA WindowIsExact ==
    ASSUME NEW s \in Int, NEW h \in Int, s - h <= Half, s - h >= 1 - Half,
           ((s % Modulus) - (h % Modulus)) % Modulus \in 1..Half
    PROVE  ((s % Modulus) - (h % Modulus)) % Modulus = s - h
<1> DEFINE x == s % Modulus
           y == h % Modulus
           p == s \div Modulus
           q == h \div Modulus
           d == x - y
           r == d \div Modulus
           e == d % Modulus
<1>1. Half \in Nat /\ Modulus = 2 * Half + 2 /\ Modulus \in Nat /\ Modulus > 0
  BY HalfFacts
<1>2. x \in 0..(Modulus - 1) /\ p \in Int /\ s = Modulus * p + x
  BY <1>1, Remainder, Zenon
<1>3. y \in 0..(Modulus - 1) /\ q \in Int /\ h = Modulus * q + y
  BY <1>1, Remainder, Zenon
<1>4. d \in Int
  <2> HIDE DEF x, y
  <2> QED
    BY <1>1, <1>2, <1>3
<1>5. r \in Int /\ d = Modulus * r + e
  BY <1>1, <1>4, Remainder, Zenon
<1>6. e \in 1..Half
  BY Zenon
<1>7. d = x - y
  BY Zenon
<1> HIDE DEF e, r, p, q, d, x, y
<1>8. Modulus * (p - q + r) = Modulus * p - Modulus * q + Modulus * r
  BY <1>1, <1>2, <1>3, <1>5
<1>9. Modulus * (p - q + r) = (s - h) - e
  BY <1>1, <1>2, <1>3, <1>5, <1>6, <1>7, <1>8
<1>10. p - q + r \in Int
  BY <1>2, <1>3, <1>5
<1>11. (s - h) - e < Modulus /\ -Modulus < (s - h) - e
  BY <1>1, <1>6
<1>12. p - q + r = 0
  BY <1>9, <1>10, <1>11, SmallMultiple
<1>13. e = s - h
  BY <1>1, <1>6, <1>9, <1>12
<1> QED
  BY <1>13, Zenon DEF e, d, x, y

-----------------------------------------------------------------------------
(* The inductive invariant.                                                *)

\* A stored client, with its tracker.
ClientRecord ==
    [id : Nat, local : 0 .. Modulus - 1, remote : 0 .. Modulus - 1,
     bits : SUBSET (0 .. HeaderBits - 1)]

\* What the tracker of a known client knows is true of the datagrams: its
\* remote_sequence is the number it last accepted and every bit stands for a
\* datagram received.
TrackerOK(c, h, got) ==
    /\ h = -1 => c.bits = {}
    /\ h # -1 => c.remote = h % Modulus
    /\ \A k \in c.bits : h - k \in got

\* The tracker of a client: what it acknowledges was received from its address.
ClientOK(a) == Known(a) =>
    /\ clients[a] \in ClientRecord
    /\ clients[a].id \in 2 .. nextId - 1 /\ owner[clients[a].id - 1] = a
    /\ TrackerOK(clients[a], high[a], received[a])

\* The last accepted number is one that was sent, and the peer is not half
\* the sequence space ahead of it.
WindowOK(a) ==
    high[a] = -1 \/ (high[a] \in Nat /\ high[a] < sent[a] /\ sent[a] - high[a] <= Half + 1)

\* The client of a waiting task's address is the sender of the datagram, none,
\* or a later registration.
TaskOK(t) ==
    /\ t.sender < nextId
    /\ clients[t.addr].id # Unknown => clients[t.addr].id >= t.sender

\* The player a publish task found was registered at the sender's address.
PublishOK(p) ==
    /\ p.player # Unknown => p.player \in 2 .. nextId - 1 /\ owner[p.player - 1] = p.addr
    /\ p.player # p.sender => p.player = Unknown \/ p.player > p.sender

\* A publish task before it looks its client up.
WaitingTask == [addr : Addrs, sender : Nat]

\* The types, without the bounds of the counters.
Shape ==
    /\ up \in BOOLEAN
    /\ DOMAIN clients = Addrs
    /\ owner \in Seq(Addrs) /\ nextId = Len(owner) + 2
    /\ waiting \in Seq(WaitingTask)
    /\ IsFiniteSet(publishing) /\ Cardinality(publishing) <= Permits
    /\ sent \in [Addrs -> Nat] /\ high \in [Addrs -> Int] /\ received \in [Addrs -> SUBSET Int]

\* The inductive invariant of the transport.
IInv ==
    /\ Shape
    /\ \A a \in Addrs : ClientOK(a) /\ WindowOK(a)
    /\ \A i \in DOMAIN waiting : TaskOK(waiting[i])
    /\ \A p \in publishing : PublishOK(p)

\* The server starts without clients and without tasks.
LEMMA InitIInv == Init => IInv
<1> SUFFICES ASSUME Init PROVE IInv
  OBVIOUS
<1>1. IsFiniteSet(publishing) /\ Cardinality(publishing) = 0
  BY FS_EmptySet DEF Init
<1>2. Shape
  <2>1. owner \in Seq(Addrs) /\ Len(owner) = 0 /\ nextId = 2
    BY DEF Init
  <2>2. waiting \in Seq(WaitingTask)
    BY DEF Init
  <2>3. sent \in [Addrs -> Nat] /\ received \in [Addrs -> SUBSET Int]
    BY DEF Init
  <2>4. high \in [Addrs -> Int]
    BY DEF Init
  <2>5. Cardinality(publishing) <= Permits
    BY <1>1, TransportAssumption
  <2>6. up \in BOOLEAN /\ DOMAIN clients = Addrs
    BY DEF Init
  <2> QED
    BY <1>1, <2>1, <2>2, <2>3, <2>4, <2>5, <2>6 DEF Shape
<1>3. \A a \in Addrs : ClientOK(a) /\ WindowOK(a)
  BY DEF Init, ClientOK, Known, WindowOK
<1>4. (\A i \in DOMAIN waiting : TaskOK(waiting[i])) /\ \A p \in publishing : PublishOK(p)
  BY DEF Init
<1> QED
  BY <1>2, <1>3, <1>4 DEF IInv

\* Within InFlight a number is never more than the window away from the last
\* one accepted, so a number that is accepted is a later one.
LEMMA AcceptedIsLater ==
    ASSUME Shape, NEW a \in Addrs, WindowOK(a), NEW s \in InFlight(a),
           high[a] # -1 => clients[a].remote = high[a] % Modulus,
           Accepts(clients[a], s % Modulus), high[a] # -1
    PROVE  Delta(clients[a], s % Modulus) = s - high[a] /\ s > high[a]
<1>1. /\ sent[a] \in Nat /\ high[a] \in Nat /\ high[a] < sent[a] /\ sent[a] - high[a] <= Half + 1
      /\ s \in Nat /\ s < sent[a] /\ s >= sent[a] - MaxDelay
  BY HalfFacts DEF Shape, WindowOK, InFlight
<1>2. s - high[a] <= Half /\ s - high[a] >= 1 - Half
  BY <1>1, HalfFacts
<1>3. Delta(clients[a], s % Modulus) = ((s % Modulus) - (high[a] % Modulus)) % Modulus
  BY DEF Delta
<1>4. ((s % Modulus) - (high[a] % Modulus)) % Modulus \in 1..Half
  BY <1>3, Zenon DEF Accepts
<1>5. s \in Int /\ high[a] \in Int
  BY <1>1
<1>6. ((s % Modulus) - (high[a] % Modulus)) % Modulus = s - high[a]
  BY <1>2, <1>4, <1>5, WindowIsExact
<1>7. s - high[a] \in 1..Half
  BY <1>4, <1>6, Zenon
<1>8. s > high[a]
  BY <1>1, <1>7, HalfFacts
<1> QED
  BY <1>3, <1>6, <1>8, Zenon

\* update_remote of a known client, for any datagram the network delivers:
\* the tracker stays true of what was received, and what it acknowledges does
\* not go back.
LEMMA UpdateRemoteFacts ==
    ASSUME Shape, NEW a \in Addrs, Known(a), ClientOK(a), WindowOK(a), NEW s \in InFlight(a),
           Track(a, s)
    PROVE  LET c == UpdateRemote(clients[a], s % Modulus) IN
           /\ c \in ClientRecord /\ c.id = clients[a].id
           /\ TrackerOK(c, high'[a], received'[a])
           /\ high' \in [Addrs -> Int] /\ received' \in [Addrs -> SUBSET Int]
           /\ high'[a] >= high[a]
           /\ \A b \in Addrs \ {a} : high'[b] = high[b] /\ received'[b] = received[b]
           /\ high'[a] = -1 \/ (high'[a] \in Nat /\ high'[a] < sent[a] /\ sent[a] - high'[a] <= Half + 1)
<1> DEFINE c == clients[a]
           n == s % Modulus
           d == Delta(c, n)
           u == UpdateRemote(c, n)
<1>1. /\ c \in ClientRecord /\ TrackerOK(c, high[a], received[a])
      /\ high \in [Addrs -> Int] /\ received \in [Addrs -> SUBSET Int]
  BY DEF ClientOK, Shape
<1>2. /\ sent[a] \in Nat /\ s \in Nat /\ s < sent[a] /\ s >= sent[a] - MaxDelay
  BY HalfFacts DEF Shape, InFlight
<1>3. n \in 0..(Modulus - 1)
  BY <1>2, HalfFacts, Remainder
<1>4. received' = [received EXCEPT ![a] = {r \in @ \cup {s} : r > high'[a] - HeaderBits}]
  BY DEF Track
<1>5. CASE Accepts(c, n)
  <2>1. high' = [high EXCEPT ![a] = s]
    BY <1>5 DEF Track
  <2>2. u = [c EXCEPT !.bits = OnWire({k + d : k \in c.bits} \cup {0}), !.remote = n]
    BY <1>5 DEF UpdateRemote
  <2>3. high'[a] = s /\ high' \in [Addrs -> Int] /\ \A b \in Addrs \ {a} : high'[b] = high[b]
    BY <1>1, <1>2, <2>1
  <2>4. received'[a] = {r \in received[a] \cup {s} : r > s - HeaderBits}
        /\ received' \in [Addrs -> SUBSET Int] /\ \A b \in Addrs \ {a} : received'[b] = received[b]
    BY <1>1, <1>2, <1>4, <2>3
  <2>5. d \in 1..Half
    BY <1>5, Zenon DEF Accepts
  <2>6. u.id = c.id /\ u.local = c.local /\ u.remote = n
        /\ u.bits = OnWire({k + d : k \in c.bits} \cup {0}) /\ u = [id |-> u.id, local |-> u.local, remote |-> u.remote, bits |-> u.bits]
    <3> HIDE DEF d, n
    <3> QED
      BY <1>1, <2>2 DEF ClientRecord
  <2> HIDE DEF u
  <2>7. \A k \in u.bits : k = 0 \/ \E j \in c.bits : k = j + d /\ k < HeaderBits
    <3> HIDE DEF d
    <3> QED
      BY <2>6 DEF OnWire
  <2>8. c.bits \subseteq 0..(HeaderBits - 1) /\ c.id \in Nat /\ c.local \in 0..(Modulus - 1)
    BY <1>1 DEF ClientRecord
  <2>9. u.bits \subseteq 0..(HeaderBits - 1)
    <3> HIDE DEF d
    <3> QED
      BY <2>5, <2>7, <2>8, HalfFacts
  <2>10. u \in ClientRecord
    <3> HIDE DEF n
    <3> QED
      BY <1>3, <2>6, <2>8, <2>9 DEF ClientRecord
  <2>11. s \in received'[a]
    BY <1>2, <2>4, HalfFacts
  <2>12. high[a] # -1 => d = s - high[a] /\ s > high[a]
    BY <1>1, <1>5, AcceptedIsLater DEF TrackerOK
  <2>13. ASSUME NEW k \in u.bits PROVE s - k \in received'[a]
    <3>1. CASE k = 0
      BY <1>2, <2>11, <3>1
    <3>2. CASE \E j \in c.bits : k = j + d /\ k < HeaderBits
      <4>1. PICK j \in c.bits : k = j + d /\ k < HeaderBits
        BY <3>2
      <4>2. high[a] # -1 /\ high[a] - j \in received[a] /\ d = s - high[a]
        BY <1>1, <2>12, <4>1 DEF TrackerOK
      <4>3. high[a] \in Int /\ j \in Int /\ s \in Int /\ HeaderBits \in Int
        BY <1>1, <1>2, <2>8, HalfFacts
      <4>4. s - k = high[a] - j /\ s - k > s - HeaderBits
        <5> HIDE DEF d
        <5> QED
          BY <4>1, <4>2, <4>3
      <4> QED
        BY <2>4, <4>2, <4>4
    <3> QED
      BY <2>7, <3>1, <3>2
  <2>14. TrackerOK(u, high'[a], received'[a])
    <3>1. s # -1
      BY <1>2
    <3>2. u.remote = s % Modulus
      BY <2>6, Zenon
    <3> QED
      BY <2>3, <2>13, <3>1, <3>2 DEF TrackerOK
  <2>15. s >= high[a]
    BY <1>1, <1>2, <2>12
  <2>16. s < sent[a] /\ sent[a] - s <= Half + 1
    BY <1>2, HalfFacts
  <2> QED
    BY <1>2, <2>3, <2>4, <2>6, <2>10, <2>14, <2>15, <2>16, Zenon DEF u
<1>6. CASE ~Accepts(c, n)
  <2>1. high' = high
    BY <1>6 DEF Track
  <2>2. u = c
    BY <1>6 DEF UpdateRemote
  <2>3. received'[a] = {r \in received[a] \cup {s} : r > high[a] - HeaderBits}
        /\ received' \in [Addrs -> SUBSET Int] /\ \A b \in Addrs \ {a} : received'[b] = received[b]
    BY <1>1, <1>2, <1>4, <2>1
  <2>4. ASSUME NEW k \in c.bits PROVE high[a] - k \in received'[a]
    <3>1. high[a] - k \in received[a] /\ k \in 0..(HeaderBits - 1) /\ high[a] \in Int
      BY <1>1 DEF TrackerOK, ClientRecord
    <3>2. high[a] - k > high[a] - HeaderBits
      BY <3>1, HalfFacts
    <3> QED
      BY <2>3, <3>1, <3>2
  <2>5. TrackerOK(c, high'[a], received'[a])
    BY <1>1, <2>1, <2>4 DEF TrackerOK
  <2>6. high[a] >= high[a]
    BY <1>1
  <2>7. high[a] = -1 \/ (high[a] \in Nat /\ high[a] < sent[a] /\ sent[a] - high[a] <= Half + 1)
    BY DEF WindowOK
  <2> HIDE DEF u, c, n
  <2> QED
    BY <1>1, <2>1, <2>2, <2>3, <2>5, <2>6, <2>7, Zenon DEF u, c, n
<1> QED
  BY <1>5, <1>6

-----------------------------------------------------------------------------
(* The steps.                                                              *)

\* The client an address is stored with: its id is 0 exactly when there is
\* none.
LEMMA IdFacts ==
    ASSUME IInv, NEW a \in Addrs
    PROVE  /\ nextId \in Nat /\ nextId >= 2
           /\ Known(a) => clients[a].id \in Nat /\ clients[a].id >= 2 /\ clients[a].id < nextId
           /\ ~Known(a) => clients[a].id = 0
<1>1. nextId \in Nat /\ nextId >= 2
  BY LenProperties DEF IInv, Shape
<1>2. Known(a) => clients[a].id \in Nat /\ clients[a].id >= 2 /\ clients[a].id < nextId
  BY <1>1 DEF IInv, ClientOK
<1>3. ~Known(a) => clients[a].id = 0
  BY DEF Known, NoClient
<1> QED
  BY <1>1, <1>2, <1>3

\* A received datagram, and the stamping of a header, change the tracker of
\* known clients only.
LEMMA TrackersKeep ==
    ASSUME IInv, UNCHANGED <<nextId, owner, publishing, up, sent>>,
           waiting' \in Seq(WaitingTask),
           \A i \in DOMAIN waiting' : \/ i \in DOMAIN waiting /\ waiting'[i] = waiting[i]
                                      \/ waiting'[i].sender = clients[waiting'[i].addr].id,
           DOMAIN clients' = Addrs,
           high' \in [Addrs -> Int], received' \in [Addrs -> SUBSET Int],
           \A a \in Addrs : WindowOK(a)',
           \A a \in Addrs : \/ ~Known(a) /\ clients'[a] = clients[a]
                            \/ /\ Known(a) /\ clients'[a] \in ClientRecord
                               /\ clients'[a].id = clients[a].id
                               /\ TrackerOK(clients'[a], high'[a], received'[a])
    PROVE  IInv'
<1>1. Shape'
  BY DEF IInv, Shape
<1>2. \A a \in Addrs : clients'[a].id = clients[a].id
  OBVIOUS
<1>3. ASSUME NEW a \in Addrs PROVE ClientOK(a)'
  <2>1. CASE ~Known(a)
    BY <2>1 DEF ClientOK, Known
  <2>2. CASE Known(a)
    BY <1>2, <2>2 DEF ClientOK, IInv
  <2> QED
    BY <2>1, <2>2
<1>4. ASSUME NEW i \in DOMAIN waiting' PROVE TaskOK(waiting[i])'
  <2>1. waiting'[i] \in WaitingTask
    BY ElementOfSeq
  <2>2. waiting'[i].addr \in Addrs /\ waiting'[i].sender \in Nat
    BY <2>1 DEF WaitingTask
  <2>3. CASE i \in DOMAIN waiting /\ waiting'[i] = waiting[i]
    BY <1>2, <2>2, <2>3 DEF TaskOK, IInv
  <2>4. CASE waiting'[i].sender = clients[waiting'[i].addr].id
    BY <1>2, <2>2, <2>4, IdFacts DEF TaskOK, Unknown
  <2> QED
    BY <2>3, <2>4
<1>5. \A p \in publishing' : PublishOK(p)'
  BY DEF IInv, PublishOK
<1> QED
  BY <1>1, <1>3, <1>4, <1>5 DEF IInv

\* next_sequence changes the local number alone.
LEMMA NextSequenceFacts ==
    ASSUME NEW c \in ClientRecord, NEW h, NEW got, TrackerOK(c, h, got)
    PROVE  /\ NextSequence(c) \in ClientRecord /\ NextSequence(c).id = c.id
           /\ TrackerOK(NextSequence(c), h, got)
<1> DEFINE l == (c.local + 1) % Modulus
<1>1. l \in 0..(Modulus - 1)
  <2>1. c.local + 1 \in Int
    BY HalfFacts DEF ClientRecord
  <2> QED
    BY <2>1, HalfFacts, Remainder
<1>2. NextSequence(c) = [c EXCEPT !.local = l]
  BY DEF NextSequence
<1> HIDE DEF l
<1>3. /\ NextSequence(c) \in ClientRecord /\ NextSequence(c).id = c.id
      /\ NextSequence(c).remote = c.remote /\ NextSequence(c).bits = c.bits
  BY <1>1, <1>2 DEF ClientRecord
<1> QED
  BY <1>3 DEF TrackerOK

\* The entries of a list of tasks.
LEMMA TaskTypes ==
    ASSUME IInv, NEW i \in DOMAIN waiting
    PROVE  waiting[i].addr \in Addrs /\ waiting[i].sender \in Nat
<1>1. waiting[i] \in WaitingTask
  BY ElementOfSeq DEF IInv, Shape
<1> QED
  BY <1>1 DEF WaitingTask

\* register_client gives out a new id, larger than every one before.
LEMMA RegisterClientKeeps ==
    ASSUME IInv, NEW a \in Addrs, RegisterClient(a)
    PROVE  IInv'
<1>1. /\ clients' = [clients EXCEPT ![a] = NewClient(nextId)] /\ nextId' = nextId + 1
      /\ owner' = Append(owner, a) /\ high' = [high EXCEPT ![a] = -1]
      /\ received' = [received EXCEPT ![a] = {}]
      /\ UNCHANGED <<up, waiting, publishing, sent>> /\ Shape
  BY DEF RegisterClient, IInv
<1>2. /\ owner \in Seq(Addrs) /\ Len(owner) \in Nat /\ nextId = Len(owner) + 2 /\ DOMAIN owner = 1..Len(owner)
      /\ nextId \in Nat
  BY <1>1 DEF Shape
<1>3. /\ owner' \in Seq(Addrs) /\ Len(owner') = Len(owner) + 1 /\ nextId' = Len(owner') + 2
      /\ \A i \in 1..Len(owner) : owner'[i] = owner[i]
      /\ owner'[Len(owner) + 1] = a
  BY <1>1, <1>2
<1>4. /\ DOMAIN clients' = Addrs /\ \A b \in Addrs \ {a} : clients'[b] = clients[b]
      /\ clients'[a] = NewClient(nextId)
  BY <1>1 DEF Shape
<1>5. NewClient(nextId) \in ClientRecord /\ NewClient(nextId).id = nextId /\ NewClient(nextId).bits = {}
  BY <1>2, HalfFacts DEF NewClient, ClientRecord
<1>6. /\ high' \in [Addrs -> Int] /\ received' \in [Addrs -> SUBSET Int] /\ high'[a] = -1
      /\ \A b \in Addrs \ {a} : high'[b] = high[b] /\ received'[b] = received[b]
  BY <1>1 DEF Shape
<1>7. Shape'
  BY <1>1, <1>3, <1>4, <1>6 DEF Shape
<1>8. ASSUME NEW b \in Addrs PROVE ClientOK(b)' /\ WindowOK(b)'
  <2>1. CASE b = a
    <3>1. clients'[b].id \in 2..(nextId' - 1) /\ clients'[b].id - 1 = Len(owner) + 1
      BY <1>1, <1>2, <1>4, <1>5, <2>1
    <3>2. TrackerOK(clients'[b], high'[b], received'[b])
      BY <1>4, <1>5, <1>6, <2>1 DEF TrackerOK
    <3> QED
      BY <1>3, <1>4, <1>5, <1>6, <2>1, <3>1, <3>2 DEF ClientOK, WindowOK
  <2>2. CASE b # a
    <3>1. Known(b)' <=> Known(b)
      BY <1>4, <2>2 DEF Known
    <3>2. /\ ClientOK(b) /\ WindowOK(b) /\ clients'[b] = clients[b] /\ high'[b] = high[b]
          /\ received'[b] = received[b] /\ sent'[b] = sent[b]
      BY <1>1, <1>4, <1>6, <2>2 DEF IInv
    <3>3. ASSUME Known(b)
          PROVE  clients[b].id \in 2..(nextId' - 1) /\ owner'[clients[b].id - 1] = b
      BY <1>1, <1>2, <1>3, <3>2, <3>3 DEF ClientOK
    <3>4. ClientOK(b)'
      BY <3>1, <3>2, <3>3 DEF ClientOK
    <3> QED
      BY <3>2, <3>4 DEF WindowOK
  <2> QED
    BY <2>1, <2>2
<1>9. ASSUME NEW i \in DOMAIN waiting' PROVE TaskOK(waiting[i])'
  <2>1. /\ i \in DOMAIN waiting /\ waiting' = waiting /\ TaskOK(waiting[i])
        /\ waiting[i].addr \in Addrs /\ waiting[i].sender \in Nat
    BY <1>1, TaskTypes DEF IInv
  <2>2. CASE waiting[i].addr = a
    BY <1>1, <1>2, <1>4, <1>5, <2>1, <2>2 DEF TaskOK
  <2>3. CASE waiting[i].addr # a
    BY <1>1, <1>2, <1>4, <2>1, <2>3 DEF TaskOK
  <2> QED
    BY <2>2, <2>3
<1>10. ASSUME NEW p \in publishing' PROVE PublishOK(p)'
  <2>1. PublishOK(p)
    BY <1>1 DEF IInv
  <2>2. p.player \in 2..(nextId - 1) => p.player \in 2..(nextId' - 1) /\ owner'[p.player - 1] = owner[p.player - 1]
    BY <1>1, <1>2, <1>3
  <2> QED
    BY <2>1, <2>2 DEF PublishOK
<1> QED
  BY <1>7, <1>8, <1>9, <1>10 DEF IInv

\* remove_client.
LEMMA RemoveClientKeeps ==
    ASSUME IInv, NEW a \in Addrs, RemoveClient(a)
    PROVE  IInv'
<1>1. /\ clients' = [clients EXCEPT ![a] = NoClient] /\ Shape
      /\ UNCHANGED <<up, nextId, waiting, publishing, sent, high, received, owner>>
  BY DEF RemoveClient, IInv
<1>2. /\ DOMAIN clients' = Addrs /\ \A b \in Addrs \ {a} : clients'[b] = clients[b]
      /\ clients'[a] = NoClient /\ NoClient.id = Unknown
  BY <1>1 DEF Shape, NoClient, Unknown
<1>3. Shape'
  BY <1>1, <1>2 DEF Shape
<1>4. ASSUME NEW b \in Addrs PROVE ClientOK(b)' /\ WindowOK(b)'
  BY <1>1, <1>2 DEF IInv, ClientOK, WindowOK, Known
<1>5. ASSUME NEW i \in DOMAIN waiting' PROVE TaskOK(waiting[i])'
  <2>1. /\ i \in DOMAIN waiting /\ waiting' = waiting /\ TaskOK(waiting[i])
        /\ waiting[i].addr \in Addrs
    BY <1>1, TaskTypes DEF IInv
  <2> QED
    BY <1>1, <1>2, <2>1 DEF TaskOK
<1>6. \A p \in publishing' : PublishOK(p)'
  BY <1>1 DEF IInv, PublishOK
<1> QED
  BY <1>3, <1>4, <1>5, <1>6 DEF IInv

\* The peer sends its next datagram, less than half the sequence space ahead.
LEMMA SendKeeps ==
    ASSUME IInv, NEW a \in Addrs, Send(a)
    PROVE  IInv'
<1>1. /\ sent' = [sent EXCEPT ![a] = @ + 1] /\ (high[a] # -1 => sent[a] - high[a] <= Half)
      /\ UNCHANGED <<up, clients, nextId, waiting, publishing, high, received, owner>> /\ Shape
  BY DEF Send, IInv
<1>2. sent' \in [Addrs -> Nat] /\ sent'[a] = sent[a] + 1 /\ \A b \in Addrs \ {a} : sent'[b] = sent[b]
  BY <1>1 DEF Shape
<1>3. Shape'
  BY <1>1, <1>2 DEF Shape
<1>4. ASSUME NEW b \in Addrs PROVE WindowOK(b)'
  <2>1. WindowOK(b) /\ high[b] \in Int /\ sent[b] \in Nat
    BY <1>1 DEF IInv, Shape
  <2>2. CASE b = a
    BY <1>1, <1>2, <2>1, <2>2, HalfFacts DEF WindowOK
  <2>3. CASE b # a
    BY <1>1, <1>2, <2>1, <2>3 DEF WindowOK
  <2> QED
    BY <2>2, <2>3
<1>5. \A b \in Addrs : ClientOK(b)'
  BY <1>1 DEF IInv, ClientOK, Known
<1>6. \A i \in DOMAIN waiting' : TaskOK(waiting[i])'
  BY <1>1 DEF IInv, TaskOK
<1>7. \A p \in publishing' : PublishOK(p)'
  BY <1>1 DEF IInv, PublishOK
<1> QED
  BY <1>3, <1>4, <1>5, <1>6, <1>7 DEF IInv

\* A datagram arrives: the tracker of a known client is updated, a client that
\* is not known is none the wiser.
LEMMA TrackFacts ==
    ASSUME IInv, NEW a \in Addrs, NEW s \in InFlight(a), Track(a, s)
    PROVE  /\ high' \in [Addrs -> Int] /\ received' \in [Addrs -> SUBSET Int]
           /\ \A b \in Addrs : b # a \/ ~Known(a) => high'[b] = high[b] /\ received'[b] = received[b]
           /\ UNCHANGED <<up, nextId, publishing, sent, owner>>
           /\ \A b \in Addrs : WindowOK(b)'
           /\ \A b \in Addrs : high'[b] >= high[b]
           /\ Known(a) => LET c == UpdateRemote(clients[a], s % Modulus) IN
                /\ c \in ClientRecord /\ c.id = clients[a].id
                /\ TrackerOK(c, high'[a], received'[a])
<1>1. Shape /\ ClientOK(a) /\ (\A b \in Addrs : WindowOK(b))
      /\ high \in [Addrs -> Int] /\ received \in [Addrs -> SUBSET Int]
  BY DEF IInv, Shape
<1>2. UNCHANGED <<up, nextId, publishing, sent, owner>>
  BY DEF Track
<1>3. CASE Known(a)
  <2> DEFINE c == UpdateRemote(clients[a], s % Modulus)
  <2>1. /\ c \in ClientRecord /\ c.id = clients[a].id
        /\ TrackerOK(c, high'[a], received'[a])
        /\ high' \in [Addrs -> Int] /\ received' \in [Addrs -> SUBSET Int]
        /\ high'[a] >= high[a]
        /\ \A b \in Addrs \ {a} : high'[b] = high[b] /\ received'[b] = received[b]
        /\ high'[a] = -1 \/ (high'[a] \in Nat /\ high'[a] < sent[a] /\ sent[a] - high'[a] <= Half + 1)
    BY <1>1, <1>3, UpdateRemoteFacts, Zenon
  <2> HIDE DEF c
  <2>2. \A b \in Addrs : WindowOK(b)'
    BY <1>1, <1>2, <2>1 DEF WindowOK
  <2>3. \A b \in Addrs : high'[b] >= high[b]
    BY <1>1, <2>1
  <2> QED
    BY <1>2, <1>3, <2>1, <2>2, <2>3 DEF c
<1>4. CASE ~Known(a)
  <2>1. high' = high /\ received' = received
    BY <1>4 DEF Track
  <2> QED
    BY <1>1, <1>2, <1>4, <2>1 DEF WindowOK
<1> QED
  BY <1>3, <1>4

\* What a received intent or ping does to the clients and the tasks keeps the
\* invariant.
LEMMA ReceiveKeeps ==
    ASSUME IInv, NEW a \in Addrs, ReceiveIntent(a) \/ ReceivePing(a)
    PROVE  IInv' /\ \A b \in Addrs : high'[b] >= high[b]
<1>1. PICK s \in InFlight(a) :
        /\ Track(a, s)
        /\ \/ clients' = clients /\ ~Known(a)
           \/ /\ Known(a)
              /\ \/ clients' = [clients EXCEPT ![a] = UpdateRemote(@, s % Modulus)]
                 \/ clients' = [clients EXCEPT ![a] = NextSequence(UpdateRemote(@, s % Modulus))]
  <2>1. CASE ReceiveIntent(a)
    BY <2>1 DEF ReceiveIntent
  <2>2. CASE ReceivePing(a)
    <3>1. PICK s \in InFlight(a), whole \in BOOLEAN :
            /\ Track(a, s)
            /\ clients' = [clients EXCEPT ![a] =
                    LET c == UpdateRemote(@, s % Modulus)
                    IN  IF whole THEN NextSequence(c) ELSE c]
      BY <2>2 DEF ReceivePing
    <3>2. CASE whole
      BY <2>2, <3>1, <3>2 DEF ReceivePing
    <3>3. CASE ~whole
      BY <2>2, <3>1, <3>3 DEF ReceivePing
    <3> QED
      BY <3>2, <3>3
  <2> QED
    BY <2>1, <2>2
<1> DEFINE u == UpdateRemote(clients[a], s % Modulus)
<1>2. /\ high' \in [Addrs -> Int] /\ received' \in [Addrs -> SUBSET Int]
      /\ \A b \in Addrs : b # a \/ ~Known(a) => high'[b] = high[b] /\ received'[b] = received[b]
      /\ UNCHANGED <<up, nextId, publishing, sent, owner>>
      /\ \A b \in Addrs : WindowOK(b)'
      /\ \A b \in Addrs : high'[b] >= high[b]
  BY <1>1, TrackFacts
<1>3. Known(a) => u \in ClientRecord /\ u.id = clients[a].id /\ TrackerOK(u, high'[a], received'[a])
  BY <1>1, TrackFacts, Zenon
<1>4. Known(a) => /\ NextSequence(u) \in ClientRecord /\ NextSequence(u).id = clients[a].id
                  /\ TrackerOK(NextSequence(u), high'[a], received'[a])
  <2> HIDE DEF u
  <2> QED
    BY <1>3, NextSequenceFacts
<1>5. /\ DOMAIN clients = Addrs /\ waiting \in Seq(WaitingTask) /\ Len(waiting) \in Nat
  BY LenProperties DEF IInv, Shape
<1>6. ASSUME NEW b \in Addrs
      PROVE  \/ ~Known(b) /\ clients'[b] = clients[b]
             \/ /\ Known(b) /\ clients'[b] \in ClientRecord
                /\ clients'[b].id = clients[b].id
                /\ TrackerOK(clients'[b], high'[b], received'[b])
  <2>1. CASE b = a
    <3>1. Known(a) => clients'[a] = u \/ clients'[a] = NextSequence(u)
      BY <1>1, <1>5
    <3> HIDE DEF u
    <3> QED
      BY <1>1, <1>3, <1>4, <2>1, <3>1
  <2>2. CASE b # a
    <3>1. clients'[b] = clients[b]
      BY <1>1, <1>5, <2>2
    <3>2. high'[b] = high[b] /\ received'[b] = received[b]
      BY <1>2, <2>2
    <3> QED
      BY <3>1, <3>2 DEF IInv, ClientOK
  <2> QED
    BY <2>1, <2>2
<1>7. DOMAIN clients' = Addrs
  BY <1>1, <1>5
<1>8. /\ waiting' \in Seq(WaitingTask)
      /\ \A i \in DOMAIN waiting' : \/ i \in DOMAIN waiting /\ waiting'[i] = waiting[i]
                                    \/ waiting'[i].sender = clients[waiting'[i].addr].id
  <2>1. CASE waiting' = waiting
    BY <1>5, <2>1
  <2>2. CASE waiting' = Append(waiting, [addr |-> a, sender |-> clients[a].id])
    <3> DEFINE t == [addr |-> a, sender |-> clients[a].id]
    <3>1. t \in WaitingTask
      BY IdFacts DEF WaitingTask
    <3>2. t.sender = clients[t.addr].id
      OBVIOUS
    <3> HIDE DEF t
    <3>3. waiting' = Append(waiting, t)
      BY <2>2 DEF t
    <3>4. /\ waiting' \in Seq(WaitingTask) /\ DOMAIN waiting = 1..Len(waiting)
          /\ DOMAIN waiting' = 1..(Len(waiting) + 1)
          /\ \A i \in 1..Len(waiting) : waiting'[i] = waiting[i]
          /\ waiting'[Len(waiting) + 1] = t
      BY <1>5, <3>1, <3>3
    <3> QED
      BY <1>5, <3>2, <3>4
  <2> QED
    BY <2>1, <2>2 DEF ReceiveIntent, ReceivePing
<1>9. IInv'
  BY <1>2, <1>6, <1>7, <1>8, TrackersKeep
<1> QED
  BY <1>2, <1>9

\* Stamping headers: send_intent_to_client, measure_latency and the broadcast.
LEMMA StampKeeps ==
    ASSUME IInv, UNCHANGED <<up, nextId, waiting, publishing, sent, high, received, owner>>,
           DOMAIN clients' = Addrs,
           \A a \in Addrs : \/ clients'[a] = clients[a]
                            \/ Known(a) /\ clients'[a] = NextSequence(clients[a])
    PROVE  IInv'
<1>1. ASSUME NEW a \in Addrs
      PROVE  \/ ~Known(a) /\ clients'[a] = clients[a]
             \/ /\ Known(a) /\ clients'[a] \in ClientRecord
                /\ clients'[a].id = clients[a].id
                /\ TrackerOK(clients'[a], high'[a], received'[a])
  <2>1. ClientOK(a) /\ high'[a] = high[a] /\ received'[a] = received[a]
    BY DEF IInv
  <2>2. CASE clients'[a] = clients[a]
    BY <2>1, <2>2 DEF ClientOK
  <2>3. CASE Known(a) /\ clients'[a] = NextSequence(clients[a])
    <3>1. clients[a] \in ClientRecord /\ TrackerOK(clients[a], high[a], received[a])
      BY <2>1, <2>3 DEF ClientOK
    <3> QED
      BY <2>1, <2>3, <3>1, NextSequenceFacts
  <2> QED
    BY <2>2, <2>3
<1>2. /\ high' \in [Addrs -> Int] /\ received' \in [Addrs -> SUBSET Int]
      /\ \A a \in Addrs : WindowOK(a)'
      /\ waiting' \in Seq(WaitingTask)
  BY DEF IInv, Shape, WindowOK
<1> QED
  BY <1>1, <1>2, TrackersKeep

\* A publish task enters the semaphore and looks its client up.
LEMMA BeginPublishKeeps ==
    ASSUME IInv, BeginPublish
    PROVE  IInv'
<1> DEFINE t == Head(waiting)
<1>1. /\ waiting # << >> /\ Cardinality(publishing) < Permits /\ waiting' = Tail(waiting) /\ Shape
      /\ UNCHANGED <<up, clients, nextId, sent, high, received, owner>>
  BY DEF BeginPublish, IInv
<1>2. PICK n \in 1..Permits : publishing' = publishing \cup
            {[slot |-> n, addr |-> t.addr, sender |-> t.sender, player |-> clients[t.addr].id]}
  BY DEF BeginPublish
<1> DEFINE new == [slot |-> n, addr |-> t.addr, sender |-> t.sender, player |-> clients[t.addr].id]
<1>3. /\ waiting \in Seq(WaitingTask) /\ Len(waiting) \in Nat /\ Len(waiting) > 0
      /\ DOMAIN waiting = 1..Len(waiting) /\ t = waiting[1] /\ 1 \in DOMAIN waiting
  <2>1. waiting \in Seq(WaitingTask) /\ Len(waiting) \in Nat /\ DOMAIN waiting = 1..Len(waiting)
    BY <1>1 DEF Shape
  <2>2. Len(waiting) > 0
    BY <1>1, <2>1, EmptySeq
  <2> QED
    BY <1>1, <2>1, <2>2
<1>4. /\ waiting' \in Seq(WaitingTask) /\ DOMAIN waiting' = 1..(Len(waiting) - 1)
      /\ \A i \in 1..(Len(waiting) - 1) : waiting'[i] = waiting[i + 1]
  BY <1>1, <1>3, HeadTailProperties
<1>5. t.addr \in Addrs /\ t.sender \in Nat /\ TaskOK(t)
  BY <1>3, TaskTypes DEF IInv
<1> HIDE DEF t
<1>6. new.addr = t.addr /\ new.sender = t.sender /\ new.player = clients[t.addr].id
  OBVIOUS
<1>7. publishing' = publishing \cup {new}
  BY <1>2
<1> HIDE DEF new
<1>8. IsFiniteSet(publishing') /\ Cardinality(publishing') <= Permits
  <2>1. IsFiniteSet(publishing) /\ Cardinality(publishing) \in Nat /\ Permits \in Nat
    BY <1>1, FS_CardinalityType, TransportAssumption DEF Shape
  <2>2. /\ IsFiniteSet(publishing \cup {new})
        /\ \/ Cardinality(publishing \cup {new}) = Cardinality(publishing)
           \/ Cardinality(publishing \cup {new}) = Cardinality(publishing) + 1
    BY <2>1, FS_AddElement
  <2> QED
    BY <1>1, <1>7, <2>1, <2>2
<1>9. Shape'
  BY <1>1, <1>4, <1>8 DEF Shape
<1>10. \A a \in Addrs : ClientOK(a)' /\ WindowOK(a)'
  BY <1>1 DEF IInv, ClientOK, WindowOK, Known
<1>11. ASSUME NEW i \in DOMAIN waiting' PROVE TaskOK(waiting[i])'
  <2>1. i + 1 \in DOMAIN waiting /\ waiting'[i] = waiting[i + 1]
    BY <1>3, <1>4
  <2>2. TaskOK(waiting[i + 1])
    BY <2>1 DEF IInv
  <2> QED
    BY <1>1, <2>1, <2>2 DEF TaskOK
<1>12. PublishOK(new)
  <2>1. ClientOK(t.addr)
    BY <1>5 DEF IInv
  <2>2. CASE Known(t.addr)
    <3>1. clients[t.addr].id \in 2..(nextId - 1) /\ owner[clients[t.addr].id - 1] = t.addr
      BY <2>1, <2>2 DEF ClientOK
    <3>2. clients[t.addr].id \in Nat /\ clients[t.addr].id # Unknown
      BY <1>5, <2>2, IdFacts DEF Unknown
    <3>3. clients[t.addr].id >= t.sender
      BY <1>5, <3>2 DEF TaskOK
    <3> QED
      BY <1>5, <1>6, <3>1, <3>2, <3>3 DEF PublishOK
  <2>3. CASE ~Known(t.addr)
    <3>1. clients[t.addr].id = Unknown
      BY <1>5, <2>3, IdFacts DEF Unknown
    <3> QED
      BY <1>6, <3>1 DEF PublishOK
  <2> QED
    BY <2>2, <2>3
<1>13. \A p \in publishing' : PublishOK(p)'
  BY <1>1, <1>7, <1>12 DEF IInv, PublishOK
<1> QED
  BY <1>9, <1>10, <1>11, <1>13 DEF IInv

\* A publish task ends.
LEMMA EndPublishKeeps ==
    ASSUME IInv, publishing' \in SUBSET publishing,
           UNCHANGED <<clients, nextId, waiting, sent, high, received, owner>>,
           up' \in BOOLEAN
    PROVE  IInv'
<1>1. IsFiniteSet(publishing') /\ Cardinality(publishing') <= Permits
  <2>1. IsFiniteSet(publishing) /\ Cardinality(publishing) <= Permits /\ Permits \in Nat
    BY TransportAssumption DEF IInv, Shape
  <2>2. IsFiniteSet(publishing') /\ Cardinality(publishing') <= Cardinality(publishing)
    BY <2>1, FS_Subset
  <2> QED
    BY <2>1, <2>2, FS_CardinalityType
<1>2. Shape'
  BY <1>1 DEF IInv, Shape
<1>3. \A a \in Addrs : ClientOK(a)' /\ WindowOK(a)'
  BY DEF IInv, ClientOK, WindowOK, Known
<1>4. \A i \in DOMAIN waiting' : TaskOK(waiting[i])'
  BY DEF IInv, TaskOK
<1>5. \A p \in publishing' : PublishOK(p)'
  BY DEF IInv, PublishOK
<1> QED
  BY <1>2, <1>3, <1>4, <1>5 DEF IInv

\* Every step of the server, its tasks and the network keeps the invariant.
LEMMA NextIInv == IInv /\ [Next]_vars => IInv'
<1> SUFFICES ASSUME IInv, [Next]_vars PROVE IInv'
  OBVIOUS
<1>1. DOMAIN clients = Addrs /\ up \in BOOLEAN
  BY DEF IInv, Shape
<1>2. CASE Start \/ Stop \/ EndPublish \/ UNCHANGED vars
  <2>1. publishing' \in SUBSET publishing
    BY <1>2 DEF Start, Stop, EndPublish, vars
  <2>2. up' \in BOOLEAN
    BY <1>1, <1>2 DEF Start, Stop, EndPublish, vars
  <2>3. UNCHANGED <<clients, nextId, waiting, sent, high, received, owner>>
    BY <1>2 DEF Start, Stop, EndPublish, vars
  <2> QED
    BY <2>1, <2>2, <2>3, EndPublishKeeps
<1>3. CASE BeginPublish
  BY <1>3, BeginPublishKeeps
<1>4. CASE BroadcastStateSync
  <2>1. /\ DOMAIN clients' = Addrs
        /\ \A a \in Addrs : \/ clients'[a] = clients[a]
                            \/ Known(a) /\ clients'[a] = NextSequence(clients[a])
    BY <1>4 DEF BroadcastStateSync, Known
  <2> QED
    BY <1>4, <2>1, StampKeeps DEF BroadcastStateSync
<1>5. ASSUME NEW a \in Addrs, SendIntentToClient(a) PROVE IInv'
  <2>1. /\ DOMAIN clients' = Addrs
        /\ \A b \in Addrs : \/ clients'[b] = clients[b]
                            \/ Known(b) /\ clients'[b] = NextSequence(clients[b])
    BY <1>1, <1>5 DEF SendIntentToClient
  <2> QED
    BY <1>5, <2>1, StampKeeps DEF SendIntentToClient
<1>6. ASSUME NEW a \in Addrs,
             RegisterClient(a) \/ RemoveClient(a) \/ Send(a) \/ ReceiveIntent(a) \/ ReceivePing(a)
      PROVE  IInv'
  BY <1>6, RegisterClientKeeps, RemoveClientKeeps, SendKeeps, ReceiveKeeps
<1> QED
  BY <1>2, <1>3, <1>4, <1>5, <1>6 DEF Next

\* The inductive invariant holds in every reachable state.
THEOREM Invariance == Spec => []IInv
BY InitIInv, NextIInv, PTL DEF Spec

-----------------------------------------------------------------------------
(* The properties.                                                         *)

\* Type correctness of the transport: ids, sequence numbers and bitfields
\* stay in range and the semaphore is never overdrawn.
THEOREM TypeCorrect == Spec => []TypeOK
<1>1. IInv => TypeOK
  <2> SUFFICES ASSUME IInv PROVE TypeOK
    OBVIOUS
  <2>1. ASSUME NEW a \in Addrs, Known(a)
        PROVE  /\ clients[a].id \in 2 .. nextId - 1
               /\ clients[a].local \in 0 .. Modulus - 1 /\ clients[a].remote \in 0 .. Modulus - 1
               /\ clients[a].bits \subseteq 0 .. HeaderBits - 1
    BY <2>1 DEF IInv, ClientOK, ClientRecord
  <2> QED
    BY <2>1 DEF IInv, Shape, TypeOK
<1> QED
  BY <1>1, Invariance, PTL

\* Every bit of every header the server sends acknowledges a datagram it
\* received from that client, for every modulus and header width.
THEOREM AcksAreTrue == Spec => []AcksAreReceived
<1>1. IInv => AcksAreReceived
  BY DEF IInv, ClientOK, TrackerOK, AcksAreReceived
<1> QED
  BY <1>1, Invariance, PTL

\* An intent is published for a player of its sender's address.
THEOREM PlayersAreSenders == Spec => []PlayerIsSender
<1>1. IInv => PlayerIsSender
  BY DEF IInv, PublishOK, PlayerIsSender
<1> QED
  BY <1>1, Invariance, PTL

\* Within a registration the acknowledged number never goes back, across the
\* wrap-around.
THEOREM AcksNeverRegress == Spec => AckNeverRegresses
<1>1. ASSUME IInv, [Next]_vars
      PROVE  [\A a \in Addrs : clients'[a].id = clients[a].id => high'[a] >= high[a]]_vars
  <2> SUFFICES ASSUME Next, NEW a \in Addrs, clients'[a].id = clients[a].id
               PROVE  high'[a] >= high[a]
    BY <1>1
  <2>1. high \in [Addrs -> Int] /\ DOMAIN clients = Addrs
    BY <1>1 DEF IInv, Shape
  <2>2. CASE high' = high
    BY <2>1, <2>2
  <2>3. ASSUME NEW b \in Addrs, ReceiveIntent(b) \/ ReceivePing(b) PROVE high'[a] >= high[a]
    BY <1>1, <2>3, ReceiveKeeps
  <2>4. ASSUME NEW b \in Addrs, RegisterClient(b) PROVE high'[a] >= high[a]
    <3>1. CASE b = a
      <4>1. clients'[a].id = nextId
        BY <2>1, <2>4, <3>1 DEF RegisterClient, NewClient
      <4>2. clients[a].id # nextId
        BY <1>1, IdFacts
      <4> QED
        BY <4>1, <4>2
    <3>2. CASE b # a
      BY <2>1, <2>4, <3>2 DEF RegisterClient
    <3> QED
      BY <3>1, <3>2
  <2> QED
    BY <2>2, <2>3, <2>4 DEF Next, Start, Stop, BroadcastStateSync, BeginPublish, EndPublish,
             RemoveClient, Send, SendIntentToClient
<1> QED
  BY <1>1, Invariance, PTL DEF Spec, AckNeverRegresses

-----------------------------------------------------------------------------
(* Game hosting.                                                           *)

\* A function that satisfies the recursion of FlattenSeq computes it.
LEMMA FlattenFacts ==
    ASSUME NEW s, NEW g, Len(s) \in Nat, Len(s) > 0,
           g = [i \in 1 .. Len(s) |-> IF i = 1 THEN s[i] ELSE g[i - 1] \o s[i]]
    PROVE  FlattenSeq(s) = g[Len(s)]
<1> DEFINE f == CHOOSE h : h = [i \in 1 .. Len(s) |-> IF i = 1 THEN s[i] ELSE h[i - 1] \o s[i]]
<1>1. f = [i \in 1 .. Len(s) |-> IF i = 1 THEN s[i] ELSE f[i - 1] \o s[i]]
  OBVIOUS
<1>2. FlattenSeq(s) = f[Len(s)]
  BY DEF FlattenSeq
<1> HIDE DEF f
<1> DEFINE T == {i \in 1 .. Len(s) : f[i] # g[i]}
<1>3. T = {}
  <2> SUFFICES ASSUME T # {} PROVE FALSE
    OBVIOUS
  <2>0. T \subseteq Nat
    OBVIOUS
  <2>1. PICK i \in T : \A j \in T : ~(<<j, i>> \in OpToRel(<, Nat))
    <3> HIDE DEF T
    <3> QED
      BY <2>0, WFMin, NatLessThanWellFounded
  <2>2. \A j \in T : ~(j < i)
    <3> HIDE DEF T
    <3> QED
      BY <2>0, <2>1 DEF OpToRel
  <2>3. i # 1
    BY <1>1
  <2>4. i - 1 \in 1 .. Len(s) /\ i - 1 < i
    BY <2>3
  <2>5. f[i - 1] = g[i - 1]
    BY <2>2, <2>4
  <2>6. f[i] = f[i - 1] \o s[i]
    BY <1>1, <2>3
  <2>7. g[i] = g[i - 1] \o s[i]
    BY <2>3
  <2>8. f[i] # g[i]
    OBVIOUS
  <2>9. f[i] = g[i]
    BY <2>5, <2>6, <2>7
  <2> QED
    BY <2>8, <2>9
<1>4. Len(s) \in 1 .. Len(s)
  OBVIOUS
<1>5. f[Len(s)] = g[Len(s)]
  BY <1>3, <1>4
<1> QED
  BY <1>2, <1>5

\* The bytes of a stretch of a version.
LEMMA BytesFacts ==
    ASSUME NEW v, NEW a \in Nat, NEW b \in Nat, a <= b
    PROVE  /\ Bytes(v, a, b) \in Seq({v} \X Nat) /\ Len(Bytes(v, a, b)) = b - a
           /\ DOMAIN Bytes(v, a, b) = 1 .. b - a
           /\ \A k \in 1 .. b - a : Bytes(v, a, b)[k] = <<v, a + k - 1>>
<1> DEFINE X == {v} \X Nat
<1>1. (IF b > a THEN b - a ELSE 0) = b - a /\ b - a \in Nat
  OBVIOUS
<1>2. Bytes(v, a, b) = [k \in 1 .. b - a |-> <<v, a + k - 1>>]
  BY <1>1 DEF Bytes
<1>3. \A k \in 1 .. b - a : a + k - 1 \in Nat
  OBVIOUS
<1>4. \A k \in 1 .. b - a : <<v, a + k - 1>> \in X
  BY <1>3
<1> HIDE DEF X
<1>5. [k \in 1 .. b - a |-> <<v, a + k - 1>>] \in Seq(X)
  BY <1>1, <1>4
<1> QED
  BY <1>1, <1>2, <1>5 DEF X

\* Two neighbouring stretches of a version are one.
LEMMA BytesJoin ==
    ASSUME NEW v, NEW a \in Nat, NEW b \in Nat, a <= b
    PROVE  Bytes(v, 0, a) \o Bytes(v, a, b) = Bytes(v, 0, b)
<1> DEFINE x == Bytes(v, 0, a)
           y == Bytes(v, a, b)
           z == Bytes(v, 0, b)
           xy == x \o y
           X == {v} \X Nat
<1>0. 0 \in Nat /\ 0 <= a /\ 0 <= b
  OBVIOUS
<1>1. x \in Seq(X) /\ Len(x) = a /\ \A k \in 1 .. a : x[k] = <<v, k - 1>>
  <2>1. x \in Seq(X) /\ Len(x) = a - 0 /\ \A k \in 1 .. a - 0 : x[k] = <<v, 0 + k - 1>>
    BY <1>0, BytesFacts
  <2> HIDE DEF x, X
  <2> QED
    BY <2>1
<1>2. z \in Seq(X) /\ Len(z) = b /\ \A k \in 1 .. b : z[k] = <<v, k - 1>>
  <2>1. z \in Seq(X) /\ Len(z) = b - 0 /\ \A k \in 1 .. b - 0 : z[k] = <<v, 0 + k - 1>>
    BY <1>0, BytesFacts
  <2> HIDE DEF z, X
  <2> QED
    BY <2>1
<1>3. y \in Seq(X) /\ Len(y) = b - a /\ \A k \in 1 .. b - a : y[k] = <<v, a + k - 1>>
  BY BytesFacts
<1> HIDE DEF x, y, z, X
<1>4. /\ xy \in Seq(X) /\ Len(xy) = Len(x) + Len(y)
      /\ \A k \in 1 .. Len(x) + Len(y) : xy[k] = IF k <= Len(x) THEN x[k] ELSE y[k - Len(x)]
  BY <1>1, <1>3, ConcatProperties
<1>5. Len(x) + Len(y) = b
  BY <1>1, <1>3
<1> HIDE DEF xy
<1>6. ASSUME NEW k \in 1 .. b PROVE xy[k] = z[k]
  <2>1. CASE k <= a
    <3>1. k \in 1 .. a
      BY <2>1
    <3>2. xy[k] = x[k]
      BY <1>1, <1>4, <1>5, <2>1
    <3> QED
      BY <1>1, <1>2, <3>1, <3>2
  <2>2. CASE k > a
    <3>1. k - a \in 1 .. b - a /\ a + (k - a) - 1 = k - 1 /\ ~(k <= a)
      BY <2>2
    <3> QED
      BY <1>1, <1>2, <1>3, <1>4, <1>5, <3>1
  <2> QED
    BY <2>1, <2>2
<1>7. xy = z
  BY <1>2, <1>4, <1>5, <1>6, SeqEqual
<1> QED
  BY <1>7 DEF x, y, z, xy

-----------------------------------------------------------------------------
(* The number of chunks.                                                   *)

\* The quotient rounded up: the last chunk begins before the end of the file,
\* and no chunk is missing.
LEMMA ChunkCount ==
    ASSUME NEW v \in Versions, Size[v] # 0
    PROVE  /\ CountPckChunks(v) \in Nat \ {0}
           /\ (CountPckChunks(v) - 1) * ChunkSize < Size[v]
           /\ Size[v] <= CountPckChunks(v) * ChunkSize
<1> DEFINE n == Size[v]
           c == ChunkSize
           q == (n + c - 1) \div c
           r == (n + c - 1) % c
<1>1. n \in Nat \ {0} /\ c \in Nat \ {0}
  BY SizeAssumption, BoundsAssumption, ElementOfSeq DEF Versions
<1> HIDE DEF n, c
<1>2. n + c - 1 \in Nat
  BY <1>1
<1>3. q \in Int /\ r \in 0 .. c - 1 /\ n + c - 1 = c * q + r
  BY <1>1, <1>2
<1>4. q \in Nat \ {0}
  BY <1>1, <1>3
<1>5. (q - 1) * c = q * c - c /\ c * q = q * c /\ q * c \in Nat
  BY <1>1, <1>4
<1>6. (q - 1) * c < n /\ n <= q * c
  <2> HIDE DEF q, r
  <2> QED
    BY <1>1, <1>3, <1>5
<1> QED
  BY <1>4, <1>6 DEF CountPckChunks, n, c

\* The bytes of a chunk of a version.
Part(v, n) ==
    Bytes(v, n * ChunkSize, IF n * ChunkSize + ChunkSize < Size[v] THEN n * ChunkSize + ChunkSize ELSE Size[v])

\* A chunk that is cut by the size of its own version is all there.
LEMMA OwnSize ==
    ASSUME NEW v \in Versions, NEW n \in Nat
    PROVE  ServeChunk(v, Size[v], n).bytes = Part(v, n)
<1> DEFINE z == Size[v]
           end == IF n * ChunkSize + ChunkSize < z THEN n * ChunkSize + ChunkSize ELSE z
<1>1. z \in Nat /\ n * ChunkSize \in Nat /\ ChunkSize \in Nat
  BY SizeAssumption, BoundsAssumption, ElementOfSeq DEF Versions
<1>2. ServeChunk(v, z, n).bytes = Bytes(v, n * ChunkSize, IF end < z THEN end ELSE z)
  BY DEF ServeChunk
<1> HIDE DEF z
<1>3. (IF end < z THEN end ELSE z) = end
  BY <1>1
<1> QED
  BY <1>2, <1>3 DEF Part, z

\* The chunks of one version, one after the other, are the version.
LEMMA ChunksJoin ==
    ASSUME NEW v \in Versions, Size[v] # 0, NEW s,
           Len(s) = CountPckChunks(v),
           \A i \in 1 .. Len(s) : s[i] = Part(v, i - 1)
    PROVE  FlattenSeq(s) = Bytes(v, 0, Size[v])
<1> DEFINE n == Size[v]
           c == ChunkSize
           k == Len(s)
           End(i) == IF i * c < n THEN i * c ELSE n
           g == [i \in 1 .. k |-> Bytes(v, 0, End(i))]
<1>1. n \in Nat \ {0} /\ c \in Nat \ {0}
  BY SizeAssumption, BoundsAssumption, ElementOfSeq DEF Versions
<1>2. k \in Nat \ {0} /\ (k - 1) * c < n /\ n <= k * c
  BY ChunkCount
<1>3. ASSUME NEW i \in 1 .. k
      PROVE  s[i] = Bytes(v, (i - 1) * c, IF (i - 1) * c + c < n THEN (i - 1) * c + c ELSE n)
  BY <1>3 DEF Part
<1> HIDE DEF n, c, k
<1>4. ASSUME NEW i \in 1 .. k
      PROVE  /\ (i - 1) * c \in Nat /\ (i - 1) * c < n /\ i * c = (i - 1) * c + c
             /\ End(i) \in Nat /\ (i - 1) * c <= End(i)
  <2>1. i \in Nat /\ i - 1 \in Nat /\ i - 1 <= k - 1
    BY <1>2
  <2>2. (i - 1) * c <= (k - 1) * c /\ (i - 1) * c \in Nat /\ (k - 1) * c \in Nat
    <3>1. \A x, y \in Nat : x <= y => x * c <= y * c /\ x * c \in Nat /\ y * c \in Nat
      BY <1>1
    <3> DEFINE x == i - 1
               y == k - 1
    <3>2. x \in Nat /\ y \in Nat /\ x <= y
      BY <1>2, <2>1
    <3> HIDE DEF x, y
    <3>3. x * c <= y * c /\ x * c \in Nat /\ y * c \in Nat
      BY <3>1, <3>2
    <3> QED
      BY <3>3 DEF x, y
  <2>3. i * c = (i - 1) * c + c
    BY <1>1, <2>1
  <2> QED
    BY <1>1, <1>2, <2>2, <2>3
<1>5. ASSUME NEW i \in 1 .. k PROVE s[i] = Bytes(v, (i - 1) * c, End(i))
  BY <1>3, <1>4
<1>6. g[1] = s[1]
  <2>1. 1 \in 1 .. k /\ (1 - 1) * c = 0
    BY <1>1, <1>2
  <2>2. s[1] = Bytes(v, (1 - 1) * c, End(1))
    BY <1>5, <2>1
  <2> HIDE DEF End
  <2> QED
    BY <2>1, <2>2
<1>7. ASSUME NEW i \in 1 .. k, i # 1 PROVE g[i] = g[i - 1] \o s[i]
  <2>1. i - 1 \in 1 .. k
    BY <1>2, <1>7
  <2>2. (i - 1) * c < n /\ (i - 1) * c \in Nat /\ End(i) \in Nat /\ (i - 1) * c <= End(i)
    BY <1>4
  <2>3. End(i - 1) = (i - 1) * c
    BY <2>2
  <2>4. g[i] = Bytes(v, 0, End(i)) /\ g[i - 1] = Bytes(v, 0, End(i - 1))
    BY <2>1
  <2> HIDE DEF g, End
  <2>5. Bytes(v, 0, (i - 1) * c) \o Bytes(v, (i - 1) * c, End(i)) = Bytes(v, 0, End(i))
    BY <2>2, BytesJoin
  <2> QED
    BY <2>3, <2>4, <2>5, <1>5
<1>8. g = [i \in 1 .. k |-> IF i = 1 THEN s[i] ELSE g[i - 1] \o s[i]]
  <2>1. g = [i \in 1 .. k |-> g[i]]
    OBVIOUS
  <2> HIDE DEF g
  <2>2. \A i \in 1 .. k : g[i] = IF i = 1 THEN s[i] ELSE g[i - 1] \o s[i]
    BY <1>6, <1>7
  <2> QED
    BY <2>1, <2>2
<1>9. g[k] = Bytes(v, 0, n)
  <2>1. k \in 1 .. k /\ End(k) = n
    <3>1. k * c \in Nat
      BY <1>1, <1>2
    <3> QED
      BY <1>1, <1>2, <3>1
  <2> HIDE DEF End
  <2> QED
    BY <2>1
<1>10. FlattenSeq(s) = g[k]
  <2>1. k \in Nat /\ k > 0
    BY <1>2
  <2> HIDE DEF g
  <2> QED
    BY <1>8, <2>1, FlattenFacts DEF k
<1> QED
  BY <1>9, <1>10 DEF n

-----------------------------------------------------------------------------
(* The invariant.                                                          *)

\* The answers that there may be for chunk n: read from one version, for the
\* size of another.
Served(n) ==
    {Error, Unsatisfiable} \cup
    {ServeChunk(pair[1], Size[pair[2]], n) : pair \in Versions \X Versions}
\* All of them.
Answers == UNION {Served(n) : n \in Nat}

\* The inductive invariant: every chunk a page has, or the browser kept, is one
\* the server may have answered for its number, and a page that merges has them all.
HostInv ==
    /\ HostingTypeOK
    /\ load = [pc |-> load.pc, manifest |-> load.manifest, chunks |-> load.chunks, size |-> load.size]
    /\ load.chunks \in Seq(Answers)
    /\ \A i \in DOMAIN load.chunks : load.chunks[i] \in Served(i - 1)
    /\ \A c \in http : c.n \in Nat /\ c.answer \in Served(c.n)
    /\ load.pc = "reading" => \E v \in Versions : load.size = Size[v]
    /\ load.pc = "done" => Len(load.chunks) = PckChunks

\* An answer that has bytes of a version, cut by its size, is its chunk.
LEMMA ServedFacts ==
    ASSUME NEW n \in Nat, NEW answer \in Served(n), NEW m \in Versions, FromVersion(answer, m)
    PROVE  Size[m] # 0 /\ answer.bytes = Part(m, n)
<1>0. \A v \in Versions : Size[v] \in Nat
  BY SizeAssumption, ElementOfSeq DEF Versions
<1>1. answer # Error /\ answer # Unsatisfiable
  <2>1. m # 0
    BY SizeAssumption DEF Versions
  <2>2. Error.bytes[1][1] = 0 /\ 1 \in DOMAIN Error.bytes /\ Unsatisfiable.bytes = << >>
    BY DEF Error, Unsatisfiable, None
  <2> QED
    BY <2>1, <2>2 DEF FromVersion
<1>2. PICK v \in Versions, u \in Versions : answer = ServeChunk(v, Size[u], n)
  BY <1>1 DEF Served
<1> DEFINE start == n * ChunkSize
           z == Size[u]
           end == IF start + ChunkSize < z THEN start + ChunkSize ELSE z
           last == IF end < Size[v] THEN end ELSE Size[v]
           body == answer.bytes
           d == IF last > start THEN last - start ELSE 0
<1>3. answer.total = z /\ body = Bytes(v, start, last)
  BY <1>2 DEF ServeChunk
<1>4. z = Size[m] /\ body # << >> /\ \A k \in DOMAIN body : body[k][1] = m
  BY <1>3 DEF FromVersion
<1>5. start \in Nat /\ end \in Nat /\ last \in Nat /\ ChunkSize \in Nat \ {0}
  BY <1>0, BoundsAssumption
<1> HIDE DEF last, body
<1>6. body = [k \in 1 .. d |-> <<v, start + k - 1>>]
  BY <1>3 DEF Bytes
<1>7. d # 0
  <2> SUFFICES ASSUME d = 0 PROVE FALSE
    OBVIOUS
  <2>1. 1 .. d = {}
    OBVIOUS
  <2> HIDE DEF d
  <2>2. body = [k \in {} |-> <<v, start + k - 1>>]
    BY <1>6, <2>1
  <2>3. body = << >>
    BY <2>2
  <2> QED
    BY <1>4, <2>3
<1>8. 1 \in 1 .. d /\ d \in Nat
  BY <1>5, <1>7
<1>9. v = m
  <2>1. body[1] = <<v, start + 1 - 1>> /\ 1 \in DOMAIN body
    BY <1>6, <1>8
  <2> HIDE DEF start
  <2> QED
    BY <1>4, <2>1
<1>10. Size[m] # 0
  <2>1. last > start
    BY <1>5, <1>7
  <2>2. last <= Size[v]
    BY <1>0, <1>5 DEF last
  <2> QED
    BY <1>0, <1>5, <1>9, <2>1, <2>2
<1>11. answer = ServeChunk(m, Size[m], n)
  BY <1>2, <1>4, <1>9
<1> QED
  BY <1>10, <1>11, OwnSize DEF body

\* What the page merges.
LEMMA MergedFacts ==
    ASSUME HostInv
    PROVE  WholeFile
<1> DEFINE m == load.manifest
           answers == load.chunks
           s == [i \in DOMAIN answers |-> answers[i].bytes]
<1> SUFFICES ASSUME load.pc = "done", m # None, \A i \in DOMAIN answers : FromVersion(answers[i], m)
             PROVE  Merged = Bytes(m, 0, Size[m])
  BY DEF WholeFile
<1>1. m \in Versions
  BY DEF HostInv, HostingTypeOK
<1>2. answers \in Seq(Answers) /\ DOMAIN answers = 1 .. Len(answers) /\ Len(answers) \in Nat
  BY DEF HostInv
<1>3. ASSUME NEW i \in 1 .. Len(answers) PROVE Size[m] # 0 /\ answers[i].bytes = Part(m, i - 1)
  <2>1. i - 1 \in Nat /\ answers[i] \in Served(i - 1) /\ FromVersion(answers[i], m)
    BY <1>2 DEF HostInv
  <2> HIDE DEF m, answers
  <2> QED
    BY <1>1, <2>1, ServedFacts
<1>4. Len(answers) = PckChunks
  BY DEF HostInv
<1>5. Len(answers) # 0
  <2>1. CASE CountPckChunks(m) = 0
    BY <1>4, <2>1 DEF PckChunks
  <2>2. CASE CountPckChunks(m) # 0
    BY <1>4, <2>2 DEF PckChunks
  <2> QED
    BY <2>1, <2>2
<1>6. Size[m] # 0
  BY <1>2, <1>3, <1>5
<1>7. CountPckChunks(m) \in Nat \ {0}
  BY <1>1, <1>6, ChunkCount
<1>8. Len(answers) = CountPckChunks(m)
  BY <1>4, <1>7 DEF PckChunks
<1> HIDE DEF m, answers
<1>9. s = [i \in 1 .. Len(answers) |-> answers[i].bytes]
  BY <1>2
<1>10. Len(s) = Len(answers) /\ \A i \in 1 .. Len(answers) : s[i] = answers[i].bytes
  BY <1>2, <1>9
<1> HIDE DEF s
<1>11. FlattenSeq(s) = Bytes(m, 0, Size[m])
  BY <1>1, <1>3, <1>6, <1>8, <1>10, ChunksJoin
<1> QED
  BY <1>11 DEF Merged, m, s, answers

\* No page was opened and nothing is cached.
LEMMA HostInit == HostingInit => HostInv
<1> SUFFICES ASSUME HostingInit PROVE HostInv
  OBVIOUS
<1>1. 1 \in Versions
  BY SizeAssumption DEF Versions
<1>2. 0 \in 0 .. MaxLoads
  BY BoundsAssumption
<1>3. << >> \in Seq(Answers)
  OBVIOUS
<1>4. HostingTypeOK
  BY <1>1, <1>2 DEF HostingInit, HostingTypeOK, None
<1> QED
  BY <1>3, <1>4 DEF HostingInit, HostInv

\* Steps that leave the page alone.
LEMMA HostStep ==
    ASSUME HostInv, UNCHANGED <<load, http>>, HostingTypeOK'
    PROVE  HostInv'
BY DEF HostInv, PckChunks

\* A step of load() that adds no chunk.
LEMMA PageStep ==
    ASSUME HostInv, NEW place \in {"manifest", "engine", "chunks", "done", "failed"},
           NEW m \in Versions \cup {None},
           load' = [load EXCEPT !.pc = place, !.manifest = m],
           place = "done" => Len(load.chunks) = PckChunks /\ m = load.manifest,
           UNCHANGED <<serverVars, http, loads>>
    PROVE  HostInv'
<1>1. load' = [pc |-> place, manifest |-> m, chunks |-> load.chunks, size |-> load.size]
  BY DEF HostInv
<1>2. load'.pc = place /\ load'.manifest = m /\ load'.chunks = load.chunks /\ load'.size = load.size
  BY <1>1
<1>3. HostingTypeOK'
  BY <1>2 DEF HostInv, HostingTypeOK, serverVars
<1>4. place = "done" => PckChunks' = PckChunks
  BY <1>2 DEF PckChunks
<1> QED
  BY <1>1, <1>2, <1>3, <1>4 DEF HostInv

\* The answer for the next chunk arrives.
LEMMA ReceivedStep ==
    ASSUME HostInv, load.pc \in {"chunks", "reading"},
           NEW answer \in Served(Len(load.chunks)), Received(answer),
           \A c \in http' : c.n \in Nat /\ c.answer \in Served(c.n),
           UNCHANGED <<serverVars, loads>>
    PROVE  HostInv'
<1> DEFINE i == Len(load.chunks)
<1>1. i \in Nat /\ load.chunks \in Seq(Answers) /\ DOMAIN load.chunks = 1 .. i
  BY DEF HostInv
<1>3. load' = [pc |-> "chunks", manifest |-> load.manifest, chunks |-> Append(load.chunks, answer), size |-> load.size]
  BY DEF HostInv, Received
<1>4. /\ load'.pc = "chunks" /\ load'.manifest = load.manifest /\ load'.size = load.size
      /\ load'.chunks = Append(load.chunks, answer)
  BY <1>3
<1>5. answer \in Answers
  BY <1>1 DEF Answers
<1>20. answer \in Served(i)
  OBVIOUS
<1> HIDE DEF i
<1>6. /\ load'.chunks \in Seq(Answers) /\ DOMAIN load'.chunks = 1 .. i + 1
      /\ load'.chunks[i + 1] = answer
      /\ \A j \in 1 .. i : load'.chunks[j] = load.chunks[j]
  BY <1>1, <1>4, <1>5 DEF i
<1>7. \A j \in DOMAIN load'.chunks : load'.chunks[j] \in Served(j - 1)
  <2> SUFFICES ASSUME NEW j \in 1 .. i + 1 PROVE load'.chunks[j] \in Served(j - 1)
    BY <1>6
  <2>1. CASE j = i + 1
    <3>1. j - 1 = i
      BY <1>1, <2>1
    <3> QED
      BY <1>6, <1>20, <2>1, <3>1
  <2>2. CASE j # i + 1
    <3>1. j \in 1 .. i
      BY <1>1, <2>2
    <3> QED
      BY <1>1, <1>6, <3>1 DEF HostInv
  <2> QED
    BY <2>1, <2>2
<1>8. HostingTypeOK'
  BY <1>4 DEF HostInv, HostingTypeOK, serverVars
<1> QED
  BY <1>3, <1>4, <1>6, <1>7, <1>8 DEF HostInv

\* A chunk comes from the browser's cache.
LEMMA FromCacheStep ==
    ASSUME HostInv, ChunkFromCache PROVE HostInv'
<1>1. PICK c \in http : c.n = Len(load.chunks) /\ Received(c.answer)
  BY DEF ChunkFromCache
<1>2. c.answer \in Served(Len(load.chunks))
  BY <1>1 DEF HostInv
<1>3. /\ load.pc \in {"chunks", "reading"} /\ UNCHANGED <<serverVars, loads>>
      /\ \A x \in http' : x.n \in Nat /\ x.answer \in Served(x.n)
  BY DEF ChunkFromCache, HostInv
<1> QED
  BY <1>1, <1>2, <1>3, ReceivedStep

\* The server looks for the file and its size.
LEMMA StatStep ==
    ASSUME HostInv, StatChunk PROVE HostInv'
<1>1. /\ load.pc = "chunks" /\ UNCHANGED <<serverVars, http, loads>>
      /\ \A c \in http' : c.n \in Nat /\ c.answer \in Served(c.n)
  BY DEF StatChunk, HostInv
<1>2. CASE Received(Error) \/ Received(Unsatisfiable)
  <2>1. Error \in Served(Len(load.chunks)) /\ Unsatisfiable \in Served(Len(load.chunks))
    BY DEF Served
  <2> QED
    BY <1>1, <1>2, <2>1, ReceivedStep
<1>3. CASE load' = [load EXCEPT !.pc = "reading", !.size = Size[disk]]
  <2>1. load' = [pc |-> "reading", manifest |-> load.manifest, chunks |-> load.chunks, size |-> Size[disk]]
    BY <1>3 DEF HostInv
  <2>2. /\ load'.pc = "reading" /\ load'.manifest = load.manifest
        /\ load'.chunks = load.chunks /\ load'.size = Size[disk]
    BY <2>1
  <2>3. disk \in Versions /\ Size[disk] \in Nat
    BY SizeAssumption, ElementOfSeq DEF HostInv, HostingTypeOK, Versions
  <2>4. HostingTypeOK'
    BY <1>1, <2>2, <2>3 DEF HostInv, HostingTypeOK, serverVars
  <2> QED
    BY <1>1, <2>1, <2>2, <2>3, <2>4 DEF HostInv
<1> QED
  BY <1>2, <1>3 DEF StatChunk

\* The server reads the file that is there by now.
LEMMA ReadStep ==
    ASSUME HostInv, ReadChunk PROVE HostInv'
<1> DEFINE i == Len(load.chunks)
           answer == IF Size[disk] = 0 THEN Error ELSE ServeChunk(disk, load.size, i)
<1>1. /\ load.pc = "reading" /\ Received(answer) /\ http' = Keep(i, answer)
      /\ UNCHANGED <<serverVars, loads>>
  BY DEF ReadChunk
<1>2. PICK v \in Versions : load.size = Size[v]
  BY <1>1 DEF HostInv
<1>3. answer \in Served(i)
  <2>1. disk \in Versions
    BY DEF HostInv, HostingTypeOK
  <2>2. <<disk, v>> \in Versions \X Versions
    BY <2>1
  <2>3. ServeChunk(<<disk, v>>[1], Size[<<disk, v>>[2]], i) = ServeChunk(disk, load.size, i)
    BY <1>2
  <2> QED
    BY <2>2, <2>3 DEF Served
<1>4. i \in Nat
  BY DEF HostInv
<1> HIDE DEF answer, i
<1>5. \A c \in http' : c \in http \/ c = [n |-> i, answer |-> answer]
  BY <1>1 DEF Keep
<1>6. \A c \in http' : c.n \in Nat /\ c.answer \in Served(c.n)
  BY <1>3, <1>4, <1>5 DEF HostInv
<1> QED
  BY <1>1, <1>3, <1>6, ReceivedStep DEF i

\* Every step of the host and the browser.
LEMMA HostNext == HostInv /\ [HostingNext]_hostingVars => HostInv'
<1> SUFFICES ASSUME HostInv, [HostingNext]_hostingVars PROVE HostInv'
  OBVIOUS
<1> USE DEF serverVars, browserVars
<1>0. load.manifest \in Versions \cup {None} /\ HostingTypeOK
  BY DEF HostInv, HostingTypeOK
<1>1. CASE Rebuild
  <2>1. HostingTypeOK'
    BY <1>0, <1>1 DEF Rebuild, HostingTypeOK
  <2> QED
    BY <1>1, <2>1, HostStep DEF Rebuild
<1>2. CASE RegisterBuild
  <2>1. HostingTypeOK'
    BY <1>0, <1>2 DEF RegisterBuild, HostingTypeOK
  <2> QED
    BY <1>2, <2>1, HostStep DEF RegisterBuild
<1>3. CASE CreateApp
  <2>1. HostingTypeOK'
    BY <1>0, <1>3 DEF CreateApp, HostingTypeOK
  <2> QED
    BY <1>3, <2>1, HostStep DEF CreateApp
<1>4. CASE Open
  <2>1. load' = [pc |-> "manifest", manifest |-> None, chunks |-> << >>, size |-> 0] /\ http' = http
    BY <1>4 DEF Open
  <2>2. << >> \in Seq(Answers)
    OBVIOUS
  <2>3. loads' \in 0 .. MaxLoads
    BY <1>0, <1>4, BoundsAssumption DEF Open, HostingTypeOK
  <2>4. HostingTypeOK'
    BY <1>0, <1>4, <2>3 DEF Open, HostingTypeOK
  <2> QED
    BY <2>1, <2>2, <2>4 DEF HostInv
<1>5. CASE FetchManifest
  <2>1. PICK m \in {app, None} : load' = [load EXCEPT !.pc = "engine", !.manifest = m]
    BY <1>5 DEF FetchManifest
  <2>2. m \in Versions \cup {None}
    BY <1>0, <2>1 DEF HostingTypeOK
  <2> QED
    BY <1>5, <2>1, <2>2, PageStep DEF FetchManifest
<1>6. ASSUME NEW place \in {"chunks", "done", "failed"}, Goto(place),
             place = "done" => Len(load.chunks) = PckChunks,
             UNCHANGED <<serverVars, http, loads>>
      PROVE  HostInv'
  <2>1. load' = [load EXCEPT !.pc = place, !.manifest = load.manifest]
    BY <1>6 DEF Goto, HostInv
  <2> QED
    BY <1>0, <1>6, <2>1, PageStep
<1>7. CASE FetchEngine
  BY <1>6, <1>7 DEF FetchEngine
<1>8. CASE ChunkFromCache \/ StatChunk \/ ReadChunk
  BY <1>8, FromCacheStep, StatStep, ReadStep
<1>9. CASE StartGame
  BY <1>6, <1>9 DEF StartGame
<1>10. CASE FetchFails
  BY <1>6, <1>10 DEF FetchFails
<1>11. CASE UNCHANGED hostingVars
  <2>1. HostingTypeOK'
    BY <1>0, <1>11 DEF hostingVars, HostingTypeOK
  <2> QED
    BY <1>11, <2>1, HostStep DEF hostingVars
<1> QED
  BY <1>1, <1>2, <1>3, <1>4, <1>5, <1>7, <1>8, <1>9, <1>10, <1>11
    DEF HostingNext, LoadStep

\* The invariant holds in every state.
THEOREM HostInvariance == HostingSpec => []HostInv
BY HostInit, HostNext, PTL DEF HostingSpec

\* For any sizes, chunk size and number of versions: if every chunk a page merges
\* has bytes of the scanned version only and was cut by a file_size it has, the
\* merged file is all of game.pck, byte by byte (hosting.py:68-71, :276-300, :374-390).
THEOREM PageMergesTheWholeFile == HostingSpec => []WholeFile
<1>1. HostInv => WholeFile
  BY MergedFacts
<1> QED
  BY <1>1, HostInvariance, PTL

=============================================================================
