------------------------- MODULE IntentRouterProofs -------------------------
(***************************************************************************)
(* Proofs about the intent router (IntentRouter), for any set of calls and *)
(* any lists of providers.                                                 *)
(***************************************************************************)
EXTENDS IntentRouter, WellFoundedInduction, TLAPS

\* The attempt of call c at the provider in position i.
AttemptAt(c, i) == <<c, Providers[c][i]>>

\* The providers of a call are tried in order: what lies beyond the position
\* a call is at has not been tried, and a call of route tries one position.
TriedInOrder(c) ==
    /\ call[c].pc = "idle" => call[c].at = 0 /\ call[c].todo = {}
    /\ \A i \in call[c].todo : i > call[c].at
    /\ \A i \in Positions(c) :
        i > call[c].at /\ Providers[c][i] # Local => future[AttemptAt(c, i)] = "none"
    /\ call[c].mode = "route" =>
        /\ call[c].todo = {}
        /\ \A i \in Positions(c) :
            i # call[c].at /\ Providers[c][i] # Local => future[AttemptAt(c, i)] = "none"

\* What a call knows of the attempt it is at.
AtItsAttempt(c) ==
    /\ call[c].pc \in {"local", "sending", "waiting", "returned"} => call[c].at \in Positions(c)
    /\ AskingRemote(c) => Asked(c) # Local
    /\ call[c].pc = "local" => Asked(c) = Local
    /\ call[c].pc = "returned" /\ Asked(c) # Local => future[Current(c)] = "value"
    /\ call[c].pc = "sending" =>
        /\ future[Current(c)] = "open"
        /\ \A m \in net : m.id # Current(c)
    /\ AskingRemote(c) /\ future[Current(c)] = "open" => Current(c) \in pending

\* What is left of an attempt: only a started attempt has an entry or was
\* executed, a value comes from an execution, and an answered attempt has no
\* entry.
AttemptOK(a) ==
    /\ a \in pending \/ a \in executed => future[a] # "none"
    /\ future[a] = "value" => a \in executed
    /\ future[a] \in {"value", "error"} => a \notin pending
    /\ a \in pending => \/ AskingRemote(a[1]) /\ Current(a[1]) = a
                        \/ future[a] = "open"
                        \/ call[a[1]].pc = "cancelled"

\* A message is for a started attempt, an answer for an executed one.
MessageOK(m) ==
    /\ future[m.id] # "none"
    /\ m.type # "intent" => m.id \in executed

IInv ==
    /\ TypeOK
    /\ \A c \in Calls : TriedInOrder(c) /\ AtItsAttempt(c)
    /\ \A a \in Attempts : AttemptOK(a)
    /\ \A m \in net : MessageOK(m)

-----------------------------------------------------------------------------
(* The loop over the providers.                                            *)

\* Every position is a positive number, and its provider a node.
LEMMA PositionFacts ==
    ASSUME NEW c \in Calls
    PROVE  /\ Positions(c) \subseteq Nat \ {0}
           /\ \A i \in Positions(c) : Providers[c][i] \in Nodes
           /\ \A i, j \in Positions(c) : Providers[c][i] = Providers[c][j] => i = j
<1>1. Providers[c] \in Seq(Nodes)
  BY ProvidersAssumption
<1>2. Positions(c) = 1..Len(Providers[c]) /\ Len(Providers[c]) \in Nat
  BY <1>1 DEF Positions
<1> QED BY <1>1, <1>2, ProvidersAssumption DEF Positions

\* First finds the least position of a set that is not empty.
LEMMA FirstFacts ==
    ASSUME NEW S \in SUBSET Nat, S # {}
    PROVE  First(S) \in S /\ \A j \in S : First(S) <= j
<1>1. PICK i \in S : \A j \in S : ~(<<j, i>> \in OpToRel(<, Nat))
  BY WFMin, NatLessThanWellFounded
<1>2. {j \in S : j < i} = {}
  BY <1>1 DEF OpToRel
<1>3. \A j \in S : i <= j
  BY <1>2
<1> QED BY <1>3 DEF First

\* What a step of the loop does: with no provider left the call raises,
\* otherwise it is at the first of them, at the local one or with a fresh
\* entry, opened, for a remote one.
LoopStep(c, mode, todo, kept, settled, opened) ==
    /\ DOMAIN call' = Calls
    /\ \A d \in Calls \ {c} : call'[d] = call[d]
    /\ call'[c] \in CallState(c)
    /\ call'[c].mode = mode
    /\ \/ /\ todo = {} /\ opened = {}
          /\ call'[c].pc = "raised" /\ call'[c].at = call[c].at /\ call'[c].todo = {}
       \/ /\ call'[c].at \in todo /\ \A j \in todo : call'[c].at <= j
          /\ call'[c].todo = todo \ {call'[c].at}
          /\ \/ Asked(c)' = Local /\ call'[c].pc = "local" /\ opened = {}
             \/ /\ Asked(c)' # Local /\ call'[c].pc \in {"sending", "waiting"}
                /\ opened = {Current(c)'}
    /\ pending' = kept \cup opened
    /\ future' = [a \in Attempts |-> IF a \in opened THEN "open" ELSE settled[a]]

\* Proceed takes a step of the loop.
LEMMA ProceedFacts ==
    ASSUME TypeOK, NEW c \in Calls,
           NEW mode \in {"failover", "route"}, NEW todo \in SUBSET Positions(c),
           NEW kept \in SUBSET Attempts, NEW settled \in [Attempts -> FutureState],
           Proceed(c, mode, todo, kept, settled)
    PROVE  \E opened \in SUBSET Attempts : LoopStep(c, mode, todo, kept, settled, opened)
<1>1. DOMAIN call = Calls /\ call[c] \in CallState(c)
  BY DEF TypeOK
<1>2. CASE todo = {}
  <2>1. call' = [call EXCEPT ![c] = [call[c] EXCEPT !.pc = "raised", !.mode = mode, !.todo = {}]]
        /\ pending' = kept /\ future' = settled
    BY <1>2 DEF Proceed
  <2>2. LoopStep(c, mode, todo, kept, settled, {})
    BY <1>1, <1>2, <2>1 DEF CallState, Ended, LoopStep
  <2> QED BY <2>2
<1>3. CASE todo # {}
  <2> DEFINE i == First(todo)
  <2>1. i \in todo /\ i \in Positions(c) /\ \A j \in todo : i <= j
    BY <1>3, PositionFacts, FirstFacts
  <2>2. CASE Providers[c][i] = Local
    <3>1. call' = [call EXCEPT ![c] = [pc |-> "local", mode |-> mode, at |-> i, todo |-> todo \ {i}]]
          /\ pending' = kept /\ future' = settled
      BY <1>3, <2>2 DEF Proceed
    <3> HIDE DEF i
    <3>2. LoopStep(c, mode, todo, kept, settled, {})
      BY <1>1, <2>1, <2>2, <3>1 DEF CallState, Suspended, LoopStep, Asked
    <3> QED BY <3>2
  <2>3. CASE Providers[c][i] # Local
    <3> DEFINE p == IF link[Providers[c][i]] = "none" THEN "waiting" ELSE "sending"
               a == <<c, Providers[c][i]>>
    <3>1. /\ call' = [call EXCEPT ![c] = [pc |-> p, mode |-> mode, at |-> i, todo |-> todo \ {i}]]
          /\ pending' = kept \cup {a}
          /\ future' = [settled EXCEPT ![a] = "open"]
      BY <1>3, <2>3 DEF Proceed
    <3>2. p \in {"sending", "waiting"}
      OBVIOUS
    <3> HIDE DEF i, p
    <3>3. a \in Attempts
      BY <2>1, <2>3, PositionFacts DEF Attempts, Remotes
    <3>4. /\ call'[c] = [pc |-> p, mode |-> mode, at |-> i, todo |-> todo \ {i}]
          /\ DOMAIN call' = Calls /\ \A d \in Calls \ {c} : call'[d] = call[d]
      BY <1>1, <3>1
    <3>5. Asked(c)' = Providers[c][i] /\ Current(c)' = a
      BY <3>4 DEF Asked, Current
    <3>6. call'[c] \in CallState(c)
      BY <2>1, <3>2, <3>4 DEF CallState, Suspended
    <3>7. future' = [b \in Attempts |-> IF b \in {a} THEN "open" ELSE settled[b]]
      BY <3>1, <3>3
    <3> HIDE DEF a
    <3>8. LoopStep(c, mode, todo, kept, settled, {a})
      BY <2>1, <2>3, <3>1, <3>2, <3>4, <3>5, <3>6, <3>7 DEF LoopStep
    <3> QED BY <3>3, <3>8
  <2> QED BY <2>2, <2>3
<1> QED BY <1>2, <1>3

\* The loop keeps the invariant: it is entered at positions not tried yet,
\* with one position for route, and what the step did before to the attempt it
\* leaves (kept and settled) takes away no entry of another call, changes no
\* future but an open one, to "cancelled", and leaves an entry only if its
\* future is open.
LEMMA ProceedKeeps ==
    ASSUME IInv, NEW c \in Calls,
           NEW mode \in {"failover", "route"}, NEW todo \in SUBSET Positions(c),
           NEW kept \in SUBSET pending, NEW settled \in [Attempts -> FutureState],
           Proceed(c, mode, todo, kept, settled),
           status' \in [Nodes -> {"online", "offline"}],
           UNCHANGED <<link, net, executed>>,
           call[c].pc \notin {"returned", "cancelled"},
           \A i \in todo : i > call[c].at,
           mode = "route" =>
               \/ call[c].pc = "idle" /\ \A i, j \in todo : i = j
               \/ call[c].mode = "route" /\ todo = {},
           \A a \in pending \ kept : a[1] = c,
           \A a \in Attempts : settled[a] = future[a] \/
               /\ future[a] = "open" /\ settled[a] = "cancelled"
               /\ a[1] = c /\ a \notin kept,
           AskingRemote(c) /\ Current(c) \in kept => settled[Current(c)] = "open"
    PROVE  IInv'
<1>1. TypeOK /\ TriedInOrder(c) /\ AtItsAttempt(c)
  BY DEF IInv
<1>2. /\ DOMAIN call = Calls /\ \A d \in Calls : call[d] \in CallState(d)
      /\ pending \in SUBSET Attempts /\ kept \in SUBSET Attempts
      /\ executed \in SUBSET Attempts /\ \A m \in net : m.id \in Attempts
  BY <1>1 DEF TypeOK, Messages
<1>3. PICK opened \in SUBSET Attempts : LoopStep(c, mode, todo, kept, settled, opened)
  BY <1>1, <1>2, ProceedFacts
<1>4. /\ DOMAIN call' = Calls
      /\ \A d \in Calls \ {c} : call'[d] = call[d]
      /\ call'[c] \in CallState(c)
      /\ call'[c].mode = mode
  BY <1>3 DEF LoopStep
<1>5. \/ /\ todo = {} /\ opened = {}
         /\ call'[c].pc = "raised" /\ call'[c].at = call[c].at /\ call'[c].todo = {}
      \/ /\ call'[c].at \in todo /\ \A j \in todo : call'[c].at <= j
         /\ call'[c].todo = todo \ {call'[c].at}
         /\ \/ Asked(c)' = Local /\ call'[c].pc = "local" /\ opened = {}
            \/ /\ Asked(c)' # Local /\ call'[c].pc \in {"sending", "waiting"}
               /\ opened = {Current(c)'}
  BY <1>3 DEF LoopStep
<1>6. /\ \A a \in Attempts : a \in pending' <=> a \in kept \/ a \in opened
      /\ \A a \in Attempts : future'[a] = IF a \in opened THEN "open" ELSE settled[a]
      /\ pending' \in SUBSET Attempts /\ future' \in [Attempts -> FutureState]
  BY <1>2, <1>3 DEF LoopStep, FutureState
<1>7. /\ Positions(c) \subseteq Nat \ {0}
      /\ \A i, j \in Positions(c) : Providers[c][i] = Providers[c][j] => i = j
      /\ \A i \in Positions(c) : Providers[c][i] # Local => AttemptAt(c, i) \in Attempts
  BY PositionFacts DEF Attempts, Remotes, AttemptAt
<1>8. call[c].at \in Nat /\ call'[c].at \in Nat /\ call[c].at \in Positions(c) \cup {0}
  BY <1>2, <1>4, <1>7 DEF CallState
\* Only a fresh attempt of this call is opened, and the call is at it.
<1>9. \A a \in opened : /\ a[1] = c /\ future[a] = "none" /\ settled[a] = "none"
                        /\ a = AttemptAt(c, call'[c].at) /\ call'[c].at \in todo
                        /\ call'[c].pc \in {"sending", "waiting"} /\ Asked(c)' # Local
  <2>1. SUFFICES ASSUME NEW a \in opened
                 PROVE  /\ a[1] = c /\ future[a] = "none" /\ settled[a] = "none"
                        /\ a = AttemptAt(c, call'[c].at) /\ call'[c].at \in todo
                        /\ call'[c].pc \in {"sending", "waiting"} /\ Asked(c)' # Local
    OBVIOUS
  <2>2. /\ a = AttemptAt(c, call'[c].at) /\ a[1] = c /\ call'[c].at \in todo
        /\ call'[c].pc \in {"sending", "waiting"} /\ Asked(c)' # Local
        /\ Providers[c][call'[c].at] # Local
    BY <1>5 DEF Current, Asked, AttemptAt
  <2>3. future[a] = "none"
    BY <1>1, <2>2 DEF TriedInOrder
  <2> QED BY <2>2, <2>3
<1>10. \A a \in Attempts : a[1] # c => future'[a] = future[a] /\ (a \in pending' <=> a \in pending)
  BY <1>6, <1>9
<1>11. TypeOK'
  <2>1. \A d \in Calls : call'[d] \in CallState(d)
    BY <1>2, <1>4
  <2>2. \A d \in Calls : CallState(d)' = CallState(d)
    BY DEF CallState, Positions
  <2>3. \A d \in Calls : call'[d] \in CallState(d)'
    BY <2>1, <2>2
  <2>4. link' = link /\ net' = net /\ executed' = executed
    OBVIOUS
  <2> QED BY <1>1, <1>4, <1>6, <2>3, <2>4 DEF TypeOK
<1>12. ASSUME NEW d \in Calls, d # c PROVE TriedInOrder(d)' /\ AtItsAttempt(d)'
  <2>1. TriedInOrder(d) /\ AtItsAttempt(d) /\ call[d] \in CallState(d) /\ call'[d] = call[d]
    BY <1>2, <1>4, <1>12 DEF IInv
  <2>2. \A i \in Positions(d) : Providers[d][i] # Local =>
            AttemptAt(d, i) \in Attempts /\ AttemptAt(d, i)[1] # c
    BY <1>12, PositionFacts DEF Attempts, Remotes, AttemptAt
  <2>3. \A i \in Positions(d) : Providers[d][i] # Local =>
            future'[AttemptAt(d, i)] = future[AttemptAt(d, i)]
    BY <1>10, <2>2
  <2>4. TriedInOrder(d)'
    BY <2>1, <2>3 DEF TriedInOrder, Positions, AttemptAt
  <2>5. Current(d)' = Current(d) /\ Asked(d)' = Asked(d) /\ AskingRemote(d)' = AskingRemote(d)
    BY <2>1 DEF Current, Asked, AskingRemote
  <2>6. call[d].at \in Positions(d) /\ Asked(d) # Local =>
            /\ Current(d) \in Attempts
            /\ future'[Current(d)] = future[Current(d)]
            /\ Current(d) \in pending' <=> Current(d) \in pending
    BY <1>10, <2>2, <2>3 DEF Current, Asked, AttemptAt
  <2>7. AtItsAttempt(d)'
    BY <2>1, <2>5, <2>6 DEF AtItsAttempt, AskingRemote, Positions
  <2> QED BY <2>4, <2>7
<1>13. TriedInOrder(c)'
  <2>1. call'[c].pc # "idle"
    BY <1>5
  <2>2. \A i \in call'[c].todo : i > call'[c].at
    BY <1>5, <1>7, <1>8
  <2>3. \A i \in Positions(c) : i > call[c].at /\ Providers[c][i] # Local =>
            settled[AttemptAt(c, i)] = "none"
    BY <1>1, <1>7 DEF TriedInOrder
  <2>4. call'[c].at >= call[c].at
    BY <1>5, <1>7, <1>8
  <2>5. ASSUME NEW i \in Positions(c), i # call'[c].at, Providers[c][i] # Local
        PROVE  AttemptAt(c, i) \notin opened
    BY <1>7, <1>9, <2>5 DEF AttemptAt
  <2>6. ASSUME NEW i \in Positions(c), i > call'[c].at, Providers[c][i] # Local
        PROVE  future'[AttemptAt(c, i)] = "none"
    BY <1>6, <1>7, <1>8, <2>3, <2>4, <2>5, <2>6
  <2>7. ASSUME mode = "route" PROVE call'[c].todo = {}
    BY <1>5, <2>7
  <2>8. ASSUME mode = "route",
               NEW i \in Positions(c), i # call'[c].at, Providers[c][i] # Local
        PROVE  future'[AttemptAt(c, i)] = "none"
    <3>1. CASE call[c].pc = "idle"
      BY <1>1, <1>6, <1>7, <2>3, <2>5, <2>8, <3>1 DEF TriedInOrder
    <3>2. CASE call[c].mode = "route" /\ todo = {}
      <4>1. call'[c].at = call[c].at /\ opened = {}
        BY <1>5, <3>2
      <4>2. future[AttemptAt(c, i)] = "none"
        BY <1>1, <2>8, <3>2, <4>1 DEF TriedInOrder
      <4> QED BY <1>6, <1>7, <2>8, <4>1, <4>2
    <3> QED BY <2>8, <3>1, <3>2
  <2> QED BY <1>4, <2>1, <2>2, <2>6, <2>7, <2>8 DEF TriedInOrder, Positions, AttemptAt
<1>14. AtItsAttempt(c)'
  <2>1. CASE call'[c].pc \in {"raised", "local"}
    BY <1>5, <2>1 DEF AtItsAttempt, AskingRemote, Positions
  <2>2. CASE call'[c].pc \in {"sending", "waiting"}
    <3>1. /\ call'[c].at \in Positions(c) /\ Asked(c)' # Local /\ Current(c)' \in opened
      BY <1>5, <2>2
    <3>2. future'[Current(c)'] = "open" /\ Current(c)' \in pending'
      BY <1>6, <3>1
    <3>3. \A m \in net' : m.id # Current(c)'
      BY <1>9, <3>1 DEF IInv, MessageOK
    <3> QED BY <2>2, <3>1, <3>2, <3>3 DEF AtItsAttempt, AskingRemote, Positions
  <2> QED BY <1>5, <2>1, <2>2
<1>15. ASSUME NEW a \in Attempts PROVE AttemptOK(a)'
  <2>1. AttemptOK(a)
    BY DEF IInv
  <2>2. CASE a[1] # c
    <3>1. a[1] \in Calls
      BY DEF Attempts
    <3>2. call'[a[1]] = call[a[1]]
      BY <1>4, <2>2, <3>1
    <3>3. Current(a[1])' = Current(a[1]) /\ AskingRemote(a[1])' = AskingRemote(a[1])
      BY <3>2 DEF Current, Asked, AskingRemote
    <3> QED BY <1>10, <2>1, <2>2, <3>2, <3>3 DEF AttemptOK
  <2>3. CASE a[1] = c /\ a \in opened
    <3>1. AskingRemote(c)' /\ Current(c)' = a
      BY <1>9, <2>3 DEF AskingRemote, Current, Asked, AttemptAt
    <3> QED BY <1>6, <1>9, <2>1, <2>3, <3>1 DEF AttemptOK
  <2>4. CASE a[1] = c /\ a \notin opened
    <3>1. future'[a] = settled[a] /\ (a \in pending' <=> a \in kept)
      BY <1>6, <2>4
    <3>2. a \in kept => settled[a] = "open"
      BY <2>1, <2>4 DEF AttemptOK
    <3> QED BY <2>1, <3>1, <3>2 DEF AttemptOK
  <2> QED BY <2>2, <2>3, <2>4
<1>16. ASSUME NEW m \in net' PROVE MessageOK(m)'
  <2>1. MessageOK(m) /\ m.id \in Attempts
    BY <1>2 DEF IInv
  <2>2. m.id \notin opened /\ settled[m.id] # "none"
    BY <1>9, <2>1 DEF MessageOK
  <2> QED BY <1>6, <2>1, <2>2 DEF MessageOK
<1> QED BY <1>11, <1>12, <1>13, <1>14, <1>15, <1>16 DEF IInv

-----------------------------------------------------------------------------
(* The steps of a call.                                                    *)

\* Nothing has been asked or sent when the router starts.
LEMMA InitIInv == Init => IInv
<1> SUFFICES ASSUME Init PROVE IInv
  OBVIOUS
<1>1. TypeOK
  BY DEF Init, TypeOK, CallState, FutureState, Remotes
<1>2. ASSUME NEW c \in Calls PROVE TriedInOrder(c) /\ AtItsAttempt(c)
  <2>1. call[c] = [pc |-> "idle", mode |-> "route", at |-> 0, todo |-> {}]
    BY DEF Init
  <2>2. \A i \in Positions(c) : Providers[c][i] # Local => future[AttemptAt(c, i)] = "none"
    BY PositionFacts DEF Init, Attempts, Remotes, AttemptAt
  <2> QED BY <2>1, <2>2 DEF TriedInOrder, AtItsAttempt, AskingRemote
<1>3. \A a \in Attempts : AttemptOK(a)
  BY DEF Init, AttemptOK
<1>4. \A m \in net : MessageOK(m)
  BY DEF Init
<1> QED BY <1>1, <1>2, <1>3, <1>4 DEF IInv

\* route_with_failover and route start the loop of a call.
LEMMA RouteKeeps ==
    ASSUME IInv, NEW c \in Calls, RouteWithFailover(c) \/ Route(c)
    PROVE  IInv'
<1>1. /\ TypeOK /\ call[c].pc = "idle" /\ call[c].at = 0
      /\ future \in [Attempts -> FutureState] /\ Positions(c) \subseteq Nat \ {0}
  BY PositionFacts DEF IInv, TypeOK, TriedInOrder, RouteWithFailover, Route
<1>2. OnlinePositions(c) \in SUBSET Positions(c)
  BY DEF OnlinePositions
<1>3. /\ status' \in [Nodes -> {"online", "offline"}] /\ UNCHANGED <<link, net, executed>>
      /\ ~AskingRemote(c)
  BY <1>1 DEF TypeOK, RouteWithFailover, Route, AskingRemote
<1>4. CASE RouteWithFailover(c)
  <2>1. Proceed(c, "failover", OnlinePositions(c), pending, future)
    BY <1>4 DEF RouteWithFailover
  <2>2. \A i \in OnlinePositions(c) : i > call[c].at
    BY <1>1, <1>2
  <2> QED BY <1>1, <1>2, <1>3, <2>1, <2>2, ProceedKeeps
<1>5. CASE Route(c)
  <2>1. PICK pick \in IF OnlinePositions(c) = {} THEN {{}} ELSE {{i} : i \in OnlinePositions(c)} :
            Proceed(c, "route", pick, pending, future)
    BY <1>5 DEF Route
  <2>2. /\ pick \in SUBSET Positions(c) /\ \A i, j \in pick : i = j
        /\ \A i \in pick : i > call[c].at
    BY <1>1, <1>2
  <2> QED BY <1>1, <1>3, <2>1, <2>2, ProceedKeeps
<1> QED BY <1>4, <1>5

\* The next position of a call in progress: beyond the one it is at, and none
\* for route.
LEMMA TodoFacts ==
    ASSUME IInv, NEW c \in Calls
    PROVE  /\ call[c].mode \in {"failover", "route"}
           /\ call[c].todo \in SUBSET Positions(c)
           /\ \A i \in call[c].todo : i > call[c].at
           /\ call[c].mode = "route" => call[c].todo = {}
           /\ call[c].pc \in {"local", "sending", "waiting"} => Asked(c) \in Nodes
           /\ AskingRemote(c) => Current(c) \in Attempts
<1>1. call[c] \in CallState(c) /\ TriedInOrder(c) /\ AtItsAttempt(c)
  BY DEF IInv, TypeOK
<1>2. call[c].pc \in {"local", "sending", "waiting"} => Asked(c) \in Nodes
  BY <1>1, PositionFacts DEF AtItsAttempt, Asked
<1>3. AskingRemote(c) => Current(c) \in Attempts
  BY <1>1, <1>2 DEF AtItsAttempt, AskingRemote, Current, Attempts, Remotes
<1> QED BY <1>1, <1>2, <1>3 DEF CallState, TriedInOrder

\* The attempt at a remote node fails, whatever the reason.
LEMMA FailureKeeps ==
    ASSUME IInv, NEW c \in Calls, AskingRemote(c),
           NEW kept \in SUBSET pending, NEW settled \in [Attempts -> FutureState],
           AttemptFails(c, kept, settled),
           UNCHANGED <<link, net, executed>>,
           \A a \in pending \ kept : a[1] = c,
           \A a \in Attempts : settled[a] = future[a] \/
               /\ future[a] = "open" /\ settled[a] = "cancelled"
               /\ a[1] = c /\ a \notin kept,
           Current(c) \in kept => settled[Current(c)] = "open"
    PROVE  IInv'
<1>1. status' \in [Nodes -> {"online", "offline"}]
  BY TodoFacts DEF AttemptFails, IInv, TypeOK, AskingRemote
<1>2. Proceed(c, call[c].mode, call[c].todo, kept, settled)
  BY DEF AttemptFails
<1>3. call[c].pc \notin {"returned", "cancelled"}
  BY DEF AskingRemote
<1>4. /\ call[c].mode \in {"failover", "route"}
      /\ call[c].todo \in SUBSET Positions(c)
      /\ \A i \in call[c].todo : i > call[c].at
      /\ call[c].mode = "route" => call[c].todo = {}
  BY TodoFacts
<1> DEFINE mode == call[c].mode
           todo == call[c].todo
<1> HIDE DEF mode, todo
<1> QED BY <1>1, <1>2, <1>3, <1>4, ProceedKeeps DEF mode, todo

\* The local execution raises: the loop goes on.
LEMMA LocalRaisesKeeps ==
    ASSUME IInv, NEW c \in Calls, LocalRaises(c)
    PROVE  IInv'
<1>1. /\ call[c].pc = "local" /\ Proceed(c, call[c].mode, call[c].todo, pending, future)
      /\ UNCHANGED <<status, link, net, executed>>
  BY DEF LocalRaises
<1>2. /\ status' \in [Nodes -> {"online", "offline"}] /\ ~AskingRemote(c)
      /\ future \in [Attempts -> FutureState]
  BY <1>1 DEF IInv, TypeOK, AskingRemote
<1>3. /\ call[c].mode \in {"failover", "route"}
      /\ call[c].todo \in SUBSET Positions(c)
      /\ \A i \in call[c].todo : i > call[c].at
      /\ call[c].mode = "route" => call[c].todo = {}
  BY TodoFacts
<1> QED BY <1>1, <1>2, <1>3, ProceedKeeps

\* A send that raises leaves an entry whose future is open.
LEMMA SendRaisesKeeps ==
    ASSUME IInv, NEW c \in Calls, SendRaises(c)
    PROVE  IInv'
<1>1. /\ AskingRemote(c) /\ AttemptFails(c, pending, future)
      /\ UNCHANGED <<link, net, executed>> /\ future[Current(c)] = "open"
      /\ future \in [Attempts -> FutureState]
  BY DEF SendRaises, AskingRemote, IInv, AtItsAttempt, TypeOK
<1> QED BY <1>1, FailureKeeps

\* A future that has an error has no entry any more.
LEMMA ResumeWithErrorKeeps ==
    ASSUME IInv, NEW c \in Calls, ResumeWithError(c)
    PROVE  IInv'
<1>1. /\ AskingRemote(c) /\ AttemptFails(c, pending, future)
      /\ UNCHANGED <<link, net, executed>> /\ future[Current(c)] = "error"
      /\ future \in [Attempts -> FutureState]
  BY DEF ResumeWithError, AskingRemote, IInv, TypeOK
<1>2. Current(c) \notin pending
  BY <1>1, TodoFacts DEF IInv, AttemptOK
<1> QED BY <1>1, <1>2, FailureKeeps

\* A timeout takes its own entry with it.
LEMMA TimeoutKeeps ==
    ASSUME IInv, NEW c \in Calls, Timeout(c)
    PROVE  IInv'
<1> DEFINE kept == pending \ {Current(c)}
           settled == [future EXCEPT ![Current(c)] = IF @ = "open" THEN "cancelled" ELSE @]
<1>1. /\ AskingRemote(c) /\ AttemptFails(c, kept, settled) /\ UNCHANGED <<link, net, executed>>
  BY DEF Timeout, AskingRemote
<1>2. Current(c) \in Attempts /\ Current(c)[1] = c /\ future \in [Attempts -> FutureState]
  BY <1>1, TodoFacts DEF Current, IInv, TypeOK
<1>3. settled \in [Attempts -> FutureState]
  BY <1>2 DEF FutureState
<1>4. \A a \in Attempts : settled[a] = future[a] \/
          /\ future[a] = "open" /\ settled[a] = "cancelled"
          /\ a[1] = c /\ a \notin kept
  BY <1>2
<1>5. kept \in SUBSET pending /\ Current(c) \notin kept /\ \A a \in pending \ kept : a[1] = c
  BY <1>2
<1> HIDE DEF kept, settled
<1> QED BY <1>1, <1>3, <1>4, <1>5, FailureKeeps

\* A call that goes to another place, at the provider it is at: its other
\* fields and the other calls are what they were.
LEMMA GotoFacts ==
    ASSUME TypeOK, NEW c \in Calls, NEW p \in Suspended \cup Ended,
           call' = [call EXCEPT ![c].pc = p]
    PROVE  /\ DOMAIN call' = Calls /\ \A d \in Calls : call'[d] \in CallState(d)'
           /\ call'[c].pc = p
           /\ \A d \in Calls :
                /\ call'[d].at = call[d].at /\ call'[d].todo = call[d].todo
                /\ call'[d].mode = call[d].mode
                /\ Asked(d)' = Asked(d) /\ Current(d)' = Current(d)
                /\ d # c => call'[d].pc = call[d].pc
<1>1. DOMAIN call = Calls /\ \A d \in Calls : call[d] \in CallState(d)
  BY DEF TypeOK
<1>2. call'[c] = [call[c] EXCEPT !.pc = p] /\ DOMAIN call' = Calls
      /\ \A d \in Calls \ {c} : call'[d] = call[d]
  BY <1>1
<1>3. /\ call'[c].pc = p /\ call'[c].at = call[c].at /\ call'[c].todo = call[c].todo
      /\ call'[c].mode = call[c].mode /\ call'[c] \in CallState(c)
  BY <1>1, <1>2 DEF CallState
<1>4. \A d \in Calls : CallState(d)' = CallState(d)
  BY DEF CallState, Positions
<1>5. \A d \in Calls : call'[d] \in CallState(d)'
  BY <1>1, <1>2, <1>3, <1>4
<1>6. \A d \in Calls : /\ call'[d].at = call[d].at /\ call'[d].todo = call[d].todo
                       /\ call'[d].mode = call[d].mode
                       /\ d # c => call'[d].pc = call[d].pc
  BY <1>2, <1>3
<1>7. \A d \in Calls : Asked(d)' = Asked(d) /\ Current(d)' = Current(d)
  BY <1>6 DEF Asked, Current
<1> QED BY <1>2, <1>3, <1>5, <1>6, <1>7

\* A call returns, from the local node or with the value of its future.
LEMMA ReturnKeeps ==
    ASSUME IInv, NEW c \in Calls, LocalReturns(c) \/ ResumeWithValue(c)
    PROVE  IInv'
<1>1. /\ call' = [call EXCEPT ![c].pc = "returned"] /\ TypeOK
      /\ UNCHANGED <<status, link, pending, future, net, executed>>
      /\ call[c].pc \in {"local", "waiting"}
      /\ Asked(c) # Local => AskingRemote(c) /\ future[Current(c)] = "value"
      /\ AskingRemote(c) => future[Current(c)] = "value"
  BY DEF LocalReturns, ResumeWithValue, Return, IInv, AtItsAttempt, AskingRemote
<1>2. /\ DOMAIN call' = Calls /\ \A d \in Calls : call'[d] \in CallState(d)'
      /\ call'[c].pc = "returned"
      /\ \A d \in Calls :
            /\ call'[d].at = call[d].at /\ call'[d].todo = call[d].todo
            /\ call'[d].mode = call[d].mode
            /\ Asked(d)' = Asked(d) /\ Current(d)' = Current(d)
            /\ d # c => call'[d].pc = call[d].pc
  BY <1>1, GotoFacts DEF Ended
<1>3. TypeOK'
  BY <1>1, <1>2 DEF TypeOK
<1>4. ASSUME NEW d \in Calls PROVE TriedInOrder(d)' /\ AtItsAttempt(d)'
  <2>1. TriedInOrder(d) /\ AtItsAttempt(d)
    BY DEF IInv
  <2>2. TriedInOrder(d)'
    BY <1>1, <1>2, <2>1 DEF TriedInOrder, Positions, AttemptAt
  <2>3. /\ call'[d].at = call[d].at /\ Asked(d)' = Asked(d) /\ Current(d)' = Current(d)
        /\ d # c => call'[d].pc = call[d].pc
    BY <1>2
  <2>4. CASE d = c
    BY <1>1, <1>2, <2>1, <2>2, <2>3, <2>4 DEF AtItsAttempt, AskingRemote, Positions
  <2>5. CASE d # c
    BY <1>1, <2>1, <2>2, <2>3, <2>5 DEF AtItsAttempt, AskingRemote, Positions
  <2> QED BY <2>4, <2>5
<1>5. ASSUME NEW a \in Attempts PROVE AttemptOK(a)'
  <2>1. AttemptOK(a) /\ a[1] \in Calls
    BY DEF IInv, Attempts
  <2>2. a \in pending => ~(AskingRemote(c) /\ Current(c) = a)
    BY <1>1, <2>1 DEF AttemptOK
  <2> QED BY <1>1, <1>2, <2>1, <2>2 DEF AttemptOK, AskingRemote
<1>6. \A m \in net' : MessageOK(m)'
  BY <1>1 DEF IInv, MessageOK
<1> QED BY <1>3, <1>4, <1>5, <1>6 DEF IInv

\* The intent is sent, for an attempt that is open.
LEMMA SendCompletesKeeps ==
    ASSUME IInv, NEW c \in Calls, SendCompletes(c)
    PROVE  IInv'
<1>1. /\ call' = [call EXCEPT ![c].pc = "waiting"] /\ TypeOK
      /\ net' = net \cup {[type |-> "intent", id |-> Current(c)]}
      /\ UNCHANGED <<status, link, pending, future, executed>>
      /\ call[c].pc = "sending" /\ AskingRemote(c)
  BY DEF SendCompletes, IInv, AskingRemote
<1>2. Current(c) \in Attempts /\ future[Current(c)] = "open" /\ Current(c)[1] = c
  BY <1>1, TodoFacts DEF IInv, AtItsAttempt, Current
<1>3. /\ DOMAIN call' = Calls /\ \A d \in Calls : call'[d] \in CallState(d)'
      /\ call'[c].pc = "waiting"
      /\ \A d \in Calls :
            /\ call'[d].at = call[d].at /\ call'[d].todo = call[d].todo
            /\ call'[d].mode = call[d].mode
            /\ Asked(d)' = Asked(d) /\ Current(d)' = Current(d)
            /\ d # c => call'[d].pc = call[d].pc
  BY <1>1, GotoFacts DEF Suspended
<1>4. TypeOK'
  BY <1>1, <1>2, <1>3 DEF TypeOK, Messages
<1>5. ASSUME NEW d \in Calls PROVE TriedInOrder(d)' /\ AtItsAttempt(d)'
  <2>1. TriedInOrder(d) /\ AtItsAttempt(d)
    BY DEF IInv
  <2>2. TriedInOrder(d)'
    BY <1>1, <1>3, <2>1 DEF TriedInOrder, Positions, AttemptAt
  <2>3. /\ call'[d].at = call[d].at /\ Asked(d)' = Asked(d) /\ Current(d)' = Current(d)
        /\ d # c => call'[d].pc = call[d].pc
    BY <1>3
  <2>4. CASE d = c
    BY <1>1, <1>3, <2>1, <2>2, <2>3, <2>4 DEF AtItsAttempt, AskingRemote, Positions
  <2>5. CASE d # c
    <3>1. Current(d) # Current(c)
      BY <2>5 DEF Current
    <3>2. \A m \in net' : m \in net \/ m.id = Current(c)
      BY <1>1
    <3> QED BY <1>1, <2>1, <2>2, <2>3, <2>5, <3>1, <3>2 DEF AtItsAttempt, AskingRemote, Positions
  <2> QED BY <2>4, <2>5
<1>6. ASSUME NEW a \in Attempts PROVE AttemptOK(a)'
  <2>1. AttemptOK(a) /\ a[1] \in Calls
    BY DEF IInv, Attempts
  <2> QED BY <1>1, <1>3, <2>1 DEF AttemptOK, AskingRemote
<1>7. ASSUME NEW m \in net' PROVE MessageOK(m)'
  <2>1. CASE m \in net
    BY <1>1, <2>1 DEF IInv, MessageOK
  <2>2. CASE m = [type |-> "intent", id |-> Current(c)]
    BY <1>1, <1>2, <2>2 DEF MessageOK
  <2> QED BY <1>1, <2>1, <2>2
<1> QED BY <1>4, <1>5, <1>6, <1>7 DEF IInv

\* The caller is cancelled: its future is, if it was waiting for it.
LEMMA CancelKeeps ==
    ASSUME IInv, NEW c \in Calls, Cancel(c)
    PROVE  IInv'
<1>1. /\ call' = [call EXCEPT ![c].pc = "cancelled"] /\ TypeOK
      /\ UNCHANGED <<status, link, pending, net, executed>>
      /\ call[c].pc \in {"local", "sending", "waiting"}
  BY DEF Cancel, IInv, Suspended
<1>2. /\ DOMAIN call' = Calls /\ \A d \in Calls : call'[d] \in CallState(d)'
      /\ call'[c].pc = "cancelled"
      /\ \A d \in Calls :
            /\ call'[d].at = call[d].at /\ call'[d].todo = call[d].todo
            /\ call'[d].mode = call[d].mode
            /\ Asked(d)' = Asked(d) /\ Current(d)' = Current(d)
            /\ d # c => call'[d].pc = call[d].pc
  BY <1>1, GotoFacts DEF Ended
<1>3. /\ future' \in [Attempts -> FutureState]
      /\ \A a \in Attempts : \/ future'[a] = future[a]
                             \/ future[a] = "open" /\ future'[a] = "cancelled" /\ a[1] = c
  <2>1. CASE call[c].pc = "waiting" /\ future[Current(c)] = "open"
    <3>1. future' = [future EXCEPT ![Current(c)] = "cancelled"]
      BY <2>1 DEF Cancel
    <3>2. Current(c) \in Attempts /\ Current(c)[1] = c
      BY <2>1, TodoFacts DEF AskingRemote, Current
    <3> QED BY <1>1, <2>1, <3>1, <3>2 DEF TypeOK, FutureState
  <2>2. CASE ~(call[c].pc = "waiting" /\ future[Current(c)] = "open")
    <3>1. future' = future
      BY <2>2 DEF Cancel
    <3> QED BY <1>1, <3>1 DEF TypeOK
  <2> QED BY <2>1, <2>2
<1>4. TypeOK'
  BY <1>1, <1>2, <1>3 DEF TypeOK
<1>5. ASSUME NEW d \in Calls PROVE TriedInOrder(d)' /\ AtItsAttempt(d)'
  <2>1. TriedInOrder(d) /\ AtItsAttempt(d)
    BY DEF IInv
  <2>2. \A i \in Positions(d) : Providers[d][i] # Local =>
            AttemptAt(d, i) \in Attempts /\ AttemptAt(d, i)[1] = d
    BY PositionFacts DEF Attempts, Remotes, AttemptAt
  <2>3. \A i \in Positions(d) : Providers[d][i] # Local /\ future[AttemptAt(d, i)] = "none" =>
            future'[AttemptAt(d, i)] = "none"
    BY <1>3, <2>2
  <2>4. /\ \A i \in Positions(d) : i > call[d].at /\ Providers[d][i] # Local =>
                future'[AttemptAt(d, i)] = "none"
        /\ call[d].mode = "route" => \A i \in Positions(d) :
                i # call[d].at /\ Providers[d][i] # Local => future'[AttemptAt(d, i)] = "none"
    BY <2>1, <2>3 DEF TriedInOrder
  <2>5. call'[d].pc = "idle" => call[d].pc = "idle"
    BY <1>2
  <2>6. TriedInOrder(d)'
    BY <1>2, <2>1, <2>4, <2>5 DEF TriedInOrder, Positions, AttemptAt
  <2>7. CASE d = c
    <3>1. call'[d].pc = "cancelled"
      BY <1>2, <2>7
    <3> QED BY <2>6, <3>1 DEF AtItsAttempt, AskingRemote
  <2>8. CASE d # c
    <3>1. call[d].at \in Positions(d) /\ Asked(d) # Local =>
            /\ Current(d) \in Attempts /\ future'[Current(d)] = future[Current(d)]
      BY <1>3, <2>2, <2>8 DEF Current, Asked, AttemptAt
    <3>2. /\ call'[d].at = call[d].at /\ Asked(d)' = Asked(d) /\ Current(d)' = Current(d)
          /\ call'[d].pc = call[d].pc
      BY <1>2, <2>8
    <3> QED BY <1>1, <2>1, <2>6, <3>1, <3>2 DEF AtItsAttempt, AskingRemote, Positions
  <2> QED BY <2>7, <2>8
<1>6. ASSUME NEW a \in Attempts PROVE AttemptOK(a)'
  <2>1. AttemptOK(a) /\ a[1] \in Calls
    BY DEF IInv, Attempts
  <2>2. CASE a[1] = c
    BY <1>1, <1>2, <1>3, <2>1, <2>2 DEF AttemptOK
  <2>3. CASE a[1] # c
    BY <1>1, <1>2, <1>3, <2>1, <2>3 DEF AttemptOK, AskingRemote
  <2> QED BY <2>2, <2>3
<1>7. \A m \in net' : MessageOK(m)'
  BY <1>1, <1>3 DEF IInv, MessageOK, TypeOK, Messages
<1> QED BY <1>4, <1>5, <1>6, <1>7 DEF IInv

-----------------------------------------------------------------------------
(* Messages and the bridge.                                                *)

\* A remote node executes an intent and answers, or does not.
LEMMA RemoteExecutesKeeps ==
    ASSUME IInv, NEW m \in net, RemoteExecutes(m)
    PROVE  IInv'
<1>1. /\ TypeOK /\ MessageOK(m) /\ m.id \in Attempts
      /\ executed' = executed \cup {m.id}
      /\ UNCHANGED <<status, link, call, pending, future>>
  BY DEF RemoteExecutes, IInv, TypeOK, Messages
<1>2. /\ net' \in SUBSET Messages
      /\ \A x \in net' : x \in net \/ x.id = m.id
  <2>1. PICK replies \in {{"result"}, {"failure"}, {"error"}, {}} :
            net' = (net \ {m}) \cup {[type |-> t, id |-> m.id] : t \in replies}
    BY DEF RemoteExecutes
  <2>2. \A t \in replies : [type |-> t, id |-> m.id] \in Messages
    BY <1>1, <2>1 DEF Messages
  <2> QED BY <1>1, <2>1, <2>2 DEF TypeOK
<1>3. TypeOK'
  <2>1. \A d \in Calls : CallState(d)' = CallState(d)
    BY DEF CallState, Positions
  <2> QED BY <1>1, <1>2, <2>1 DEF TypeOK
<1>4. ASSUME NEW d \in Calls PROVE TriedInOrder(d)' /\ AtItsAttempt(d)'
  <2>1. TriedInOrder(d) /\ AtItsAttempt(d)
    BY DEF IInv
  <2>2. TriedInOrder(d)'
    BY <1>1, <2>1 DEF TriedInOrder, Positions, AttemptAt
  <2>3. Asked(d)' = Asked(d) /\ Current(d)' = Current(d) /\ AskingRemote(d)' = AskingRemote(d)
    BY <1>1 DEF Asked, Current, AskingRemote
  <2> QED BY <1>1, <1>2, <2>1, <2>2, <2>3 DEF AtItsAttempt, Positions
<1>5. ASSUME NEW a \in Attempts PROVE AttemptOK(a)'
  <2>1. AttemptOK(a) /\ Current(a[1])' = Current(a[1]) /\ AskingRemote(a[1])' = AskingRemote(a[1])
    BY <1>1 DEF IInv, Asked, Current, AskingRemote
  <2> QED BY <1>1, <2>1 DEF AttemptOK, MessageOK
<1>6. \A x \in net' : MessageOK(x)'
  BY <1>1, <1>2 DEF IInv, MessageOK
<1> QED BY <1>3, <1>4, <1>5, <1>6 DEF IInv

\* An answer settles the future of its own attempt and takes the entry.
LEMMA HandleReplyKeeps ==
    ASSUME IInv, NEW m \in net, HandleReply(m)
    PROVE  IInv'
<1>1. /\ TypeOK /\ MessageOK(m) /\ m.id \in Attempts /\ m.id \in executed
      /\ net' = net \ {m} /\ pending' = pending \ {m.id}
      /\ UNCHANGED <<status, link, call, executed>>
  BY DEF HandleReply, IInv, TypeOK, Messages, MessageOK
<1>2. /\ future' \in [Attempts -> FutureState]
      /\ \A a \in Attempts : a # m.id => future'[a] = future[a]
      /\ \/ future'[m.id] = future[m.id] /\ (future[m.id] # "open" \/ m.id \notin pending)
         \/ future[m.id] = "open" /\ future'[m.id] \in {"value", "error"}
  <2>1. CASE m.id \in pending /\ future[m.id] = "open"
    <3>1. future' = [future EXCEPT ![m.id] = IF m.type = "result" THEN "value" ELSE "error"]
      BY <2>1 DEF HandleReply
    <3> QED BY <1>1, <2>1, <3>1 DEF TypeOK, FutureState
  <2>2. CASE ~(m.id \in pending /\ future[m.id] = "open")
    <3>1. future' = future
      BY <2>2 DEF HandleReply
    <3> QED BY <1>1, <2>2, <3>1 DEF TypeOK
  <2> QED BY <2>1, <2>2
<1>3. TypeOK'
  <2>1. \A d \in Calls : CallState(d)' = CallState(d)
    BY DEF CallState, Positions
  <2> QED BY <1>1, <1>2, <2>1 DEF TypeOK
<1>4. ASSUME NEW d \in Calls PROVE TriedInOrder(d)' /\ AtItsAttempt(d)'
  <2>1. TriedInOrder(d) /\ AtItsAttempt(d)
    BY DEF IInv
  <2>2. \A i \in Positions(d) : Providers[d][i] # Local => AttemptAt(d, i) \in Attempts
    BY PositionFacts DEF Attempts, Remotes, AttemptAt
  <2>3. \A i \in Positions(d) : Providers[d][i] # Local /\ future[AttemptAt(d, i)] = "none" =>
            future'[AttemptAt(d, i)] = "none"
    BY <1>1, <1>2, <2>2 DEF MessageOK
  <2>4. TriedInOrder(d)'
    BY <1>1, <2>1, <2>3 DEF TriedInOrder, Positions, AttemptAt
  <2>5. Asked(d)' = Asked(d) /\ Current(d)' = Current(d) /\ AskingRemote(d)' = AskingRemote(d)
    BY <1>1 DEF Asked, Current, AskingRemote
  <2>6. call[d].at \in Positions(d) /\ Asked(d) # Local =>
            /\ Current(d) \in Attempts
            /\ future[Current(d)] = "value" => future'[Current(d)] = "value"
            /\ Current(d) # m.id => future'[Current(d)] = future[Current(d)]
            /\ future'[Current(d)] = "open" /\ Current(d) \in pending => Current(d) \in pending'
            /\ future'[Current(d)] = "open" => future[Current(d)] = "open"
    BY <1>1, <1>2, <2>2 DEF Current, Asked, AttemptAt
  <2>7. AtItsAttempt(d)'
    BY <1>1, <2>1, <2>5, <2>6 DEF AtItsAttempt, AskingRemote, Positions
  <2> QED BY <2>4, <2>7
<1>5. ASSUME NEW a \in Attempts PROVE AttemptOK(a)'
  <2>1. AttemptOK(a) /\ Current(a[1])' = Current(a[1]) /\ AskingRemote(a[1])' = AskingRemote(a[1])
    BY <1>1 DEF IInv, Asked, Current, AskingRemote
  <2> QED BY <1>1, <1>2, <2>1 DEF AttemptOK
<1>6. \A x \in net' : MessageOK(x)'
  BY <1>1, <1>2 DEF IInv, MessageOK, TypeOK, Messages
<1> QED BY <1>3, <1>4, <1>5, <1>6 DEF IInv

\* The links, the status of the nodes and lost messages are not read by the
\* invariant, apart from their types.
LEMMA EnvironmentKeeps ==
    ASSUME IInv, UNCHANGED <<call, pending, future, executed>>,
           status' \in [Nodes -> {"online", "offline"}],
           link' \in [Remotes -> {"up", "dying", "none"}], net' \in SUBSET net
    PROVE  IInv'
<1>1. TypeOK'
  <2>1. \A d \in Calls : CallState(d)' = CallState(d)
    BY DEF CallState, Positions
  <2> QED BY <2>1 DEF IInv, TypeOK
<1>2. ASSUME NEW d \in Calls PROVE TriedInOrder(d)' /\ AtItsAttempt(d)'
  <2>1. TriedInOrder(d) /\ AtItsAttempt(d)
    BY DEF IInv
  <2>2. Asked(d)' = Asked(d) /\ Current(d)' = Current(d) /\ AskingRemote(d)' = AskingRemote(d)
    BY DEF Asked, Current, AskingRemote
  <2> QED BY <2>1, <2>2 DEF TriedInOrder, AtItsAttempt, Positions, AttemptAt
<1>3. ASSUME NEW a \in Attempts PROVE AttemptOK(a)'
  BY DEF IInv, AttemptOK, Asked, Current, AskingRemote
<1>4. \A m \in net' : MessageOK(m)'
  BY DEF IInv, MessageOK
<1> QED BY <1>1, <1>2, <1>3, <1>4 DEF IInv

\* Every step of the router, its calls, the network and the bridge keeps the
\* invariant.
LEMMA NextIInv == IInv /\ [Next]_vars => IInv'
<1> SUFFICES ASSUME IInv, [Next]_vars PROVE IInv'
  OBVIOUS
<1>1. TypeOK
  BY DEF IInv
<1>2. ASSUME NEW c \in Calls, RouteWithFailover(c) \/ Route(c) \/ CallStep(c) \/ Cancel(c)
      PROVE  IInv'
  BY <1>2, RouteKeeps, LocalRaisesKeeps, ReturnKeeps, SendCompletesKeeps, SendRaisesKeeps,
     ResumeWithErrorKeeps, TimeoutKeeps, CancelKeeps DEF CallStep
<1>3. ASSUME NEW m \in net, RemoteExecutes(m) PROVE IInv'
  BY <1>3, RemoteExecutesKeeps
<1>4. ASSUME NEW m \in net, HandleReply(m) PROVE IInv'
  BY <1>4, HandleReplyKeeps
<1>5. ASSUME NEW m \in net, Lose(m) PROVE IInv'
  BY <1>1, <1>5, EnvironmentKeeps DEF Lose, TypeOK
<1>6. ASSUME NEW n \in Remotes, LinkBreaks(n) \/ ListenerEnds(n) \/ HeartbeatArrives(n)
      PROVE  IInv'
  <2>1. n \in Nodes
    BY DEF Remotes
  <2>2. /\ status' \in [Nodes -> {"online", "offline"}]
        /\ link' \in [Remotes -> {"up", "dying", "none"}]
        /\ UNCHANGED <<call, pending, future, executed, net>>
    BY <1>1, <1>6, <2>1 DEF TypeOK, LinkBreaks, ListenerEnds, HeartbeatArrives
  <2> QED BY <2>2, EnvironmentKeeps
<1>7. CASE UNCHANGED vars
  BY <1>1, <1>7, EnvironmentKeeps DEF vars, TypeOK
<1> QED BY <1>2, <1>3, <1>4, <1>5, <1>6, <1>7 DEF Next

\* The inductive invariant holds in every reachable state.
THEOREM Invariance == Spec => []IInv
BY InitIInv, NextIInv, PTL DEF Spec

-----------------------------------------------------------------------------
(* The properties.                                                         *)

\* Type correctness of the router, for any calls and providers.
THEOREM TypeCorrect == Spec => []TypeOK
<1>1. IInv => TypeOK
  BY DEF IInv
<1> QED BY <1>1, Invariance, PTL

\* A call only ever returns the answer to its own attempt.
THEOREM AnswerIsOwn == Spec => []OwnAnswer
<1>1. IInv => OwnAnswer
  <2> SUFFICES ASSUME IInv, NEW c \in Calls, call[c].pc = "returned", Asked(c) # Local
               PROVE  Current(c) \in executed /\ future[Current(c)] = "value"
    BY DEF OwnAnswer
  <2>1. call[c].at \in Positions(c) /\ future[Current(c)] = "value"
    BY DEF IInv, AtItsAttempt
  <2>2. Current(c) \in Attempts
    BY <2>1, PositionFacts DEF Current, Asked, Attempts, Remotes
  <2> QED BY <2>1, <2>2 DEF IInv, AttemptOK
<1> QED BY <1>1, Invariance, PTL

\* A call that waits with an open future has its entry in _pending.
THEOREM WaitersAreReachable == Spec => []WaiterIsReachable
<1>1. IInv => WaiterIsReachable
  BY DEF IInv, AtItsAttempt, WaiterIsReachable
<1> QED BY <1>1, Invariance, PTL

\* Only a failed send and a cancelled caller leave an entry in _pending.
THEOREM LeaksAreExplained == Spec => []LeaksAreSendFailures
<1>1. IInv => LeaksAreSendFailures
  BY DEF IInv, TypeOK, AttemptOK, LeaksAreSendFailures
<1> QED BY <1>1, Invariance, PTL

\* Two executions of one intent are the doing of failover, in order.
THEOREM RetriesAreFailover == Spec => []RetriedOnlyByFailover
<1>1. IInv => RetriedOnlyByFailover
  <2> SUFFICES ASSUME IInv, NEW c \in Calls, NEW i \in Positions(c), NEW j \in Positions(c),
                      i < j, AttemptAt(c, i) \in executed, AttemptAt(c, j) \in executed
               PROVE  call[c].mode = "failover" /\ call[c].at > i
    BY DEF RetriedOnlyByFailover, AttemptAt
  <2>1. /\ TriedInOrder(c) /\ call[c] \in CallState(c) /\ executed \subseteq Attempts
        /\ AttemptAt(c, i) \in Attempts /\ AttemptAt(c, j) \in Attempts
    BY DEF IInv, TypeOK
  <2>2. Providers[c][i] # Local /\ Providers[c][j] # Local
    BY <2>1 DEF AttemptAt, Attempts, Remotes
  <2>3. future[AttemptAt(c, i)] # "none" /\ future[AttemptAt(c, j)] # "none"
    BY <2>1 DEF IInv, AttemptOK
  <2>4. ~(j > call[c].at)
    BY <2>1, <2>2, <2>3 DEF TriedInOrder
  <2>5. i \in Nat /\ j \in Nat /\ call[c].at \in Nat
    BY <2>1, PositionFacts DEF CallState
  <2>6. call[c].mode # "route"
    BY <2>1, <2>2, <2>3, <2>5 DEF TriedInOrder
  <2> QED BY <2>1, <2>4, <2>5, <2>6 DEF CallState
<1> QED BY <1>1, Invariance, PTL

=============================================================================
