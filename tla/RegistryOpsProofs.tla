-------------------------- MODULE RegistryOpsProofs --------------------------
(***************************************************************************)
(* What the operations of the registry's data structure (RegistryOps) do,  *)
(* for any sets of node ids and patterns.                                   *)
(***************************************************************************)
EXTENDS RegistryOps, SequenceTheorems, FiniteSetTheorems, TLAPS

\* A list without repetition.
Injective(ids) == \A i, j \in DOMAIN ids : ids[i] = ids[j] => i = j

\* A well-formed index.
IsIndex(map, ids, patterns) ==
    /\ map = [svc \in DOMAIN map |-> map[svc]]
    /\ DOMAIN map \subseteq patterns
    /\ \A svc \in DOMAIN map :
        map[svc] \in Seq(ids) /\ map[svc] # << >> /\ Injective(map[svc])

\* The nodes an index lists under a pattern.
ListedUnder(map, svc) == IdsIn(IdsFor(map, svc))

-----------------------------------------------------------------------------
(* What the list operations do.                                            *)

\* The guarded append of register_node and update_services keeps a list free
\* of repetition and adds exactly the one node.
LEMMA AddIdFacts ==
    ASSUME NEW S, NEW ids \in Seq(S), NEW n \in S, Injective(ids)
    PROVE  /\ AddId(ids, n) \in Seq(S)
           /\ AddId(ids, n) # << >>
           /\ Injective(AddId(ids, n))
           /\ IdsIn(AddId(ids, n)) = IdsIn(ids) \cup {n}
<1>1. CASE n \in IdsIn(ids)
  BY <1>1 DEF AddId, IdsIn
<1>2. CASE n \notin IdsIn(ids)
  <2> DEFINE t == Append(ids, n)
  <2>1. AddId(ids, n) = t
    BY <1>2 DEF AddId
  <2>2. /\ t \in Seq(S) /\ Len(t) = Len(ids) + 1 /\ Len(ids) \in Nat
        /\ DOMAIN t = 1..(Len(ids) + 1) /\ DOMAIN ids = 1..Len(ids)
        /\ \A i \in 1..Len(ids) : t[i] = ids[i]
        /\ t[Len(ids) + 1] = n
    OBVIOUS
  <2> HIDE DEF t
  <2>3. Injective(t)
    BY <1>2, <2>2 DEF Injective, IdsIn
  <2>4. IdsIn(t) = IdsIn(ids) \cup {n}
    <3>1. ASSUME NEW x \in IdsIn(t) PROVE x \in IdsIn(ids) \cup {n}
      BY <2>2 DEF IdsIn
    <3>2. ASSUME NEW x \in IdsIn(ids) PROVE x \in IdsIn(t)
      BY <2>2 DEF IdsIn
    <3>3. n \in IdsIn(t)
      BY <2>2 DEF IdsIn
    <3> QED
      BY <3>1, <3>2, <3>3
  <2> QED
    BY <2>1, <2>2, <2>3, <2>4
<1> QED
  BY <1>1, <1>2

\* Removing position i of a list.
LEMMA RemoveAtFacts ==
    ASSUME NEW S, NEW ids \in Seq(S), NEW i \in 1..Len(ids)
    PROVE  /\ RemoveAt(ids, i) \in Seq(S)
           /\ Len(RemoveAt(ids, i)) = Len(ids) - 1
           /\ \A j \in 1..(Len(ids) - 1) :
                RemoveAt(ids, i)[j] = IF j < i THEN ids[j] ELSE ids[j + 1]
<1> DEFINE a == SubSeq(ids, 1, i - 1)
           b == SubSeq(ids, i + 1, Len(ids))
<1>1. a \in Seq(S) /\ Len(a) = i - 1 /\ \A j \in 1..(i - 1) : a[j] = ids[j]
  <2>1. a \in Seq(S)
    OBVIOUS
  <2>2. Len(a) = i - 1 /\ \A j \in 1..(i - 1) : a[j] = ids[j]
    BY Z3
  <2> QED
    BY <2>1, <2>2
<1>2. b \in Seq(S) /\ Len(b) = Len(ids) - i /\ \A j \in 1..(Len(ids) - i) : b[j] = ids[j + i]
  <2>1. b \in Seq(S)
    OBVIOUS
  <2>2. Len(b) = Len(ids) - i /\ \A j \in 1..(Len(ids) - i) : b[j] = ids[j + i]
    BY Z3
  <2> QED
    BY <2>1, <2>2
<1>3. RemoveAt(ids, i) = a \o b
  BY DEF RemoveAt
<1> HIDE DEF a, b
<1>4. /\ a \o b \in Seq(S) /\ Len(a \o b) = Len(a) + Len(b)
      /\ \A j \in 1..(Len(a) + Len(b)) :
            (a \o b)[j] = IF j <= Len(a) THEN a[j] ELSE b[j - Len(a)]
  BY <1>1, <1>2, ConcatProperties
<1>5. Len(a) + Len(b) = Len(ids) - 1
  BY <1>1, <1>2
<1>6. ASSUME NEW j \in 1..(Len(ids) - 1)
      PROVE  (a \o b)[j] = IF j < i THEN ids[j] ELSE ids[j + 1]
  <2>1. CASE j < i
    BY <1>1, <1>4, <1>5, <2>1
  <2>2. CASE ~(j < i)
    <3>1. j - (i - 1) \in 1..(Len(ids) - i) /\ (j - (i - 1)) + i = j + 1
      BY <2>2
    <3>2. (a \o b)[j] = b[j - (i - 1)]
      BY <1>1, <1>4, <1>5, <2>2
    <3> QED
      BY <1>2, <2>2, <3>1, <3>2
  <2> QED
    BY <2>1, <2>2
<1> QED
  BY <1>3, <1>4, <1>5, <1>6

\* The filter of unregister_node and update_services on a list without
\* repetition: exactly the one node is gone.
LEMMA DropIdFacts ==
    ASSUME NEW S, NEW ids \in Seq(S), NEW n, Injective(ids)
    PROVE  /\ DropId(ids, n) \in Seq(S)
           /\ Injective(DropId(ids, n))
           /\ IdsIn(DropId(ids, n)) = IdsIn(ids) \ {n}
<1>1. CASE n \notin IdsIn(ids)
  BY <1>1 DEF DropId
<1>2. CASE n \in IdsIn(ids)
  <2> DEFINE i == CHOOSE k \in DOMAIN ids : ids[k] = n
             t == RemoveAt(ids, i)
  <2>1. DropId(ids, n) = t
    BY <1>2 DEF DropId
  <2>2. i \in 1..Len(ids) /\ ids[i] = n /\ DOMAIN ids = 1..Len(ids) /\ Len(ids) \in Nat
    BY <1>2 DEF IdsIn
  <2> HIDE DEF i
  <2>3. /\ t \in Seq(S) /\ DOMAIN t = 1..(Len(ids) - 1)
        /\ \A j \in 1..(Len(ids) - 1) : t[j] = IF j < i THEN ids[j] ELSE ids[j + 1]
    BY <2>2, RemoveAtFacts
  <2> HIDE DEF t
  <2>4. Injective(t)
    <3> SUFFICES ASSUME NEW j \in DOMAIN t, NEW k \in DOMAIN t, t[j] = t[k]
                 PROVE  j = k
      BY DEF Injective
    <3> DEFINE p(x) == IF x < i THEN x ELSE x + 1
    <3>1. p(j) \in DOMAIN ids /\ p(k) \in DOMAIN ids /\ t[j] = ids[p(j)] /\ t[k] = ids[p(k)]
      BY <2>2, <2>3
    <3>2. p(j) = p(k)
      BY <3>1 DEF Injective
    <3> QED
      BY <2>2, <2>3, <3>2
  <2>5. IdsIn(t) = IdsIn(ids) \ {n}
    <3>1. ASSUME NEW j \in DOMAIN t PROVE t[j] \in IdsIn(ids) \ {n}
      <4> DEFINE q == IF j < i THEN j ELSE j + 1
      <4>1. q \in DOMAIN ids /\ q # i /\ t[j] = ids[q]
        BY <2>2, <2>3
      <4> QED
        BY <2>2, <4>1 DEF Injective, IdsIn
    <3>2. ASSUME NEW k \in DOMAIN ids, ids[k] # n PROVE ids[k] \in IdsIn(t)
      <4> DEFINE q == IF k < i THEN k ELSE k - 1
      <4>1. q \in DOMAIN t /\ t[q] = ids[k]
        BY <2>2, <2>3, <3>2
      <4> QED
        BY <4>1 DEF IdsIn
    <3> QED
      BY <3>1, <3>2 DEF IdsIn
  <2> QED
    BY <2>1, <2>3, <2>4, <2>5
<1> QED
  BY <1>1, <1>2

-----------------------------------------------------------------------------
(* What the index operations do.                                           *)

\* Indexing a node under some patterns adds it to those lists only.
LEMMA IndexFacts ==
    ASSUME NEW N, NEW P, NEW map, IsIndex(map, N, P), NEW n \in N, NEW svcs \in SUBSET P
    PROVE  /\ IsIndex(Index(map, n, svcs), N, P)
           /\ \A svc : ListedUnder(Index(map, n, svcs), svc) =
                IF svc \in svcs THEN ListedUnder(map, svc) \cup {n} ELSE ListedUnder(map, svc)
<1> DEFINE new == Index(map, n, svcs)
<1>1. \A svc : IdsFor(map, svc) \in Seq(N) /\ Injective(IdsFor(map, svc))
  BY DEF IsIndex, IdsFor, Injective
<1>2. /\ DOMAIN new = DOMAIN map \cup svcs
      /\ new = [svc \in DOMAIN new |-> new[svc]]
      /\ \A svc \in svcs : new[svc] = AddId(IdsFor(map, svc), n)
      /\ \A svc \in DOMAIN map \ svcs : new[svc] = map[svc]
  BY DEF Index
<1> HIDE DEF new
<1>3. ASSUME NEW svc \in svcs
      PROVE  /\ new[svc] \in Seq(N) /\ new[svc] # << >>
             /\ Injective(new[svc])
             /\ IdsIn(new[svc]) = ListedUnder(map, svc) \cup {n}
  <2> DEFINE ids == IdsFor(map, svc)
  <2>1. ids \in Seq(N) /\ Injective(ids) /\ new[svc] = AddId(ids, n)
    BY <1>1, <1>2
  <2> HIDE DEF ids
  <2>2. /\ AddId(ids, n) \in Seq(N) /\ AddId(ids, n) # << >>
        /\ Injective(AddId(ids, n)) /\ IdsIn(AddId(ids, n)) = IdsIn(ids) \cup {n}
    BY <2>1, AddIdFacts
  <2> QED
    BY <2>1, <2>2 DEF ListedUnder, ids
<1>4. IsIndex(new, N, P)
  BY <1>2, <1>3 DEF IsIndex
<1>5. ASSUME NEW svc
      PROVE  ListedUnder(new, svc) =
                IF svc \in svcs THEN ListedUnder(map, svc) \cup {n} ELSE ListedUnder(map, svc)
  BY <1>2, <1>3 DEF ListedUnder, IdsFor
<1> QED
  BY <1>4, <1>5 DEF new

\* Removing a node from some patterns removes it from those lists only, and
\* no empty list is left behind.
LEMMA UnindexFacts ==
    ASSUME NEW N, NEW P, NEW map, IsIndex(map, N, P), NEW n, NEW svcs
    PROVE  /\ IsIndex(Unindex(map, n, svcs), N, P)
           /\ \A svc : ListedUnder(Unindex(map, n, svcs), svc) =
                IF svc \in svcs THEN ListedUnder(map, svc) \ {n} ELSE ListedUnder(map, svc)
<1> DEFINE new == Unindex(map, n, svcs)
           Left(svc) == IF svc \in svcs THEN DropId(map[svc], n) ELSE map[svc]
<1>1. /\ DOMAIN new = {svc \in DOMAIN map : Left(svc) # << >>}
      /\ new = [svc \in DOMAIN new |-> new[svc]]
      /\ \A svc \in DOMAIN new : new[svc] = Left(svc)
  BY DEF Unindex
<1>2. \A svc \in DOMAIN map :
        /\ Left(svc) \in Seq(N) /\ Injective(Left(svc))
        /\ IdsIn(Left(svc)) = IF svc \in svcs THEN IdsIn(map[svc]) \ {n} ELSE IdsIn(map[svc])
  BY DropIdFacts DEF IsIndex
<1> HIDE DEF new, Left
<1>3. IsIndex(new, N, P)
  BY <1>1, <1>2 DEF IsIndex
<1>4. ASSUME NEW svc
      PROVE  ListedUnder(new, svc) =
                IF svc \in svcs THEN ListedUnder(map, svc) \ {n} ELSE ListedUnder(map, svc)
  <2>1. IdsIn(<< >>) = {}
    BY DEF IdsIn
  <2>2. CASE svc \in DOMAIN map
    <3>1. ListedUnder(new, svc) = IdsIn(Left(svc))
      BY <1>1, <2>1, <2>2 DEF ListedUnder, IdsFor
    <3> QED
      BY <1>2, <2>2, <3>1 DEF ListedUnder, IdsFor
  <2>3. CASE svc \notin DOMAIN map
    BY <1>1, <2>1, <2>3 DEF ListedUnder, IdsFor
  <2> QED
    BY <2>2, <2>3
<1> QED
  BY <1>3, <1>4 DEF new

-----------------------------------------------------------------------------
(* What the list of the healthy nodes is.                                  *)

\* The ranks of a finite set of numbers are all the numbers below its size.
LEMMA RankFacts ==
    ASSUME NEW P \in SUBSET Nat, IsFiniteSet(P), NEW k \in 0 .. Cardinality(P) - 1
    PROVE  \E i \in P : Cardinality({j \in P : j < i}) = k
<1> DEFINE below(i) == {j \in P : j < i}
           r == [i \in P |-> Cardinality(below(i))]
           T == 0 .. Cardinality(P) - 1
<1>0. \A n \in P : n \in Nat
  OBVIOUS
<1>1. Cardinality(P) \in Nat
  BY FS_CardinalityType
<1>2. ASSUME NEW i \in P
      PROVE  /\ IsFiniteSet(below(i)) /\ r[i] = Cardinality(below(i)) /\ r[i] \in T
  <2>1. IsFiniteSet(P \ {i}) /\ Cardinality(P \ {i}) = Cardinality(P) - 1
    BY FS_RemoveElement
  <2>2. below(i) \in SUBSET (P \ {i})
    OBVIOUS
  <2>3. IsFiniteSet(below(i)) /\ Cardinality(below(i)) <= Cardinality(P) - 1
    BY <2>1, <2>2, FS_Subset
  <2> QED
    BY <1>1, <2>3, FS_CardinalityType
<1>3. ASSUME NEW i \in P, NEW j \in P, i < j PROVE r[i] < r[j]
  <2> HIDE DEF r
  <2>1. \A n \in P : n < i \/ n = i => n < j
    BY <1>0, <1>3
  <2>2. (below(i) \cup {i}) \in SUBSET below(j) /\ i \notin below(i)
    <3>1. \A n \in below(i) \cup {i} : n \in below(j)
      BY <2>1
    <3>2. ~(i < i)
      BY <1>0
    <3> QED
      BY <3>1, <3>2
  <2>3. /\ IsFiniteSet(below(i)) /\ r[i] = Cardinality(below(i)) /\ r[i] \in T
        /\ IsFiniteSet(below(j)) /\ r[j] = Cardinality(below(j)) /\ r[j] \in T
    BY <1>2
  <2> HIDE DEF below
  <2>4. IsFiniteSet(below(i) \cup {i}) /\ Cardinality(below(i) \cup {i}) = r[i] + 1
    BY <2>2, <2>3, FS_AddElement
  <2>5. Cardinality(below(i) \cup {i}) <= Cardinality(below(j))
    BY <2>2, <2>3, FS_Subset
  <2> QED
    BY <1>1, <2>3, <2>4, <2>5
<1>4. r \in [P -> T]
  BY <1>2
<1>5. \A i, j \in P : r[i] = r[j] => i = j
  <2> SUFFICES ASSUME NEW i \in P, NEW j \in P, r[i] = r[j], i # j PROVE FALSE
    OBVIOUS
  <2> HIDE DEF r
  <2>1. i < j \/ j < i
    BY <1>0
  <2>2. r[i] < r[j] \/ r[j] < r[i]
    BY <1>3, <2>1
  <2>3. r[i] \in T /\ r[j] \in T
    BY <1>2
  <2> QED
    BY <1>1, <2>2, <2>3
<1>6. IsFiniteSet(T) /\ Cardinality(T) = Cardinality(P)
  BY <1>1, FS_Interval
<1> HIDE DEF r, T
<1>7. r \in Injection(P, T)
  BY <1>4, <1>5 DEF Injection, IsInjective
<1>8. r \in Surjection(P, T)
  BY <1>6, <1>7, FS_Injection
<1>9. PICK i \in P : r[i] = k
  BY <1>8 DEF Surjection, T
<1> QED
  BY <1>2, <1>9

\* Of a list without repetition, the list of the healthy nodes has none
\* either, and its elements are the NthHealthy ones.
LEMMA HealthyListFacts ==
    ASSUME NEW reg, NEW S, NEW ids \in Seq(S), Injective(ids)
    PROVE  LET list == HealthyList(reg, ids)
           IN  /\ list \in Seq(S) /\ Injective(list)
               /\ Len(list) = Cardinality(HealthyAt(reg, ids)) /\ Len(list) \in Nat
               /\ (Len(list) = 0 <=> HealthyAt(reg, ids) = {})
               /\ \A k \in 0 .. Len(list) - 1 : NthHealthy(reg, ids, k) = list[k + 1]
<1> DEFINE P == HealthyAt(reg, ids)
           list == HealthyList(reg, ids)
           at(k) == CHOOSE i \in P : Cardinality({j \in P : j < i}) = k
<1>1. P \in SUBSET (1 .. Len(ids)) /\ Len(ids) \in Nat /\ P \in SUBSET Nat
  BY DEF HealthyAt
<1>2. IsFiniteSet(P) /\ Cardinality(P) \in Nat
  <2>1. IsFiniteSet(1 .. Len(ids))
    BY <1>1, FS_Interval
  <2> HIDE DEF P
  <2>2. IsFiniteSet(P)
    BY <1>1, <2>1, FS_Subset
  <2> QED
    BY <2>2, FS_CardinalityType
<1>3. ASSUME NEW k \in 0 .. Cardinality(P) - 1
      PROVE  at(k) \in P /\ Cardinality({j \in P : j < at(k)}) = k
  <2> HIDE DEF P
  <2> QED
    BY <1>1, <1>2, RankFacts
<1>4. \A k : NthHealthy(reg, ids, k) = ids[at(k)]
  BY DEF NthHealthy
<1>5. list = [k \in 1 .. Cardinality(P) |-> ids[at(k - 1)]]
  BY <1>4 DEF HealthyList
<1> HIDE DEF P, at, list
<1>6. ASSUME NEW k \in 1 .. Cardinality(P)
      PROVE  at(k - 1) \in 1 .. Len(ids) /\ list[k] = ids[at(k - 1)] /\ list[k] \in S
  <2>1. k - 1 \in 0 .. Cardinality(P) - 1
    BY <1>2
  <2>2. at(k - 1) \in P
    BY <2>1, <1>3
  <2> QED
    BY <2>2, <1>1, <1>5, ElementOfSeq
<1>7. list \in Seq(S) /\ Len(list) = Cardinality(P) /\ DOMAIN list = 1 .. Cardinality(P)
  BY <1>2, <1>5, <1>6
<1>8. Injective(list)
  <2> SUFFICES ASSUME NEW i \in 1 .. Cardinality(P), NEW j \in 1 .. Cardinality(P),
                      list[i] = list[j]
               PROVE  i = j
    BY <1>7 DEF Injective
  <2>1. at(i - 1) = at(j - 1)
    BY <1>6 DEF Injective
  <2>2. i - 1 \in 0 .. Cardinality(P) - 1 /\ j - 1 \in 0 .. Cardinality(P) - 1
    BY <1>2
  <2>3. i - 1 = j - 1
    BY <2>1, <2>2, <1>3
  <2> QED
    BY <1>2, <2>3
<1>9. \A k \in 0 .. Len(list) - 1 : NthHealthy(reg, ids, k) = list[k + 1]
  <2> SUFFICES ASSUME NEW k \in 0 .. Cardinality(P) - 1
               PROVE  NthHealthy(reg, ids, k) = list[k + 1]
    BY <1>7
  <2>1. k + 1 \in 1 .. Cardinality(P) /\ (k + 1) - 1 = k
    BY <1>2
  <2> QED
    BY <2>1, <1>4, <1>6
<1>10. Cardinality(P) = 0 <=> P = {}
  BY <1>2, FS_EmptySet
<1> QED
  BY <1>2, <1>7, <1>8, <1>9, <1>10 DEF P, list

=============================================================================
