-------------------------- MODULE AuthPipelineProofs --------------------------
(***************************************************************************)
(* Proofs about AuthPipeline and its DIEngine: whatever the requests, the   *)
(* users, the names, the rules, the fallback chains and the sizes of the    *)
(* caches, what is authorized was vouched for, nothing made for one user    *)
(* reaches another, the per-user cache keeps its bound, singletons stay and *)
(* a healthy one is not marked.                                             *)
(***************************************************************************)
EXTENDS AuthPipeline, FiniteSetTheorems, WellFoundedInduction, TLAPS

-----------------------------------------------------------------------------
(* The inductive invariant.                                                *)

\* The caches: what a factory returned carries the number of its call and is
\* in one place only, so that what is evicted or cleared can never be met again
\* under another key or for another user.
CacheOK ==
    /\ IsFiniteSet(perUser) /\ CacheBound
    /\ \A e, f \in perUser : e.at = f.at => e = f
    /\ \A e \in perUser : e.instance = e.at \/ e.instance \in Objects
    /\ \A e \in perUser, k \in Keys : singletons[k] # e.at

\* A request: its dependency was given after authorize and is one that was
\* made, or an object; the user of the entry it came from is its own; the role
\* in ctx.state is the one vouched for as long as it is authenticated.
RequestOK(r) ==
    LET q == request[r] IN
    /\ q.dep # 0 => q.pc = "authorized"
    /\ q.dep \in (0 .. made) \cup Objects
    /\ \A e \in perUser : q.dep = e.at =>
          e.user = (IF q.by \in Routed THEN q.user_id ELSE UserOf[r])
    /\ q.pc = "ready" /\ q.authenticated => q.role = q.vouched /\ q.vouched # NoRole
    /\ q.pc = "authorized" => q.vouched # NoRole /\ Rank(q.vouched) >= Rank(q.needed)

\* A dependency of Fixed is a singleton for good, and only its own factory
\* can have it marked.
FixedOK ==
    /\ \A n \in Fixed : scope[n] = "singleton"
    /\ UnhealthyHasCause

IInv == TypeOK /\ CacheOK /\ FixedOK /\ \A r \in Requests : RequestOK(r)

-----------------------------------------------------------------------------
(* The eviction.                                                           *)

\* A finite nonempty set of entries has an oldest one.
LEMMA Oldest ==
    ASSUME NEW T, T # {}, \A e \in T : e.at \in Nat
    PROVE  \E e \in T : \A f \in T : e.at <= f.at
<1> DEFINE S == {e.at : e \in T}
<1>1. S \subseteq Nat /\ S # {}
  OBVIOUS
<1>2. PICK i \in S : \A j \in S : ~(<<j, i>> \in OpToRel(<, Nat))
  BY <1>1, WFMin, NatLessThanWellFounded
<1>3. \A j \in S : ~(j < i)
  BY <1>1, <1>2 DEF OpToRel
<1>4. PICK e \in T : e.at = i
  OBVIOUS
<1>5. \A f \in T : e.at <= f.at
  <2> SUFFICES ASSUME NEW f \in T PROVE e.at <= f.at
    OBVIOUS
  <2>1. f.at \in S /\ f.at \in Nat /\ i \in Nat
    BY <1>1
  <2>2. ~(f.at < i)
    BY <2>1, <1>3
  <2> QED
    BY <2>1, <2>2, <1>4
<1> QED
  BY <1>5

\* _evict_per_user_if_needed leaves a part of the cache, and never more than
\* the maximum: the oldest of what is left has all the others after it.
LEMMA EvictFacts ==
    ASSUME NEW S, IsFiniteSet(S), MaxPerUser \in Nat,
           \A e \in S : e.at \in Nat,
           \A e, f \in S : e.at = f.at => e = f
    PROVE  LET T == EvictPerUserIfNeeded(S)
           IN  T \subseteq S /\ IsFiniteSet(T) /\ Cardinality(T) \in Nat /\ Cardinality(T) <= MaxPerUser
<1> DEFINE T == EvictPerUserIfNeeded(S)
<1> DEFINE After(e) == {f \in S : f.at > e.at}
<1>1. T \subseteq S /\ \A e \in T : Cardinality(After(e)) < MaxPerUser
  BY DEF EvictPerUserIfNeeded
<1>2. IsFiniteSet(T) /\ Cardinality(T) \in Nat
  BY <1>1, FS_Subset, FS_CardinalityType
<1>3. CASE T = {}
  BY <1>1, <1>2, <1>3, FS_EmptySet
<1>4. CASE T # {}
  <2> HIDE DEF T
  <2>1. PICK e \in T : \A f \in T : e.at <= f.at
    BY <1>1, <1>4, Oldest
  <2>2. T \ {e} \subseteq After(e)
    BY <1>1, <2>1
  <2>3. After(e) \subseteq S
    OBVIOUS
  <2> HIDE DEF After
  <2>4. IsFiniteSet(After(e)) /\ Cardinality(After(e)) \in Nat
    BY <2>3, FS_Subset, FS_CardinalityType
  <2>5. Cardinality(T \ {e}) <= Cardinality(After(e)) /\ Cardinality(T \ {e}) \in Nat
    BY <2>2, <2>4, FS_Subset, FS_CardinalityType
  <2>6. Cardinality(T \ {e}) = Cardinality(T) - 1
    BY <1>2, FS_RemoveElement
  <2>7. Cardinality(After(e)) < MaxPerUser
    BY <1>1
  <2> QED
    BY <1>1, <1>2, <2>4, <2>5, <2>6, <2>7 DEF T
<1> QED
  BY <1>3, <1>4

-----------------------------------------------------------------------------
(* The caches.                                                             *)

\* The types of the caches, the part of DITypeOK that resolution changes.
CacheTyped ==
    /\ made \in 0 .. MaxInstances
    /\ singletons \in [Keys -> (0 .. made) \cup Objects]
    /\ perUser \subseteq [key : Keys, user : Users, at : 1 .. made, instance : (1 .. made) \cup Objects]

\* What a step may do to the caches as requests see them: what is new in the
\* per-user cache is newer than everything, and a singleton stays or all go.
CacheStep ==
    /\ made <= made'
    /\ \A e \in perUser' : e \in perUser \/ e.at > made
    /\ \A k \in Keys : singletons[k] # 0 =>
          singletons'[k] = singletons[k] \/ \A j \in Keys : singletons'[j] = 0

\* Leaving entries out keeps the caches in order.
LEMMA SubsetFacts ==
    ASSUME DIAssumption, CacheTyped, CacheOK, NEW entries, entries \subseteq perUser
    PROVE  /\ IsFiniteSet(entries) /\ Cardinality(entries) \in Nat
           /\ Cardinality(entries) <= MaxPerUser + 1
           /\ \A e \in entries : e.at \in Nat
           /\ \A e, f \in entries : e.at = f.at => e = f
<1>1. IsFiniteSet(entries) /\ Cardinality(entries) \in Nat /\ Cardinality(perUser) \in Nat
         /\ Cardinality(entries) <= Cardinality(perUser)
  BY FS_Subset, FS_CardinalityType DEF CacheOK
<1>2. Cardinality(entries) <= MaxPerUser + 1
  BY <1>1 DEF CacheOK, CacheBound, DIAssumption
<1>3. \A e \in entries : e.at \in Nat
  BY DEF CacheTyped
<1> QED
  BY <1>1, <1>2, <1>3 DEF CacheOK

\* Dropping entries is a good step of the caches.
LEMMA DropKeeps ==
    ASSUME DIAssumption, CacheTyped, CacheOK, perUser' \subseteq perUser, UNCHANGED <<singletons, made>>
    PROVE  CacheTyped' /\ CacheOK' /\ CacheStep
<1>1. IsFiniteSet(perUser') /\ Cardinality(perUser') <= MaxPerUser + 1
  BY SubsetFacts
<1>2. CacheOK'
  BY <1>1 DEF CacheOK, CacheBound
<1>3. CacheTyped'
  BY DEF CacheTyped
<1>4. CacheStep
  BY DEF CacheStep, CacheTyped
<1> QED
  BY <1>2, <1>3, <1>4

\* What a call of _create that returns hands out: an object, or what the
\* factory made.
Returned(instance) ==
    /\ made < MaxInstances /\ made' = made + 1
    /\ instance = made + 1 \/ instance \in Objects

\* So is an instance outside the per-user cache: nobody's, or the singleton of
\* a key that had none.
LEMMA MakeKeeps ==
    ASSUME DIAssumption, CacheTyped, CacheOK, perUser' \subseteq perUser,
           NEW key \in Keys, NEW instance, Returned(instance),
           \/ UNCHANGED singletons
           \/ singletons[key] = 0 /\ singletons' = [singletons EXCEPT ![key] = instance]
    PROVE  CacheTyped' /\ CacheOK' /\ CacheStep
<1>0. made \in Nat /\ MaxInstances \in Nat /\ made' = made + 1 /\ made' \in 0 .. MaxInstances
  BY DEF CacheTyped, DIAssumption, Returned
<1>1. IsFiniteSet(perUser') /\ Cardinality(perUser') <= MaxPerUser + 1
  BY SubsetFacts
<1>2. instance \in (1 .. made') \cup Objects /\ (instance \in Objects => instance \notin Nat)
  BY <1>0 DEF Returned, DIAssumption
<1>3. \A k \in Keys : singletons'[k] = singletons[k] \/ (singletons'[k] = instance /\ singletons[k] = 0)
  BY DEF CacheTyped
<1>4. \A e \in perUser : e.at \in 1 .. made
  BY DEF CacheTyped
<1>5. \A e \in perUser', k \in Keys : singletons'[k] # e.at
  <2> SUFFICES ASSUME NEW e \in perUser', NEW k \in Keys PROVE singletons'[k] # e.at
    OBVIOUS
  <2>1. e.at \in 1 .. made /\ singletons[k] # e.at
    BY <1>4 DEF CacheOK
  <2>2. instance # e.at
    BY <1>0, <1>2, <2>1 DEF Returned
  <2> QED
    BY <1>3, <2>1, <2>2
<1>6. CacheOK'
  BY <1>1, <1>5 DEF CacheOK, CacheBound
<1>7. singletons' \in [Keys -> (0 .. made') \cup Objects]
  <2>1. singletons \in [Keys -> (0 .. made') \cup Objects]
    BY <1>0 DEF CacheTyped
  <2> QED
    BY <1>0, <1>2, <2>1
<1>8. perUser' \subseteq [key : Keys, user : Users, at : 1 .. made', instance : (1 .. made') \cup Objects]
  <2> SUFFICES ASSUME NEW e \in perUser'
               PROVE  e \in [key : Keys, user : Users, at : 1 .. made', instance : (1 .. made') \cup Objects]
    OBVIOUS
  <2>1. e \in [key : Keys, user : Users, at : 1 .. made, instance : (1 .. made) \cup Objects]
    BY DEF CacheTyped
  <2> QED
    BY <1>0, <2>1
<1>9. CacheTyped'
  BY <1>0, <1>7, <1>8 DEF CacheTyped
<1>10. CacheStep
  BY <1>0, <1>2, <1>3, SMTT(30) DEF CacheStep
<1> QED
  BY <1>6, <1>9, <1>10

\* One entry more, with a new instance or an object, after the eviction.
LEMMA AddKeeps ==
    ASSUME DIAssumption, CacheTyped, CacheOK,
           NEW entries, entries \subseteq perUser, Cardinality(entries) <= MaxPerUser,
           NEW key \in Keys, NEW u \in Users, NEW instance, Returned(instance),
           perUser' = entries \cup {[key |-> key, user |-> u, at |-> made', instance |-> instance]},
           UNCHANGED singletons
    PROVE  CacheTyped' /\ CacheOK' /\ CacheStep
<1> DEFINE new == [key |-> key, user |-> u, at |-> made', instance |-> instance]
<1>0. made \in Nat /\ MaxInstances \in Nat /\ made' = made + 1 /\ made' \in 0 .. MaxInstances
  BY DEF CacheTyped, DIAssumption, Returned
<1>1. IsFiniteSet(entries) /\ Cardinality(entries) \in Nat
  BY SubsetFacts
<1>2. \A e \in perUser : e.at \in 1 .. made
  BY DEF CacheTyped
<1>a. new.at = made + 1 /\ new.instance = instance /\ (instance = made + 1 \/ instance \in Objects)
  BY <1>0 DEF Returned
<1>b. new \in [key : Keys, user : Users, at : 1 .. made', instance : (1 .. made') \cup Objects]
  BY <1>0, <1>a
<1>c. perUser' = entries \cup {new}
  OBVIOUS
<1> HIDE DEF new
<1>3. new \notin entries
  BY <1>0, <1>2, <1>a
<1>4. IsFiniteSet(perUser') /\ Cardinality(perUser') = Cardinality(entries) + 1
  <2>1. IsFiniteSet(entries \cup {new}) /\ Cardinality(entries \cup {new}) = Cardinality(entries) + 1
    BY <1>1, <1>3, FS_AddElement
  <2> QED
    BY <1>c, <2>1
<1>5. CacheBound'
  BY <1>1, <1>4 DEF CacheBound, DIAssumption
<1>6. \A e, f \in perUser' : e.at = f.at => e = f
  BY <1>0, <1>2, <1>a, <1>c DEF CacheOK
<1>7. \A e \in perUser', k \in Keys : singletons'[k] # e.at
  <2> SUFFICES ASSUME NEW e \in perUser', NEW k \in Keys PROVE singletons[k] # e.at
    OBVIOUS
  <2>1. singletons[k] \in (0 .. made) \cup Objects
    BY DEF CacheTyped
  <2>2. CASE e = new
    BY <1>0, <1>a, <2>1, <2>2 DEF DIAssumption
  <2>3. CASE e \in perUser
    BY <2>3 DEF CacheOK
  <2> QED
    BY <1>c, <2>2, <2>3
<1>8. CacheOK'
  <2>1. \A e \in perUser' : e.instance = e.at \/ e.instance \in Objects
    BY <1>a, <1>c DEF CacheOK
  <2> QED
    BY <1>4, <1>5, <1>6, <1>7, <2>1 DEF CacheOK
<1>9. CacheTyped'
  <2>1. singletons' \in [Keys -> (0 .. made') \cup Objects]
    BY <1>0 DEF CacheTyped
  <2>2. perUser' \subseteq [key : Keys, user : Users, at : 1 .. made', instance : (1 .. made') \cup Objects]
    <3> SUFFICES ASSUME NEW e \in perUser, e \in entries
                 PROVE  e \in [key : Keys, user : Users, at : 1 .. made', instance : (1 .. made') \cup Objects]
      BY <1>b, <1>c
    <3>1. e \in [key : Keys, user : Users, at : 1 .. made, instance : (1 .. made) \cup Objects]
      BY DEF CacheTyped
    <3> QED
      BY <1>0, <3>1
  <2> QED
    BY <1>0, <2>1, <2>2 DEF CacheTyped
<1>10. CacheStep
  BY <1>0, <1>a, <1>c DEF CacheStep
<1> QED
  BY <1>8, <1>9, <1>10

\* What Obtain returns: an object, or an instance that is in the per-user cache
\* only under the user it was asked for.
Owned(u, instance) ==
    /\ instance \in (0 .. made') \cup Objects
    /\ \A e \in perUser' : e.at = instance => u # NoUser /\ e.user = u

\* What Create does to the number of its calls.
LEMMA CreateFacts ==
    ASSUME DIAssumption, CacheTyped, DITypeOK, NEW key \in Keys, NEW instance, Create(key, instance)
    PROVE  (instance = 0 /\ UNCHANGED made) \/ (Returned(instance) /\ instance # 0)
<1>1. made \in Nat /\ 0 \notin Objects
  BY DEF CacheTyped, DIAssumption
<1>2. CASE instance = 0 /\ UNCHANGED made
  BY <1>2
<1>3. CASE /\ made < MaxInstances /\ made' = made + 1
           /\ instance = IF FactoryOf(key) \in Objects THEN FactoryOf(key) ELSE made + 1
  BY <1>1, <1>3 DEF Returned
<1> QED
  BY <1>2, <1>3 DEF Create

\* One resolution of a key, in every scope and with every outcome of its
\* factory, keeps the caches in order.
LEMMA ObtainKeeps ==
    ASSUME DIAssumption, DITypeOK, CacheTyped, CacheOK, NEW entries, entries \subseteq perUser,
           NEW key \in Keys, NEW sc \in Scopes, NEW u \in Users \cup {NoUser},
           NEW instance, Obtain(entries, key, sc, u, instance)
    PROVE  CacheTyped' /\ CacheOK' /\ CacheStep /\ Owned(u, instance)
<1>0. /\ made \in Nat /\ MaxInstances \in Nat /\ \A e \in perUser : e.at \in 1 .. made
      /\ \A x \in Objects : x \notin Nat
  BY DEF CacheTyped, DIAssumption
\* A call that does not return anything, and one that does but is not kept
\* for a user.
<1>a. ASSUME instance = 0, UNCHANGED <<singletons, made>>, perUser' \subseteq perUser
      PROVE  CacheTyped' /\ CacheOK' /\ CacheStep /\ Owned(u, instance)
  BY <1>0, <1>a, DropKeeps DEF Owned
<1>b. ASSUME Returned(instance), perUser' \subseteq perUser PROVE Owned(u, instance)
  BY <1>0, <1>b DEF Owned, Returned
<1>1. CASE sc = "transient"
  <2>1. Create(key, instance) /\ perUser' = entries /\ UNCHANGED singletons
    BY <1>1 DEF Obtain
  <2>2. CASE instance = 0 /\ UNCHANGED made
    BY <1>a, <2>1, <2>2
  <2>3. CASE Returned(instance)
    BY <1>b, <2>1, <2>3, MakeKeeps
  <2> QED
    BY <2>1, <2>2, <2>3, CreateFacts
<1>2. CASE sc = "per_user" /\ u = NoUser
  <2>1. instance = 0 /\ perUser' = entries /\ UNCHANGED <<singletons, made>>
    BY <1>2 DEF Obtain
  <2> QED
    BY <1>a, <2>1
<1>3. CASE sc = "per_user" /\ u # NoUser /\ CachedFor(entries, key, u) # {}
  <2>1. /\ instance \in {e.instance : e \in CachedFor(entries, key, u)}
        /\ perUser' = entries /\ UNCHANGED <<singletons, made>>
    BY <1>3 DEF Obtain
  <2>2. PICK e \in entries : e.user = u /\ e.instance = instance
    BY <2>1 DEF CachedFor
  <2>3. instance = e.at \/ instance \in Objects
    BY <2>2 DEF CacheOK
  <2>4. \A f \in perUser' : f.at = instance => f.user = u
    BY <1>0, <2>1, <2>2, <2>3 DEF CacheOK
  <2>5. instance \in (0 .. made') \cup Objects
    BY <1>0, <2>1, <2>2, <2>3
  <2> QED
    BY <1>3, <2>1, <2>4, <2>5, DropKeeps DEF Owned
<1>4. CASE sc = "per_user" /\ u # NoUser /\ CachedFor(entries, key, u) = {}
  <2> DEFINE kept == EvictPerUserIfNeeded(entries)
  <2>1. /\ Create(key, instance) /\ UNCHANGED singletons
        /\ perUser' = IF instance = 0 THEN kept
                      ELSE kept \cup {[key |-> key, user |-> u, at |-> made', instance |-> instance]}
    BY <1>4 DEF Obtain
  <2>2. kept \subseteq perUser /\ Cardinality(kept) <= MaxPerUser
    BY SubsetFacts, EvictFacts DEF DIAssumption
  <2> HIDE DEF kept
  <2>3. CASE instance = 0 /\ UNCHANGED made
    BY <1>a, <2>1, <2>2, <2>3
  <2>4. CASE Returned(instance) /\ instance # 0
    <3>1. /\ perUser' = kept \cup {[key |-> key, user |-> u, at |-> made', instance |-> instance]}
          /\ u \in Users
      BY <1>4, <2>1, <2>4
    <3>2. CacheTyped' /\ CacheOK' /\ CacheStep
      BY <2>1, <2>2, <2>4, <3>1, AddKeeps
    <3>3. \A e \in perUser' : e.at = instance => e.user = u
      BY <1>0, <2>2, <2>4, <3>1 DEF Returned
    <3>4. instance \in (0 .. made') \cup Objects
      BY <1>0, <2>4 DEF Returned
    <3> QED
      BY <1>4, <3>2, <3>3, <3>4 DEF Owned
  <2> QED
    BY <2>1, <2>3, <2>4, CreateFacts
<1>5. CASE sc = "singleton" /\ singletons[key] # 0
  <2>1. instance = singletons[key] /\ perUser' = entries /\ UNCHANGED <<singletons, made>>
    BY <1>5 DEF Obtain
  <2>2. \A e \in perUser' : e.at # instance
    BY <2>1 DEF CacheOK
  <2>3. instance \in (0 .. made') \cup Objects
    BY <1>0, <2>1 DEF CacheTyped
  <2> QED
    BY <2>1, <2>2, <2>3, DropKeeps DEF Owned
<1>6. CASE sc = "singleton" /\ singletons[key] = 0
  <2>1. /\ Create(key, instance) /\ perUser' = entries
        /\ singletons' = [singletons EXCEPT ![key] = instance]
    BY <1>6 DEF Obtain
  <2>2. CASE instance = 0 /\ UNCHANGED made
    <3>1. singletons' = singletons
      BY <1>6, <2>1, <2>2 DEF CacheTyped
    <3> QED
      BY <1>a, <2>1, <2>2, <3>1
  <2>3. CASE Returned(instance)
    BY <1>6, <1>b, <2>1, <2>3, MakeKeeps
  <2> QED
    BY <2>1, <2>2, <2>3, CreateFacts
<1> QED
  BY <1>1, <1>2, <1>3, <1>4, <1>5, <1>6 DEF Scopes

-----------------------------------------------------------------------------
(* The operations of the engine.                                           *)

\* What every operation of the engine keeps.
EngineOK == DITypeOK /\ CacheOK /\ FixedOK

\* The part of the engine that resolution leaves alone.
LEMMA EngineParts ==
    ASSUME EngineOK, CacheTyped', CacheOK', UNCHANGED <<factory, scope, unhealthy>>
    PROVE  EngineOK'
<1>1. DITypeOK'
  BY DEF EngineOK, DITypeOK, CacheTyped
<1>2. FixedOK'
  BY DEF EngineOK, FixedOK, UnhealthyHasCause
<1> QED
  BY <1>1, <1>2 DEF EngineOK

\* resolve.
LEMMA ResolveKeeps ==
    ASSUME DIAssumption, EngineOK, NEW n \in Services, NEW u \in Users \cup {NoUser},
           NEW instance, Resolve(n, u, instance)
    PROVE  /\ EngineOK' /\ CacheStep /\ Owned(u, instance)
           /\ n \in Routed => instance = 0
<1>0. DITypeOK /\ CacheTyped /\ CacheOK
  BY DEF EngineOK, DITypeOK, CacheTyped
<1>1. UNCHANGED <<factory, scope, unhealthy>>
  BY DEF Resolve
<1>2. CASE Registered(n) /\ n \notin Routed
  <2>1. Obtain(perUser, n, scope[n], u, instance)
    BY <1>2 DEF Resolve
  <2>2. n \in Keys /\ scope[n] \in Scopes
    BY <1>2 DEF EngineOK, DITypeOK, Keys, Registered
  <2>3. CacheTyped' /\ CacheOK' /\ CacheStep /\ Owned(u, instance)
    BY <1>0, <2>1, <2>2, ObtainKeeps
  <2> QED
    BY <1>1, <1>2, <2>3, EngineParts
<1>3. CASE ~(Registered(n) /\ n \notin Routed)
  <2>1. instance = 0 /\ UNCHANGED <<singletons, perUser, made>>
    BY <1>3 DEF Resolve, cacheVars
  <2>2. CacheTyped' /\ CacheOK' /\ CacheStep
    BY <1>0, <2>1, DropKeeps
  <2>3. Owned(u, instance)
    BY <1>0, <2>1 DEF Owned, CacheTyped, DIAssumption
  <2> QED
    BY <1>1, <2>1, <2>2, <2>3, EngineParts
<1> QED
  BY <1>2, <1>3

\* resolve_async.
LEMMA ResolveAsyncKeeps ==
    ASSUME DIAssumption, RolesAssumption, EngineOK, NEW n \in Routed, NEW role \in Roles \cup {NoRole},
           NEW u \in Users \cup {NoUser}, NEW instance,
           ResolveAsync(n, role, u, instance)
    PROVE  EngineOK' /\ CacheStep /\ Owned(u, instance)
<1> DEFINE key == <<n, RuleFor[n][role]>>
<1> DEFINE sc == IF u = NoUser THEN "singleton" ELSE "per_user"
<1>1. UNCHANGED <<factory, scope, unhealthy>>
  BY DEF ResolveAsync
<1>2. DITypeOK /\ CacheTyped /\ CacheOK
  BY DEF EngineOK, DITypeOK, CacheTyped
<1>3. CASE RuleFor[n][role] = NoImpl
  <2>1. instance = 0 /\ UNCHANGED <<singletons, perUser, made>>
    BY <1>3 DEF ResolveAsync, cacheVars
  <2>2. CacheTyped' /\ CacheOK' /\ CacheStep
    BY <1>2, <2>1, DropKeeps
  <2>3. Owned(u, instance)
    BY <1>2, <2>1 DEF Owned, CacheTyped, DIAssumption
  <2> QED
    BY <1>1, <2>2, <2>3, EngineParts
<1>4. CASE RuleFor[n][role] # NoImpl
  <2>1. key \in Keys /\ sc \in Scopes /\ Obtain(perUser, key, sc, u, instance)
    BY <1>4 DEF RolesAssumption, Keys, Scopes, ResolveAsync
  <2> HIDE DEF key, sc
  <2>2. CacheTyped' /\ CacheOK' /\ CacheStep /\ Owned(u, instance)
    BY <1>2, <2>1, ObtainKeeps
  <2> QED
    BY <1>1, <2>2, EngineParts
<1> QED
  BY <1>3, <1>4

\* resolve_with_fallback: what it marks can raise, and a singleton that does
\* not fail cannot; the entries may be evicted before the last is resolved.
LEMMA FallbackKeeps ==
    ASSUME DIAssumption, EngineOK, NEW n \in Services, NEW u \in Users \cup {NoUser},
           NEW instance, ResolveWithFallback(n, u, instance)
    PROVE  EngineOK' /\ CacheStep
<1> DEFINE chain == <<n>> \o Fallbacks[n]
           Usable(j) == Has(chain[j]) /\ chain[j] \notin unhealthy
           Before(raised, j) == {i \in raised : i < j}
           Evicted(raised, j) == u # NoUser /\ \E i \in Before(raised, j) : PerUser(chain[i])
           Entries(raised, j) == IF Evicted(raised, j) THEN EvictPerUserIfNeeded(perUser) ELSE perUser
<1> DEFINE Ends(last, raised) ==
             /\ \A j \in raised : MayRaise(Entries(raised, j), chain[j], u)
             /\ unhealthy' = unhealthy \cup ToMark(chain, raised, last)
             /\ instance = 0 <=> last > Len(chain)
             /\ IF last > Len(chain) THEN perUser' = Entries(raised, last) /\ UNCHANGED <<singletons, made>>
                ELSE /\ ~MustRaise(chain[last], u)
                     /\ Obtain(Entries(raised, last), chain[last], scope[chain[last]], u, instance)
<1>0. PICK last \in 1 .. Len(chain) + 1 :
         \E raised \in SUBSET {j \in 1 .. last - 1 : Usable(j)} : Ends(last, raised)
  BY Zenon DEF ResolveWithFallback
<1>1. PICK raised \in SUBSET {j \in 1 .. last - 1 : Usable(j)} : Ends(last, raised)
  BY <1>0, Zenon
<1>2. UNCHANGED <<factory, scope>>
  BY DEF ResolveWithFallback
<1>3. chain \in Seq(Services) /\ Len(chain) \in Nat
  BY DEF DIAssumption
<1> DEFINE entries == Entries(raised, last)
<1>4. entries \subseteq perUser
  BY DEF EvictPerUserIfNeeded
<1>5. /\ last > Len(chain) => instance = 0 /\ perUser' = entries /\ UNCHANGED <<singletons, made>>
      /\ ~(last > Len(chain)) => /\ ~MustRaise(chain[last], u)
                                 /\ Obtain(entries, chain[last], scope[chain[last]], u, instance)
  BY <1>1
<1>6. /\ \A j \in raised : chain[j] \in Services
      /\ \A j \in raised : \E es : MayRaise(es, chain[j], u)
      /\ unhealthy' = unhealthy \cup ToMark(chain, raised, last)
  <2>1. \A j \in raised : chain[j] \in Services
    BY <1>1, <1>3
  <2>2. \A j \in raised : MayRaise(Entries(raised, j), chain[j], u)
    BY <1>1
  <2> HIDE DEF chain, Entries
  <2>3. \A j \in raised : \E es : MayRaise(es, chain[j], u)
    BY <2>2
  <2> QED
    BY <1>1, <2>1, <2>3
<1> HIDE DEF chain, entries
<1>7. DITypeOK /\ CacheTyped /\ CacheOK
  BY DEF EngineOK, DITypeOK, CacheTyped
<1>8. CacheTyped' /\ CacheOK' /\ CacheStep
  <2>1. CASE last > Len(chain)
    BY <1>4, <1>5, <1>7, <2>1, DropKeeps
  <2>2. CASE ~(last > Len(chain))
    <3>1. chain[last] \in Names /\ Obtain(entries, chain[last], scope[chain[last]], u, instance)
      BY <1>5, <2>2 DEF MustRaise
    <3>2. chain[last] \in Keys /\ scope[chain[last]] \in Scopes
      BY <3>1 DEF Keys, EngineOK, DITypeOK
    <3> QED
      BY <1>4, <1>7, <3>1, <3>2, ObtainKeeps
  <2> QED
    BY <2>1, <2>2
<1>9. FixedOK'
  <2>1. \A m \in Fixed : scope'[m] = "singleton"
    BY <1>2 DEF EngineOK, FixedOK
  <2>2. ASSUME NEW m \in unhealthy' \cap Fixed PROVE m \in Failing
    <3>1. CASE m \in unhealthy
      BY <2>2, <3>1 DEF EngineOK, FixedOK, UnhealthyHasCause
    <3>2. CASE m \notin unhealthy
      <4>1. PICK j \in raised : m = chain[j]
        BY <1>6, <2>2, <3>2 DEF ToMark
      <4>2. PICK es : MayRaise(es, m, u)
        BY <1>6, <4>1
      <4>3. m \in Names \ Routed /\ scope[m] = "singleton"
        BY <2>2 DEF DIAssumption, EngineOK, FixedOK
      <4> QED
        BY <4>2, <4>3 DEF MayRaise, MustRaise, PerUser
    <3> QED
      BY <3>1, <3>2
  <2> QED
    BY <2>1, <2>2 DEF FixedOK, UnhealthyHasCause
<1>10. DITypeOK'
  <2>1. unhealthy' \subseteq Services
    BY <1>6 DEF ToMark, EngineOK, DITypeOK
  <2> QED
    BY <1>2, <1>8, <2>1 DEF EngineOK, DITypeOK, CacheTyped
<1> QED
  BY <1>8, <1>9, <1>10 DEF EngineOK

\* register, clear, clear_user, mark_unhealthy and mark_healthy.
LEMMA ConfigureKeeps ==
    ASSUME DIAssumption, EngineOK, Configure
    PROVE  EngineOK' /\ CacheStep
<1>0. CacheTyped /\ CacheOK /\ made \in Nat
  BY DEF EngineOK, DITypeOK, CacheTyped
<1>1. ASSUME NEW n \in Names \ Fixed, NEW f \in {"callable"} \cup Objects, NEW sc \in Scopes, Register(n, f, sc)
      PROVE  EngineOK' /\ CacheStep
  <2>1. UNCHANGED <<singletons, perUser, made, unhealthy>>
    BY <1>1 DEF Register, cacheVars
  <2>2. CacheTyped' /\ CacheOK' /\ CacheStep
    BY <1>0, <2>1, DropKeeps
  <2>3. /\ factory' \in [Names -> {"none", "callable"} \cup Objects] /\ scope' \in [Names -> Scopes]
        /\ \A m \in Fixed : scope'[m] = scope[m]
    BY <1>1 DEF Register, EngineOK, DITypeOK, DIAssumption
  <2> QED
    BY <2>1, <2>2, <2>3 DEF EngineOK, DITypeOK, CacheTyped, FixedOK, UnhealthyHasCause
<1>2. CASE Clear
  <2>1. /\ singletons' = [k \in Keys |-> 0] /\ perUser' = {}
        /\ UNCHANGED <<factory, scope, unhealthy, made>>
    BY <1>2 DEF Clear
  <2>2. CacheTyped' /\ CacheStep
    BY <1>0, <2>1 DEF CacheTyped, CacheStep
  <2>3. CacheOK'
    BY <2>1, FS_EmptySet DEF CacheOK, CacheBound, DIAssumption
  <2> QED
    BY <2>1, <2>2, <2>3, EngineParts
<1>3. ASSUME NEW u \in Users, ClearUser(u) PROVE EngineOK' /\ CacheStep
  <2>1. perUser' \subseteq perUser /\ UNCHANGED <<singletons, made>> /\ UNCHANGED <<factory, scope, unhealthy>>
    BY <1>3 DEF ClearUser
  <2> QED
    BY <1>0, <2>1, DropKeeps, EngineParts
<1>4. ASSUME NEW n \in Services \ Fixed, MarkUnhealthy(n) \/ MarkHealthy(n) PROVE EngineOK' /\ CacheStep
  <2>1. UNCHANGED <<singletons, perUser, made>> /\ UNCHANGED <<factory, scope>>
    BY <1>4 DEF MarkUnhealthy, MarkHealthy, cacheVars
  <2>2. CacheTyped' /\ CacheOK' /\ CacheStep
    BY <1>0, <2>1, DropKeeps
  <2>3. unhealthy' \subseteq Services /\ unhealthy' \cap Fixed \subseteq unhealthy
    BY <1>4 DEF MarkUnhealthy, MarkHealthy, EngineOK, DITypeOK
  <2> QED
    BY <2>1, <2>2, <2>3 DEF EngineOK, DITypeOK, CacheTyped, FixedOK, UnhealthyHasCause
<1> QED
  BY <1>1, <1>2, <1>3, <1>4 DEF Configure

-----------------------------------------------------------------------------
(* The requests.                                                           *)

\* The type of a request.
RequestType ==
    [pc : {"new", "verifying", "ready", "authorized", "denied"}, role : Roles \cup {NoRole}, authenticated : BOOLEAN,
     user_id : Users \cup {NoUser}, vouched : Roles \cup {NoRole},
     needed : Required \cup {NoRole}, dep : (0 .. MaxInstances) \cup Objects,
     by : Names \cup Routed \cup {NoRole}]

\* What the engine does leaves the requests that it does not answer in order.
LEMMA OthersKeep ==
    ASSUME DIAssumption, EngineOK, EngineOK', CacheStep, NEW r \in Requests, request[r] \in RequestType,
           RequestOK(r), request'[r] = request[r]
    PROVE  RequestOK(r)'
<1>0. /\ made \in Nat /\ made' \in Nat /\ made <= made'
      /\ request[r].dep \in (0 .. made) \cup Objects /\ \A x \in Objects : x \notin Nat
  BY DEF EngineOK, DITypeOK, CacheStep, RequestOK, DIAssumption
<1>1. \A e \in perUser' : request[r].dep = e.at => e \in perUser
  <2> SUFFICES ASSUME NEW e \in perUser', request[r].dep = e.at, e.at > made PROVE FALSE
    BY DEF CacheStep
  <2>1. e.at \in Nat
    BY DEF EngineOK, DITypeOK
  <2> QED
    BY <1>0, <2>1
<1>2. request'[r].dep \in (0 .. made') \cup Objects
  BY <1>0
<1> QED
  BY <1>1, <1>2 DEF RequestOK

\* A dependency of the request's own user, or of nobody, may be delivered.
LEMMA DeliverKeeps ==
    ASSUME DIAssumption, EngineOK, EngineOK', CacheStep, request \in [Requests -> RequestType],
           \A q \in Requests : RequestOK(q),
           NEW r \in Requests, request[r].pc = "authorized",
           NEW n \in Services, NEW u \in Users \cup {NoUser}, NEW instance \in (0 .. MaxInstances) \cup Objects,
           Owned(u, instance), Deliver(r, n, instance),
           u = NoUser \/ instance = 0 \/ u = (IF n \in Routed THEN request[r].user_id ELSE UserOf[r])
    PROVE  request' \in [Requests -> RequestType] /\ \A q \in Requests : RequestOK(q)'
<1>1. request' = [request EXCEPT ![r] = [request[r] EXCEPT !.dep = instance, !.by = n]]
  BY DEF Deliver
<1>2. request' \in [Requests -> RequestType]
  <2>1. request[r] \in RequestType /\ n \in Names \cup Routed
    BY DEF Services
  <2>2. [request[r] EXCEPT !.dep = instance, !.by = n] \in RequestType
    BY <2>1 DEF RequestType
  <2> QED
    BY <1>1, <2>2
<1>3. ASSUME NEW q \in Requests, q # r PROVE RequestOK(q)'
  BY <1>1, <1>3, OthersKeep
<1>4. RequestOK(r)'
  <2>1. request'[r] = [request[r] EXCEPT !.dep = instance, !.by = n]
    BY <1>1
  <2>2. instance \in (0 .. made') \cup Objects
    BY DEF Owned
  <2>3. \A e \in perUser' : instance = e.at =>
           e.user = (IF n \in Routed THEN request[r].user_id ELSE UserOf[r])
    <3> SUFFICES ASSUME NEW e \in perUser', instance = e.at
                 PROVE  e.user = (IF n \in Routed THEN request[r].user_id ELSE UserOf[r])
      OBVIOUS
    <3>1. instance # 0
      BY DEF EngineOK, DITypeOK
    <3> QED
      BY <3>1 DEF Owned
  <2>4. /\ request'[r].pc = "authorized" /\ request'[r].dep = instance /\ request'[r].by = n
        /\ request'[r].user_id = request[r].user_id /\ request'[r].vouched = request[r].vouched
        /\ request'[r].needed = request[r].needed
    BY <2>1 DEF RequestType
  <2>5. request[r].vouched # NoRole /\ Rank(request[r].vouched) >= Rank(request[r].needed)
    BY DEF RequestOK
  <2> QED
    BY <2>2, <2>3, <2>4, <2>5 DEF RequestOK
<1> QED
  BY <1>2, <1>3, <1>4

\* The steps of authentication and authorization: the request they change is
\* still without a dependency.
LEMMA RequestKeeps ==
    ASSUME DIAssumption, EngineOK, request \in [Requests -> RequestType], \A q \in Requests : RequestOK(q),
           UNCHANGED diVars, NEW r \in Requests, NEW new \in RequestType,
           request' = [request EXCEPT ![r] = new], request[r].pc # "authorized",
           new.dep = request[r].dep,
           (new.pc = "ready" /\ new.authenticated) => (new.role = new.vouched /\ new.vouched # NoRole),
           new.pc = "authorized" => (new.vouched # NoRole /\ Rank(new.vouched) >= Rank(new.needed))
    PROVE  /\ EngineOK' /\ CacheStep
           /\ request' \in [Requests -> RequestType] /\ \A q \in Requests : RequestOK(q)'
<1>1. UNCHANGED <<factory, scope, unhealthy>> /\ UNCHANGED <<singletons, perUser, made>>
  BY DEF diVars, cacheVars
<1>2. EngineOK'
  BY <1>1 DEF EngineOK, DITypeOK, CacheOK, CacheBound, FixedOK, UnhealthyHasCause
<1>3. CacheStep
  BY <1>1 DEF CacheStep, EngineOK, DITypeOK
<1>4. request' \in [Requests -> RequestType]
  OBVIOUS
<1>5. ASSUME NEW q \in Requests, q # r PROVE RequestOK(q)'
  BY <1>2, <1>3, <1>5, OthersKeep
<1>6. RequestOK(r)'
  <2>1. request'[r] = new /\ new.dep = 0 /\ made' \in Nat
    BY <1>1 DEF RequestOK, EngineOK, DITypeOK
  <2>2. \A e \in perUser' : e.at # 0
    BY <1>1 DEF EngineOK, DITypeOK
  <2> QED
    BY <2>1, <2>2 DEF RequestOK
<1> QED
  BY <1>2, <1>3, <1>4, <1>5, <1>6

-----------------------------------------------------------------------------
(* The theorems.                                                           *)

\* The parts of the invariant.
LEMMA Parts ==
    IInv <=> /\ EngineOK /\ provider \in BOOLEAN
             /\ request \in [Requests -> RequestType] /\ \A r \in Requests : RequestOK(r)
  BY DEF IInv, TypeOK, EngineOK, RequestType

\* The invariant holds at the start.
LEMMA InitInv ==
    ASSUME DIAssumption, RolesAssumption, Init PROVE IInv
<1>1. DITypeOK
  BY DEF Init, DIInit, DITypeOK, DIAssumption, Scopes
<1>2. CacheOK
  BY FS_EmptySet DEF Init, DIInit, CacheOK, CacheBound, DIAssumption
<1>3. FixedOK
  BY DEF Init, DIInit, FixedOK, UnhealthyHasCause, DIAssumption
<1>4. request \in [Requests -> RequestType]
  BY DEF Init, Fresh, RequestType, DIAssumption
<1>5. \A r \in Requests : RequestOK(r)
  BY DEF Init, DIInit, Fresh, RequestOK
<1> QED
  BY <1>1, <1>2, <1>3, <1>4, <1>5, Parts DEF EngineOK, Init

\* Every step keeps the invariant, and does to the caches only what it may.
LEMMA StepInv ==
    ASSUME DIAssumption, RolesAssumption, IInv, [Next]_vars
    PROVE  IInv' /\ CacheStep
<1>0. /\ EngineOK /\ provider \in BOOLEAN /\ request \in [Requests -> RequestType]
      /\ \A r \in Requests : RequestOK(r) /\ request[r] \in RequestType
  BY Parts
<1> DEFINE Goal == /\ EngineOK' /\ CacheStep
                   /\ request' \in [Requests -> RequestType] /\ \A r \in Requests : RequestOK(r)'
<1>a. ASSUME Goal, provider' \in BOOLEAN PROVE IInv' /\ CacheStep
  BY <1>a DEF IInv, TypeOK, EngineOK, RequestType
<1>1. ASSUME UNCHANGED request, EngineOK', CacheStep PROVE Goal
  BY <1>0, <1>1, OthersKeep
<1>2. ASSUME UNCHANGED <<diVars, request>> PROVE Goal
  <2>1. UNCHANGED <<factory, scope, unhealthy>> /\ UNCHANGED <<singletons, perUser, made>> /\ UNCHANGED request
    BY <1>2 DEF diVars, cacheVars
  <2>2. EngineOK'
    BY <1>0, <2>1 DEF EngineOK, DITypeOK, CacheOK, CacheBound, FixedOK, UnhealthyHasCause
  <2>3. CacheStep
    BY <1>0, <2>1 DEF CacheStep, EngineOK, DITypeOK
  <2> QED
    BY <1>1, <2>1, <2>2, <2>3
<1>3. CASE RegisterProvider
  BY <1>2, <1>3, <1>a DEF RegisterProvider
<1>4. CASE Configure
  <2>1. UNCHANGED <<provider, request>>
    BY <1>4 DEF Configure
  <2>2. EngineOK' /\ CacheStep
    BY <1>0, <1>4, ConfigureKeeps
  <2> QED
    BY <1>0, <1>1, <1>a, <2>1, <2>2
<1>5. ASSUME NEW r \in Requests, NEW token \in BOOLEAN, Authenticate(r, token) PROVE Goal /\ UNCHANGED provider
  <2> DEFINE q == [request[r] EXCEPT !.vouched = NoRole]
             new == IF token /\ provider THEN [q EXCEPT !.pc = "verifying"] ELSE Refused(q)
  <2>1. /\ request[r].pc # "authorized" /\ request' = [request EXCEPT ![r] = new]
        /\ UNCHANGED diVars /\ UNCHANGED provider
    BY <1>5 DEF Authenticate
  <2>2. /\ new \in RequestType /\ new.dep = request[r].dep
        /\ ~(new.pc = "ready" /\ new.authenticated) /\ new.pc # "authorized"
    <3>1. request[r] \in RequestType
      BY <1>0
    <3> QED
      BY <3>1, ZenonT(30) DEF Refused, RequestType
  <2> HIDE DEF new
  <2> QED
    BY <1>0, <2>1, <2>2, RequestKeeps
<1>6. ASSUME NEW r \in Requests, ProviderAnswers(r) PROVE Goal /\ UNCHANGED provider
  <2>1. request[r].pc = "verifying" /\ UNCHANGED diVars /\ UNCHANGED provider
    BY <1>6 DEF ProviderAnswers
  <2>2. ASSUME NEW role \in Roles,
               request' = [request EXCEPT ![r] = [@ EXCEPT !.pc = "ready", !.authenticated = TRUE,
                            !.role = role, !.vouched = role]]
        PROVE  Goal
    <3> DEFINE new == [request[r] EXCEPT !.pc = "ready", !.authenticated = TRUE,
                            !.role = role, !.vouched = role]
    <3>1. request' = [request EXCEPT ![r] = new]
      BY <2>2
    <3>2. /\ new \in RequestType /\ new.dep = request[r].dep
          /\ new.role = new.vouched /\ new.vouched # NoRole /\ new.pc # "authorized"
      BY <1>0 DEF RequestType, RolesAssumption
    <3> HIDE DEF new
    <3> QED
      BY <1>0, <2>1, <3>1, <3>2, RequestKeeps
  <2>3. ASSUME request' = [request EXCEPT ![r] = Refused(@)] PROVE Goal
    <3> DEFINE new == Refused(request[r])
    <3>1. request' = [request EXCEPT ![r] = new]
      BY <2>3
    <3>2. /\ new \in RequestType /\ new.dep = request[r].dep
          /\ ~(new.pc = "ready" /\ new.authenticated) /\ new.pc # "authorized"
      BY <1>0 DEF RequestType, Refused
    <3> HIDE DEF new
    <3> QED
      BY <1>0, <2>1, <3>1, <3>2, RequestKeeps
  <2>4. ASSUME request' = [request EXCEPT ![r].pc = "denied"] PROVE Goal
    <3> DEFINE new == [request[r] EXCEPT !.pc = "denied"]
    <3>1. request' = [request EXCEPT ![r] = new]
      BY <2>4
    <3>2. new \in RequestType /\ new.dep = request[r].dep /\ new.pc = "denied"
      BY <1>0 DEF RequestType
    <3> HIDE DEF new
    <3> QED
      BY <1>0, <2>1, <3>1, <3>2, RequestKeeps
  <2> QED
    BY <1>6, <2>1, <2>2, <2>3, <2>4 DEF ProviderAnswers
<1>7. ASSUME NEW r \in Requests, SetUserId(r) PROVE Goal /\ UNCHANGED provider
  <2> DEFINE new == [request[r] EXCEPT !.user_id = UserOf[r]]
  <2>1. /\ request[r].pc = "ready" /\ request[r].authenticated
        /\ request' = [request EXCEPT ![r] = new] /\ UNCHANGED diVars /\ UNCHANGED provider
    BY <1>7 DEF SetUserId
  <2>2. /\ new \in RequestType /\ new.dep = request[r].dep /\ new.pc = request[r].pc
        /\ new.role = request[r].role /\ new.vouched = request[r].vouched
    BY <1>0 DEF RequestType, RolesAssumption
  <2>3. new.role = new.vouched /\ new.vouched # NoRole
    BY <1>0, <2>1, <2>2 DEF RequestOK
  <2> HIDE DEF new
  <2> QED
    BY <1>0, <2>1, <2>2, <2>3, RequestKeeps
<1>8. ASSUME NEW r \in Requests, NEW required \in Required, NEW acceptable \in Acceptable,
             Authorize(r, required, acceptable)
      PROVE  Goal /\ UNCHANGED provider
  <2> DEFINE ok == /\ request[r].authenticated /\ Rank(request[r].role) >= Rank(required)
                   /\ acceptable = {} \/ request[r].role \in acceptable
             new == IF ok THEN [request[r] EXCEPT !.pc = "authorized", !.needed = required]
                    ELSE [request[r] EXCEPT !.pc = "denied"]
  <2>1. /\ request[r].pc = "ready" /\ request' = [request EXCEPT ![r] = new]
        /\ UNCHANGED diVars /\ UNCHANGED provider
    BY <1>8 DEF Authorize
  <2>2. request[r].authenticated => request[r].role = request[r].vouched /\ request[r].vouched # NoRole
    BY <1>0, <2>1 DEF RequestOK
  <2>3. CASE ok
    <3>1. new = [request[r] EXCEPT !.pc = "authorized", !.needed = required]
      BY <2>3
    <3>2. /\ new \in RequestType /\ new.dep = request[r].dep /\ new.pc = "authorized"
          /\ new.vouched = request[r].vouched /\ new.needed = required
      BY <1>0, <3>1 DEF RequestType
    <3>3. new.vouched # NoRole /\ Rank(new.vouched) >= Rank(new.needed)
      BY <2>2, <2>3, <3>2
    <3> HIDE DEF new, ok
    <3> QED
      BY <1>0, <2>1, <3>2, <3>3, RequestKeeps
  <2>4. CASE ~ok
    <3>1. new = [request[r] EXCEPT !.pc = "denied"]
      BY <2>4
    <3>2. new \in RequestType /\ new.dep = request[r].dep /\ new.pc = "denied"
      BY <1>0, <3>1 DEF RequestType
    <3> HIDE DEF new, ok
    <3> QED
      BY <1>0, <2>1, <3>2, RequestKeeps
  <2> QED
    BY <2>3, <2>4
<1>9. ASSUME NEW r \in Requests, NEW n \in Services, Inject(r, n) PROVE Goal /\ UNCHANGED provider
  <2>1. request[r].pc = "authorized" /\ request[r].user_id \in Users \cup {NoUser} /\ UNCHANGED provider
    BY <1>0, <1>9 DEF Inject, RequestType
  <2>2. PICK instance \in (0 .. MaxInstances) \cup Objects :
           /\ IF n \in Routed THEN ResolveAsync(n, NoRole, request[r].user_id, instance)
              ELSE Resolve(n, NoUser, instance)
           /\ Deliver(r, n, instance)
    BY <1>9 DEF Inject
  <2>3. CASE n \in Routed
    <3>1. EngineOK' /\ CacheStep /\ Owned(request[r].user_id, instance)
      BY <1>0, <2>1, <2>2, <2>3, ResolveAsyncKeeps
    <3> QED
      BY <1>0, <2>1, <2>2, <2>3, <3>1, DeliverKeeps
  <2>4. CASE n \notin Routed
    <3>1. EngineOK' /\ CacheStep /\ Owned(NoUser, instance)
      BY <1>0, <2>2, <2>4, ResolveKeeps
    <3> QED
      BY <1>0, <2>1, <2>2, <3>1, DeliverKeeps
  <2> QED
    BY <2>3, <2>4
<1>10. ASSUME NEW r \in Requests, NEW n \in Names, ResolveFor(r, n) PROVE Goal /\ UNCHANGED provider
  <2>1. request[r].pc = "authorized" /\ UserOf[r] \in Users \cup {NoUser} /\ UNCHANGED provider /\ n \in Services
    BY <1>10 DEF ResolveFor, RolesAssumption, Services
  <2>2. PICK instance \in (0 .. MaxInstances) \cup Objects : Resolve(n, UserOf[r], instance) /\ Deliver(r, n, instance)
    BY <1>10 DEF ResolveFor
  <2>3. EngineOK' /\ CacheStep /\ Owned(UserOf[r], instance) /\ (n \in Routed => instance = 0)
    BY <1>0, <2>1, <2>2, ResolveKeeps
  <2> QED
    BY <1>0, <2>1, <2>2, <2>3, DeliverKeeps
<1>11. ASSUME NEW n \in Services, NEW u \in Users \cup {NoUser}, Elsewhere(n, u) PROVE Goal /\ UNCHANGED provider
  <2>1. UNCHANGED <<provider, request>>
    BY <1>11 DEF Elsewhere
  <2>2. PICK instance \in (0 .. MaxInstances) \cup Objects :
          \/ Resolve(n, u, instance)
          \/ n \in Routed /\ \E role \in Roles \cup {NoRole} : ResolveAsync(n, role, u, instance)
          \/ ResolveWithFallback(n, u, instance)
    BY <1>11 DEF Elsewhere
  <2>3. EngineOK' /\ CacheStep
    BY <1>0, <2>2, ResolveKeeps, ResolveAsyncKeeps, FallbackKeeps
  <2> QED
    BY <1>1, <2>1, <2>3
<1>12. CASE UNCHANGED vars
  BY <1>0, <1>2, <1>12, <1>a DEF vars
<1> HIDE DEF Goal
<1> QED
  BY <1>0, <1>3, <1>4, <1>5, <1>6, <1>7, <1>8, <1>9, <1>10, <1>11, <1>12, <1>a DEF Next

\* The inductive invariant is one of the specification.
THEOREM Invariance == Spec => []IInv
<1>1. Init => IInv
  BY InitInv, DIAssumption, RolesAssumption
<1>2. IInv /\ [Next]_vars => IInv'
  BY StepInv, DIAssumption, RolesAssumption
<1> QED
  BY <1>1, <1>2, PTL DEF Spec

\* The caches, the marks and the contexts keep their types.
THEOREM TypeCorrect == Spec => []TypeOK
<1>1. IInv => TypeOK
  BY DEF IInv
<1> QED
  BY <1>1, Invariance, PTL

\* authorize grants only what the provider vouched for with the last token,
\* for any roles, users and number of requests.
THEOREM GrantsAreVouched == Spec => []AuthorizedIsVouched
<1>1. IInv => AuthorizedIsVouched
  BY DEF IInv, RequestOK, AuthorizedIsVouched
<1> QED
  BY <1>1, Invariance, PTL

\* What a factory made for one user is served to no other, whatever was
\* evicted, cleared, registered anew or resolved in between; objects that stand
\* in for a factory are the only thing per-user entries share.
THEOREM UsersAreApart == Spec => []UsersNotMixed
<1>1. IInv => UsersNotMixed
  <2> SUFFICES ASSUME IInv PROVE UsersNotMixed
    OBVIOUS
  <2>1. \A e \in perUser : e.instance \notin Objects => e.instance = e.at
    BY DEF IInv, CacheOK
  <2>2. \A e, f \in perUser : e.instance = f.instance /\ e.instance \notin Objects => e = f
    BY <2>1 DEF IInv, CacheOK
  <2>3. \A e \in perUser, k \in Keys : singletons[k] = e.instance => e.instance \in Objects
    BY <2>1 DEF IInv, CacheOK
  <2>4. \A r \in Requests, e \in perUser :
          request[r].dep = e.instance /\ e.instance \notin Objects =>
              e.user = (IF request[r].by \in Routed THEN request[r].user_id ELSE UserOf[r])
    BY <2>1 DEF IInv, RequestOK
  <2> QED
    BY <2>2, <2>3, <2>4 DEF UsersNotMixed
<1> QED
  BY <1>1, Invariance, PTL

\* The per-user cache is bounded by max_per_user + 1 for every max_per_user,
\* zero included.
THEOREM CacheIsBounded == Spec => []CacheBound
<1>1. IInv => CacheBound
  BY DEF IInv, CacheOK
<1> QED
  BY <1>1, Invariance, PTL

\* A singleton that never fails stays healthy in every graph of fallbacks.
THEOREM MarksHaveCauses == Spec => []UnhealthyHasCause
<1>1. IInv => UnhealthyHasCause
  BY DEF IInv, FixedOK
<1> QED
  BY <1>1, Invariance, PTL

\* No step but clear replaces the instance of a singleton.
THEOREM SingletonsStay == Spec => SingletonIsStable
<1>1. IInv /\ [Next]_vars =>
        [\A k \in Keys : singletons[k] # 0 =>
            singletons'[k] = singletons[k] \/ \A j \in Keys : singletons'[j] = 0]_vars
  BY StepInv, DIAssumption, RolesAssumption DEF CacheStep
<1> QED
  BY <1>1, Invariance, PTL DEF Spec, SingletonIsStable

=============================================================================
