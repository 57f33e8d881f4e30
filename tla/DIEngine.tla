------------------------------- MODULE DIEngine -------------------------------
(***************************************************************************)
(* evoid_di/engine.py and rules.py: the registry of factories, the caches   *)
(* of instances, the routing rules and the fallback chains of DIEngine.     *)
(* Nothing in it really awaits, so that every call is one step.  An         *)
(* instance is the number of the factory call that returned it; an object   *)
(* that was registered in place of a factory is handed out as it is.        *)
(***************************************************************************)
EXTENDS Naturals, Sequences, FiniteSets

CONSTANTS
    Names,        \* the dependencies that are registered with a factory
    Fixed,        \* those registered once, as singletons, before anything else
    Routed,       \* the services with routing rules and scope per_user
    Impls, NoImpl,\* the implementations the rules name; no rule matched
    RuleFor,      \* the implementation of a service for each role, by its rules
    Objects,      \* what is registered and is not callable
    ImplFactory,  \* _impl_registry: "callable", an object, or "none"
    Users, NoUser,
    Fallbacks,    \* the fallback chain of each name
    Checked,      \* the services with a health check, which may say no
    Failing,      \* the keys whose factory may raise
    MaxPerUser,   \* max_per_user
    MaxInstances  \* bound: the instances created

Services == Names \cup Routed

\* What the caches are keyed by: a name, or a service with the implementation
\* its rules chose.
Keys == Names \cup (Routed \X Impls)
Scopes == {"singleton", "transient", "per_user"}

ASSUME DIAssumption ==
    /\ NoUser \notin Users /\ Failing \subseteq Keys /\ Checked \subseteq Services
    /\ Fallbacks \in [Services -> Seq(Services)]
    /\ Fixed \subseteq Names \ Routed /\ MaxPerUser \in Nat /\ MaxInstances \in Nat
    /\ NoImpl \notin Impls /\ Objects \cap (Nat \cup {"none", "callable"}) = {}
    /\ ImplFactory \in [Impls -> {"none", "callable"} \cup Objects]

VARIABLES
    factory,    \* _factories: "callable", an object, or "none"
    scope,      \* _scopes
    singletons, \* _singletons: the instance of each key, or 0
    perUser,    \* _per_user: its entries, at their place in the dict
    made,       \* how often _create has returned
    unhealthy   \* _unhealthy

cacheVars == <<singletons, perUser, made>>
diVars == <<factory, scope, cacheVars, unhealthy>>

DITypeOK ==
    /\ factory \in [Names -> {"none", "callable"} \cup Objects] /\ scope \in [Names -> Scopes]
    /\ made \in 0 .. MaxInstances
    /\ singletons \in [Keys -> (0 .. made) \cup Objects]
    /\ perUser \subseteq [key : Keys, user : Users, at : 1 .. made, instance : (1 .. made) \cup Objects]
    /\ unhealthy \subseteq Services

DIInit ==
    /\ factory = [n \in Names |-> IF n \in Fixed THEN "callable" ELSE "none"] /\ scope = [n \in Names |-> "singleton"]
    /\ singletons = [k \in Keys |-> 0] /\ perUser = {} /\ made = 0
    /\ unhealthy = {}

-----------------------------------------------------------------------------
(* Registration.                                                           *)

\* Mutant: the instance of the old factory is dropped.
RegisterFresh(n, f, sc) ==
    /\ factory' = [factory EXCEPT ![n] = f]
    /\ scope' = [scope EXCEPT ![n] = sc]
    /\ singletons' = [singletons EXCEPT ![n] = 0]
    /\ UNCHANGED <<perUser, made, unhealthy>>

\* register, of register_many too: the caches stay as they are.
Register(n, f, sc) ==
    /\ factory' = [factory EXCEPT ![n] = f]
    /\ scope' = [scope EXCEPT ![n] = sc]
    /\ UNCHANGED <<cacheVars, unhealthy>>

Registered(n) == n \in Names /\ factory[n] # "none"
Has(n) == Registered(n) \/ n \in Routed

-----------------------------------------------------------------------------
(* The caches.                                                             *)

\* Mutant: nothing is evicted.
EvictNothing(entries) == entries

\* _evict_per_user_if_needed: the oldest go, when there are more than the
\* maximum before the insertion.
EvictPerUserIfNeeded(entries) ==
    {e \in entries : Cardinality({f \in entries : f.at > e.at}) < MaxPerUser}

\* Mutant: the entries are looked up by the name alone.
CachedForAnyone(entries, key, u) == {e \in entries : e.key = key}

\* The entry of a user in the per-user cache.
CachedFor(entries, key, u) == {e \in entries : e.key = key /\ e.user = u}

FactoryOf(key) == IF key \in Names THEN factory[key] ELSE ImplFactory[key[2]]

\* _create and _create_impl: a factory is called and returns, an object is
\* returned as it is; or the factory raises, or there is none (0).
Create(key, instance) ==
    \/ /\ FactoryOf(key) # "none"
       /\ made < MaxInstances /\ made' = made + 1
       /\ instance = IF FactoryOf(key) \in Objects THEN FactoryOf(key) ELSE made + 1
    \/ /\ FactoryOf(key) = "none" \/ (FactoryOf(key) = "callable" /\ key \in Failing)
       /\ instance = 0 /\ UNCHANGED made

\* One resolution of a key in a scope, from given per-user entries, which are
\* evicted before the factory is called: its instance, or 0 if it raises.
Obtain(entries, key, sc, u, instance) ==
    CASE sc = "transient" ->
            Create(key, instance) /\ perUser' = entries /\ UNCHANGED singletons
      [] sc = "per_user" /\ u = NoUser ->
            instance = 0 /\ perUser' = entries /\ UNCHANGED <<singletons, made>>
      [] sc = "per_user" /\ u # NoUser /\ CachedFor(entries, key, u) # {} ->
            /\ instance \in {e.instance : e \in CachedFor(entries, key, u)}
            /\ perUser' = entries
            /\ UNCHANGED <<singletons, made>>
      [] sc = "per_user" /\ u # NoUser /\ CachedFor(entries, key, u) = {} ->
            /\ Create(key, instance)
            /\ perUser' = IF instance = 0 THEN EvictPerUserIfNeeded(entries)
                          ELSE EvictPerUserIfNeeded(entries) \cup {[key |-> key, user |-> u, at |-> made', instance |-> instance]}
            /\ UNCHANGED singletons
      [] sc = "singleton" /\ singletons[key] # 0 ->
            instance = singletons[key] /\ perUser' = entries /\ UNCHANGED <<singletons, made>>
      [] OTHER ->
            /\ Create(key, instance)
            /\ singletons' = [singletons EXCEPT ![key] = instance]
            /\ perUser' = entries

\* resolve: a service with rules cannot be resolved without a context.
Resolve(n, u, instance) ==
    /\ IF Registered(n) /\ n \notin Routed THEN Obtain(perUser, n, scope[n], u, instance)
       ELSE instance = 0 /\ UNCHANGED cacheVars
    /\ UNCHANGED <<factory, scope, unhealthy>>

\* resolve_async: the first rule that matches the context, if one does; a
\* per_user service without a user is one instance for everybody.
ResolveAsync(n, role, u, instance) ==
    /\ IF RuleFor[n][role] = NoImpl THEN instance = 0 /\ UNCHANGED cacheVars
       ELSE Obtain(perUser, <<n, RuleFor[n][role]>>, IF u = NoUser THEN "singleton" ELSE "per_user", u, instance)
    /\ UNCHANGED <<factory, scope, unhealthy>>

Clear ==
    /\ singletons' = [k \in Keys |-> 0] /\ perUser' = {}
    /\ UNCHANGED <<factory, scope, made, unhealthy>>

ClearUser(u) ==
    /\ perUser' = {e \in perUser : e.user # u}
    /\ UNCHANGED <<factory, scope, singletons, made, unhealthy>>

-----------------------------------------------------------------------------
(* Fault tolerance.                                                        *)

MarkUnhealthy(n) ==
    /\ unhealthy' = unhealthy \cup {n}
    /\ UNCHANGED <<factory, scope, cacheVars>>

MarkHealthy(n) ==
    /\ unhealthy' = unhealthy \ {n}
    /\ UNCHANGED <<factory, scope, cacheVars>>

\* Can a resolution of n for u raise, with the given per-user entries, and can
\* it return?
PerUser(n) == n \in Names \ Routed /\ scope[n] = "per_user"
Cached(entries, n, u) ==
    IF PerUser(n) THEN CachedFor(entries, n, u) # {} ELSE scope[n] = "singleton" /\ singletons[n] # 0
MustRaise(n, u) == n \in Names \ Routed => PerUser(n) /\ u = NoUser
MayRaise(entries, n, u) ==
    MustRaise(n, u) \/ (n \in Failing /\ factory[n] = "callable" /\ ~Cached(entries, n, u))

\* Mutant: a service that was passed over is marked, for whatever reason.
ToMarkAll(chain, raised, last) == {chain[j] : j \in 1 .. last - 1}

\* Those of the chain that raised on the way to its last.
ToMark(chain, raised, last) == {chain[j] : j \in raised}

\* resolve_with_fallback: the name and its fallbacks are tried in order, those
\* that are registered, not unhealthy and pass their check; one that raises is
\* marked unhealthy.  The answer is that of the first which does not, or a
\* cluster node or None (0).
ResolveWithFallback(n, u, instance) ==
    LET chain == <<n>> \o Fallbacks[n]
        Usable(j) == Has(chain[j]) /\ chain[j] \notin unhealthy
    IN  /\ \E last \in 1 .. Len(chain) + 1 : \E raised \in SUBSET {j \in 1 .. last - 1 : Usable(j)} :
            LET Raised(j) == {i \in raised : i < j}
                \* Is the j-th of the chain tried, and with which per-user entries?
                Tried(j) == Usable(j) /\ \A i \in Raised(j) : chain[i] # chain[j]
                Entries(j) == IF u # NoUser /\ \E i \in Raised(j) : PerUser(chain[i])
                              THEN EvictPerUserIfNeeded(perUser) ELSE perUser
            IN  /\ instance = 0 <=> last > Len(chain)
                /\ \A j \in raised : Tried(j) /\ MayRaise(Entries(j), chain[j], u)
                /\ \A j \in 1 .. last - 1 : Tried(j) /\ j \notin raised => chain[j] \in Checked
                /\ unhealthy' = unhealthy \cup ToMark(chain, raised, last)
                /\ IF last > Len(chain) THEN perUser' = Entries(last) /\ UNCHANGED <<singletons, made>>
                   ELSE /\ Tried(last) /\ ~MustRaise(chain[last], u)
                        /\ Obtain(Entries(last), chain[last], scope[chain[last]], u, instance)
        /\ UNCHANGED <<factory, scope>>

=============================================================================
