----------------------------- MODULE AuthPipeline -----------------------------
(***************************************************************************)
(* evoid_auth and evoid_di together: requests run authenticate, authorize   *)
(* and the injection of dependencies as coroutines of one event loop, while *)
(* providers and dependencies are registered.  Only the provider of a token *)
(* is awaited.  A context may be authenticated again, and its user may have *)
(* another role by then.                                                    *)
(***************************************************************************)
EXTENDS DIEngine

CONSTANTS
    Requests,
    UserOf,     \* the user of each request
    Roles,      \* the roles a provider may vouch for
    Required,   \* what requests ask for as required_role
    Acceptable, \* and as required_roles; {}: no list
    NoRole

\* _ROLE_HIERARCHY: any other role ranks below all of them.
Hierarchy == [admin |-> 4, editor |-> 3, viewer |-> 2, guest |-> 1]
Rank(role) == IF role \in DOMAIN Hierarchy THEN Hierarchy[role] ELSE 0

ASSUME RolesAssumption ==
    /\ UserOf \in [Requests -> Users] /\ NoRole \notin Roles \cup DOMAIN Hierarchy
    /\ RuleFor \in [Routed -> [Roles \cup {NoRole} -> Impls \cup {NoImpl}]]

VARIABLES
    provider,   \* is the provider that requests name registered?
    request     \* of each: where it is, its ctx.state and what is behind it

vars == <<diVars, provider, request>>

\* ctx.state has role and authenticated, and user_id where another processor
\* added it.  vouched is the role the provider gave for the
\* last token, needed the rank authorize found enough, dep the instance in
\* ctx.deps and by the key it came from.
Fresh == [pc |-> "new", role |-> NoRole, authenticated |-> FALSE,
          user_id |-> NoUser, vouched |-> NoRole, needed |-> NoRole, dep |-> 0, by |-> NoRole]

TypeOK ==
    /\ DITypeOK
    /\ provider \in BOOLEAN
    /\ request \in [Requests ->
            [pc : {"new", "verifying", "ready", "authorized", "denied"}, role : Roles \cup {NoRole}, authenticated : BOOLEAN,
             user_id : Users \cup {NoUser}, vouched : Roles \cup {NoRole},
             needed : Required \cup {NoRole}, dep : (0 .. MaxInstances) \cup Objects,
             by : Names \cup Routed \cup {NoRole}]]

Init ==
    /\ DIInit
    /\ provider = FALSE
    /\ request = [r \in Requests |-> Fresh]

-----------------------------------------------------------------------------
(* Authentication.                                                         *)

RegisterProvider == ~provider /\ provider' = TRUE /\ UNCHANGED <<diVars, request>>

\* Mutant: a failure leaves what an earlier token proved.
RefusedKeeps(q) == [q EXCEPT !.pc = "ready"]

\* A failure of authenticate: the user and the role of the context stay.
Refused(q) == [q EXCEPT !.pc = "ready", !.authenticated = FALSE]

\* authenticate up to the provider, with a token or without one: without it,
\* or without a provider, it fails at once.
Authenticate(r, token) ==
    /\ request[r].pc \in {"new", "ready", "denied"}
    /\ LET q == [request[r] EXCEPT !.vouched = NoRole]
       IN  request' = [request EXCEPT ![r] =
              IF token /\ provider THEN [q EXCEPT !.pc = "verifying"] ELSE Refused(q)]
    /\ UNCHANGED <<diVars, provider>>

\* The provider vouches for a user and a role, or raises.  What is not a dict
\* makes authenticate itself raise, which ends that run of the pipeline before
\* anything of the context has changed.
ProviderAnswers(r) ==
    /\ request[r].pc = "verifying"
    /\ \/ \E role \in Roles :
            request' = [request EXCEPT ![r] = [@ EXCEPT !.pc = "ready", !.authenticated = TRUE,
                            !.role = role, !.vouched = role]]
       \/ request' = [request EXCEPT ![r] = Refused(@)]
       \/ request' = [request EXCEPT ![r].pc = "denied"]
    /\ UNCHANGED <<diVars, provider>>

\* authorize: the rank of the role, if a role is required, and the list of
\* acceptable roles, if there is one.
Authorize(r, required, acceptable) ==
    /\ request[r].pc = "ready"
    /\ request' = [request EXCEPT ![r] =
          IF /\ @.authenticated /\ Rank(@.role) >= Rank(required)
             /\ acceptable = {} \/ @.role \in acceptable
          THEN [@ EXCEPT !.pc = "authorized", !.needed = required]
          ELSE [@ EXCEPT !.pc = "denied"]]
    /\ UNCHANGED <<diVars, provider>>

-----------------------------------------------------------------------------
(* Injection.                                                              *)

\* Another processor puts the id of the user where the engine looks for it.
SetUserId(r) ==
    /\ request[r].pc = "ready" /\ request[r].authenticated /\ request[r].user_id = NoUser
    /\ request' = [request EXCEPT ![r].user_id = UserOf[r]]
    /\ UNCHANGED <<diVars, provider>>

Deliver(r, n, instance) == request' = [request EXCEPT ![r].dep = instance, ![r].by = n]

\* inject: authenticate never sets the user_id and user_role that
\* extract_context reads, and resolve is called without a user.
Inject(r, n) ==
    /\ request[r].pc = "authorized" /\ request[r].dep = 0
    /\ \E instance \in (0 .. MaxInstances) \cup Objects :
          /\ IF n \in Routed THEN ResolveAsync(n, NoRole, request[r].user_id, instance)
             ELSE Resolve(n, NoUser, instance)
          /\ Deliver(r, n, instance)
    /\ UNCHANGED provider

\* A handler resolves a dependency for its user, with or without fallbacks.
ResolveFor(r, n) ==
    /\ request[r].pc = "authorized" /\ request[r].dep = 0
    /\ \E instance \in (0 .. MaxInstances) \cup Objects :
          /\ Resolve(n, UserOf[r], instance)
          /\ Deliver(r, n, instance)
    /\ UNCHANGED provider

\* Other requests resolve, directly, by rules or with fallbacks, for a user
\* or nobody.
Elsewhere(n, u) ==
    /\ \E instance \in (0 .. MaxInstances) \cup Objects :
          \/ Resolve(n, u, instance)
          \/ n \in Routed /\ \E role \in Roles \cup {NoRole} : ResolveAsync(n, role, u, instance)
          \/ ResolveWithFallback(n, u, instance)
    /\ UNCHANGED <<provider, request>>

Configure ==
    /\ \/ \E n \in Names \ Fixed, f \in {"callable"} \cup Objects, sc \in Scopes : Register(n, f, sc)
       \/ Clear \/ \E u \in Users : ClearUser(u)
       \/ \E n \in Services \ Fixed : MarkUnhealthy(n) \/ MarkHealthy(n)
    /\ UNCHANGED <<provider, request>>

Next ==
    \/ RegisterProvider \/ Configure
    \/ \E r \in Requests :
        \/ \E token \in BOOLEAN : Authenticate(r, token)
        \/ ProviderAnswers(r) \/ SetUserId(r)
        \/ \E required \in Required, acceptable \in Acceptable : Authorize(r, required, acceptable)
        \/ \E n \in Services : Inject(r, n)
        \/ \E n \in Names : ResolveFor(r, n)
    \/ \E n \in Services, u \in Users \cup {NoUser} : Elsewhere(n, u)

Spec == Init /\ [][Next]_vars

-----------------------------------------------------------------------------
(* Properties.                                                             *)

\* A request is authorized only by what the provider vouched for its last
\* token, however often it was authenticated and although a failure leaves
\* the earlier role in the context; a required role outside the hierarchy
\* asks for nothing (processors.py:36-61, :78-96, :127-134).
AuthorizedIsVouched ==
    \A r \in Requests : request[r].pc = "authorized" =>
        /\ request[r].vouched # NoRole
        /\ Rank(request[r].vouched) >= Rank(request[r].needed)

\* What a factory returned for one user never reaches another, and a request
\* that carries a user_id never gets what was made for somebody else.  Shared
\* by everybody are a per_user service whose request has no user_id, as
\* authenticate leaves it, and an object that was registered in place of a
\* factory (engine.py:124-131, :165-185, :208-221).
UsersNotMixed ==
    /\ \A e, f \in perUser : e.instance = f.instance /\ e.instance \notin Objects => e = f
    /\ \A e \in perUser, k \in Keys : singletons[k] = e.instance => e.instance \in Objects
    /\ \A r \in Requests, e \in perUser :
          request[r].dep = e.instance /\ e.instance \notin Objects =>
              e.user = (IF request[r].by \in Routed THEN request[r].user_id ELSE UserOf[r])

\* The per-user cache never has more than one entry above its maximum, also
\* when a factory raises after the eviction (engine.py:128-131, :171-174,
\* :241-247).
CacheBound == Cardinality(perUser) <= MaxPerUser + 1

\* A singleton stays the one it is until clear, also over a new registration
\* of its name: what was registered first is served on (engine.py:101-102,
\* :133-136, :223-226).
SingletonIsStable ==
    [][\A k \in Keys : singletons[k] # 0 =>
          singletons'[k] = singletons[k] \/ \A j \in Keys : singletons'[j] = 0]_vars

\* A singleton whose factory never raises and that nobody marks stays
\* healthy, whatever becomes of the services that fall back on it and of its
\* own health check; any other can be taken from everybody by one call
\* without a user (engine.py:289-346).
UnhealthyHasCause == unhealthy \cap Fixed \subseteq Failing

=============================================================================
