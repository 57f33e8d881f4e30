\* A request of one of two users, whose provider vouches for a role that is high
\* enough or for one that is not; a required role outside the hierarchy; a
\* dependency that is an object or has a factory that may raise, its fallback,
\* and a service with rules that do not match an admin; a cache of max_per_user
\* 0, which holds one entry.
SPECIFICATION Spec
CONSTANTS
    Requests = {q1}
    Users = {alice, bob}
    q1 = q1
    alice = alice
    UserOf <- Sender
    NoUser = NoUser
    NoRole = NoRole
    Roles = {"admin", "user"}
    Required = {"editor", "owner"}
    Acceptable = {{}, {"admin"}}
    Names = {db, mem}
    Fixed = {mem}
    Routed = {svc}
    Impls = {impl}
    db = db
    mem = mem
    svc = svc
    impl = impl
    NoImpl = NoImpl
    RuleFor <- RulesOf
    obj = obj
    Objects = {obj}
    ImplFactory <- MadeByCall
    Fallbacks <- Chains
    Checked = {mem}
    Failing = {db}
    MaxPerUser = 0
    MaxInstances = 2
INVARIANTS
    AuthorizedIsVouched
    UsersNotMixed
    CacheBound
    UnhealthyHasCause
PROPERTY SingletonIsStable
CHECK_DEADLOCK FALSE
