\* Two messages of two users, one of them a moderator, and two starts.
SPECIFICATION Spec
CONSTANTS
    Plugin = plugin
    Clients = {plugin, m1, m2}
    Stores = {1, 2}
    Keys <- RowKeys
    r1 = r1
    NoClient = NoClient
    NoKey = NoKey
    None = None
    MaxConns = 4
    Whitelist = {alice}
    Users = {alice, bob}
    Rooms = {r1}
    Words = {"create", "mod", "tone", "quality", "unknown"}
INVARIANTS
    AnsweredIsKept
    SilentHasCause
    GrantsByModerators
CHECK_DEADLOCK FALSE
