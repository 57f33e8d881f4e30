\* Three calls, of write, read, delete or health, for one data type: two
\* backends by its mapping, one by the users, an engine that only the level
\* gives, and a cache.
SPECIFICATION StorageSpec
CONSTANTS
    Clients = {w1, w2, w3}
    Stores = {s}
    Keys = {k1}
    k1 = k1
    NoClient = NoClient
    NoKey = NoKey
    MaxConns = 3
    Mapping <- BothMapped
    LevelRouting = {"postgres"}
    UserRouting = {"sqlite", "cached"}
INVARIANTS
    ReplicasAgree
    TrueMeansStored
    EngineHasTable
CHECK_DEADLOCK FALSE
