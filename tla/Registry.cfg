\* No id is registered over a known one: three nodes, and the round-robin
\* counter against their changing lists.
SPECIFICATION MCSpec
CONSTANTS
    NodeIds = {n1, n2, n3}
    Patterns <- OneNamePatterns
    Names <- OneName
    WildcardOf <- OneWildcardOf
    NoNode = NoNode
    AllowReRegister = FALSE
INVARIANTS
    UniqueEntries
    IndexComplete
    IndexSound
    ResolveComplete
    RoundRobin
PROPERTY ImplementsDirectory
