\* Four tasks, room for two deferred ones.
SPECIFICATION QueueSpec
CONSTANTS
    Priorities <- ThreePriorities
    Normal = 50
    EnableDefer = TRUE
    MaxDeferred = 2
    MaxTasks = 4
INVARIANTS
    Conserved
    LossHasEqualVictim
CHECK_DEADLOCK FALSE
