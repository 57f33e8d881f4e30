\* Two functions, one with hooks; three lifecycles, so that one function is
\* scheduled twice.
SPECIFICATION FairSpec
CONSTANTS
    Funcs = {f, g}
    Hooked = {f}
    Shots = {s1}
    Listeners = {h}
    MaxLifecycles = 3
    MaxEmits = 1
INVARIANTS
    LiveIsReachable
    DeadEntriesEndedAlone
    OnStopUninterrupted
    StopHookRuns
PROPERTY CancelEnds
CHECK_DEADLOCK FALSE
