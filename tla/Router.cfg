\* Two concurrent calls that share a provider, every fault.
SPECIFICATION FairSpec
CONSTANTS
    c1 = c1
    c2 = c2
    n1 = n1
    n2 = n2
    here = here
    Calls = {c1, c2}
    Providers <- Overlapping
    Local = here
INVARIANTS
    OwnAnswer
    WaiterIsReachable
    LeaksAreSendFailures
    RetriedOnlyByFailover
PROPERTIES
    CallsEnd
CHECK_DEADLOCK FALSE
