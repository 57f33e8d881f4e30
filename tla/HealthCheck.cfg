\* One peer that also connects to this node.
SPECIFICATION FairSpec
CONSTANTS
    Peers = {p1}
    Mutual = {p1}
    MaxAge = 2
PROPERTIES
    TimeoutIsCurrent
    DeadIsDetected
    AliveIsRestored
