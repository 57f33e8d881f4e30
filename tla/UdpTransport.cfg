SPECIFICATION Spec
CONSTANTS
    a1 = a1
    a2 = a2
    Addrs = {a1, a2}
    Modulus = 6
    HeaderBits = 3
    MaxDelay = 2
    MaxSent <- SentBounds
    MaxIds = 3
    MaxTasks = 1
    Permits = 1
CONSTRAINT FewStamps
INVARIANT AcksAreReceived
INVARIANT PlayerIsSender
PROPERTY AckNeverRegresses
CHECK_DEADLOCK FALSE
