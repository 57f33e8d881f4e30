\* Two mutual peers: start, loss of connections, announcements, stop.
SPECIFICATION FairSpec
CONSTANTS
    n1 = n1
    n2 = n2
    Nodes = {n1, n2}
    PeersOf <- Pair
    ServicesOf <- PairServices
    Extra = {"game"}
INVARIANTS
    OnlyOwnServices
    RemoteIndexAgrees
    SocketsAreTracked
PROPERTY
    KnownAnnounceIsRecorded
CHECK_DEADLOCK FALSE
