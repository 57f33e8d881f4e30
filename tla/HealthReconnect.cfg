SPECIFICATION FairSpec
CONSTANTS
    Peers = {p1}
    Mutual = {p1}
    MaxAge = 1
PROPERTY Reconnects
