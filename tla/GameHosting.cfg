\* Five versions of the game, three loads of the page.
SPECIFICATION HostingSpec
CONSTANTS
    Size <- Sizes
    ChunkSize = 2
    MaxLoads = 3
INVARIANTS
    WholeFile
CHECK_DEADLOCK FALSE
