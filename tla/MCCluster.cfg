\* Two nodes of the same score; any two of: a crash, a lost discovery, a
\* request (one may state no RAM and cores, the score 0), an engine that ends or
\* starts alone.
SPECIFICATION FairSpec
CONSTANTS
    Nodes <- TwoNodes
    Score <- TwoScores
    Ip <- TwoIps
    Claims = {0}
    Timeout = 2
    MaxEvents = 2
INVARIANTS
    TypeOK
    OneCoordinator
PROPERTIES
    Converges
    DeadPeerDropped
    EngineSettles
CHECK_DEADLOCK FALSE
