\* Two nodes of the same score boot, and nothing goes wrong.
SPECIFICATION FairSpec
CONSTANTS
    Nodes <- TwoNodes
    Score <- TwoScores
    Ip <- TwoIps
    Claims = {0}
    Timeout = 3
    MaxEvents = 0
PROPERTY JoinedPeerUsed
CHECK_DEADLOCK FALSE
