\* The heartbeat beside one monitor that has used up its retries.
SPECIFICATION FairSpec
CONSTANTS
    MaxPid = 3
    MaxMonitors = 1
    Callers = {}
    Heartbeat = 1
    MaxRetries = 3
    FailThreshold = 3
    MaxFires = 0
    Stops = 0
PROPERTY RecoveryFires
CHECK_DEADLOCK FALSE
