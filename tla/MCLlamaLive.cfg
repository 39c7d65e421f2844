\* The heartbeat beside the monitors, with the code's limits of 3.
SPECIFICATION FairSpec
CONSTANTS
    MaxPid = 2
    MaxMonitors = 2
    Callers = {}
    Heartbeat = 1
    MaxRetries = 3
    FailThreshold = 3
    MaxFires = 1
    Stops = 1
CONSTRAINT Serial
PROPERTIES
    WedgeEnds
    DeadNotLoaded
CHECK_DEADLOCK FALSE
