\* The heartbeat, one topology change, two monitors at once.
SPECIFICATION Spec
CONSTANTS
    MaxPid = 2
    MaxMonitors = 2
    Callers = {}
    Heartbeat = 1
    MaxRetries = 2
    FailThreshold = 1
    MaxFires = 1
    Stops = 0
INVARIANTS
    TypeOK
    OneServer
    LoadedIsWatched
PROPERTY NoCrashLoop
CHECK_DEADLOCK FALSE
