\* child_main and at most one unknown child, with and without a watchdog.
SPECIFICATION FairSpec
CONSTANTS
    HasDaemons = FALSE
    CrashLimit = 1
    RestartLimit = 1
    MaxOthers = 1
PROPERTIES
    RespawnWhenAlone
    RequestEnds
CHECK_DEADLOCK FALSE
