\* One unknown child keeps waitpid(-1) blocked after the handler has reaped.
SPECIFICATION FairSpec
CONSTANTS
    HasDaemons = FALSE
    CrashLimit = 1
    RestartLimit = 1
    MaxOthers = 1
PROPERTY RespawnAfterExit
CHECK_DEADLOCK FALSE
