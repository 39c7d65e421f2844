\* Every actor, with daemons and one unknown child; limits of 1 keep the
\* counters small while both sides of every comparison occur.
SPECIFICATION Spec
CONSTANTS
    HasDaemons = TRUE
    CrashLimit = 1
    RestartLimit = 1
    MaxOthers = 1
INVARIANTS
    TypeOK
    OneChild
    QuiescentHalt
    RebootHonoured
    ExitedMeansReaped
CHECK_DEADLOCK FALSE
