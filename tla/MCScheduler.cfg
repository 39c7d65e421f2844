\* Two tasks, two requests, one crash; the cron expression matches once.
SPECIFICATION FairSpec
CONSTANTS
    t1 = t1
    t2 = t2
    Ids <- TwoIds
    CronTimes <- MCCronTimes
    Ats <- MCAts
    Periods <- MCPeriods
    MaxTime = 4
    MaxEdits = 2
    MaxCrashes = 1
INVARIANTS
    TypeOK
    OneShotOnce
    GoneStaysGone
    PeriodRespected
PROPERTY DueIsServed
CHECK_DEADLOCK FALSE
