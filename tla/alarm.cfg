SPECIFICATION Spec
CONSTANTS
    Types = {"RTC_WAKEUP", "ELAPSED_REALTIME_WAKEUP"}
    Ids = {1, 2}
    TPS = 2
    MaxTime = 5
    Times = {2, 5}
    NewTimes = {4}
    MaxSets = 1
INVARIANTS QueuesArmed NeverOverslept ElapsedKept
CHECK_DEADLOCK FALSE
