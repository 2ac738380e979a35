SPECIFICATION FairSpec
CONSTANTS
    Writers = {w1, w2}
    Drivers = {driver}
    Users = {{w1}, {w1, w2}, {w1, driver}}
    Work = work
    Levels = {0}
    MAX_PERF_LEVEL = 1
INVARIANTS EndIsComing QuietMeansNoLimit
PROPERTIES LimitEnds
