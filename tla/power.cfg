SPECIFICATION Spec
CONSTANTS
    Main = main
    Unknown = unknown
    Sync = sync
    Locks = {main, unknown, sync, u, e, d}
    UserLocks = {u}
    EvdevLocks = {e}
    DriverLocks = {d}
    Handlers = {}
    HighHandlers = {}
    Level <- MCLevel
    TimeoutArgs = {0, 1, 2, 3, 17, 31, 63}
    NoTimeout = NoTimeout
    MaxTimeout = 2
    UnknownTimeout = 1
    EvdevTimeout = 2
    NsPerJiffy = 2
    UllSize = 64
    LongSize = 16
INVARIANTS
    TypeOK
    TimerCoversLocks
    SleepTimeCharged
    SuspendNotLost
    MainHeldUnlessSuspended
    SleepOnlyWhenAsked
PROPERTY
    RequestedTimeHonoured
