SPECIFICATION FairSpec
CONSTANTS
    Main = main
    Unknown = unknown
    Sync = sync
    Locks = {main, unknown, sync, e}
    UserLocks = {}
    EvdevLocks = {e}
    DriverLocks = {}
    Handlers = {h1, h2, h3}
    HighHandlers = {h2, h3}
    Level <- MCLevel
    TimeoutArgs = {}
    NoTimeout = NoTimeout
    MaxTimeout = 2
    UnknownTimeout = 1
    EvdevTimeout = 2
    NsPerJiffy = 2
    UllSize = 64
    LongSize = 16
PROPERTIES
    OnHonoured
    MemHonoured
INVARIANT HandlersFollowState
