SPECIFICATION Spec
CONSTANTS
    Main = main
    Unknown = unknown
    Sync = sync
    Locks = {main, unknown, sync}
    UserLocks = {}
    EvdevLocks = {}
    DriverLocks = {}
    Handlers = {}
    HighHandlers = {}
    Level <- MCLevel
    TimeoutArgs = {}
    NoTimeout = NoTimeout
    MaxTimeout = 2
    UnknownTimeout = 1
    EvdevTimeout = 2
    NsPerJiffy = 2
    UllSize = 64
    LongSize = 16
INVARIANT ActiveLockPreventsSuspend
