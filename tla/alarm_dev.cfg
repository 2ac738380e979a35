SPECIFICATION DevFairSpec
CONSTANTS
    Files = {f, g}
    TaskIds = {1}
    TYPE_COUNT = 2
    TIME_CHANGE = 16
    None = None
INVARIANTS AwakeUntilAcknowledged LockHasReason ReleasedLeavesNothing
PROPERTIES WaiterWoken
