SPECIFICATION FairSpec
CHECK_DEADLOCK FALSE
CONSTANTS
    many = many
    single = single
    Clients = {many, single}
    NoClient = NoClient
    EVDEV_BUFFER_SIZE = 4
    MaxMany = 9
    MaxEvents <- MCMaxEvents
INVARIANTS ReceiversAreAlive InputClosedOnce DeviceAliveWhileUsed RingHoldsNewest UnreadKeepsAwake
PROPERTY ReaderReleased
