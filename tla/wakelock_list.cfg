SPECIFICATION Spec
CONSTANTS
    Main = main
    Unknown = unknown
    Locks = {main, unknown, a, b}
    MaxTimeout = 2
INVARIANTS
    ReturnsTimeUntilAllExpired
PROPERTY
    ImplementsSets
