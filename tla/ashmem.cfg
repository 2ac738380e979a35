SPECIFICATION Spec
CONSTANTS
    large = large
    small = small
    Areas = {large, small}
    Tasks = {t}
    MaxPages = 3
    Sizes <- MCSizes
    Ranges = {r1, r2, r3}
    NrToScan = {1, 3}
    None = None
INVARIANTS RangesApart LruCounted StatusExact
PROPERTIES ImplementsMemory
SYMMETRY AnyStructure
CHECK_DEADLOCK FALSE
CONSTRAINT Followed
