SPECIFICATION FairSpec
CONSTANTS
    Readers = {r1}
    lapping = lapping
    early = early
    Writers = {lapping, early}
    NoReader = NoReader
    LOGGER_ENTRY_MAX_LEN = 3
    Size = 6
    Laps = 8
    Early = 4
    MaxCells <- MCMaxCells
PROPERTIES ImplementsLogChannel SleeperWoken
CHECK_DEADLOCK FALSE
CONSTRAINT UntilUndone
