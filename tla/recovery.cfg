SPECIFICATION FairSpec
CONSTANTS
    system = system
    dbdata = dbdata
    cache = cache
    data = data
    sdcard = sdcard
    Fstab <- MCFstab
    Wipe <- MCWipe
    CACHE = cache
    SDCARD = sdcard
    Devices <- MCDevices
    KeepsMode = {TRUE, FALSE}
    Requests <- MCRequests
INVARIANT ErasedUnlessReported
PROPERTIES OnlyWhatWasAsked RecoveryEnds
CHECK_DEADLOCK FALSE
