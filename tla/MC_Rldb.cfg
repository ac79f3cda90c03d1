\* A NULL dereference ends the process, so states with fault # "none" have
\* no successor.
CHECK_DEADLOCK FALSE
CONSTANTS
    a = a
    b = b
    long = long
    bad = bad
    null = null
    NullName <- null
    Names <- MC_Names
    LongNames <- MC_LongNames
    BadNames <- MC_BadNames
    Flags <- MC_Flags
    MaxIds = 4
INIT Init
NEXT Next
INVARIANTS
    TypeOK
    TableMatchesHandles
    NoUseAfterFree
