CONSTANTS
    i1 = i1
    i2 = i2
    p1 = p1
    p2 = p2
    none = none
    NoName <- none
    Ifnames <- MC_Ifnames
    Policies <- MC_Policies
    CGN_SESSIONS_MAX = 1000
    CGN_DEST_SESSIONS_MAX = 64
    SessionsArgs <- MC_SessionsArgs
    DestArgs <- MC_DestArgs
    TimeoutItems <- MC_TimeoutItems
    TimeoutArgs <- MC_TimeoutArgs
    MaxCmds = 4
SPECIFICATION Spec
INVARIANT
    ConfigApplied
