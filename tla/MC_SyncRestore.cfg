CONSTANTS
    r1 = r1
    r2 = r2
    Records <- MC_Records
    ProtoOf <- MC_ProtoOf
    WinVals = {0, 1, 2}
    SkewMark = 2
    TcpPacketOut = {1, 4}
    GenPacketOut = {2}
    PeerMsgs <- MC_PeerMsgs
    MaxPacks = 2
    MaxSessions = 3
INIT Init
NEXT Next
INVARIANT
    StateConsistent
