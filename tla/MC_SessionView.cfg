CONSTANTS
    c1 = c1
    c2 = c2
    r1 = r1
    r2 = r2
    Cores <- MC_Cores
    Records <- MC_Records
    Protos <- MC_UdpProtos
    GenSyncIn <- MC_GenSyncIn
    TcpSyncIn <- MC_TcpSyncIn
    GenPackIn <- MC_GenPackIn
    TcpPackIn <- MC_TcpPackIn
    TcpValidatorOut <- MC_TcpValidatorOut
    MaxReports = 0
    MaxSessions = 2
SPECIFICATION EngineSpec
INVARIANT
    SessionViewConverges
CONSTRAINT StatsBounded
