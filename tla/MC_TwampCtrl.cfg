CONSTANTS
    v1 = v1
    v2 = v2
    AFs <- MC_AFs
    Ports <- MC_Ports
    Vrfs <- MC_Vrfs
    Modes <- MC_Modes
    MaxCreates = 3
SPECIFICATION Spec
INVARIANTS
    TypeOK
    PortsMatchSessions
PROPERTY
    PortsRegistered
\* twamp_shutdown is the last step of the component: after it no handler
\* runs, so the state it leaves has no successor.
CHECK_DEADLOCK FALSE
