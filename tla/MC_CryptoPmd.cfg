CONSTANTS
    MAX_CRYPTO_PMD = 2
    CRYPTO_MAX_KEY_LENGTH = 32
    DevIds <- MC_DevIds
    SAs <- MC_SAs
    MaxOps = 6
INIT Init
NEXT Next
INVARIANTS
    
    SelectableWhenAccepted
    PoolWhileDevices
    DevicesAccounted
