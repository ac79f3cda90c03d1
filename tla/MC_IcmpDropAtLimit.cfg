CONSTANTS
    c1 = c1
    c2 = c2
    Cores <- MC_Cores
    Named <- MC_Named
    Triggers <- MC_Triggers
    Rates = {1, 2}
    ICMP_RATELIMIT_STATS_INTERVAL = 2
    NUM_DROP_INTERVALS = 2
    MaxErrors = 4
    MaxCmds = 2
INIT Init
NEXT Next
INVARIANT
    DropOnlyWhenExhausted
