\* One collector, any delays, two faults, a command of a lost connection read late.
SPECIFICATION SystemSpec
CONSTANTS
    k1 = k1  s1 = s1  s2 = s2
    NoSet = NoSet
    Collectors <- MCOneCollector
    Sets <- MCSets
    Mpcs <- MCAllMine
    Rank <- MCRank
    SilenceLimit = 0
    WakeLimit = 1
    CC__MAXRETRY = 7
    MaxTx = 2
    Refused <- MCNone
    QuietLoss <- MCWatched
    MaxStale = 1
    MaxFaults = 2
    MaxRx = 1
    Synchronous = FALSE
INVARIANTS
    SystemTypeOK
    EndsAgree
    OneRetryEnough
