\* One collector, two faults, quiet ones included: lines and closes take less than a tick.
SPECIFICATION SystemFairSpec
CONSTANTS
    k1 = k1  s1 = s1  s2 = s2
    NoSet = NoSet
    Collectors <- MCOneCollector
    Sets <- MCSets
    Mpcs <- MCAllMine
    Rank <- MCRank
    SilenceLimit = 1
    WakeLimit = 1
    CC__MAXRETRY = 7
    MaxTx = 3
    Refused <- MCNone
    QuietLoss <- MCWatched
    MaxStale = 0
    MaxFaults = 2
    MaxRx = 3
    Synchronous = TRUE
PROPERTIES
    CollectsAgain
    ImplementsBooks
