\* One connection, two collection sets, a peer that says anything.
SPECIFICATION FairSpec
CONSTANTS
    k1 = k1  k2 = k2  s1 = s1  s2 = s2
    NoSet = NoSet
    Collectors <- MCOneCollector
    Sets <- MCSets
    Mpcs <- MCAllMine
    Rank <- MCRank
    SilenceLimit = 2
    WakeLimit = 4
    CC__MAXRETRY = 7
    MaxTx = 3
INVARIANTS
    TypeOK
    WatchedWhileWorking
    AwaitsItsAnswer
    NoForgottenSet
PROPERTIES
    ImplementsCycle
    NeverStuckInSilence
