\* Right, unknown, unusable or no key; connections lost between or inside packets, long lines.
SPECIFICATION FairSpec
CONSTANTS
    ka = ka  kb = kb  kc = kc  kd = kd
    NoKey = NoKey
    Keys <- MCKeys
    Ring <- MCRing
    Usable <- MCUsable
    MyKeys <- MCAnyKey
    Pieces <- MCPieces
    Large <- MCSecond
    MaxLines = 3
    MaxLosses = 3
    MaxSplits = 2
CHECK_DEADLOCK FALSE
INVARIANTS
    TypeOK
    MutualAcceptance
    MisledNeverAccepted
    LinesInOrder
PROPERTIES
    AcceptedWhileAlive
    ImplementsChannel
