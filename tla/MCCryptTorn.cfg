\* A connection is lost inside a base64 group.  (expected violation)
SPECIFICATION FairSpec
CONSTANTS
    ka = ka  kb = kb  kc = kc  kd = kd
    NoKey = NoKey
    Keys <- MCKeys
    Ring <- MCRing
    Usable <- MCUsable
    MyKeys <- MCRight
    Pieces <- MCOdd
    Large <- MCNone
    MaxLines = 2
    MaxLosses = 1
    MaxSplits = 0
CHECK_DEADLOCK FALSE
PROPERTY
    AcceptedAgain
