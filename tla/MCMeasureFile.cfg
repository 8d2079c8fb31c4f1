\* Both classes, three files, four lines, two rotations.
SPECIFICATION FairSpec
CONSTANTS
    i1 = i1  i2 = i2  i3 = i3
    NoFile = NoFile
    Inodes <- MCInodes
    ZlTimeout = 1
    MaxLines = 4
    MaxRotations = 2
CHECK_DEADLOCK FALSE
INVARIANTS
    TypeOK
    Accounted
    NothingUnnoticed
PROPERTY
    FollowsNewest
