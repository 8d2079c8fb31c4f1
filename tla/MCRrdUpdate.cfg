\* The probe's clock is off, near or far, and set both ways.
SPECIFICATION FairSpec
CONSTANTS
    Future = 2
    WeirdLimit = 2
    MaxOff = 4
    MaxDelay = 2
    MaxQueue = 2
    Jumps <- MCJumps
    MaxUpsets = 2
    Offsets <- MCOffsets
    Archives <- MCAnyArchive
    disk = disk  mem = mem  db = db  slave = slave  cache = cache  volume = volume
    Lmps <- MCLmps
    Sources <- MCSources
INVARIANTS
    TypeOK
    NeverLockedLong
    NeverBackwards
    ReportsNbpoints
PROPERTIES
    InItsColumn
    RecordsAgain
