\* Two clients, two record sets: the bookkeeping.
SPECIFICATION Spec
CONSTANTS
    a = a  b = b  c1 = c1  c2 = c2  p1 = p1  p2 = p2
    NoName = NoName  NoPtr = NoPtr
    Names <- MCNames
    Conns <- MCConns
    Ptr <- MCPtr
    Intervals <- MCOneInterval
    Jumps <- MCNoJumps
    MaxLate = 1
    MaxAhead = 1
    MaxEntries = 2
    MaxJumps = 0
SYMMETRY MCSymmetry
INVARIANTS
    TypeOK
    SubscriptionsAgree
    RegistryOwnsHeap
    ScheduleLive
PROPERTIES
    ImplementsService
