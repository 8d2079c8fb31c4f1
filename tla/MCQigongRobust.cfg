\* Does the daemon survive its commands?  (expected violation)
SPECIFICATION Spec
CONSTANTS
    a = a  b = b  c1 = c1  c2 = c2  p1 = p1  p2 = p2
    NoName = NoName  NoPtr = NoPtr
    Names <- MCOneName
    Conns <- MCConns
    Ptr <- MCOnePtr
    Intervals <- MCOneInterval
    Jumps <- MCNoJumps
    MaxLate = 1
    MaxAhead = 1
    MaxEntries = 1
    MaxJumps = 0
INVARIANT
    StaysUp
