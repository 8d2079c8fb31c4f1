\* One client, two record sets of different intervals, late polls, clock jumps.
SPECIFICATION FairSpec
CONSTANTS
    a = a  b = b  c1 = c1  c2 = c2  p1 = p1  p2 = p2
    NoName = NoName  NoPtr = NoPtr
    Names <- MCNames
    Conns <- MCOneConn
    Ptr <- MCPtr
    Intervals <- MCIntervals
    Jumps <- MCJumps
    MaxLate = 2
    MaxAhead = 2
    MaxEntries = 1
    MaxJumps = 1
PROPERTIES
    PollRearmsOnce
    MeasuredForever
