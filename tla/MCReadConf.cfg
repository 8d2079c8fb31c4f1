\* Two sets of two frequencies, names that join to the same key.
SPECIFICATION Spec
CONSTANTS
    h = h  c = c  s = s  f1 = f1  f2 = f2  Default = Default  Other = Other
    Nothing = Nothing
    Serverkeys <- MCServerkeys
    Hosts <- MCHosts
    Names <- MCNames
    Fqdns <- MCFqdns
    Ports <- MCPorts
    Intervals = {2, 3, 4}
    Durations = {8}
    MaxSets = 2
    MaxFreqs = 2
    MaxTags = 1
CHECK_DEADLOCK FALSE
INVARIANTS
    TypeOK
    NoSetLost
    ArchiveHolds
    BoundToItsHost
