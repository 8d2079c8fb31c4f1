\* Durations that are no multiple of their interval.  (expected violation)
SPECIFICATION Spec
CONSTANTS
    h = h  c = c  s = s  f1 = f1  f2 = f2  Default = Default  Other = Other
    Nothing = Nothing
    Serverkeys <- MCServerkeys
    Hosts <- MCHosts
    Names <- MCNames
    Fqdns <- MCFqdns
    Ports <- MCPorts
    Intervals = {2, 3, 4}
    Durations = {7}
    MaxSets = 1
    MaxFreqs = 2
    MaxTags = 1
CHECK_DEADLOCK FALSE
INVARIANT
    RoundedUp
