SPECIFICATION Spec
CONSTANTS
    s1 = s1
    s2 = s2
    Servers <- TwoServers
    MaxStarts = 2
SYMMETRY Symmetry
CHECK_DEADLOCK FALSE
INVARIANTS WholeFilesFit
