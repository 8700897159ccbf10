SPECIFICATION Spec
CONSTANTS
    s1 = s1
    s2 = s2
    Servers <- TwoServers
    MaxStarts = 4
SYMMETRY Symmetry
CHECK_DEADLOCK FALSE
INVARIANTS TypeOK AcceptedFitTogether
PROPERTIES CertificatesStay
