SPECIFICATION Spec
CONSTANTS
    hafsa = hafsa
    amna = amna
    Users <- TwoUsers
    MaxTime = 2
    MaxMade = 1
SYMMETRY Symmetry
INVARIANTS CreatedSessionsValid
