SPECIFICATION Spec
CONSTANTS
    k1 = k1
    k2 = k2
    k3 = k3
    Ids <- ThreeIds
    MaxDraws = 4
    MaxUses = 1
SYMMETRY Symmetry
CHECK_DEADLOCK FALSE
INVARIANTS TypeOK ReplacementIsNewer RotationsRecorded
PROPERTIES RevokedNotHandedOut OnlyRotationReplaces
