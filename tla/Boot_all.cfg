SPECIFICATION Spec
CONSTANTS
    Instances = {i1, i2}
    Keys = {k1, k2, k3}
    Ciphers = {c1}
    MaxStarts = 4
SYMMETRY MCSymmetry
INVARIANTS TypeOK OneMasterPerLife PinnedIsTheMaster ServesWithTheKey
CHECK_DEADLOCK FALSE
