CONSTANTS
    Master = m
    Keys = {k1, k2}
    Groups = {g1}
    Names = {n1}
    Verbs = {"manage"}
    Tasks = {t1, t2}
    MaxRequests = 3
SYMMETRY IdSymmetry
SPECIFICATION Spec
PROPERTIES ReductionsNeverWiden
CHECK_DEADLOCK FALSE
