CONSTANTS
    Master = m
    Keys = {k1, k2}
    Groups = {g1, g2}
    Names = {n1, n2}
    Verbs = {"read", "manage"}
    Tasks = {t1}
    MaxRequests = 3
SYMMETRY IdSymmetry
SPECIFICATION Spec
INVARIANTS TypeOK VerbsTraceToMaster
PROPERTIES GrantsWithinOwnRights RevokedByManagers RulesHoldThroughout
CHECK_DEADLOCK FALSE
