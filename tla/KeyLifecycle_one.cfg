CONSTANTS
    Master = m
    Keys = {k1, k2, k3}
    Groups = {g1}
    Hooks = {h1}
    Scopes = {"can_manage_keys", "can_create_groups"}
    Tasks = {t1}
    MaxRequests = 6
SYMMETRY IdSymmetry
SPECIFICATION Spec
INVARIANTS TypeOK OwnersExist DaughtersHaveParents
PROPERTIES OnlyMasterElevates LifecycleByOwner OnlyAncestorsDelete
CHECK_DEADLOCK FALSE
