CONSTANTS
    Master = m
    Keys = {k1, k2}
    Groups = {g1}
    Hooks = {h1}
    Scopes = {"can_create_groups", "can_manage_webhooks"}
    Tasks = {t1}
    MaxRequests = 5
SYMMETRY IdSymmetry
SPECIFICATION Spec
INVARIANT RescuedSurvive
CHECK_DEADLOCK FALSE
