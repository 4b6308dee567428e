SPECIFICATION Spec
CONSTANTS
    Master = master
    k1 = k1
    k2 = k2
    g1 = g1
    g2 = g2
    a1 = a1
    Keys = {k1, k2}
    Groups = {g1, g2}
    Readers <- MCReaders
    Hooks = {h1, h2}
    Aims = {a1, a2}
    Modes = {"canonical", "key", "none"}
    ApiKeys = {c1}
    Payloads <- MCPayloads
    Existing <- MCExisting
    Coined = 1
    Tasks = {t1, t2}
    MaxRequests = 2
SYMMETRY MCSymmetry
INVARIANTS TypeOK SigningHasSecret SecretsApart CredentialsStayPut ReachWasGranted
CHECK_DEADLOCK FALSE
