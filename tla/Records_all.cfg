SPECIFICATION Spec
CONSTANTS
    Master = master
    writer = writer
    deleter = deleter
    g1 = g1
    g2 = g2
    Keys = {writer, deleter}
    Creators = {writer}
    Addresses = {a1}
    Groups = {g1, g2}
    Given = {g1}
    GivenRights <- MCRights
    Watched = g1
    Tasks = {t1, t2}
    ClientTimes = {0}
    Retention = 1
    MaxClock = 2
    MaxRequests = 2
SYMMETRY MCSymmetry
INVARIANTS TypeOK PollMissesNothing EventsTellTheTruth TrashedByEntitled
PROPERTY LockHolds
CHECK_DEADLOCK FALSE
