CONSTANTS
    Requests = {r1, r2}
    Digests = {d1}
    Timestamps <- OldAndNewTimestamps
    Window = 3
    PruneInterval = 2
    CapacityBackoff = 1
    MaxTracked = 1
    WallOffsets <- SteppedWallClock
    MaxHold = 1
    MaxStall = 1
    MaxClock = 8
SYMMETRY TaskSymmetry
SPECIFICATION Spec
INVARIANTS TypeOK ExpiredAreReleased
PROPERTIES AcceptedOncePerWindow ReplayVerdictJustified AgedSignatureIsSpent
