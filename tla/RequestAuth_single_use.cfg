CONSTANTS
    Requests = {r1}
    Digests = {d1}
    Timestamps = {3}
    Window = 3
    PruneInterval = 2
    CapacityBackoff = 1
    MaxTracked = 1
    WallOffsets <- SteadyWallClock
    MaxHold = 0
    MaxStall = 0
    MaxClock = 9
SPECIFICATION Spec
INVARIANT SingleUse
