SPECIFICATION Spec
CONSTANTS
    MaxEvents = 2
    h1 = h1
    h2 = h2
    Hooks = {h1, h2}
    Subscribed <- MCSubscribed
    Workers = {w1, w2}
    Sweepers = {s1}
    Capacity = 1
    MaxInflight = 1
    MaxRetries = 1
INVARIANTS TypeOK InflightBounded NothingLeftBehind
PROPERTIES ShutdownEnds KeepsItsPromise
CHECK_DEADLOCK FALSE
