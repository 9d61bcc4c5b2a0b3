SPECIFICATION FairSpec
CONSTANTS
    w1 = w1  w2 = w2  r1 = r1
    Workers = {w1, w2}
    Readers = {r1}
    Main = Main  None = None
    PoolMax = 1
    MaxCalls = 3
CHECK_DEADLOCK FALSE
INVARIANTS
    ConfiguredModelLoadedOnce
    DatabaseReachedWhileServing
    TurnsKept
    PoolsClosedAtExit
PROPERTIES
    CallsFinish
    ServerStops
