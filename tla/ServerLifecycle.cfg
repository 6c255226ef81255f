SPECIFICATION FairSpec
CONSTANTS
    k1 = k1  k2 = k2
    c1 = c1  c2 = c2  c3 = c3
    Client = {k1, k2}
    Call = {c1, c2, c3}
    ClientOf <- MCClientOf
    Scenarios <- MCScenarios
    IntWidth = 4
    DefaultMaxConns = 2
INVARIANTS TypeOK HandlersHavePool PoolWithinLimit RightMethod
PROPERTIES ImplementsGracefulService ShutdownEnds CallsEnd
CHECK_DEADLOCK FALSE
