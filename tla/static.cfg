SPECIFICATION Spec
CONSTANTS
    NodeClaims = {c1,c2,c3}
    NodePools = {np}
    Pool = np
    NoPool = NoPool
    None = None
    Replicas = {1,2}
    NodeLimit = 2
    Budget = 1
    TerminateFirst = TRUE
    Scenarios <- ScaleAndDrift
SYMMETRY Symmetry
INVARIANT CountedOnceSynced
INVARIANT NoReservationLeak
INVARIANT FiledOnce
CHECK_DEADLOCK FALSE
