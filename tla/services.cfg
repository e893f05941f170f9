SPECIFICATION ServicesSpec
CONSTANTS
    w1 = w1
    w2 = w2
    c1 = c1
    c2 = c2
    BufferSize = 4
    Workers = {w1, w2}
    Kinds = {"ok", "fail"}
    MaxFailures = 2
    MaxEdits = 1
    MaxRestarts = 1
    MaxDisturbances = 3
    None = None
    MaxInt = 1000
    Values <- MCValues
    Atoi <- MCAtoi
    WellKnownLabels <- MCWellKnown
    Unallocated = Unallocated
    Deleted = Deleted
INVARIANT LaunchPossible
 
INVARIANT CheaperLaunch
INVARIANT PoolsTakeTurns
 
INVARIANT RepairDecided
INVARIANT CostExact
PROPERTY RecentResults
PROPERTY RoomKept
PROPERTY ConsolidatableIsIdle
PROPERTY HealthRecovers
PROPERTY EveryPodAnswered
PROPERTY ConsolidationSettles
PROPERTY CostSettles
 
PROPERTY AnnotationsSettle
PROPERTY ConditionsSettle
PROPERTY RepairsSettle
CHECK_DEADLOCK FALSE
