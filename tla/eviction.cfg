SPECIFICATION FairSpec
CONSTANTS
    a = a
    b = b
    Names <- Pair
    Tier <- PairTier
    Grace <- PairGrace
    MaxTime = 3
    MaxUid = 2
    Scenarios <- ReplacedAndTightened
CHECK_DEADLOCK FALSE
PROPERTY DrainCompletes
PROPERTY EvictedInTurn
