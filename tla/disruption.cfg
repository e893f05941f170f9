SPECIFICATION Spec
CONSTANTS
    n1 = n1
    n2 = n2
    n3 = n3
    p = p
    Pools = {p}
    Nodes <- Three
    Pool <- ThreePool
    Lag <- ClaimLag
    MinRetry = 0
    MaxRetry = 0
    RetryScale = 1
    MaxCmds = 2
    MaxRepl = 1
    MaxAge = 1
    Scenarios <- QueueAndBudget
SYMMETRY Symmetric
INVARIANT NoDoubleLaunch
PROPERTY ReplacementsFirst
PROPERTY BudgetKept
INVARIANT CandidatesHeld
