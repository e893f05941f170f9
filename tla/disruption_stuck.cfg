SPECIFICATION FairSpec
CONSTANTS
    n1 = n1
    n2 = n2
    n3 = n3
    p = p
    Pools = {p}
    Nodes <- Two
    Pool <- TwoPool
    Lag <- ClaimLag
    MinRetry = 0
    MaxRetry = 0
    RetryScale = 1
    MaxCmds = 1
    MaxRepl = 1
    MaxAge = 1
    Scenarios <- KeyDisappears
PROPERTY EveryCommandEnds
