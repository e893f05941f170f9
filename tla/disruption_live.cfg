SPECIFICATION FairSpec
CONSTANTS
    n1 = n1
    n2 = n2
    n3 = n3
    p = p
    Pools = {p}
    Nodes <- Two
    Pool <- TwoPool
    Lag <- NodeLag
    MinRetry = 0
    MaxRetry = 1
    RetryScale = 1
    MaxCmds = 1
    MaxRepl = 1
    MaxAge = 2
    Scenarios <- Endings
PROPERTY CommandsLetGo
