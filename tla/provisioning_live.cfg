SPECIFICATION FairSpec
CONSTANTS
    p1 = p1
    p2 = p2
    p3 = p3
    Pods = {p1}
    MaxClaims = 4
    Scenarios <- LostCapacity
PROPERTY PendingPodsRun
CHECK_DEADLOCK FALSE
