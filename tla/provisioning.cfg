SPECIFICATION Spec
CONSTANTS
    p1 = p1
    p2 = p2
    p3 = p3
    Pods = {p1, p2, p3}
    MaxClaims = 3
    Scenarios <- DrainsAndCrashes
SYMMETRY PodSymmetry
INVARIANT NoOverProvisioning
INVARIANT LimitKept
CHECK_DEADLOCK FALSE
