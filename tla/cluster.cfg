SPECIFICATION Spec
CONSTANTS
    NodePools = {np}
    Pool = np
    NoPool = NoPool
    None = None
    Empty = Empty
    ClaimCap = 2
    NodeCap = 1
    NodeClaims = {c1}
    Nodes = {n1, n2}
    Pods = {a}
    PIDs = {p1}
    Scenarios <- NodesAndPods
SYMMETRY Symmetry
 
INVARIANT ResourcesExact
INVARIANT Converged
CHECK_DEADLOCK FALSE
