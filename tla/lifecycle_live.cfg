SPECIFICATION FairSpec
CONSTANTS
    Instances = {i1}
    Nodes = {n1, n2}
    None = None
    Scenarios <- WaitsAndDuplicates
PROPERTY ClaimsProgress
CHECK_DEADLOCK FALSE
