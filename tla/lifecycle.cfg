SPECIFICATION Spec
CONSTANTS
    Instances = {i1, i2}
    Nodes = {n1}
    None = None
    Scenarios <- LaunchesAndDeletions
SYMMETRY Symmetry
PROPERTY DrainedBeforeTermination
CHECK_DEADLOCK FALSE
INVARIANT InstancesKept
