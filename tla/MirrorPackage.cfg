\* One project, three runs one after the other.
SPECIFICATION Spec
CONSTANTS
    Manual = Manual
    Projects = {p1}
    Resources = {r1}
    Workers = {w1}
    Deployments = {d1}
    MaxSyncs = 3
    MaxRunning = 1
SYMMETRY Symmetry
CHECK_DEADLOCK FALSE
INVARIANTS
    CompletedSyncLeavesPackage
