\* Two projects, two runs at once.
SPECIFICATION Spec
CONSTANTS
    Manual = Manual
    Projects = {p1, p2}
    Resources = {r1}
    Workers = {w1}
    Deployments = {d1}
    MaxSyncs = 2
    MaxRunning = 2
SYMMETRY Symmetry
CHECK_DEADLOCK FALSE
INVARIANTS
    TypeOK
    OnlyLossLeavesRunning
    DeletedMeansSynced
    LatestPackageOwnsMainTf
    RowsAreOfLastRun
PROPERTIES
    ImplementsMirrorRecord
