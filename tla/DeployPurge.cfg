\* Is AWS empty when a destroy callback removes the records?
SPECIFICATION Spec
CONSTANTS
    Requests = {r1, r2, r3}
    MaxDeployments = 2
    MaxActive = 1
    NoRequest = NoRequest
SYMMETRY Symmetry
INVARIANTS
    RecordsOutliveResources
CHECK_DEADLOCK FALSE
