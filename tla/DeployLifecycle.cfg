\* Three concurrent requests, two deployments.
SPECIFICATION Spec
CONSTANTS
    Requests = {r1, r2, r3}
    MaxDeployments = 2
    MaxActive = 3
    NoRequest = NoRequest
SYMMETRY Symmetry
INVARIANTS
    TypeOK
    DeletedProjectHasNoRows
    ApplyFindsItsHcl
    CompletionIsReal
    OnlyFaultsStrand
PROPERTY ImplementsRecord
CHECK_DEADLOCK FALSE
