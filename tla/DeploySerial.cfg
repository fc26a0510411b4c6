\* Three requests on one deployment, served one at a time, under fairness.
SPECIFICATION FairSpec
CONSTANTS
    Requests = {r1, r2, r3}
    MaxDeployments = 1
    MaxActive = 1
    NoRequest = NoRequest
INVARIANTS
    OneTaskPerRow
    RunningRowsSaySo
PROPERTIES
    InFlightEnds
CHECK_DEADLOCK FALSE
