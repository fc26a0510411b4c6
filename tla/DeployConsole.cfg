\* One deployment, two requests of the tab under way at a time.
SPECIFICATION FairSpec
CONSTANTS
    Deployments = {1}
    Calls = {c1, c2}
    MaxWire = 1
    None = None
INVARIANTS
    TypeOK
    ShownOutcomeIsReal
    OutcomeIsNotSkipped
PROPERTIES
    OutcomeReachesPage
CHECK_DEADLOCK FALSE
