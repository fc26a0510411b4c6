\* Two threads on one draft of two steps with two values each: one request's
\* saves, edits, validations and deploys against another's.
SPECIFICATION Spec
CONSTANTS
    Threads = {t1, t2}
    Configs = {a, b}
    NumSteps = 2
    MaxDeployments = 1
    MaxValidations = 3
    Unset = Unset
    NoHcl = NoHcl
SYMMETRY Symmetry
INVARIANTS
    TypeOK
    StepsArePrefix
    IdNamesTheCode
    DeployedRowWasValidated
    DeployedHclIsComplete
PROPERTIES
    SavesAccumulate
CHECK_DEADLOCK FALSE
