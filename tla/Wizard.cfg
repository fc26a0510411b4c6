\* One tab and one handler thread; three steps, the last two with a field.
SPECIFICATION WizardSpec
CONSTANTS
    Threads = {t1}
    Configs = {a, b}
    Default = a
    Blank = b
    Bad = Bad
    NumSteps = 3
    InputSteps = {2, 3}
    CidrStep = 2
    MaxDeployments = 1
    MaxValidations = 2
    Unset = Unset
    NoHcl = NoHcl
INVARIANTS
    WizardTypeOK
    SummaryShowsSaved
CHECK_DEADLOCK FALSE
