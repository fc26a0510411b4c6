\* One request at a time, two status answers, two mappings.
SPECIFICATION FairSpec
CONSTANTS
    Rows = {r1, r2}
    Reviewed = {r1, r2}
    Calls = {c1}
    MaxPolls = 2
    None = None
INVARIANTS
    TypeOK
    EditsStayHome
PROPERTIES
    StatusCatchesUp
CHECK_DEADLOCK FALSE
