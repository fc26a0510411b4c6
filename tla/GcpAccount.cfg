\* Two requests at a time, two accounts, three secrets in all.
SPECIFICATION Spec
CONSTANTS
    a = a
    b = b
    q1 = q1
    q2 = q2
    Accounts <- MCAccounts
    Requests <- MCRequests
    MaxArns = 3
    None = None
SYMMETRY Symmetry
INVARIANTS
    KeyOfTheAccount
CHECK_DEADLOCK FALSE
