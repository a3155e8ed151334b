SPECIFICATION Spec
CONSTANTS
    c1 = c1
    c2 = c2
    Callers = {c1, c2}
    FailOpen = FALSE
    Capacity = 1
    Token = 2
    MaxTime = 8
INVARIANTS
    GrantedIsRefilled
    RetryAfterSuffices
SYMMETRY Symmetry
CHECK_DEADLOCK FALSE
