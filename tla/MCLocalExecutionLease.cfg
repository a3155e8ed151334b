SPECIFICATION Spec
CONSTANTS
    Requests = {r1, r2, r3}
    Threads = {t1, t2}
    NoThread = NoThread
    NoRequest = NoRequest
    LeaseTime = 2
    MaxTime = 4
    MaxFence = 3
SYMMETRY Symmetry
INVARIANTS PromoterIsNewest

CHECK_DEADLOCK FALSE
