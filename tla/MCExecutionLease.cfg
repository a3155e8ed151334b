SPECIFICATION Spec
CONSTANTS
    Requests = {r1, r2, r3}
    Threads = {t1, t2}
    NoThread = NoThread
    LeaseTime = 2
    Skews <- MCSkews
    MaxTime = 4
    MaxFence = 4
SYMMETRY Symmetry
INVARIANTS SingleActiveRun PromoterIsNewest UnansweredIsReclaimable
PROPERTIES AnswerIsFinal LeaseOutlastsSkew ImplementsThreadLease
CHECK_DEADLOCK FALSE
