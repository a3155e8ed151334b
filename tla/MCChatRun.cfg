SPECIFICATION FairSpec
CONSTANTS
    Requests = {r1, r2}
    Threads = {t1}
    Thread = t1
    Nobody = Nobody
    MaxFence = 4
    MaxFailures = 1
    MaxStalls = 1
    MaxInterrupts = 1
    MaxPosts = 1
INVARIANTS OneGraphDriver
PROPERTIES NoTurnOverwritten EveryRequestAnswered OnlyNewestIsAllowed ResponseIsFinal
CHECK_DEADLOCK FALSE
