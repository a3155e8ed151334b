SPECIFICATION FairSpec
CONSTANTS
    search = search
    Calls = {c1, c2, c3}
    Runs = {r1}
    Ops = {search}
    Requests = {q1}
    OpOf <- OneOp
    NoRun = NoRun
    NoRequest = NoRequest
    ToolCalls = ToolCalls
    MaxToolCalls = 3
    OpLimit <- ThreeEach
    Slots <- TwoEach
    MaxRetries = 1
    Threshold = 1
    ProbeCount = 1
    MaxRestarts = 1
INVARIANTS CallsWithinBudget HalfOpenAdmitsFew
PROPERTIES EveryCallEnds
CHECK_DEADLOCK FALSE
