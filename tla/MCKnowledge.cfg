SPECIFICATION Spec
CONSTANTS
    text = text
    twice = twice
    scan = scan
    everyone = everyone
    workspace = workspace
    h1 = h1
    h2 = h2
    Files = {text, twice, scan}
    Scanned = {scan}
    Repeating = {twice}
    Shelves = {everyone, workspace}
    Handlers = {h1, h2}
    Readers = {r1}
    MaxDocuments = 2
    MaxProfile = 2
    MaxRequests = 3
    MaxFaults = 2
    MaxRestarts = 2
INVARIANTS
    ReadyIsKept
    
SYMMETRY Symmetry
CHECK_DEADLOCK FALSE
