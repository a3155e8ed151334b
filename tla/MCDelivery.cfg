SPECIFICATION Spec
CONSTANTS
    lead1 = lead1
    lead2 = lead2
    page = page
    turn = turn
    None = None
    Leads = {lead1, lead2}
    Scorings <- MCScorings
    Incomplete = {lead1, lead2}
    Views <- MCViews
    Exports <- MCExports
    Handlers = {page}
    Turns = {turn}
    MaxScorings = 1
    MaxRequests = 2
    MaxFaults = 2
    MaxRestarts = 1
    MaxDays = 1
SYMMETRY Symmetry
INVARIANTS
    FiguresAgree
    ArtifactKept
    OneFilePerRequest
CHECK_DEADLOCK FALSE
