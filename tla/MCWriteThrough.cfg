SPECIFICATION StoreSpec
CONSTANTS
    s1 = s1
    s2 = s2
    Subjects <- MCSubjects
    Versions = {1, 2}
    Values <- MCValues
    Columns = {1, 2}
    MaxSaves = 3
    MaxFaults = 1
    MaxRestarts = 1
INVARIANTS
    
    RestartKeepsLatest
CHECK_DEADLOCK FALSE
