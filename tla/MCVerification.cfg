SPECIFICATION FairSpec
CONSTANTS
    None = None
    Candidate = {"c1", "c2", "c3"}
    Attr <- CompanyAndBranch
    Answer = {"name1", "name2", "phone1", "phone2", "office1", "office2", "branch"}
    Says <- McSays
    Found <- McFound
    Extra <- McExtra
    Required <- McRequired
    HardRequired = {"legal_name"}
    MinSources <- McMinSources
    MinConfidence = 72
    Sets = {{"c1", "c2", "c3"}, {"c1", "c3"}}
    MaxRounds = 2
    MaxCalls = 3
    MaxCallsPerEntity = 2
    TopN = 2
    MaxTurns = 2
    MaxVersion = 2
    MaxFaults = 1
INVARIANTS VerifiedNeedsAgreement EvidenceReachesProfiles
PROPERTIES VerificationEnds
CHECK_DEADLOCK FALSE
