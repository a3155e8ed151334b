SPECIFICATION FairSpec
CONSTANTS
    None = None
    Businesses = {"vnet", "line", "cloud"}
    Catalog = {"vnet", "line"}
    Malformed <- McMalformed
    Candidates = {1, 2, 3}
    Data <- McData
    Official <- McOfficial
    Marketing <- McMarketing
    Pushable = {"kind"}
    CandidateFields = {"kind", "members"}
    VerifiedFields = {"kind"}
    Discoveries <- McDiscoveries
    Changes <- McChanges
    Reads <- McReads
    Answers <- McAnswers
    Patches <- McPatches
    MaxTasks = 2
    MaxMessages = 3
    MaxAnswers = 2
    MaxRequests = 1
    MaxCrashes = 1
PROPERTIES CriteriaAskWhatTaskAsks PartialKeepsUniverse LineageKept AnswersOwnVersion TurnEnds
CHECK_DEADLOCK FALSE
