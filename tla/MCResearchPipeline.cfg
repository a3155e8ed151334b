SPECIFICATION FairSpec
CONSTANTS
    Queries <- QueryOrder
    Row <- Rows
    Keys <- RowKeys
    NoKey = NoKey
    Score <- RowScore
    Answers <- RowAnswers
    TargetCount = 1
    CandidateTarget = 2
    MaxCandidates = 3
    BatchSize = 1
    MaxExpansions = 1
    MaxVersion = 2
    MaxFaults = 1
INVARIANTS DuplicatesMerged PartialFailureKeepsResults
PROPERTIES ExpansionKeepsCandidates ResearchEnds
CHECK_DEADLOCK FALSE
