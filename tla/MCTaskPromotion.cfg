SPECIFICATION PromotionSpec
CONSTANTS
    Replicas = {p1}
    Runs = {a, b}
    ChatMessages = {m1}
    ApiMessages = {n1}
    NoMessage = NoMessage
    NoReplica = NoReplica
    MaxVersion = 3
    MaxCrashes = 1
    MaxStalls = 1
    MaxFailures = 1
SYMMETRY Symmetry
INVARIANTS OneCurrentHead MutationAppliedOnce
PROPERTIES HeadAdvances OnlyActiveVersionPromoted
CHECK_DEADLOCK FALSE
