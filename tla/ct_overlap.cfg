SPECIFICATION FairSpec
CONSTANTS
    Runs = {r1, r2}
    Monitors = {m1, m2}
    Seed = seed
    NoMetrics = NoMetrics
    MinValAccuracy = 70
    MaxOverfitGap = 15
    ChampionMargin = 0
    PromoteRetries = 2
    Overlap = TRUE
    MaxFaults = 2
    MaxRollbacks = 3
    Accuracies <- MCAccuracies
    Gaps <- MCGaps
    FaultyCalls <- AllCalls
INVARIANTS
    TypeOK
    RegisteredIsMeasured
PROPERTIES
    PromotionsMeetFloor
    RollbackNeverAdvances
    EveryRunEnds
CHECK_DEADLOCK FALSE
