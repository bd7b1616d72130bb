SPECIFICATION Spec
CONSTANTS
    Runs = {r1, r2, r3}
    Monitors = {m1}
    Seed = seed
    NoMetrics = NoMetrics
    MinValAccuracy = 70
    MaxOverfitGap = 15
    ChampionMargin = 5
    PromoteRetries = 2
    Overlap = FALSE
    MaxFaults = 3
    MaxRollbacks = 0
    Accuracies <- MCAccuracies
    Gaps <- MCGaps
    FaultyCalls <- RetriesAndCrashes
INVARIANT ChampionMeetsFloor
PROPERTY ChampionImproves
PROPERTY ImplementsGatedPromotion
CHECK_DEADLOCK FALSE
