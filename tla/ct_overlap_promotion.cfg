SPECIFICATION Spec
CONSTANTS
    Runs = {r1, r2, r3}
    Monitors = {m1}
    Seed = seed
    NoMetrics = NoMetrics
    MinValAccuracy = 70
    MaxOverfitGap = 15
    ChampionMargin = 0
    PromoteRetries = 2
    Overlap = TRUE
    MaxFaults = 0
    MaxRollbacks = 0
    Accuracies <- MCAccuracies
    Gaps <- MCGaps
    FaultyCalls <- NoFaults
SYMMETRY RunSymmetry
INVARIANT ChampionMeetsFloor
CHECK_DEADLOCK FALSE
