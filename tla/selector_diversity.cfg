SPECIFICATION Spec
CONSTANTS
    Predictions <- MCPool
    Confidence <- MCPoolConfidence
    Uncertainty <- MCPoolUncertainty
    AutoThreshold = 95
    ReviewThreshold = 50
    MaxSamples = 2
    DiversityWeight = 3
    ALRuns = {al1}
    Events = {}
    Workers = {w1}
    MinAnnotations = 2
    FaultyCalls = {}
    MaxFaults = 0
    Flows = {}
    Columns = {"predicted_class", "confidence"}
    GateThreshold = 30
    DriftShare = 50
    LowThreshold = 30
    HighThreshold = 60
    FailOnDrift = FALSE
    TriggerRetraining = TRUE
INVARIANTS
    SimilarAreNotClustered
CHECK_DEADLOCK FALSE
