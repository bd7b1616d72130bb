SPECIFICATION Spec
CONSTANTS
    Predictions <- MCPredictions
    Confidence <- MCConfidence
    Uncertainty <- MCUncertainty
    AutoThreshold = 95
    ReviewThreshold = 50
    MaxSamples = 2
    DiversityWeight = 3
    ALRuns = {al1, al2}
    Events = {e1, e2, e3}
    Workers = {w1, w2}
    MinAnnotations = 2
    FaultyCalls <- AllCalls
    MaxFaults = 1
    Flows = {"f1"}
    Columns = {"predicted_class", "confidence"}
    GateThreshold = 30
    DriftShare = 50
    LowThreshold = 30
    HighThreshold = 60
    FailOnDrift = FALSE
    TriggerRetraining = TRUE
SYMMETRY LoopSymmetry
INVARIANTS
    TypeOK
    TasksAreAccountedFor
    ThresholdIsNeverMissed
    FailedGateIsAnswered
CHECK_DEADLOCK FALSE
