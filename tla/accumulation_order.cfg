SPECIFICATION Spec
CONSTANTS
    r1 = r1
    r2 = r2
    Records <- MCRecords
    Early <- MCEarly
    Classes = {"cat", "dog"}
    ClassOf <- MCClassOf
    Accumulations = {"a1"}
    MinSamples = 2
    MaxClassPercent = 80
    MaxPseudoPercent = 30
    ExistingDataCount = 7
    FaultyCalls = {}
    MaxFaults = 0
    Runs = {r1, r2}
    Labels <- MCLabels
    Unhealthy = {"s1"}
    Unusable = {}
    TrainPercent = 80
    Overlap = FALSE
    NoCause = NoCause
    Mixed = Mixed
INVARIANTS
    TriggeredRunMergesAccepted
CHECK_DEADLOCK FALSE
