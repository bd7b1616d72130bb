SPECIFICATION Spec
CONSTANTS
    Records <- MCRecords
    Early <- MCEarly
    Classes = {"cat", "dog"}
    ClassOf <- MCClassOf
    Accumulations = {"a1"}
    MinSamples = 2
    MaxClassPercent = 80
    MaxPseudoPercent = 30
    ExistingDataCount = 7
    FaultyCalls <- AllCalls
    MaxFaults = 1
    Runs = {r1, r2}
    r1 = r1
    r2 = r2
    Labels <- MCLabels
    Unhealthy = {"s1"}
    Unusable = {"s3"}
    TrainPercent = 80
    Overlap = TRUE
    NoCause = NoCause
    Mixed = Mixed
SYMMETRY RunSymmetry
INVARIANTS
    TypeOK
    OnlyAcceptedIsDeleted
    RoundsAreDistinct
    TrainsOnOwnMerge
    NothingAvailableIsMissed
    UnhealthyNeedsStaleVerdict
    SplitCoversClasses
CHECK_DEADLOCK FALSE
