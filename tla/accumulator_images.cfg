SPECIFICATION FairAccumulatorSpec
CONSTANTS
    Threads = {t1, t2}
    Samples = {s1, s2, s3}
    Threshold = 2
    MaxFaults = 3
    MaxProcesses = 3
    FaultyCalls <- AllCalls
INVARIANTS
    AccumulatorTypeOK
    ReferencesResolve
    ImagesBelongToRecords
    FullBufferIsFlushed
    DuplicatesNeedLostAnswers
PROPERTIES
    BatchesAreReleased
    ImplementsDelivery
CHECK_DEADLOCK FALSE
