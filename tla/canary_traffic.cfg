SPECIFICATION FairSpec
CONSTANTS
    Deployments = {d1, d2}
    Monitors = {m1}
    NoMetrics = NoMetrics
    Checks = 2
    MaxErrorRate = 50
    MaxErrorPercent = 150
    MaxLatencyPercent = 130
    TemplatePresent = TRUE
    ServingVersion = "@champion"
    MaxFaults = 1
    MaxVersion = 3
    MaxEvents = 1
    EmptyBodyAnswers <- AnyAnswer
    ErrorRates <- MCErrorRates
    Latencies <- MCFewLatencies
    FaultyCalls <- AllCalls
INVARIANTS
    TypeOK
    SplitOnlyToRunningCanary
    PassedOverCeilingOnlyUnjudged
    
    ServesPromoted
PROPERTIES
    DecidedRestoresTraffic
    EveryDeploymentEnds
CHECK_DEADLOCK FALSE
