SPECIFICATION FairSpec
CONSTANTS
    Deployments = {d1}
    Monitors = {m1}
    NoMetrics = NoMetrics
    Checks = 2
    MaxErrorRate = 50
    MaxErrorPercent = 150
    MaxLatencyPercent = 130
    TemplatePresent = TRUE
    ServingVersion = "@champion"
    MaxFaults = 0
    MaxVersion = 3
    MaxEvents = 1
    EmptyBodyAnswers <- Refusal
    ErrorRates <- MCFewRates
    Latencies <- MCFewLatencies
    FaultyCalls <- NoFaults
PROPERTIES
    PassedIsRolledOut
CHECK_DEADLOCK FALSE
