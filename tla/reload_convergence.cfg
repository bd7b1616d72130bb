SPECIFICATION FairSpec
CONSTANTS
    Workers <- MCWorkers
    Home <- MCHome
    Id <- MCId
    Configured <- MCConfigured
    Addresses <- MCAddresses
    NoAddress = ""
    Moving <- MCMoving
    Versions <- MCVersions
    FaultyCalls <- AllCalls
    MaxReloads = 2
    MaxMoves = 1
    MaxFaults = 1
INVARIANTS
    TypeOK
    ReloadsConverge
PROPERTIES
    ReloadsSettle
CHECK_DEADLOCK FALSE
