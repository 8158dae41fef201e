SPECIFICATION Spec
CONSTANTS
    t1 = t1
    t2 = t2
    t3 = t3
    remote = remote
    None = none
    Remote = remote
    NumGroups = 2
    TLGroup = 1
    Tasks <- ThreeTasks
    RemoteSpaces <- SharedSpaces
    Operations <- ThirdLevelLoop
    MaxCalls = 6
    MaxMigrations = 2
    Used <- AllSignals
    CallerWaits = FALSE
    MaxInFlight = 20
INVARIANTS
    CombinedComplete
    CollectivesMatch
    SizesMatch
    TasksInStep
    
PROPERTIES
    MethodReturns
CHECK_DEADLOCK FALSE
