SPECIFICATION Spec
CONSTANTS
    t1 = t1
    t2 = t2
    t3 = t3
    remote = remote
    None = none
    Remote = remote
    NumGroups = 2
    TLGroup = 1
    Tasks <- TwoTasks
    RemoteSpaces <- SharedSpaces
    Operations <- LocalAndEarly
    MaxCalls = 5
    MaxMigrations = 2
    Used <- AllSignals
    CallerWaits = FALSE
    MaxInFlight = 20
INVARIANTS
    NodalWhenUsed
    TasksConserved
PROPERTIES
    ImplementsProtocol
CHECK_DEADLOCK FALSE
