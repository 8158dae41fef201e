SPECIFICATION Spec
CONSTANTS
    g1 = g1
    g2 = g2
    t1 = t1
    t2 = t2
    Groups <- TwoGroups
    Tasks <- TwoTasks
    Used <- Regular
    CallerWaits = TRUE
    MaxInFlight = 2
    none = none
    None = none
INVARIANTS
    TypeOK
    CommandBalance
    WaitMeansFinished
CHECK_DEADLOCK FALSE
