SPECIFICATION Spec
CONSTANTS
    g1 = g1
    g2 = g2
    t1 = t1
    t2 = t2
    Groups <- OneGroup
    Tasks <- TwoTasks
    Used <- RegularAndDiagnostics
    CallerWaits = FALSE
    MaxInFlight = 3
    none = none
    None = none
INVARIANTS
    TasksAgree
    ReplyAnswersTheRequest
CHECK_DEADLOCK FALSE
