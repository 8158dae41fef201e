SPECIFICATION Spec
CONSTANTS
    Inputs <- SmallInputs
    ToolInputs <- SmallToolInputs
    ManagedInputs <- SmallManaged
    Fractions <- SmallFractions
    Decompositions <- SmallDecompositions
    GroupCounts = {2, 3}
    Durations = {1, 2, 5}
    LastN = 1
    WriteEvery = 1
    MaxRuns = 2
    MaxIterations = 3
    MinInbalance = 2
INVARIANTS
    SchemeRight
    EveryTaskOneGroup
    
    DurationsKept
PROPERTIES
    ReschedulingHelps
CHECK_DEADLOCK FALSE
