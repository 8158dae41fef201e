SPECIFICATION Spec
CONSTANTS
    Setups <- SmallSetups
    None = None
INVARIANTS
    CombinationComplete
    ReductionsMatch
PROPERTIES
    ProgramsFinish
