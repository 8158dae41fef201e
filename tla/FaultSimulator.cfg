SPECIFICATION Spec
CONSTANTS
    N = 3
    TreeSuccessors = 1
    Programs <- SafePrograms
    InOrder = TRUE
    Revoked = Revoked
    None = None
INVARIANTS
    DeadAreDead
    FreeCompletes
PROPERTIES
    UniformVerdict
    
