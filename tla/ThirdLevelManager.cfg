SPECIFICATION Spec
CONSTANTS
    A = A
    B = B
    common = common
    None = none
    Systems <- TwoSystems
    NumPieces = 2
    Subspaces <- AllSubspaces
    SpacesOf <- SharedSpaces
    Operations <- AllMethods
    Builds <- SameBuild
    Chunks = 2
    Capacity = 2
    MaxCalls = 3
INVARIANTS
    MessagesUnderstood
PROPERTIES
    ImplementsExchange
    RuntimeLoopEnds
CHECK_DEADLOCK FALSE
