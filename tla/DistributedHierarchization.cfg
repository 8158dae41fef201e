CONSTANTS
    None = None
    Setups <- SmallSetups
SPECIFICATION Spec
INVARIANTS
    TransformsRight
    
    CombinedInterpolates
    
