SPECIFICATION Spec
CONSTANTS
    Domains <- SmallDomains
    NumGroups = 3
    NumCombis = 4
    Criteria <- SmallCriteria
    Distributions <- SmallDistributions
INVARIANTS
    NewCoefficientsUsed
