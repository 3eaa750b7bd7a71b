SPECIFICATION FairSpec
CONSTANTS
    N = 4
    Task <- Tasks
    Plans <- AllPlans
    Jobs = 2
INVARIANTS
    FrontierHolds
PROPERTIES
    ImplementsDag
    Finishes
