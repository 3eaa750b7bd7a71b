SPECIFICATION FairSpec
CONSTANTS
    a = a
    b = b
    c = c
    R = R
    K = K
    Task = {a, b, c}
    Resource = {R}
    Key = {K}
    Plans <- SmallPlans
INVARIANTS
    TypeOK
    Bookkeeping
    MutualExclusion
    RunsAreRight
PROPERTIES
    Ends
    NoStartWhileStopping
    TerminalIsFinal
