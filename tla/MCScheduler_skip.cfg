SPECIFICATION Spec
CONSTANTS
    a = a
    b = b
    c = c
    R = R
    K = K
    Task = {a, b, c}
    Resource = {R}
    Key = {K}
    Plans <- SkipPlans
INVARIANTS
    OnlyFailuresFail
