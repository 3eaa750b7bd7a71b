SPECIFICATION AliasSpec
CONSTANTS
    Process = {p, q}
    Versions = 1
    Builds = 1
    Commands = 3
    Events = 2
SYMMETRY Same
CHECK_DEADLOCK FALSE
PROPERTIES
    AdditionsKept
