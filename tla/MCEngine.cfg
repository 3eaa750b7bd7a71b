SPECIFICATION PartsSpec
CONSTANTS
    Proc = {p1, p2}
    Workspace = {w1, w2}
    Outputs <- TwoOutputs
    Versions = 2
    CacheFaults = 1
    FileTask = {t1, t2}
    PathOrder <- MCPaths
    Operation <- MCOperation
    Trees <- MCTrees
    MaxEdits = 1
    N = 4
    Graphs <- AllGraphs
    Families <- AllFamilies
    Links <- AllLinks
    Names <- AllNames
    Values <- AllValues
    Plain = {"x", "y", "z"}
    Code <- AllCode
    MAX_CASES = 4
    MaxSteps = 2
    MaxVertices = 3
    MaxServices = 1
    MaxExecutions = 2
SYMMETRY Interchangeable
INVARIANTS
    CacheHolds
    LegacyHolds
    GraphIsRight
    CachedPlansAgree
    CasesDiffer
PROPERTIES
    FilesKept
