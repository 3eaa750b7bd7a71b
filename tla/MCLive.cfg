SPECIFICATION PartsSpec
CONSTANTS
    SourceFile = {f, g}
    HashThread = {h1, h2}
    SourceEdits = 2
    Task = {t1, t2}
    Jobs <- AllJobs
    MaxChunks = 1
    Updates = TRUE
    Root = FALSE
    t1 = t1
    t2 = t2
    Run = {r1, r2}
    None = None
INVARIANTS
    CopiedAtOnce
    HostHolds
PROPERTIES
    SetupAndTasksEnd
    ServerEnds
