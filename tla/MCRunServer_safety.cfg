SPECIFICATION PartsSpec
CONSTANTS
    None = None
    Run = {r1, r2, r3}
    KeyRuns = 2
    Key = {k}
    MaxRunning = 1
    MaxQueued = 1
    ResumeModes <- BothModes
    MaxFaults = 1
    MaxCrashes = 1
    RunIds = {1, 2, 3, 4}
    Times = {1, 2, 3}
    Limits = {1, 2}
    Pieces = 2
    MaxWrites = 2
    JTask = {t, u}
    JNative = {}
    JCached = {t}
    MaxOutput = 2
    MaxTries = 2
    TickBudget = 1
    PageEvents = 2
    PollHalves = 3
    Watched = 1
SYMMETRY RunSymmetry
INVARIANTS
    RunsAreKept
    QueueIsFair
    HistoryListed
    ProductsStored
    JournalHolds
