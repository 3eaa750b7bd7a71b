SPECIFICATION PartsSpec
CONSTANTS
    east = east
    west = west
    pkg = pkg
    author = author
    None = None
    Source = {east, west}
    Subject = {pkg, author}
    Histories <- AllHistories
    Clocks <- Agreeing
    Fresh = {}
    Overlap = 1
    MaxQueue = 2
    MaxFaults = 2
    Account = {a, b}
    Client = {c}
    Worker = {v, w}
    Nobody = Nobody
    WorkerLimit = 1
    ClaimLimit = 2
    FreshLimit = 3
    MaxSyncFaults = 2
INVARIANTS
    IndexersExclude
PROPERTIES
    IndexIsRight
    EventsIndexed
    SyncCatchesUp
