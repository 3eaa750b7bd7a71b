SPECIFICATION PartsSpec
CONSTANTS
    r1 = r1
    db = db
    web = web
    job = job
    None = None
    Run = {r1}
    JobLists <- Workflow
    Quiet = {r1}
    MaxCommands = 2
    MaxLines = 1
    MaxCancels = 2
    MaxUpdates = 1
    MaxFaults = 2
INVARIANTS
    UpdateWaits
PROPERTIES
    StudioHolds
    StudioEnds
    ServicesSettle
