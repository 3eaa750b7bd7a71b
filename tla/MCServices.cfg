SPECIFICATION PartsSpec
CONSTANTS
    db = db
    web = web
    Service = {db, web}
    Token = {u, v}
    DependsOn <- Pair
    Order <- PairOrder
    Policy <- OnFailure
    MaxRestarts <- Once
    Probed = {}
    Operations <- Every
    Thresholds = {0, 1, 2, 3}
    Client = {u, v}
    Roles = {"up", "scoped", "down", "status"}
    Manager = {m1, m2}
    Free = Free
    Tries = 1
    Project = {a, b}
    Requester = {u, v}
    NoRow = NoRow
    UserNames = {n}
    Values = {1}
    MaxRequests = 2
    MaxStats = 1
    MaxReads = 1
    PageSize = 1
    Id = {"default", "x"}
    Default = "default"
    Stray = "stray"
    Peer = {u, v}
    Absent = Absent
    MaxSaves = 2
    MaxEdits = 1
    Committed <- Branches
    Shell = {u, v}
    Versions = 2
    Builds = 2
    Commands = 3
    Events = 1
SYMMETRY Interchangeable
INVARIANTS
    SupervisionHolds
    ProbesJudge
    ManagersServe
    ProjectsKeep
PROPERTIES
    WorkflowsMerge
    ClientsServed
    PackagesHold
