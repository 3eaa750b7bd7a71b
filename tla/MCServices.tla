----------------------------- MODULE MCServices -----------------------------
(***************************************************************************)
(* The service manager and the stores of the workspace: one behaviour is a *)
(* behaviour of one of the six parts, which `part' names; the variables of *)
(* the other parts stay zero.                                              *)
(***************************************************************************)
EXTENDS MCSupervisor, ServiceProbe, ServiceClients, Projects, WorkflowFiles

CONSTANTS Shell, Versions, Builds, Commands, Events   \* of Packages

VARIABLES part,
          declared, lockfile, guard, store, records, index, mirror, head,
          cache, fetched, cmd, commands, events

Pack == INSTANCE Packages WITH Process <- Shell, lock <- lockfile

ASSUME PackagesAssumption ==
    {Versions, Builds} \subseteq Nat \ {0} /\ Pack!Nobody \notin Shell

File(id) == [id |-> id, meta |-> 0, steps |-> 0]
Branches == [main |-> [p \in Path |-> Absent],
             other |-> [p \in Path |-> IF p = Stray THEN File("x") ELSE Absent]]

\* The same two values name the actors of every part. States that differ in
\* their names only are explored once.
Interchangeable == Permutations(Token)

NoSupervisor ==
    /\ worker = 0 /\ leases = 0 /\ scoped = 0 /\ manual = 0 /\ shutdown = 0
    /\ at = 0 /\ manager = 0 /\ halted = 0 /\ restarted = 0 /\ revivable = 0

NoProbe == /\ threshold = 0 /\ service = 0 /\ standing = 0 /\ cause = 0 /\ probe = 0
           /\ late = 0 /\ due = 0 /\ failures = 0 /\ passed = 0 /\ streak = 0

NoClients ==
    /\ managerIs = 0 /\ managerLock = 0 /\ socket = 0 /\ ending = 0 /\ tokens = 0
    /\ wanted = 0 /\ role = 0 /\ stage = 0 /\ conn = 0 /\ answer = 0 /\ child = 0
    /\ tries = 0 /\ home = 0

NoProjects ==
    /\ table = 0 /\ saved = 0 /\ order = 0 /\ request = 0 /\ runEnd = 0
    /\ listing = 0 /\ held = 0 /\ torn = 0 /\ requests = 0 /\ statistics = 0 /\ reads = 0

NoWorkflows ==
    /\ files = 0 /\ branch = 0 /\ mutating = 0 /\ opened = 0 /\ save = 0
    /\ lock = 0 /\ kept = 0 /\ crossed = 0 /\ saves = 0 /\ edits = 0

NoPackages ==
    /\ declared = 0 /\ lockfile = 0 /\ guard = 0 /\ store = 0 /\ records = 0
    /\ index = 0 /\ mirror = 0 /\ head = 0 /\ cache = 0 /\ fetched = 0
    /\ cmd = 0 /\ commands = 0 /\ events = 0

\* A workspace declares a package and a repository, or nothing yet: commands add
\* the one and the other.
BothOrNone == declared = {} \/ Cardinality(declared) = 2

PartsInit ==
    /\ part \in {"supervisor", "probe", "clients", "projects", "workflows", "packages"}
    /\ IF part = "supervisor" THEN Init ELSE NoSupervisor
    /\ IF part = "probe" THEN ProbeInit ELSE NoProbe
    /\ IF part = "clients" THEN ClientsInit ELSE NoClients
    /\ IF part = "projects" THEN ProjectsInit ELSE NoProjects
    /\ IF part = "workflows" THEN WorkflowInit ELSE NoWorkflows
    /\ IF part = "packages" THEN Pack!PackagesInit /\ BothOrNone ELSE NoPackages

packs == <<declared, lockfile, guard, store, records, index, mirror, head,
           cache, fetched, cmd, commands, events>>
partsVars == <<part, vars, probeVars, allVars, projectVars, workflowVars, packs>>

PartsNext ==
    /\ \/ part = "supervisor" /\ Next
          /\ UNCHANGED <<probeVars, allVars, projectVars, workflowVars, packs>>
       \/ part = "probe" /\ ProbeNext
          /\ UNCHANGED <<vars, allVars, projectVars, workflowVars, packs>>
       \/ part = "clients" /\ ClientsNext
          /\ UNCHANGED <<vars, probeVars, projectVars, workflowVars, packs>>
       \/ part = "projects" /\ ProjectsNext
          /\ UNCHANGED <<vars, probeVars, allVars, workflowVars, packs>>
       \/ part = "workflows" /\ WorkflowNext
          /\ UNCHANGED <<vars, probeVars, allVars, projectVars, packs>>
       \/ part = "packages" /\ Pack!PackagesNext
          /\ UNCHANGED <<vars, probeVars, allVars, projectVars, workflowVars>>
       \* Processes end and bounds are reached; only the supervisor goes on for ever.
       \/ part # "supervisor"
          /\ UNCHANGED <<vars, probeVars, allVars, projectVars, workflowVars, packs>>
    /\ UNCHANGED part

PartsSpec == PartsInit /\ [][PartsNext]_partsVars

-----------------------------------------------------------------------------
\* Nothing runs that nobody asks for, nothing runs without what it depends on,
\* and what a client has stopped stays stopped.
SupervisionHolds == part = "supervisor" => TypeOK /\ Owned /\ DependenciesRun /\ StopIsFinal

\* A client that starts or releases services never takes the process of another's.
ClientsServed == [][part = "supervisor" => KeepsClients]_vars

\* Readiness and ill health are what the probes of the service said.
ProbesJudge == part = "probe" => ProbesAreJudged

\* Clients reach the manager that holds the lock, which stays while it is leased.
ManagersServe == part = "clients" => ManagersHold

\* Answered changes of a project hold, and a listing shows every project once.
ProjectsKeep == part = "projects" => ProjectsHold

\* Answered saves of different fields of a workflow are all in its file, and a
\* save replaces nothing that its client, or its check, has not seen.
WorkflowsMerge ==
    /\ [](part = "workflows" => SavesMerge)
    /\ [][part = "workflows" => WritesInformed]_workflowVars

\* A locked module runs what was first published under its version, a release
\* names the artifact that is stored, and no command changes another's pins.
PackagesHold ==
    /\ [](part = "packages" => Pack!PackagesTypeOK /\ Pack!RunsThePublished /\ Pack!ReleasesAreTrue)
    /\ [][part = "packages" => Pack!KeepsPins]_packs
=============================================================================
