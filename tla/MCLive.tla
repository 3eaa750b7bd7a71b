------------------------------- MODULE MCLive -------------------------------
(***************************************************************************)
(* What comes to an end: the copy of a workspace, the tasks of two engines *)
(* that share a host, and the runs of a server that is killed and started  *)
(* again.  One behaviour is a behaviour of one of these parts, which       *)
(* `part' names; the variables of the others stay zero.                    *)
(***************************************************************************)
EXTENDS WorkspaceCopy, HostTools, TLC

CONSTANTS t1, t2,   \* tasks
          Run, None

VARIABLES part,
          state, admitted, runResult, submission, executions, serverPhase, boot, sequence,
          adm, op, slots, queue, active, mem, token, worker, verdict, keyOf, cancelled,
          torn, faults, crashes

\* Two runs without keys, no save fails, one kill.
Server == INSTANCE RunServer
    WITH Key <- {}, MaxRunning <- 1, MaxQueued <- 1, ResumeModes <- BOOLEAN,
         MaxFaults <- 0, MaxCrashes <- 1, result <- runResult, phase <- serverPhase

-----------------------------------------------------------------------------
(* The programs of HostTools: tasks install packages, use two prefixes, or   *)
(* run a primitive that needs a client.                                      *)

Provider(m, p) == [manager |-> m, prefix |-> p, present |-> TRUE]
Brew == Provider("homebrew", 1)
Port == Provider("macports", 2)

Job(kind, prefix, environment, operation) ==
  [kind |-> kind, prefix |-> prefix, environment |-> environment, op |-> operation,
   packages |-> IF kind = "install" THEN {"curl"} ELSE {}, resources |-> {},
   impatient |-> FALSE, forks |-> kind # "primitive"]

Op(kind, install) ==
  [kind |-> kind, install |-> install, hostOk |-> TRUE, action |-> "get", path |-> TRUE,
   username |-> TRUE, password |-> TRUE, inEnvironment |-> TRUE]

JobList ==
  <<Job("install", 1, {}, Op("os", FALSE)),
    Job("use", 1, {Brew}, Op("os", FALSE)),
    [Job("use", 1, {Brew, Port}, Op("os", FALSE)) EXCEPT !.impatient = TRUE],
    [Job("install", 2, {}, Op("os", FALSE)) EXCEPT !.resources = {1}, !.forks = FALSE],
    Job("use", 1, {Brew, [Brew EXCEPT !.prefix = 2]}, Op("os", FALSE)),
    [Job("primitive", 1, {Brew}, Op("digest", FALSE)) EXCEPT !.resources = {2}],
    [Job("primitive", 1, {Brew}, Op("rsync", TRUE)) EXCEPT !.resources = {2}],
    Job("primitive", 1, {Port}, [Op("ftp", FALSE) EXCEPT !.inEnvironment = FALSE])>>
AllJobs == ToSet(JobList)

\* The tasks are interchangeable: of two that swap their jobs one is enough.
Sorted == \E i, j \in DOMAIN JobList : i <= j /\ job[t1] = JobList[i] /\ job[t2] = JobList[j]

-----------------------------------------------------------------------------
serverVars == <<state, admitted, runResult, submission, executions, serverPhase, boot,
                sequence, adm, op, slots, queue, active, mem, token, worker, verdict,
                keyOf, cancelled, torn, faults, crashes>>
partsVars == <<part, copyVars, hostVars, serverVars>>

NoCopy == /\ source = 0 /\ staging = 0 /\ copyPhase = 0 /\ sweep = 0 /\ files = 0
          /\ next = 0 /\ hashing = 0 /\ gaveUp = 0 /\ digests = 0 /\ before = 0
          /\ stop = 0 /\ moments = 0

NoHost == /\ job = 0 /\ phase = 0 /\ status = 0 /\ got = 0 /\ asleep = 0 /\ flag = 0
          /\ stage = 0 /\ left = 0 /\ asked = 0 /\ outcome = 0 /\ result = 0
          /\ child = 0 /\ helper = 0 /\ tools = 0

NoServer ==
    /\ state = 0 /\ admitted = 0 /\ runResult = 0 /\ submission = 0 /\ executions = 0
    /\ serverPhase = 0 /\ boot = 0 /\ sequence = 0 /\ adm = 0 /\ op = 0 /\ slots = 0
    /\ queue = 0 /\ active = 0 /\ mem = 0 /\ token = 0 /\ worker = 0 /\ verdict = 0
    /\ keyOf = 0 /\ cancelled = 0 /\ torn = 0 /\ faults = 0 /\ crashes = 0

PartsInit ==
    /\ part \in {"copy", "host", "server"}
    /\ IF part = "copy" THEN CopyInit ELSE NoCopy
    /\ IF part = "host" THEN HostInit /\ Sorted ELSE NoHost
    /\ IF part = "server" THEN Server!Init ELSE NoServer

PartsNext ==
    /\ \/ part = "copy" /\ CopyNext /\ UNCHANGED <<hostVars, serverVars>>
       \/ part = "host" /\ HostNext /\ UNCHANGED <<copyVars, serverVars>>
       \/ part = "server" /\ Server!Next /\ UNCHANGED <<copyVars, hostVars>>
       \* A copy and a host's tasks end; the server never stops.
       \/ part \in {"copy", "host"} /\ UNCHANGED <<copyVars, hostVars, serverVars>>
    /\ UNCHANGED part

\* The fairness of each part, while it is the one that runs.
FairCopy ==
    /\ WF_copyVars(part = "copy" /\ CopySteps)
    /\ \A t \in HashThread : WF_copyVars(part = "copy" /\ HashSteps(t))

FairHost ==
    \A t \in Task : /\ WF_hostVars(part = "host" /\ Engine(t))
                    /\ WF_hostVars(part = "host" /\ Work(t))

FairServer ==
    /\ WF_serverVars(part = "server" /\ Server!Admission)
    /\ WF_serverVars(part = "server" /\ Server!Cancelling)
    /\ WF_serverVars(part = "server" /\ Server!Booting)
    /\ WF_serverVars(part = "server" /\ \E resume \in BOOLEAN : Server!Restart(resume))
    /\ SF_serverVars(part = "server" /\ \E r \in Run : Server!Start(r) \/ Server!Finish(r))
    /\ \A r \in Run : /\ WF_serverVars(part = "server" /\ Server!Wait(r))
                            /\ WF_serverVars(part = "server" /\ token[r] /\ Server!Execute(r))
                            /\ WF_serverVars(part = "server" /\ Server!Exit(r))

PartsSpec == /\ PartsInit /\ [][PartsNext]_partsVars
             /\ FairCopy /\ FairHost /\ FairServer

-----------------------------------------------------------------------------
\* The workspace of a run is its source as it was at one moment of the setup.
CopiedAtOnce == part = "copy" => OneMoment

\* Nothing disturbs a package prefix in use, no process outlives its task and
\* no wake-up is lost.
HostHolds == part = "host" => HostIsShared

\* The processes of tasks end: what only the commands of a run can promise.
TasksDoExit == \A t \in Task : WF_hostVars(part = "host" /\ Exits(t))

\* The setup of a workspace ends; and so do all tasks that take leases from one
\* another, if their processes do.
SetupAndTasksEnd ==
    /\ <>(part = "copy" => copyPhase \in {"published", "failed"})
    /\ TasksDoExit => <>(part = "host" => \A t \in Task : phase[t] = "ended")

\* Executions of a server end by themselves: what only commands can promise.
ExecutionsDoEnd == \A r \in Run : WF_serverVars(part = "server" /\ Server!Execute(r))

Unsettled == {r \in Run : mem[r] # None /\ state[r] \notin Server!Final}

\* If they do, no admitted run stays unsettled, although the server is killed
\* and started again; and a shutdown ends whatever they do.
ServerEnds ==
    /\ ExecutionsDoEnd => (part = "server" /\ Unsettled # {}) ~> (part = "server" /\ Unsettled = {})
    /\ (part = "server" /\ serverPhase = "stopping") ~> (part = "server" /\ serverPhase # "stopping")
=============================================================================
