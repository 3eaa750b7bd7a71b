---------------------------- MODULE LegacyGraph ----------------------------
(***************************************************************************)
(* The legacy engine: a plugin or a GraphQL client grows a chain of        *)
(* vertices call by call, some calls execute their own vertex at once, and *)
(* stdout or stderr executes the whole chain.  Each execution is compiled  *)
(* to a plan of the executor: services first, the commands one after       *)
(* another, and a second plan for the cache finalizers.  A signal, the end *)
(* of the host's script or a failing display cancels everything, and the   *)
(* host leaves when no execution is active.                                *)
(*                                                                         *)
(* A vertex is named by its place in the chain (its id is a fresh UUID).   *)
(* What a command is, its provider, its directory, its environment and its *)
(* output are left out.  The executor appears by its contract, which       *)
(* Scheduler describes in full.                                            *)
(***************************************************************************)
EXTENDS Integers, FiniteSets, Sequences, SequencesExt

CONSTANTS MaxVertices,   \* bound: vertices of a chain
          MaxServices,   \* bound: services a session registers
          MaxExecutions  \* bound: executions of a session

VARIABLES chain,         \* the vertices: kind and needs
          services,      \* registered services: the commands each one runs
          enabled,       \* services switched on for the next execution
          run,           \* the execution in progress, or the last one
          executions,    \* executions begun
          cancelled,     \* the cancellation token of the session
          active,        \* plans between entering and leaving the executor
          host           \* serving, draining, gone

vars == <<chain, services, enabled, run, executions, cancelled, active, host>>

\* Kinds of vertex: an empty command (a pipeline's root, a provider); one that
\* only a whole execution runs; one that runs at once and again with the whole
\* (zip, tar, md5); one that runs at once only (git, http, withFile, chmod); a
\* cache, which is a tool with a finalizer; a change of directory; a service.
Runs == {"exec", "tool", "cache"}             \* neither in SKIP nor empty
AtOnce == {"tool", "once", "cache", "cd"}

Idle == run.phase = "replied"
Begun == host = "serving" /\ Idle

-----------------------------------------------------------------------------
(* The dependency-safe order of the chain: first come, first served among  *)
(* the vertices whose needs are met (see DependencyGraph).                 *)
Vertices == 1 .. Len(chain)
Met(done) == {i \in Vertices : chain[i].needs \subseteq done}
First(f, k) == {f[l] : l \in 1 .. k}
\* When a vertex was among them, and which one comes after the first k.
Waited(f, k, i) == {m \in 0 .. k : i \in Met(First(f, m))}
IsNext(f, k, i) ==
    /\ i \in Met(First(f, k)) \ First(f, k)
    /\ \A j \in Met(First(f, k)) \ First(f, k) :
          /\ Waited(f, k, j) \subseteq Waited(f, k, i)
          /\ Waited(f, k, j) = Waited(f, k, i) => i <= j
ExecutionOrder ==
    CHOOSE f \in [Vertices -> Vertices] : \A k \in Vertices : IsNext(f, k - 1, f[k])
Precedes(i, j) ==
    \E k, l \in Vertices : k < l /\ ExecutionOrder[k] = i /\ ExecutionOrder[l] = j

\* Everything a vertex depends on, itself included.
Whole(S) == \A i \in S : chain[i].needs \subseteq S
Closure(i) == {j \in Vertices : \A S \in SUBSET Vertices : i \in S /\ Whole(S) => j \in S}

-----------------------------------------------------------------------------
(* Compilation: which tasks an execution has.  An eager call has its own   *)
(* vertex and nothing else; the whole has services and finalizers too.     *)
InOrder(kinds) == {i \in Range(ExecutionOrder) : chain[i].kind \in kinds}

\* A service without a command has nothing to mark as started, and a service
\* enabled twice would be two tasks of one name.
Compiles(daemons) ==
    (\A k \in Range(daemons) : services[k] # {}) /\ IsInjective(daemons)

Named(kind, S) == {<<kind, i>> : i \in S}
Execute(only, commands, daemons, finals) ==
    /\ executions < MaxExecutions
    /\ executions' = executions + 1
    /\ run' = [only |-> only, code |-> -1, daemons |-> daemons, commands |-> commands,
               finals |-> finals, shown |-> TRUE,
               phase |-> IF Compiles(daemons) THEN "compiled" ELSE "broken",
               status |-> [t \in Named("service", Range(daemons)) \cup Named("command", commands)
                                   \cup Named("final", finals) |-> "pending"]]

-----------------------------------------------------------------------------
(* Building the chain.  The graph's lock is held for a whole call, the     *)
(* execution it may contain included.                                      *)
Grow(kind, needs) ==
    /\ Begun /\ Len(chain) < MaxVertices
    /\ chain' = Append(chain, [kind |-> kind, needs |-> needs])

\* A new vertex needs the one before it, unless that is the root alone: then
\* caches and archives are linked to it, commands are not, and of the calls that
\* run once some are and some are not.
Before(kind) == IF Len(chain) > 1 \/ kind \in {"tool", "cache"} THEN {{Len(chain)}}
                ELSE IF kind = "once" THEN {{}, {1}} ELSE {{}}

Append1(kind) ==
    /\ chain # <<>>
    /\ \E needs \in Before(kind) : Grow(kind, needs)
    /\ IF kind \in AtOnce
         THEN Execute(Len(chain'), IF kind = "cd" THEN {} ELSE {Len(chain')}, <<>>, {})
         ELSE UNCHANGED <<executions, run>>
    /\ UNCHANGED <<services, enabled, cancelled, active, host>>

WithExec == Append1("exec")
WaitOn == Append1("exec")
Provider == Append1("root")          \* devbox, devenv, flox, nix, pkgx of a pipeline
Toolchain == Append1("root")         \* pixi, proto, hermit, mise, envhub
WithWorkdir == Append1("cd")
WithCache == Append1("cache")
WithFile == Append1("once")
Fetch == Append1("once")             \* http and git of a pipeline
Checkout == Append1("once")          \* git's branch, commit and tree
Archive == Append1("tool")           \* zip, tarCzvf
Digest == Append1("tool")            \* md5, sha256, tarXzvf, unzip
Chmod == Append1("once")

\* pipeline, and every root constructor: the chain starts over; services and
\* volumes stay.
Reset ==
    /\ Begun
    /\ chain' = <<[kind |-> "root", needs |-> {}]>>
    /\ UNCHANGED <<services, enabled, run, executions, cancelled, active, host>>

\* A provider opened on a directory: a vertex that is linked to nothing.
Detach ==
    /\ chain # <<>> /\ Grow("root", {})
    /\ UNCHANGED <<services, enabled, run, executions, cancelled, active, host>>

\* as_service: the chain so far is recorded, nothing runs.
AsService ==
    /\ chain # <<>> /\ Cardinality(DOMAIN services) < MaxServices
    /\ \E needs \in Before("asService") : Grow("asService", needs)
    /\ services' = IF Len(chain) < 2 THEN services
                   ELSE Append(services, {i \in Closure(Len(chain)) : chain[i].kind \in Runs})
    /\ UNCHANGED <<enabled, run, executions, cancelled, active, host>>

WithService(k) ==
    /\ Begun /\ Len(enabled) < MaxServices
    /\ enabled' = Append(enabled, k)
    /\ UNCHANGED <<chain, services, run, executions, cancelled, active, host>>

\* stdout, stderr.
Stdout ==
    /\ Begun /\ Execute(0, InOrder(Runs), enabled, InOrder({"cache"}))
    /\ UNCHANGED <<chain, services, enabled, cancelled, active, host>>

\* The calls of every object of the schema, pipelines and providers included;
\* with two archives, those of a plugin; with the providers opened on it, those
\* of a directory; the calls of a file.
OfEveryObject ==
    \/ WithExec \/ WaitOn \/ WithWorkdir \/ WithCache \/ WithFile \/ AsService \/ Stdout
    \/ \E k \in DOMAIN services : WithService(k)
OfAPlugin == OfEveryObject \/ Archive
OfADirectory == OfAPlugin \/ Detach
OfAFile == Digest \/ Chmod

-----------------------------------------------------------------------------
(* The executor.  A plan counts as active from before its first look at    *)
(* the cancellation until everything it started has ended.                 *)
Status(s) == {t \in DOMAIN run.status : run.status[t] = s}
Live == Status("running") \cup Status("ready")
Planned == IF run.phase = "main" THEN {t \in DOMAIN run.status : t[1] # "final"}
           ELSE {t \in DOMAIN run.status : t[1] = "final"}
Broken == Planned \cap Status("failed") # {}
Chained(t, s) == run' = [run EXCEPT !.status[t] = s]
Executor == UNCHANGED <<chain, services, enabled, executions, cancelled, active, host>>

Enter ==
    /\ run.phase \in {"compiled", "finalizing"}
    /\ run' = [run EXCEPT !.phase = IF @ = "compiled" THEN "main" ELSE "finals"]
    /\ active' = active + 1
    /\ UNCHANGED <<chain, services, enabled, executions, cancelled, host>>

\* (fail_fast and the token, looked at for every admission)
\* A command needs the one before it in the order and every service.
Previous(i) ==
    {c \in run.commands : /\ Precedes(c, i)
                          /\ \A d \in run.commands : ~(Precedes(c, d) /\ Precedes(d, i))}
TaskNeeds(t) ==
    IF t[1] = "command"
    THEN Named("service", Range(run.daemons)) \cup Named("command", Previous(t[2])) ELSE {}
Stopping == cancelled \/ Broken
Start(t) ==
    /\ run.phase \in {"main", "finals"} /\ t \in Planned \cap Status("pending")
    /\ ~Stopping
    /\ TaskNeeds(t) \subseteq Status("ok") \cup Status("ready")
    /\ t[1] # "service" => {u \in Status("running") : u[1] # "service"} = {}  \* jobs = 1
    /\ Chained(t, "running") /\ Executor

ServiceReady(t) == t[1] = "service" /\ t \in Status("running") /\ Chained(t, "ready") /\ Executor

\* A command ends well or not; a service that ends by itself has failed.
End(t, s) ==
    /\ t \in Live /\ (t[1] = "service" => s = "failed")
    /\ Chained(t, s) /\ Executor

\* Cancellation and failure kill what runs; services end with the last command.
CommandsEnded == \A t \in DOMAIN run.status :
                    t[1] = "command" => run.status[t] \notin {"pending", "running", "ready"}
Kill(t) == /\ Stopping /\ t \in Live /\ Chained(t, "cancelled") /\ Executor
StopService(t) ==
    /\ t[1] = "service" /\ t \in Live /\ CommandsEnded /\ Chained(t, "ok") /\ Executor

Leave ==
    /\ run.phase \in {"main", "finals"} /\ Planned \cap Live = {}
    /\ Stopping \/ Planned \cap Status("pending") = {}
    /\ run' = [run EXCEPT !.phase = IF @ = "main" THEN "executed" ELSE "finished",
                          !.status = [t \in DOMAIN @ |-> IF t \in Planned /\ @[t] = "pending"
                                                         THEN "skipped" ELSE @[t]]]
    /\ active' = active - 1
    /\ UNCHANGED <<chain, services, enabled, executions, cancelled, host>>

\* Mutant: the finalizers run after commands that succeeded only.
FinalizeAfterSuccess ==
    /\ run.phase = "executed"
    /\ run' = [run EXCEPT !.phase = IF run.finals # {} /\ ~cancelled
                                       /\ \A t \in DOMAIN run.status :
                                             t[1] = "command" => run.status[t] = "ok"
                                    THEN "finalizing" ELSE "finished"]
    /\ Executor
\* The finalizers run whether the commands succeeded or not, unless the session
\* was cancelled before this look at the token.
Finalize ==
    /\ run.phase = "executed"
    /\ run' = [run EXCEPT !.phase = IF run.finals # {} /\ ~cancelled
                                    THEN "finalizing" ELSE "finished"]
    /\ Executor

\* The one completion of an execution: the failure of the commands, else of the
\* finalizers, else 0.  The services were for this execution only.
Outcome(kinds) == {run.status[t] : t \in {u \in DOMAIN run.status : u[1] \in kinds}}
ExitCode == IF /\ run.phase = "finished" /\ run.shown
           /\ Outcome({"command", "service"}) \subseteq {"ok"}
           /\ Outcome({"final"}) \subseteq {"ok", "pending"}
        THEN 0 ELSE 1
Reply ==
    /\ run.phase \in {"finished", "broken"}
    /\ run' = [run EXCEPT !.phase = "replied", !.code = ExitCode]
    /\ enabled' = IF run.only = 0 THEN <<>> ELSE enabled
    /\ UNCHANGED <<chain, services, executions, cancelled, active, host>>

-----------------------------------------------------------------------------
(* The host.  SIGINT, SIGTERM and a failing display cancel the session for *)
(* good; so does the end of the host's script, which then waits until no   *)
(* plan is active and leaves.  The display follows the journal of the plan *)
(* that executes.                                                          *)
DisplayFails ==
    /\ run.phase \in {"main", "finals"} /\ run.shown
    /\ run' = [run EXCEPT !.shown = FALSE] /\ cancelled' = TRUE
    /\ UNCHANGED <<chain, services, enabled, executions, active, host>>
Cancel ==
    /\ ~cancelled /\ cancelled' = TRUE
    /\ UNCHANGED <<chain, services, enabled, run, executions, active, host>>
ScriptEnds ==
    /\ host = "serving" /\ host' = "draining" /\ cancelled' = TRUE
    /\ UNCHANGED <<chain, services, enabled, run, executions, active>>
WaitIdle ==
    /\ host = "draining" /\ active = 0 /\ host' = "gone"
    /\ UNCHANGED <<chain, services, enabled, run, executions, cancelled, active>>

-----------------------------------------------------------------------------
Init ==
    /\ chain = <<>> /\ services = <<>> /\ enabled = <<>> /\ executions = 0
    /\ run = [only |-> 0, code |-> 0, daemons |-> <<>>, commands |-> {}, finals |-> {},
              shown |-> TRUE, phase |-> "replied", status |-> [t \in {} |-> "pending"]]
    /\ cancelled = FALSE /\ active = 0 /\ host = "serving"

Next ==
    \/ OfADirectory \/ OfAFile
    \/ Provider \/ Toolchain \/ Fetch \/ Checkout \/ Reset
    \/ Enter \/ Leave \/ Finalize \/ Reply
    \/ \E t \in DOMAIN run.status :
          \/ Start(t) \/ ServiceReady(t) \/ Kill(t) \/ StopService(t)
          \/ \E s \in {"ok", "failed"} : End(t, s)
    \/ DisplayFails \/ Cancel \/ ScriptEnds \/ WaitIdle

Spec == Init /\ [][Next]_vars

-----------------------------------------------------------------------------
Ended == run.phase = "replied" /\ run.code # -1 /\ executions > 0
Attempted == {"running", "ready", "ok", "failed", "cancelled"}

\* A command starts after every command it depends on, through however many
\* vertices that run nothing, has succeeded, and after every service is up.
StartsInOrder ==
    \A a \in run.commands : ~Idle /\ run.status[<<"command", a>>] \in Attempted =>
        /\ \A k \in Range(run.daemons) :
              run.status[<<"service", k>>] \notin {"pending", "running", "skipped"}
        /\ \A b \in (Closure(a) \ {a}) \cap run.commands :
              run.status[<<"command", b>>] = "ok"

\* The completion says 0 exactly when all commands and services went well and
\* every cache was saved; only a cancellation leaves caches out silently.
CompletionIsTrue ==
    Ended /\ run.status # <<>> =>
        \/ run.code = 1 /\ (~cancelled /\ Compiles(run.daemons)
                              => Outcome({"command", "service", "final"}) \cap {"failed"} # {})
        \/ /\ run.code = 0 /\ Outcome({"command", "service"}) \subseteq {"ok"}
           /\ \/ Outcome({"final"}) \subseteq {"ok"}
              \/ cancelled /\ Outcome({"final"}) = {"pending"}

\* Whatever became of the commands, an execution that was not cancelled saves its
\* caches in order, until one cannot be saved.
CachesAreSaved ==
    Ended /\ ~cancelled /\ Compiles(run.daemons) =>
        \A t \in DOMAIN run.status : t[1] = "final" =>
            \/ run.status[t] \in {"ok", "failed"}
            \/ run.status[t] = "skipped" /\ "failed" \in Outcome({"final"})

\* An execution of the legacy graph runs what the chain says, in its order, saves
\* its caches and reports all of it truthfully (legacy_plan.rs).
LegacyRunsAreRight == StartsInOrder /\ CompletionIsTrue /\ CachesAreSaved

\* Once the host has waited for the session to be idle nothing it started is
\* alive, and no execution that is still on its way starts anything
\* (Cancellation::wait_idle).
IdleIsFinal == host = "gone" => Live = {}
=============================================================================
