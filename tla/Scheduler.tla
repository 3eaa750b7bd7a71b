------------------------------ MODULE Scheduler ------------------------------
(***************************************************************************)
(* The scheduler of one pipeline run: `Plan::execute_compiled_graph` of    *)
(* engine/crates/executor/src/lib.rs with the policy operators of          *)
(* workflow.rs, the named leases of resources.rs, the owned workers of     *)
(* worker.rs and the action lock of cache.rs.                              *)
(*                                                                         *)
(* One thread repeats a pass (look up, publish, reap, dispatch, check) and *)
(* sleeps at most 10 ms between passes.  A visit of one task in one pass   *)
(* is a step; between any two visits a process may exit, a worker return,  *)
(* a deadline pass, the run be cancelled or another run take a lock.       *)
(*                                                                         *)
(* A plan with none of the lifecycle policies takes the incremental        *)
(* frontier of graph.rs instead of the sweep and is not a plan of this     *)
(* module (see Incremental).                                               *)
(***************************************************************************)
EXTENDS Integers, FiniteSets

CONSTANTS Task,      \* the tasks of the plan
          Resource,  \* names of leases
          Key,       \* action keys of cached tasks
          Plans      \* the compiled plans to run, one per behaviour

Terminal == {"Succeeded", "Failed", "Skipped", "Cancelled", "TimedOut"}
Status == {"Pending", "Running", "Ready", "Stopping"} \cup Terminal
Timer == {"task", "wait", "retry", "startup", "shutdown"}
Stage == {"idle", "preparing", "running", "saving"}
Work == {"none", "busy", "ok", "retryable", "fatal", "lost",
         "hit", "miss", "taken", "error"}
Phase == {"wait", "lookup", "publish", "reap", "dispatch", "check",
          "done", "aborted"}

-----------------------------------------------------------------------------
(* What Policy::validate and compile_graph accept. *)

FinalizerOf(p, t) == p.when[t] \in {"always", "failure"}

Incremental(p) ==
    /\ p.service = {} /\ p.cached = {} /\ p.waitLimited = {}
    /\ \A t \in Task : /\ p.excl[t] \cup p.shared[t] = {}
                       /\ p.when[t] = "success"
                       /\ p.attempts[t] = 1

\* service_ancestors: the services a task depends on, directly or not.
ServiceAncestors(p, t) ==
    UNION {p.ancestors[n] \cup ({n} \cap p.service) : n \in p.needs[t]}

PlanType(p) ==
    /\ p.jobs \in Nat \ {0} /\ p.maxServices \in Nat \ {0}
    /\ p.failFast \in BOOLEAN
    /\ p.needs \in [Task -> SUBSET Task]
    /\ p.ancestors \in [Task -> SUBSET p.service]
    /\ p.rank \in [Task -> Nat]
    /\ p.when \in [Task -> {"success", "failure", "always", "never"}]
    /\ p.attempts \in [Task -> Nat \ {0}]
    /\ p.excl \in [Task -> SUBSET Resource]
    /\ p.shared \in [Task -> SUBSET Resource]
    /\ p.key \in [Task -> Key]
    /\ \A S \in {p.service, p.cached, p.products, p.allow, p.timed,
                 p.waitLimited} : S \subseteq Task
    /\ p.contended \subseteq Resource \cup Key

ValidPlan(p) ==
    /\ PlanType(p)
    /\ \A t \in Task :
          /\ \A n \in p.needs[t] : p.rank[n] < p.rank[t]
          /\ \A u \in Task \ {t} : p.rank[u] # p.rank[t]
          /\ p.ancestors[t] = ServiceAncestors(p, t)
          /\ FinalizerOf(p, t) => t \in (p.timed \cap p.waitLimited) \ p.cached
          /\ t \in p.service => /\ t \notin p.allow \cup p.products \cup p.cached
                                /\ p.when[t] = "success" /\ p.attempts[t] = 1
          /\ \A s \in p.ancestors[t] :
                /\ t \notin p.cached
                /\ p.excl[t] \cap (p.excl[s] \cup p.shared[s]) = {}
                /\ p.shared[t] \cap p.excl[s] = {}
    /\ ~Incremental(p)

ASSUME TaskAssumption == IsFiniteSet(Task) /\ Task # {}
ASSUME LockNames == Resource \cap Key = {}
ASSUME PlansAssumption == \A p \in Plans : ValidPlan(p)

-----------------------------------------------------------------------------
VARIABLES
    plan,        \* the plan being executed
    pc,          \* where the scheduler thread is in its pass
    todo,        \* tasks still to visit in this phase of the pass
    stopping,    \* sampled at the top of the pass
    cancel,      \* the Cancellation token
    failed,      \* a task failed that was not allowed to
    stalled,     \* ready services starve their pending consumers
    outcome,     \* captured when every task is terminal
    status,      \* TaskResult::status
    condSkipped, \* TaskResult::condition_skipped
    made,        \* number of attempts recorded
    stage,       \* which of `preparing`, `running`, `saving` lists the task
    work,        \* its process or worker: busy, or what it will report
    stop,        \* Preparing/Saving::stop, or Shutdown::status of a service
    armed, due,  \* per task, the timers that run and those that expired
    held,        \* in-process exclusive resources
    readers,     \* in-process shared counts
    leases,      \* per task, the lock files it holds
    action,      \* tasks whose Prepared action lock is held
    foreign      \* lock files held by other runs

control == <<plan, pc, todo, stopping, cancel, failed, stalled, outcome>>
tasks == <<status, condSkipped, made, stage, work, stop>>
timers == <<armed, due>>
locks == <<held, readers, leases>>
vars == <<control, tasks, timers, locks, action, foreign>>

-----------------------------------------------------------------------------
(* Policy: workflow.rs. *)

Finalizer(t) == FinalizerOf(plan, t)
Ended(t) == status[t] \in Terminal
Live == {t \in Task : stage[t] # "idle"}

Satisfied(t) ==
    \/ status[t] \in {"Succeeded", "Ready"}
    \/ t \in plan.allow /\ status[t] \in {"Failed", "TimedOut"}

Unsettled(t, p) ==
    /\ ~Ended(p) /\ status[p] # "Ready"
    /\ ~(Finalizer(t) /\ status[p] = "Stopping")

Gate(t) ==
    LET blocked == {p \in plan.needs[t] : ~Satisfied(p)} IN
    IF \E p \in plan.needs[t] : Unsettled(t, p) THEN "Wait"
    ELSE IF \/ plan.when[t] = "always"
            \/ plan.when[t] = "failure" /\ \E p \in blocked : ~condSkipped[p]
            \/ plan.when[t] = "success" /\ blocked = {}
    THEN "Ready" ELSE "Skip"

ConditionSkipped(t) ==
    \/ plan.when[t] # "success"
    \/ \A p \in plan.needs[t] : condSkipped[p] \/ Satisfied(p)

\* Mutant: a service that failed but is still shutting down is not seen.
ServiceFailedLate(t) == \E s \in plan.ancestors[t] : Ended(s) /\ ~Satisfied(s)

\* `dependency_failed` of the reap pass, `failed_service` of the sweep.
ServiceFailed(t) ==
    \E s \in plan.ancestors[t] : \/ Ended(s) /\ ~Satisfied(s)
                                 \/ stop[s] \notin {"none", "Succeeded"}

InUse(s) == \E d \in Task : s \in plan.ancestors[d] /\ ~Ended(d)
Aborting == cancel \/ (plan.failFast /\ failed)

-----------------------------------------------------------------------------
(* Resources: the in-process sets and the flock leases of resources.rs. *)

Reserve(t) ==
    /\ held' = held \cup plan.excl[t]
    /\ readers' = [r \in Resource |->
                     readers[r] + (IF r \in plan.shared[t] THEN 1 ELSE 0)]
    /\ leases' = [leases EXCEPT ![t] = plan.excl[t] \cup plan.shared[t]]

\* Mutant: the reader counts of the exclusive names are decremented too.
ReleaseAll(t) ==
    /\ held' = held \ plan.excl[t]
    /\ readers' = [r \in Resource |->
                     IF r \in plan.excl[t] \cup plan.shared[t]
                     THEN readers[r] - 1 ELSE readers[r]]
    /\ leases' = [leases EXCEPT ![t] = {}]

\* release_resources, then the lease files are dropped.
Release(t) ==
    /\ held' = held \ plan.excl[t]
    /\ readers' = [r \in Resource |->
                     IF r \in plan.shared[t] /\ readers[r] > 0
                     THEN readers[r] - 1 ELSE readers[r]]
    /\ leases' = [leases EXCEPT ![t] = {}]

LockedExclusively(r) == \/ foreign[r] = "exclusive"
                        \/ \E u \in Task : r \in leases[u] \cap plan.excl[u]
Locked(r) == foreign[r] # "free" \/ \E u \in Task : r \in leases[u]

\* Mutant: every lock file is locked in shared mode.
AcquirableShared(t) ==
    \A r \in plan.excl[t] \cup plan.shared[t] : r \notin held /\ ~LockedExclusively(r)

\* The in-process check, then resources::acquire: all files or none.
Acquirable(t) ==
    /\ \A r \in plan.excl[t] : r \notin held /\ readers[r] = 0 /\ ~Locked(r)
    /\ \A r \in plan.shared[t] : r \notin held /\ ~LockedExclusively(r)

\* The flock of cache::prepare, taken by a lookup worker.
ActionFree(t) ==
    /\ foreign[plan.key[t]] = "free"
    /\ \A u \in Task \ {t} : ~(action[u] /\ plan.key[u] = plan.key[t])

-----------------------------------------------------------------------------
(* Effects shared by the visits. *)

Visit(phase, t) ==
    /\ pc = phase /\ t \in todo
    /\ todo' = todo \ {t}
    /\ UNCHANGED <<plan, pc, stopping, cancel, stalled, outcome, foreign>>

Fail(t) == failed' = (failed \/ t \notin plan.allow)

\* A live task reaches a terminal status: everything it owned is dropped.
Settle(t, s) ==
    /\ status' = [status EXCEPT ![t] = s]
    /\ stage' = [stage EXCEPT ![t] = "idle"]
    /\ work' = [work EXCEPT ![t] = "none"]
    /\ stop' = [stop EXCEPT ![t] = "none"]
    /\ armed' = [armed EXCEPT ![t] = {}]
    /\ due' = [due EXCEPT ![t] = {}]
    /\ action' = [action EXCEPT ![t] = FALSE]
    /\ Release(t)
    /\ UNCHANGED condSkipped

\* Mutant: a retried task keeps its resources while it waits.
BackOffHolding(t) ==
    /\ status' = [status EXCEPT ![t] = "Pending"]
    /\ stage' = [stage EXCEPT ![t] = "idle"]
    /\ work' = [work EXCEPT ![t] = "none"]
    /\ armed' = [armed EXCEPT ![t] = @ \cup {"retry"}]
    /\ due' = [due EXCEPT ![t] = @ \ {"retry"}]
    /\ UNCHANGED <<condSkipped, stop, locks>>

\* A live task goes back to Pending and may not be retried before the timer.
BackOff(t) ==
    /\ status' = [status EXCEPT ![t] = "Pending"]
    /\ stage' = [stage EXCEPT ![t] = "idle"]
    /\ work' = [work EXCEPT ![t] = "none"]
    /\ armed' = [armed EXCEPT ![t] = @ \cup {"retry"}]
    /\ due' = [due EXCEPT ![t] = @ \ {"retry"}]
    /\ Release(t)
    /\ UNCHANGED <<condSkipped, stop>>

\* The task moves to another list and keeps its slot, leases and action lock.
MoveTo(t, list) ==
    /\ status' = [status EXCEPT ![t] = "Running"]
    /\ stage' = [stage EXCEPT ![t] = list]
    /\ work' = [work EXCEPT ![t] = "busy"]
    /\ UNCHANGED <<condSkipped, stop, timers, locks, action>>

-----------------------------------------------------------------------------
(* The lookup pass: cache::lookup workers. *)

\* The stop a preparing or saving worker is under after this visit.
WorkerStop(t) ==
    IF stop[t] # "none" THEN stop[t]
    ELSE IF stopping /\ ~Finalizer(t) THEN "Cancelled"
    ELSE IF "task" \in due[t] THEN "TimedOut" ELSE "none"

StopWorker(t) ==
    /\ stop' = [stop EXCEPT ![t] = WorkerStop(t)]
    /\ UNCHANGED <<failed, status, condSkipped, stage, work, timers, locks, action>>

LookupHit(t) ==
    /\ work[t] = "hit"
    /\ \/ t \notin plan.products /\ Settle(t, "Succeeded") /\ UNCHANGED failed
       \/ t \in plan.products /\ MoveTo(t, "saving") /\ UNCHANGED failed
       \/ t \in plan.products /\ Settle(t, "Failed") /\ Fail(t)

\* Mutant: a miss starts the process without looking at the run again.
LookupMissStarts(t) ==
    /\ work[t] = "miss"
    /\ MoveTo(t, "running") /\ UNCHANGED failed

LookupMiss(t) ==
    /\ work[t] = "miss"
    /\ IF Aborting /\ ~Finalizer(t)
       THEN Settle(t, "Cancelled") /\ UNCHANGED failed
       ELSE \/ MoveTo(t, "running") /\ UNCHANGED failed
            \/ Settle(t, "Failed") /\ Fail(t)

LookupTaken(t) == work[t] = "taken" /\ BackOff(t) /\ UNCHANGED <<failed, action>>
LookupError(t) == work[t] = "error" /\ Settle(t, "Failed") /\ Fail(t)

VisitLookup(t) ==
    /\ Visit("lookup", t)
    /\ UNCHANGED made
    /\ \/ work[t] = "busy" /\ StopWorker(t)
       \/ /\ work[t] # "busy" /\ WorkerStop(t) # "none"
          /\ Settle(t, WorkerStop(t)) /\ Fail(t)
       \/ /\ WorkerStop(t) = "none"
          /\ LookupHit(t) \/ LookupMiss(t) \/ LookupTaken(t) \/ LookupError(t)

(* The publication pass: workflow::collect and Prepared::save workers. *)

Published(t) == IF WorkerStop(t) # "none" THEN WorkerStop(t)
                ELSE IF work[t] = "ok" THEN "Succeeded" ELSE "Failed"

VisitPublish(t) ==
    /\ Visit("publish", t)
    /\ UNCHANGED made
    /\ \/ work[t] = "busy" /\ StopWorker(t)
       \/ /\ work[t] # "busy"
          /\ Settle(t, Published(t))
          /\ IF Published(t) = "Succeeded" THEN UNCHANGED failed ELSE Fail(t)

-----------------------------------------------------------------------------
(* The reap pass: processes and native workers. *)

Retries(t, s) ==
    /\ s = "Failed" /\ work[t] = "retryable"
    /\ made[t] + 1 < plan.attempts[t]
    /\ ~cancel /\ ~stalled
    /\ Finalizer(t) \/ ~plan.failFast \/ ~failed

Complete(t, s) ==
    /\ made' = [made EXCEPT ![t] = IF t \in plan.service THEN @ ELSE @ + 1]
    /\ IF Retries(t, s) THEN BackOff(t) /\ UNCHANGED <<failed, action>>
       ELSE IF s = "Succeeded" /\ (action[t] \/ t \in plan.products)
       THEN \/ MoveTo(t, "saving") /\ UNCHANGED failed
            \/ Settle(t, "Failed") /\ Fail(t)
       ELSE /\ Settle(t, s)
            /\ IF s = "Succeeded" THEN UNCHANGED failed ELSE Fail(t)

Killed(t) == \/ (stopping \/ ServiceFailed(t)) /\ ~Finalizer(t)
             \/ "task" \in due[t]

VisitTask(t) ==
    /\ Visit("reap", t) /\ t \notin plan.service
    /\ \/ Killed(t) /\ Complete(t, IF "task" \in due[t] THEN "TimedOut" ELSE "Cancelled")
       \/ /\ ~Killed(t) /\ work[t] # "busy"
          /\ Complete(t, IF work[t] = "ok" THEN "Succeeded" ELSE "Failed")
       \/ /\ ~Killed(t) /\ work[t] = "busy"
          /\ UNCHANGED <<failed, tasks, timers, locks, action>>

\* Why a service that is alive and not shutting down stops, if it does.
\* `health` is what Supervisor::poll returns, when it is asked.
ServiceStop(s, health) ==
    IF stopping \/ ServiceFailed(s)
    THEN IF stalled THEN "Failed" ELSE "Cancelled"
    ELSE IF due[s] \cap {"task", "startup"} # {} THEN "TimedOut"
    ELSE IF status[s] = "Ready" /\ ~InUse(s) THEN "Succeeded"
    ELSE IF health = "Failed" THEN "Failed" ELSE "none"

\* Mutant: the signal does not wait for the consumers.
SignalNow(s) ==
    /\ armed' = [armed EXCEPT ![s] = @ \cup {"shutdown"}]
    /\ UNCHANGED due

\* SIGTERM goes to the process group once no consumer needs the service.
Signal(s) ==
    /\ armed' = [armed EXCEPT ![s] = IF InUse(s) THEN @ ELSE @ \cup {"shutdown"}]
    /\ UNCHANGED due

ServiceExited(s) ==
    /\ work[s] # "busy"
    /\ Complete(s, IF work[s] = "lost" \/ stop[s] = "none" THEN "Failed" ELSE stop[s])

ServiceRuns(s, health) ==
    /\ work[s] = "busy" /\ stop[s] = "none" /\ ServiceStop(s, health) = "none"
    /\ \/ /\ health = "Ready" /\ status[s] = "Running"
          /\ status' = [status EXCEPT ![s] = "Ready"]
          /\ armed' = [armed EXCEPT ![s] = @ \ {"startup"}]
       \/ health = "Waiting" /\ UNCHANGED <<status, armed>>
    /\ UNCHANGED <<failed, condSkipped, made, stage, work, stop, due, locks, action>>

ServiceStops(s, health) ==
    LET why == ServiceStop(s, health) IN
    /\ work[s] = "busy" /\ stop[s] = "none" /\ why # "none"
    /\ stop' = [stop EXCEPT ![s] = why]
    /\ status' = [status EXCEPT ![s] = "Stopping"]
    /\ failed' = (failed \/ why # "Succeeded")
    /\ Signal(s)
    /\ UNCHANGED <<condSkipped, made, stage, work, locks, action>>

ServiceShutsDown(s) ==
    /\ work[s] = "busy" /\ stop[s] # "none"
    /\ IF "shutdown" \in due[s] THEN Complete(s, stop[s])
       ELSE Signal(s) /\ UNCHANGED <<failed, tasks, locks, action>>

VisitService(s) ==
    /\ Visit("reap", s) /\ s \in plan.service
    /\ \/ ServiceExited(s)
       \/ \E health \in {"Waiting", "Ready", "Failed"} :
             ServiceRuns(s, health) \/ ServiceStops(s, health)
       \/ ServiceShutsDown(s)

-----------------------------------------------------------------------------
(* The dispatch sweep over graph.order. *)

RunningTasks(S) == {t \in S : stage[t] = "running"}

HasSlot(t) ==
    IF t \in plan.service
    THEN Cardinality(RunningTasks(plan.service)) < plan.maxServices
    ELSE Cardinality(Live \ plan.service) < plan.jobs

BackingOff(t) == "retry" \in armed[t] \ due[t]

\* The else-if chain of the sweep, down to the admission attempt.
PendingVerdict(t) ==
    IF ServiceFailed(t) /\ ~Finalizer(t) THEN "abandon"
    ELSE IF Gate(t) = "Skip" THEN "skip"
    ELSE IF stalled \/ (Aborting /\ ~Finalizer(t)) THEN "cancel"
    ELSE IF due[t] \cap {"task", "wait"} # {} THEN "expire"
    ELSE IF Gate(t) = "Ready" /\ HasSlot(t) /\ ~BackingOff(t) THEN "admit"
    ELSE "none"

\* Mutant: the sweep passes only over tasks that are in a list.
VerdictAgain(t) == IF t \in Live THEN "none" ELSE PendingVerdict(t)
Verdict(t) == IF status[t] # "Pending" THEN "none" ELSE PendingVerdict(t)

\* A Pending task reaches a terminal status; retry_actions keeps its lock.
Drop(t, s) ==
    /\ status' = [status EXCEPT ![t] = s]
    /\ armed' = [armed EXCEPT ![t] = {}]
    /\ due' = [due EXCEPT ![t] = {}]
    /\ UNCHANGED <<stage, work, stop, made, locks>>

VisitDispatch(t) ==
    /\ Visit("dispatch", t)
    /\ \A u \in todo : plan.rank[t] <= plan.rank[u]

DispatchNothing(t) ==
    /\ VisitDispatch(t) /\ Verdict(t) = "none"
    /\ UNCHANGED <<failed, tasks, timers, locks, action>>

DispatchSkip(t) ==
    /\ VisitDispatch(t) /\ Verdict(t) \in {"abandon", "skip"}
    /\ condSkipped' = [condSkipped EXCEPT ![t] = Verdict(t) = "skip" /\ ConditionSkipped(t)]
    /\ Drop(t, "Skipped")
    /\ UNCHANGED <<failed, action>>

DispatchCancel(t) ==
    /\ VisitDispatch(t) /\ Verdict(t) = "cancel"
    /\ Drop(t, "Cancelled")
    /\ UNCHANGED <<failed, condSkipped, action>>

\* A deadline passed while the task waited to retry or for a resource.
DispatchExpire(t) ==
    /\ VisitDispatch(t) /\ Verdict(t) = "expire"
    /\ Drop(t, "TimedOut") /\ Fail(t)
    /\ UNCHANGED <<condSkipped, action>>

DispatchBusy(t) ==
    /\ VisitDispatch(t) /\ Verdict(t) = "admit" /\ ~Acquirable(t)
    /\ UNCHANGED <<condSkipped, action>>
    /\ \/ /\ armed' = [armed EXCEPT ![t] =
                         @ \cup {"retry"} \cup (IF t \in plan.waitLimited THEN {"wait"} ELSE {})]
          /\ due' = [due EXCEPT ![t] = @ \ {"retry"}]
          /\ UNCHANGED <<failed, status, stage, work, stop, made, locks>>
       \/ t \in plan.waitLimited /\ Drop(t, "TimedOut") /\ Fail(t)

\* The lease directory, the environment or a binding cannot be read.
DispatchError(t) ==
    /\ VisitDispatch(t) /\ Verdict(t) = "admit"
    /\ Drop(t, "Failed") /\ Fail(t)
    /\ UNCHANGED <<condSkipped, action>>

NeedsLookup(t) == t \in plan.cached /\ ~action[t]

\* The leases are taken and the first deadline starts: a lookup worker, a
\* process or a native worker is spawned.
DispatchStart(t) ==
    /\ VisitDispatch(t) /\ Verdict(t) = "admit" /\ Acquirable(t)
    /\ status' = [status EXCEPT ![t] = "Running"]
    /\ stage' = [stage EXCEPT ![t] = IF NeedsLookup(t) THEN "preparing" ELSE "running"]
    /\ work' = [work EXCEPT ![t] = "busy"]
    /\ armed' = [armed EXCEPT ![t] = (@ \ {"wait", "retry"})
                    \cup (IF t \in plan.timed THEN {"task"} ELSE {})
                    \cup (IF t \in plan.service THEN {"startup"} ELSE {})]
    /\ due' = [due EXCEPT ![t] = @ \ {"wait", "retry"}]
    /\ Reserve(t)
    /\ UNCHANGED <<failed, condSkipped, made, stop, action>>

\* The worker or process cannot be spawned: leases and action are dropped.
DispatchSpawnError(t) ==
    /\ VisitDispatch(t) /\ Verdict(t) = "admit" /\ Acquirable(t)
    /\ Drop(t, "Failed") /\ Fail(t)
    /\ action' = [action EXCEPT ![t] = FALSE]
    /\ UNCHANGED condSkipped

-----------------------------------------------------------------------------
(* The pass. *)

BeginPass ==
    /\ pc = "wait"
    /\ pc' = "lookup"
    /\ stopping' = (stalled \/ Aborting)
    /\ todo' = {t \in Task : stage[t] = "preparing"}
    /\ UNCHANGED <<plan, cancel, failed, stalled, outcome, tasks, timers, locks, action, foreign>>

NextPhase ==
    /\ todo = {}
    /\ \/ /\ pc = "lookup" /\ pc' = "publish"
          /\ todo' = {t \in Task : stage[t] = "saving"}
       \/ /\ pc = "publish" /\ pc' = "reap"
          /\ todo' = RunningTasks(Task)
       \/ pc = "reap" /\ pc' = "dispatch" /\ todo' = Task
       \/ pc = "dispatch" /\ pc' = "check" /\ todo' = {}
    /\ UNCHANGED <<plan, stopping, cancel, failed, stalled, outcome,
                   tasks, timers, locks, action, foreign>>

\* Ready daemons occupy everything their pending consumers need.
Stalls ==
    LET runs == RunningTasks(Task) IN
    /\ runs # {} /\ runs = Live
    /\ \A s \in runs : status[s] = "Ready" /\ InUse(s)
    /\ \E t \in Task : status[t] = "Pending"
    /\ ~ \E t \in Task :
          /\ status[t] = "Pending" /\ Gate(t) = "Ready"
          /\ \A r \in plan.excl[t] : r \notin held /\ readers[r] = 0
          /\ \A r \in plan.shared[t] : r \notin held
          /\ t \in plan.service => Cardinality(runs) < plan.maxServices

Outcome ==
    IF \A t \in Task : \/ status[t] = "Succeeded" \/ condSkipped[t]
                       \/ t \in plan.allow /\ status[t] \in {"Failed", "TimedOut"}
    THEN "succeeded" ELSE IF cancel THEN "cancelled" ELSE "failed"

Check ==
    /\ pc = "check"
    /\ stalled' = (stalled \/ Stalls)
    /\ IF \A t \in Task : Ended(t)
       THEN pc' = "done" /\ outcome' = Outcome
       ELSE pc' = "wait" /\ UNCHANGED outcome
    /\ UNCHANGED <<plan, todo, stopping, cancel, failed, tasks, timers, locks, action, foreign>>

\* The journal cannot be written: the locals are dropped, which kills every
\* process group, joins every worker and unlocks every file.
Abort ==
    /\ pc = "check"
    /\ pc' = "aborted"
    /\ stage' = [t \in Task |-> "idle"]
    /\ work' = [t \in Task |-> "none"]
    /\ held' = {} /\ readers' = [r \in Resource |-> 0]
    /\ leases' = [t \in Task |-> {}]
    /\ action' = [t \in Task |-> FALSE]
    /\ UNCHANGED <<plan, todo, stopping, cancel, failed, stalled, outcome,
                   status, condSkipped, made, stop, timers, foreign>>

-----------------------------------------------------------------------------
(* The environment. *)

Over == pc \in {"done", "aborted"}

Cancel ==
    /\ ~cancel /\ ~Over
    /\ cancel' = TRUE
    /\ UNCHANGED <<plan, pc, todo, stopping, failed, stalled, outcome,
                   tasks, timers, locks, action, foreign>>

Elapse(t, k) ==
    /\ ~Over /\ k \in armed[t] \ due[t]
    /\ due' = [due EXCEPT ![t] = @ \cup {k}]
    /\ UNCHANGED <<control, tasks, armed, locks, action, foreign>>

\* The process exits, or the worker thread sends its result.
Report(t, result) ==
    /\ ~Over /\ work[t] = "busy"
    /\ work' = [work EXCEPT ![t] = result]
    /\ UNCHANGED <<control, status, condSkipped, made, stage, stop, timers, locks, foreign>>

\* cache::prepare locks the action; restore and clean_outputs run under it.
LookupLock(t) ==
    /\ ~Over /\ stage[t] = "preparing" /\ work[t] = "busy"
    /\ ~action[t] /\ ActionFree(t)
    /\ action' = [action EXCEPT ![t] = TRUE]
    /\ UNCHANGED <<control, tasks, timers, locks, foreign>>

LookupDone(t) ==
    /\ stage[t] = "preparing"
    /\ \/ \E result \in {"hit", "miss"} : action[t] /\ Report(t, result) /\ UNCHANGED action
       \/ ~action[t] /\ ~ActionFree(t) /\ Report(t, "taken") /\ UNCHANGED action
       \/ Report(t, "error") /\ action' = [action EXCEPT ![t] = FALSE]

ProcessDone(t) ==
    /\ stage[t] = "running" /\ UNCHANGED action
    /\ \E result \in IF t \in plan.service THEN {"ok", "lost"}
                     ELSE {"ok", "retryable", "fatal"} : Report(t, result)

PublicationDone(t) ==
    /\ stage[t] = "saving"
    /\ \E result \in {"ok", "error"} : Report(t, result)
    /\ action' = [action EXCEPT ![t] = FALSE]

\* Another run takes or returns a lock file this run also uses.
ForeignTake(r, mode) ==
    /\ ~Over /\ r \in plan.contended /\ foreign[r] = "free"
    /\ IF r \in Key
       THEN mode = "exclusive" /\ \A t \in Task : ~(action[t] /\ plan.key[t] = r)
       ELSE ~LockedExclusively(r) /\ (mode = "exclusive" => ~Locked(r))
    /\ foreign' = [foreign EXCEPT ![r] = mode]
    /\ UNCHANGED <<control, tasks, timers, locks, action>>

ForeignReturn(r) ==
    /\ ~Over /\ foreign[r] # "free"
    /\ foreign' = [foreign EXCEPT ![r] = "free"]
    /\ UNCHANGED <<control, tasks, timers, locks, action>>

Finished == Over /\ UNCHANGED vars

-----------------------------------------------------------------------------
Init ==
    /\ plan \in Plans
    /\ pc = "wait" /\ todo = {} /\ outcome = "none"
    /\ stopping = FALSE /\ cancel = FALSE /\ failed = FALSE /\ stalled = FALSE
    /\ status = [t \in Task |-> "Pending"]
    /\ condSkipped = [t \in Task |-> FALSE]
    /\ made = [t \in Task |-> 0]
    /\ stage = [t \in Task |-> "idle"]
    /\ work = [t \in Task |-> "none"]
    /\ stop = [t \in Task |-> "none"]
    /\ armed = [t \in Task |-> {}] /\ due = [t \in Task |-> {}]
    /\ held = {} /\ readers = [r \in Resource |-> 0]
    /\ leases = [t \in Task |-> {}]
    /\ action = [t \in Task |-> FALSE]
    /\ foreign = [r \in Resource \cup Key |-> "free"]

Dispatch(t) ==
    \/ DispatchNothing(t) \/ DispatchSkip(t) \/ DispatchCancel(t)
    \/ DispatchExpire(t) \/ DispatchBusy(t) \/ DispatchError(t)
    \/ DispatchStart(t) \/ DispatchSpawnError(t)

Pass ==
    \/ BeginPass \/ NextPhase \/ Check \/ Abort
    \/ \E t \in Task : \/ VisitLookup(t) \/ VisitPublish(t)
                       \/ VisitTask(t) \/ VisitService(t) \/ Dispatch(t)

Environment ==
    \/ Cancel
    \/ \E t \in Task : \/ LookupLock(t) \/ LookupDone(t) \/ ProcessDone(t) \/ PublicationDone(t)
                       \/ \E k \in Timer : Elapse(t, k)
    \/ \E r \in Resource \cup Key : \/ ForeignReturn(r)
                                    \/ \E mode \in {"shared", "exclusive"} : ForeignTake(r, mode)

Next == Pass \/ Environment \/ Finished
Spec == Init /\ [][Next]_vars

\* What the scheduler can rely upon: its thread runs, the clock advances and
\* worker threads return.
WorkersReturn ==
    \A t \in Task : WF_vars(LookupDone(t)) /\ WF_vars(PublicationDone(t))
TimersElapse == \A t \in Task, k \in Timer : WF_vars(Elapse(t, k))

FairSpec == Spec /\ WF_vars(Pass) /\ WorkersReturn /\ TimersElapse

\* What it cannot: the processes of ordinary tasks exit by themselves, and
\* other runs leave the locks alone in the end, since a lock that is polled for
\* may be taken again each time.  Nothing is assumed of services.
ProcessesExit == \A t \in Task : WF_vars(t \notin plan.service /\ ProcessDone(t))
LocksReturn == <>[](\A r \in Resource \cup Key : foreign[r] = "free")

-----------------------------------------------------------------------------
(* Properties. *)

TypeOK ==
    /\ plan \in Plans /\ pc \in Phase /\ todo \subseteq Task
    /\ stopping \in BOOLEAN /\ cancel \in BOOLEAN
    /\ failed \in BOOLEAN /\ stalled \in BOOLEAN
    /\ outcome \in {"none", "succeeded", "cancelled", "failed"}
    /\ status \in [Task -> Status]
    /\ condSkipped \in [Task -> BOOLEAN]
    /\ made \in [Task -> Nat]
    /\ stage \in [Task -> Stage]
    /\ work \in [Task -> Work]
    /\ stop \in [Task -> {"none"} \cup Terminal]
    /\ armed \in [Task -> SUBSET Timer] /\ due \in [Task -> SUBSET Timer]
    /\ held \subseteq Resource /\ readers \in [Resource -> Nat]
    /\ leases \in [Task -> SUBSET Resource]
    /\ action \in [Task -> BOOLEAN]
    /\ foreign \in [Resource \cup Key -> {"free", "shared", "exclusive"}]

\* The in-process sets and the lock files always describe exactly the tasks
\* that are preparing, running or saving: no path through the pass leaks a
\* lease or releases one twice.
Bookkeeping ==
    /\ held = UNION {plan.excl[t] : t \in Live}
    /\ \A r \in Resource :
          readers[r] = Cardinality({t \in Live : r \in plan.shared[t]})
    /\ \A t \in Task : leases[t] = IF t \in Live
                                   THEN plan.excl[t] \cup plan.shared[t] ELSE {}

\* No two tasks, of this run or of another, use a resource together unless
\* all of them share it.
MutualExclusion ==
    \A t \in Live :
       /\ \A u \in Live \ {t} : plan.excl[t] \cap (plan.excl[u] \cup plan.shared[u]) = {}
       /\ \A r \in plan.excl[t] : foreign[r] = "free"
       /\ \A r \in plan.shared[t] : foreign[r] # "exclusive"

\* At most `jobs` tasks and `max_services` services are live: a task keeps
\* its slot from the lookup to the publication, and a retry gives it back.
Capacity ==
    /\ Cardinality(Live \ plan.service) <= plan.jobs
    /\ Cardinality(RunningTasks(plan.service)) <= plan.maxServices

\* A service is signalled only after every task that depends on it has ended,
\* finalizers included, and none of them comes back.
NoEarlySignal ==
    \A s \in plan.service : "shutdown" \in armed[s] => ~InUse(s)

\* No two tasks hold the lock of one action, and no other run holds it too.
ActionExclusion ==
    \A t \in plan.cached : action[t] =>
       /\ foreign[plan.key[t]] = "free"
       /\ \A u \in Task \ {t} : action[u] => plan.key[u] # plan.key[t]

\* The fail-fast flag and the published outcome agree: a run reported as
\* succeeded never had a failure and never stalled, and one reported as failed
\* had a failure, or a service whose conditions skipped it: its consumers are
\* then abandoned as if it had failed, and are not skipped by condition.
OutcomeAgrees ==
    pc = "done" => /\ outcome = "succeeded" => ~failed /\ ~stalled
                   /\ outcome = "failed" => failed \/ \E s \in plan.service : condSkipped[s]

\* A run that is neither cancelled nor has a failure is reported as succeeded:
\* a task that its condition skips, or whose prerequisites were skipped so,
\* fails no run (tests/workflow.rs), and the sweep abandons the consumers "of a
\* failed service" (the comment in execute_compiled_graph).  Checked against
\* plans in which a condition skips a service.
OnlyFailuresFail == pc = "done" /\ outcome = "failed" => failed

\* What the schedule of a run owes besides its leases, in one invariant.
RunsAreRight == Capacity /\ NoEarlySignal /\ ActionExclusion /\ OutcomeAgrees

\* Once the run is cancelled or fails fast, no process is started except for a
\* finalizer, and none at all when the run is stalled: not by the sweep, and
\* not by a cache lookup that was under way.
NoStartWhileStopping ==
    [][\A t \in Task : /\ stopping \/ Aborting
                       /\ stage[t] # "running" /\ stage'[t] = "running"
                       => Finalizer(t) /\ ~stalled]_vars

\* A terminal status is never left: not by a retry, a late worker result, a
\* publication or the sweep.
TerminalIsFinal ==
    [][\A t \in Task : Ended(t) => status'[t] = status[t]]_vars

\* Every run ends if its ordinary processes do and the locks are left, also
\* when services never exit, never become ready or starve their consumers.
Termination == ProcessesExit /\ LocksReturn => <>Over

\* A cancelled run ends even if no process ever exits by itself.
CancelTerminates == cancel ~> Over

\* Both ways in which a run must come to an end.
Ends == Termination /\ CancelTerminates
=============================================================================
