--------------------------- MODULE SchedulerProofs ---------------------------
(***************************************************************************)
(* What holds of Scheduler for every finite set of tasks, every set of     *)
(* resources and every set of valid plans.  TLC evaluates the same         *)
(* formulas on the plans of MCScheduler.                                   *)
(***************************************************************************)
EXTENDS Scheduler, FiniteSetTheorems, TLAPS

\* The plan of a behaviour is one that compile_graph accepts.
LEMMA PlanIsTyped == TypeOK => PlanType(plan)
  BY PlansAssumption DEF TypeOK, ValidPlan

\* A terminal status is a status; used wherever a task is settled.
LEMMA SettleTyped ==
    ASSUME TypeOK, NEW t \in Task, NEW s \in Terminal, Settle(t, s)
    PROVE  /\ status' \in [Task -> Status] /\ stage' \in [Task -> Stage]
           /\ work' \in [Task -> Work] /\ stop' \in [Task -> {"none"} \cup Terminal]
           /\ armed' \in [Task -> SUBSET Timer] /\ due' \in [Task -> SUBSET Timer]
           /\ action' \in [Task -> BOOLEAN] /\ condSkipped' \in [Task -> BOOLEAN]
           /\ held' \subseteq Resource /\ readers' \in [Resource -> Nat]
           /\ leases' \in [Task -> SUBSET Resource]
  BY DEF TypeOK, Settle, Release, Status, Stage, Work

LEMMA BackOffTyped ==
    ASSUME TypeOK, NEW t \in Task, BackOff(t)
    PROVE  /\ status' \in [Task -> Status] /\ stage' \in [Task -> Stage]
           /\ work' \in [Task -> Work] /\ stop' \in [Task -> {"none"} \cup Terminal]
           /\ armed' \in [Task -> SUBSET Timer] /\ due' \in [Task -> SUBSET Timer]
           /\ condSkipped' \in [Task -> BOOLEAN]
           /\ held' \subseteq Resource /\ readers' \in [Resource -> Nat]
           /\ leases' \in [Task -> SUBSET Resource]
  BY DEF TypeOK, BackOff, Release, Status, Stage, Work, Timer

LEMMA MoveToTyped ==
    ASSUME TypeOK, NEW t \in Task, NEW list \in Stage, MoveTo(t, list)
    PROVE  /\ status' \in [Task -> Status] /\ stage' \in [Task -> Stage]
           /\ work' \in [Task -> Work] /\ stop' \in [Task -> {"none"} \cup Terminal]
           /\ armed' \in [Task -> SUBSET Timer] /\ due' \in [Task -> SUBSET Timer]
           /\ action' \in [Task -> BOOLEAN] /\ condSkipped' \in [Task -> BOOLEAN]
           /\ held' \subseteq Resource /\ readers' \in [Resource -> Nat]
           /\ leases' \in [Task -> SUBSET Resource]
  BY DEF TypeOK, MoveTo, Status, Work, timers, locks

LEMMA CompleteTyped ==
    ASSUME TypeOK, NEW t \in Task, NEW s \in Terminal, Complete(t, s)
    PROVE  /\ status' \in [Task -> Status] /\ stage' \in [Task -> Stage]
           /\ work' \in [Task -> Work] /\ stop' \in [Task -> {"none"} \cup Terminal]
           /\ armed' \in [Task -> SUBSET Timer] /\ due' \in [Task -> SUBSET Timer]
           /\ action' \in [Task -> BOOLEAN] /\ condSkipped' \in [Task -> BOOLEAN]
           /\ held' \subseteq Resource /\ readers' \in [Resource -> Nat]
           /\ leases' \in [Task -> SUBSET Resource]
           /\ made' \in [Task -> Nat] /\ failed' \in BOOLEAN
<1>1. made' \in [Task -> Nat]
  BY DEF Complete, TypeOK
<1>2. CASE BackOff(t) /\ UNCHANGED <<failed, action>>
  BY <1>1, <1>2, BackOffTyped DEF TypeOK
<1>3. CASE MoveTo(t, "saving") /\ UNCHANGED failed
  BY <1>1, <1>3, MoveToTyped DEF TypeOK, Stage
<1>4. CASE Settle(t, "Failed") /\ Fail(t)
  <2>1. failed' \in BOOLEAN
    BY <1>4 DEF Fail, TypeOK
  <2> QED
    BY <1>1, <1>4, <2>1, SettleTyped DEF Terminal
<1>5. CASE Settle(t, s) /\ (UNCHANGED failed \/ Fail(t))
  <2>1. failed' \in BOOLEAN
    BY <1>5 DEF Fail, TypeOK
  <2> QED
    BY <1>1, <1>5, <2>1, SettleTyped
<1> QED
  BY <1>2, <1>3, <1>4, <1>5 DEF Complete

-----------------------------------------------------------------------------
(* Type correctness. *)

\* Everything a visit leaves alone is typed: the rest is the visit's own.
LEMMA VisitTyped ==
    ASSUME TypeOK, NEW phase, NEW t \in Task, Visit(phase, t),
           failed' \in BOOLEAN, made' \in [Task -> Nat],
           status' \in [Task -> Status], stage' \in [Task -> Stage],
           work' \in [Task -> Work], stop' \in [Task -> {"none"} \cup Terminal],
           armed' \in [Task -> SUBSET Timer], due' \in [Task -> SUBSET Timer],
           action' \in [Task -> BOOLEAN], condSkipped' \in [Task -> BOOLEAN],
           held' \subseteq Resource, readers' \in [Resource -> Nat],
           leases' \in [Task -> SUBSET Resource]
    PROVE  TypeOK'
  BY DEF TypeOK, Visit

LEMMA LookupTyped ==
    ASSUME TypeOK, NEW t \in Task, VisitLookup(t)
    PROVE  TypeOK'
<1>1. Visit("lookup", t) /\ made' \in [Task -> Nat]
  BY DEF VisitLookup, TypeOK
<1>2. CASE StopWorker(t)
  <2>1. WorkerStop(t) \in {"none"} \cup Terminal
    BY DEF WorkerStop, TypeOK, Terminal
  <2> QED
    BY <1>1, <1>2, <2>1, VisitTyped DEF StopWorker, TypeOK, timers, locks
<1>3. CASE \E s \in Terminal : Settle(t, s) /\ (UNCHANGED failed \/ Fail(t))
  <2>1. failed' \in BOOLEAN
    BY <1>3 DEF Fail, TypeOK
  <2> QED
    BY <1>1, <1>3, <2>1, SettleTyped, VisitTyped
<1>4. CASE \E list \in Stage : MoveTo(t, list) /\ UNCHANGED failed
  <2>1. failed' \in BOOLEAN
    BY <1>4 DEF TypeOK
  <2> QED
    BY <1>1, <1>4, <2>1, MoveToTyped, VisitTyped
<1>5. CASE BackOff(t) /\ UNCHANGED <<failed, action>>
  <2>1. failed' \in BOOLEAN /\ action' \in [Task -> BOOLEAN]
    BY <1>5 DEF TypeOK
  <2> QED
    BY <1>1, <1>5, <2>1, BackOffTyped, VisitTyped
<1>6. WorkerStop(t) # "none" => WorkerStop(t) \in Terminal
  BY DEF WorkerStop, TypeOK, Terminal
<1>7. {"Succeeded", "Failed", "Cancelled"} \subseteq Terminal /\ {"saving", "running"} \subseteq Stage
  BY DEF Terminal, Stage
<1> QED
  BY <1>2, <1>3, <1>4, <1>5, <1>6, <1>7
  DEF VisitLookup, LookupHit, LookupMiss, LookupTaken, LookupError

LEMMA PublishTyped ==
    ASSUME TypeOK, NEW t \in Task, VisitPublish(t)
    PROVE  TypeOK'
<1>1. Visit("publish", t) /\ made' \in [Task -> Nat]
  BY DEF VisitPublish, TypeOK
<1>2. WorkerStop(t) \in {"none"} \cup Terminal /\ Published(t) \in Terminal
  BY DEF WorkerStop, Published, TypeOK, Terminal
<1>3. CASE StopWorker(t)
  BY <1>1, <1>2, <1>3, VisitTyped DEF StopWorker, TypeOK, timers, locks
<1>4. CASE Settle(t, Published(t)) /\ (UNCHANGED failed \/ Fail(t))
  <2>1. failed' \in BOOLEAN
    BY <1>4 DEF Fail, TypeOK
  <2> QED
    BY <1>1, <1>2, <1>4, <2>1, SettleTyped, VisitTyped
<1> QED
  BY <1>3, <1>4 DEF VisitPublish

LEMMA TaskTyped ==
    ASSUME TypeOK, NEW t \in Task, VisitTask(t)
    PROVE  TypeOK'
<1>1. Visit("reap", t)
  BY DEF VisitTask
<1>2. CASE \E s \in Terminal : Complete(t, s)
  BY <1>1, <1>2, CompleteTyped, VisitTyped
<1>3. CASE UNCHANGED <<failed, tasks, timers, locks, action>>
  BY <1>1, <1>3, VisitTyped DEF TypeOK, tasks, timers, locks
<1>4. {"Succeeded", "Failed", "Cancelled", "TimedOut"} \subseteq Terminal
  BY DEF Terminal
<1> QED
  BY <1>2, <1>3, <1>4 DEF VisitTask

LEMMA ServiceTyped ==
    ASSUME TypeOK, NEW t \in Task, VisitService(t)
    PROVE  TypeOK'
<1>1. Visit("reap", t)
  BY DEF VisitService
<1>2. CASE \E s \in Terminal : Complete(t, s)
  BY <1>1, <1>2, CompleteTyped, VisitTyped
<1>3. stop[t] \in {"none"} \cup Terminal
  BY DEF TypeOK
<1>4. CASE ServiceExited(t)
  BY <1>2, <1>3, <1>4 DEF ServiceExited, Terminal
<1>5. ASSUME Signal(t)
      PROVE  armed' \in [Task -> SUBSET Timer] /\ due' \in [Task -> SUBSET Timer]
  BY <1>5 DEF Signal, TypeOK, Timer
<1>6. CASE ServiceShutsDown(t)
  BY <1>1, <1>2, <1>3, <1>5, <1>6, VisitTyped DEF ServiceShutsDown, TypeOK, tasks, locks
<1>7. ASSUME NEW health \in {"Waiting", "Ready", "Failed"}, ServiceRuns(t, health)
      PROVE  TypeOK'
  <2>1. status' \in [Task -> Status] /\ armed' \in [Task -> SUBSET Timer]
    BY <1>7 DEF ServiceRuns, TypeOK, Status
  <2> QED
    BY <1>1, <1>7, <2>1, VisitTyped DEF ServiceRuns, TypeOK, locks
<1>8. ASSUME NEW health \in {"Waiting", "Ready", "Failed"}, ServiceStops(t, health)
      PROVE  TypeOK'
  <2>1. ServiceStop(t, health) \in {"none"} \cup Terminal
    BY DEF ServiceStop, Terminal
  <2>2. /\ stop' \in [Task -> {"none"} \cup Terminal]
        /\ status' \in [Task -> Status] /\ failed' \in BOOLEAN
    BY <1>8, <2>1 DEF ServiceStops, TypeOK, Status
  <2> QED
    BY <1>1, <1>5, <1>8, <2>2, VisitTyped DEF ServiceStops, TypeOK, locks
<1> QED
  BY <1>4, <1>6, <1>7, <1>8 DEF VisitService

LEMMA DropTyped ==
    ASSUME TypeOK, NEW t \in Task, NEW s \in Terminal, Drop(t, s)
    PROVE  /\ status' \in [Task -> Status] /\ stage' \in [Task -> Stage]
           /\ work' \in [Task -> Work] /\ stop' \in [Task -> {"none"} \cup Terminal]
           /\ armed' \in [Task -> SUBSET Timer] /\ due' \in [Task -> SUBSET Timer]
           /\ held' \subseteq Resource /\ readers' \in [Resource -> Nat]
           /\ leases' \in [Task -> SUBSET Resource] /\ made' \in [Task -> Nat]
  BY DEF TypeOK, Drop, Status, locks

LEMMA DispatchTyped ==
    ASSUME TypeOK, NEW t \in Task, Dispatch(t)
    PROVE  TypeOK'
<1> USE DEF VisitDispatch
<1>0. {"Skipped", "Cancelled", "TimedOut", "Failed"} \subseteq Terminal
  BY DEF Terminal
<1>1. CASE DispatchNothing(t)
  BY <1>1, VisitTyped DEF DispatchNothing, TypeOK, tasks, timers, locks
<1>2. CASE DispatchSkip(t)
  <2>1. condSkipped' \in [Task -> BOOLEAN]
    <3>1. (Verdict(t) = "skip" /\ ConditionSkipped(t)) \in BOOLEAN
      OBVIOUS
    <3> QED
      BY <1>2, <3>1 DEF DispatchSkip, TypeOK
  <2>2. Drop(t, "Skipped")
    BY <1>2 DEF DispatchSkip
  <2> QED
    BY <1>0, <1>2, <2>1, <2>2, DropTyped, VisitTyped DEF DispatchSkip, TypeOK
<1>3. CASE DispatchCancel(t)
  BY <1>0, <1>3, DropTyped, VisitTyped DEF DispatchCancel, TypeOK
<1>4. CASE DispatchExpire(t)
  BY <1>0, <1>4, DropTyped, VisitTyped DEF DispatchExpire, Fail, TypeOK
<1>5. CASE DispatchBusy(t)
  <2>1. CASE Drop(t, "TimedOut") /\ Fail(t)
    BY <1>0, <1>5, <2>1, DropTyped, VisitTyped DEF DispatchBusy, Fail, TypeOK
  <2>2. CASE ~(Drop(t, "TimedOut") /\ Fail(t))
    <3>1. armed' \in [Task -> SUBSET Timer] /\ due' \in [Task -> SUBSET Timer]
      BY <1>5, <2>2 DEF DispatchBusy, TypeOK, Timer
    <3> QED
      BY <1>5, <2>2, <3>1, VisitTyped DEF DispatchBusy, TypeOK, locks
  <2> QED
    BY <2>1, <2>2
<1>6. CASE DispatchError(t)
  BY <1>0, <1>6, DropTyped, VisitTyped DEF DispatchError, Fail, TypeOK
<1>7. CASE DispatchStart(t)
  <2>1. /\ status' \in [Task -> Status] /\ stage' \in [Task -> Stage]
        /\ work' \in [Task -> Work]
    BY <1>7 DEF DispatchStart, TypeOK, Status, Stage, Work
  <2>2. armed' \in [Task -> SUBSET Timer] /\ due' \in [Task -> SUBSET Timer]
    BY <1>7 DEF DispatchStart, TypeOK, Timer
  <2>3. /\ held' \subseteq Resource /\ readers' \in [Resource -> Nat]
        /\ leases' \in [Task -> SUBSET Resource]
    BY <1>7, PlanIsTyped DEF DispatchStart, Reserve, TypeOK, PlanType
  <2> QED
    BY <1>7, <2>1, <2>2, <2>3, VisitTyped DEF DispatchStart, TypeOK
<1>8. CASE DispatchSpawnError(t)
  BY <1>0, <1>8, DropTyped, VisitTyped DEF DispatchSpawnError, Fail, TypeOK
<1> QED
  BY <1>1, <1>2, <1>3, <1>4, <1>5, <1>6, <1>7, <1>8 DEF Dispatch

\* A report only changes the work of its task.
LEMMA ReportTyped ==
    ASSUME TypeOK, NEW t \in Task, NEW result \in Work, Report(t, result),
           action' \in [Task -> BOOLEAN]
    PROVE  TypeOK'
  BY DEF Report, TypeOK, control, timers, locks

LEMMA EnvironmentTyped ==
    ASSUME TypeOK, Environment
    PROVE  TypeOK'
<1>1. CASE Cancel
  BY <1>1 DEF Cancel, TypeOK, tasks, timers, locks
<1>2. ASSUME NEW t \in Task, LookupLock(t)
      PROVE  TypeOK'
  BY <1>2 DEF LookupLock, TypeOK, control, tasks, timers, locks
<1>3. ASSUME NEW t \in Task, LookupDone(t) \/ ProcessDone(t) \/ PublicationDone(t)
      PROVE  TypeOK'
  <2>1. action' \in [Task -> BOOLEAN]
    BY <1>3 DEF LookupDone, ProcessDone, PublicationDone, TypeOK
  <2>2. {"hit", "miss", "taken", "error", "ok", "lost", "retryable", "fatal"} \subseteq Work
    BY DEF Work
  <2> QED
    BY <1>3, <2>1, <2>2, ReportTyped DEF LookupDone, ProcessDone, PublicationDone
<1>4. ASSUME NEW t \in Task, NEW k \in Timer, Elapse(t, k)
      PROVE  TypeOK'
  <2>1. due' \in [Task -> SUBSET Timer]
    BY <1>4 DEF Elapse, TypeOK
  <2> QED
    BY <1>4, <2>1 DEF Elapse, TypeOK, control, tasks, locks
<1>5. ASSUME NEW r \in Resource \cup Key, ForeignReturn(r)
      PROVE  TypeOK'
  BY <1>5 DEF ForeignReturn, TypeOK, control, tasks, timers, locks
<1>6. ASSUME NEW r \in Resource \cup Key, NEW mode \in {"shared", "exclusive"},
             ForeignTake(r, mode)
      PROVE  TypeOK'
  BY <1>6 DEF ForeignTake, TypeOK, control, tasks, timers, locks
<1> QED
  BY <1>1, <1>2, <1>3, <1>4, <1>5, <1>6 DEF Environment

LEMMA PassTyped ==
    ASSUME TypeOK, Pass
    PROVE  TypeOK'
<1>1. CASE BeginPass
  BY <1>1 DEF BeginPass, TypeOK, Phase, Aborting, tasks, timers, locks
<1>2. CASE NextPhase
  BY <1>2 DEF NextPhase, TypeOK, Phase, RunningTasks, tasks, timers, locks
<1>3. CASE Check
  <2>1. Outcome \in {"succeeded", "cancelled", "failed"}
    BY DEF Outcome
  <2>2. stalled' \in BOOLEAN
    BY <1>3 DEF Check, Stalls, TypeOK
  <2> QED
    BY <1>3, <2>1, <2>2 DEF Check, TypeOK, Phase, tasks, timers, locks
<1>4. CASE Abort
  BY <1>4 DEF Abort, TypeOK, Phase, Stage, Work, timers
<1> QED
  BY <1>1, <1>2, <1>3, <1>4, LookupTyped, PublishTyped, TaskTyped, ServiceTyped,
     DispatchTyped DEF Pass

LEMMA StepTyped == TypeOK /\ [Next]_vars => TypeOK'
<1> SUFFICES ASSUME TypeOK, [Next]_vars PROVE TypeOK'
  OBVIOUS
<1>1. CASE UNCHANGED vars
  BY <1>1 DEF vars, control, tasks, timers, locks, TypeOK
<1> QED
  BY <1>1, PassTyped, EnvironmentTyped DEF Next, Finished

LEMMA InitTyped == Init => TypeOK
<1> SUFFICES ASSUME Init PROVE TypeOK
  OBVIOUS
<1>1. stopping \in BOOLEAN /\ cancel \in BOOLEAN /\ failed \in BOOLEAN /\ stalled \in BOOLEAN
  BY DEF Init
<1>2. /\ status \in [Task -> Status] /\ stage \in [Task -> Stage]
      /\ work \in [Task -> Work] /\ action \in [Task -> BOOLEAN]
      /\ condSkipped \in [Task -> BOOLEAN]
  BY DEF Init, Status, Stage, Work
<1> QED
  BY <1>1, <1>2 DEF Init, TypeOK, Phase

\* Every variable of the scheduler keeps its type: in particular a reader
\* count of release_resources never becomes negative.
THEOREM TypeCorrect == Spec => []TypeOK
  BY InitTyped, StepTyped, PTL DEF Spec


-----------------------------------------------------------------------------
(* Leases.  The invariant that carries Bookkeeping and MutualExclusion says *)
(* in addition that only a task whose status is live is in a list, and     *)
(* that a phase visits the tasks of its own list only: a second visit, or  *)
(* one of a task that another phase already settled, would release leases  *)
(* that are not held any more.                                             *)

LiveStatus == {"Running", "Ready", "Stopping"}
ListOf == [phase \in {"lookup", "publish", "reap"} |->
             CASE phase = "lookup" -> "preparing"
               [] phase = "publish" -> "saving"
               [] phase = "reap" -> "running"]

Lists ==
    /\ \A t \in Task : stage[t] # "idle" => status[t] \in LiveStatus
    /\ \A phase \in {"lookup", "publish", "reap"} :
          pc = phase => \A t \in todo : stage[t] = ListOf[phase]

LockInv == TypeOK /\ Lists /\ Bookkeeping /\ MutualExclusion

\* What a step may do to the leases.
SameLeases == Live' = Live /\ UNCHANGED <<plan, locks, foreign>>
Frees(t) == /\ t \in Live /\ Live' = Live \ {t}
            /\ Release(t) /\ UNCHANGED <<plan, foreign>>
Takes(t) == /\ t \notin Live /\ Live' = Live \cup {t}
            /\ Acquirable(t) /\ Reserve(t) /\ UNCHANGED <<plan, foreign>>
OneLease(t) == SameLeases \/ Frees(t) \/ Takes(t)

\* A visit changes the list and the status of its own task only.
OwnTask(t) ==
    /\ \A u \in Task \ {t} : stage'[u] = stage[u] /\ status'[u] = status[u]
    /\ stage'[t] # "idle" => status'[t] \in LiveStatus

LEMMA VisitLists ==
    ASSUME TypeOK, Lists, NEW phase, NEW t \in Task, Visit(phase, t), OwnTask(t)
    PROVE  Lists'
  BY DEF TypeOK, Lists, Visit, OwnTask

LEMMA SettleFrees ==
    ASSUME TypeOK, NEW t \in Task, NEW s, Settle(t, s), t \in Live,
           UNCHANGED <<plan, foreign>>
    PROVE  OwnTask(t) /\ Frees(t)
<1>1. stage' = [stage EXCEPT ![t] = "idle"] /\ status' = [status EXCEPT ![t] = s] /\ Release(t)
  BY DEF Settle
<1>2. OwnTask(t) /\ Live' = Live \ {t}
  BY <1>1 DEF TypeOK, OwnTask, Live
<1> QED
  BY <1>1, <1>2 DEF Frees

LEMMA BackOffFrees ==
    ASSUME TypeOK, NEW t \in Task, BackOff(t), t \in Live, UNCHANGED <<plan, foreign>>
    PROVE  OwnTask(t) /\ Frees(t)
<1>1. /\ stage' = [stage EXCEPT ![t] = "idle"] /\ Release(t)
      /\ status' = [status EXCEPT ![t] = "Pending"]
  BY DEF BackOff
<1>2. OwnTask(t) /\ Live' = Live \ {t}
  BY <1>1 DEF TypeOK, OwnTask, Live
<1> QED
  BY <1>1, <1>2 DEF Frees

LEMMA MoveToKeeps ==
    ASSUME TypeOK, NEW t \in Task, NEW list \in Stage \ {"idle"}, MoveTo(t, list),
           t \in Live, UNCHANGED <<plan, foreign>>
    PROVE  OwnTask(t) /\ SameLeases
<1>1. /\ stage' = [stage EXCEPT ![t] = list] /\ UNCHANGED locks
      /\ status' = [status EXCEPT ![t] = "Running"]
  BY DEF MoveTo
<1>2. OwnTask(t) /\ Live' = Live
  BY <1>1 DEF TypeOK, OwnTask, Live, LiveStatus
<1> QED
  BY <1>1, <1>2 DEF SameLeases

LEMMA CompleteLease ==
    ASSUME TypeOK, NEW t \in Task, NEW s, Complete(t, s), t \in Live,
           UNCHANGED <<plan, foreign>>
    PROVE  OwnTask(t) /\ OneLease(t)
  BY SettleFrees, BackOffFrees, MoveToKeeps DEF Complete, OneLease, Stage

\* A step that leaves lists and leases alone.
LEMMA NothingMoves ==
    ASSUME TypeOK, Lists, NEW t \in Task, UNCHANGED <<plan, stage, locks, foreign>>,
           \A u \in Task \ {t} : status'[u] = status[u],
           status'[t] = status[t] \/ status'[t] \in LiveStatus \/ stage[t] = "idle"
    PROVE  OwnTask(t) /\ OneLease(t)
  BY DEF Lists, OwnTask, OneLease, SameLeases, Live

LEMMA LookupLease ==
    ASSUME TypeOK, Lists, NEW t \in Task, VisitLookup(t)
    PROVE  Lists' /\ OneLease(t)
<1>1. Visit("lookup", t) /\ t \in Live /\ UNCHANGED <<plan, foreign>>
  BY DEF VisitLookup, Visit, Lists, ListOf, Live
<1>2. CASE StopWorker(t)
  BY <1>1, <1>2, NothingMoves, VisitLists DEF StopWorker
<1>3. CASE \E s : Settle(t, s)
  BY <1>1, <1>3, SettleFrees, VisitLists DEF OneLease
<1>4. CASE BackOff(t)
  BY <1>1, <1>4, BackOffFrees, VisitLists DEF OneLease
<1>5. CASE \E list \in Stage \ {"idle"} : MoveTo(t, list)
  BY <1>1, <1>5, MoveToKeeps, VisitLists DEF OneLease
<1> QED
  BY <1>2, <1>3, <1>4, <1>5
  DEF VisitLookup, LookupHit, LookupMiss, LookupTaken, LookupError, Stage

LEMMA PublishLease ==
    ASSUME TypeOK, Lists, NEW t \in Task, VisitPublish(t)
    PROVE  Lists' /\ OneLease(t)
<1>1. Visit("publish", t) /\ t \in Live /\ UNCHANGED <<plan, foreign>>
  BY DEF VisitPublish, Visit, Lists, ListOf, Live
<1>2. CASE StopWorker(t)
  BY <1>1, <1>2, NothingMoves, VisitLists DEF StopWorker
<1>3. CASE Settle(t, Published(t))
  BY <1>1, <1>3, SettleFrees, VisitLists DEF OneLease
<1> QED
  BY <1>2, <1>3 DEF VisitPublish

LEMMA ReapLease ==
    ASSUME TypeOK, Lists, NEW t \in Task, VisitTask(t) \/ VisitService(t)
    PROVE  Lists' /\ OneLease(t)
<1>1. Visit("reap", t) /\ t \in Live /\ UNCHANGED <<plan, foreign>>
  BY DEF VisitTask, VisitService, Visit, Lists, ListOf, Live
<1>2. CASE \E s : Complete(t, s)
  BY <1>1, <1>2, CompleteLease, VisitLists
<1>3. CASE UNCHANGED <<failed, tasks, timers, locks, action>>
  BY <1>1, <1>3, NothingMoves, VisitLists DEF tasks
<1>4. CASE UNCHANGED <<failed, tasks, locks, action>>
  BY <1>1, <1>4, NothingMoves, VisitLists DEF tasks
<1>5. ASSUME NEW health, ServiceRuns(t, health) \/ ServiceStops(t, health)
      PROVE  Lists' /\ OneLease(t)
  <2>1. /\ UNCHANGED <<stage, locks>>
        /\ status'[t] = status[t] \/ status'[t] \in LiveStatus
        /\ \A u \in Task \ {t} : status'[u] = status[u]
    BY <1>5 DEF ServiceRuns, ServiceStops, TypeOK, LiveStatus
  <2> QED
    BY <1>1, <2>1, NothingMoves, VisitLists
<1> QED
  BY <1>2, <1>3, <1>4, <1>5
  DEF VisitTask, VisitService, ServiceExited, ServiceShutsDown

\* The sweep acts on Pending tasks only, and these are in no list.
LEMMA DispatchLease ==
    ASSUME TypeOK, Lists, NEW t \in Task, Dispatch(t)
    PROVE  Lists' /\ OneLease(t)
<1> USE DEF VisitDispatch
<1>1. Visit("dispatch", t) /\ UNCHANGED <<plan, foreign>>
  BY DEF Visit, Dispatch, DispatchNothing, DispatchSkip, DispatchCancel, DispatchExpire,
         DispatchBusy, DispatchError, DispatchStart, DispatchSpawnError
<1>2. Verdict(t) # "none" => stage[t] = "idle"
  BY DEF Verdict, Lists, LiveStatus
<1>3. CASE UNCHANGED <<status, stage, locks>>
  BY <1>1, <1>3, NothingMoves, VisitLists
<1>4. CASE Verdict(t) # "none" /\ \E s : Drop(t, s)
  <2>1. /\ UNCHANGED <<stage, locks>>
        /\ \A u \in Task \ {t} : status'[u] = status[u]
    BY <1>4 DEF Drop, TypeOK
  <2> QED
    BY <1>1, <1>2, <1>4, <2>1, NothingMoves, VisitLists
<1>5. CASE DispatchStart(t)
  <2>1. /\ t \notin Live /\ Acquirable(t) /\ Reserve(t)
        /\ stage'[t] \in {"preparing", "running"} /\ status'[t] = "Running"
        /\ \A u \in Task \ {t} : stage'[u] = stage[u] /\ status'[u] = status[u]
    BY <1>2, <1>5 DEF DispatchStart, TypeOK, Live
  <2>2. OwnTask(t) /\ Live' = Live \cup {t}
    BY <2>1 DEF OwnTask, Live, LiveStatus
  <2> QED
    BY <1>1, <2>1, <2>2, VisitLists DEF OneLease, Takes
<1> QED
  BY <1>3, <1>4, <1>5
  DEF Dispatch, DispatchNothing, DispatchSkip, DispatchCancel, DispatchExpire,
      DispatchBusy, DispatchError, DispatchSpawnError, tasks

\* Every step keeps the lists right, and is one of the steps on leases.
LEMMA LeaseStep ==
    ASSUME TypeOK, Lists, [Next]_vars
    PROVE  /\ Lists'
           /\ \/ SameLeases
              \/ \E t \in Task : Frees(t) \/ Takes(t)
              \/ Abort
              \/ \E r \in Resource \cup Key :
                    ForeignReturn(r) \/ \E mode \in {"shared", "exclusive"} : ForeignTake(r, mode)
<1>1. CASE \E t \in Task : VisitLookup(t) \/ VisitPublish(t) \/ VisitTask(t)
                          \/ VisitService(t) \/ Dispatch(t)
  BY <1>1, LookupLease, PublishLease, ReapLease, DispatchLease DEF OneLease
<1>2. CASE BeginPass
  BY <1>2 DEF BeginPass, Lists, ListOf, SameLeases, Live, tasks
<1>3. CASE NextPhase
  BY <1>3 DEF NextPhase, Lists, ListOf, SameLeases, Live, RunningTasks, tasks
<1>4. CASE Check
  BY <1>4 DEF Check, Lists, SameLeases, Live, tasks
<1>5. CASE Abort
  BY <1>5 DEF Abort, Lists
<1>6. CASE Cancel
  BY <1>6 DEF Cancel, Lists, SameLeases, Live, tasks
<1>7. ASSUME NEW t \in Task,
             \/ LookupLock(t) \/ LookupDone(t) \/ ProcessDone(t) \/ PublicationDone(t)
             \/ \E k \in Timer : Elapse(t, k)
      PROVE  Lists' /\ SameLeases
  BY <1>7 DEF LookupLock, LookupDone, ProcessDone, PublicationDone, Report, Elapse,
              Lists, SameLeases, Live, control, tasks
<1>8. ASSUME NEW r \in Resource \cup Key,
             ForeignReturn(r) \/ \E mode \in {"shared", "exclusive"} : ForeignTake(r, mode)
      PROVE  Lists'
  BY <1>8 DEF ForeignReturn, ForeignTake, Lists, control, tasks
<1>9. CASE UNCHANGED vars
  BY <1>9 DEF vars, control, tasks, Lists, SameLeases, Live
<1> QED
  BY <1>1, <1>2, <1>3, <1>4, <1>5, <1>6, <1>7, <1>8, <1>9
  DEF Next, Pass, Environment, Finished

\* Readers of a resource, to count them.
LEMMA LiveFinite == \A S \in SUBSET Task : IsFiniteSet(S) /\ Cardinality(S) \in Nat
  BY TaskAssumption, FS_Subset, FS_CardinalityType

\* Giving the leases of one live task back.
LEMMA FreeKeeps ==
    ASSUME LockInv, NEW t \in Task, Frees(t)
    PROVE  Bookkeeping' /\ MutualExclusion'
<1> USE DEF LockInv
<1>1. UNCHANGED plan /\ PlanType(plan)
  BY PlanIsTyped DEF Frees
<1>2. leases'[t] = {} /\ \A u \in Task \ {t} : leases'[u] = leases[u]
  BY DEF Frees, Release, TypeOK
<1>3. held' = UNION {plan.excl[u] : u \in Live'}
  <2>1. \A u \in Live \ {t} : plan.excl[u] \cap plan.excl[t] = {}
    BY DEF MutualExclusion, Frees
  <2> QED
    BY <2>1 DEF Bookkeeping, Frees, Release
<1>4. ASSUME NEW r \in Resource
      PROVE  readers'[r] = Cardinality({u \in Live' : r \in plan.shared[u]})
  <2> DEFINE Old == {u \in Live : r \in plan.shared[u]}
  <2>1. IsFiniteSet(Old) /\ readers[r] = Cardinality(Old)
    BY LiveFinite DEF Bookkeeping, Live
  <2>2. {u \in Live' : r \in plan.shared[u]} = Old \ {t}
    BY DEF Frees
  <2>3. Cardinality(Old \ {t}) = IF t \in Old THEN Cardinality(Old) - 1 ELSE Cardinality(Old)
    BY <2>1, FS_RemoveElement
  <2>4. t \in Old => Cardinality(Old) > 0
    <3>1. Cardinality(Old) = 0 <=> Old = {}
      BY <2>1, FS_EmptySet
    <3> QED
      BY <2>1, <3>1, FS_CardinalityType
  <2>5. t \in Old <=> r \in plan.shared[t]
    BY DEF Frees
  <2>6. readers'[r] = IF r \in plan.shared[t] /\ readers[r] > 0
                      THEN readers[r] - 1 ELSE readers[r]
    BY DEF Frees, Release
  <2> QED
    BY <2>1, <2>2, <2>3, <2>4, <2>5, <2>6
<1>5. Bookkeeping'
  <2>1. \A r \in Resource :
           readers'[r] = Cardinality({u \in Live : r \in plan.shared[u]})'
    BY <1>1, <1>4
  <2>2. \A u \in Task : leases'[u] = IF u \in Live'
                                     THEN plan.excl[u] \cup plan.shared[u] ELSE {}
    BY <1>2 DEF Bookkeeping, Frees
  <2>3. plan' = plan
    BY <1>1
  <2> HIDE DEF LockInv
  <2> QED
    BY <1>3, <2>1, <2>2, <2>3 DEF Bookkeeping
<1>6. MutualExclusion'
  BY <1>1 DEF MutualExclusion, Frees
<1> QED
  BY <1>5, <1>6

\* Taking the leases of one task that is in no list.
LEMMA TakeKeeps ==
    ASSUME LockInv, NEW t \in Task, Takes(t)
    PROVE  Bookkeeping' /\ MutualExclusion'
<1> USE DEF LockInv
<1>1. UNCHANGED <<plan, foreign>> /\ PlanType(plan)
  BY PlanIsTyped DEF Takes
<1>2. /\ leases'[t] = plan.excl[t] \cup plan.shared[t]
      /\ \A u \in Task \ {t} : leases'[u] = leases[u]
  BY DEF Takes, Reserve, TypeOK
<1>3. held' = UNION {plan.excl[u] : u \in Live'}
  BY DEF Bookkeeping, Takes, Reserve
<1>4. ASSUME NEW r \in Resource
      PROVE  readers'[r] = Cardinality({u \in Live' : r \in plan.shared[u]})
  <2> DEFINE Old == {u \in Live : r \in plan.shared[u]}
  <2>1. IsFiniteSet(Old) /\ readers[r] = Cardinality(Old)
    BY LiveFinite DEF Bookkeeping, Live
  <2>2. {u \in Live' : r \in plan.shared[u]} =
            IF r \in plan.shared[t] THEN Old \cup {t} ELSE Old
    BY DEF Takes
  <2>3. Cardinality(Old \cup {t}) = Cardinality(Old) + 1
    BY <2>1, FS_AddElement DEF Takes
  <2>4. readers'[r] = readers[r] + (IF r \in plan.shared[t] THEN 1 ELSE 0)
    BY DEF Takes, Reserve
  <2>5. CASE r \in plan.shared[t]
    BY <2>1, <2>2, <2>3, <2>4, <2>5
  <2>6. CASE r \notin plan.shared[t]
    <3>1. readers'[r] = readers[r]
      BY <2>4, <2>6 DEF TypeOK
    <3> QED
      BY <2>1, <2>2, <2>6, <3>1
  <2> QED
    BY <2>5, <2>6
<1>5. Bookkeeping'
  <2>1. \A r \in Resource :
           readers'[r] = Cardinality({u \in Live : r \in plan.shared[u]})'
    BY <1>1, <1>4
  <2>2. \A u \in Task : leases'[u] = IF u \in Live'
                                     THEN plan.excl[u] \cup plan.shared[u] ELSE {}
    BY <1>2 DEF Bookkeeping, Takes
  <2>3. plan' = plan
    BY <1>1
  <2> HIDE DEF LockInv
  <2> QED
    BY <1>3, <2>1, <2>2, <2>3 DEF Bookkeeping
<1>6. \A u \in Live : plan.excl[t] \cap (plan.excl[u] \cup plan.shared[u]) = {}
  <2>1. \A u \in Live : leases[u] = plan.excl[u] \cup plan.shared[u]
    BY DEF Bookkeeping, Live
  <2> QED
    BY <2>1, <1>1 DEF Takes, Acquirable, Locked, Live, PlanType
<1>7. \A u \in Live : plan.excl[u] \cap (plan.excl[t] \cup plan.shared[t]) = {}
  <2>1. \A r \in plan.excl[t] \cup plan.shared[t] : r \notin held
    BY DEF Takes, Acquirable
  <2> QED
    BY <2>1 DEF Bookkeeping
<1>8. /\ \A r \in plan.excl[t] : foreign[r] = "free"
      /\ \A r \in plan.shared[t] : foreign[r] # "exclusive"
  BY DEF Takes, Acquirable, Locked, LockedExclusively
<1>9. MutualExclusion'
  BY <1>1, <1>6, <1>7, <1>8 DEF MutualExclusion, Takes
<1> QED
  BY <1>5, <1>9

\* Another run takes a lease only when flock lets it.
LEMMA ForeignKeeps ==
    ASSUME LockInv, NEW r \in Resource \cup Key,
           ForeignReturn(r) \/ \E mode \in {"shared", "exclusive"} : ForeignTake(r, mode)
    PROVE  Bookkeeping' /\ MutualExclusion'
<1> USE DEF LockInv
<1>1. UNCHANGED <<plan, stage, held, readers, leases>> /\ Live' = Live /\ PlanType(plan)
  BY PlanIsTyped DEF ForeignReturn, ForeignTake, control, tasks, locks, Live
<1>2. Bookkeeping'
  BY <1>1 DEF Bookkeeping
<1>3. \A t \in Live : leases[t] = plan.excl[t] \cup plan.shared[t]
  BY DEF Bookkeeping, Live
<1>4. ASSUME NEW t \in Live
      PROVE  /\ \A x \in plan.excl[t] : foreign'[x] = "free"
             /\ \A x \in plan.shared[t] : foreign'[x] # "exclusive"
  <2>1. t \in Task /\ plan.excl[t] \subseteq Resource /\ plan.shared[t] \subseteq Resource
    BY <1>1 DEF Live, PlanType
  <2>2. \A x \in (Resource \cup Key) \ {r} : foreign'[x] = foreign[x]
    BY DEF ForeignReturn, ForeignTake, TypeOK
  <2>3. CASE ForeignReturn(r)
    BY <2>1, <2>2, <2>3 DEF MutualExclusion, ForeignReturn, TypeOK
  <2>4. ASSUME NEW mode \in {"shared", "exclusive"}, ForeignTake(r, mode)
        PROVE  (r \in plan.excl[t] => FALSE) /\ (r \in plan.shared[t] => foreign'[r] # "exclusive")
    <3>1. foreign'[r] = mode
      BY <2>4 DEF ForeignTake, TypeOK
    <3>2. r \in plan.excl[t] \cup plan.shared[t] =>
             r \notin Key /\ ~LockedExclusively(r) /\ (mode = "exclusive" => ~Locked(r))
      BY <2>1, <2>4, LockNames DEF ForeignTake
    <3> QED
      BY <1>3, <2>1, <3>1, <3>2 DEF LockedExclusively, Locked
  <2> QED
    BY <2>1, <2>2, <2>3, <2>4 DEF MutualExclusion
<1>5. MutualExclusion'
  BY <1>1, <1>4 DEF MutualExclusion
<1> QED
  BY <1>2, <1>5

LEMMA LockStep == LockInv /\ [Next]_vars => LockInv'
<1> SUFFICES ASSUME LockInv, [Next]_vars PROVE LockInv'
  OBVIOUS
<1>1. TypeOK' /\ Lists'
  BY StepTyped, LeaseStep DEF LockInv
<1>2. CASE SameLeases
  <2>1. Bookkeeping' /\ MutualExclusion'
    BY <1>2 DEF SameLeases, LockInv, Bookkeeping, MutualExclusion, locks
  <2> QED
    BY <1>1, <2>1 DEF LockInv
<1>3. CASE Abort
  <2>1. Live' = {} /\ UNCHANGED plan
    BY <1>3 DEF Abort, Live
  <2>2. Bookkeeping'
    BY <1>3, <2>1, FS_EmptySet DEF Abort, Bookkeeping
  <2>3. MutualExclusion'
    BY <2>1 DEF MutualExclusion
  <2> QED
    BY <1>1, <2>2, <2>3 DEF LockInv
<1> QED
  BY <1>1, <1>2, <1>3, LeaseStep, FreeKeeps, TakeKeeps, ForeignKeeps DEF LockInv

LEMMA LockInit == Init => LockInv
<1> SUFFICES ASSUME Init PROVE LockInv
  OBVIOUS
<1>1. TypeOK
  BY InitTyped
<1>2. Live = {} /\ pc = "wait"
  BY DEF Init, Live
<1>3. Lists
  BY <1>2 DEF Lists, Live
<1>4. Bookkeeping /\ MutualExclusion
  BY <1>2, FS_EmptySet DEF Init, Bookkeeping, MutualExclusion
<1> QED
  BY <1>1, <1>3, <1>4 DEF LockInv

LEMMA LockInvariant == Spec => []LockInv
  BY LockInit, LockStep, PTL DEF Spec

\* The in-process sets, the reader counts and the lease files describe exactly
\* the tasks that are preparing, running or saving, whatever the plan.
THEOREM LeasesAreKept == Spec => []Bookkeeping
<1>1. LockInv => Bookkeeping
  BY DEF LockInv
<1> QED
  BY <1>1, LockInvariant, PTL

\* An exclusive user of a resource is its only user, in this run and among
\* all runs, for any number of tasks, resources and retries.
THEOREM LeasesExclude == Spec => []MutualExclusion
<1>1. LockInv => MutualExclusion
  BY DEF LockInv
<1> QED
  BY <1>1, LockInvariant, PTL

-----------------------------------------------------------------------------
(* Terminal statuses. *)

OthersKeep(t) == \A u \in Task \ {t} : status'[u] = status[u]

LEMMA CompleteOthers ==
    ASSUME TypeOK, NEW t \in Task, NEW s, Complete(t, s)
    PROVE  OthersKeep(t)
  BY DEF TypeOK, Complete, Settle, BackOff, MoveTo, OthersKeep

LEMMA VisitsOthers ==
    ASSUME TypeOK, NEW t \in Task,
           VisitLookup(t) \/ VisitPublish(t) \/ VisitTask(t) \/ VisitService(t)
    PROVE  OthersKeep(t)
<1>1. CASE VisitLookup(t) \/ VisitPublish(t)
  BY <1>1 DEF TypeOK, VisitLookup, VisitPublish, StopWorker, LookupHit, LookupMiss,
     LookupTaken, LookupError, Settle, BackOff, MoveTo, OthersKeep
<1>2. CASE VisitTask(t) \/ VisitService(t)
  BY <1>2, CompleteOthers DEF TypeOK, VisitTask, VisitService, ServiceExited, ServiceRuns,
     ServiceStops, ServiceShutsDown, OthersKeep, tasks
<1> QED
  BY <1>1, <1>2

LEMMA EndedStays ==
    ASSUME LockInv, [Next]_vars, NEW t \in Task, Ended(t)
    PROVE  status'[t] = status[t]
<1>1. Terminal \cap (LiveStatus \cup {"Pending"}) = {}
  BY DEF Terminal, LiveStatus
<1>2. t \notin Live /\ Verdict(t) = "none"
  BY <1>1 DEF LockInv, Lists, Live, Ended, Verdict
<1>3. ASSUME NEW u \in Task, VisitLookup(u) \/ VisitPublish(u) \/ VisitTask(u) \/ VisitService(u)
      PROVE  status'[t] = status[t]
  <2>1. u # t
    BY <1>2, <1>3 DEF LockInv, Lists, ListOf, Live, Visit, VisitLookup, VisitPublish,
                      VisitTask, VisitService
  <2>2. OthersKeep(u)
    BY <1>3, VisitsOthers DEF LockInv
  <2> QED
    BY <2>1, <2>2 DEF OthersKeep
<1>4. ASSUME NEW u \in Task, Dispatch(u)
      PROVE  status'[t] = status[t]
  BY <1>2, <1>4 DEF LockInv, TypeOK, Dispatch, DispatchNothing, DispatchSkip, DispatchCancel,
     DispatchExpire, DispatchBusy, DispatchError, DispatchStart, DispatchSpawnError, Drop, tasks
<1>5. CASE BeginPass \/ NextPhase \/ Check \/ Abort \/ Environment \/ Finished \/ UNCHANGED vars
  BY <1>5 DEF BeginPass, NextPhase, Check, Abort, Environment, Finished, Cancel, LookupLock,
     LookupDone, ProcessDone, PublicationDone, Report, Elapse, ForeignReturn, ForeignTake,
     vars, control, tasks
<1> QED
  BY <1>3, <1>4, <1>5 DEF Next, Pass

\* No pass, worker, retry or sweep gives a terminal task another status.
THEOREM TerminalStays == Spec => TerminalIsFinal
<1>1. LockInv /\ [Next]_vars =>
        [\A t \in Task : Ended(t) => status'[t] = status[t]]_vars
  BY EndedStays
<1> QED
  BY <1>1, LockInvariant, PTL DEF Spec, TerminalIsFinal

-----------------------------------------------------------------------------
(* What a run as a whole owes: slots, action locks, the order in which     *)
(* services are signalled, what may start while the run stops, and the     *)
(* published outcome.  LockInv says which status goes with which list.     *)

Bad == {"Failed", "TimedOut", "Cancelled"}

\* What the validation of a plan says of services and finalizers.
LEMMA PlanFacts ==
    ASSUME TypeOK, NEW t \in Task
    PROVE  /\ t \in plan.service => /\ t \notin plan.allow \cup plan.products \cup plan.cached
                                    /\ plan.when[t] = "success" /\ plan.attempts[t] = 1
           /\ Finalizer(t) => t \notin plan.cached
           /\ plan.ancestors[t] \subseteq plan.service
           /\ plan.service \subseteq Task
           /\ plan.needs[t] \subseteq Task
  BY PlansAssumption DEF TypeOK, ValidPlan, PlanType, Finalizer

-----------------------------------------------------------------------------
(* The invariant.  A task that fails the run can be pointed at for as long *)
(* as the run lasts, and a run in which nothing of the kind happened has   *)
(* only tasks that the outcome forgives.                                   *)

\* How list, lock, status and requested stop of one task go together: only
\* cached tasks are looked up or own an action; only a service is ready,
\* stopping or stopped with success; a worker is cancelled for a reason.
KindOf(t) ==
    /\ stage[t] = "preparing" \/ action[t] => t \in plan.cached
    /\ stage[t] = "saving" => t \notin plan.service
    /\ t \notin plan.service => /\ status[t] \notin {"Ready", "Stopping"}
                                /\ stop[t] \in {"none", "Cancelled", "TimedOut"}
    /\ t \in plan.service =>
          /\ stop[t] \in {"none", "Succeeded"} \cup Bad
          /\ status[t] \in {"Pending", "Running", "Ready"} => stop[t] = "none"
          /\ stop[t] \in Bad => failed
    /\ condSkipped[t] => status[t] = "Skipped"
    /\ stop[t] = "Cancelled" => failed \/ cancel \/ stalled

\* The run fails because of t: it ended badly, or it is a service that is
\* being shut down for a reason other than that nobody needs it.
Doomed(t) ==
    /\ t \notin plan.allow
    /\ \/ status[t] \in Bad
       \/ t \in plan.service /\ status[t] = "Stopping" /\ stop[t] \in Bad

Forgiven(t) ==
    \/ status[t] = "Succeeded" \/ condSkipped[t]
    \/ t \in plan.allow /\ status[t] \in {"Failed", "TimedOut"}

\* Nothing happened that could make the run fail.
Calm == /\ ~failed /\ ~cancel /\ ~stalled
        /\ \A s \in plan.service : ~condSkipped[s]

Sampled ==
    /\ stopping => stalled \/ Aborting
    /\ stalled /\ pc \in {"lookup", "publish", "reap", "dispatch", "check"} => stopping
Blamed == failed => \E t \in Task : Doomed(t)
StallBlamed == stalled => failed \/ \E s \in plan.service : status[s] = "Ready"
CalmSoFar == Calm => \A t \in Task : Ended(t) => Forgiven(t)

RunInv == /\ LockInv /\ Sampled /\ Blamed /\ StallBlamed /\ CalmSoFar
          /\ OutcomeAgrees
          /\ \A t \in Task : KindOf(t)

-----------------------------------------------------------------------------
(* What one visit does, and why that is enough. *)

Others(t) == \A u \in Task \ {t} :
    /\ stage'[u] = stage[u] /\ status'[u] = status[u] /\ stop'[u] = stop[u]
    /\ condSkipped'[u] = condSkipped[u] /\ action'[u] = action[u]

Effect(t) ==
    /\ Others(t) /\ KindOf(t)'
    /\ failed => failed'
    /\ failed' => failed \/ Doomed(t)'
    /\ Doomed(t) => Doomed(t)'
    /\ t \in plan.service /\ status[t] = "Ready" /\ stalled => failed' \/ status'[t] = "Ready"
    /\ condSkipped[t] => condSkipped'[t]
    /\ Calm' /\ Ended(t)' => Forgiven(t)'

RunRest == /\ Sampled /\ Blamed /\ StallBlamed /\ CalmSoFar /\ OutcomeAgrees
           /\ \A t \in Task : KindOf(t)

LEMMA EffectKeeps ==
    ASSUME RunInv, NEW t \in Task, Effect(t),
           NEW phase \in {"lookup", "publish", "reap", "dispatch"}, Visit(phase, t)
    PROVE  RunRest'
<1>1. /\ UNCHANGED <<plan, stopping, cancel, stalled, outcome, pc>>
      /\ pc \in {"lookup", "publish", "reap", "dispatch"}
  BY DEF Visit
<1>2. plan.service \subseteq Task
  BY PlanFacts DEF RunInv, LockInv
<1>3. Sampled'
  BY <1>1 DEF RunInv, Sampled, Aborting, Effect
<1>4. Blamed'
  <2>1. ASSUME NEW u \in Task, Doomed(u) PROVE Doomed(u)'
    BY <1>1, <2>1 DEF Effect, Others, Doomed
  <2> QED
    BY <2>1 DEF RunInv, Blamed, Effect
<1>5. StallBlamed'
  BY <1>1, <1>2 DEF RunInv, StallBlamed, Effect, Others
<1>6. CalmSoFar'
  <2>1. SUFFICES ASSUME Calm', NEW u \in Task, Ended(u)' PROVE Forgiven(u)'
    BY DEF CalmSoFar
  <2>2. Calm
    BY <1>1, <1>2, <2>1 DEF Calm, Effect, Others
  <2> QED
    BY <1>1, <2>1, <2>2 DEF RunInv, CalmSoFar, Effect, Others, Ended, Forgiven
<1>7. OutcomeAgrees'
  BY <1>1 DEF OutcomeAgrees
<1>8. \A u \in Task : KindOf(u)'
  <2>1. SUFFICES ASSUME NEW u \in Task \ {t} PROVE KindOf(u)'
    BY DEF Effect
  <2> QED
    BY <1>1 DEF RunInv, KindOf, Effect, Others
<1> QED
  BY <1>3, <1>4, <1>5, <1>6, <1>7, <1>8 DEF RunRest

\* A task that is in a list is settled: with success, with a failure that
\* counts unless it is allowed, or cancelled in a run that is not calm.
LEMMA SettleEffect ==
    ASSUME RunInv, NEW t \in Task, t \in Live, NEW s, Settle(t, s),
           UNCHANGED <<plan, cancel, stalled>>,
           \/ /\ s = "Succeeded" /\ UNCHANGED failed
              /\ ~Doomed(t) /\ status[t] # "Ready"
           \/ s \in {"Failed", "TimedOut"} /\ Fail(t)
           \/ /\ s = "Cancelled" /\ ~Calm
              /\ Fail(t) \/ (UNCHANGED failed /\ t \notin plan.service)
    PROVE  Effect(t)
<1>1. TypeOK /\ KindOf(t) /\ status[t] \in LiveStatus
  BY DEF RunInv, LockInv, Lists, Live
<1>2. /\ stage'[t] = "idle" /\ status'[t] = s /\ stop'[t] = "none" /\ ~action'[t]
      /\ UNCHANGED condSkipped /\ Others(t)
  BY <1>1 DEF Settle, TypeOK, Others
<1>3. ~condSkipped[t]
  BY <1>1 DEF KindOf, LiveStatus
<1>4. KindOf(t)'
  BY <1>2, <1>3 DEF KindOf, Bad
<1>5. failed => failed'
  BY DEF Fail
<1>6. Calm' => Calm
  BY <1>2, <1>5 DEF Calm
<1>7. t \in plan.service => t \notin plan.allow
  BY <1>1, PlanFacts
<1>8. CASE s = "Succeeded" /\ UNCHANGED failed /\ ~Doomed(t) /\ status[t] # "Ready"
  BY <1>2, <1>4, <1>8 DEF Effect, Forgiven
<1>9. CASE s \in {"Failed", "TimedOut"} /\ Fail(t)
  BY <1>2, <1>4, <1>5, <1>7, <1>9 DEF Effect, Fail, Doomed, Forgiven, Bad, Calm
<1>10. CASE /\ s = "Cancelled" /\ ~Calm
            /\ Fail(t) \/ (UNCHANGED failed /\ t \notin plan.service)
  <2>1. ~(Calm' /\ Ended(t)')
    BY <1>6, <1>10
  <2>2. Doomed(t) => Doomed(t)'
    BY <1>2, <1>10 DEF Doomed, Bad
  <2>3. failed' => failed \/ Doomed(t)'
    BY <1>2, <1>10 DEF Fail, Doomed, Bad
  <2>4. t \in plan.service => failed'
    BY <1>7, <1>10 DEF Fail
  <2> QED
    BY <1>2, <1>4, <1>5, <2>1, <2>2, <2>3, <2>4 DEF Effect
<1> QED
  BY <1>8, <1>9, <1>10

\* A task that is not a service goes back to Pending or to another list.
LEMMA MoveEffect ==
    ASSUME RunInv, NEW t \in Task, t \in Live, t \notin plan.service,
           UNCHANGED <<plan, cancel, stalled, failed>>,
           \/ BackOff(t) /\ UNCHANGED action
           \/ \E list \in {"running", "saving"} : MoveTo(t, list)
    PROVE  Effect(t)
<1>1. TypeOK /\ KindOf(t) /\ status[t] \in LiveStatus
  BY DEF RunInv, LockInv, Lists, Live
<1>2. /\ stage'[t] \in {"idle", "running", "saving"} /\ status'[t] \in {"Pending", "Running"}
      /\ UNCHANGED <<stop, action, condSkipped>> /\ Others(t)
  BY <1>1 DEF BackOff, MoveTo, TypeOK, Others
<1>3. KindOf(t)'
  BY <1>1, <1>2 DEF KindOf, LiveStatus
<1> QED
  BY <1>1, <1>2, <1>3 DEF Effect, Doomed, Bad, LiveStatus, Ended, Terminal

\* The visit leaves the task in its list; a worker may have been told to stop.
LEMMA StayEffect ==
    ASSUME RunInv, NEW t \in Task, UNCHANGED <<plan, cancel, stalled, failed>>,
           UNCHANGED <<stage, status, condSkipped, action>>,
           \/ UNCHANGED stop
           \/ t \in Live /\ t \notin plan.service /\ stop' = [stop EXCEPT ![t] = WorkerStop(t)]
    PROVE  Effect(t)
<1>1. TypeOK /\ KindOf(t)
  BY DEF RunInv, LockInv
<1>2. Calm' /\ Ended(t)' => Forgiven(t)'
  BY DEF RunInv, CalmSoFar, Calm, Ended, Forgiven
<1>3. CASE UNCHANGED stop
  BY <1>1, <1>2, <1>3 DEF Effect, Others, KindOf, Doomed
<1>4. CASE t \in Live /\ t \notin plan.service /\ stop' = [stop EXCEPT ![t] = WorkerStop(t)]
  <2>1. stop'[t] = WorkerStop(t) /\ Others(t)
    BY <1>1, <1>4 DEF TypeOK, Others
  <2>2. /\ WorkerStop(t) \in {"none", "Cancelled", "TimedOut"}
        /\ WorkerStop(t) = "Cancelled" => failed \/ cancel \/ stalled
    BY <1>1, <1>4 DEF WorkerStop, KindOf, RunInv, Sampled, Aborting
  <2>3. KindOf(t)'
    BY <1>1, <1>4, <2>1, <2>2 DEF KindOf
  <2>4. Doomed(t) => Doomed(t)'
    BY <1>4 DEF Doomed
  <2> QED
    BY <1>2, <2>1, <2>3, <2>4 DEF Effect
<1> QED
  BY <1>3, <1>4

\* A worker is stopped for its deadline, or in a run that is not calm.
LEMMA WorkerStops ==
    ASSUME RunInv, NEW t \in Task, t \notin plan.service
    PROVE  /\ WorkerStop(t) \in {"none", "Cancelled", "TimedOut"}
           /\ WorkerStop(t) = "Cancelled" => ~Calm
  BY DEF WorkerStop, KindOf, RunInv, Sampled, Aborting, Calm

LEMMA LookupEffect ==
    ASSUME RunInv, NEW t \in Task, VisitLookup(t)
    PROVE  Effect(t)
<1>1. /\ Visit("lookup", t) /\ t \in Live
      /\ UNCHANGED <<plan, cancel, stalled>> /\ t \notin plan.service
  BY PlanFacts DEF VisitLookup, Visit, RunInv, LockInv, Lists, ListOf, Live, KindOf
<1>2. ~Doomed(t) /\ status[t] # "Ready"
  BY <1>1 DEF RunInv, LockInv, Lists, Live, LiveStatus, Doomed, KindOf, Bad
<1>3. CASE StopWorker(t)
  BY <1>1, <1>3, StayEffect DEF StopWorker
<1>4. CASE WorkerStop(t) # "none" /\ Settle(t, WorkerStop(t)) /\ Fail(t)
  BY <1>1, <1>4, WorkerStops, SettleEffect
<1>5. CASE LookupHit(t)
  BY <1>1, <1>2, <1>5, SettleEffect, MoveEffect DEF LookupHit
<1>6. CASE LookupMiss(t)
  <2>1. Aborting => ~Calm
    BY DEF Aborting, Calm
  <2> QED
    BY <1>1, <1>6, <2>1, SettleEffect, MoveEffect DEF LookupMiss
<1>7. CASE LookupTaken(t) \/ LookupError(t)
  BY <1>1, <1>7, SettleEffect, MoveEffect DEF LookupTaken, LookupError
<1> QED
  BY <1>3, <1>4, <1>5, <1>6, <1>7 DEF VisitLookup

LEMMA PublishEffect ==
    ASSUME RunInv, NEW t \in Task, VisitPublish(t)
    PROVE  Effect(t)
<1>1. /\ Visit("publish", t) /\ t \in Live
      /\ UNCHANGED <<plan, cancel, stalled>> /\ t \notin plan.service
  BY DEF VisitPublish, Visit, RunInv, LockInv, Lists, ListOf, Live, KindOf
<1>2. ~Doomed(t) /\ status[t] # "Ready"
  BY <1>1 DEF RunInv, LockInv, Lists, Live, LiveStatus, Doomed, KindOf, Bad
<1>3. CASE StopWorker(t)
  BY <1>1, <1>3, StayEffect DEF StopWorker
<1>4. CASE /\ Settle(t, Published(t))
           /\ IF Published(t) = "Succeeded" THEN UNCHANGED failed ELSE Fail(t)
  <2>1. /\ Published(t) \in {"Succeeded"} \cup Bad
        /\ Published(t) = "Cancelled" => ~Calm
    BY <1>1, WorkerStops DEF Published, Bad
  <2> QED
    BY <1>1, <1>2, <1>4, <2>1, SettleEffect DEF Bad
<1> QED
  BY <1>3, <1>4 DEF VisitPublish

-----------------------------------------------------------------------------
(* The reap pass. *)

LEMMA CompleteEffect ==
    ASSUME RunInv, NEW t \in Task, t \in Live, UNCHANGED <<plan, cancel, stalled>>,
           NEW s \in {"Succeeded"} \cup Bad, Complete(t, s),
           s = "Cancelled" => ~Calm,
           t \in plan.service /\ s = "Succeeded" => stop[t] = "Succeeded"
    PROVE  Effect(t)
<1>1. TypeOK /\ KindOf(t) /\ status[t] \in LiveStatus
  BY DEF RunInv, LockInv, Lists, Live
<1>2. CASE Retries(t, s) /\ BackOff(t) /\ UNCHANGED <<failed, action>>
  <2>1. t \notin plan.service
    BY <1>1, <1>2, PlanFacts DEF Retries, TypeOK
  <2> QED
    BY <1>2, <2>1, MoveEffect
<1>3. CASE /\ action[t] \/ t \in plan.products
           /\ \/ MoveTo(t, "saving") /\ UNCHANGED failed
              \/ Settle(t, "Failed") /\ Fail(t)
  <2>1. t \notin plan.service
    BY <1>1, <1>3, PlanFacts DEF KindOf
  <2> QED
    BY <1>3, <2>1, MoveEffect, SettleEffect
<1>4. CASE /\ Settle(t, s)
           /\ IF s = "Succeeded" THEN UNCHANGED failed ELSE Fail(t)
  <2>1. s = "Succeeded" => ~Doomed(t) /\ status[t] # "Ready"
    BY <1>1 DEF Doomed, KindOf, LiveStatus, Bad
  <2> QED
    BY <1>4, <2>1, SettleEffect DEF Bad
<1> QED
  BY <1>2, <1>3, <1>4 DEF Complete

\* A service that failed is a failure of the run.
LEMMA ServiceFailedIsNotCalm ==
    ASSUME RunInv, NEW t \in Task, ServiceFailed(t)
    PROVE  ~Calm
<1>1. PICK s \in plan.ancestors[t] : \/ Ended(s) /\ ~Satisfied(s)
                                     \/ stop[s] \notin {"none", "Succeeded"}
  BY DEF ServiceFailed
<1>2. s \in plan.service /\ s \in Task
  BY PlanFacts DEF RunInv, LockInv
<1>3. CASE stop[s] \notin {"none", "Succeeded"}
  BY <1>2, <1>3 DEF RunInv, KindOf, Calm
<1>4. CASE Ended(s) /\ ~Satisfied(s)
  <2>1. Forgiven(s) => condSkipped[s]
    BY <1>4 DEF Forgiven, Satisfied
  <2> QED
    BY <1>2, <1>4, <2>1 DEF RunInv, CalmSoFar, Calm
<1> QED
  BY <1>1, <1>3, <1>4

LEMMA TaskEffect ==
    ASSUME RunInv, NEW t \in Task, VisitTask(t)
    PROVE  Effect(t)
<1>1. /\ t \in Live /\ t \notin plan.service /\ UNCHANGED <<plan, cancel, stalled>>
  BY DEF VisitTask, Visit, RunInv, LockInv, Lists, ListOf, Live
<1>2. stopping => ~Calm
  BY DEF RunInv, Sampled, Aborting, Calm
<1>3. CASE Killed(t) /\ Complete(t, IF "task" \in due[t] THEN "TimedOut" ELSE "Cancelled")
  <2>1. "task" \notin due[t] => ~Calm
    BY <1>2, <1>3, ServiceFailedIsNotCalm DEF Killed
  <2> QED
    BY <1>1, <1>3, <2>1, CompleteEffect DEF Bad
<1>4. CASE Complete(t, IF work[t] = "ok" THEN "Succeeded" ELSE "Failed")
  BY <1>1, <1>4, CompleteEffect DEF Bad
<1>5. CASE UNCHANGED <<failed, tasks, timers, locks, action>>
  BY <1>1, <1>5, StayEffect DEF tasks
<1> QED
  BY <1>3, <1>4, <1>5 DEF VisitTask

\* A starved service is told to stop as failed, never as no longer needed.
LEMMA ServiceEffect ==
    ASSUME RunInv, NEW t \in Task, VisitService(t)
    PROVE  Effect(t)
<1>1. /\ t \in Live /\ t \in plan.service /\ UNCHANGED <<plan, cancel, stalled>>
      /\ pc = "reap"
  BY DEF VisitService, Visit, RunInv, LockInv, Lists, ListOf, Live
<1>2. TypeOK /\ KindOf(t) /\ status[t] \in LiveStatus /\ t \notin plan.allow
  BY <1>1, PlanFacts DEF RunInv, LockInv, Lists, Live
<1>3. stop[t] = "Cancelled" => ~Calm
  BY <1>2 DEF KindOf, Calm
<1>4. ~condSkipped[t]
  BY <1>2 DEF KindOf, LiveStatus
<1>5. CASE ServiceExited(t)
  BY <1>1, <1>2, <1>3, <1>5, CompleteEffect DEF ServiceExited, KindOf, Bad
<1>6. CASE ServiceShutsDown(t)
  <2>1. CASE Complete(t, stop[t])
    BY <1>1, <1>2, <1>3, <1>6, <2>1, CompleteEffect DEF ServiceShutsDown, KindOf
  <2>2. CASE UNCHANGED <<failed, tasks, locks, action>>
    BY <1>1, <2>2, StayEffect DEF tasks
  <2> QED
    BY <1>6, <2>1, <2>2 DEF ServiceShutsDown
<1>7. ASSUME NEW health, ServiceRuns(t, health)
      PROVE  Effect(t)
  <2>1. /\ UNCHANGED <<failed, condSkipped, stage, stop, action>>
        /\ status'[t] = "Ready" \/ status'[t] = status[t]
        /\ stop[t] = "none" /\ Others(t)
    BY <1>2, <1>7 DEF ServiceRuns, TypeOK, Others
  <2>2. KindOf(t)' /\ ~Ended(t)'
    BY <1>1, <1>2, <1>4, <2>1 DEF KindOf, Ended, Terminal, LiveStatus
  <2> QED
    BY <1>1, <1>2, <2>1, <2>2 DEF Effect, Doomed, LiveStatus, Bad
<1>8. ASSUME NEW health, ServiceStops(t, health)
      PROVE  Effect(t)
  <2> DEFINE why == ServiceStop(t, health)
  <2>1. /\ UNCHANGED <<condSkipped, stage, action>>
        /\ status'[t] = "Stopping" /\ stop'[t] = why
        /\ failed' = (failed \/ why # "Succeeded")
        /\ why # "none" /\ stop[t] = "none" /\ Others(t)
    BY <1>2, <1>8 DEF ServiceStops, TypeOK, Others
  <2>2. why \in {"none", "Succeeded"} \cup Bad
    BY DEF ServiceStop, Bad
  <2>3. stalled => why = "Failed"
    BY <1>1 DEF RunInv, Sampled, ServiceStop
  <2>4. KindOf(t)' /\ ~Ended(t)'
    BY <1>1, <1>2, <1>4, <2>1, <2>2 DEF KindOf, Ended, Terminal, Bad
  <2>5. failed' => failed \/ Doomed(t)'
    BY <1>1, <1>2, <2>1, <2>2 DEF Doomed
  <2>6. ~Doomed(t)
    BY <1>2, <2>1 DEF Doomed, LiveStatus, Bad
  <2>7. (failed => failed') /\ (stalled => failed') /\ (condSkipped[t] => condSkipped'[t])
    BY <2>1, <2>3
  <2> QED
    BY <2>1, <2>4, <2>5, <2>6, <2>7 DEF Effect
<1> QED
  BY <1>5, <1>6, <1>7, <1>8 DEF VisitService

-----------------------------------------------------------------------------
(* The dispatch sweep. *)

\* A Pending task is dropped: skipped, cancelled in a run that is not calm, or
\* with a failure that counts unless it is allowed.
LEMMA DropEffect ==
    ASSUME RunInv, NEW t \in Task, status[t] = "Pending", UNCHANGED <<plan, cancel, stalled>>,
           NEW s \in Terminal, Drop(t, s), \A u \in Task : action'[u] => action[u],
           \A u \in Task \ {t} : action'[u] = action[u],
           \/ /\ s = "Skipped" /\ UNCHANGED failed
              /\ condSkipped' = [condSkipped EXCEPT ![t] = @ \/ condSkipped'[t]]
              /\ Calm => condSkipped'[t]
           \/ s = "Cancelled" /\ ~Calm /\ UNCHANGED <<failed, condSkipped>>
           \/ s \in {"Failed", "TimedOut"} /\ Fail(t) /\ UNCHANGED condSkipped
    PROVE  Effect(t)
<1>1. TypeOK /\ KindOf(t)
  BY DEF RunInv, LockInv
<1>2. ~condSkipped[t] /\ stage[t] = "idle" /\ ~Doomed(t)
  BY <1>1 DEF RunInv, LockInv, Lists, LiveStatus, KindOf, Doomed, Bad
<1>3. UNCHANGED <<stage, stop>> /\ status'[t] = s /\ Others(t)
  BY <1>1 DEF Drop, TypeOK, Others
<1>4. failed => failed'
  BY DEF Fail
<1>5. t \in plan.service => stop[t] = "none"
  BY <1>1 DEF KindOf
<1>6. KindOf(t)'
  BY <1>1, <1>2, <1>3, <1>4, <1>5 DEF KindOf, Terminal
<1>7. Calm' => Calm
  <2>1. plan.service \subseteq Task
    BY <1>1, PlanFacts
  <2> QED
    BY <1>2, <1>3, <1>4, <2>1 DEF Calm, Others
<1>8. failed' => failed \/ Doomed(t)'
  BY <1>3 DEF Fail, Doomed, Bad
<1>9. Calm' => Forgiven(t)'
  <2>1. CASE s = "Skipped" \/ s = "Cancelled"
    BY <1>7, <2>1 DEF Forgiven
  <2>2. CASE s \in {"Failed", "TimedOut"} /\ Fail(t)
    BY <1>3, <2>2 DEF Forgiven, Fail, Calm
  <2> QED
    BY <2>1, <2>2
<1> QED
  BY <1>2, <1>3, <1>4, <1>6, <1>8, <1>9 DEF Effect

\* In a calm run a task is skipped only by a condition.
LEMMA SkipsCalmly ==
    ASSUME RunInv, NEW t \in Task, Calm, Verdict(t) \in {"abandon", "skip"}
    PROVE  Verdict(t) = "skip" /\ ConditionSkipped(t)
<1>1. ~ServiceFailed(t)
  BY ServiceFailedIsNotCalm
<1>2. Verdict(t) = "skip" /\ Gate(t) = "Skip"
  BY <1>1 DEF Verdict, PendingVerdict
<1>3. ASSUME plan.when[t] = "success", NEW p \in plan.needs[t]
      PROVE  condSkipped[p] \/ Satisfied(p)
  <2>1. ~Unsettled(t, p) /\ ~Finalizer(t) /\ p \in Task
    BY <1>2, <1>3, PlanFacts DEF Gate, Finalizer, FinalizerOf, RunInv, LockInv
  <2>2. CASE status[p] = "Ready"
    BY <2>2 DEF Satisfied
  <2>3. CASE Ended(p)
    BY <2>1, <2>3 DEF RunInv, CalmSoFar, Forgiven, Satisfied
  <2> QED
    BY <2>1, <2>2, <2>3 DEF Unsettled
<1> QED
  BY <1>2, <1>3 DEF ConditionSkipped

LEMMA DispatchEffect ==
    ASSUME RunInv, NEW t \in Task, Dispatch(t)
    PROVE  Effect(t)
<1>1. TypeOK /\ KindOf(t)
  BY DEF RunInv, LockInv
<1>2. Visit("dispatch", t) /\ UNCHANGED <<plan, cancel, stalled>>
  BY DEF VisitDispatch, Visit, Dispatch, DispatchNothing, DispatchSkip, DispatchCancel,
         DispatchExpire, DispatchBusy, DispatchError, DispatchStart, DispatchSpawnError
<1>3. Verdict(t) # "none" => status[t] = "Pending"
  BY DEF Verdict
<1>4. {"Skipped", "Cancelled", "TimedOut", "Failed"} \subseteq Terminal
  BY DEF Terminal
<1>5. CASE DispatchNothing(t)
  BY <1>2, <1>5, StayEffect DEF DispatchNothing, tasks
<1>6. CASE DispatchSkip(t)
  <2>1. /\ Drop(t, "Skipped") /\ UNCHANGED <<failed, action>>
        /\ condSkipped'[t] = (Verdict(t) = "skip" /\ ConditionSkipped(t))
        /\ status[t] = "Pending"
    BY <1>1, <1>3, <1>6 DEF DispatchSkip, TypeOK
  <2>2. Calm => condSkipped'[t]
    BY <1>6, <2>1, SkipsCalmly DEF DispatchSkip
  <2>3. condSkipped' = [condSkipped EXCEPT ![t] = condSkipped[t] \/ condSkipped'[t]]
    <3>1. ~condSkipped[t]
      BY <1>1, <2>1 DEF KindOf
    <3> QED
      BY <1>1, <1>6, <3>1, <2>1 DEF DispatchSkip, TypeOK
  <2> QED
    BY <1>2, <1>4, <2>1, <2>2, <2>3, DropEffect
<1>7. CASE DispatchCancel(t)
  <2>1. ~Calm
    BY <1>7 DEF DispatchCancel, Verdict, PendingVerdict, Aborting, Calm
  <2> QED
    BY <1>2, <1>3, <1>4, <1>7, <2>1, DropEffect DEF DispatchCancel
<1>8. ASSUME NEW s \in {"Failed", "TimedOut"}, Verdict(t) # "none", Drop(t, s), Fail(t),
             UNCHANGED condSkipped,
             UNCHANGED action \/ action' = [action EXCEPT ![t] = FALSE]
      PROVE  Effect(t)
  <2>1. /\ \A u \in Task : action'[u] => action[u]
        /\ \A u \in Task \ {t} : action'[u] = action[u]
    BY <1>1, <1>8 DEF TypeOK
  <2> QED
    BY <1>2, <1>3, <1>4, <1>8, <2>1, DropEffect
<1>9. CASE DispatchExpire(t) \/ DispatchError(t) \/ DispatchSpawnError(t)
  BY <1>8, <1>9 DEF DispatchExpire, DispatchError, DispatchSpawnError
<1>10. CASE DispatchBusy(t)
  <2>1. CASE Drop(t, "TimedOut") /\ Fail(t)
    BY <1>8, <1>10, <2>1 DEF DispatchBusy
  <2>2. CASE UNCHANGED <<failed, status, stage, work, stop, made, locks>>
    BY <1>2, <1>10, <2>2, StayEffect DEF DispatchBusy
  <2> QED
    BY <1>10, <2>1, <2>2 DEF DispatchBusy
<1>11. CASE DispatchStart(t)
  <2>1. /\ status[t] = "Pending" /\ status'[t] = "Running" /\ Others(t)
        /\ stage'[t] = IF NeedsLookup(t) THEN "preparing" ELSE "running"
        /\ UNCHANGED <<failed, condSkipped, stop, action>>
    BY <1>1, <1>3, <1>11 DEF DispatchStart, TypeOK, Others
  <2>2. KindOf(t)'
    BY <1>1, <1>2, <2>1 DEF KindOf, NeedsLookup
  <2> QED
    BY <2>1, <2>2 DEF Effect, Doomed, Bad, Ended, Terminal
<1> QED
  BY <1>5, <1>6, <1>7, <1>9, <1>10, <1>11 DEF Dispatch

-----------------------------------------------------------------------------
(* The steps that visit no task. *)

Quiet ==
    /\ UNCHANGED <<plan, failed, status, stop, condSkipped>>
    /\ cancel => cancel'
    /\ stalled => stalled'
    /\ \A u \in Task : stage'[u] \in {stage[u], "idle"}
    /\ \A u \in Task : action'[u] => action[u] \/ stage[u] = "preparing"

LEMMA QuietKeeps ==
    ASSUME RunInv, Quiet
    PROVE  Blamed' /\ CalmSoFar' /\ \A u \in Task : KindOf(u)'
<1>1. \A u \in Task : KindOf(u)'
  BY DEF RunInv, Quiet, KindOf
<1>2. Blamed'
  BY DEF RunInv, Quiet, Blamed, Doomed
<1>3. CalmSoFar'
  BY DEF RunInv, Quiet, CalmSoFar, Calm, Ended, Forgiven
<1> QED
  BY <1>1, <1>2, <1>3

LEMMA QuietSteps ==
    ASSUME RunInv, \/ BeginPass \/ NextPhase \/ Check \/ Abort \/ Environment
                   \/ Finished \/ UNCHANGED vars
    PROVE  Quiet
<1>1. TypeOK
  BY DEF RunInv, LockInv
<1>2. CASE BeginPass \/ NextPhase \/ Finished \/ UNCHANGED vars
  BY <1>2 DEF BeginPass, NextPhase, Finished, Quiet, vars, control, tasks
<1>3. CASE Check
  BY <1>3 DEF Check, Quiet, tasks
<1>4. CASE Abort
  BY <1>4 DEF Abort, Quiet
<1>5. CASE Environment
  <2>1. CASE Cancel
    BY <2>1 DEF Cancel, Quiet, tasks
  <2>2. ASSUME NEW t \in Task, LookupLock(t)
        PROVE  Quiet
    BY <1>1, <2>2 DEF LookupLock, Quiet, TypeOK, control, tasks
  <2>3. ASSUME NEW t \in Task, LookupDone(t) \/ ProcessDone(t) \/ PublicationDone(t)
        PROVE  Quiet
    <3>1. UNCHANGED <<plan, failed, status, stop, condSkipped, cancel, stalled, stage>>
      BY <2>3 DEF LookupDone, ProcessDone, PublicationDone, Report, control
    <3>2. UNCHANGED action \/ action' = [action EXCEPT ![t] = FALSE]
      BY <2>3 DEF LookupDone, ProcessDone, PublicationDone
    <3> QED
      BY <1>1, <3>1, <3>2 DEF Quiet, TypeOK
  <2>4. CASE \/ \E t \in Task, k \in Timer : Elapse(t, k)
             \/ \E r \in Resource \cup Key :
                   ForeignReturn(r) \/ \E mode \in {"shared", "exclusive"} : ForeignTake(r, mode)
    BY <2>4 DEF Elapse, ForeignReturn, ForeignTake, Quiet, control, tasks
  <2> QED
    BY <1>5, <2>1, <2>2, <2>3, <2>4 DEF Environment
<1> QED
  BY <1>2, <1>3, <1>4, <1>5

\* The environment moves neither the pass nor what it sampled.
LEMMA EnvironmentControl ==
    ASSUME Environment \/ Finished \/ UNCHANGED vars
    PROVE  UNCHANGED <<plan, pc, stopping, failed, stalled, outcome>>
<1>1. CASE Cancel \/ Finished \/ UNCHANGED vars
  BY <1>1 DEF Cancel, Finished, vars, control
<1>2. CASE Environment /\ ~Cancel
  BY <1>2 DEF Environment, LookupLock, LookupDone, ProcessDone, PublicationDone,
     Report, Elapse, ForeignReturn, ForeignTake, control
<1> QED
  BY <1>1, <1>2

\* A stall is seen while a ready service runs, which is then told to fail.
LEMMA StallsBlamed ==
    ASSUME RunInv, Stalls
    PROVE  \E s \in plan.service : status[s] = "Ready"
<1>1. PICK s \in RunningTasks(Task) : status[s] = "Ready"
  BY DEF Stalls
<1> QED
  BY <1>1 DEF RunningTasks, RunInv, KindOf

\* Why the published outcome agrees with what happened.
LEMMA OutcomeIsRight ==
    ASSUME RunInv, Check
    PROVE  OutcomeAgrees'
<1>1. SUFFICES ASSUME \A t \in Task : Ended(t)
               PROVE  /\ Outcome = "succeeded" => ~failed /\ ~stalled'
                      /\ Outcome = "failed" => failed \/ \E s \in plan.service : condSkipped[s]
  BY DEF Check, OutcomeAgrees, tasks
<1>2. plan.service \subseteq Task
  BY TaskAssumption, PlanFacts DEF RunInv, LockInv
<1>3. stalled' => failed
  <2>1. ~ \E s \in plan.service : status[s] = "Ready"
    BY <1>1, <1>2 DEF Ended, Terminal
  <2> QED
    BY <2>1, StallsBlamed DEF Check, RunInv, StallBlamed
<1>4. ASSUME failed
      PROVE  Outcome # "succeeded"
  <2>1. PICK t \in Task : Doomed(t)
    BY <1>4 DEF RunInv, Blamed
  <2>2. status[t] \in Bad /\ t \notin plan.allow
    BY <1>1, <2>1 DEF Doomed, Ended, Terminal
  <2>3. ~condSkipped[t] /\ status[t] # "Succeeded"
    BY <2>2 DEF RunInv, KindOf, Bad
  <2> QED
    BY <2>2, <2>3 DEF Outcome
<1>5. ASSUME Outcome = "failed", ~failed
      PROVE  \E s \in plan.service : condSkipped[s]
  <2>1. ~cancel /\ \E t \in Task : ~Forgiven(t)
    BY <1>5 DEF Outcome, Forgiven
  <2>2. ~stalled
    BY <1>3, <1>5 DEF Check
  <2> QED
    BY <1>1, <1>5, <2>1, <2>2 DEF RunInv, CalmSoFar, Calm
<1> QED
  BY <1>3, <1>4, <1>5

LEMMA RunStep == RunInv /\ [Next]_vars => RunInv'
<1> SUFFICES ASSUME RunInv, [Next]_vars PROVE RunInv'
  OBVIOUS
<1>1. LockInv'
  BY LockStep DEF RunInv
<1>2. ASSUME NEW t \in Task, \/ VisitLookup(t) \/ VisitPublish(t)
                             \/ VisitTask(t) \/ VisitService(t) \/ Dispatch(t)
      PROVE  RunRest'
  <2>1. Effect(t)
    BY <1>2, LookupEffect, PublishEffect, TaskEffect, ServiceEffect, DispatchEffect
  <2>2. \E phase \in {"lookup", "publish", "reap", "dispatch"} : Visit(phase, t)
    BY <1>2 DEF VisitLookup, VisitPublish, VisitTask, VisitService, Dispatch, VisitDispatch,
       DispatchNothing, DispatchSkip, DispatchCancel, DispatchExpire, DispatchBusy,
       DispatchError, DispatchStart, DispatchSpawnError
  <2> QED
    BY <2>1, <2>2, EffectKeeps
<1>3. ASSUME \/ BeginPass \/ NextPhase \/ Check \/ Abort \/ Environment
             \/ Finished \/ UNCHANGED vars
      PROVE  RunRest'
  <2>1. Quiet
    BY <1>3, QuietSteps
  <2>2. Blamed' /\ CalmSoFar' /\ \A u \in Task : KindOf(u)'
    BY <2>1, QuietKeeps
  <2>3. StallBlamed'
    <3>1. stalled' => stalled \/ Stalls
      BY <1>3, EnvironmentControl DEF BeginPass, NextPhase, Check, Abort
    <3> QED
      BY <2>1, <3>1, StallsBlamed DEF RunInv, StallBlamed, Quiet
  <2>4. Sampled'
    <3>1. CASE BeginPass
      BY <2>1, <3>1 DEF BeginPass, Sampled, Aborting
    <3>2. CASE NextPhase \/ Check \/ Abort
      BY <2>1, <3>2 DEF NextPhase, Check, Abort, Sampled, Aborting, Quiet, RunInv
    <3>3. CASE Environment \/ Finished \/ UNCHANGED vars
      BY <2>1, <3>3, EnvironmentControl DEF Sampled, Aborting, Quiet, RunInv
    <3> QED
      BY <1>3, <3>1, <3>2, <3>3
  <2>5. OutcomeAgrees'
    <3>1. CASE Check
      BY <3>1, OutcomeIsRight
    <3>2. CASE BeginPass \/ NextPhase \/ Abort
      BY <3>2 DEF BeginPass, NextPhase, Abort, OutcomeAgrees
    <3>3. CASE Environment \/ Finished \/ UNCHANGED vars
      BY <2>1, <3>3, EnvironmentControl DEF OutcomeAgrees, Quiet, RunInv
    <3> QED
      BY <1>3, <3>1, <3>2, <3>3
  <2> QED
    BY <2>2, <2>3, <2>4, <2>5 DEF RunRest
<1> QED
  BY <1>1, <1>2, <1>3 DEF Next, Pass, RunRest, RunInv

LEMMA RunInvariant == Spec => []RunInv
<1>1. Init => RunInv
  <2> SUFFICES ASSUME Init PROVE RunInv
    OBVIOUS
  <2>1. \A t \in Task : KindOf(t) /\ ~Ended(t)
    BY DEF Init, KindOf, Ended, Terminal, Bad
  <2>2. Sampled /\ Blamed /\ StallBlamed /\ OutcomeAgrees
    BY DEF Init, Sampled, Blamed, StallBlamed, OutcomeAgrees
  <2>3. LockInv
    BY LockInit
  <2> QED
    BY <2>1, <2>2, <2>3 DEF RunInv, CalmSoFar
<1> QED
  BY <1>1, RunStep, PTL DEF Spec

-----------------------------------------------------------------------------
(* Slots and starts. *)

\* Outside the sweep a task enters a list from another one only: to be saved,
\* or to run after a lookup that missed in a run that is not stopping.
Moves(u) ==
    \/ stage'[u] \in {stage[u], "idle"}
    \/ /\ u \in Live \ plan.service
       /\ \/ stage'[u] = "saving"
          \/ stage'[u] = "running" /\ ~stopping /\ ~Aborting

LEMMA CompleteMoves ==
    ASSUME RunInv, NEW t \in Task, t \in Live, NEW s, Complete(t, s)
    PROVE  \A u \in Task : Moves(u)
<1>1. TypeOK /\ KindOf(t)
  BY DEF RunInv, LockInv
<1>2. CASE \E w : Settle(t, w) \/ BackOff(t)
  BY <1>1, <1>2 DEF Settle, BackOff, TypeOK, Moves
<1>3. CASE (action[t] \/ t \in plan.products) /\ MoveTo(t, "saving")
  BY <1>1, <1>3, PlanFacts DEF KindOf, MoveTo, TypeOK, Moves
<1> QED
  BY <1>2, <1>3 DEF Complete

LEMMA LookupMoves ==
    ASSUME RunInv, NEW t \in Task, VisitLookup(t)
    PROVE  \A u \in Task : Moves(u)
<1>1. /\ TypeOK /\ t \in Live \ plan.service /\ t \in plan.cached /\ ~Finalizer(t)
  BY PlanFacts DEF VisitLookup, Visit, RunInv, LockInv, Lists, ListOf, Live, KindOf
<1>2. CASE StopWorker(t)
  BY <1>2 DEF StopWorker, Moves
<1>3. CASE \E s : Settle(t, s) \/ BackOff(t)
  BY <1>1, <1>3 DEF Settle, BackOff, TypeOK, Moves
<1>4. CASE MoveTo(t, "saving")
  BY <1>1, <1>4 DEF MoveTo, TypeOK, Moves
<1>5. CASE WorkerStop(t) = "none" /\ LookupMiss(t) /\ MoveTo(t, "running")
  <2>1. ~stopping
    BY <1>1, <1>5 DEF WorkerStop
  <2>2. CASE ~Aborting
    BY <1>1, <1>5, <2>1, <2>2 DEF MoveTo, TypeOK, Moves
  <2>3. CASE Aborting
    BY <1>1, <1>3, <1>5, <2>3 DEF LookupMiss
  <2> QED
    BY <2>2, <2>3
<1> QED
  BY <1>2, <1>3, <1>4, <1>5
  DEF VisitLookup, LookupHit, LookupMiss, LookupTaken, LookupError

LEMMA StageStep ==
    ASSUME RunInv, [Next]_vars
    PROVE  (\E t \in Task : DispatchStart(t)) \/ \A u \in Task : Moves(u)
<1>1. ASSUME NEW t \in Task, VisitPublish(t)
      PROVE  \A u \in Task : Moves(u)
  BY <1>1 DEF VisitPublish, StopWorker, Settle, RunInv, LockInv, TypeOK, Moves
<1>2. ASSUME NEW t \in Task, VisitTask(t) \/ VisitService(t)
      PROVE  \A u \in Task : Moves(u)
  <2>1. t \in Live
    BY <1>2 DEF VisitTask, VisitService, Visit, RunInv, LockInv, Lists, ListOf, Live
  <2>2. CASE \E s : Complete(t, s)
    BY <2>1, <2>2, CompleteMoves
  <2>3. CASE UNCHANGED stage
    BY <2>3 DEF Moves
  <2> QED
    BY <1>2, <2>2, <2>3 DEF VisitTask, VisitService, ServiceExited, ServiceRuns,
       ServiceStops, ServiceShutsDown, tasks
<1>3. ASSUME NEW t \in Task, Dispatch(t), ~DispatchStart(t)
      PROVE  \A u \in Task : Moves(u)
  BY <1>3 DEF Dispatch, DispatchNothing, DispatchSkip, DispatchCancel, DispatchExpire,
     DispatchBusy, DispatchError, DispatchSpawnError, Drop, tasks, Moves
<1>4. ASSUME \/ BeginPass \/ NextPhase \/ Check \/ Abort \/ Environment
             \/ Finished \/ UNCHANGED vars
      PROVE  \A u \in Task : Moves(u)
  BY <1>4, QuietSteps DEF Quiet, Moves
<1> QED
  BY <1>1, <1>2, <1>3, <1>4, LookupMoves DEF Next, Pass

LEMMA PlanStays ==
    ASSUME [Next]_vars
    PROVE  UNCHANGED plan
<1>1. CASE \E t \in Task : \/ VisitLookup(t) \/ VisitPublish(t)
                           \/ VisitTask(t) \/ VisitService(t) \/ Dispatch(t)
  BY <1>1 DEF VisitLookup, VisitPublish, VisitTask, VisitService, Dispatch, VisitDispatch,
     DispatchNothing, DispatchSkip, DispatchCancel, DispatchExpire, DispatchBusy,
     DispatchError, DispatchStart, DispatchSpawnError, Visit
<1>2. CASE BeginPass \/ NextPhase \/ Check \/ Abort
  BY <1>2 DEF BeginPass, NextPhase, Check, Abort
<1> QED
  BY <1>1, <1>2, EnvironmentControl DEF Next, Pass

LEMMA CapacityStep ==
    ASSUME RunInv, Capacity, [Next]_vars
    PROVE  Capacity'
<1>1. TypeOK /\ PlanType(plan) /\ UNCHANGED plan
  BY PlanIsTyped, PlanStays DEF RunInv, LockInv
<1> DEFINE Slots == Live \ plan.service
           Services == RunningTasks(plan.service)
<1>2. /\ IsFiniteSet(Slots) /\ Cardinality(Slots) \in Nat
      /\ IsFiniteSet(Services) /\ Cardinality(Services) \in Nat
  BY <1>1, LiveFinite DEF Live, RunningTasks, PlanType
<1>3. CASE \A u \in Task : Moves(u)
  <2>1. Slots' \subseteq Slots
    BY <1>1, <1>3 DEF Moves, Live
  <2>2. Services' \subseteq Services
    BY <1>1, <1>3 DEF Moves, RunningTasks, PlanType
  <2>3. /\ Cardinality(Slots') <= Cardinality(Slots) /\ Cardinality(Slots') \in Nat
        /\ Cardinality(Services') <= Cardinality(Services) /\ Cardinality(Services') \in Nat
    BY <1>2, <2>1, <2>2, FS_Subset, FS_CardinalityType
  <2>4. plan.jobs \in Nat /\ plan.maxServices \in Nat
    BY <1>1 DEF PlanType
  <2> QED
    BY <1>1, <1>2, <2>3, <2>4 DEF Capacity
<1>4. ASSUME NEW t \in Task, DispatchStart(t)
      PROVE  Capacity'
  <2>1. /\ HasSlot(t) /\ stage[t] = "idle"
    BY <1>4 DEF DispatchStart, VisitDispatch, Verdict, PendingVerdict, RunInv, LockInv, Lists, LiveStatus
  <2>2. /\ stage'[t] \in {"preparing", "running"}
        /\ \A u \in Task \ {t} : stage'[u] = stage[u]
    BY <1>1, <1>4 DEF DispatchStart, TypeOK
  <2>3. plan.jobs \in Nat /\ plan.maxServices \in Nat
    BY <1>1 DEF PlanType
  <2>4. CASE t \in plan.service
    <3>1. Slots' = Slots /\ Services' \subseteq Services \cup {t} /\ t \notin Services
      BY <1>1, <2>1, <2>2, <2>4 DEF Live, RunningTasks, PlanType
    <3>2. Cardinality(Services) < plan.maxServices
      BY <2>1, <2>4 DEF HasSlot
    <3>3. /\ Cardinality(Services \cup {t}) = Cardinality(Services) + 1
          /\ IsFiniteSet(Services \cup {t})
      BY <1>2, <3>1, FS_AddElement
    <3>4. Cardinality(Services') <= Cardinality(Services \cup {t}) /\ Cardinality(Services') \in Nat
      BY <3>1, <3>3, FS_Subset, FS_CardinalityType
    <3> QED
      BY <1>1, <1>2, <2>3, <3>1, <3>2, <3>3, <3>4 DEF Capacity
  <2>5. CASE t \notin plan.service
    <3>1. Services' = Services /\ Slots' = Slots \cup {t} /\ t \notin Slots
      BY <1>1, <2>1, <2>2, <2>5 DEF Live, RunningTasks, PlanType
    <3>2. Cardinality(Slots) < plan.jobs
      BY <2>1, <2>5 DEF HasSlot
    <3>3. /\ Cardinality(Slots') = Cardinality(Slots) + 1
          /\ Cardinality(Services') = Cardinality(Services)
      BY <1>2, <3>1, FS_AddElement
    <3>4. Cardinality(Slots') <= plan.jobs /\ Cardinality(Services') <= plan.maxServices
      BY <1>2, <2>3, <3>2, <3>3 DEF Capacity
    <3> QED
      BY <1>1, <3>4 DEF Capacity
  <2> QED
    BY <2>4, <2>5
<1> QED
  BY <1>3, <1>4, StageStep

\* The sweep and a lookup that misses look at the run again before they start
\* anything; only a finalizer starts in a run that is being stopped, and none
\* in one that stalled.
THEOREM StartsAreRight == Spec => NoStartWhileStopping
<1>1. ASSUME RunInv, [Next]_vars, NEW t \in Task, stopping \/ Aborting,
             stage[t] # "running", stage'[t] = "running"
      PROVE  Finalizer(t) /\ ~stalled
  <2>1. ASSUME NEW u \in Task, DispatchStart(u)
        PROVE  Finalizer(t) /\ ~stalled
    <3>1. u = t
      BY <1>1, <2>1 DEF DispatchStart, RunInv, LockInv, TypeOK
    <3>2. ~stalled /\ ~(Aborting /\ ~Finalizer(t))
      BY <2>1, <3>1 DEF DispatchStart, Verdict, PendingVerdict
    <3> QED
      BY <1>1, <3>2 DEF RunInv, Sampled
  <2>2. ~Moves(t)
    BY <1>1 DEF Moves
  <2> QED
    BY <1>1, <2>1, <2>2, StageStep
<1>2. RunInv /\ [Next]_vars =>
        [\A t \in Task : /\ stopping \/ Aborting
                         /\ stage[t] # "running" /\ stage'[t] = "running"
                         => Finalizer(t) /\ ~stalled]_vars
  BY <1>1
<1> QED
  BY <1>2, RunInvariant, PTL DEF Spec, NoStartWhileStopping

-----------------------------------------------------------------------------
(* Signals. *)

\* The shutdown timer of u starts in a step that finds no consumer left.
Signals(u) == "shutdown" \in armed'[u] => "shutdown" \in armed[u] \/ ~InUse(u)

LEMMA SignalStep ==
    ASSUME TypeOK, [Next]_vars
    PROVE  \A u \in Task : Signals(u)
<1>1. ASSUME NEW t \in Task, NEW s, Settle(t, s) \/ BackOff(t) \/ MoveTo(t, s)
      PROVE  \A u \in Task : Signals(u)
  BY <1>1 DEF Settle, BackOff, MoveTo, TypeOK, Signals, timers
<1>2. ASSUME NEW t \in Task, NEW s, Complete(t, s)
      PROVE  \A u \in Task : Signals(u)
  BY <1>1, <1>2 DEF Complete
<1>3. ASSUME NEW t \in Task, VisitLookup(t) \/ VisitPublish(t)
      PROVE  \A u \in Task : Signals(u)
  BY <1>1, <1>3 DEF VisitLookup, VisitPublish, StopWorker, LookupHit, LookupMiss,
     LookupTaken, LookupError, Signals, timers
<1>4. ASSUME NEW t \in Task, VisitTask(t)
      PROVE  \A u \in Task : Signals(u)
  BY <1>2, <1>4 DEF VisitTask, Signals, timers
<1>5. ASSUME NEW t \in Task, VisitService(t)
      PROVE  \A u \in Task : Signals(u)
  <2>1. CASE Signal(t)
    BY <2>1 DEF Signal, TypeOK, Signals
  <2>2. ASSUME NEW health, ServiceRuns(t, health)
        PROVE  \A u \in Task : Signals(u)
    BY <2>2 DEF ServiceRuns, TypeOK, Signals
  <2> QED
    BY <1>2, <1>5, <2>1, <2>2 DEF VisitService, ServiceExited, ServiceStops, ServiceShutsDown
<1>6. ASSUME NEW t \in Task, Dispatch(t)
      PROVE  \A u \in Task : Signals(u)
  <2>1. CASE \E s : Drop(t, s)
    BY <2>1 DEF Drop, TypeOK, Signals
  <2>2. CASE DispatchNothing(t)
    BY <2>2 DEF DispatchNothing, timers, Signals
  <2>3. CASE DispatchBusy(t) \/ DispatchStart(t)
    BY <2>1, <2>3 DEF DispatchBusy, DispatchStart, TypeOK, Signals
  <2> QED
    BY <1>6, <2>1, <2>2, <2>3 DEF Dispatch, DispatchSkip, DispatchCancel, DispatchExpire,
       DispatchError, DispatchSpawnError
<1>7. CASE \/ BeginPass \/ NextPhase \/ Check \/ Abort \/ Environment
           \/ Finished \/ UNCHANGED vars
  BY <1>7 DEF BeginPass, NextPhase, Check, Abort, Environment, Finished, Cancel, LookupLock,
     LookupDone, ProcessDone, PublicationDone, Report, Elapse, ForeignReturn, ForeignTake,
     vars, timers, Signals
<1> QED
  BY <1>3, <1>4, <1>5, <1>6, <1>7 DEF Next, Pass

LEMMA NoEarlySignalStep ==
    ASSUME RunInv, NoEarlySignal, [Next]_vars
    PROVE  NoEarlySignal'
<1>1. TypeOK /\ UNCHANGED plan /\ plan.service \subseteq Task
  BY PlanStays, PlanFacts, TaskAssumption DEF RunInv, LockInv
<1>2. \A d \in Task : Ended(d) => Ended(d)'
  BY EndedStays DEF RunInv, Ended
<1>3. \A s \in Task : InUse(s)' => InUse(s)
  BY <1>1, <1>2 DEF InUse
<1> QED
  BY <1>1, <1>3, SignalStep DEF NoEarlySignal, Signals

-----------------------------------------------------------------------------
(* Action locks. *)

\* The lock of u's action is taken by its lookup worker only.
Locks(u) == action'[u] => action[u] \/ LookupLock(u)

LEMMA ActionStep ==
    ASSUME TypeOK, [Next]_vars
    PROVE  \A u \in Task : Locks(u)
<1>1. ASSUME NEW t \in Task, UNCHANGED action \/ action' = [action EXCEPT ![t] = FALSE]
      PROVE  \A u \in Task : Locks(u)
  BY <1>1 DEF TypeOK, Locks
<1>2. ASSUME NEW t \in Task, \/ VisitLookup(t) \/ VisitPublish(t)
                             \/ VisitTask(t) \/ VisitService(t)
      PROVE  UNCHANGED action \/ action' = [action EXCEPT ![t] = FALSE]
  <2>1. ASSUME NEW s, Complete(t, s)
        PROVE  UNCHANGED action \/ action' = [action EXCEPT ![t] = FALSE]
    BY <2>1 DEF Complete, Settle, MoveTo
  <2> QED
    BY <1>2, <2>1 DEF VisitLookup, VisitPublish, VisitTask, VisitService, StopWorker, LookupHit,
       LookupMiss, LookupTaken, LookupError, Settle, MoveTo, ServiceExited, ServiceRuns,
       ServiceStops, ServiceShutsDown
<1>3. ASSUME NEW t \in Task, Dispatch(t)
      PROVE  UNCHANGED action \/ action' = [action EXCEPT ![t] = FALSE]
  BY <1>3 DEF Dispatch, DispatchNothing, DispatchSkip, DispatchCancel, DispatchExpire,
     DispatchBusy, DispatchError, DispatchStart, DispatchSpawnError
<1>4. ASSUME NEW t \in Task, LookupLock(t)
      PROVE  \A u \in Task : Locks(u)
  BY <1>4 DEF LookupLock, TypeOK, Locks
<1>5. CASE Abort
  BY <1>5 DEF Abort, Locks
<1>6. CASE BeginPass \/ NextPhase \/ Check \/ Finished \/ UNCHANGED vars
  BY <1>6 DEF BeginPass, NextPhase, Check, Finished, vars, Locks
<1>7. CASE Environment
  <2>1. CASE Cancel \/ \E r \in Resource \cup Key :
                   ForeignReturn(r) \/ \E mode \in {"shared", "exclusive"} : ForeignTake(r, mode)
    BY <2>1 DEF Cancel, ForeignReturn, ForeignTake, Locks
  <2>2. ASSUME NEW t \in Task, \/ LookupDone(t) \/ ProcessDone(t) \/ PublicationDone(t)
                               \/ \E k \in Timer : Elapse(t, k)
        PROVE  UNCHANGED action \/ action' = [action EXCEPT ![t] = FALSE]
    BY <2>2 DEF LookupDone, ProcessDone, PublicationDone, Elapse
  <2> QED
    BY <1>1, <1>4, <1>7, <2>1, <2>2 DEF Environment
<1> QED
  BY <1>1, <1>2, <1>3, <1>5, <1>6, <1>7 DEF Next, Pass

LEMMA ActionExclusionStep ==
    ASSUME RunInv, ActionExclusion, [Next]_vars
    PROVE  ActionExclusion'
<1>1. TypeOK /\ PlanType(plan) /\ UNCHANGED plan /\ plan.cached \subseteq Task
  BY PlanIsTyped, PlanStays DEF RunInv, LockInv, PlanType
<1>2. \A u \in Task : (action[u] => u \in plan.cached) /\ plan.key[u] \in Key
  BY <1>1 DEF RunInv, KindOf, PlanType
<1>3. CASE \E t \in Task : LookupLock(t)
  <2>1. PICK t \in Task : LookupLock(t)
    BY <1>3
  <2>2. /\ \A u \in Task : action'[u] => action[u] \/ u = t
        /\ UNCHANGED foreign /\ foreign[plan.key[t]] = "free"
        /\ \A u \in Task \ {t} : action[u] => plan.key[u] # plan.key[t]
    BY <1>1, <2>1 DEF LookupLock, ActionFree, TypeOK
  <2> QED
    BY <1>1, <1>2, <2>2 DEF ActionExclusion
<1>4. CASE ~ \E t \in Task : LookupLock(t)
  <2>1. \A u \in Task : action'[u] => action[u]
    BY <1>1, <1>4, ActionStep DEF Locks
  <2>2. \A u \in Task : action[u] => foreign'[plan.key[u]] = "free"
    <3>1. CASE UNCHANGED foreign
      BY <1>2, <3>1 DEF ActionExclusion
    <3>2. ASSUME NEW r \in Resource \cup Key, ForeignReturn(r)
          PROVE  \A u \in Task : action[u] => foreign'[plan.key[u]] = "free"
      BY <1>1, <1>2, <3>2 DEF ForeignReturn, ActionExclusion, TypeOK
    <3>3. ASSUME NEW r \in Resource \cup Key, NEW mode \in {"shared", "exclusive"},
                 ForeignTake(r, mode)
          PROVE  \A u \in Task : action[u] => foreign'[plan.key[u]] = "free"
      <4>1. \A u \in Task : action[u] => plan.key[u] # r
        BY <1>2, <3>3 DEF ForeignTake
      <4> QED
        BY <1>1, <1>2, <3>3, <4>1 DEF ForeignTake, ActionExclusion, TypeOK
    <3>4. \/ UNCHANGED foreign
          \/ \E r \in Resource \cup Key :
                ForeignReturn(r) \/ \E mode \in {"shared", "exclusive"} : ForeignTake(r, mode)
      BY LeaseStep DEF RunInv, LockInv, SameLeases, Frees, Takes, Abort
    <3> QED
      BY <3>1, <3>2, <3>3, <3>4
  <2> QED
    BY <1>1, <1>2, <2>1, <2>2 DEF ActionExclusion
<1> QED
  BY <1>3, <1>4

-----------------------------------------------------------------------------
\* A run keeps to its slots, signals no service that is in use, shares no
\* action with another task or run, and publishes an outcome that agrees with
\* what happened, whatever the plan and the order of events.
THEOREM RunsKeepTheirWord == Spec => []RunsAreRight
<1>1. Init => Capacity /\ NoEarlySignal /\ ActionExclusion
  <2> SUFFICES ASSUME Init PROVE Capacity /\ NoEarlySignal /\ ActionExclusion
    OBVIOUS
  <2>1. PlanType(plan)
    BY InitTyped, PlanIsTyped
  <2>2. Live \ plan.service = {} /\ RunningTasks(plan.service) = {}
    BY <2>1 DEF Init, Live, RunningTasks, PlanType
  <2>3. Capacity
    <3>1. Cardinality(Live \ plan.service) = 0 /\ Cardinality(RunningTasks(plan.service)) = 0
      BY <2>2, FS_EmptySet
    <3> QED
      BY <2>1, <3>1 DEF Capacity, PlanType
  <2>4. NoEarlySignal /\ ActionExclusion
    BY <2>1 DEF Init, NoEarlySignal, ActionExclusion, PlanType
  <2> QED
    BY <2>3, <2>4
<1>2. /\ RunInv /\ Capacity /\ NoEarlySignal /\ ActionExclusion
      /\ [Next]_vars
      => (Capacity /\ NoEarlySignal /\ ActionExclusion)'
  BY CapacityStep, NoEarlySignalStep, ActionExclusionStep
<1>3. RunInv /\ Capacity /\ NoEarlySignal /\ ActionExclusion => RunsAreRight
  BY DEF RunInv, RunsAreRight
<1> QED
  BY <1>1, <1>2, <1>3, RunInvariant, PTL DEF Spec
=============================================================================
