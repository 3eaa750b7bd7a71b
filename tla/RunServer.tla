------------------------------ MODULE RunServer ------------------------------
(***************************************************************************)
(* The run server: engine/crates/server/src/runs.rs and runs/admission.rs. *)
(*                                                                         *)
(* Request threads admit and cancel runs, one worker thread executes each  *)
(* run, and a process that was killed or shut down is started again on the *)
(* same directory.  A step is what happens between two points at which     *)
(* another thread can act or the process can die: one save, one critical   *)
(* section, one wait.  A save that fails leaves the old or the new file.   *)
(*                                                                         *)
(* The mutexes: `adm` is not None while `active` is held by an admission,  *)
(* `op` is not None while `shutdown_lock` is held, and a RunControl is     *)
(* locked by a canceller in step "save".                                   *)
(***************************************************************************)
EXTENDS Integers, FiniteSets, Sequences, SequencesExt

CONSTANTS Run,          \* run ids, a fresh one for each admission
          Key,          \* idempotency keys
          None,
          MaxRunning,   \* max_runs
          MaxQueued,    \* max_queued
          ResumeModes,  \* values of --resume-queued over the restarts
          MaxFaults,    \* bound: saves and spawns that fail
          MaxCrashes    \* bound: times the process is killed

ASSUME RunAssumption == IsFiniteSet(Run) /\ None \notin Run \cup Key
ASSUME Capacities == MaxRunning \in Nat \ {0} /\ MaxQueued \in Nat
ASSUME Modes == ResumeModes \subseteq BOOLEAN
ASSUME Bounds == MaxFaults \in Nat /\ MaxCrashes \in Nat

Outcome == {"succeeded", "failed", "cancelled"}
Final == Outcome \cup {"interrupted"}
Status == {"queued", "running"} \cup Final
WorkerStep == {"none", "wait", "start", "execute", "finish", "ended", "gone"}

\* What stands for no status, no verdict, no key yet and no admission is none of them.
ASSUME Distinct == None \notin Status \cup {"error"} /\ "fresh" \notin Key \cup {None}
ASSUME NoAdmission == None \notin [run : Run, step : {"state", "key", "record", "spawn", "fail"}]

VARIABLES
    \* the data directory
    state,       \* state.json, None before it is written
    admitted,    \* the sequence number of admitted.json, 0 without the file
    result,      \* the outcome of execution/result.json, or None
    submission,  \* the run a key was used for
    executions,  \* times the run was executed: 0 without execution/
    \* the process
    phase,       \* "down", "recovering", "resuming", "up", "stopping", "closed", "refused"
    boot,        \* the runs recovery has still to inspect, the ones it found,
                 \* and --resume-queued
    sequence,    \* the last sequence number handed out
    adm,         \* the admission under way
    op,          \* the cancellation or shutdown under way
    slots,       \* runs that hold an execution slot
    queue,       \* State::queued
    active,      \* keys of Runs::active
    mem,         \* RunControl::state, None without a control
    token,       \* RunControl::cancel
    worker,      \* where the worker thread is
    verdict,     \* what the worker will report
    \* history
    keyOf,       \* the key a run was submitted with, "fresh" before that
    cancelled,   \* runs whose cancellation was acknowledged before they executed
    torn,        \* runs whose executor failed after it wrote the report
    faults, crashes

disk == <<state, admitted, result, submission, executions>>
admission == <<slots, queue>>
workers == <<active, mem, token, worker, verdict>>
server == <<phase, boot, sequence>>
history == <<keyOf, cancelled, torn, crashes>>
vars == <<disk, server, adm, op, admission, workers, history, faults>>

-----------------------------------------------------------------------------
(* Saving and reserving. *)

Fault == faults < MaxFaults /\ faults' = faults + 1

\* save(state.json): after an error the file has the old or the new content.
Saved(r, s) == state' = [state EXCEPT ![r] = s] /\ UNCHANGED faults
Unsaved(r, s) == Fault /\ state' \in {state, [state EXCEPT ![r] = s]}

SlotFree(free) == free > 0 /\ queue = <<>>

Reserve(r) ==
    \/ /\ SlotFree(MaxRunning - Cardinality(slots))
       /\ slots' = slots \cup {r} /\ UNCHANGED queue
    \/ /\ ~SlotFree(MaxRunning - Cardinality(slots)) /\ Len(queue) < MaxQueued
       /\ queue' = Append(queue, r) /\ UNCHANGED slots

\* VecDeque::retain: the n-th place that is kept has n of them up to it.
Staying(s, S, k) == {i \in 1..k : s[i] \notin S}
Without(s, S) ==
    [n \in 1..Cardinality(Staying(s, S, Len(s))) |->
        s[CHOOSE k \in DOMAIN s : k \in Staying(s, S, k) /\ Cardinality(Staying(s, S, k)) = n]]

Dequeue(r) == queue' = Without(queue, {r})

\* Mutant: a reservation that owns a slot is dropped without releasing it.
ReleaseQueued(r) == Dequeue(r) /\ UNCHANGED slots

\* Reservation::drop
Release(r) == slots' = slots \ {r} /\ Dequeue(r)

-----------------------------------------------------------------------------
(* Admission: `admit`, under the lock of `active`. *)

\* replay finds no submission with the key.
Unused(k) == k \in Key => submission[k] = None

Submit(r, k) ==
    /\ phase = "up" /\ adm = None /\ keyOf[r] = "fresh" /\ Unused(k)
    /\ Reserve(r)
    /\ adm' = [run |-> r, step |-> "state"]
    /\ active' = {a \in active : worker[a] # "gone"}
    /\ keyOf' = [keyOf EXCEPT ![r] = k]
    /\ UNCHANGED <<disk, server, op, mem, token, worker, verdict, cancelled, torn, crashes, faults>>

NextAdmission(step) == adm' = [adm EXCEPT !.step = step]

AdmitStep(step) ==
    /\ adm # None /\ adm.step = step
    /\ UNCHANGED <<result, executions, phase, boot, op, history>>

InitialStatus(r) == IF r \in slots THEN "running" ELSE "queued"

\* plan.json is written first: with state.json there is always a plan.
AdmitState ==
    /\ AdmitStep("state")
    /\ LET s == InitialStatus(adm.run) IN
       \/ Saved(adm.run, s) /\ NextAdmission("key")
       \/ Unsaved(adm.run, s) /\ NextAdmission("fail")
    /\ UNCHANGED <<admitted, submission, sequence, admission, workers>>

AdmitKey ==
    /\ AdmitStep("key")
    /\ LET k == keyOf[adm.run]
           Recorded == [submission EXCEPT ![k] = adm.run] IN
       \/ k = None /\ UNCHANGED <<submission, faults>> /\ NextAdmission("record")
       \/ /\ k # None /\ submission' = Recorded /\ UNCHANGED faults
          /\ NextAdmission("record")
       \/ /\ k # None /\ Fault /\ submission' \in {submission, Recorded}
          /\ NextAdmission("fail")
    /\ UNCHANGED <<state, admitted, sequence, admission, workers>>

AdmitRecord ==
    /\ AdmitStep("record")
    /\ sequence' = sequence + 1
    /\ LET Recorded == [admitted EXCEPT ![adm.run] = sequence + 1] IN
       \/ admitted' = Recorded /\ UNCHANGED faults /\ NextAdmission("spawn")
       \/ Fault /\ admitted' \in {admitted, Recorded} /\ NextAdmission("fail")
    /\ UNCHANGED <<state, submission, admission, workers>>

\* spawn_run: a control whose memory is the status on disk, and its worker.
Spawn(r, s) ==
    /\ active' = active \cup {r}
    /\ mem' = [mem EXCEPT ![r] = s]
    /\ worker' = [worker EXCEPT ![r] = "wait"]
    /\ UNCHANGED <<token, verdict>>

AdmitSpawn ==
    /\ AdmitStep("spawn")
    /\ Spawn(adm.run, InitialStatus(adm.run)) /\ adm' = None
    /\ UNCHANGED <<state, admitted, submission, sequence, admission, faults>>

\* The thread cannot be spawned: the reservation is dropped with its closure,
\* and "failed" is saved by the next step.
SpawnFails ==
    /\ AdmitStep("spawn") /\ Fault /\ NextAdmission("fail") /\ Release(adm.run)
    /\ UNCHANGED <<state, admitted, submission, sequence, workers>>

\* 500: the state becomes "failed" if it can be saved, the place is given back.
AdmitFail ==
    /\ AdmitStep("fail")
    /\ \/ Saved(adm.run, "failed")
       \/ Unsaved(adm.run, "failed")
       \/ state[adm.run] = None /\ UNCHANGED <<state, faults>>  \* there is no directory
    /\ Release(adm.run) /\ adm' = None
    /\ UNCHANGED <<admitted, submission, sequence, workers>>

Admission == \/ AdmitState \/ AdmitKey \/ AdmitRecord
             \/ AdmitSpawn \/ SpawnFails \/ AdmitFail

-----------------------------------------------------------------------------
(* The worker thread of a run: the closure of spawn_run. *)

ControlLocked(r) == op # None /\ op.step = "save" /\ op.run = r

WorkerAt(r, step) ==
    /\ worker[r] = step
    /\ UNCHANGED <<admitted, submission, server, adm, op, active, token,
                   keyOf, cancelled, crashes>>

GoTo(r, step) == worker' = [worker EXCEPT ![r] = step]

\* The executor, or what precedes it, returned an error.
Erred(r) ==
    /\ GoTo(r, "finish")
    /\ verdict' = [verdict EXCEPT ![r] = IF token[r] THEN "cancelled" ELSE "error"]

Granted(r) == /\ Cardinality(slots) < MaxRunning
              /\ queue # <<>> /\ Head(queue) = r

\* Reservation::wait
Wait(r) ==
    /\ WorkerAt(r, "wait")
    /\ \/ token[r] /\ Erred(r) /\ UNCHANGED admission
       \/ /\ ~token[r] /\ r \in slots
          /\ GoTo(r, "start") /\ UNCHANGED <<admission, verdict>>
       \/ /\ ~token[r] /\ r \notin slots /\ Granted(r)
          /\ slots' = slots \cup {r} /\ queue' = Tail(queue)
          /\ GoTo(r, "start") /\ UNCHANGED verdict
    /\ UNCHANGED <<state, result, executions, mem, torn, faults>>

\* RunControl::start, then the executor creates execution/.
Start(r) ==
    /\ WorkerAt(r, "start") /\ ~ControlLocked(r)
    /\ \/ token[r] /\ Erred(r) /\ UNCHANGED <<state, mem, executions, faults>>
       \/ /\ ~token[r]
          /\ IF mem[r] = "queued" THEN Saved(r, "running") ELSE UNCHANGED <<state, faults>>
          /\ mem' = [mem EXCEPT ![r] = "running"]
          /\ executions' = [executions EXCEPT ![r] = @ + 1]
          /\ GoTo(r, "execute") /\ UNCHANGED verdict
       \/ /\ ~token[r] /\ mem[r] = "queued" /\ Unsaved(r, "running")
          /\ Erred(r) /\ UNCHANGED <<mem, executions>>
    /\ UNCHANGED <<result, admission, torn>>

\* Plan::execute returns: with a report, or with an error before or after it.
Execute(r) ==
    /\ WorkerAt(r, "execute")
    /\ \/ Erred(r) /\ UNCHANGED <<result, torn, faults>>
       \/ \E o \in Outcome :
             /\ o = "cancelled" => token[r]
             /\ result' = [result EXCEPT ![r] = o]
             /\ \/ /\ verdict' = [verdict EXCEPT ![r] = o] /\ GoTo(r, "finish")
                   /\ UNCHANGED <<torn, faults>>
                \/ Erred(r) /\ torn' = torn \cup {r} /\ Fault
    /\ UNCHANGED <<state, executions, admission, mem>>

\* An error is classified by the token a moment before finish is called.
Reported(r) == IF verdict[r] # "error" THEN {verdict[r]}
               ELSE {"failed"} \cup (IF token[r] THEN {"cancelled"} ELSE {})

\* RunControl::finish
Finish(r) ==
    /\ WorkerAt(r, "finish") /\ ~ControlLocked(r)
    /\ \/ mem[r] = "cancelled" /\ UNCHANGED <<state, mem, faults>>
       \/ /\ mem[r] # "cancelled"
          /\ \E s \in Reported(r) :
                \/ Saved(r, s) /\ mem' = [mem EXCEPT ![r] = s]
                \/ Unsaved(r, s) /\ UNCHANGED mem
    /\ GoTo(r, "ended")
    /\ UNCHANGED <<result, executions, admission, verdict, torn>>

\* The reservation is dropped with the closure, and the thread is finished.
Exit(r) ==
    /\ WorkerAt(r, "ended")
    /\ Release(r) /\ GoTo(r, "gone")
    /\ UNCHANGED <<state, result, executions, mem, verdict, torn, faults>>

Work(r) == Wait(r) \/ Start(r) \/ Execute(r) \/ Finish(r) \/ Exit(r)

-----------------------------------------------------------------------------
(* Cancellation and shutdown, under shutdown_lock. *)

Acknowledge(r) == cancelled' = IF executions[r] = 0 THEN cancelled \cup {r} ELSE cancelled

\* cancel_run: the control of a worker that is not finished, or else the disk.
\* A request that waited for a shutdown to end still gets its turn.
CancelRun(r) ==
    /\ phase \in {"up", "closed"} /\ op = None /\ adm = None /\ state[r] # None
    /\ LET live == r \in active /\ worker[r] # "gone" IN
       /\ op' = [run |-> r, step |-> IF live THEN "token" ELSE "disk", rest |-> {}]
       /\ active' = IF live THEN active ELSE active \ {r}
    /\ UNCHANGED <<disk, server, adm, admission, mem, token, worker, verdict, history, faults>>

AtCancel(step) ==
    /\ op # None /\ op.step = step
    /\ UNCHANGED <<admitted, result, submission, executions, boot, sequence, adm,
                   slots, active, worker, verdict, keyOf, torn, crashes>>

Signalled(r) == [token EXCEPT ![r] = TRUE]

\* RunControl::cancel: the token first, then the queued state.
CancelToken ==
    /\ AtCancel("token")
    /\ token' = Signalled(op.run)
    /\ op' = [op EXCEPT !.step = "save"]
    /\ UNCHANGED <<state, phase, queue, mem, cancelled, faults>>

AfterCancel == op' = IF phase = "stopping" THEN [op EXCEPT !.step = "next"] ELSE None

\* Mutant: the cancellation is acknowledged from memory.
QueuedCancelledInMemory(r) ==
    /\ mem' = [mem EXCEPT ![r] = "cancelled"] /\ Dequeue(r) /\ Acknowledge(r)
    /\ UNCHANGED <<state, faults>>
QueuedCancelled(r) ==
    \/ /\ Saved(r, "cancelled") /\ mem' = [mem EXCEPT ![r] = "cancelled"]
       /\ Dequeue(r) /\ Acknowledge(r)
    \/ Unsaved(r, "cancelled") /\ UNCHANGED <<mem, queue, cancelled>>

CancelSave ==
    /\ AtCancel("save") /\ AfterCancel
    /\ \/ mem[op.run] = "queued" /\ QueuedCancelled(op.run)
       \/ /\ mem[op.run] # "queued" /\ Acknowledge(op.run)
          /\ UNCHANGED <<state, mem, queue, faults>>
    /\ UNCHANGED <<phase, token>>

\* What recovery, or a late cancellation, makes of an inactive running state.
Recovered(r) == IF result[r] # None THEN result[r] ELSE "interrupted"

Repaired(r) == CASE state[r] = "queued" -> "cancelled"
                 [] state[r] = "running" -> Recovered(r)
                 [] OTHER -> state[r]

CancelDisk ==
    /\ AtCancel("disk") /\ op' = None
    /\ \/ Saved(op.run, Repaired(op.run)) /\ Acknowledge(op.run)
       \/ Unsaved(op.run, Repaired(op.run)) /\ UNCHANGED cancelled
    /\ UNCHANGED <<phase, queue, mem, token>>

Draining(S) == [run |-> None, step |-> "next", rest |-> S]

\* shutdown: every active worker is cancelled, then joined.
Shutdown ==
    /\ phase = "up" /\ op = None /\ adm = None
    /\ phase' = "stopping" /\ op' = Draining(active) /\ active' = {}
    /\ UNCHANGED <<disk, boot, sequence, adm, admission, mem, token, worker,
                   verdict, history, faults>>

ShutdownNext(r) ==
    /\ AtCancel("next") /\ r \in op.rest
    /\ op' = [run |-> r, step |-> "token", rest |-> op.rest \ {r}]
    /\ UNCHANGED <<state, phase, queue, mem, token, cancelled, faults>>

Joined ==
    /\ AtCancel("next") /\ op.rest = {} /\ op' = None
    /\ \A r \in Run : worker[r] \in {"none", "gone"}
    /\ phase' = "closed"
    /\ UNCHANGED <<state, queue, mem, token, cancelled, faults>>

\* The memory of the process is gone.
Off(next) ==
    /\ phase' = next /\ boot' = [todo |-> {}, found |-> <<>>, resume |-> FALSE]
    /\ sequence' = 0 /\ adm' = None /\ op' = None
    /\ slots' = {} /\ queue' = <<>> /\ active' = {}
    /\ mem' = [r \in Run |-> None] /\ token' = [r \in Run |-> FALSE]
    /\ worker' = [r \in Run |-> "none"] /\ verdict' = [r \in Run |-> None]
    /\ UNCHANGED <<admitted, result, submission, executions, keyOf, cancelled, torn>>

ProcessEnds ==
    /\ phase = "closed" /\ op = None /\ Off("down")
    /\ UNCHANGED <<state, faults, crashes>>

Crash ==
    /\ phase \notin {"down", "refused"} /\ crashes < MaxCrashes
    /\ crashes' = crashes + 1 /\ Off("down")
    /\ UNCHANGED <<state, faults>>

Cancelling == \/ CancelToken \/ CancelSave \/ CancelDisk \/ Joined \/ ProcessEnds
              \/ \E r \in Run : ShutdownNext(r)

-----------------------------------------------------------------------------
(* Restart: with_recovery, then resume_queued. *)

MaxOf(S) == CHOOSE x \in S : \A y \in S : y <= x

LastSequence == MaxOf({0} \cup {admitted[r] : r \in Run})

Restart(resume) ==
    /\ phase \in {"down", "refused"}
    /\ phase' = "recovering" /\ sequence' = LastSequence
    /\ boot' = [todo |-> {r \in Run : state[r] # None}, found |-> <<>>, resume |-> resume]
    /\ UNCHANGED <<disk, adm, op, admission, workers, history, faults>>

Resumable(r) == /\ boot.resume /\ state[r] = "queued"
                /\ admitted[r] # 0 /\ executions[r] = 0

Settled(r) == CASE state[r] = "queued" -> "interrupted"
                [] state[r] = "running" -> Recovered(r)
                [] OTHER -> state[r]

\* Mutant: the latest admission first.
BySequenceDown(r, q) == admitted[r] > admitted[q]
BySequence(r, q) == admitted[r] < admitted[q]

\* The found runs are kept sorted: r comes after those it does not precede.
Place(r) == 1 + Cardinality({i \in DOMAIN boot.found : ~BySequence(r, boot.found[i])})

\* One entry of the data directory.
RecoverRun(r) ==
    /\ phase = "recovering" /\ r \in boot.todo
    /\ \/ /\ boot' = [boot EXCEPT !.todo = @ \ {r},
                         !.found = IF Resumable(r) THEN InsertAt(@, Place(r), r) ELSE @]
          /\ IF Resumable(r) THEN UNCHANGED <<state, faults>> ELSE Saved(r, Settled(r))
          /\ UNCHANGED <<admitted, result, submission, executions, phase, sequence, adm, op,
                         admission, workers, keyOf, cancelled, torn>>
       \/ /\ ~Resumable(r) /\ state[r] \in {"queued", "running"}
          /\ Unsaved(r, Settled(r)) /\ Off("down")
    /\ UNCHANGED crashes

Ambiguous == \E i \in 2..Len(boot.found) :
                admitted[boot.found[i]] = admitted[boot.found[i - 1]]

\* The capacity check; then every found run is given its place.
Recover ==
    /\ phase = "recovering" /\ boot.todo = {}
    /\ IF Ambiguous \/ Len(boot.found) > MaxRunning + MaxQueued
       THEN Off("refused")
       ELSE LET n == IF Len(boot.found) < MaxRunning THEN Len(boot.found) ELSE MaxRunning IN
            /\ phase' = "resuming"
            /\ slots' = {boot.found[i] : i \in 1..n}
            /\ queue' = SubSeq(boot.found, n + 1, Len(boot.found))
            /\ UNCHANGED <<admitted, result, submission, executions, boot, sequence,
                           adm, op, workers, keyOf, cancelled, torn>>
    /\ UNCHANGED <<state, faults, crashes>>

ResumeNext ==
    /\ phase = "resuming" /\ boot.found # <<>>
    /\ Spawn(Head(boot.found), "queued")
    /\ boot' = [boot EXCEPT !.found = Tail(@)]
    /\ UNCHANGED <<disk, phase, sequence, adm, op, admission, history, faults>>

\* No thread for one of them: its state is "failed" if that can be saved, the
\* rest stay queued on disk, and the workers already started are shut down.
ResumeFails ==
    /\ phase = "resuming" /\ boot.found # <<>>
    /\ Unsaved(Head(boot.found), "failed")
    /\ slots' = slots \ ToSet(boot.found)
    /\ queue' = Without(queue, ToSet(boot.found))
    /\ phase' = "stopping" /\ op' = Draining(active) /\ active' = {}
    /\ UNCHANGED <<admitted, result, submission, executions, boot, sequence, adm,
                   mem, token, worker, verdict, history>>

Serve ==
    /\ phase = "resuming" /\ boot.found = <<>>
    /\ phase' = "up"
    /\ UNCHANGED <<disk, boot, sequence, adm, op, admission, workers, history, faults>>

Booting == \/ Recover \/ ResumeNext \/ ResumeFails \/ Serve
           \/ \E r \in Run : RecoverRun(r)

-----------------------------------------------------------------------------
\* A server that is started on an empty directory.
FirstStart ==
    /\ state = [r \in Run |-> None] /\ admitted = [r \in Run |-> 0]
    /\ result = [r \in Run |-> None] /\ submission = [k \in Key |-> None]
    /\ executions = [r \in Run |-> 0]
    /\ phase = "up" /\ boot = [todo |-> {}, found |-> <<>>, resume |-> FALSE]
    /\ sequence = 0 /\ adm = None /\ op = None
    /\ slots = {} /\ queue = <<>> /\ active = {}
    /\ mem = [r \in Run |-> None] /\ token = [r \in Run |-> FALSE]
    /\ worker = [r \in Run |-> "none"] /\ verdict = [r \in Run |-> None]
    /\ keyOf = [r \in Run |-> "fresh"] /\ cancelled = {} /\ torn = {} /\ crashes = 0

Init == FirstStart /\ faults = 0

Next ==
    \/ \E r \in Run, k \in Key \cup {None} : Submit(r, k)
    \/ \E r \in Run : CancelRun(r) \/ Work(r)
    \/ Admission \/ Cancelling \/ Shutdown \/ Crash \/ Booting
    \/ \E resume \in ResumeModes : Restart(resume)

Spec == Init /\ [][Next]_vars

\* Threads run, some worker that asks for the lock of its control again and
\* again gets it (clients cannot cancel without end), a stopped server is
\* started again, and an execution ends when it is cancelled.
FairSpec ==
    /\ Spec
    /\ WF_vars(Admission) /\ WF_vars(Cancelling) /\ WF_vars(Booting)
    /\ SF_vars(\E r \in Run : Start(r) \/ Finish(r))
    /\ \A r \in Run : WF_vars(Wait(r)) /\ WF_vars(token[r] /\ Execute(r)) /\ WF_vars(Exit(r))
    /\ WF_vars(\E resume \in ResumeModes : Restart(resume))

-----------------------------------------------------------------------------
(* Properties. *)

TypeOK ==
    /\ state \in [Run -> Status \cup {None}]
    /\ admitted \in [Run -> Nat] /\ executions \in [Run -> Nat]
    /\ result \in [Run -> Outcome \cup {None}]
    /\ submission \in [Key -> Run \cup {None}]
    /\ phase \in {"down", "recovering", "resuming", "up", "stopping", "closed", "refused"}
    /\ boot \in [todo : SUBSET Run, found : Seq(Run), resume : BOOLEAN]
    /\ sequence \in Nat
    /\ adm = None \/ adm \in [run : Run, step : {"state", "key", "record", "spawn", "fail"}]
    /\ op = None \/ op \in [run : Run \cup {None}, rest : SUBSET Run,
                            step : {"token", "save", "disk", "next"}]
    /\ slots \subseteq Run /\ queue \in Seq(Run) /\ active \subseteq Run
    /\ mem \in [Run -> Status \cup {None}] /\ token \in [Run -> BOOLEAN]
    /\ worker \in [Run -> WorkerStep]
    /\ verdict \in [Run -> Outcome \cup {None, "error"}]
    /\ keyOf \in [Run -> Key \cup {None, "fresh"}]
    /\ cancelled \subseteq Run /\ torn \subseteq Run
    /\ faults \in 0..MaxFaults /\ crashes \in 0..MaxCrashes

\* A run whose cancellation was acknowledged before it executed is never
\* executed: not by its worker, and not after any number of restarts.
CancelIsDurable == \A r \in cancelled : executions[r] = 0

\* Commands are executed at most once per run and at most once per
\* idempotency key, whatever is lost between the saves.
ExecutedOnce ==
    \A r, q \in Run : /\ executions[r] <= 1
                      /\ r # q /\ keyOf[r] = keyOf[q] /\ keyOf[r] \in Key
                            => executions[r] + executions[q] <= 1

\* A run is not given a slot while one admitted before it still waits for its
\* own, across restarts, unless that one is being cancelled.
FirstComeFirstServed ==
    \A r \in slots, q \in Run \ slots :
       worker[q] = "wait" /\ 0 < admitted[q] /\ admitted[q] < admitted[r] => token[q]

\* At most max_runs runs execute, and each of them owns a slot.
Bounded == /\ Cardinality(slots) <= MaxRunning
           /\ \A r \in Run : worker[r] \in {"start", "execute"} => r \in slots

\* The saved outcome of a run whose report was completed is the outcome of
\* the report: no failure, cancellation or restart replaces it.
ReportIsKept ==
    \A r \in Run \ torn : result[r] # None /\ state[r] \in Final => state[r] = result[r]

\* The queue that was persisted always fits when the server is started again,
\* and its order is never ambiguous.
NeverRefused == phase # "refused"
=============================================================================
