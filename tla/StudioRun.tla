----------------------------- MODULE StudioRun -----------------------------
(***************************************************************************)
(* The runs of a project in the local studio: src/executor.rs, and the     *)
(* requests run_pipeline, cancel_run and update_project_git of             *)
(* src/server.rs.  They share the rows of SQLite and nothing else: an      *)
(* executor works on its own copy of a run and saves all of it, and learns *)
(* of a cancellation by reading the row; an update of the working tree     *)
(* looks at the rows once, before it begins.  A step is what happens       *)
(* between two awaits that matter.  Logs, durations and statistics are     *)
(* left out.                                                               *)
(***************************************************************************)
EXTENDS Naturals, Sequences, FiniteSets

CONSTANTS Run, None,
          JobLists,     \* the statuses a run is prepared with
          Quiet,        \* runs whose processes close their output and go on
          MaxCommands,  \* bound: commands of an action
          MaxLines,     \* bound: lines of output of a command
          MaxCancels, MaxUpdates,  \* bounds: requests
          MaxFaults     \* bound: failing statements, ends of the server

JobStatus == {"PENDING", "SKIPPED", "RUNNING", "SUCCESS", "FAILURE", "CANCELLED"}
Final == {"SUCCESS", "FAILURE", "CANCELLED"}
Status == Final \cup {"PENDING", "RUNNING"}
Step == {"none", "prepared", "next", "start", "spawn", "stream", "wait", "judge", "save", "done", "lost"}

ASSUME RunAssumption == Quiet \subseteq Run
ASSUME JobsAssumption ==
    \A jobs \in JobLists : jobs \in Seq({"PENDING", "SKIPPED"}) /\ jobs # <<>>
ASSUME BoundAssumption ==
    MaxCommands > 0 /\ {MaxCommands, MaxLines, MaxCancels, MaxUpdates, MaxFaults} \subseteq Nat

Runs == [status : Status, jobs : UNION {[1..Len(jobs) -> JobStatus] : jobs \in JobLists}]
ASSUME NoneAssumption == None \notin Runs

Updates == 1..MaxUpdates

VARIABLES
    row,        \* the tables runs and jobs: status and jobs, None without one
    copy,       \* the executor's copy of the run
    pc,         \* where its executor is; "lost" when it died
    index, command, lines,  \* the job, its command, the output seen of it
    process,    \* "none", "running", "ok", "failed"
    error,      \* execute_actions returned Err
    cancelling, \* what cancel_run has read and not saved, or None
    update,     \* where each request update_project_git is
    present,    \* history: the runs that had a row when it looked at the rows
    cancelled,  \* history: runs whose cancellation was confirmed
    broken,     \* history: runs one of whose processes failed
    cancels, faults

execution == <<copy, pc, index, command, lines, process, error, broken>>
requests == <<cancelling, update, present, cancelled, cancels>>
vars == <<row, execution, requests, faults>>

-----------------------------------------------------------------------------
Jobs(r) == copy[r].jobs
Goto(r, step) == pc' = [pc EXCEPT ![r] = step]
Store(r, run) == row' = [row EXCEPT ![r] = run] /\ copy' = [copy EXCEPT ![r] = run]
Cancelled(r) == row[r].status = "CANCELLED"
Fault == faults < MaxFaults /\ faults' = faults + 1

\* The job that is executed from position i on; one past the end if none is.
NextJob(r, i) ==
    CHOOSE j \in i..Len(Jobs(r)) + 1 :
       /\ j <= Len(Jobs(r)) => Jobs(r)[j] # "SKIPPED"
       /\ \A k \in i..j - 1 : Jobs(r)[k] = "SKIPPED"

\* execute_actions returns; a process that still runs is killed on drop.
Return(r, err) ==
    /\ Goto(r, "judge") /\ error' = [error EXCEPT ![r] = err]
    /\ process' = [process EXCEPT ![r] = "none"]

-----------------------------------------------------------------------------
(* The executor. *)

\* prepare_workflow
Prepare(r) ==
    /\ pc[r] = "none" /\ Goto(r, "prepared")
    /\ \E jobs \in JobLists : Store(r, [status |-> "PENDING", jobs |-> jobs])
    /\ UNCHANGED <<index, command, lines, process, error, broken, requests, faults>>

\* execute_prepared saves the run as running.
Begin(r) ==
    /\ pc[r] = "prepared" /\ Goto(r, "next")
    /\ Store(r, [copy[r] EXCEPT !.status = "RUNNING"])
    /\ index' = [index EXCEPT ![r] = NextJob(r, 1)]
    /\ UNCHANGED <<command, lines, process, error, broken, requests, faults>>

\* The top of the loop over the actions.
Check(r) ==
    /\ pc[r] = "next"
    /\ \/ index[r] > Len(Jobs(r)) /\ Return(r, FALSE)
       \/ index[r] <= Len(Jobs(r)) /\ Cancelled(r) /\ Return(r, TRUE)
       \/ index[r] <= Len(Jobs(r)) /\ ~Cancelled(r) /\ Goto(r, "start") /\ UNCHANGED <<process, error>>
    /\ UNCHANGED <<row, copy, index, command, lines, broken, requests, faults>>

StartJob(r) ==
    /\ pc[r] = "start" /\ Goto(r, "spawn")
    /\ Store(r, [copy[r] EXCEPT !.jobs[index[r]] = "RUNNING"])
    /\ command' = [command EXCEPT ![r] = 1]
    /\ UNCHANGED <<index, lines, process, error, broken, requests, faults>>

Spawn(r) ==
    /\ pc[r] = "spawn"
    /\ \/ Goto(r, "stream") /\ process' = [process EXCEPT ![r] = "running"] /\ UNCHANGED error
       \/ Return(r, TRUE)
    /\ lines' = [lines EXCEPT ![r] = 0]
    /\ UNCHANGED <<row, copy, index, command, broken, requests, faults>>

\* A line of output is saved with the whole run.
Line(r) ==
    /\ pc[r] = "stream" /\ lines[r] < MaxLines
    /\ lines' = [lines EXCEPT ![r] = @ + 1]
    /\ Store(r, copy[r])
    /\ UNCHANGED <<pc, index, command, process, error, broken, requests, faults>>

\* Mutant: the cancellation is not looked at.
PollNever(r) == FALSE /\ UNCHANGED vars
\* Every 250 ms the row is read, while the output is open.
Poll(r) ==
    /\ pc[r] = "stream" /\ Cancelled(r) /\ Return(r, TRUE)
    /\ UNCHANGED <<row, copy, index, command, lines, broken, requests, faults>>

\* Both streams ended, with the process or before it.
Silent(r) ==
    /\ pc[r] = "stream" /\ Goto(r, "wait")
    /\ process[r] # "running" \/ r \in Quiet
    /\ UNCHANGED <<row, copy, index, command, lines, process, error, broken, requests, faults>>

\* The commands of the job are over.
JobEnds(r) ==
    /\ Goto(r, "next") /\ Store(r, [copy[r] EXCEPT !.jobs[index[r]] = "SUCCESS"])
    /\ index' = [index EXCEPT ![r] = NextJob(r, @ + 1)]
    /\ process' = [process EXCEPT ![r] = "none"]
    /\ UNCHANGED <<command, error>>

\* An action may have no command.
Trivial(r) == /\ pc[r] = "spawn" /\ command[r] = 1 /\ JobEnds(r)
              /\ UNCHANGED <<lines, broken, requests, faults>>

\* child.wait: the next command, the end of the job, or an error.
Reap(r) ==
    /\ pc[r] = "wait"
    /\ \/ /\ process[r] = "failed" /\ Return(r, TRUE)
          /\ UNCHANGED <<row, copy, index, command>>
       \/ /\ process[r] = "ok" /\ command[r] < MaxCommands
          /\ Goto(r, "spawn") /\ command' = [command EXCEPT ![r] = @ + 1]
          /\ process' = [process EXCEPT ![r] = "none"]
          /\ UNCHANGED <<row, copy, index, error>>
       \/ process[r] = "ok" /\ JobEnds(r)
    /\ UNCHANGED <<lines, broken, requests, faults>>

\* Mutant: what never began is left as it is.
EndedRunning(job, cancel) ==
    IF job # "RUNNING" THEN job ELSE IF cancel THEN "CANCELLED" ELSE "FAILURE"
\* The end of execute_prepared: the row is read once more.
Ended(job, cancel) ==
    IF cancel /\ job \in {"RUNNING", "PENDING"} THEN "CANCELLED"
    ELSE IF job = "RUNNING" THEN "FAILURE"
    ELSE IF job = "PENDING" THEN "SKIPPED" ELSE job

Judge(r) ==
    /\ pc[r] = "judge" /\ Goto(r, "save")
    /\ copy' = [copy EXCEPT ![r] =
          [status |-> IF Cancelled(r) THEN "CANCELLED" ELSE IF error[r] THEN "FAILURE" ELSE "SUCCESS",
           jobs |-> [i \in DOMAIN @.jobs |-> Ended(@.jobs[i], Cancelled(r))]]]
    /\ UNCHANGED <<row, index, command, lines, process, error, broken, requests, faults>>

Save(r) ==
    /\ pc[r] = "save" /\ Goto(r, "done") /\ Store(r, copy[r])
    /\ UNCHANGED <<index, command, lines, process, error, broken, requests, faults>>

\* A statement fails: inside execute_actions it is the outcome of the run,
\* outside it is the end of the executor.
StatementFails(r) ==
    /\ Fault
    /\ \/ /\ pc[r] \in {"prepared", "judge", "save"} /\ Goto(r, "lost")
          /\ UNCHANGED <<copy, process, error>>
       \/ /\ pc[r] \in {"next", "stream"} /\ Return(r, TRUE) /\ UNCHANGED copy
       \/ /\ pc[r] = "start" /\ Return(r, TRUE)
          /\ copy' = [copy EXCEPT ![r].jobs[index[r]] = "RUNNING"]
       \/ /\ \/ pc[r] = "wait" /\ process[r] = "ok"
             \/ pc[r] = "spawn" /\ command[r] = 1
          /\ Return(r, TRUE)
          /\ copy' = [copy EXCEPT ![r].jobs[index[r]] = "SUCCESS"]
    /\ UNCHANGED <<row, index, command, lines, broken, requests>>

Advance(r) == \/ Begin(r) \/ Check(r) \/ StartJob(r) \/ Spawn(r) \/ Trivial(r) \/ Reap(r)
              \/ Judge(r) \/ Save(r)
Execute(r) == Advance(r) \/ Line(r) \/ Poll(r) \/ Silent(r)

ProcessEnds(r) ==
    /\ process[r] = "running"
    /\ \/ process' = [process EXCEPT ![r] = "ok"] /\ UNCHANGED broken
       \/ process' = [process EXCEPT ![r] = "failed"] /\ broken' = broken \cup {r}
    /\ UNCHANGED <<row, copy, pc, index, command, lines, error, requests, faults>>

\* The server ends: its tasks are dropped and their processes killed.
ServerEnds ==
    /\ Fault /\ \A r \in Run : cancelling[r] = None
    /\ pc' = [r \in Run |-> IF pc[r] \in {"none", "done"} THEN pc[r] ELSE "lost"]
    /\ process' = [r \in Run |-> "none"]
    /\ update' = [u \in Updates |-> IF update[u] = "none" THEN "none" ELSE "done"]
    /\ UNCHANGED <<row, copy, index, command, lines, error, broken, cancelling, present, cancelled, cancels>>

-----------------------------------------------------------------------------
(* Requests. *)

\* cancel_run reads the run ...
CancelRead(r) ==
    /\ row[r] # None /\ cancelling[r] = None
    /\ cancels < MaxCancels /\ cancels' = cancels + 1
    /\ cancelling' = [cancelling EXCEPT ![r] = row[r]]
    /\ UNCHANGED <<row, execution, update, present, cancelled, faults>>

\* ... and saves it, with the jobs as they were.
CancelSave(r) ==
    /\ cancelling[r] # None
    /\ row' = [row EXCEPT ![r] = [cancelling[r] EXCEPT !.status = "CANCELLED"]]
    /\ cancelling' = [cancelling EXCEPT ![r] = None]
    /\ cancelled' = cancelled \cup {r}
    /\ UNCHANGED <<execution, update, present, cancels, faults>>

Active(r) == row[r] # None /\ row[r].status \in {"PENDING", "RUNNING"}

Checks(u) ==
    /\ update[u] = "none" /\ update' = [update EXCEPT ![u] = "checked"]
    /\ present' = [present EXCEPT ![u] = {r \in Run : row[r] # None}]
    /\ UNCHANGED <<row, execution, cancelling, cancelled, cancels, faults>>

\* Mutant: the rows are not looked at.
UpdateAnyway(u) == Checks(u)
\* update_project_git reads the rows and refuses while a run is active; a
\* refused request changes nothing.
UpdateCheck(u) == Checks(u) /\ ~\E r \in Run : Active(r)

\* project_git::update: one at a time, whatever the rows say by then.
UpdateBegins(u) ==
    /\ update[u] = "checked" /\ \A v \in Updates : update[v] # "updating"
    /\ update' = [update EXCEPT ![u] = "updating"]
    /\ UNCHANGED <<row, execution, cancelling, present, cancelled, cancels, faults>>

UpdateEnds(u) ==
    /\ update[u] = "updating" /\ update' = [update EXCEPT ![u] = "done"]
    /\ UNCHANGED <<row, execution, cancelling, present, cancelled, cancels, faults>>

-----------------------------------------------------------------------------
Init ==
    /\ row = [r \in Run |-> None] /\ copy = [r \in Run |-> None]
    /\ pc = [r \in Run |-> "none"]
    /\ index = [r \in Run |-> 1] /\ command = [r \in Run |-> 0] /\ lines = [r \in Run |-> 0]
    /\ process = [r \in Run |-> "none"] /\ error = [r \in Run |-> FALSE]
    /\ cancelling = [r \in Run |-> None] /\ cancelled = {} /\ broken = {}
    /\ update = [u \in Updates |-> "none"] /\ present = [u \in Updates |-> {}]
    /\ cancels = 0 /\ faults = 0

Settled == /\ \A r \in Run : pc[r] \in {"done", "lost"} /\ cancelling[r] = None
           /\ \A u \in Updates : update[u] \in {"none", "done"}
           /\ UNCHANGED vars

Next == \/ \E r \in Run : Prepare(r) \/ Execute(r) \/ StatementFails(r) \/ ProcessEnds(r)
                            \/ CancelRead(r) \/ CancelSave(r)
        \/ \E u \in Updates : UpdateCheck(u) \/ UpdateBegins(u) \/ UpdateEnds(u)
        \/ ServerEnds \/ Settled

Spec == Init /\ [][Next]_vars

\* The executor runs, output ends with its process, and a waiting timer and a
\* waiting line are both taken in the end (select! picks at random); requests
\* that began are finished.  Nothing is said of the processes and their output.
FairSpec ==
    /\ Spec /\ \A u \in Updates : WF_vars(UpdateBegins(u) \/ UpdateEnds(u))
    /\ \A r \in Run : /\ WF_vars(Advance(r)) /\ SF_vars(Poll(r)) /\ WF_vars(CancelSave(r))
                      /\ WF_vars(Silent(r) /\ process[r] # "running")

-----------------------------------------------------------------------------
(* Properties. *)

Copy == {None} \cup Runs

TypeOK ==
    /\ \A r \in Run : row[r] \in Copy /\ copy[r] \in Copy /\ cancelling[r] \in Copy
    /\ pc \in [Run -> Step] /\ present \in [Updates -> SUBSET Run]
    /\ update \in [Updates -> {"none", "checked", "updating", "done"}]
    /\ \A r \in Run : row[r] = None <=> pc[r] = "none"
    /\ index \in [Run -> Nat \ {0}] /\ command \in [Run -> 0..MaxCommands] /\ lines \in [Run -> 0..MaxLines]
    /\ process \in [Run -> {"none", "running", "ok", "failed"}] /\ error \in [Run -> BOOLEAN]
    /\ cancelled \subseteq Run /\ broken \subseteq Run
    /\ cancels \in 0..MaxCancels /\ faults \in 0..MaxFaults

\* Whatever is lost or overwritten, a stored run tells one story: the jobs before
\* some position are over, and none after it has begun; a successful run has no
\* other jobs than successful and skipped ones, and one that failed none that is
\* pending or running.  A cancelled run may have some, and keep them: cancel_run
\* stores the jobs as it read them, and nobody may look at the run again.
Coherent(run) ==
    /\ \E i \in 1..Len(run.jobs) :
          /\ \A j \in 1..i - 1 : run.jobs[j] \in {"SUCCESS", "SKIPPED"}
          /\ \A j \in i + 1..Len(run.jobs) : run.jobs[j] \in {"PENDING", "SKIPPED", "CANCELLED"}
    /\ run.status = "SUCCESS" => \A i \in DOMAIN run.jobs : run.jobs[i] \in {"SUCCESS", "SKIPPED"}
    /\ run.status \in {"SUCCESS", "FAILURE"} =>
          \A i \in DOMAIN run.jobs : run.jobs[i] \notin {"PENDING", "RUNNING"}

\* Every stored run is coherent, and a run one of whose commands failed is never stored as a success.
RunsAreCoherent ==
    \A r \in Run : /\ row[r] # None => Coherent(row[r])
                   /\ r \in broken => row[r].status # "SUCCESS"

\* Without faults, update_project_git sees no active run when no executor is left.
NoGhosts ==
    faults = 0 /\ (\A r \in Run : pc[r] \in {"none", "done"}) => ~\E r \in Run : Active(r)

\* A stored job goes on as its executor does.
Follows(job, next) ==
    \/ job \in {next, "PENDING"}
    \/ job = "RUNNING" /\ next \in {"SUCCESS", "FAILURE", "CANCELLED"}

\* Only cancel_run takes a stored job back, when it saves what it read before, or
\* changes a run that is stored as successful or failed: no save of the executor
\* does, whatever was stored over its own, nor a fault, nor the end of the server.
SavesAdvance ==
    \A r \in Run : row[r] # None /\ cancelling'[r] = cancelling[r] =>
       /\ \A i \in DOMAIN row[r].jobs : Follows(row[r].jobs[i], row'[r].jobs[i])
       /\ row[r].status \in {"SUCCESS", "FAILURE"} => row'[r] = row[r]

\* From the moment update_project_git looks at the rows until the update is over,
\* no run that had a row then has an executor or a process, unless it was cancelled.
\* Of runs that are prepared later, nothing is said: see NoRunMeanwhile.
WaitsForRuns ==
    \A u \in Updates : update[u] \in {"checked", "updating"} =>
       \A r \in present[u] \ cancelled : pc[r] \in {"done", "lost"} /\ process[r] = "none"

-----------------------------------------------------------------------------
(* What the documentation and a test say, and is not so: no run checks it. *)

\* While the working tree is updated, no process of an uncancelled run executes
\* (docs/site/studio/index.md, update_project_git of server.rs).
NoRunMeanwhile ==
    \A u \in Updates : update[u] = "updating" =>
       \A r \in Run \ cancelled : process[r] # "running"

\* A run whose cancellation was saved is stored as cancelled from then on
\* (tests/executor.rs, cancels_an_active_process_and_persists_terminal_status).
CancellationsStay == \A r \in cancelled : row[r].status = "CANCELLED"
=============================================================================
