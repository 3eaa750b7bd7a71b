------------------------------ MODULE Frontier ------------------------------
(***************************************************************************)
(* A run of a plan of ordinary tasks: the incremental admission of         *)
(* engine/crates/executor/src/graph.rs (Frontier) inside the scheduler of  *)
(* engine/crates/executor/src/lib.rs.  Plans with services, caches,        *)
(* resources, finalizers or retries are swept instead: see Scheduler.      *)
(*                                                                         *)
(* A pass reaps, settles what ended, admits and checks.  The order of the  *)
(* tasks is one that DependencyGraph may find.  A task in `saving` counts  *)
(* as running; "failed" stands for "timed_out" too.                        *)
(***************************************************************************)
EXTENDS Integers, FiniteSets

CONSTANTS Task,
          Plans,     \* needs, rank, failFast, allowed: the tasks with allow_failure
          Jobs

Plan == [needs : [Task -> SUBSET Task], rank : [Task -> Nat],
         failFast : BOOLEAN, allowed : SUBSET Task]

\* The rank of a task is its place in DependencyGraph.order.
Ordered(p) == /\ \A t, u \in Task : p.rank[t] = p.rank[u] => t = u
              /\ \A t \in Task : \A u \in p.needs[t] : p.rank[u] < p.rank[t]

ASSUME TaskAssumption == IsFiniteSet(Task)
ASSUME PlanAssumption == \A p \in Plans : p \in Plan /\ Ordered(p)
ASSUME JobsAssumption == Jobs \in Nat \ {0}

Ended == {"succeeded", "failed"}
Terminal == Ended \cup {"skipped", "cancelled"}
Status == Terminal \cup {"pending", "running"}

VARIABLES plan,
          pc,          \* "reap", "settle", "admit", "check", "done"
          status,
          failed, cancelled, aborted,  \* `pending_aborted`
          stopping,    \* computed once per pass
          touched,
          \* Frontier
          remaining, completed, ready, unfinished

counts == <<remaining, completed, ready, unfinished>>
vars == <<plan, pc, status, failed, cancelled, aborted, stopping, touched, counts>>

-----------------------------------------------------------------------------
Needs(t) == plan.needs[t]
Running == {t \in Task : status[t] = "running"}
Satisfied(t) == status[t] = "succeeded" \/ (t \in plan.allowed /\ status[t] = "failed")
Stopping == cancelled \/ (plan.failFast /\ failed)

\* Frontier::complete, for each of S and a ready set r.
\* Mutant: two needs that end together do not make a task ready.
CompletedLast(r, S) ==
    LET new == S \ completed IN
    /\ completed' = completed \cup new
    /\ unfinished' = unfinished - Cardinality(new)
    /\ remaining' = [t \in Task |-> remaining[t] - Cardinality(Needs(t) \cap new)]
    /\ ready' = r \cup {t \in Task : remaining[t] = 1 /\ remaining'[t] = 0}
Completed(r, S) ==
    LET new == S \ completed IN
    /\ completed' = completed \cup new
    /\ unfinished' = unfinished - Cardinality(new)
    /\ remaining' = [t \in Task |-> remaining[t] - Cardinality(Needs(t) \cap new)]
    /\ ready' = r \cup {t \in Task : remaining[t] > 0 /\ remaining'[t] = 0}

TerminalIn(S) == {t \in S : status[t] \in Terminal}

-----------------------------------------------------------------------------
(* A pass. *)

\* A running task ended: on its own, or stopped.
Reap(t) ==
    /\ pc = "reap" /\ status[t] = "running"
    /\ \E end \in Ended \cup {"cancelled"} :
          /\ end = "cancelled" => stopping
          /\ status' = [status EXCEPT ![t] = end]
          /\ failed' = (failed \/ (end # "succeeded" /\ t \notin plan.allowed))
    /\ UNCHANGED <<plan, stopping, pc, cancelled, aborted, touched, counts>>

Reaped ==
    /\ pc = "reap" /\ pc' = "settle"
    /\ UNCHANGED <<plan, stopping, status, failed, cancelled, aborted, touched, counts>>

\* What the gates make of the pending tasks, in the order of the graph, when
\* none of them is to be run.
Aborted(t) ==
    IF status[t] # "pending" THEN status[t]
    ELSE IF (\E p \in Needs(t) : ~Satisfied(p)) /\ ~\E p \in Needs(t) : status[p] = "running"
         THEN "skipped" ELSE "cancelled"

Settle ==
    /\ pc = "settle" /\ pc' = "admit"
    /\ \/ /\ ~aborted /\ Stopping /\ aborted' = TRUE
          /\ status' = [t \in Task |-> Aborted(t)]
          /\ touched' = touched \cup {t \in Task : status[t] = "pending"}
          /\ Completed(ready, TerminalIn(touched) \cup {t \in Task : status[t] = "pending"})
       \/ /\ aborted \/ ~Stopping
          /\ Completed(ready, TerminalIn(touched))
          /\ UNCHANGED <<status, touched, aborted>>
    /\ UNCHANGED <<plan, stopping, failed, cancelled>>

Admissible == Cardinality(Running) < Jobs /\ ready # {}

\* Frontier::next
First(t) == t \in ready /\ \A u \in ready : plan.rank[t] <= plan.rank[u]

\* workflow::gate, for a task whose needs have ended
Blocked(t) == \E p \in Needs(t) : ~Satisfied(p)
Waits(t) == \E p \in Needs(t) : status[p] \notin Terminal

\* Mutant: tasks begin after the abort.
OutcomesUnstopped(t) ==
    IF status[t] # "pending" \/ Waits(t) THEN {status[t]}
    ELSE IF Blocked(t) THEN {"skipped"} ELSE {"running", "failed"}
\* The status of t after its admission; "failed" when it could not be started.
Outcomes(t) ==
    IF status[t] # "pending" \/ (Waits(t) /\ ~Stopping) THEN {status[t]}
    ELSE IF Blocked(t) /\ ~Waits(t) THEN {"skipped"}
    ELSE IF Stopping THEN {"cancelled"}
    ELSE {"running", "failed"}

\* What ended at once is completed at once, or, if the loop went on before
\* that, at the end of the pass.
Admit(t) ==
    /\ pc = "admit" /\ Admissible /\ First(t)
    /\ touched' = touched \cup {t}
    /\ \E s \in Outcomes(t), now \in BOOLEAN :
          /\ status' = [status EXCEPT ![t] = s]
          /\ failed' = (failed \/ (status[t] = "pending" /\ s = "failed" /\ t \notin plan.allowed))
          /\ s = "skipped" => now
          /\ Completed(ready \ {t}, IF now /\ s \in Terminal THEN {t} ELSE {})
    /\ UNCHANGED <<plan, stopping, pc, cancelled, aborted>>

Admitted ==
    /\ pc = "admit" /\ ~Admissible /\ pc' = "check"
    /\ Completed(ready, TerminalIn(touched))
    /\ UNCHANGED <<plan, stopping, status, failed, cancelled, aborted, touched>>

\* Mutant: the next pass does not look at what is running.
CheckNothing ==
    /\ pc = "check"
    /\ pc' = (IF unfinished = 0 THEN "done" ELSE "reap") /\ touched' = {}
    /\ stopping' = Stopping
    /\ UNCHANGED <<plan, status, failed, cancelled, aborted, counts>>
\* The end of a pass and the beginning of the next one.
Check ==
    /\ pc = "check"
    /\ IF unfinished = 0 THEN pc' = "done" /\ UNCHANGED touched
                         ELSE pc' = "reap" /\ touched' = Running
    /\ stopping' = Stopping
    /\ UNCHANGED <<plan, status, failed, cancelled, aborted, counts>>

CancelRequest ==
    /\ pc # "done" /\ ~cancelled /\ cancelled' = TRUE
    /\ UNCHANGED <<plan, stopping, pc, status, failed, aborted, touched, counts>>

-----------------------------------------------------------------------------
\* Frontier::new
Init ==
    /\ plan \in Plans /\ pc = "reap"
    /\ status = [t \in Task |-> "pending"]
    /\ failed = FALSE /\ cancelled = FALSE /\ aborted = FALSE /\ stopping = FALSE /\ touched = {}
    /\ remaining = [t \in Task |-> Cardinality(Needs(t))]
    /\ completed = {} /\ ready = {t \in Task : remaining[t] = 0}
    /\ unfinished = Cardinality(Task)

Done == pc = "done" /\ UNCHANGED vars

Next == \/ \E t \in Task : Reap(t) \/ Admit(t)
        \/ Reaped \/ Settle \/ Admitted \/ Check \/ CancelRequest \/ Done

Spec == Init /\ [][Next]_vars

\* The thread runs; a task that runs is found ended in some pass.
FairSpec == /\ Spec /\ WF_vars(Reaped \/ Settle \/ Admitted \/ Check)
            /\ \A t \in Task : WF_vars(Admit(t)) /\ SF_vars(Reap(t))

-----------------------------------------------------------------------------
(* Properties. *)

TypeOK ==
    /\ plan \in Plan /\ Ordered(plan)
    /\ pc \in {"reap", "settle", "admit", "check", "done"}
    /\ status \in [Task -> Status]
    /\ failed \in BOOLEAN /\ cancelled \in BOOLEAN /\ aborted \in BOOLEAN
    /\ stopping \in BOOLEAN
    /\ touched \subseteq Task /\ completed \subseteq Task /\ ready \subseteq Task
    /\ remaining \in [Task -> Nat] /\ unfinished \in Nat

\* The counters of the frontier are those of the tasks that ended.
Counted ==
    /\ completed \subseteq {t \in Task : status[t] \in Terminal}
    /\ \A t \in Task : remaining[t] = Cardinality(Needs(t) \ completed)
    /\ unfinished = Cardinality(Task \ completed)

\* A task is run only after everything it needs came out well.
NeedsFirst ==
    \A t \in Task : status[t] \in {"running"} \cup Ended => \A p \in Needs(t) : Satisfied(p)

\* A task that could be run is not forgotten: it is ready to be admitted.
NoneLost ==
    \A t \in Task : status[t] = "pending" /\ Needs(t) \subseteq completed => t \in ready

\* When the frontier says finished, every task has its final status.
FinishedIsFinal == pc = "done" => \A t \in Task : status[t] \in Terminal

\* The frontier tells the truth about the tasks, in each of the three ways.
FrontierHolds == Counted /\ NoneLost /\ FinishedIsFinal

\* No more tasks run than there are jobs.
WithinJobs == Cardinality(Running) <= Jobs

\* Every run ends.
Finishes == <>(pc = "done")

Dag == INSTANCE DagExecution WITH needs <- plan.needs, allowed <- plan.allowed, aborted <- Stopping

\* The incremental admission implements DagExecution.
ImplementsDag == Dag!Spec
=============================================================================
