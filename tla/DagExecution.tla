---------------------------- MODULE DagExecution ----------------------------
(***************************************************************************)
(* What the executor promises of a plan of ordinary tasks: a task runs     *)
(* once, within the number of jobs, after everything it needs came out     *)
(* well, and is skipped when something did not; once the plan is aborted   *)
(* nothing begins any more.                                                *)
(***************************************************************************)
EXTENDS Naturals, FiniteSets

CONSTANTS Task, Jobs

VARIABLES needs, allowed,  \* the plan: the tasks that may fail
          status, aborted

Done == {"succeeded", "failed"}
Unstarted == {"skipped", "cancelled"}
Status == Done \cup Unstarted \cup {"pending", "running"}
Good(t) == status[t] = "succeeded" \/ (t \in allowed /\ status[t] = "failed")
Bad(t) == ~Good(t) /\ status[t] \in Done \cup Unstarted
Running == {t \in Task : status[t] = "running"}

Init == /\ needs \in [Task -> SUBSET Task] /\ allowed \in SUBSET Task
        /\ status = [t \in Task |-> "pending"] /\ aborted = FALSE

\* Aborting may coincide with any step and is for good.
Plan == UNCHANGED <<needs, allowed>> /\ aborted' \in {aborted, TRUE}

Begin(t) ==
    /\ status[t] = "pending" /\ ~aborted /\ \A p \in needs[t] : Good(p)
    /\ \/ Cardinality(Running) < Jobs /\ status' = [status EXCEPT ![t] = "running"]
       \/ status' = [status EXCEPT ![t] = "failed"]

End(t) ==
    /\ status[t] = "running"
    /\ \E end \in Done \cup {"cancelled"} :
          /\ end = "cancelled" => aborted
          /\ status' = [status EXCEPT ![t] = end]

Skip(t) ==
    /\ status[t] = "pending" /\ \E p \in needs[t] : Bad(p)
    /\ status' = [status EXCEPT ![t] = "skipped"]

\* What is pending is not run; what needs a task that is not run either may
\* count as skipped.
Cancel ==
    /\ aborted
    /\ status' \in [Task -> Status]
    /\ \A t \in Task : IF status[t] = "pending" THEN status'[t] \in Unstarted \cup {"pending"}
                                                ELSE status'[t] = status[t]

Next == /\ Plan
        /\ UNCHANGED status \/ Cancel \/ \E t \in Task : Begin(t) \/ End(t) \/ Skip(t)

Spec == Init /\ [][Next]_<<needs, allowed, status, aborted>>
=============================================================================
