--------------------------- MODULE FrontierProofs ---------------------------
(***************************************************************************)
(* What holds of Frontier for every finite set of tasks, every number of   *)
(* jobs and every set of ordered plans, and that it implements             *)
(* DagExecution.  TLC evaluates the same formulas on the plans of          *)
(* MCFrontier.                                                             *)
(***************************************************************************)
EXTENDS Frontier, FiniteSetTheorems, TLAPS

\* What the thread remembers of an earlier pass is still so, and it leaves the
\* loop only when the frontier is empty.
Latched == (stopping => Stopping) /\ (pc = "done" => unfinished = 0)

\* The inductive invariant.
Inv == TypeOK /\ Counted /\ Latched

-----------------------------------------------------------------------------
(* Counting. *)

\* Taking some of B away from what A has left.
LEMMA LessOf ==
    ASSUME NEW A, IsFiniteSet(A), NEW C, NEW S
    PROVE  /\ Cardinality(A \ (C \cup S)) = Cardinality(A \ C) - Cardinality(A \cap (S \ C))
           /\ Cardinality(A \ (C \cup S)) \in Nat
<1>1. IsFiniteSet(A \ C)
  BY FS_Difference
<1>2. /\ IsFiniteSet((A \ C) \ S)
      /\ Cardinality((A \ C) \ S) = Cardinality(A \ C) - Cardinality((A \ C) \cap S)
  BY <1>1, FS_Difference
<1>3. (A \ C) \ S = A \ (C \cup S) /\ (A \ C) \cap S = A \cap (S \ C)
  OBVIOUS
<1>4. Cardinality((A \ C) \ S) \in Nat
  BY <1>2, FS_CardinalityType
<1>5. QED
  BY <1>2, <1>3, <1>4

LEMMA NeedsFinite == ASSUME TypeOK, NEW t \in Task PROVE Needs(t) \subseteq Task /\ IsFiniteSet(Needs(t))
<1>1. Needs(t) \in SUBSET Task
  BY DEF TypeOK, Plan, Needs
<1>2. QED
  BY <1>1, TaskAssumption, FS_Subset

\* Frontier::complete keeps the counters right, whatever it is given of what
\* ended.
LEMMA CompletedCounts ==
    ASSUME TypeOK, Counted, NEW r \in SUBSET Task, NEW S \in SUBSET Task, Completed(r, S),
           plan' = plan, \A t \in completed \cup S : status'[t] \in Terminal
    PROVE  /\ Counted'
           /\ completed' \subseteq Task /\ ready' \subseteq Task
           /\ remaining' \in [Task -> Nat] /\ unfinished' \in Nat
<1> DEFINE new == S \ completed
<1>1. completed' = completed \cup S /\ completed' = completed \cup new
  BY DEF Completed
<1>2. completed' \subseteq {t \in Task : status'[t] \in Terminal}
  BY <1>1 DEF TypeOK
<1>3. ASSUME NEW t \in Task
      PROVE  remaining'[t] = Cardinality(Needs(t) \ completed') /\ remaining'[t] \in Nat
  <2>1. remaining'[t] = Cardinality(Needs(t) \ completed) - Cardinality(Needs(t) \cap new)
    BY DEF Completed, Counted
  <2>2. IsFiniteSet(Needs(t))
    BY NeedsFinite
  <2>3. /\ Cardinality(Needs(t) \ (completed \cup S))
              = Cardinality(Needs(t) \ completed) - Cardinality(Needs(t) \cap (S \ completed))
        /\ Cardinality(Needs(t) \ (completed \cup S)) \in Nat
    BY <2>2, LessOf
  <2>4. QED
    BY <1>1, <2>1, <2>3
<1>4. unfinished' = Cardinality(Task \ completed') /\ unfinished' \in Nat
  <2>1. unfinished' = Cardinality(Task \ completed) - Cardinality(Task \cap new)
    <3>1. Task \cap new = new
      OBVIOUS
    <3>2. QED
      BY <3>1 DEF Completed, Counted
  <2>2. /\ Cardinality(Task \ (completed \cup S))
              = Cardinality(Task \ completed) - Cardinality(Task \cap (S \ completed))
        /\ Cardinality(Task \ (completed \cup S)) \in Nat
    BY TaskAssumption, LessOf
  <2>3. QED
    BY <1>1, <2>1, <2>2
<1>5. \A t \in Task : Needs(t)' = Needs(t)
  BY DEF Needs
<1>6. Counted'
  BY <1>2, <1>3, <1>4, <1>5 DEF Counted
<1>7. remaining' \in [Task -> Nat]
  <2>1. remaining' = [t \in Task |-> remaining'[t]]
    BY DEF Completed
  <2>2. QED
    BY <1>3, <2>1
<1>8. completed' \subseteq Task /\ ready' \subseteq Task
  BY <1>1 DEF TypeOK, Completed
<1>9. QED
  BY <1>4, <1>6, <1>7, <1>8

-----------------------------------------------------------------------------
(* The inductive invariant. *)

LEMMA InitInv == Init => Inv
<1> SUFFICES ASSUME Init PROVE Inv
  OBVIOUS
<1>1. plan \in Plan /\ Ordered(plan)
  BY PlanAssumption DEF Init
<1>2. ASSUME NEW t \in Task PROVE Cardinality(Needs(t)) \in Nat
  <2>1. Needs(t) \in SUBSET Task
    BY <1>1 DEF Plan, Needs
  <2>2. QED
    BY <2>1, TaskAssumption, FS_Subset, FS_CardinalityType
<1>3. Cardinality(Task) \in Nat
  BY TaskAssumption, FS_CardinalityType
<1>4. TypeOK
  BY <1>1, <1>2, <1>3 DEF Init, TypeOK, Status, Terminal, Ended
<1>5. Counted
  <2>1. \A t \in Task : Needs(t) \ completed = Needs(t)
    BY DEF Init
  <2>2. Task \ completed = Task
    BY DEF Init
  <2>3. QED
    BY <2>1, <2>2 DEF Init, Counted
<1>6. Latched
  BY DEF Init, Latched
<1>7. QED
  BY <1>4, <1>5, <1>6 DEF Inv

\* What stays when the frontier's counters and the plan do.
LEMMA CountsStay ==
    ASSUME TypeOK, Counted, UNCHANGED <<plan, counts>>,
           \A t \in Task : status[t] \in Terminal => status'[t] \in Terminal
    PROVE  Counted'
<1>1. \A t \in Task : Needs(t)' = Needs(t)
  BY DEF Needs
<1>2. QED
  BY <1>1 DEF Counted, counts

\* Reasons to stop do not go away.
LEMMA StoppingStays == ASSUME TypeOK, [Next]_vars PROVE Stopping => Stopping'
<1>1. plan' = plan /\ (failed => failed') /\ (cancelled => cancelled')
  <2>1. CASE \E t \in Task : Reap(t) \/ Admit(t)
    BY <2>1 DEF TypeOK, Reap, Admit
  <2>2. CASE Reaped \/ Settle \/ Admitted \/ Check \/ CancelRequest \/ Done \/ UNCHANGED vars
    BY <2>2 DEF Reaped, Settle, Admitted, Check, CancelRequest, Done, vars
  <2>3. QED
    BY <2>1, <2>2 DEF Next
<1>2. QED
  BY <1>1 DEF Stopping

LEMMA ReapInv == ASSUME Inv, NEW t \in Task, Reap(t) PROVE TypeOK' /\ Counted'
<1> USE DEF Inv
<1>1. PICK end \in Ended \cup {"cancelled"} :
         /\ status' = [status EXCEPT ![t] = end]
         /\ failed' = (failed \/ (end # "succeeded" /\ t \notin plan.allowed))
  BY DEF Reap
<1>2. TypeOK'
  BY <1>1 DEF Reap, TypeOK, counts, Ordered, Status, Terminal, Ended
<1>3. \A u \in Task : status[u] \in Terminal => status'[u] \in Terminal
  BY <1>1 DEF TypeOK, Terminal, Ended
<1>4. QED
  BY <1>2, <1>3, CountsStay DEF Reap

\* What has a final status keeps one when the pending tasks are given up.
LEMMA AbortedIsFinal ==
    ASSUME TypeOK, NEW t \in Task
    PROVE  /\ status[t] = "pending" => Aborted(t) \in {"skipped", "cancelled"}
           /\ status[t] # "pending" => Aborted(t) = status[t]
  BY DEF Aborted

LEMMA SettleInv == ASSUME Inv, Settle PROVE TypeOK' /\ Counted'
<1> USE DEF Inv
<1>1. CASE ~aborted /\ Stopping
  <2> DEFINE S == TerminalIn(touched) \cup {t \in Task : status[t] = "pending"}
  <2>1. status' = [t \in Task |-> Aborted(t)] /\ Completed(ready, S) /\ aborted' = TRUE
        /\ touched' = touched \cup {t \in Task : status[t] = "pending"}
    BY <1>1 DEF Settle
  <2>2. S \in SUBSET Task /\ ready \in SUBSET Task
    BY DEF TypeOK, TerminalIn
  <2>3. \A t \in Task : status'[t] = Aborted(t)
    BY <2>1
  <2>4. \A t \in completed \cup S : t \in Task /\ (status[t] \in Terminal \/ status[t] = "pending")
    BY <2>2 DEF TypeOK, Counted, TerminalIn
  <2>5. \A t \in completed \cup S : status'[t] \in Terminal
    BY <2>3, <2>4, AbortedIsFinal DEF Terminal
  <2>6. plan' = plan
    BY DEF Settle
  <2>7. Counted' /\ completed' \subseteq Task /\ ready' \subseteq Task
        /\ remaining' \in [Task -> Nat] /\ unfinished' \in Nat
    <3> HIDE DEF S
    <3>1. QED
      BY <2>1, <2>2, <2>5, <2>6, CompletedCounts
  <2>8. status' \in [Task -> Status]
    <3>1. \A t \in Task : Aborted(t) \in Status
      BY AbortedIsFinal DEF TypeOK, Status, Terminal
    <3>2. QED
      BY <2>1, <3>1
  <2>9. QED
    BY <2>1, <2>7, <2>8 DEF Settle, TypeOK, Ordered
<1>2. CASE aborted \/ ~Stopping
  <2> DEFINE S == TerminalIn(touched)
  <2>1. Completed(ready, S) /\ UNCHANGED <<plan, status, touched, aborted>>
    BY <1>2 DEF Settle
  <2>2. S \in SUBSET Task /\ ready \in SUBSET Task
    BY DEF TypeOK, TerminalIn
  <2>3. \A t \in completed \cup S : status'[t] \in Terminal
    BY <2>1 DEF Counted, TerminalIn
  <2>4. Counted' /\ completed' \subseteq Task /\ ready' \subseteq Task
        /\ remaining' \in [Task -> Nat] /\ unfinished' \in Nat
    <3> HIDE DEF S
    <3>1. QED
      BY <2>1, <2>2, <2>3, CompletedCounts
  <2>5. QED
    BY <2>1, <2>4 DEF Settle, TypeOK, Ordered
<1>3. QED
  BY <1>1, <1>2

\* What admitting a task may make of its status.
LEMMA OutcomesAre ==
    ASSUME TypeOK, NEW t \in Task, NEW s \in Outcomes(t)
    PROVE  /\ s \in Status
           /\ status[t] # "pending" => s = status[t]
           /\ s = "running" \/ s = "failed" => status[t] # "pending" \/ (~Waits(t) /\ ~Blocked(t) /\ ~Stopping)
           /\ s = "skipped" => status[t] # "pending" \/ (~Waits(t) /\ Blocked(t))
           /\ s = "cancelled" => status[t] # "pending" \/ Stopping
           /\ s = "pending" => Waits(t)
           /\ s = "succeeded" => status[t] # "pending"
  BY DEF Outcomes, TypeOK, Status, Terminal, Ended

LEMMA AdmitInv == ASSUME Inv, NEW t \in Task, Admit(t) PROVE TypeOK' /\ Counted'
<1> USE DEF Inv
<1>1. PICK s \in Outcomes(t), now \in BOOLEAN :
         /\ status' = [status EXCEPT ![t] = s]
         /\ failed' = (failed \/ (status[t] = "pending" /\ s = "failed" /\ t \notin plan.allowed))
         /\ Completed(ready \ {t}, IF now /\ s \in Terminal THEN {t} ELSE {})
  BY DEF Admit
<1> DEFINE S == IF now /\ s \in Terminal THEN {t} ELSE {}
<1>2. s \in Status /\ (status[t] # "pending" => s = status[t])
  BY OutcomesAre
<1>3. \A u \in Task : status[u] \in Terminal => status'[u] \in Terminal
  BY <1>1, <1>2 DEF TypeOK, Terminal, Ended
<1>4. S \in SUBSET Task /\ ready \ {t} \in SUBSET Task /\ plan' = plan
  BY DEF TypeOK, Admit
<1>5. \A u \in completed \cup S : status'[u] \in Terminal
  BY <1>1, <1>3 DEF TypeOK, Counted
<1>6. Counted' /\ completed' \subseteq Task /\ ready' \subseteq Task
      /\ remaining' \in [Task -> Nat] /\ unfinished' \in Nat
  <2>1. Completed(ready \ {t}, S)
    BY <1>1
  <2> HIDE DEF S
  <2>2. QED
    BY <2>1, <1>4, <1>5, CompletedCounts
<1>7. status' \in [Task -> Status] /\ failed' \in BOOLEAN
  BY <1>1, <1>2 DEF TypeOK
<1>8. QED
  BY <1>6, <1>7 DEF Admit, TypeOK, Ordered

LEMMA AdmittedInv == ASSUME Inv, Admitted PROVE TypeOK' /\ Counted'
<1> USE DEF Inv
<1> DEFINE S == TerminalIn(touched)
<1>1. Completed(ready, S) /\ UNCHANGED <<plan, status>>
  BY DEF Admitted
<1>2. S \in SUBSET Task /\ ready \in SUBSET Task
  BY DEF TypeOK, TerminalIn
<1>3. \A t \in completed \cup S : status'[t] \in Terminal
  BY <1>1 DEF Counted, TerminalIn
<1>4. Counted' /\ completed' \subseteq Task /\ ready' \subseteq Task
      /\ remaining' \in [Task -> Nat] /\ unfinished' \in Nat
  <2> HIDE DEF S
  <2>1. QED
    BY <1>1, <1>2, <1>3, CompletedCounts
<1>5. QED
  BY <1>1, <1>4 DEF Admitted, TypeOK, Ordered

\* The steps that only move the thread or ask for a cancellation.
LEMMA OtherInv ==
    ASSUME Inv, Reaped \/ Check \/ CancelRequest \/ Done \/ UNCHANGED vars
    PROVE  TypeOK' /\ Counted'
<1> USE DEF Inv
<1>1. UNCHANGED <<plan, status, counts>>
  BY DEF Reaped, Check, CancelRequest, Done, vars
<1>2. Counted'
  BY <1>1, CountsStay
<1>3. TypeOK'
  <2>1. touched' \subseteq Task /\ pc' \in {"reap", "settle", "admit", "check", "done"}
        /\ cancelled' \in BOOLEAN /\ stopping' \in BOOLEAN
    BY DEF Reaped, Check, CancelRequest, Done, vars, TypeOK, Running, Stopping, Plan
  <2>2. UNCHANGED <<failed, aborted>>
    BY DEF Reaped, Check, CancelRequest, Done, vars
  <2>3. QED
    BY <1>1, <2>1, <2>2 DEF TypeOK, counts, Ordered
<1>4. QED
  BY <1>2, <1>3

LEMMA LatchedStays == ASSUME Inv, [Next]_vars PROVE Latched'
<1> USE DEF Inv
<1>1. Stopping => Stopping'
  BY StoppingStays
<1>2. CASE Check
  BY <1>1, <1>2 DEF Check, Latched, counts, Stopping
<1>3. CASE \E t \in Task : Reap(t) \/ Admit(t)
  BY <1>1, <1>3 DEF Reap, Admit, Latched
<1>4. CASE Reaped \/ Settle \/ Admitted \/ CancelRequest
  BY <1>1, <1>4 DEF Reaped, Settle, Admitted, CancelRequest, Latched, counts
<1>5. CASE Done \/ UNCHANGED vars
  BY <1>1, <1>5 DEF Done, vars, Latched, counts
<1>6. QED
  BY <1>2, <1>3, <1>4, <1>5 DEF Next

LEMMA NextInv == Inv /\ [Next]_vars => Inv'
<1> SUFFICES ASSUME Inv, [Next]_vars PROVE Inv'
  OBVIOUS
<1>1. Latched'
  BY LatchedStays
<1>2. TypeOK' /\ Counted'
  BY ReapInv, AdmitInv, SettleInv, AdmittedInv, OtherInv DEF Next
<1>3. QED
  BY <1>1, <1>2 DEF Inv

\* The frontier's counters are always those of the tasks that ended, and no
\* counter of engine/crates/executor/src/graph.rs goes below zero.
THEOREM CountersAreRight == Spec => [](TypeOK /\ Counted)
<1>1. Spec => []Inv
  BY InitInv, NextInv, PTL DEF Spec
<1>2. Inv => TypeOK /\ Counted
  BY DEF Inv
<1>3. QED
  BY <1>1, <1>2, PTL

\* When the scheduler leaves its loop on the frontier's word, every task has
\* its final status.
THEOREM FinishedMeansFinal == Spec => []FinishedIsFinal
<1>1. Spec => []Inv
  BY InitInv, NextInv, PTL DEF Spec
<1>2. Inv => FinishedIsFinal
  <2> SUFFICES ASSUME Inv, pc = "done", NEW t \in Task PROVE status[t] \in Terminal
    BY DEF FinishedIsFinal
  <2>1. Cardinality(Task \ completed) = 0
    BY DEF Inv, Latched, Counted
  <2>2. IsFiniteSet(Task \ completed)
    BY TaskAssumption, FS_Difference
  <2>3. Task \ completed = {}
    BY <2>1, <2>2, FS_EmptySet
  <2>4. t \in completed
    BY <2>3
  <2>5. QED
    BY <2>4 DEF Inv, Counted
<1>3. QED
  BY <1>1, <1>2, PTL

-----------------------------------------------------------------------------
(* What runs, and in what order. *)

\* A step begins a task only when its needs came out well, and changes no
\* status that is final.
LEMMA Statuses ==
    ASSUME Inv, [Next]_vars
    PROVE  /\ plan' = plan
           /\ \A t \in Task : status[t] \in Terminal => status'[t] = status[t]
           /\ \A t \in Task : status'[t] \in {"running"} \cup Ended =>
                 status[t] = "running" \/ status'[t] = status[t] \/ \A p \in Needs(t) : Satisfied(p)
<1> USE DEF Inv
<1> DEFINE Goal == /\ plan' = plan
                   /\ \A t \in Task : status[t] \in Terminal => status'[t] = status[t]
                   /\ \A t \in Task : status'[t] \in {"running"} \cup Ended =>
                         status[t] = "running" \/ status'[t] = status[t] \/ \A p \in Needs(t) : Satisfied(p)
<1>1. ASSUME NEW t \in Task, Reap(t) PROVE Goal
  BY <1>1 DEF Reap, TypeOK, Terminal, Ended
<1>2. ASSUME NEW t \in Task, Admit(t) PROVE Goal
  <2>1. PICK s \in Outcomes(t) : status' = [status EXCEPT ![t] = s]
    BY <1>2 DEF Admit
  <2>2. status[t] # "pending" => s = status[t]
    BY OutcomesAre
  <2>3. s \in {"running"} \cup Ended => status[t] = s \/ \A p \in Needs(t) : Satisfied(p)
    BY OutcomesAre DEF Blocked, Ended
  <2>4. QED
    BY <1>2, <2>1, <2>2, <2>3 DEF Admit, TypeOK, Terminal, Ended
<1>3. CASE Settle
  <2>1. \/ \A t \in Task : status'[t] = Aborted(t)
        \/ status' = status
    BY <1>3 DEF Settle
  <2>2. QED
    BY <1>3, <2>1, AbortedIsFinal DEF Settle, Terminal, Ended
<1>4. CASE Reaped \/ Admitted \/ Check \/ CancelRequest \/ Done \/ UNCHANGED vars
  BY <1>4 DEF Reaped, Admitted, Check, CancelRequest, Done, vars
<1>5. QED
  BY <1>1, <1>2, <1>3, <1>4 DEF Next

\* A task is run only after everything it needs came out well, for every plan.
THEOREM NeedsComeFirst == Spec => []NeedsFirst
<1>1. Init => NeedsFirst
  BY DEF Init, NeedsFirst, Ended
<1>2. Inv /\ NeedsFirst /\ [Next]_vars => NeedsFirst'
  <2> SUFFICES ASSUME Inv, NeedsFirst, [Next]_vars,
                      NEW t \in Task, status'[t] \in {"running"} \cup Ended, NEW p \in Needs(t)
               PROVE  Satisfied(p)'
    BY Statuses DEF NeedsFirst, Needs
  <2>1. \A q \in Needs(t) : Satisfied(q)
    BY Statuses DEF NeedsFirst
  <2>2. p \in Task /\ status[p] \in Terminal
    BY <2>1, NeedsFinite DEF Inv, Satisfied, Terminal, Ended
  <2>3. QED
    BY <2>1, <2>2, Statuses DEF Satisfied
<1>3. QED
  <2>1. Spec => []Inv
    BY InitInv, NextInv, PTL DEF Spec
  <2>2. QED
    BY <1>1, <1>2, <2>1, PTL DEF Spec

\* No more tasks run at once than the plan has jobs.
THEOREM JobsAreKept == Spec => []WithinJobs
<1>1. Init => WithinJobs
  <2> SUFFICES ASSUME Init PROVE WithinJobs
    OBVIOUS
  <2>1. Running = {}
    BY DEF Init, Running
  <2>2. QED
    BY <2>1, FS_EmptySet, JobsAssumption DEF WithinJobs
<1>2. Inv /\ WithinJobs /\ [Next]_vars => WithinJobs'
  <2> SUFFICES ASSUME Inv, WithinJobs, [Next]_vars PROVE WithinJobs'
    OBVIOUS
  <2> USE DEF Inv
  <2>1. IsFiniteSet(Running)
    <3>1. Running \in SUBSET Task
      BY DEF Running
    <3>2. QED
      BY <3>1, TaskAssumption, FS_Subset
  <2>2. CASE Running' \subseteq Running
    <3>1. Cardinality(Running') <= Cardinality(Running)
      BY <2>1, <2>2, FS_Subset
    <3>2. Cardinality(Running) \in Nat /\ Cardinality(Running') \in Nat
      BY <2>1, <2>2, FS_Subset, FS_CardinalityType
    <3>3. QED
      BY <3>1, <3>2, JobsAssumption DEF WithinJobs
  <2>3. ASSUME NEW t \in Task, Admit(t) PROVE WithinJobs'
    <3>1. Running' \in SUBSET (Running \cup {t})
      BY <2>3 DEF Admit, Running, TypeOK
    <3>2. /\ IsFiniteSet(Running \cup {t})
          /\ Cardinality(Running \cup {t}) <= Cardinality(Running) + 1
          /\ Cardinality(Running) \in Nat
      <4>1. Cardinality(Running) \in Nat
        BY <2>1, FS_CardinalityType
      <4>2. /\ IsFiniteSet(Running \cup {t})
            /\ Cardinality(Running \cup {t})
                  = IF t \in Running THEN Cardinality(Running) ELSE Cardinality(Running) + 1
        BY <2>1, FS_AddElement
      <4>3. QED
        BY <4>1, <4>2
    <3>3. Cardinality(Running') <= Cardinality(Running \cup {t})
          /\ Cardinality(Running') \in Nat /\ Cardinality(Running \cup {t}) \in Nat
      BY <3>1, <3>2, FS_Subset, FS_CardinalityType
    <3>4. Cardinality(Running) < Jobs
      BY <2>3 DEF Admit, Admissible
    <3>5. QED
      BY <3>2, <3>3, <3>4, JobsAssumption DEF WithinJobs
  <2>4. ASSUME NEW t \in Task, Reap(t) PROVE Running' \subseteq Running
    BY <2>4 DEF Reap, Running, TypeOK, Ended
  <2>5. ASSUME Settle PROVE Running' \subseteq Running
    BY <2>5, AbortedIsFinal DEF Settle, Running
  <2>6. ASSUME Reaped \/ Admitted \/ Check \/ CancelRequest \/ Done \/ UNCHANGED vars
        PROVE  Running' \subseteq Running
    BY <2>6 DEF Reaped, Admitted, Check, CancelRequest, Done, vars, Running
  <2>7. QED
    BY <2>2, <2>3, <2>4, <2>5, <2>6 DEF Next
<1>3. QED
  <2>1. Spec => []Inv
    BY InitInv, NextInv, PTL DEF Spec
  <2>2. QED
    BY <1>1, <1>2, <2>1, PTL DEF Spec

-----------------------------------------------------------------------------
(* No task is forgotten. *)

\* A task whose needs are all completed by Frontier::complete is in the ready
\* set, or was in it and has been taken out.
LEMMA CompletedReadies ==
    ASSUME Inv, NEW r \in SUBSET Task, NEW S \in SUBSET Task, Completed(r, S), Counted',
           plan' = plan, NEW t \in Task, Needs(t) \subseteq completed'
    PROVE  t \in ready' \/ (Needs(t) \subseteq completed /\ t \notin r)
<1> USE DEF Inv
<1>1. IsFiniteSet(Needs(t)) /\ IsFiniteSet(Needs(t) \ completed)
  BY NeedsFinite, FS_Difference
<1>2. remaining[t] = Cardinality(Needs(t) \ completed) /\ remaining[t] \in Nat
  BY DEF Counted, TypeOK
<1>3. remaining'[t] = 0
  <2>1. remaining'[t] = Cardinality(Needs(t) \ completed')
    BY DEF Counted, Needs
  <2>2. Needs(t) \ completed' = {}
    OBVIOUS
  <2>3. QED
    BY <2>1, <2>2, FS_EmptySet
<1>4. CASE remaining[t] = 0
  <2>1. Needs(t) \ completed = {}
    BY <1>1, <1>2, <1>4, FS_EmptySet
  <2>2. QED
    BY <2>1 DEF Completed
<1>5. CASE remaining[t] > 0
  BY <1>3, <1>5 DEF Completed
<1>6. QED
  BY <1>2, <1>4, <1>5

\* A task that could be run is never forgotten, for every plan.
THEOREM NoneIsLost == Spec => []NoneLost
<1>1. Init => NoneLost
  <2> SUFFICES ASSUME Init, NEW t \in Task, Needs(t) \subseteq completed PROVE t \in ready
    BY DEF NoneLost
  <2>1. Needs(t) = {}
    BY DEF Init
  <2>2. QED
    BY <2>1, FS_EmptySet DEF Init
<1>2. Inv /\ Inv' /\ NoneLost /\ [Next]_vars => NoneLost'
  <2> SUFFICES ASSUME Inv, Inv', NoneLost, [Next]_vars,
                      NEW t \in Task, status'[t] = "pending", Needs(t) \subseteq completed'
               PROVE  t \in ready'
    BY Statuses DEF NoneLost, Needs
  <2> USE DEF Inv
  <2>1. status[t] = "pending"
    <3>1. status[t] \notin Terminal
      BY Statuses DEF Terminal, Ended
    <3>2. status[t] # "running"
      <4>1. ASSUME NEW u \in Task, Reap(u) PROVE status[t] = "pending" \/ status'[t] # "pending"
        BY <4>1 DEF Reap, TypeOK, Ended
      <4>2. ASSUME NEW u \in Task, Admit(u) PROVE status[t] = "pending" \/ status'[t] # "pending"
        BY <4>2, OutcomesAre DEF Admit, TypeOK
      <4>3. ASSUME Settle PROVE status[t] = "pending" \/ status'[t] # "pending"
        BY <4>3, AbortedIsFinal DEF Settle
      <4>4. ASSUME Reaped \/ Admitted \/ Check \/ CancelRequest \/ Done \/ UNCHANGED vars
            PROVE  status'[t] = status[t]
        BY <4>4 DEF Reaped, Admitted, Check, CancelRequest, Done, vars
      <4>5. QED
        BY <4>1, <4>2, <4>3, <4>4 DEF Next
    <3>3. QED
      BY <3>1, <3>2 DEF TypeOK, Status
  <2>2. Needs(t) \subseteq completed => t \in ready
    BY <2>1 DEF NoneLost
  <2>3. plan' = plan /\ Counted' /\ ready \in SUBSET Task
    BY Statuses DEF TypeOK
  <2>4. ASSUME NEW S \in SUBSET Task, Completed(ready, S) PROVE t \in ready'
    BY <2>2, <2>3, <2>4, CompletedReadies
  <2>5. CASE Settle \/ Admitted
    <3>1. TerminalIn(touched) \in SUBSET Task
          /\ TerminalIn(touched) \cup {u \in Task : status[u] = "pending"} \in SUBSET Task
      BY DEF TypeOK, TerminalIn
    <3>2. QED
      BY <2>4, <2>5, <3>1 DEF Settle, Admitted
  <2>6. ASSUME NEW u \in Task, Admit(u) PROVE t \in ready'
    <3>1. PICK s \in Outcomes(u), now \in BOOLEAN :
             /\ status' = [status EXCEPT ![u] = s]
             /\ Completed(ready \ {u}, IF now /\ s \in Terminal THEN {u} ELSE {})
      BY <2>6 DEF Admit
    <3> DEFINE S == IF now /\ s \in Terminal THEN {u} ELSE {}
    <3>2. S \in SUBSET Task /\ ready \ {u} \in SUBSET Task
      BY <2>3
    <3>3. t \in ready' \/ (Needs(t) \subseteq completed /\ t \notin ready \ {u})
      <4>1. Completed(ready \ {u}, S)
        BY <3>1
      <4> HIDE DEF S
      <4>2. QED
        BY <2>3, <3>2, <4>1, CompletedReadies
    <3>4. CASE Needs(t) \subseteq completed /\ t = u
      <4>1. s = "pending"
        BY <3>1, <3>4 DEF TypeOK
      <4>2. Waits(t)
        BY <3>4, <4>1, OutcomesAre
      <4>3. \A p \in Needs(t) : status[p] \in Terminal
        BY <3>4 DEF Counted
      <4>4. QED
        BY <4>2, <4>3 DEF Waits
    <3>5. QED
      BY <2>2, <3>3, <3>4
  <2>7. CASE \/ Reaped \/ Check \/ CancelRequest \/ Done \/ UNCHANGED vars
             \/ \E u \in Task : Reap(u)
    BY <2>2, <2>7 DEF Reaped, Check, CancelRequest, Done, vars, Reap, counts
  <2>8. QED
    BY <2>5, <2>6, <2>7 DEF Next
<1>3. QED
  <2>1. Spec => []Inv
    BY InitInv, NextInv, PTL DEF Spec
  <2>2. QED
    BY <1>1, <1>2, <2>1, PTL DEF Spec

\* The counters are right, no task is forgotten and the end is the end, for
\* every finite set of tasks, every ordered plan and every number of jobs.
THEOREM FrontierIsRight == Spec => []FrontierHolds
<1>1. TypeOK /\ Counted /\ NoneLost /\ FinishedIsFinal => FrontierHolds
  BY DEF FrontierHolds
<1>2. QED
  BY <1>1, CountersAreRight, NoneIsLost, FinishedMeansFinal, PTL

-----------------------------------------------------------------------------
(* The incremental admission implements DagExecution. *)

\* The reasons to stop are the abort of DagExecution.
LEMMA PlanStep == ASSUME Inv, [Next]_vars PROVE Dag!Plan
  BY Statuses, StoppingStays DEF Inv, TypeOK, Stopping, Plan, Dag!Plan

LEMMA AdmitBegins == ASSUME Inv, NEW t \in Task, Admit(t) PROVE status' = status \/ Dag!Begin(t) \/ Dag!Skip(t) \/ Dag!Cancel
<1> USE DEF Inv
<1>1. PICK s \in Outcomes(t) : status' = [status EXCEPT ![t] = s]
  BY DEF Admit
<1>2. s \in Status
  BY OutcomesAre
<1>3. CASE status[t] # "pending" \/ s = "pending"
  BY <1>1, <1>3, OutcomesAre DEF TypeOK
<1>4. CASE status[t] = "pending" /\ s \in {"running", "failed"}
  <2>1. ~Stopping /\ \A p \in Needs(t) : Satisfied(p)
    BY <1>4, OutcomesAre DEF Blocked
  <2>2. \A p \in plan.needs[t] : Dag!Good(p)
    BY <2>1 DEF Needs, Satisfied, Dag!Good
  <2>3. Dag!Cardinality(Dag!Running) < Jobs
    <3>1. Dag!Running = Running
      BY DEF Running, Dag!Running
    <3>2. Dag!Cardinality(Running) = Cardinality(Running)
      BY DEF Dag!Cardinality, Cardinality
    <3>3. QED
      BY <3>1, <3>2 DEF Admit, Admissible
  <2>4. CASE s = "running"
    <3>1. status' = [status EXCEPT ![t] = "running"]
      BY <1>1, <2>4
    <3>2. Dag!Begin(t)
      BY <1>4, <2>1, <2>2, <2>3, <3>1 DEF Dag!Begin
    <3>3. QED
      BY <3>2
  <2>5. CASE s = "failed"
    <3>1. status' = [status EXCEPT ![t] = "failed"]
      BY <1>1, <2>5
    <3>2. Dag!Begin(t)
      BY <1>4, <2>1, <2>2, <3>1 DEF Dag!Begin
    <3>3. QED
      BY <3>2
  <2>6. QED
    BY <1>4, <2>4, <2>5
<1>5. CASE status[t] = "pending" /\ s = "skipped"
  <2>1. ~Waits(t) /\ Blocked(t)
    BY <1>5, OutcomesAre
  <2>2. PICK p \in Needs(t) : ~Satisfied(p) /\ status[p] \in Terminal
    BY <2>1 DEF Waits, Blocked
  <2>3. p \in plan.needs[t] /\ Dag!Bad(p)
    BY <2>2 DEF Needs, Satisfied, Terminal, Ended, Dag!Bad, Dag!Good, Dag!Done, Dag!Unstarted
  <2>4. QED
    BY <1>1, <1>5, <2>3 DEF Dag!Skip
<1>6. CASE status[t] = "pending" /\ s = "cancelled"
  <2>1. Stopping
    BY <1>6, OutcomesAre
  <2>2. Dag!Status = Status
    BY DEF Dag!Status, Dag!Done, Dag!Unstarted, Status, Terminal, Ended
  <2>3. QED
    BY <1>1, <1>2, <1>6, <2>1, <2>2 DEF TypeOK, Dag!Cancel, Dag!Unstarted
<1>7. s # "succeeded" \/ status[t] # "pending"
  BY OutcomesAre
<1>8. QED
  BY <1>2, <1>3, <1>4, <1>5, <1>6, <1>7 DEF Status, Terminal, Ended

LEMMA SettleCancels == ASSUME Inv, Inv', Settle PROVE status' = status \/ Dag!Cancel
<1> USE DEF Inv
<1>1. CASE Stopping /\ status' = [t \in Task |-> Aborted(t)]
  <2>1. Dag!Status = Status
    BY DEF Dag!Status, Dag!Done, Dag!Unstarted, Status, Terminal, Ended
  <2>2. status' \in [Task -> Dag!Status]
    BY <2>1 DEF TypeOK
  <2>3. ASSUME NEW t \in Task
        PROVE  IF status[t] = "pending" THEN status'[t] \in Dag!Unstarted \cup {"pending"}
                                        ELSE status'[t] = status[t]
    BY <1>1, AbortedIsFinal DEF Dag!Unstarted
  <2>4. QED
    BY <1>1, <2>2, <2>3 DEF Dag!Cancel
<1>2. QED
  BY <1>1 DEF Settle

LEMMA ReapEnds == ASSUME Inv, NEW t \in Task, Reap(t) PROVE Dag!End(t)
  BY DEF Inv, Latched, Reap, Dag!End, Dag!Done, Ended

\* Every step of the scheduler's passes is one of DagExecution, or none.
THEOREM FrontierImplementsDag == Spec => ImplementsDag
<1>1. Init => Dag!Init
  <2> SUFFICES ASSUME Init PROVE Dag!Init
    OBVIOUS
  <2>1. plan \in Plan
    BY PlanAssumption DEF Init
  <2>2. QED
    BY <2>1 DEF Init, Plan, Stopping, Dag!Init
<1>2. Inv /\ Inv' /\ [Next]_vars => [Dag!Next]_<<plan.needs, plan.allowed, status, Stopping>>
  <2> SUFFICES ASSUME Inv, Inv', [Next]_vars PROVE Dag!Next
    OBVIOUS
  <2>1. Dag!Plan
    BY PlanStep
  <2>2. ASSUME NEW t \in Task, Reap(t) \/ Admit(t) PROVE Dag!Next
    BY <2>1, <2>2, ReapEnds, AdmitBegins DEF Dag!Next
  <2>3. CASE Settle
    BY <2>1, <2>3, SettleCancels DEF Dag!Next
  <2>4. CASE Reaped \/ Admitted \/ Check \/ CancelRequest \/ Done \/ UNCHANGED vars
    <3>1. status' = status
      BY <2>4 DEF Reaped, Admitted, Check, CancelRequest, Done, vars
    <3>2. QED
      BY <2>1, <3>1 DEF Dag!Next
  <2>5. QED
    BY <2>2, <2>3, <2>4 DEF Next
<1>3. QED
  <2>1. Spec => []Inv
    BY InitInv, NextInv, PTL DEF Spec
  <2>2. QED
    BY <1>1, <1>2, <2>1, PTL DEF Spec, ImplementsDag, Dag!Spec
=============================================================================
