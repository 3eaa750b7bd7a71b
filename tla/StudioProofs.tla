--------------------------- MODULE StudioProofs ---------------------------
(***************************************************************************)
(* What holds of the runs of the studio, for every number of runs and jobs *)
(* and however many statements fail, servers end and requests come.        *)
(***************************************************************************)
EXTENDS MCStudioRun, NaturalsInduction, WellFoundedInduction, TLAPS

-----------------------------------------------------------------------------
(* What is known of a run: rw is its row, cp the executor's copy, st where *)
(* the executor is, ix the position of the job, pr the process, er whether *)
(* the actions failed, cn what a cancellation has read; c and b say that   *)
(* it was cancelled, and that a process of it failed.                      *)

Done(jobs, i) == \A j \in 1..i - 1 : jobs[j] \in {"SUCCESS", "SKIPPED"}
Ahead(jobs, i) == \A j \in i..Len(jobs) : jobs[j] \in {"PENDING", "SKIPPED"}
Sane(run) == run \in Runs /\ Coherent(run)

\* What the executor has made of the jobs before the one it is at, and after it.
JobsFit(cp, st, ix, er) ==
    /\ st = "prepared" => Ahead(cp.jobs, 1)
    /\ st \in {"next", "start"} =>
          /\ ix \in 1..Len(cp.jobs) + 1 /\ Done(cp.jobs, ix) /\ Ahead(cp.jobs, ix)
          /\ ix \in 1..Len(cp.jobs) => cp.jobs[ix] = "PENDING"
    /\ st \in {"spawn", "stream", "wait"} =>
          cp.jobs[ix] = "RUNNING" /\ Done(cp.jobs, ix) /\ Ahead(cp.jobs, ix + 1)
    /\ st \in {"start", "spawn", "stream", "wait"} => ix \in 1..Len(cp.jobs)
    /\ st \in {"next", "start", "spawn", "stream", "wait"} => cp.status = "RUNNING"
    /\ st = "judge" =>
          /\ \E i \in 1..Len(cp.jobs) : Done(cp.jobs, i) /\ Ahead(cp.jobs, i + 1)
          /\ ~er => Done(cp.jobs, Len(cp.jobs) + 1)
    /\ st = "save" => Coherent(cp) /\ cp.status \in Final

\* What its row may say meanwhile.
RowFits(rw, st, c) ==
    /\ st = "done" => rw.status \in Final
    /\ rw.status \in {"SUCCESS", "FAILURE"} => st = "done"
    /\ st = "prepared" /\ ~c => rw.status = "PENDING"
    /\ st \in {"next", "start", "spawn", "stream", "wait", "judge", "save"} /\ ~c =>
          rw.status = "RUNNING"

\* A process belongs to a command, and one that failed is not forgotten.
ProcessFits(rw, cp, st, pr, er, b) ==
    /\ pr # "none" => st \in {"stream", "wait"}
    /\ b => \/ st \in {"stream", "wait"} /\ pr = "failed"
            \/ st = "judge" /\ er
            \/ st = "save" /\ cp.status # "SUCCESS"
            \/ st \in {"done", "lost"} /\ rw.status # "SUCCESS"

Fine(rw, cp, st, ix, pr, er, cn, c, b) ==
    IF st = "none" THEN rw = None /\ cp = None /\ cn = None /\ pr = "none" /\ ~b
    ELSE /\ Sane(rw) /\ cp \in Runs /\ (cn = None \/ Sane(cn))
         /\ JobsFit(cp, st, ix, er) /\ RowFits(rw, st, c) /\ ProcessFits(rw, cp, st, pr, er, b)

RunFits(r) == Fine(row[r], copy[r], pc[r], index[r], process[r], error[r], cancelling[r],
                   r \in cancelled, r \in broken)

StudioTypes ==
    /\ row \in [Run -> Copy] /\ copy \in [Run -> Copy] /\ cancelling \in [Run -> Copy]
    /\ pc \in [Run -> Step] /\ present \in [Updates -> SUBSET Run]
    /\ update \in [Updates -> {"none", "checked", "updating", "done"}]
    /\ index \in [Run -> Nat \ {0}] /\ command \in [Run -> 0..MaxCommands] /\ lines \in [Run -> 0..MaxLines]
    /\ process \in [Run -> {"none", "running", "ok", "failed"}] /\ error \in [Run -> BOOLEAN]
    /\ cancelled \subseteq Run /\ broken \subseteq Run
    /\ cancels \in 0..MaxCancels /\ faults \in 0..MaxFaults

\* The jobs of one copy are where those of another are, or behind them.
Behind(jobs, ahead) ==
    Len(jobs) = Len(ahead) /\ \A i \in 1..Len(jobs) : Follows(jobs[i], ahead[i])

\* What is stored, and what a cancellation has read, is behind the executor's copy.
Trails(r) ==
    pc[r] # "none" =>
       /\ Behind(row[r].jobs, copy[r].jobs)
       /\ cancelling[r] = None \/ Behind(cancelling[r].jobs, copy[r].jobs)

StudioInv == StudioTypes /\ (\A r \in Run : RunFits(r) /\ Trails(r)) /\ WaitsForRuns

-----------------------------------------------------------------------------
(* Runs and their jobs. *)

LEMMA LessIsLess == \A x, y \in Nat : x < y => <<x, y>> \in OpToRel(<, Nat)
  BY DEF OpToRel

LEMMA LeastOf ==
    ASSUME NEW R, NEW S, IsWellFoundedOn(R, S), \A x, y \in S : x < y => <<x, y>> \in R,
           NEW T, T \subseteq S, T # {}
    PROVE  \E x \in T : \A y \in T : ~(y < x)
<1>1. PICK x \in T : \A y \in T : ~ (<<y, x>> \in R)
  BY WFMin
<1>2. QED
  BY <1>1

LEMMA LeastNumber == ASSUME NEW T, T \subseteq Nat, T # {} PROVE \E x \in T : \A y \in T : x <= y
<1>1. \E x \in T : \A y \in T : ~(y < x)
  BY NatLessThanWellFounded, LessIsLess, LeastOf, Zenon
<1>2. QED
  BY <1>1

LEMMA JobsAre ==
    ASSUME NEW run \in Runs
    PROVE  /\ Len(run.jobs) \in Nat \ {0} /\ DOMAIN run.jobs = 1..Len(run.jobs)
           /\ run.jobs \in [1..Len(run.jobs) -> JobStatus] /\ run.status \in Status
           /\ [1..Len(run.jobs) -> JobStatus] \subseteq UNION {[1..Len(jobs) -> JobStatus] : jobs \in JobLists}
<1>1. PICK jobs \in JobLists : run.jobs \in [1..Len(jobs) -> JobStatus]
  BY DEF Runs
<1>2. Len(jobs) \in Nat \ {0}
  BY JobsAssumption
<1>3. Len(run.jobs) = Len(jobs) /\ DOMAIN run.jobs = 1..Len(jobs)
  BY <1>1, <1>2
<1>4. run.status \in Status
  BY DEF Runs
<1>5. QED
  BY <1>1, <1>2, <1>3, <1>4

LEMMA StatusSet ==
    ASSUME NEW run \in Runs, NEW s \in Status
    PROVE  LET new == [run EXCEPT !.status = s] IN
           new \in Runs /\ new.jobs = run.jobs /\ new.status = s
  BY DEF Runs

LEMMA JobSet ==
    ASSUME NEW run \in Runs, NEW i \in 1..Len(run.jobs), NEW s \in JobStatus
    PROVE  LET new == [run EXCEPT !.jobs[i] = s] IN
           /\ new \in Runs /\ new.status = run.status /\ Len(new.jobs) = Len(run.jobs)
           /\ new.jobs[i] = s
           /\ \A j \in 1..Len(run.jobs) : j # i => new.jobs[j] = run.jobs[j]
<1> DEFINE new == [run EXCEPT !.jobs[i] = s]
<1>1. new = [run EXCEPT !.jobs = [run.jobs EXCEPT ![i] = s]]
  BY JobsAre DEF Runs
<1>2. PICK jobs : jobs = [run.jobs EXCEPT ![i] = s]
  OBVIOUS
<1>3. /\ jobs \in [1..Len(run.jobs) -> JobStatus] /\ jobs[i] = s
      /\ \A j \in 1..Len(run.jobs) : j # i => jobs[j] = run.jobs[j]
  BY <1>2, JobsAre
<1>4. Len(jobs) = Len(run.jobs)
  BY <1>3, JobsAre
<1>5. jobs \in UNION {[1..Len(js) -> JobStatus] : js \in JobLists}
  BY <1>3, JobsAre
<1> HIDE DEF new
<1>6. new.jobs = jobs /\ new.status = run.status /\ new \in Runs
  BY <1>1, <1>2, <1>5 DEF Runs
<1>7. QED
  BY <1>3, <1>4, <1>6 DEF new

LEMMA BehindSelf == ASSUME NEW run \in Runs PROVE Behind(run.jobs, run.jobs)
  BY DEF Behind, Follows

LEMMA BehindFurther ==
    ASSUME NEW a, NEW b, NEW c, Behind(a, b), Behind(b, c)
    PROVE  Behind(a, c)
<1>1. \A x, y, z : Follows(x, y) /\ Follows(y, z) => Follows(x, z)
  BY DEF Follows
<1>2. Len(a) = Len(b) /\ Len(b) = Len(c)
  BY DEF Behind
<1>3. ASSUME NEW i \in 1..Len(a) PROVE Follows(a[i], c[i])
  <2>1. Follows(a[i], b[i]) /\ Follows(b[i], c[i])
    BY <1>2 DEF Behind
  <2>2. QED
    BY <1>1, <2>1
<1>4. QED
  BY <1>2, <1>3 DEF Behind

\* One job goes on, the others stay.
LEMMA OneAhead ==
    ASSUME NEW a, NEW b, Len(a) = Len(b), NEW i, Follows(a[i], b[i]),
           \A j \in 1..Len(a) : j # i => b[j] = a[j]
    PROVE  Behind(a, b)
  BY DEF Behind, Follows

\* A run that goes on is coherent when what is before its job is done and what is
\* after it has not begun.
LEMMA GoingOn ==
    ASSUME NEW run \in Runs, run.status \in {"PENDING", "RUNNING", "CANCELLED"},
           NEW i \in 1..Len(run.jobs), Done(run.jobs, i), Ahead(run.jobs, i + 1)
    PROVE  Sane(run)
  BY DEF Sane, Coherent, Done, Ahead

LEMMA Cancellable ==
    ASSUME NEW run, Sane(run)
    PROVE  LET new == [run EXCEPT !.status = "CANCELLED"] IN Sane(new) /\ new.status = "CANCELLED"
<1>1. "CANCELLED" \in Status
  BY DEF Status, Final
<1>2. run \in Runs
  BY DEF Sane
<1>3. QED
  BY <1>1, <1>2, StatusSet DEF Sane, Coherent

\* The next job: what is before it and not done already is skipped.
LEMMA NextIs ==
    ASSUME NEW r, copy[r] \in Runs, NEW i \in 1..Len(copy[r].jobs) + 1
    PROVE  /\ NextJob(r, i) \in i..Len(copy[r].jobs) + 1
           /\ NextJob(r, i) <= Len(copy[r].jobs) => copy[r].jobs[NextJob(r, i)] # "SKIPPED"
           /\ \A k \in i..NextJob(r, i) - 1 : copy[r].jobs[k] = "SKIPPED"
<1> DEFINE n == Len(copy[r].jobs)
           Stays(j) == j <= n => copy[r].jobs[j] # "SKIPPED"
           Passed(j) == \A k \in i..j - 1 : copy[r].jobs[k] = "SKIPPED"
<1>1. n \in Nat \ {0}
  BY JobsAre
<1>2. \E j \in i..n + 1 : Stays(j) /\ Passed(j)
  <2> DEFINE T == {j \in i..n + 1 : Stays(j)}
  <2>1. n + 1 \in T
    BY <1>1
  <2>2. T \subseteq Nat
    BY <1>1
  <2>3. \E j \in T : \A k \in T : j <= k
    <3> HIDE DEF T
    <3>1. QED
      BY <2>1, <2>2, LeastNumber
  <2>4. PICK j \in T : \A k \in T : j <= k
    BY <2>3
  <2>5. ASSUME NEW k \in i..j - 1 PROVE copy[r].jobs[k] = "SKIPPED"
    <3>1. k \in i..n + 1 /\ k <= n /\ ~ (j <= k)
      BY <1>1, <2>4
    <3>2. QED
      BY <2>4, <3>1
  <2>6. QED
    BY <2>4, <2>5
<1>3. NextJob(r, i) = CHOOSE j \in i..n + 1 : Stays(j) /\ Passed(j)
  BY DEF NextJob, Jobs
<1>4. NextJob(r, i) \in i..n + 1 /\ Stays(NextJob(r, i)) /\ Passed(NextJob(r, i))
  <2> HIDE DEF Stays, Passed
  <2>1. QED
    BY <1>2, <1>3
<1>5. QED
  BY <1>4

-----------------------------------------------------------------------------
(* Steps of one run. *)

LEMMA KeptAt == ASSUME NEW D, NEW S, NEW f \in [D -> S], NEW d \in D PROVE f = [f EXCEPT ![d] = f[d]]
  OBVIOUS

\* A step of r's executor makes this of what belongs to r.
Turns(r, rw, cp, st, ix, pr, er) ==
    /\ row' = [row EXCEPT ![r] = rw] /\ copy' = [copy EXCEPT ![r] = cp]
    /\ pc' = [pc EXCEPT ![r] = st] /\ index' = [index EXCEPT ![r] = ix]
    /\ process' = [process EXCEPT ![r] = pr] /\ error' = [error EXCEPT ![r] = er]
    /\ command' \in [Run -> 0..MaxCommands] /\ lines' \in [Run -> 0..MaxLines]
    /\ faults' \in 0..MaxFaults
    /\ UNCHANGED <<cancelling, cancelled, broken, update, present, cancels>>

LEMMA KeepsItself ==
    ASSUME StudioInv, NEW r \in Run
    PROVE  /\ row = [row EXCEPT ![r] = row[r]] /\ copy = [copy EXCEPT ![r] = copy[r]]
           /\ pc = [pc EXCEPT ![r] = pc[r]] /\ index = [index EXCEPT ![r] = index[r]]
           /\ process = [process EXCEPT ![r] = process[r]] /\ error = [error EXCEPT ![r] = error[r]]
           /\ cancelling = [cancelling EXCEPT ![r] = cancelling[r]]
  BY KeptAt DEF StudioInv, StudioTypes

\* What is known of a run whose executor is at work.
LEMMA KnownOf ==
    ASSUME StudioInv, NEW r \in Run
    PROVE  /\ StudioTypes
           /\ Fine(row[r], copy[r], pc[r], index[r], process[r], error[r], cancelling[r],
                   r \in cancelled, r \in broken)
           /\ pc[r] # "none" =>
                 /\ Sane(row[r]) /\ row[r] \in Runs /\ copy[r] \in Runs
                 /\ cancelling[r] = None \/ Sane(cancelling[r])
                 /\ JobsFit(copy[r], pc[r], index[r], error[r]) /\ RowFits(row[r], pc[r], r \in cancelled)
                 /\ ProcessFits(row[r], copy[r], pc[r], process[r], error[r], r \in broken)
                 /\ Trails(r)
  BY DEF StudioInv, RunFits, Fine, Sane

LEMMA RowKnown ==
    ASSUME StudioInv, NEW r \in Run
    PROVE  /\ row[r] # None => pc[r] # "none"
           /\ cancelling[r] # None => pc[r] # "none"
           /\ pc[r] # "none" => row[r] # None
<1>1. None \notin Runs
  BY NoneAssumption
<1>2. QED
  BY <1>1, KnownOf DEF Fine

\* What a step of one executor, or of one request, leaves of the updates under way.
LEMMA WaitsKept ==
    ASSUME StudioInv, UNCHANGED <<update, present>>, cancelled \subseteq cancelled',
           \A s \in Run : pc[s] \in {"done", "lost"} /\ process[s] = "none" =>
                            pc'[s] = pc[s] /\ process'[s] = process[s]
    PROVE  WaitsForRuns'
<1>1. WaitsForRuns
  BY DEF StudioInv
<1>2. present \in [Updates -> SUBSET Run]
  BY DEF StudioInv, StudioTypes
<1>3. SUFFICES ASSUME NEW u \in Updates, update[u] \in {"checked", "updating"},
                      NEW s \in present[u] \ cancelled'
               PROVE  pc'[s] \in {"done", "lost"} /\ process'[s] = "none"
  BY Zenon DEF WaitsForRuns
<1>4. s \in Run /\ pc[s] \in {"done", "lost"} /\ process[s] = "none"
  BY <1>1, <1>2, <1>3 DEF WaitsForRuns
<1>5. QED
  BY <1>4

\* A step of r's executor, and what it makes of r.
LEMMA Turned ==
    ASSUME StudioInv, NEW r \in Run, NEW rw \in Copy, NEW cp \in Runs, NEW st \in Step,
           NEW ix \in Nat \ {0}, NEW pr \in {"none", "running", "ok", "failed"}, NEW er \in BOOLEAN,
           Turns(r, rw, cp, st, ix, pr, er), st # "none",
           Fine(rw, cp, st, ix, pr, er, cancelling[r], r \in cancelled, r \in broken),
           pc[r] \notin {"done", "lost"}, rw \in {row[r], cp},
           pc[r] = "none" => rw = cp,
           pc[r] # "none" => cp.jobs = copy[r].jobs \/ Behind(copy[r].jobs, cp.jobs)
    PROVE  StudioInv' /\ SavesAdvance
<1>1. StudioTypes /\ (\A s \in Run : RunFits(s)) /\ \A s \in Run : Trails(s)
  BY DEF StudioInv
<1>2. /\ cancelling' = cancelling /\ cancelled' = cancelled /\ broken' = broken
      /\ update' = update /\ present' = present /\ cancels' = cancels
  BY DEF Turns
<1>3. StudioTypes'
  BY <1>1, <1>2 DEF StudioTypes, Turns, Copy
<1>4. /\ row'[r] = rw /\ copy'[r] = cp /\ pc'[r] = st /\ index'[r] = ix
      /\ process'[r] = pr /\ error'[r] = er
  BY <1>1 DEF StudioTypes, Turns
<1>5. \A s \in Run : s # r =>
         /\ row'[s] = row[s] /\ copy'[s] = copy[s] /\ pc'[s] = pc[s] /\ index'[s] = index[s]
         /\ process'[s] = process[s] /\ error'[s] = error[s]
  BY <1>1 DEF StudioTypes, Turns
<1>6. RunFits(r)'
  BY <1>2, <1>4 DEF RunFits
<1>7. ASSUME NEW s \in Run, s # r PROVE RunFits(s)' /\ Trails(s)'
  BY <1>1, <1>2, <1>5, <1>7 DEF RunFits, Trails
<1>8. pc[r] # "none" => /\ Behind(row[r].jobs, cp.jobs)
                        /\ cancelling[r] = None \/ Behind(cancelling[r].jobs, cp.jobs)
  <2>1. SUFFICES ASSUME pc[r] # "none"
                 PROVE  /\ Behind(row[r].jobs, cp.jobs)
                        /\ cancelling[r] = None \/ Behind(cancelling[r].jobs, cp.jobs)
    OBVIOUS
  <2>2. /\ Behind(row[r].jobs, copy[r].jobs)
        /\ cancelling[r] = None \/ Behind(cancelling[r].jobs, copy[r].jobs)
    BY <1>1, <2>1 DEF Trails
  <2>3. CASE cp.jobs = copy[r].jobs
    BY <2>2, <2>3
  <2>4. CASE Behind(copy[r].jobs, cp.jobs)
    BY <2>2, <2>4, BehindFurther
  <2>5. QED
    BY <2>1, <2>3, <2>4
<1>9. Trails(r)'
  <2>1. Behind(cp.jobs, cp.jobs)
    BY BehindSelf
  <2>2. pc[r] = "none" => cancelling[r] = None
    BY KnownOf DEF Fine
  <2>3. Behind(rw.jobs, cp.jobs) /\ (cancelling[r] = None \/ Behind(cancelling[r].jobs, cp.jobs))
    BY <1>8, <2>1, <2>2
  <2>4. QED
    BY <1>2, <1>4, <2>3 DEF Trails
<1>10. WaitsForRuns'
  <2>1. \A s \in Run : pc[s] \in {"done", "lost"} /\ process[s] = "none" =>
                            pc'[s] = pc[s] /\ process'[s] = process[s]
    BY <1>5
  <2>2. QED
    BY <1>2, <2>1, WaitsKept
<1>11. SavesAdvance
  <2>1. SUFFICES ASSUME NEW s \in Run, row[s] # None
                 PROVE  /\ \A i \in DOMAIN row[s].jobs : Follows(row[s].jobs[i], row'[s].jobs[i])
                        /\ row[s].status \in {"SUCCESS", "FAILURE"} => row'[s] = row[s]
    BY DEF SavesAdvance
  <2>2. CASE row'[s] = row[s]
    BY <2>2 DEF Follows
  <2>3. CASE row'[s] # row[s]
    <3>1. s = r /\ row'[s] = cp
      BY <1>4, <1>5, <2>3
    <3>2. pc[r] # "none"
      BY <2>1, <3>1, RowKnown
    <3>3. row[r] \in Runs /\ RowFits(row[r], pc[r], r \in cancelled)
      BY <3>2, KnownOf
    <3>4. row[r].status \notin {"SUCCESS", "FAILURE"}
      BY <3>3 DEF RowFits
    <3>5. DOMAIN row[r].jobs = 1..Len(row[r].jobs)
      BY <3>3, JobsAre
    <3>6. QED
      BY <1>8, <3>1, <3>2, <3>4, <3>5 DEF Behind
  <2>4. QED
    BY <2>2, <2>3
<1>12. QED
  BY <1>3, <1>6, <1>7, <1>9, <1>10, <1>11 DEF StudioInv

LEMMA Literals ==
    /\ {"PENDING", "RUNNING", "SUCCESS", "FAILURE", "CANCELLED"} = Status
    /\ Final \subseteq Status
    /\ {"PENDING", "SKIPPED", "RUNNING", "SUCCESS", "FAILURE", "CANCELLED"} = JobStatus
    /\ {"none", "prepared", "next", "start", "spawn", "stream", "wait", "judge", "save", "done", "lost"} = Step
  BY DEF Status, Final, JobStatus, Step

\* execute_actions returns early: the row stays as it is.
LEMMA ReturnTurns ==
    ASSUME StudioInv, NEW r \in Run, NEW b \in BOOLEAN, Return(r, b),
           NEW cp \in Runs, copy' = [copy EXCEPT ![r] = cp],
           UNCHANGED <<row, index, cancelling, cancelled, broken, update, present, cancels>>,
           command' \in [Run -> 0..MaxCommands], lines' \in [Run -> 0..MaxLines],
           faults' \in 0..MaxFaults,
           pc[r] \in {"next", "start", "spawn", "stream", "wait"},
           \E i \in 1..Len(cp.jobs) : Done(cp.jobs, i) /\ Ahead(cp.jobs, i + 1),
           ~b => Done(cp.jobs, Len(cp.jobs) + 1),
           r \in broken => b,
           cp.jobs = copy[r].jobs \/ Behind(copy[r].jobs, cp.jobs)
    PROVE  StudioInv' /\ SavesAdvance
<1>1. Turns(r, row[r], cp, "judge", index[r], "none", b)
  BY KeepsItself DEF Turns, Return, Goto
<1>2. /\ Sane(row[r]) /\ (cancelling[r] = None \/ Sane(cancelling[r]))
      /\ RowFits(row[r], pc[r], r \in cancelled)
  BY KnownOf
<1>3. JobsFit(cp, "judge", index[r], b)
  BY DEF JobsFit
<1>4. RowFits(row[r], "judge", r \in cancelled)
  BY <1>2 DEF RowFits
<1>5. ProcessFits(row[r], cp, "judge", "none", b, r \in broken)
  BY DEF ProcessFits
<1>6. Fine(row[r], cp, "judge", index[r], "none", b, cancelling[r], r \in cancelled, r \in broken)
  BY <1>2, <1>3, <1>4, <1>5 DEF Fine
<1>7. row[r] \in Copy /\ index[r] \in Nat \ {0} /\ "judge" \in Step
  BY KnownOf, Literals DEF StudioTypes, Copy
<1>8. PICK rw, ix, st, pr : rw = row[r] /\ ix = index[r] /\ st = "judge" /\ pr = "none"
  OBVIOUS
<1>9. /\ Turns(r, rw, cp, st, ix, pr, b)
      /\ Fine(rw, cp, st, ix, pr, b, cancelling[r], r \in cancelled, r \in broken)
      /\ rw \in Copy /\ st \in Step /\ ix \in Nat \ {0} /\ pr \in {"none", "running", "ok", "failed"}
  BY <1>1, <1>6, <1>7, <1>8
<1>10. pc[r] \notin {"none", "done", "lost"} /\ st # "none" /\ rw \in {row[r], cp}
  BY <1>8
<1>11. QED
  BY <1>9, <1>10, Turned

\* It stores its copy and goes on.
LEMMA StoreTurns ==
    ASSUME StudioInv, NEW r \in Run, NEW new \in Runs, NEW st \in {"next", "start", "spawn", "stream"},
           NEW ix \in Nat \ {0}, NEW pr \in {"none", "running", "ok", "failed"},
           Turns(r, new, new, st, ix, pr, error[r]),
           pc[r] \in {"prepared", "next", "start", "spawn", "stream", "wait"},
           new.status = "RUNNING", JobsFit(new, st, ix, error[r]),
           \E i \in 1..Len(new.jobs) : Done(new.jobs, i) /\ Ahead(new.jobs, i + 1),
           ProcessFits(new, new, st, pr, error[r], r \in broken),
           new.jobs = copy[r].jobs \/ Behind(copy[r].jobs, new.jobs)
    PROVE  StudioInv' /\ SavesAdvance
<1>1. cancelling[r] = None \/ Sane(cancelling[r])
  BY KnownOf
<1>2. Sane(new)
  BY GoingOn
<1>3. RowFits(new, st, r \in cancelled)
  BY DEF RowFits
<1>4. Fine(new, new, st, ix, pr, error[r], cancelling[r], r \in cancelled, r \in broken)
  BY <1>1, <1>2, <1>3 DEF Fine
<1>5. new \in Copy /\ st \in Step /\ error[r] \in BOOLEAN
  BY KnownOf, Literals DEF StudioTypes, Copy
<1>6. QED
  BY <1>4, <1>5, Turned

-----------------------------------------------------------------------------
(* The steps of an executor. *)

LEMMA PrepareTurns == ASSUME StudioInv, NEW r \in Run, Prepare(r) PROVE StudioInv' /\ SavesAdvance
<1>1. StudioTypes /\ pc[r] = "none" /\ row[r] = None /\ cancelling[r] = None /\ process[r] = "none" /\ r \notin broken
  BY KnownOf DEF Fine, Prepare
<1>2. PICK jobs \in JobLists : Store(r, [status |-> "PENDING", jobs |-> jobs])
  BY DEF Prepare
<1> DEFINE new == [status |-> "PENDING", jobs |-> jobs]
<1>3. jobs \in Seq({"PENDING", "SKIPPED"}) /\ Len(jobs) \in Nat \ {0} /\ jobs \in [1..Len(jobs) -> JobStatus]
  BY JobsAssumption DEF JobStatus
<1>4. new \in Runs /\ new.jobs = jobs /\ new.status = "PENDING"
  BY <1>3, Literals DEF Runs
<1> HIDE DEF new
<1>5. Ahead(new.jobs, 1)
  BY <1>3, <1>4 DEF Ahead
<1>6. Sane(new)
  <2>1. 1 \in 1..Len(new.jobs) /\ Done(new.jobs, 1) /\ Ahead(new.jobs, 1 + 1)
    BY <1>3, <1>4, <1>5 DEF Done, Ahead
  <2>2. QED
    BY <1>4, <2>1, GoingOn
<1>7. Turns(r, new, new, "prepared", index[r], "none", error[r])
  <2>1. UNCHANGED <<index, process, error, command, lines, faults, cancelling, cancelled, broken, update, present, cancels>>
    BY DEF Prepare, requests
  <2>2. row' = [row EXCEPT ![r] = new] /\ copy' = [copy EXCEPT ![r] = new] /\ pc' = [pc EXCEPT ![r] = "prepared"]
    BY <1>2 DEF new, Store, Prepare, Goto
  <2>3. QED
    BY <1>1, <2>1, <2>2, KeepsItself DEF Turns, StudioTypes
<1>8. Fine(new, new, "prepared", index[r], "none", error[r], cancelling[r], r \in cancelled, r \in broken)
  BY <1>1, <1>4, <1>5, <1>6 DEF Fine, JobsFit, RowFits, ProcessFits
<1>9. new \in Copy /\ "prepared" \in Step /\ index[r] \in Nat \ {0} /\ error[r] \in BOOLEAN
  BY <1>1, <1>4, Literals DEF StudioTypes, Copy
<1>10. QED
  BY <1>1, <1>4, <1>7, <1>8, <1>9, Turned

LEMMA BeginTurns == ASSUME StudioInv, NEW r \in Run, Begin(r) PROVE StudioInv' /\ SavesAdvance
<1>1. /\ StudioTypes /\ pc[r] = "prepared" /\ copy[r] \in Runs /\ Ahead(copy[r].jobs, 1)
      /\ process[r] = "none" /\ r \notin broken
  BY KnownOf DEF JobsFit, ProcessFits, Begin
<1>2. PICK new : new = [copy[r] EXCEPT !.status = "RUNNING"]
  OBVIOUS
<1>3. new \in Runs /\ new.jobs = copy[r].jobs /\ new.status = "RUNNING"
  BY <1>1, <1>2, StatusSet, Literals
<1>4. PICK n : n = Len(copy[r].jobs)
  OBVIOUS
<1>5. n \in Nat \ {0}
  BY <1>1, <1>4, JobsAre
<1>6. PICK ix : ix = NextJob(r, 1)
  OBVIOUS
<1>7. /\ ix \in 1..n + 1 /\ \A k \in 1..ix - 1 : copy[r].jobs[k] = "SKIPPED"
      /\ ix <= n => copy[r].jobs[ix] # "SKIPPED"
  <2>1. 1 \in 1..Len(copy[r].jobs) + 1
    BY <1>4, <1>5
  <2>2. QED
    BY <1>1, <1>4, <1>6, <2>1, NextIs
<1>8. Done(new.jobs, ix) /\ Ahead(new.jobs, ix)
  BY <1>1, <1>3, <1>4, <1>5, <1>7 DEF Done, Ahead
<1>9. \E i \in 1..Len(new.jobs) : Done(new.jobs, i) /\ Ahead(new.jobs, i + 1)
  <2>1. 1 \in 1..Len(new.jobs) /\ Done(new.jobs, 1) /\ Ahead(new.jobs, 1 + 1)
    BY <1>1, <1>3, <1>4, <1>5 DEF Done, Ahead
  <2>2. QED
    BY <2>1
<1>10. Turns(r, new, new, "next", ix, process[r], error[r])
  <2>1. UNCHANGED <<process, error, command, lines, faults, cancelling, cancelled, broken, update, present, cancels>>
    BY DEF Begin, requests
  <2>2. row' = [row EXCEPT ![r] = new] /\ copy' = [copy EXCEPT ![r] = new] /\ pc' = [pc EXCEPT ![r] = "next"]
        /\ index' = [index EXCEPT ![r] = ix]
    BY <1>2, <1>6 DEF Store, Begin, Goto
  <2>3. QED
    BY <1>1, <2>1, <2>2, KeepsItself DEF Turns, StudioTypes
<1>11. JobsFit(new, "next", ix, error[r])
  <2>1. ix \in 1..n => copy[r].jobs[ix] = "PENDING"
    BY <1>1, <1>4, <1>5, <1>7 DEF Ahead
  <2>2. QED
    BY <1>3, <1>4, <1>7, <1>8, <2>1 DEF JobsFit
<1>12. ProcessFits(new, new, "next", process[r], error[r], r \in broken)
  BY <1>1 DEF ProcessFits
<1>13. ix \in Nat \ {0} /\ process[r] \in {"none", "running", "ok", "failed"}
  BY <1>1, <1>5, <1>7
<1>14. QED
  BY <1>1, <1>3, <1>9, <1>10, <1>11, <1>12, <1>13, StoreTurns

\* Where the executor is among the jobs.
LEMMA SplitAt ==
    ASSUME NEW cp \in Runs, NEW st \in {"next", "start", "spawn", "stream", "wait"}, NEW ix, NEW er,
           JobsFit(cp, st, ix, er)
    PROVE  \E i \in 1..Len(cp.jobs) : Done(cp.jobs, i) /\ Ahead(cp.jobs, i + 1)
<1>1. Len(cp.jobs) \in Nat \ {0}
  BY JobsAre
<1>2. CASE ix \in 1..Len(cp.jobs)
  <2>1. Done(cp.jobs, ix) /\ Ahead(cp.jobs, ix + 1)
    BY <1>1, <1>2 DEF JobsFit, Ahead
  <2>2. QED
    BY <1>2, <2>1
<1>3. CASE ix \notin 1..Len(cp.jobs)
  <2>1. ix = Len(cp.jobs) + 1 /\ Done(cp.jobs, ix)
    BY <1>1, <1>3 DEF JobsFit
  <2>2. Done(cp.jobs, Len(cp.jobs)) /\ Ahead(cp.jobs, Len(cp.jobs) + 1)
    BY <1>1, <2>1 DEF Done, Ahead
  <2>3. QED
    BY <1>1, <2>2
<1>4. QED
  BY <1>2, <1>3


LEMMA CheckTurns == ASSUME StudioInv, NEW r \in Run, Check(r) PROVE StudioInv' /\ SavesAdvance
<1>1. /\ StudioTypes /\ pc[r] = "next" /\ copy[r] \in Runs /\ row[r] \in Runs
      /\ JobsFit(copy[r], "next", index[r], error[r]) /\ RowFits(row[r], "next", r \in cancelled)
      /\ ProcessFits(row[r], copy[r], "next", process[r], error[r], r \in broken)
      /\ Sane(row[r]) /\ (cancelling[r] = None \/ Sane(cancelling[r]))
  BY KnownOf DEF Check
<1>2. /\ UNCHANGED <<row, copy, index, command, lines, broken, faults>>
      /\ UNCHANGED <<cancelling, update, present, cancelled, cancels>>
  BY DEF Check, requests
<1>3. \E i \in 1..Len(copy[r].jobs) : Done(copy[r].jobs, i) /\ Ahead(copy[r].jobs, i + 1)
  BY <1>1, SplitAt
<1>4. copy' = [copy EXCEPT ![r] = copy[r]]
  BY <1>2, KeepsItself
<1>5. command' \in [Run -> 0..MaxCommands] /\ lines' \in [Run -> 0..MaxLines] /\ faults' \in 0..MaxFaults
  BY <1>1, <1>2 DEF StudioTypes
<1>6. Len(copy[r].jobs) \in Nat \ {0} /\ index[r] \in Nat \ {0}
  BY <1>1, JobsAre DEF StudioTypes
<1>7. CASE index[r] > Len(copy[r].jobs) /\ Return(r, FALSE)
  <2>1. Done(copy[r].jobs, Len(copy[r].jobs) + 1)
    BY <1>1, <1>6, <1>7 DEF JobsFit, Done
  <2>2. r \notin broken
    BY <1>1 DEF ProcessFits
  <2>3. QED
    BY <1>1, <1>2, <1>3, <1>4, <1>5, <1>7, <2>1, <2>2, ReturnTurns
<1>8. CASE Return(r, TRUE)
  BY <1>1, <1>2, <1>3, <1>4, <1>5, <1>8, ReturnTurns
<1>9. CASE /\ index[r] <= Len(copy[r].jobs) /\ Goto(r, "start") /\ UNCHANGED <<process, error>>
  <2>1. Turns(r, row[r], copy[r], "start", index[r], process[r], error[r])
    BY <1>2, <1>5, <1>9, KeepsItself DEF Turns, Goto
  <2>2. JobsFit(copy[r], "start", index[r], error[r])
    BY <1>1, <1>6, <1>9 DEF JobsFit
  <2>3. RowFits(row[r], "start", r \in cancelled)
    BY <1>1 DEF RowFits
  <2>4. ProcessFits(row[r], copy[r], "start", process[r], error[r], r \in broken)
    BY <1>1 DEF ProcessFits
  <2>5. Fine(row[r], copy[r], "start", index[r], process[r], error[r], cancelling[r], r \in cancelled, r \in broken)
    BY <1>1, <2>2, <2>3, <2>4 DEF Fine
  <2>6. /\ row[r] \in Copy /\ copy[r] \in Copy /\ "start" \in Step /\ error[r] \in BOOLEAN
        /\ process[r] \in {"none", "running", "ok", "failed"}
    BY <1>1, Literals DEF StudioTypes, Copy
  <2>7. QED
    BY <1>1, <1>6, <2>1, <2>5, <2>6, Turned
<1>10. QED
  BY <1>7, <1>8, <1>9 DEF Check, Jobs

LEMMA StartTurns == ASSUME StudioInv, NEW r \in Run, StartJob(r) PROVE StudioInv' /\ SavesAdvance
<1>1. /\ StudioTypes /\ pc[r] = "start" /\ copy[r] \in Runs
      /\ JobsFit(copy[r], "start", index[r], error[r])
      /\ process[r] = "none" /\ r \notin broken
  BY KnownOf DEF ProcessFits, StartJob
<1>2. PICK ix : ix = index[r]
  OBVIOUS
<1>3. PICK new : new = [copy[r] EXCEPT !.jobs[ix] = "RUNNING"]
  OBVIOUS
<1>4. ix \in 1..Len(copy[r].jobs) /\ Done(copy[r].jobs, ix) /\ Ahead(copy[r].jobs, ix) /\ copy[r].status = "RUNNING"
  BY <1>1, <1>2 DEF JobsFit
<1>5. /\ new \in Runs /\ new.status = "RUNNING" /\ Len(new.jobs) = Len(copy[r].jobs) /\ new.jobs[ix] = "RUNNING"
      /\ \A j \in 1..Len(copy[r].jobs) : j # ix => new.jobs[j] = copy[r].jobs[j]
  <2>1. PICK cp : cp = copy[r]
    OBVIOUS
  <2>2. cp \in Runs /\ ix \in 1..Len(cp.jobs) /\ "RUNNING" \in JobStatus /\ cp.status = "RUNNING"
    BY <1>1, <1>4, <2>1, Literals
  <2>3. new = [cp EXCEPT !.jobs[ix] = "RUNNING"]
    BY <1>3, <2>1
  <2>4. /\ new \in Runs /\ new.status = cp.status /\ Len(new.jobs) = Len(cp.jobs) /\ new.jobs[ix] = "RUNNING"
        /\ \A j \in 1..Len(cp.jobs) : j # ix => new.jobs[j] = cp.jobs[j]
    BY <2>2, <2>3, JobSet
  <2>5. QED
    BY <2>1, <2>2, <2>4
<1>6. Len(copy[r].jobs) \in Nat \ {0}
  BY <1>1, JobsAre
<1>7. Done(new.jobs, ix) /\ Ahead(new.jobs, ix + 1)
  <2>1. PICK n : n = Len(copy[r].jobs)
    OBVIOUS
  <2>2. n \in Nat /\ ix \in 1..n /\ Len(new.jobs) = n
    BY <1>4, <1>5, <1>6, <2>1
  <2>3. \A j \in 1..ix - 1 : j \in 1..n /\ j # ix
    BY <2>2
  <2>4. \A j \in ix + 1..n : j \in 1..n /\ j # ix /\ j \in ix..n
    BY <2>2
  <2>5. Done(new.jobs, ix)
    BY <1>4, <1>5, <2>1, <2>3 DEF Done
  <2>6. Ahead(new.jobs, ix + 1)
    BY <1>4, <1>5, <2>1, <2>2, <2>4 DEF Ahead
  <2>7. QED
    BY <2>5, <2>6
<1>8. Turns(r, new, new, "spawn", ix, process[r], error[r])
  <2>1. UNCHANGED <<index, lines, process, error, faults, cancelling, cancelled, broken, update, present, cancels>>
    BY DEF StartJob, requests
  <2>2. row' = [row EXCEPT ![r] = new] /\ copy' = [copy EXCEPT ![r] = new] /\ pc' = [pc EXCEPT ![r] = "spawn"]
    BY <1>2, <1>3 DEF Store, StartJob, Goto
  <2>3. command' = [command EXCEPT ![r] = 1] /\ 1 \in 0..MaxCommands
    BY BoundAssumption DEF StartJob
  <2>4. command' \in [Run -> 0..MaxCommands]
    BY <1>1, <2>3 DEF StudioTypes
  <2>5. QED
    BY <1>1, <1>2, <2>1, <2>2, <2>4, KeepsItself DEF Turns, StudioTypes
<1>9. JobsFit(new, "spawn", ix, error[r])
  BY <1>4, <1>5, <1>7 DEF JobsFit
<1>10. ProcessFits(new, new, "spawn", process[r], error[r], r \in broken)
  BY <1>1 DEF ProcessFits
<1>11. ix \in Nat \ {0} /\ process[r] \in {"none", "running", "ok", "failed"}
  BY <1>1, <1>4, <1>6
<1>12. \E i \in 1..Len(new.jobs) : Done(new.jobs, i) /\ Ahead(new.jobs, i + 1)
  BY <1>4, <1>5, <1>7
<1>13. Behind(copy[r].jobs, new.jobs)
  <2>1. copy[r].jobs[ix] = "PENDING"
    BY <1>1, <1>2, <1>4 DEF JobsFit
  <2>2. Follows(copy[r].jobs[ix], new.jobs[ix])
    BY <2>1 DEF Follows
  <2>3. QED
    BY <1>4, <1>5, <2>2, OneAhead
<1>14. QED
  BY <1>1, <1>5, <1>8, <1>9, <1>10, <1>11, <1>12, <1>13, StoreTurns

\* The row stays, the executor goes on with the same job.
LEMMA MoveTurns ==
    ASSUME StudioInv, NEW r \in Run, NEW st \in {"spawn", "stream", "wait"},
           pc[r] \in {"spawn", "stream", "wait"}, Goto(r, st),
           NEW pr \in {"none", "running", "ok", "failed"}, process' = [process EXCEPT ![r] = pr],
           UNCHANGED <<row, copy, index, error, faults>>,
           UNCHANGED <<cancelling, cancelled, broken, update, present, cancels>>,
           command' \in [Run -> 0..MaxCommands], lines' \in [Run -> 0..MaxLines],
           pr # "none" => st # "spawn", r \in broken => st # "spawn" /\ pr = "failed"
    PROVE  StudioInv' /\ SavesAdvance
<1>1. /\ StudioTypes /\ copy[r] \in Runs /\ row[r] \in Runs
      /\ JobsFit(copy[r], pc[r], index[r], error[r]) /\ RowFits(row[r], pc[r], r \in cancelled)
      /\ Sane(row[r]) /\ (cancelling[r] = None \/ Sane(cancelling[r]))
  BY KnownOf
<1>2. Turns(r, row[r], copy[r], st, index[r], pr, error[r])
  BY <1>1, KeepsItself DEF Turns, Goto, StudioTypes
<1>3. JobsFit(copy[r], st, index[r], error[r])
  BY <1>1 DEF JobsFit
<1>4. RowFits(row[r], st, r \in cancelled)
  BY <1>1 DEF RowFits
<1>5. ProcessFits(row[r], copy[r], st, pr, error[r], r \in broken)
  BY DEF ProcessFits
<1>6. Fine(row[r], copy[r], st, index[r], pr, error[r], cancelling[r], r \in cancelled, r \in broken)
  BY <1>1, <1>3, <1>4, <1>5 DEF Fine
<1>7. /\ row[r] \in Copy /\ copy[r] \in Copy /\ st \in Step /\ error[r] \in BOOLEAN /\ index[r] \in Nat \ {0}
  BY <1>1, Literals DEF StudioTypes, Copy
<1>8. QED
  BY <1>1, <1>2, <1>6, <1>7, Turned

LEMMA SpawnTurns == ASSUME StudioInv, NEW r \in Run, Spawn(r) PROVE StudioInv' /\ SavesAdvance
<1>1. /\ StudioTypes /\ pc[r] = "spawn" /\ copy[r] \in Runs
      /\ JobsFit(copy[r], "spawn", index[r], error[r]) /\ r \notin broken
  BY KnownOf DEF ProcessFits, Spawn
<1>2. /\ UNCHANGED <<row, copy, index, command, broken, faults>>
      /\ UNCHANGED <<cancelling, update, present, cancelled, cancels>>
      /\ lines' = [lines EXCEPT ![r] = 0] /\ 0 \in 0..MaxLines
  BY BoundAssumption DEF Spawn, requests
<1>3. command' \in [Run -> 0..MaxCommands] /\ lines' \in [Run -> 0..MaxLines] /\ faults' \in 0..MaxFaults
  BY <1>1, <1>2 DEF StudioTypes
<1>4. CASE Return(r, TRUE)
  <2>1. \E i \in 1..Len(copy[r].jobs) : Done(copy[r].jobs, i) /\ Ahead(copy[r].jobs, i + 1)
    BY <1>1, SplitAt
  <2>2. copy' = [copy EXCEPT ![r] = copy[r]]
    BY <1>2, KeepsItself
  <2>3. QED
    BY <1>1, <1>2, <1>3, <1>4, <2>1, <2>2, ReturnTurns
<1>5. CASE Goto(r, "stream") /\ process' = [process EXCEPT ![r] = "running"] /\ UNCHANGED error
  BY <1>1, <1>2, <1>3, <1>5, MoveTurns
<1>6. QED
  BY <1>4, <1>5 DEF Spawn

LEMMA LineTurns == ASSUME StudioInv, NEW r \in Run, Line(r) PROVE StudioInv' /\ SavesAdvance
<1>1. /\ StudioTypes /\ pc[r] = "stream" /\ copy[r] \in Runs
      /\ JobsFit(copy[r], "stream", index[r], error[r])
      /\ ProcessFits(row[r], copy[r], "stream", process[r], error[r], r \in broken)
  BY KnownOf DEF Line
<1>2. /\ UNCHANGED <<index, command, process, error, broken, faults>>
      /\ UNCHANGED <<cancelling, update, present, cancelled, cancels, pc>>
      /\ lines' = [lines EXCEPT ![r] = lines[r] + 1] /\ lines[r] < MaxLines
      /\ row' = [row EXCEPT ![r] = copy[r]] /\ copy' = [copy EXCEPT ![r] = copy[r]]
  BY DEF Line, requests, Store
<1>3. lines' \in [Run -> 0..MaxLines]
  <2>1. lines[r] + 1 \in 0..MaxLines
    BY <1>1, <1>2, BoundAssumption DEF StudioTypes
  <2>2. QED
    BY <1>1, <1>2, <2>1 DEF StudioTypes
<1>4. Turns(r, copy[r], copy[r], "stream", index[r], process[r], error[r])
  BY <1>1, <1>2, <1>3, KeepsItself DEF Turns, StudioTypes
<1>5. \E i \in 1..Len(copy[r].jobs) : Done(copy[r].jobs, i) /\ Ahead(copy[r].jobs, i + 1)
  BY <1>1, SplitAt
<1>6. copy[r].status = "RUNNING"
  BY <1>1 DEF JobsFit
<1>7. ProcessFits(copy[r], copy[r], "stream", process[r], error[r], r \in broken)
  BY <1>1 DEF ProcessFits
<1>8. index[r] \in Nat \ {0} /\ process[r] \in {"none", "running", "ok", "failed"}
  BY <1>1 DEF StudioTypes
<1>9. QED
  BY <1>1, <1>4, <1>5, <1>6, <1>7, <1>8, StoreTurns

LEMMA PollTurns == ASSUME StudioInv, NEW r \in Run, Poll(r) PROVE StudioInv' /\ SavesAdvance
<1>1. StudioTypes /\ pc[r] = "stream" /\ copy[r] \in Runs /\ JobsFit(copy[r], "stream", index[r], error[r])
  BY KnownOf DEF Poll
<1>2. /\ UNCHANGED <<row, copy, index, command, lines, broken, faults>>
      /\ UNCHANGED <<cancelling, update, present, cancelled, cancels>> /\ Return(r, TRUE)
  BY DEF Poll, requests
<1>3. command' \in [Run -> 0..MaxCommands] /\ lines' \in [Run -> 0..MaxLines] /\ faults' \in 0..MaxFaults
  BY <1>1, <1>2 DEF StudioTypes
<1>4. \E i \in 1..Len(copy[r].jobs) : Done(copy[r].jobs, i) /\ Ahead(copy[r].jobs, i + 1)
  BY <1>1, SplitAt
<1>5. copy' = [copy EXCEPT ![r] = copy[r]]
  BY <1>2, KeepsItself
<1>6. QED
  BY <1>1, <1>2, <1>3, <1>4, <1>5, ReturnTurns

LEMMA SilentTurns == ASSUME StudioInv, NEW r \in Run, Silent(r) PROVE StudioInv' /\ SavesAdvance
<1>1. StudioTypes /\ pc[r] = "stream" /\ ProcessFits(row[r], copy[r], "stream", process[r], error[r], r \in broken)
  BY KnownOf DEF Silent
<1>2. /\ UNCHANGED <<row, copy, index, command, lines, process, error, broken, faults>>
      /\ UNCHANGED <<cancelling, update, present, cancelled, cancels>> /\ Goto(r, "wait")
  BY DEF Silent, requests
<1>3. process' = [process EXCEPT ![r] = process[r]] /\ process[r] \in {"none", "running", "ok", "failed"}
  BY <1>1, <1>2, KeepsItself DEF StudioTypes
<1>4. r \in broken => process[r] = "failed"
  BY <1>1 DEF ProcessFits
<1>5. command' \in [Run -> 0..MaxCommands] /\ lines' \in [Run -> 0..MaxLines]
  BY <1>1, <1>2 DEF StudioTypes
<1>6. QED
  BY <1>1, <1>2, <1>3, <1>4, <1>5, MoveTurns


SetJob(run, i, s) == [run EXCEPT !.jobs[i] = s]

\* The job that was executed is over: what follows from its new status.
LEMMA JobOver ==
    ASSUME NEW cp \in Runs, NEW ix \in 1..Len(cp.jobs), Done(cp.jobs, ix), Ahead(cp.jobs, ix + 1),
           NEW s \in {"RUNNING", "SUCCESS"}, NEW new, new = SetJob(cp, ix, s)
    PROVE  /\ new \in Runs /\ new.status = cp.status /\ Len(new.jobs) = Len(cp.jobs)
           /\ Done(new.jobs, ix) /\ Ahead(new.jobs, ix + 1) /\ new.jobs[ix] = s
           /\ \A j \in ix + 1..Len(cp.jobs) : new.jobs[j] = cp.jobs[j]
           /\ Follows(cp.jobs[ix], s) => Behind(cp.jobs, new.jobs)
<1>1. Len(cp.jobs) \in Nat \ {0} /\ s \in JobStatus
  BY JobsAre, Literals
<1>2. /\ new \in Runs /\ new.status = cp.status /\ Len(new.jobs) = Len(cp.jobs) /\ new.jobs[ix] = s
      /\ \A j \in 1..Len(cp.jobs) : j # ix => new.jobs[j] = cp.jobs[j]
  <2>1. new = [cp EXCEPT !.jobs[ix] = s]
    BY DEF SetJob
  <2>2. QED
    BY <1>1, <2>1, JobSet
<1>3. PICK n : n = Len(cp.jobs)
  OBVIOUS
<1>4. n \in Nat /\ ix \in 1..n
  BY <1>1, <1>3
<1>5. \A j \in 1..ix - 1 : j \in 1..n /\ j # ix
  BY <1>4
<1>6. \A j \in ix + 1..n : j \in 1..n /\ j # ix
  BY <1>4
<1>7. Done(new.jobs, ix)
  BY <1>2, <1>3, <1>5 DEF Done
<1>8. \A j \in ix + 1..n : new.jobs[j] = cp.jobs[j]
  BY <1>2, <1>3, <1>6
<1>9. Ahead(new.jobs, ix + 1)
  BY <1>2, <1>3, <1>8 DEF Ahead
<1>10. Follows(cp.jobs[ix], s) => Behind(cp.jobs, new.jobs)
  BY <1>2, OneAhead
<1>11. QED
  BY <1>2, <1>3, <1>7, <1>8, <1>9, <1>10

LEMMA JobEndTurns ==
    ASSUME StudioInv, NEW r \in Run, JobEnds(r), pc[r] \in {"spawn", "wait"}, r \notin broken,
           UNCHANGED <<lines, broken, faults>>,
           UNCHANGED <<cancelling, update, present, cancelled, cancels>>
    PROVE  StudioInv' /\ SavesAdvance
<1>1. StudioTypes /\ copy[r] \in Runs /\ JobsFit(copy[r], pc[r], index[r], error[r])
  BY KnownOf
<1>2. PICK cp, ix : cp = copy[r] /\ ix = index[r]
  OBVIOUS
<1>3. PICK n : n = Len(cp.jobs)
  OBVIOUS
<1>4. cp \in Runs /\ n \in Nat \ {0} /\ ix \in 1..n /\ Done(cp.jobs, ix) /\ Ahead(cp.jobs, ix + 1) /\ cp.status = "RUNNING"
      /\ cp.jobs[ix] = "RUNNING"
  BY <1>1, <1>2, <1>3, JobsAre DEF JobsFit
<1>5. PICK new : new = SetJob(cp, ix, "SUCCESS")
  OBVIOUS
<1>6. /\ new \in Runs /\ new.status = "RUNNING" /\ Len(new.jobs) = n
      /\ Done(new.jobs, ix) /\ Ahead(new.jobs, ix + 1) /\ new.jobs[ix] = "SUCCESS"
      /\ \A j \in ix + 1..n : new.jobs[j] = cp.jobs[j]
      /\ Behind(cp.jobs, new.jobs)
  <2>1. ix \in 1..Len(cp.jobs) /\ Done(cp.jobs, ix) /\ Ahead(cp.jobs, ix + 1)
    BY <1>3, <1>4
  <2>2. cp \in Runs /\ "SUCCESS" \in {"RUNNING", "SUCCESS"}
    BY <1>4
  <2>3. /\ new \in Runs /\ new.status = cp.status /\ Len(new.jobs) = Len(cp.jobs)
        /\ Done(new.jobs, ix) /\ Ahead(new.jobs, ix + 1) /\ new.jobs[ix] = "SUCCESS"
        /\ \A j \in ix + 1..Len(cp.jobs) : new.jobs[j] = cp.jobs[j]
        /\ Follows(cp.jobs[ix], "SUCCESS") => Behind(cp.jobs, new.jobs)
    BY <1>5, <2>1, <2>2, JobOver
  <2>4. Follows(cp.jobs[ix], "SUCCESS")
    BY <1>4 DEF Follows
  <2>5. QED
    BY <1>3, <1>4, <2>3, <2>4
<1>7. PICK nx : nx = NextJob(r, ix + 1)
  OBVIOUS
<1>8. /\ nx \in ix + 1..n + 1 /\ \A k \in ix + 1..nx - 1 : cp.jobs[k] = "SKIPPED"
      /\ nx <= n => cp.jobs[nx] # "SKIPPED"
  <2>1. ix + 1 \in 1..Len(copy[r].jobs) + 1 /\ copy[r] \in Runs
    BY <1>1, <1>2, <1>3, <1>4
  <2>2. QED
    BY <1>2, <1>3, <1>7, <2>1, NextIs
<1>9. Done(new.jobs, nx)
  <2>1. ASSUME NEW j \in 1..nx - 1 PROVE new.jobs[j] \in {"SUCCESS", "SKIPPED"}
    <3>1. j \in 1..ix - 1 \/ j = ix \/ (j \in ix + 1..nx - 1 /\ j \in ix + 1..n)
      BY <1>4, <1>8, <2>1
    <3>2. CASE j \in 1..ix - 1
      BY <1>6, <3>2 DEF Done
    <3>3. CASE j = ix
      BY <1>6, <3>3
    <3>4. CASE j \in ix + 1..nx - 1 /\ j \in ix + 1..n
      BY <1>6, <1>8, <3>4
    <3>5. QED
      BY <3>1, <3>2, <3>3, <3>4
  <2>2. QED
    BY <2>1 DEF Done
<1>10. Ahead(new.jobs, nx)
  <2>1. \A j \in nx..n : j \in ix + 1..n
    BY <1>4, <1>8
  <2>2. QED
    BY <1>6, <2>1 DEF Ahead
<1>11. \E i \in 1..Len(new.jobs) : Done(new.jobs, i) /\ Ahead(new.jobs, i + 1)
  BY <1>4, <1>6
<1>12. Turns(r, new, new, "next", nx, "none", error[r])
  <2>1. row' = [row EXCEPT ![r] = new] /\ copy' = [copy EXCEPT ![r] = new]
    BY <1>2, <1>5 DEF JobEnds, Store, SetJob
  <2>2. pc' = [pc EXCEPT ![r] = "next"] /\ process' = [process EXCEPT ![r] = "none"] /\ UNCHANGED <<command, error>>
    BY DEF JobEnds, Goto
  <2>3. index' = [index EXCEPT ![r] = NextJob(r, index[r] + 1)]
    BY <1>1 DEF JobEnds, StudioTypes
  <2>4. index' = [index EXCEPT ![r] = nx]
    BY <1>2, <1>7, <2>3
  <2>5. QED
    BY <1>1, <2>1, <2>2, <2>4, KeepsItself DEF Turns, StudioTypes
<1>13. JobsFit(new, "next", nx, error[r])
  <2>1. nx \in 1..n + 1 /\ (nx \in 1..n => nx \in ix + 1..n)
    BY <1>4, <1>8
  <2>2. nx \in 1..n => new.jobs[nx] = "PENDING"
    <3>1. SUFFICES ASSUME nx \in 1..n PROVE new.jobs[nx] = "PENDING"
      OBVIOUS
    <3>2. nx \in ix + 1..n /\ nx <= n
      BY <1>4, <1>8, <3>1
    <3>3. cp.jobs[nx] \in {"PENDING", "SKIPPED"} /\ new.jobs[nx] = cp.jobs[nx]
      BY <1>3, <1>4, <1>6, <3>2 DEF Ahead
    <3>4. QED
      BY <1>8, <3>2, <3>3
  <2>3. QED
    BY <1>6, <1>9, <1>10, <2>1, <2>2 DEF JobsFit
<1>14. ProcessFits(new, new, "next", "none", error[r], r \in broken)
  BY DEF ProcessFits
<1>15. nx \in Nat \ {0}
  BY <1>4, <1>8
<1>16. Behind(copy[r].jobs, new.jobs)
  BY <1>2, <1>6
<1>17. QED
  BY <1>6, <1>11, <1>12, <1>13, <1>14, <1>15, <1>16, StoreTurns

LEMMA TrivialTurns == ASSUME StudioInv, NEW r \in Run, Trivial(r) PROVE StudioInv' /\ SavesAdvance
<1>1. r \notin broken
  BY KnownOf DEF ProcessFits, Trivial
<1>2. QED
  BY <1>1, JobEndTurns DEF Trivial, requests

LEMMA ReapTurns == ASSUME StudioInv, NEW r \in Run, Reap(r) PROVE StudioInv' /\ SavesAdvance
<1>1. /\ StudioTypes /\ pc[r] = "wait" /\ copy[r] \in Runs /\ JobsFit(copy[r], "wait", index[r], error[r])
      /\ ProcessFits(row[r], copy[r], "wait", process[r], error[r], r \in broken)
  BY KnownOf DEF Reap
<1>2. UNCHANGED <<lines, broken, faults>> /\ UNCHANGED <<cancelling, update, present, cancelled, cancels>>
  BY DEF Reap, requests
<1>3. lines' \in [Run -> 0..MaxLines] /\ faults' \in 0..MaxFaults
  BY <1>1, <1>2 DEF StudioTypes
<1>4. CASE Return(r, TRUE) /\ UNCHANGED <<row, copy, index, command>>
  <2>1. \E i \in 1..Len(copy[r].jobs) : Done(copy[r].jobs, i) /\ Ahead(copy[r].jobs, i + 1)
    BY <1>1, SplitAt
  <2>2. copy' = [copy EXCEPT ![r] = copy[r]] /\ command' \in [Run -> 0..MaxCommands]
    BY <1>1, <1>4, KeepsItself DEF StudioTypes
  <2>3. QED
    BY <1>1, <1>2, <1>3, <1>4, <2>1, <2>2, ReturnTurns
<1>5. CASE /\ process[r] = "ok" /\ command[r] < MaxCommands /\ Goto(r, "spawn")
           /\ command' = [command EXCEPT ![r] = @ + 1]
           /\ process' = [process EXCEPT ![r] = "none"] /\ UNCHANGED <<row, copy, index, error>>
  <2>1. command[r] + 1 \in 0..MaxCommands
    BY <1>1, <1>5, BoundAssumption DEF StudioTypes
  <2>2. command' \in [Run -> 0..MaxCommands]
    BY <1>1, <1>5, <2>1 DEF StudioTypes
  <2>3. r \notin broken
    BY <1>1, <1>5 DEF ProcessFits
  <2>4. QED
    BY <1>1, <1>2, <1>3, <1>5, <2>2, <2>3, MoveTurns
<1>6. CASE process[r] = "ok" /\ JobEnds(r)
  <2>1. r \notin broken
    BY <1>1, <1>6 DEF ProcessFits
  <2>2. QED
    BY <1>1, <1>2, <1>6, <2>1, JobEndTurns
<1>7. QED
  BY <1>4, <1>5, <1>6 DEF Reap


\* What the end of execute_prepared makes of the jobs.
LEMMA EndedRun ==
    ASSUME NEW cp \in Runs, NEW i \in 1..Len(cp.jobs), Done(cp.jobs, i), Ahead(cp.jobs, i + 1),
           NEW c \in BOOLEAN, NEW er \in BOOLEAN, ~er => Done(cp.jobs, Len(cp.jobs) + 1),
           NEW new, new = [status |-> IF c THEN "CANCELLED" ELSE IF er THEN "FAILURE" ELSE "SUCCESS",
                           jobs |-> [j \in DOMAIN cp.jobs |-> Ended(cp.jobs[j], c)]]
    PROVE  /\ new \in Runs /\ Coherent(new) /\ new.status \in Final /\ (er => new.status # "SUCCESS")
           /\ Behind(cp.jobs, new.jobs)
<1>1. PICK n : n = Len(cp.jobs)
  OBVIOUS
<1>2. n \in Nat \ {0} /\ DOMAIN cp.jobs = 1..n /\ i \in 1..n /\ cp.jobs \in [1..n -> JobStatus]
  BY <1>1, JobsAre
<1>3. PICK jobs : jobs = [j \in 1..n |-> Ended(cp.jobs[j], c)]
  OBVIOUS
<1>4. PICK status : status = IF c THEN "CANCELLED" ELSE IF er THEN "FAILURE" ELSE "SUCCESS"
  OBVIOUS
<1>5. new.jobs = jobs /\ new.status = status /\ new = [status |-> status, jobs |-> jobs]
  BY <1>2, <1>3, <1>4
<1>6. /\ \A x \in JobStatus : Ended(x, c) \in JobStatus \ {"PENDING", "RUNNING"}
      /\ \A x \in {"SUCCESS", "SKIPPED"} : Ended(x, c) = x
      /\ \A x \in {"PENDING", "SKIPPED"} : Ended(x, c) \in {"CANCELLED", "SKIPPED"}
  BY DEF Ended, JobStatus
<1>7. \A j \in 1..n : jobs[j] = Ended(cp.jobs[j], c)
  BY <1>3
<1>8. jobs \in [1..n -> JobStatus] /\ Len(jobs) = n /\ DOMAIN jobs = 1..n
  BY <1>2, <1>3, <1>6
<1>9. status \in Status /\ status \in Final /\ (er => status # "SUCCESS") /\ (status = "SUCCESS" => ~er)
  BY <1>4 DEF Status, Final
<1>10. new \in Runs
  <2>1. jobs \in UNION {[1..Len(js) -> JobStatus] : js \in JobLists}
    BY <1>1, <1>8, JobsAre
  <2>2. QED
    BY <1>5, <1>9, <2>1 DEF Runs
<1>11. \A j \in 1..i - 1 : jobs[j] \in {"SUCCESS", "SKIPPED"}
  BY <1>2, <1>6, <1>7 DEF Done
<1>12. \A j \in i + 1..n : jobs[j] \in {"PENDING", "SKIPPED", "CANCELLED"}
  BY <1>1, <1>2, <1>6, <1>7 DEF Ahead
<1>13. \A j \in 1..n : jobs[j] \notin {"PENDING", "RUNNING"}
  BY <1>2, <1>6, <1>7
<1>14. ~er => \A j \in 1..n : jobs[j] \in {"SUCCESS", "SKIPPED"}
  <2>1. SUFFICES ASSUME ~er, NEW j \in 1..n PROVE jobs[j] \in {"SUCCESS", "SKIPPED"}
    OBVIOUS
  <2>2. j \in 1..n + 1 - 1
    BY <1>2
  <2>3. cp.jobs[j] \in {"SUCCESS", "SKIPPED"}
    BY <1>1, <2>1, <2>2 DEF Done
  <2>4. QED
    BY <1>6, <1>7, <2>3
<1>15. Coherent(new)
  <2>1. \E k \in 1..Len(new.jobs) :
          /\ \A j \in 1..k - 1 : new.jobs[j] \in {"SUCCESS", "SKIPPED"}
          /\ \A j \in k + 1..Len(new.jobs) : new.jobs[j] \in {"PENDING", "SKIPPED", "CANCELLED"}
    BY <1>2, <1>5, <1>8, <1>11, <1>12
  <2>2. new.status = "SUCCESS" => \A k \in DOMAIN new.jobs : new.jobs[k] \in {"SUCCESS", "SKIPPED"}
    BY <1>5, <1>8, <1>9, <1>14
  <2>3. \A k \in DOMAIN new.jobs : new.jobs[k] \notin {"PENDING", "RUNNING"}
    BY <1>5, <1>8, <1>13
  <2>4. QED
    BY <2>1, <2>2, <2>3 DEF Coherent
<1>16. Behind(cp.jobs, new.jobs)
  <2>1. \A x \in JobStatus : Follows(x, Ended(x, c))
    BY DEF Follows, Ended, JobStatus
  <2>2. \A j \in 1..n : Follows(cp.jobs[j], jobs[j])
    BY <1>2, <1>7, <2>1
  <2>3. QED
    BY <1>1, <1>5, <1>8, <2>2 DEF Behind
<1>17. QED
  BY <1>5, <1>9, <1>10, <1>15, <1>16

LEMMA JudgeTurns == ASSUME StudioInv, NEW r \in Run, Judge(r) PROVE StudioInv' /\ SavesAdvance
<1>1. /\ StudioTypes /\ pc[r] = "judge" /\ copy[r] \in Runs /\ row[r] \in Runs
      /\ JobsFit(copy[r], "judge", index[r], error[r]) /\ RowFits(row[r], "judge", r \in cancelled)
      /\ ProcessFits(row[r], copy[r], "judge", process[r], error[r], r \in broken)
      /\ Sane(row[r]) /\ (cancelling[r] = None \/ Sane(cancelling[r]))
  BY KnownOf DEF Judge
<1>2. PICK cp, er, c : cp = copy[r] /\ er = error[r] /\ c = Cancelled(r)
  OBVIOUS
<1>3. er \in BOOLEAN /\ c \in BOOLEAN /\ cp \in Runs
  BY <1>1, <1>2 DEF StudioTypes, Cancelled
<1>4. PICK i \in 1..Len(cp.jobs) : Done(cp.jobs, i) /\ Ahead(cp.jobs, i + 1)
  BY <1>1, <1>2 DEF JobsFit
<1>5. ~er => Done(cp.jobs, Len(cp.jobs) + 1)
  BY <1>1, <1>2 DEF JobsFit
<1>6. PICK new : new = [status |-> IF c THEN "CANCELLED" ELSE IF er THEN "FAILURE" ELSE "SUCCESS",
                        jobs |-> [j \in DOMAIN cp.jobs |-> Ended(cp.jobs[j], c)]]
  OBVIOUS
<1>7. /\ new \in Runs /\ Coherent(new) /\ new.status \in Final /\ (er => new.status # "SUCCESS")
      /\ Behind(cp.jobs, new.jobs)
  BY <1>3, <1>4, <1>5, <1>6, EndedRun
<1>8. copy' = [copy EXCEPT ![r] = new]
  BY <1>1, <1>2, <1>6 DEF Judge, StudioTypes
<1>9. Turns(r, row[r], new, "save", index[r], process[r], error[r])
  <2>1. UNCHANGED <<row, index, command, lines, process, error, faults, cancelling, cancelled, broken, update, present, cancels>>
    BY DEF Judge, requests
  <2>2. pc' = [pc EXCEPT ![r] = "save"]
    BY DEF Judge, Goto
  <2>3. QED
    BY <1>1, <1>8, <2>1, <2>2, KeepsItself DEF Turns, StudioTypes
<1>10. JobsFit(new, "save", index[r], error[r])
  BY <1>7 DEF JobsFit
<1>11. RowFits(row[r], "save", r \in cancelled)
  BY <1>1 DEF RowFits
<1>12. ProcessFits(row[r], new, "save", process[r], error[r], r \in broken)
  BY <1>1, <1>2, <1>7 DEF ProcessFits
<1>13. Fine(row[r], new, "save", index[r], process[r], error[r], cancelling[r], r \in cancelled, r \in broken)
  BY <1>1, <1>7, <1>10, <1>11, <1>12 DEF Fine
<1>14. /\ row[r] \in Copy /\ Behind(copy[r].jobs, new.jobs) /\ "save" \in Step /\ error[r] \in BOOLEAN /\ index[r] \in Nat \ {0}
       /\ process[r] \in {"none", "running", "ok", "failed"}
  BY <1>1, <1>2, <1>7, Literals DEF StudioTypes, Copy
<1>15. QED
  BY <1>1, <1>7, <1>9, <1>13, <1>14, Turned

LEMMA SaveTurns == ASSUME StudioInv, NEW r \in Run, Save(r) PROVE StudioInv' /\ SavesAdvance
<1>1. /\ StudioTypes /\ pc[r] = "save" /\ copy[r] \in Runs
      /\ JobsFit(copy[r], "save", index[r], error[r])
      /\ ProcessFits(row[r], copy[r], "save", process[r], error[r], r \in broken)
      /\ (cancelling[r] = None \/ Sane(cancelling[r]))
  BY KnownOf DEF Save
<1>2. Sane(copy[r]) /\ copy[r].status \in Final
  BY <1>1 DEF JobsFit, Sane
<1>3. Turns(r, copy[r], copy[r], "done", index[r], process[r], error[r])
  <2>1. UNCHANGED <<index, command, lines, process, error, faults, cancelling, cancelled, broken, update, present, cancels>>
    BY DEF Save, requests
  <2>2. pc' = [pc EXCEPT ![r] = "done"] /\ row' = [row EXCEPT ![r] = copy[r]] /\ copy' = [copy EXCEPT ![r] = copy[r]]
    BY DEF Save, Goto, Store
  <2>3. QED
    BY <1>1, <2>1, <2>2, KeepsItself DEF Turns, StudioTypes
<1>4. RowFits(copy[r], "done", r \in cancelled)
  BY <1>2 DEF RowFits
<1>5. ProcessFits(copy[r], copy[r], "done", process[r], error[r], r \in broken)
  BY <1>1 DEF ProcessFits
<1>6. JobsFit(copy[r], "done", index[r], error[r])
  BY DEF JobsFit
<1>7. Fine(copy[r], copy[r], "done", index[r], process[r], error[r], cancelling[r], r \in cancelled, r \in broken)
  BY <1>1, <1>2, <1>4, <1>5, <1>6 DEF Fine
<1>8. /\ copy[r] \in Copy /\ "done" \in Step /\ error[r] \in BOOLEAN /\ index[r] \in Nat \ {0}
      /\ process[r] \in {"none", "running", "ok", "failed"}
  BY <1>1, Literals DEF StudioTypes, Copy
<1>9. QED
  BY <1>1, <1>3, <1>7, <1>8, Turned


\* A statement that fails ends the executor, or is the outcome of the actions.
LEMMA FailTurns == ASSUME StudioInv, NEW r \in Run, StatementFails(r) PROVE StudioInv' /\ SavesAdvance
<1>1. StudioTypes
  BY KnownOf
<1>2. UNCHANGED <<row, index, command, lines, broken>> /\ UNCHANGED <<cancelling, update, present, cancelled, cancels>>
  BY DEF StatementFails, requests
<1>3. faults' \in 0..MaxFaults
  BY <1>1, BoundAssumption DEF StatementFails, Fault, StudioTypes
<1>4. command' \in [Run -> 0..MaxCommands] /\ lines' \in [Run -> 0..MaxLines]
  BY <1>1, <1>2 DEF StudioTypes
<1>5. CASE pc[r] \in {"prepared", "judge", "save"} /\ Goto(r, "lost") /\ UNCHANGED <<copy, process, error>>
  <2>1. /\ copy[r] \in Runs /\ row[r] \in Runs /\ RowFits(row[r], pc[r], r \in cancelled)
        /\ ProcessFits(row[r], copy[r], pc[r], process[r], error[r], r \in broken)
        /\ Sane(row[r]) /\ (cancelling[r] = None \/ Sane(cancelling[r]))
    BY <1>5, KnownOf
  <2>2. Turns(r, row[r], copy[r], "lost", index[r], process[r], error[r])
    BY <1>2, <1>3, <1>4, <1>5, KeepsItself DEF Turns, Goto
  <2>3. RowFits(row[r], "lost", r \in cancelled) /\ JobsFit(copy[r], "lost", index[r], error[r])
    BY <1>5, <2>1 DEF RowFits, JobsFit
  <2>4. ProcessFits(row[r], copy[r], "lost", process[r], error[r], r \in broken)
    BY <1>5, <2>1 DEF ProcessFits, RowFits
  <2>5. Fine(row[r], copy[r], "lost", index[r], process[r], error[r], cancelling[r], r \in cancelled, r \in broken)
    BY <2>1, <2>3, <2>4 DEF Fine
  <2>6. /\ row[r] \in Copy /\ copy[r] \in Copy /\ "lost" \in Step /\ error[r] \in BOOLEAN /\ index[r] \in Nat \ {0}
        /\ process[r] \in {"none", "running", "ok", "failed"}
    BY <1>1, <2>1, Literals DEF StudioTypes, Copy
  <2>7. QED
    BY <1>5, <2>1, <2>2, <2>5, <2>6, Turned
<1>6. CASE pc[r] \in {"next", "stream"} /\ Return(r, TRUE) /\ UNCHANGED copy
  <2>1. copy[r] \in Runs /\ JobsFit(copy[r], pc[r], index[r], error[r])
    BY <1>6, KnownOf
  <2>2. \E i \in 1..Len(copy[r].jobs) : Done(copy[r].jobs, i) /\ Ahead(copy[r].jobs, i + 1)
    BY <1>6, <2>1, SplitAt
  <2>3. copy' = [copy EXCEPT ![r] = copy[r]]
    BY <1>6, KeepsItself
  <2>4. QED
    BY <1>2, <1>3, <1>4, <1>6, <2>1, <2>2, <2>3, ReturnTurns
<1>7. ASSUME NEW s \in {"RUNNING", "SUCCESS"}, Return(r, TRUE), copy' = [copy EXCEPT ![r].jobs[index[r]] = s],
             pc[r] \in {"start", "spawn", "wait"}, pc[r] # "start" => s = "SUCCESS"
      PROVE  StudioInv' /\ SavesAdvance
  <2>1. copy[r] \in Runs /\ JobsFit(copy[r], pc[r], index[r], error[r])
    BY <1>7, KnownOf
  <2>2. PICK cp, ix : cp = copy[r] /\ ix = index[r]
    OBVIOUS
  <2>3. cp \in Runs /\ ix \in 1..Len(cp.jobs) /\ Len(cp.jobs) \in Nat
    BY <1>7, <2>1, <2>2, JobsAre DEF JobsFit
  <2>4. Done(cp.jobs, ix) /\ Ahead(cp.jobs, ix + 1)
    BY <1>7, <2>1, <2>2, <2>3 DEF JobsFit, Ahead
  <2>5. PICK new : new = SetJob(cp, ix, s)
    OBVIOUS
  <2>6. /\ new \in Runs /\ Len(new.jobs) = Len(cp.jobs) /\ Done(new.jobs, ix) /\ Ahead(new.jobs, ix + 1)
        /\ Behind(cp.jobs, new.jobs)
    <3>1. s \in {"RUNNING", "SUCCESS"}
      BY <1>7
    <3>2. Follows(cp.jobs[ix], s)
      BY <1>7, <2>1, <2>2, <2>3 DEF JobsFit, Follows
    <3>3. QED
      BY <2>3, <2>4, <2>5, <3>1, <3>2, JobOver
  <2>7. copy' = [copy EXCEPT ![r] = new]
    BY <1>7, <2>2, <2>5 DEF SetJob
  <2>8. \E i \in 1..Len(new.jobs) : Done(new.jobs, i) /\ Ahead(new.jobs, i + 1)
    BY <2>3, <2>6
  <2>9. Behind(copy[r].jobs, new.jobs)
    BY <2>2, <2>6
  <2>10. QED
    BY <1>2, <1>3, <1>4, <1>7, <2>6, <2>7, <2>8, <2>9, ReturnTurns
<1>8. QED
  BY <1>5, <1>6, <1>7 DEF StatementFails

-----------------------------------------------------------------------------
(* The processes, the server and the requests. *)

\* A step that leaves the executors, but for processes that end.
LEMMA OneRun ==
    ASSUME StudioInv, StudioTypes', NEW r \in Run, RunFits(r)', Trails(r)',
           UNCHANGED <<pc, update, present>>, cancelled \subseteq cancelled',
           process[r] = "none" => process'[r] = "none",
           \A s \in Run : s # r =>
              /\ row'[s] = row[s] /\ copy'[s] = copy[s] /\ index'[s] = index[s]
              /\ process'[s] = process[s] /\ error'[s] = error[s] /\ cancelling'[s] = cancelling[s]
              /\ s \in cancelled' <=> s \in cancelled
              /\ s \in broken' <=> s \in broken
    PROVE  StudioInv'
<1>1. ASSUME NEW s \in Run, s # r PROVE RunFits(s)' /\ Trails(s)'
  <2>1. RunFits(s) /\ Trails(s)
    BY DEF StudioInv
  <2>2. (s \in cancelled') = (s \in cancelled) /\ (s \in broken') = (s \in broken)
    BY <1>1
  <2>3. QED
    BY <1>1, <2>1, <2>2 DEF RunFits, Trails
<1>2. \A s \in Run : pc[s] \in {"done", "lost"} /\ process[s] = "none" =>
                       pc'[s] = pc[s] /\ process'[s] = process[s]
  OBVIOUS
<1>3. WaitsForRuns'
  BY <1>2, WaitsKept
<1>4. QED
  BY <1>1, <1>3 DEF StudioInv

LEMMA ProcessEndsFits == ASSUME StudioInv, NEW r \in Run, ProcessEnds(r) PROVE StudioInv' /\ SavesAdvance
<1>1. /\ UNCHANGED <<row, copy, pc, index, command, lines, error, faults>>
      /\ UNCHANGED <<cancelling, update, present, cancelled, cancels>>
  BY DEF ProcessEnds, requests
<1>2. PICK pr \in {"ok", "failed"} :
        /\ process' = [process EXCEPT ![r] = pr]
        /\ broken' = IF pr = "failed" THEN broken \cup {r} ELSE broken
  BY DEF ProcessEnds
<1>3. StudioTypes /\ process[r] = "running"
  BY KnownOf DEF ProcessEnds
<1>4. pc[r] \in {"stream", "wait"} /\ r \notin broken
  <2>1. pc[r] # "none"
    BY <1>3, KnownOf DEF Fine
  <2>2. QED
    BY <1>3, <2>1, KnownOf DEF ProcessFits
<1>5. /\ Sane(row[r]) /\ copy[r] \in Runs /\ (cancelling[r] = None \/ Sane(cancelling[r])) /\ Trails(r)
      /\ JobsFit(copy[r], pc[r], index[r], error[r]) /\ RowFits(row[r], pc[r], r \in cancelled)
  BY <1>4, KnownOf
<1>6. StudioTypes'
  BY <1>1, <1>2, <1>3 DEF StudioTypes
<1>7. process'[r] = pr /\ (r \in broken' => pr = "failed")
  BY <1>2, <1>3, <1>4 DEF StudioTypes
<1>8. ProcessFits(row[r], copy[r], pc[r], process'[r], error[r], r \in broken')
  BY <1>4, <1>7 DEF ProcessFits
<1>9. RunFits(r)' /\ Trails(r)'
  BY <1>1, <1>4, <1>5, <1>8 DEF RunFits, Fine, Trails
<1>10. \A s \in Run : s # r => process'[s] = process[s] /\ (s \in broken' <=> s \in broken)
  BY <1>2, <1>3 DEF StudioTypes
<1>11. StudioInv'
  BY <1>1, <1>3, <1>6, <1>9, <1>10, OneRun
<1>12. QED
  BY <1>1, <1>11 DEF SavesAdvance, Follows

LEMMA ServerEndsFits == ASSUME StudioInv, ServerEnds PROVE StudioInv' /\ SavesAdvance
<1>1. /\ UNCHANGED <<row, copy, index, command, lines, error, broken, cancelling, present, cancelled, cancels>>
      /\ pc' = [r \in Run |-> IF pc[r] \in {"none", "done"} THEN pc[r] ELSE "lost"]
      /\ process' = [r \in Run |-> "none"]
      /\ update' = [u \in Updates |-> IF update[u] = "none" THEN "none" ELSE "done"]
  BY DEF ServerEnds
<1>2. StudioTypes
  BY DEF StudioInv
<1>3. faults' \in 0..MaxFaults
  BY <1>2, BoundAssumption DEF ServerEnds, Fault, StudioTypes
<1>4. \A r \in Run : IF pc[r] \in {"none", "done"} THEN pc'[r] = pc[r] ELSE pc'[r] = "lost"
  BY <1>1
<1>5. pc' \in [Run -> Step]
  BY <1>1, <1>2, Literals DEF StudioTypes
<1>6. process' \in [Run -> {"none", "running", "ok", "failed"}] /\ \A r \in Run : process'[r] = "none"
  BY <1>1
<1>7. update' \in [Updates -> {"none", "done"}]
  BY <1>1
<1>8. update' \in [Updates -> {"none", "checked", "updating", "done"}]
  BY <1>7
<1>9. StudioTypes'
  BY <1>1, <1>2, <1>3, <1>5, <1>6, <1>8 DEF StudioTypes
<1>10. ASSUME NEW r \in Run PROVE RunFits(r)' /\ Trails(r)'
  <2>1. CASE pc[r] = "none"
    <3>1. pc'[r] = "none" /\ process'[r] = "none"
      BY <1>4, <1>6, <2>1
    <3>2. row[r] = None /\ copy[r] = None /\ cancelling[r] = None /\ r \notin broken
      BY <2>1, KnownOf DEF Fine
    <3>3. QED
      BY <1>1, <3>1, <3>2 DEF RunFits, Fine, Trails
  <2>2. CASE pc[r] # "none"
    <3>1. /\ copy[r] \in Runs /\ RowFits(row[r], pc[r], r \in cancelled)
          /\ ProcessFits(row[r], copy[r], pc[r], process[r], error[r], r \in broken)
          /\ Sane(row[r]) /\ (cancelling[r] = None \/ Sane(cancelling[r])) /\ Trails(r)
      BY <2>2, KnownOf
    <3>2. pc'[r] = (IF pc[r] = "done" THEN "done" ELSE "lost") /\ process'[r] = "none"
      BY <1>4, <1>6, <2>2
    <3>3. RowFits(row[r], pc'[r], r \in cancelled)
      BY <3>1, <3>2 DEF RowFits
    <3>4. JobsFit(copy[r], pc'[r], index[r], error[r])
      BY <3>2 DEF JobsFit
    <3>5. ProcessFits(row[r], copy[r], pc'[r], process'[r], error[r], r \in broken)
      BY <3>1, <3>2 DEF ProcessFits, RowFits
    <3>6. pc'[r] # "none"
      BY <3>2
    <3>7. Trails(r)'
      BY <1>1, <2>2, <3>1 DEF Trails
    <3>8. QED
      BY <1>1, <3>1, <3>3, <3>4, <3>5, <3>6, <3>7 DEF RunFits, Fine
  <2>3. QED
    BY <2>1, <2>2
<1>11. WaitsForRuns'
  BY <1>7 DEF WaitsForRuns
<1>12. SavesAdvance
  BY <1>1 DEF SavesAdvance, Follows
<1>13. QED
  BY <1>9, <1>10, <1>11, <1>12 DEF StudioInv

LEMMA CancelReadFits == ASSUME StudioInv, NEW r \in Run, CancelRead(r) PROVE StudioInv' /\ SavesAdvance
<1>1. /\ UNCHANGED <<row, copy, pc, index, command, lines, process, error, broken>>
      /\ UNCHANGED <<update, present, cancelled, faults>>
      /\ cancelling' = [cancelling EXCEPT ![r] = row[r]] /\ row[r] # None
  BY DEF CancelRead, execution
<1>2. StudioTypes
  BY DEF StudioInv
<1>3. cancels' \in 0..MaxCancels
  BY <1>2, BoundAssumption DEF CancelRead, StudioTypes
<1>4. StudioTypes'
  BY <1>1, <1>2, <1>3 DEF StudioTypes
<1>5. pc[r] # "none"
  BY <1>1, RowKnown
<1>6. /\ Sane(row[r]) /\ copy[r] \in Runs /\ Trails(r)
      /\ JobsFit(copy[r], pc[r], index[r], error[r]) /\ RowFits(row[r], pc[r], r \in cancelled)
      /\ ProcessFits(row[r], copy[r], pc[r], process[r], error[r], r \in broken)
  BY <1>5, KnownOf
<1>7. cancelling'[r] = row[r] /\ \A s \in Run : s # r => cancelling'[s] = cancelling[s]
  BY <1>1, <1>2 DEF StudioTypes
<1>8. RunFits(r)'
  BY <1>1, <1>5, <1>6, <1>7 DEF RunFits, Fine
<1>9. Trails(r)'
  BY <1>1, <1>5, <1>6, <1>7 DEF Trails
<1>10. StudioInv'
  BY <1>1, <1>4, <1>7, <1>8, <1>9, OneRun
<1>11. QED
  BY <1>1, <1>10 DEF SavesAdvance, Follows

LEMMA CancelSaveFits == ASSUME StudioInv, NEW r \in Run, CancelSave(r) PROVE StudioInv' /\ SavesAdvance
<1>1. /\ UNCHANGED <<copy, pc, index, command, lines, process, error, broken>>
      /\ UNCHANGED <<update, present, cancels, faults>>
      /\ cancelling' = [cancelling EXCEPT ![r] = None] /\ cancelling[r] # None
      /\ cancelled' = cancelled \cup {r}
  BY DEF CancelSave, execution
<1>2. PICK new : new = [cancelling[r] EXCEPT !.status = "CANCELLED"]
  OBVIOUS
<1>3. row' = [row EXCEPT ![r] = new]
  BY <1>2 DEF CancelSave
<1>4. StudioTypes /\ pc[r] # "none"
  BY <1>1, RowKnown DEF StudioInv
<1>5. /\ copy[r] \in Runs /\ Sane(cancelling[r]) /\ Trails(r)
      /\ JobsFit(copy[r], pc[r], index[r], error[r]) /\ RowFits(row[r], pc[r], r \in cancelled)
      /\ ProcessFits(row[r], copy[r], pc[r], process[r], error[r], r \in broken)
  BY <1>1, <1>4, KnownOf
<1>6. Sane(new) /\ new.status = "CANCELLED"
  BY <1>2, <1>5, Cancellable
<1>7. new \in Copy /\ None \in Copy
  BY <1>6 DEF Sane, Copy
<1>8. StudioTypes'
  BY <1>1, <1>3, <1>4, <1>7 DEF StudioTypes
<1>9. /\ row'[r] = new /\ cancelling'[r] = None /\ r \in cancelled'
      /\ \A s \in Run : s # r =>
            row'[s] = row[s] /\ cancelling'[s] = cancelling[s] /\ (s \in cancelled' <=> s \in cancelled)
  BY <1>1, <1>3, <1>4 DEF StudioTypes
<1>10. RowFits(new, pc[r], r \in cancelled')
  BY <1>6, <1>9 DEF RowFits, Final
<1>11. ProcessFits(new, copy[r], pc[r], process[r], error[r], r \in broken)
  BY <1>5, <1>6 DEF ProcessFits
<1>12. RunFits(r)'
  BY <1>1, <1>4, <1>5, <1>6, <1>9, <1>10, <1>11 DEF RunFits, Fine
<1>13. Trails(r)'
  <2>1. new.jobs = cancelling[r].jobs
    <3>1. cancelling[r] \in Runs /\ "CANCELLED" \in Status
      BY <1>5 DEF Sane, Status, Final
    <3>2. QED
      BY <1>2, <3>1, StatusSet
  <2>2. Behind(cancelling[r].jobs, copy[r].jobs)
    BY <1>1, <1>4, <1>5 DEF Trails
  <2>3. QED
    BY <1>1, <1>9, <2>1, <2>2 DEF Trails
<1>14. StudioInv'
  BY <1>1, <1>8, <1>9, <1>12, <1>13, OneRun
<1>15. SavesAdvance
  <2>1. \A s \in Run : cancelling'[s] = cancelling[s] => row'[s] = row[s]
    BY <1>1, <1>9
  <2>2. QED
    BY <2>1 DEF SavesAdvance, Follows
<1>16. QED
  BY <1>14, <1>15

\* A request for an update leaves the runs; what it has to find is what WaitsForRuns says.
LEMMA UpdateFits ==
    ASSUME StudioInv, UNCHANGED <<row, execution, cancelling, cancelled, cancels, faults>>,
           update' \in [Updates -> {"none", "checked", "updating", "done"}],
           present' \in [Updates -> SUBSET Run], WaitsForRuns'
    PROVE  StudioInv' /\ SavesAdvance
<1>1. UNCHANGED <<row, copy, pc, index, command, lines, process, error, broken>>
      /\ UNCHANGED <<cancelling, cancelled, cancels, faults>>
  BY DEF execution
<1>2. StudioTypes'
  BY <1>1 DEF StudioInv, StudioTypes
<1>3. \A r \in Run : RunFits(r)' /\ Trails(r)'
  BY <1>1 DEF StudioInv, RunFits, Trails
<1>4. QED
  BY <1>1, <1>2, <1>3 DEF StudioInv, SavesAdvance, Follows

\* A run whose row is final, and that nobody cancelled, has no executor left.
LEMMA FinalIsOver ==
    ASSUME StudioInv, NEW r \in Run \ cancelled, row[r] # None, ~Active(r)
    PROVE  pc[r] \in {"done", "lost"} /\ process[r] = "none"
<1>1. pc[r] # "none" /\ pc[r] \in Step
  BY RowKnown DEF StudioInv, StudioTypes
<1>2. /\ RowFits(row[r], pc[r], r \in cancelled)
      /\ ProcessFits(row[r], copy[r], pc[r], process[r], error[r], r \in broken)
  BY <1>1, KnownOf
<1>3. row[r].status \notin {"PENDING", "RUNNING"}
  BY DEF Active
<1>4. pc[r] \in {"done", "lost"}
  BY <1>1, <1>2, <1>3 DEF RowFits, Step
<1>5. QED
  BY <1>2, <1>4 DEF ProcessFits

LEMMA UpdateCheckFits == ASSUME StudioInv, NEW u \in Updates, UpdateCheck(u) PROVE StudioInv' /\ SavesAdvance
<1>1. /\ UNCHANGED <<row, execution, cancelling, cancelled, cancels, faults>>
      /\ update' = [update EXCEPT ![u] = "checked"]
      /\ present' = [present EXCEPT ![u] = {r \in Run : row[r] # None}]
      /\ \A r \in Run : ~Active(r)
  BY DEF UpdateCheck, Checks
<1>2. StudioTypes /\ WaitsForRuns
  BY DEF StudioInv
<1>3. /\ update' \in [Updates -> {"none", "checked", "updating", "done"}]
      /\ present' \in [Updates -> SUBSET Run]
      /\ present'[u] = {r \in Run : row[r] # None}
      /\ \A v \in Updates : v # u => update'[v] = update[v] /\ present'[v] = present[v]
  BY <1>1, <1>2 DEF StudioTypes
<1>4. UNCHANGED <<pc, process, cancelled>>
  BY <1>1 DEF execution
<1>5. ASSUME NEW v \in Updates, update'[v] \in {"checked", "updating"}, NEW r \in present'[v] \ cancelled
      PROVE  pc[r] \in {"done", "lost"} /\ process[r] = "none"
  <2>1. CASE v = u
    BY <1>1, <1>3, <1>5, <2>1, FinalIsOver
  <2>2. CASE v # u
    BY <1>2, <1>3, <1>5, <2>2 DEF WaitsForRuns
  <2>3. QED
    BY <2>1, <2>2
<1>6. WaitsForRuns'
  BY <1>4, <1>5 DEF WaitsForRuns
<1>7. QED
  BY <1>1, <1>3, <1>6, UpdateFits

LEMMA UpdateGoesOn ==
    ASSUME StudioInv, NEW u \in Updates, UpdateBegins(u) \/ UpdateEnds(u)
    PROVE  StudioInv' /\ SavesAdvance
<1>1. PICK goes \in {"updating", "done"} :
         /\ update' = [update EXCEPT ![u] = goes]
         /\ update[u] \in {"checked", "updating"}
         /\ UNCHANGED <<row, execution, cancelling, present, cancelled, cancels, faults>>
  BY DEF UpdateBegins, UpdateEnds
<1>2. StudioTypes /\ WaitsForRuns
  BY DEF StudioInv
<1>3. /\ update' \in [Updates -> {"none", "checked", "updating", "done"}]
      /\ present' \in [Updates -> SUBSET Run]
      /\ \A v \in Updates : update'[v] \in {"checked", "updating"} => update[v] \in {"checked", "updating"}
  BY <1>1, <1>2 DEF StudioTypes
<1>4. UNCHANGED <<pc, process, cancelled, present>>
  BY <1>1 DEF execution
<1>5. WaitsForRuns'
  BY <1>2, <1>3, <1>4 DEF WaitsForRuns
<1>6. QED
  BY <1>1, <1>3, <1>5, UpdateFits

-----------------------------------------------------------------------------
(* All of it. *)

LEMMA StudioStart == Init => StudioInv
<1> SUFFICES ASSUME Init PROVE StudioInv
  OBVIOUS
<1>1. StudioTypes
  BY BoundAssumption, Literals DEF Init, StudioTypes, Copy
<1>2. \A r \in Run : RunFits(r) /\ Trails(r)
  BY DEF Init, RunFits, Fine, Trails
<1>3. WaitsForRuns
  BY DEF Init, WaitsForRuns
<1>4. QED
  BY <1>1, <1>2, <1>3 DEF StudioInv

LEMMA StudioStep == ASSUME StudioInv, [Next]_vars PROVE StudioInv' /\ SavesAdvance
<1>1. CASE UNCHANGED vars
  <2>1. UNCHANGED <<row, copy, pc, index, command, lines, process, error, broken, cancelling, update,
                    present, cancelled, cancels, faults>>
    BY <1>1 DEF vars, execution, requests
  <2>2. StudioTypes' /\ \A r \in Run : RunFits(r)' /\ Trails(r)'
    BY <2>1 DEF StudioInv, StudioTypes, RunFits, Trails
  <2>3. WaitsForRuns' /\ SavesAdvance
    BY <2>1 DEF StudioInv, WaitsForRuns, SavesAdvance, Follows
  <2>4. QED
    BY <2>2, <2>3 DEF StudioInv
<1>2. CASE \E r \in Run : Prepare(r) \/ Execute(r) \/ StatementFails(r) \/ ProcessEnds(r)
                            \/ CancelRead(r) \/ CancelSave(r)
  <2>1. PICK r \in Run : \/ Prepare(r) \/ Begin(r) \/ Check(r) \/ StartJob(r) \/ Spawn(r) \/ Trivial(r)
                         \/ Reap(r) \/ Judge(r) \/ Save(r) \/ Line(r) \/ Poll(r) \/ Silent(r)
                         \/ StatementFails(r) \/ ProcessEnds(r) \/ CancelRead(r) \/ CancelSave(r)
    BY <1>2 DEF Execute, Advance
  <2>2. CASE Prepare(r) \/ Begin(r) \/ Check(r) \/ StartJob(r)
    BY <2>2, PrepareTurns, BeginTurns, CheckTurns, StartTurns
  <2>3. CASE Spawn(r) \/ Trivial(r) \/ Reap(r) \/ Judge(r) \/ Save(r)
    BY <2>3, SpawnTurns, TrivialTurns, ReapTurns, JudgeTurns, SaveTurns
  <2>4. CASE Line(r) \/ Poll(r) \/ Silent(r) \/ StatementFails(r)
    BY <2>4, LineTurns, PollTurns, SilentTurns, FailTurns
  <2>5. CASE ProcessEnds(r) \/ CancelRead(r) \/ CancelSave(r)
    BY <2>5, ProcessEndsFits, CancelReadFits, CancelSaveFits
  <2>6. QED
    BY <2>1, <2>2, <2>3, <2>4, <2>5
<1>3. CASE \E u \in Updates : UpdateCheck(u) \/ UpdateBegins(u) \/ UpdateEnds(u)
  BY <1>3, UpdateCheckFits, UpdateGoesOn
<1>4. CASE ServerEnds
  BY <1>4, ServerEndsFits
<1>5. CASE Settled
  BY <1>1, <1>5 DEF Settled
<1>6. QED
  BY <1>1, <1>2, <1>3, <1>4, <1>5 DEF Next

LEMMA StudioIs == StudioInv => TypeOK /\ RunsAreCoherent /\ NoGhosts /\ WaitsForRuns
<1> SUFFICES ASSUME StudioInv PROVE TypeOK /\ RunsAreCoherent /\ NoGhosts
  BY DEF StudioInv
<1>1. StudioTypes
  BY DEF StudioInv
<1>2. \A r \in Run : row[r] = None <=> pc[r] = "none"
  BY RowKnown, KnownOf DEF Fine
<1>3. TypeOK
  BY <1>1, <1>2 DEF TypeOK, StudioTypes
<1>4. RunsAreCoherent
  <2>1. SUFFICES ASSUME NEW r \in Run
                 PROVE (row[r] # None => Coherent(row[r])) /\ (r \in broken => row[r].status # "SUCCESS")
    BY DEF RunsAreCoherent
  <2>2. CASE pc[r] = "none"
    BY <2>2, KnownOf DEF Fine
  <2>3. CASE pc[r] # "none"
    <3>1. Coherent(row[r])
      BY <2>3, KnownOf DEF Sane
    <3>2. r \in broken => row[r].status # "SUCCESS"
      <4>1. /\ RowFits(row[r], pc[r], r \in cancelled)
            /\ ProcessFits(row[r], copy[r], pc[r], process[r], error[r], r \in broken)
        BY <2>3, KnownOf
      <4>2. QED
        BY <4>1 DEF RowFits, ProcessFits
    <3>3. QED
      BY <3>1, <3>2
  <2>4. QED
    BY <2>2, <2>3
<1>5. NoGhosts
  <2>1. SUFFICES ASSUME NEW r \in Run, pc[r] \in {"none", "done"}, Active(r) PROVE FALSE
    BY DEF NoGhosts
  <2>2. row[r] # None /\ pc[r] = "done"
    BY <1>2, <2>1 DEF Active
  <2>3. row[r].status \in Final
    BY <2>2, KnownOf DEF RowFits
  <2>4. QED
    BY <2>1, <2>3 DEF Active, Final
<1>6. QED
  BY <1>3, <1>4, <1>5

\* The runs of the studio alone, whatever fails and whoever saves over whom: a stored run
\* tells one story, with no pending or running job when it succeeded or failed; a failed
\* command is never stored as a success; the runs an update saw are over until it is; and
\* no save but that of cancel_run takes back a stored job, or a success or a failure.
THEOREM StudioRunsHold ==
    Spec => [](TypeOK /\ RunsAreCoherent /\ NoGhosts /\ WaitsForRuns) /\ [][SavesAdvance]_vars
<1>1. StudioInv /\ [Next]_vars => StudioInv' /\ SavesAdvance
  BY StudioStep
<1>2. QED
  BY <1>1, StudioStart, StudioIs, PTL DEF Spec

\* In the run's composition these are steps of one part.
partsVars == <<part, vars, serviceVars>>
PartStudio == part = "studio" => StudioInv

LEMMA PartStudioStart == PartsInit => PartStudio
  BY StudioStart DEF PartsInit, PartStudio

LEMMA PartStudioStep ==
    ASSUME PartStudio, [PartsNext]_partsVars
    PROVE  PartStudio' /\ (part = "studio" => SavesAdvance)
<1>1. part' = part
  BY DEF PartsNext, partsVars
<1>2. CASE part # "studio"
  BY <1>1, <1>2 DEF PartStudio
<1>3. CASE part = "studio"
  <2>1. [Next]_vars
    BY <1>3 DEF PartsNext, partsVars
  <2>2. StudioInv /\ StudioInv' /\ SavesAdvance
    BY <1>3, <2>1, StudioStep DEF PartStudio
  <2>3. QED
    BY <2>2 DEF PartStudio
<1>4. QED
  BY <1>2, <1>3

\* Of the part of the run that explores it: stored runs are coherent, those with a failed
\* command are not successes, without faults no active run is left without an executor, and
\* no save of an executor takes back a stored job, or a success or a failure.
THEOREM StudioStaysTrue == PartsSpec => StudioHolds
<1>1. PartStudio => (part = "studio" => TypeOK /\ RunsAreCoherent /\ NoGhosts)
  BY StudioIs DEF PartStudio
<1>2. PartStudio /\ [PartsNext]_partsVars => PartStudio' /\ [part = "studio" => SavesAdvance]_vars
  BY PartStudioStep
<1>3. QED
  BY <1>1, <1>2, PartStudioStart, PTL DEF PartsSpec, partsVars, StudioHolds

\* From the check of the rows by update_project_git until the update ends, the runs it saw
\* and nobody cancelled have neither executor nor process.
THEOREM UpdatesWait == PartsSpec => []UpdateWaits
<1>1. PartStudio => UpdateWaits
  BY StudioIs DEF UpdateWaits, PartStudio
<1>2. PartStudio /\ [PartsNext]_partsVars => PartStudio'
  BY PartStudioStep
<1>3. QED
  BY <1>1, <1>2, PartStudioStart, PTL DEF PartsSpec, partsVars

=============================================================================
