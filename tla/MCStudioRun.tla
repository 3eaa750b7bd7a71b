---------------------------- MODULE MCStudioRun ----------------------------
(***************************************************************************)
(* "studio" is StudioRun on runs of a whole workflow of two jobs and       *)
(* re-runs of the second one alone; "chain" is Supervisor on a chain of    *)
(* three services that crash, "pair" on two the first of which is probed.  *)
(* One behaviour is a behaviour of one of these parts, which `part' names; *)
(* the variables of the other component stay zero.                         *)
(***************************************************************************)
EXTENDS StudioRun, TLC

CONSTANTS r1, db, web, job

VARIABLES part, worker, leases, scoped, manual, shutdown, at, manager, halted, restarted, revivable

Whole == <<"PENDING", "PENDING">>
Rerun == <<"SKIPPED", "PENDING">>
Workflow == {Whole, Rerun}

\* A database that is always restarted, a server that depends on it, and a job
\* that depends on the server.
Needs == db :> {} @@ web :> {db} @@ job :> {web}
Restarts == db :> "always" @@ web :> "never" @@ job :> "never"
Of(S, f) == [s \in S |-> f[s]]
Services == {db, web, job}

Chain == INSTANCE Supervisor
    WITH Service <- Services, Order <- <<db, web, job>>, DependsOn <- Needs, Policy <- Restarts,
         MaxRestarts <- [s \in Services |-> 1], Probed <- {},
         Token <- {}, Operations <- {"up", "stop"}
Pair == INSTANCE Supervisor
    WITH Service <- {db, web}, Order <- <<db, web>>, DependsOn <- Of({db, web}, Needs),
         Policy <- Of({db, web}, Restarts), MaxRestarts <- [s \in {db, web} |-> 1], Probed <- {db},
         Token <- {}, Operations <- {"up", "stop"}

serviceVars == <<worker, leases, scoped, manual, shutdown, at, manager, halted, restarted, revivable>>

NoStudio ==
    /\ row = 0 /\ copy = 0 /\ pc = 0 /\ index = 0 /\ command = 0 /\ lines = 0
    /\ process = 0 /\ error = 0 /\ cancelling = 0 /\ update = 0 /\ present = 0
    /\ cancelled = 0 /\ broken = 0 /\ cancels = 0 /\ faults = 0
NoServices ==
    /\ worker = 0 /\ leases = 0 /\ scoped = 0 /\ manual = 0 /\ shutdown = 0
    /\ at = 0 /\ manager = 0 /\ halted = 0 /\ restarted = 0 /\ revivable = 0

PartsInit == \/ part = "studio" /\ Init /\ NoServices
             \/ part = "chain" /\ Chain!Init /\ NoStudio
             \/ part = "pair" /\ Pair!Init /\ NoStudio

PartsNext ==
    /\ \/ part = "studio" /\ Next /\ UNCHANGED serviceVars
       \/ part = "chain" /\ Chain!Next /\ UNCHANGED vars
       \/ part = "pair" /\ Pair!Next /\ UNCHANGED vars
    /\ UNCHANGED part

\* The fairness of StudioRun and of Supervisor, while that part runs.
FairStudio ==
    /\ \A u \in Updates : WF_vars(part = "studio" /\ (UpdateBegins(u) \/ UpdateEnds(u)))
    /\ \A r \in Run : /\ WF_vars(part = "studio" /\ Advance(r))
                      /\ SF_vars(part = "studio" /\ Poll(r))
                      /\ WF_vars(part = "studio" /\ CancelSave(r))
                      /\ WF_vars(part = "studio" /\ Silent(r) /\ process[r] # "running")
FairServices ==
    /\ SF_serviceVars((part = "chain" /\ Chain!Visit) \/ (part = "pair" /\ Pair!Visit))
    /\ WF_serviceVars((part = "chain" /\ Chain!Finish) \/ (part = "pair" /\ Pair!Finish))
    /\ \A s \in Services :
          WF_serviceVars(\/ part = "chain" /\ Chain!Elapse(s)
                         \/ part = "pair" /\ s # job /\ Pair!Elapse(s))

PartsSpec == PartsInit /\ [][PartsNext]_<<part, vars, serviceVars>> /\ FairStudio /\ FairServices

-----------------------------------------------------------------------------
\* Stored runs tell one story, without faults no active run is left without an executor,
\* and only a save of cancel_run takes back what is stored.
StudioHolds ==
    /\ [](part = "studio" => TypeOK /\ RunsAreCoherent /\ NoGhosts)
    /\ [][part = "studio" => SavesAdvance]_vars

\* The runs that an update of the project saw, and nobody cancelled, are over until it is.
UpdateWaits == part = "studio" => WaitsForRuns

\* What is said and is not so: as an INVARIANT of this instance, TLC refutes either.
TreeIsQuiet == part = "studio" => NoRunMeanwhile
CancelIsFinal == part = "studio" => CancellationsStay

\* Every process ends: what only the commands of a run can promise.
ProcessesDoEnd == \A r \in Run : WF_vars(part = "studio" /\ ProcessEnds(r))

\* A cancelled run's process is stopped; and if processes end and nothing
\* fails, every run ends with an outcome in its row.
StudioEnds ==
    \A r \in Run :
       /\ []<>(part = "studio" /\ process[r] = "running" /\ pc[r] # "wait" => ~Cancelled(r))
       /\ ProcessesDoEnd /\ [](part = "studio" => faults = 0) =>
            (part = "studio" /\ pc[r] = "prepared") ~>
               (part = "studio" /\ pc[r] = "done" /\ row[r].status \in Final)

\* Services run in order and what is stopped stays stopped, and what is probed is
\* wanted by a client; and a wanted service gets a process, or is given up, or waits
\* for one that has none.
ServicesSettle ==
    /\ [](part = "chain" => Chain!DependenciesRun /\ Chain!StopIsFinal)
    /\ [](part = "pair" => Pair!DependenciesRun /\ Pair!StopIsFinal /\ Pair!Owned)
    /\ \A s \in Services :
          LET here == part # "studio" /\ s \in DOMAIN worker IN
          (here /\ worker[s].desired) ~>
             (here /\ (\/ worker[s].child # "none" \/ ~worker[s].desired
                       \/ \E d \in Needs[s] : worker[d].child = "none"))
=============================================================================
