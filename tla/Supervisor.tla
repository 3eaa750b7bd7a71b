----------------------------- MODULE Supervisor -----------------------------
(***************************************************************************)
(* The supervisor of workspace services: src/src/services/supervisor.rs.   *)
(*                                                                         *)
(* One task serves the requests of clients one at a time and, between      *)
(* them, ticks: it visits every service in dependency order.  The          *)
(* processes of the services, the timers and SIGTERM run on their own.     *)
(* A request is one step because nothing it waits for is changed by them:  *)
(* it starts what has no process, whether or not another one has exited.   *)
(***************************************************************************)
EXTENDS Integers, FiniteSets, Sequences, SequencesExt

CONSTANTS Service,
          Token,        \* lease tokens, one per scoped command
          DependsOn,    \* depends_on
          Order,        \* Manager::order
          Policy,       \* restart: "never", "on_failure", "always"
          MaxRestarts,  \* max_restarts
          Probed,       \* services with a health probe
          Operations    \* the requests clients send

ASSUME ServiceAssumption == IsFiniteSet(Service) /\ Service # {}
ASSUME DefinitionAssumption ==
    /\ DependsOn \in [Service -> SUBSET Service]
    /\ Policy \in [Service -> {"never", "on_failure", "always"}]
    /\ MaxRestarts \in [Service -> Nat] /\ Probed \subseteq Service
    /\ Operations \subseteq {"up", "apply", "acquire", "release", "stop", "restart", "down"}

\* definition::validate accepts acyclic definitions and orders them.
Validated(order) ==
    /\ order \in Seq(Service) /\ ToSet(order) = Service /\ Len(order) = Cardinality(Service)
    /\ \A i, j \in 1..Len(order) : order[i] \in DependsOn[order[j]] => i < j
ASSUME OrderAssumption == Validated(Order)

\* A process that has exited keeps its handle until it is reaped, with its
\* exit status.  "running" stands for "ready" too.
Process == {"none", "live", "succeeded", "failed"}
State == {"stopped", "waiting", "running", "exited", "unhealthy", "failed"}
Threshold == 3

VARIABLES
    worker,    \* Manager::workers: child, state, desired, health_failures,
               \* state.restarts, and whether next_start is still to come
    leases, scoped, manual,
    shutdown,
    at,        \* the service in Order the tick is at, 1 between ticks
    manager,   \* "serving" or "ended"
    halted,    \* history: stopped by a client before it was found unhealthy, and
               \* not started by one since
    restarted, \* history: a client asked this manager for a restart
    revivable  \* history: a request left a service that had been found unhealthy
               \* to nobody, whose failures will start it again

owners == <<leases, scoped, manual, halted, restarted, revivable>>
vars == <<worker, owners, shutdown, at, manager>>

Stopped == [child |-> "none", state |-> "stopped", desired |-> FALSE,
            failures |-> 0, restarts |-> 0, backoff |-> FALSE]

-----------------------------------------------------------------------------
(* Services and what they depend on. *)

\* Services with all they depend on: what collect reaches from S, and what the
\* loop of dependents adds to S until nothing changes.
Closed(T) == \A s \in T : DependsOn[s] \subseteq T
Required(S) == {s \in Service : \A T \in SUBSET Service : S \subseteq T /\ Closed(T) => s \in T}
Targets(names) == IF names = {} THEN Service ELSE Required(names)

Dependents(S) ==
    {s \in Service : \A T \in SUBSET Service : S \subseteq T /\ Closed(Service \ T) => s \in T}

Before(s, e) == \E i, j \in 1..Len(Order) : i < j /\ Order[i] = s /\ Order[j] = e

Dependable(s) == worker[s].child # "none" /\ worker[s].state = "running"
DependenciesReady(s) == \A d \in DependsOn[s] : Dependable(d)

-----------------------------------------------------------------------------
(* What happens to a worker. *)

Stop(w, desired) == [w EXCEPT !.child = "none", !.desired = desired,
                              !.state = IF desired THEN "waiting" ELSE "stopped"]

Ready(w) == [w EXCEPT !.child = "live", !.state = "running", !.desired = TRUE, !.failures = 0]

MayRestart(s, exit) == \/ Policy[s] = "always"
                       \/ Policy[s] = "on_failure" /\ exit = "failed"

Reaped(s, w) ==
    IF w.child \in {"none", "live"} THEN w
    ELSE [w EXCEPT !.child = "none", !.state = "exited", !.backoff = TRUE,
                   !.desired = @ /\ MayRestart(s, w.child)]

\* The health probe is due, and passes or fails, or it is not due.
Probings(s, w) ==
    {w} \cup (IF w.child = "none" \/ s \notin Probed THEN {}
              ELSE {[w EXCEPT !.failures = 0], [w EXCEPT !.failures = @ + 1]})

Judged(s, w) ==
    IF w.failures < Threshold THEN w
    ELSE [Stop(w, TRUE) EXCEPT !.state = "unhealthy", !.desired = Policy[s] # "never"]

Exhausted(s, w) == w.state # "waiting" /\ w.restarts >= MaxRestarts[s]

\* Past MaxRestarts the count makes no further difference.
Counted(s, w) == [w EXCEPT !.restarts = IF @ < MaxRestarts[s] THEN @ + 1 ELSE @]

\* Mutant: the count starts again with every failure.
FailedUncounted(w) == [Stop(w, TRUE) EXCEPT !.state = "failed", !.backoff = TRUE, !.restarts = 0]
FailedAgain(w) == [Stop(w, TRUE) EXCEPT !.state = "failed", !.backoff = TRUE]

Restarted(s, w) ==
    IF ~w.desired \/ w.child # "none" \/ ~DependenciesReady(s) \/ w.backoff THEN {w}
    ELSE IF Exhausted(s, w) THEN {[w EXCEPT !.desired = FALSE, !.state = "failed"]}
    ELSE {FailedAgain(Counted(s, w))} \cup (IF shutdown THEN {} ELSE {Ready(Counted(s, w))})

\* One iteration of Manager::tick.
Outcomes(s) ==
    IF worker[s].child # "none" /\ ~DependenciesReady(s) THEN {Stop(worker[s], TRUE)}
    ELSE UNION {Restarted(s, Judged(s, w)) : w \in Probings(s, Reaped(s, worker[s]))}

-----------------------------------------------------------------------------
(* The manager between requests. *)

Visit ==
    /\ manager = "serving" /\ (at = 1 => ~shutdown)
    /\ \E w \in Outcomes(Order[at]) : worker' = [worker EXCEPT ![Order[at]] = w]
    /\ at' = IF at = Len(Order) THEN 1 ELSE at + 1
    /\ UNCHANGED <<owners, shutdown, manager>>

\* A process exits.
Exit(s) ==
    /\ worker[s].child = "live"
    /\ \E e \in {"succeeded", "failed"} : worker' = [worker EXCEPT ![s].child = e]
    /\ UNCHANGED <<owners, shutdown, at, manager>>

\* next_start comes.
Elapse(s) ==
    /\ worker[s].backoff /\ worker' = [worker EXCEPT ![s].backoff = FALSE]
    /\ UNCHANGED <<owners, shutdown, at, manager>>

\* SIGTERM or Ctrl-C.
Terminate ==
    /\ manager = "serving" /\ shutdown' = TRUE
    /\ UNCHANGED <<worker, owners, at, manager>>

Finish ==
    /\ manager = "serving" /\ at = 1 /\ shutdown
    /\ worker' = [s \in Service |-> Stop(worker[s], FALSE)]
    /\ manager' = "ended"
    /\ UNCHANGED <<owners, shutdown, at>>

\* The next client starts a manager.
Boot ==
    /\ manager = "ended" /\ manager' = "serving"
    /\ worker' = [s \in Service |-> Stopped]
    /\ leases' = [s \in Service |-> {}] /\ scoped' = {} /\ manual' = {}
    /\ shutdown' = FALSE /\ at' = 1 /\ halted' = {}
    /\ restarted' = FALSE /\ revivable' = FALSE

-----------------------------------------------------------------------------
(* Requests. *)

Accepted(operation) ==
    operation \in Operations /\ manager = "serving" /\ at = 1 /\ ~shutdown

Forgets == revivable' = (revivable \/ \E s \in Service :
              worker'[s].failures >= Threshold /\ s \notin manual' \cup scoped')

\* `up` of the workers ws: everything among the targets without a process is
\* started in order, or one fails and those started before it are stopped.
Up(ws, names) ==
    LET todo == {s \in Targets(names) : ws[s].child = "none"}
        New(s) == [ws[s] EXCEPT !.restarts = 0]
        Rollback(f) == [s \in Service |->
            CASE s = f -> [Stop(New(s), FALSE) EXCEPT !.state = "failed"]
              [] s \in todo \ {f} /\ Before(s, f) -> Stop(Ready(New(s)), FALSE)
              [] OTHER -> ws[s]]
    IN {[ok |-> FALSE, started |-> {}, workers |-> Rollback(f)] : f \in todo}
       \cup {[ok |-> TRUE, started |-> todo,
              workers |-> [s \in Service |-> IF s \in todo THEN Ready(New(s)) ELSE ws[s]]]}

\* Mutant: what was stopped is still wanted.
StopsWanted(ws, S) == [s \in Service |-> IF s \in S THEN Stop(ws[s], TRUE) ELSE ws[s]]
Stops(ws, S) == [s \in Service |-> IF s \in S THEN Stop(ws[s], FALSE) ELSE ws[s]]

StartManually(ws, names) ==
    /\ \E up \in Up(ws, names) :
          /\ worker' = up.workers
          /\ manual' = IF up.ok THEN manual \cup Targets(names) ELSE manual
          /\ halted' = IF up.ok THEN halted \ Targets(names) ELSE halted
    /\ UNCHANGED <<leases, scoped, restarted, shutdown, at, manager>> /\ Forgets

UpRequest(names) == Accepted("up") /\ StartManually(worker, names)

\* `up` with definitions: workers without a process are replaced before.
ApplyRequest(names) ==
    /\ Accepted("apply") /\ names # {}
    /\ StartManually([s \in Service |-> IF s \in names /\ worker[s].child = "none"
                                        THEN Stopped ELSE worker[s]], names)

Lease(t, names) ==
    [s \in Service |-> IF s \in Targets(names) THEN leases[s] \cup {t} ELSE leases[s]]

Acquire(t, names) ==
    /\ Accepted("acquire") /\ \A s \in Service : t \notin leases[s]
    /\ \E up \in Up(worker, names) :
          /\ worker' = up.workers /\ scoped' = scoped \cup up.started
          /\ leases' = IF up.ok THEN Lease(t, names) ELSE leases
          /\ halted' = IF up.ok THEN halted \ Targets(names) ELSE halted
    /\ UNCHANGED <<manual, restarted, shutdown, at, manager>> /\ Forgets

\* Mutant: what was also started manually is stopped.
ReleasedScoped == {s \in scoped : leases'[s] = {}}
Released == {s \in scoped \ manual : leases'[s] = {}}

Release(t) ==
    /\ Accepted("release") /\ \E s \in Service : t \in leases[s]
    /\ leases' = [s \in Service |-> leases[s] \ {t}]
    /\ worker' = Stops(worker, Released) /\ scoped' = scoped \ Released
    /\ shutdown' = (manual = {} /\ \A s \in Service : leases'[s] = {})
    /\ UNCHANGED <<manual, halted, restarted, at, manager>> /\ Forgets

Healthy(S) == {s \in S : worker[s].failures < Threshold}

Selected(names) == IF names = {} THEN Service ELSE Dependents(names)

StopRequest(names) ==
    /\ Accepted("stop")
    /\ LET S == Selected(names) IN
       /\ worker' = Stops(worker, S) /\ halted' = halted \cup Healthy(S)
       /\ manual' = manual \ S /\ scoped' = scoped \ S
    /\ UNCHANGED <<leases, restarted, shutdown, at, manager>> /\ Forgets

Down ==
    /\ Accepted("down")
    /\ worker' = Stops(worker, Service) /\ halted' = halted \cup Healthy(Service)
    /\ manual' = {} /\ scoped' = {} /\ shutdown' = TRUE
    /\ UNCHANGED <<leases, restarted, at, manager>> /\ Forgets

RestartRequest(names) ==
    /\ Accepted("restart")
    /\ LET S == Selected(names)
           again == {s \in S : worker[s].desired \/ s \in names} IN
       /\ \E up \in Up(Stops(worker, S), again) :
             /\ worker' = up.workers
             /\ manual' = (manual \ S) \cup (IF up.ok THEN again ELSE {})
             /\ halted' = (halted \cup Healthy(S)) \ (IF up.ok THEN Targets(again) ELSE {})
       /\ scoped' = scoped \ S /\ restarted' = TRUE
    /\ UNCHANGED <<leases, shutdown, at, manager>> /\ Forgets

Start == \E names \in SUBSET Service :
            UpRequest(names) \/ ApplyRequest(names) \/ \E t \in Token : Acquire(t, names)
Request == \/ Start
           \/ \E names \in SUBSET Service : StopRequest(names) \/ RestartRequest(names)
           \/ Down
           \/ \E t \in Token : Release(t)

-----------------------------------------------------------------------------
Init ==
    /\ worker = [s \in Service |-> Stopped]
    /\ leases = [s \in Service |-> {}] /\ scoped = {} /\ manual = {}
    /\ shutdown = FALSE /\ at = 1 /\ manager = "serving" /\ halted = {}
    /\ restarted = FALSE /\ revivable = FALSE

Next == \/ Visit \/ Request \/ Terminate \/ Finish \/ Boot
        \/ \E s \in Service : Exit(s) \/ Elapse(s)

Spec == Init /\ [][Next]_vars

\* The interval of the ticks never stays unanswered: select! chooses at random
\* between a tick and a connection.
FairSpec == Spec /\ SF_vars(Visit) /\ WF_vars(Finish) /\ \A s \in Service : WF_vars(Elapse(s))

-----------------------------------------------------------------------------
(* Properties. *)

Idle == at = 1 /\ manager = "serving"
Wanted == Required(manual \cup {s \in Service : leases[s] # {}})

TypeOK ==
    /\ worker \in [Service -> [child : Process, state : State, desired : BOOLEAN,
                               failures : 0..Threshold, restarts : Nat, backoff : BOOLEAN]]
    /\ leases \in [Service -> SUBSET Token]
    /\ scoped \subseteq Service /\ manual \subseteq Service /\ halted \subseteq Service
    /\ {restarted, revivable} \subseteq BOOLEAN
    /\ shutdown \in BOOLEAN /\ at \in 1..Len(Order) /\ manager \in {"serving", "ended"}

\* Between ticks nothing has a process while something it depends on has none,
\* unless there was a restart, which does not record what it starts, or a service
\* that was stopped when it had been found unhealthy, and that nobody owns when
\* it is started again.
DependenciesRun ==
    Idle /\ ~restarted /\ ~revivable =>
       \A s \in Service : worker[s].child # "none" => DependenciesReady(s)

\* But for these, nothing is kept running that no client has asked for, or asks
\* for any more.
Owned ==
    ~restarted /\ ~revivable =>
       \A s \in Service : worker[s].desired => s \in manual \/ leases[s] # {}

\* Unless there was a restart, a client that starts or releases services never
\* takes the process of a service that was started manually or is leased, or
\* that such a one needs.
Robs == \E s \in Wanted' : worker[s].child = "live" /\ worker'[s].child # "live"
KeepsClients == ~restarted /\ Robs => ~Start /\ \A t \in Token : ~Release(t)

\* A service a client has stopped gets no process before a client starts it,
\* unless it had just been found unhealthy: stop keeps its failures.
StopIsFinal == \A s \in halted : worker[s].child = "none"
=============================================================================
