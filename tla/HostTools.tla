------------------------------- MODULE HostTools -------------------------------
(***************************************************************************)
(* What tasks of several engines do to the one host they share: package    *)
(* installs and the environments that use what they install                *)
(* (executor/src/packages.rs), the leases that keep them apart             *)
(* (resources.rs), primitives that look for a client, install it and run   *)
(* it (remote.rs, primitives/src/lib.rs), and the background worker and    *)
(* wake-up through which the scheduler of an engine sees them (worker.rs). *)
(*                                                                         *)
(* Every task is the one task of an engine of its own; what several tasks  *)
(* of one engine do to each other is in Scheduler.  Names of leases are    *)
(* numbers, so that their order is the order of the map they are kept in.  *)
(* Engines are not killed here: a killed engine loses its leases while its *)
(* process groups live on, which no code repairs.                          *)
(***************************************************************************)
EXTENDS Integers, FiniteSets, Sequences

CONSTANTS Task, Jobs, MaxChunks, Updates, Root

ASSUME HostAssumption == MaxChunks \in Nat /\ Updates \in BOOLEAN /\ Root \in BOOLEAN

VARIABLES
  job,      \* what each task asks for, as the plan declares it
  phase,    \* where its engine is: pending, locking, running, dropping, ended
  status,   \* the outcome the engine has recorded
  got,      \* the leases it holds
  asleep,   \* its scheduler waits for a wake-up
  flag,     \* the wake-up that is kept for it
  stage,    \* where its worker is
  left,     \* the tools its worker still has to find, then the chunks to read
  asked,    \* the cancellation its worker can see
  outcome,  \* what the work came to: none, ok or error
  result,   \* the result the worker has sent
  child,    \* its process: none, up, good or bad
  helper,   \* a descendant of that process is alive
  tools     \* the clients installed on the host

hostVars == <<job, phase, status, got, asleep, flag, stage, left, asked, outcome,
              result, child, helper, tools>>
workerVars == <<stage, left, asked, outcome, result>>

\* The clients a primitive needs, in the order in which they are looked for.
SshClients(op) == IF op.kind = "rsync" THEN <<"ssh", "rsync">> ELSE <<op.kind>>

Clients(op) ==
  CASE op.kind \in {"ftp", "ftps"} -> <<"curl">>
    [] op.kind = "s3" -> <<"aws">>
    [] OTHER -> SshClients(op)

ValidOp(op) ==
  /\ op.kind \in {"ssh", "scp", "sftp", "rsync"} => op.hostOk
  /\ op.kind \in {"ftp", "ftps", "s3"} /\ op.action \in {"get", "put"} => op.path
  /\ op.kind \in {"ftp", "ftps"} /\ op.password => op.username

\* The arguments of a transfer: credentials go through a file of their own, so
\* a name that the environment lacks is an error before anything runs.
Prepared(op) == op.kind \in {"ftp", "ftps"} /\ op.username => op.inEnvironment

\* A package install holds the prefix of its manager alone; whoever has that
\* prefix in its environment shares it, unless it holds it anyway.
Exclusive(j) == j.resources \cup (IF j.kind = "install" THEN {j.prefix} ELSE {})
Shared(j) == {p.prefix : p \in j.environment} \ Exclusive(j)
Names(j) == Exclusive(j) \cup Shared(j)

\* What resolve_packages refuses.
Resolves(j) ==
  /\ j.kind = "install" => j.environment = {} /\ j.packages # {}
  /\ \A p, q \in j.environment : p.manager = q.manager => p = q
  /\ \A p \in j.environment : p.present

ValidJob(j) == Resolves(j) /\ (j.kind = "primitive" => ValidOp(j.op))

Uses(j, p) == p \in Exclusive(j) \cup Shared(j)

-----------------------------------------------------------------------------
(* Leases. *)

Compatible(t, r, u) == r \in Shared(job[t]) /\ r \in Shared(job[u])
CanLock(t, r) == \A u \in Task \ {t} : r \in got[u] => Compatible(t, r, u)

\* Mutant: names are taken in any order.
NextNameAny(t, r) == TRUE
\* The next name of a task: names are taken in the order of the map.
NextName(t, r) == \A s \in Names(job[t]) \ got[t] : r <= s

LeasesFrame == <<job, asleep, flag, stage, left, asked, outcome, result, child, helper, tools>>

Attempt(t) ==
  /\ phase[t] = "pending"
  /\ phase' = [phase EXCEPT ![t] = "locking"]
  /\ UNCHANGED <<status, got>> /\ UNCHANGED LeasesFrame

LockOne(t) ==
  /\ phase[t] = "locking"
  /\ \E r \in Names(job[t]) \ got[t] :
       NextName(t, r) /\ CanLock(t, r) /\ got' = [got EXCEPT ![t] = @ \cup {r}]
  /\ UNCHANGED <<phase, status>> /\ UNCHANGED LeasesFrame

\* A busy name gives up the names taken so far, until the next attempt or for
\* good when the task has waited for too long.
LockBusy(t) ==
  /\ phase[t] = "locking"
  /\ \E r \in Names(job[t]) \ got[t] : NextName(t, r) /\ ~CanLock(t, r)
  /\ got' = [got EXCEPT ![t] = {}]
  /\ \/ phase' = [phase EXCEPT ![t] = "pending"] /\ UNCHANGED status
     \/ /\ job[t].impatient
        /\ phase' = [phase EXCEPT ![t] = "ended"]
        /\ status' = [status EXCEPT ![t] = "timed_out"]
  /\ UNCHANGED LeasesFrame

LockError(t) ==
  /\ phase[t] = "locking" /\ Names(job[t]) # got[t]
  /\ got' = [got EXCEPT ![t] = {}]
  /\ phase' = [phase EXCEPT ![t] = "ended"]
  /\ status' = [status EXCEPT ![t] = "failed"]
  /\ UNCHANGED LeasesFrame

-----------------------------------------------------------------------------
(* Starting, polling and dropping a task. *)

Native(t) == job[t].kind = "primitive"

Start(t) ==
  /\ phase[t] = "locking" /\ got[t] = Names(job[t])
  /\ \/ /\ phase' = [phase EXCEPT ![t] = "running"]
        /\ IF Native(t)
             THEN stage' = [stage EXCEPT ![t] = "start"] /\ UNCHANGED child
             ELSE child' = [child EXCEPT ![t] = "up"] /\ UNCHANGED stage
        /\ UNCHANGED <<got, status>>
     \/ /\ phase' = [phase EXCEPT ![t] = "ended"]          \* it cannot be started
        /\ got' = [got EXCEPT ![t] = {}]
        /\ status' = [status EXCEPT ![t] = "failed"]
        /\ UNCHANGED <<stage, child>>
  /\ UNCHANGED <<job, asleep, flag, left, asked, outcome, result, helper, tools>>

\* terminate: a worker is asked to stop, a process group is killed.
Terminated(t) ==
  IF Native(t)
    THEN asked' = [asked EXCEPT ![t] = TRUE] /\ UNCHANGED <<child, helper>>
    ELSE /\ child' = [child EXCEPT ![t] = "none"]
         /\ helper' = [helper EXCEPT ![t] = FALSE]
         /\ UNCHANGED asked

\* The scheduler ends a task that is cancelled or too late, before it looks
\* whether the task has ended by itself.
StopTask(t) ==
  /\ phase[t] = "running" /\ ~asleep[t]
  /\ phase' = [phase EXCEPT ![t] = "dropping"]
  /\ \E s \in {"cancelled", "timed_out"} : status' = [status EXCEPT ![t] = s]
  /\ Terminated(t)
  /\ UNCHANGED <<job, got, asleep, flag, stage, left, outcome, result, tools>>

Ready(t) == IF Native(t) THEN result[t] # "none" ELSE child[t] \in {"good", "bad"}
Good(t) == IF Native(t) THEN result[t] = "ok" ELSE child[t] = "good"

Poll(t) ==
  /\ phase[t] = "running" /\ ~asleep[t] /\ Ready(t)
  /\ phase' = [phase EXCEPT ![t] = "dropping"]
  /\ status' = [status EXCEPT ![t] = IF Good(t) THEN "succeeded" ELSE "failed"]
  /\ Terminated(t)
  /\ UNCHANGED <<job, got, asleep, flag, stage, left, outcome, result, tools>>

\* Nothing to report: the scheduler waits.
Sleep(t) ==
  /\ phase[t] = "running" /\ ~asleep[t] /\ ~Ready(t)
  /\ asleep' = [asleep EXCEPT ![t] = TRUE]
  /\ UNCHANGED <<job, phase, status, got, flag, child, helper, tools>> /\ UNCHANGED workerVars

\* It goes on after a wake-up, or after ten milliseconds without one.
WakeUp(t) ==
  /\ asleep[t]
  /\ asleep' = [asleep EXCEPT ![t] = FALSE]
  /\ flag' = [flag EXCEPT ![t] = FALSE]
  /\ UNCHANGED <<job, phase, status, got, child, helper, tools>> /\ UNCHANGED workerVars

\* Mutant: the leases of a task go at once.
JoinedNever(t) == TRUE
\* The leases of a task go after its worker is joined or its process reaped.
Joined(t) == stage[t] \in {"none", "exited"}

Release(t) ==
  /\ phase[t] = "dropping" /\ Joined(t)
  /\ phase' = [phase EXCEPT ![t] = "ended"]
  /\ got' = [got EXCEPT ![t] = {}]
  /\ UNCHANGED <<status>> /\ UNCHANGED LeasesFrame

-----------------------------------------------------------------------------
(* Processes. *)

Installs(t) == job[t].kind = "install" \/ stage[t] = "install"

Forks(t) ==
  /\ child[t] = "up" /\ ~helper[t] /\ job[t].forks
  /\ helper' = [helper EXCEPT ![t] = TRUE]
  /\ UNCHANGED <<job, phase, status, got, asleep, flag, child, tools>> /\ UNCHANGED workerVars

Exits(t) ==
  /\ child[t] = "up"
  /\ \E c \in {"good", "bad"} :
       /\ child' = [child EXCEPT ![t] = c]
       /\ \E new \in IF c = "good" /\ Installs(t)
                       THEN IF Native(t) THEN {{}, {Head(left[t])}} ELSE {job[t].packages}
                       ELSE {{}} : tools' = tools \cup new
  /\ UNCHANGED <<job, phase, status, got, asleep, flag, helper>> /\ UNCHANGED workerVars

HelperEnds(t) ==
  /\ helper[t]
  /\ helper' = [helper EXCEPT ![t] = FALSE]
  /\ UNCHANGED <<job, phase, status, got, asleep, flag, child, tools>> /\ UNCHANGED workerVars

-----------------------------------------------------------------------------
(* The worker of a primitive. *)

EngineFrame == <<job, phase, status, got, asleep>>

\* The end of a worker: its result is sent, then the scheduler is woken.
Epilogue == <<"send", "notify", "exited">>
After(s) == LET n == CHOOSE n \in 1..2 : Epilogue[n] = s IN Epilogue[n + 1]

Ends(t, o) ==
  /\ outcome' = [outcome EXCEPT ![t] = o]
  /\ stage' = [stage EXCEPT ![t] = Epilogue[1]]

Execute(t) ==
  /\ stage[t] = "start"
  /\ LET op == job[t].op IN
     CASE op.kind \in {"os", "arch"} -> Ends(t, "ok") /\ UNCHANGED left
       [] op.kind = "digest" ->
            \/ /\ stage' = [stage EXCEPT ![t] = "digest"]
               /\ \E n \in 0..MaxChunks : left' = [left EXCEPT ![t] = [i \in 1..n |-> "chunk"]]
               /\ UNCHANGED outcome
            \/ Ends(t, "error") /\ UNCHANGED left
       [] OTHER ->
            IF Prepared(op)
              THEN /\ stage' = [stage EXCEPT ![t] = "find"]
                   /\ left' = [left EXCEPT ![t] = Clients(op)]
                   /\ UNCHANGED outcome
              ELSE Ends(t, "error") /\ UNCHANGED left
  /\ UNCHANGED <<flag, asked, result, child, helper, tools>> /\ UNCHANGED EngineFrame

\* A digest looks for its cancellation before every chunk.
Digest(t) ==
  /\ stage[t] = "digest"
  /\ IF asked[t] THEN Ends(t, "error") /\ UNCHANGED left
     ELSE IF left[t] = <<>> THEN Ends(t, "ok") /\ UNCHANGED left
     ELSE \/ left' = [left EXCEPT ![t] = Tail(@)] /\ UNCHANGED <<stage, outcome>>
          \/ Ends(t, "error") /\ UNCHANGED left
  /\ UNCHANGED <<flag, asked, result, child, helper, tools>> /\ UNCHANGED EngineFrame

Spawns(t, s) ==
  \/ /\ stage' = [stage EXCEPT ![t] = s]
     /\ child' = [child EXCEPT ![t] = "up"]
     /\ UNCHANGED outcome
  \/ Ends(t, "error") /\ UNCHANGED child

\* executable: a file on the path or in the usual places, which for rsync must
\* be one that protects its arguments.
Available(t) == Head(left[t]) \in tools

\* ensure and the client: a client that is there is used; one that is not is
\* installed if the primitive allows it and the host has a manager and rights.
Find(t) ==
  /\ stage[t] = "find"
  /\ IF Available(t)
       THEN IF Len(left[t]) > 1
              THEN left' = [left EXCEPT ![t] = Tail(@)] /\ UNCHANGED <<stage, outcome, child>>
              ELSE Spawns(t, "client") /\ UNCHANGED left
       ELSE /\ UNCHANGED left
            /\ \/ /\ job[t].op.install
                  /\ Spawns(t, IF Updates THEN "update" ELSE "install")
               \/ Ends(t, "error") /\ UNCHANGED child
  /\ UNCHANGED <<flag, asked, result, helper, tools>> /\ UNCHANGED EngineFrame

\* run: the cancellation is seen before the exit of the child.
Running(t) == stage[t] \in {"update", "install", "client"}

RunPoll(t) ==
  /\ Running(t) /\ ~asked[t] /\ child[t] \in {"good", "bad"}
  /\ CASE child[t] = "bad" -> Ends(t, "error") /\ child' = [child EXCEPT ![t] = "none"]
       [] child[t] = "good" /\ stage[t] = "update" -> Spawns(t, "install")
       [] child[t] = "good" /\ stage[t] = "install" ->
            /\ IF Available(t)
                 THEN stage' = [stage EXCEPT ![t] = "find"] /\ UNCHANGED outcome
                 ELSE Ends(t, "error")
            /\ child' = [child EXCEPT ![t] = "none"]
       [] OTHER -> Ends(t, "ok") /\ child' = [child EXCEPT ![t] = "none"]
  /\ UNCHANGED <<left, flag, asked, result, helper, tools>> /\ UNCHANGED EngineFrame

\* An installer that sudo has started is not killed by signals of the engine.
Killable(t) == Root \/ stage[t] = "client"

Term(t) ==
  /\ Running(t) /\ asked[t]
  /\ stage' = [stage EXCEPT ![t] = IF Killable(t) THEN "term" ELSE "wait"]
  /\ UNCHANGED <<left, flag, asked, outcome, result, child, helper, tools>>
  /\ UNCHANGED EngineFrame

\* A hundred milliseconds later the group is killed and its leader reaped.
Kill(t) ==
  /\ stage[t] \in {"term", "wait"}
  /\ stage[t] = "wait" => child[t] # "up"
  /\ child' = [child EXCEPT ![t] = "none"]
  /\ helper' = [helper EXCEPT ![t] = helper[t] /\ stage[t] = "wait"]
  /\ Ends(t, "error")
  /\ UNCHANGED <<left, flag, asked, result, tools>> /\ UNCHANGED EngineFrame

Send(t) ==
  /\ stage[t] = "send"
  /\ result' = [result EXCEPT ![t] = outcome[t]]
  /\ stage' = [stage EXCEPT ![t] = After("send")]
  /\ UNCHANGED <<left, flag, asked, outcome, child, helper, tools>> /\ UNCHANGED EngineFrame

Notify(t) ==
  /\ stage[t] = "notify"
  /\ flag' = [flag EXCEPT ![t] = TRUE]
  /\ stage' = [stage EXCEPT ![t] = After("notify")]
  /\ UNCHANGED <<left, asked, outcome, result, child, helper, tools>> /\ UNCHANGED EngineFrame

Work(t) ==
  \/ Execute(t) \/ Digest(t) \/ Find(t) \/ RunPoll(t) \/ Term(t) \/ Kill(t)
  \/ Send(t) \/ Notify(t)

-----------------------------------------------------------------------------
HostInit ==
  /\ job \in [Task -> {j \in Jobs : ValidJob(j)}]
  /\ phase = [t \in Task |-> "pending"]
  /\ status = [t \in Task |-> "running"]
  /\ got = [t \in Task |-> {}]
  /\ asleep = [t \in Task |-> FALSE]
  /\ flag = [t \in Task |-> FALSE]
  /\ stage = [t \in Task |-> "none"]
  /\ left = [t \in Task |-> <<>>]
  /\ asked = [t \in Task |-> FALSE]
  /\ outcome = [t \in Task |-> "none"]
  /\ result = [t \in Task |-> "none"]
  /\ child = [t \in Task |-> "none"]
  /\ helper = [t \in Task |-> FALSE]
  /\ tools = {}

Engine(t) ==
  \/ Attempt(t) \/ LockOne(t) \/ LockBusy(t) \/ LockError(t) \/ Start(t)
  \/ Poll(t) \/ Sleep(t) \/ WakeUp(t) \/ Release(t)

HostNext ==
  \E t \in Task :
    Engine(t) \/ StopTask(t) \/ Work(t) \/ Forks(t) \/ Exits(t) \/ HelperEnds(t)

HostSpec == HostInit /\ [][HostNext]_hostVars

-----------------------------------------------------------------------------
(* Properties. *)

Alive(t) == child[t] = "up" \/ (helper[t] /\ ~Native(t))

\* While a package install has a process, nothing else that has its prefix in
\* its environment has one: neither the processes of a task that was cancelled
\* or timed out, nor a descendant that outlived its parent (packages.rs:143,
\* resources.rs:94, lib.rs:239).
PrefixIsStable ==
  \A t, u \in Task :
    (t # u /\ job[t].kind = "install" /\ Alive(t) /\ Uses(job[u], job[t].prefix)) => ~Alive(u)

\* No process of a task is left, and its worker has sent its result, when the
\* engine has recorded its end and given back its leases (lib.rs:239-258).
NoneOutlives ==
  \A t \in Task :
    phase[t] \in {"pending", "ended"} =>
      got[t] = {} /\ ~Alive(t) /\ stage[t] \in {"none", "exited"}

\* A scheduler that sleeps over a result of a worker that is gone has a wake-up
\* in store: it does not wait for its next look (worker.rs:14, worker.rs:50).
WakesAreKept ==
  \A t \in Task : (asleep[t] /\ stage[t] = "exited" /\ result[t] # "none") => flag[t]

HostIsShared == PrefixIsStable /\ NoneOutlives /\ WakesAreKept
=============================================================================
