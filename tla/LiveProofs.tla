----------------------------- MODULE LiveProofs -----------------------------
(***************************************************************************)
(* What holds of WorkspaceCopy for every set of files and threads, and of  *)
(* HostTools for every set of tasks and jobs, and so of their composition  *)
(* in MCLive.                                                              *)
(***************************************************************************)
EXTENDS MCLive, FiniteSetTheorems, TLAPS

-----------------------------------------------------------------------------
(* The inductive invariant of HostTools. *)

AllNames == UNION {Names(j) : j \in Jobs}

HostTypeOK ==
    /\ job \in [Task -> Jobs]
    /\ phase \in [Task -> {"pending", "locking", "running", "dropping", "ended"}]
    /\ got \in [Task -> SUBSET AllNames]
    /\ asleep \in [Task -> BOOLEAN] /\ flag \in [Task -> BOOLEAN]
    /\ stage \in [Task -> {"none", "start", "digest", "find", "update", "install", "client",
                           "term", "wait", "send", "notify", "exited"}]
    /\ result \in [Task -> {"none", "ok", "error"}]
    /\ outcome \in [Task -> {"none", "ok", "error"}]
    /\ child \in [Task -> {"none", "up", "good", "bad"}]
    /\ helper \in [Task -> BOOLEAN] /\ asked \in [Task -> BOOLEAN]

\* Two tasks hold a name only if both share it.
Leased ==
    \A t, u \in Task : t # u => \A r \in got[t] \cap got[u] : Compatible(t, r, u)

\* A task that runs, or whose worker is not joined yet, has all its names, and
\* one that has not begun or has ended has none.
Held ==
    \A t \in Task :
       /\ phase[t] \in {"running", "dropping"} => got[t] = Names(job[t])
       /\ phase[t] \in {"pending", "ended"} => got[t] = {}

\* Processes and workers belong to tasks that run: a plain process goes with
\* its descendants when its task is dropped, the client of a primitive is up
\* only while its worker looks after it.
Attended ==
    \A t \in Task :
       IF Native(t)
       THEN /\ stage[t] \notin {"none", "exited"} => phase[t] \in {"running", "dropping"}
            /\ phase[t] \in {"pending", "locking"} => stage[t] = "none"
            /\ child[t] = "up" => stage[t] \in {"update", "install", "client", "term", "wait"}
       ELSE /\ stage[t] = "none"
            /\ phase[t] # "running" => child[t] = "none" /\ ~helper[t]

HostInv == HostTypeOK /\ Leased /\ Held /\ Attended /\ WakesAreKept

LEMMA HostStart == HostInit => HostInv
<1> SUFFICES ASSUME HostInit PROVE HostInv
  OBVIOUS
<1>1. HostTypeOK
  BY DEF HostInit, HostTypeOK
<1>2. Leased /\ Held /\ Attended /\ WakesAreKept
  BY DEF HostInit, Leased, Held, Attended, WakesAreKept
<1>3. QED
  BY <1>1, <1>2 DEF HostInv

LEMMA HostSafe == HostInv => HostIsShared
<1> SUFFICES ASSUME HostInv PROVE HostIsShared
  OBVIOUS
<1> USE DEF HostInv
<1>1. ASSUME NEW t \in Task, Alive(t) PROVE got[t] = Names(job[t])
  <2>1. phase[t] \in {"running", "dropping"}
    BY <1>1 DEF HostTypeOK, Attended, Alive
  <2>2. QED
    BY <2>1 DEF Held
<1>2. PrefixIsStable
  <2> SUFFICES ASSUME NEW t \in Task, NEW u \in Task, t # u, job[t].kind = "install", Alive(t),
                      Uses(job[u], job[t].prefix), Alive(u)
               PROVE  FALSE
    BY DEF PrefixIsStable
  <2>1. job[t].prefix \in got[t] \cap got[u]
    BY <1>1 DEF Uses, Names, Exclusive
  <2>2. job[t].prefix \in Shared(job[t])
    BY <2>1 DEF Leased, Compatible
  <2>3. QED
    BY <2>2 DEF Shared, Exclusive
<1>3. NoneOutlives
  BY DEF NoneOutlives, HostTypeOK, Held, Attended, Alive
<1>4. QED
  BY <1>2, <1>3 DEF HostIsShared

LEMMA EpilogueOrder == After("send") = "notify" /\ After("notify") = "exited"
  BY DEF After, Epilogue

-----------------------------------------------------------------------------
(* The leases. *)

\* What an engine holds changes only by names that no other task has, and by
\* giving all of them back.
LEMMA LocksExclude ==
    ASSUME HostInv, NEW t \in Task, job' = job,
           \/ \E r \in Names(job[t]) : CanLock(t, r) /\ got' = [got EXCEPT ![t] = @ \cup {r}]
           \/ got' = [got EXCEPT ![t] = {}]
           \/ got' = got
    PROVE  Leased' /\ got' \in [Task -> SUBSET AllNames]
<1> USE DEF HostInv
<1>1. CASE \E r \in Names(job[t]) : CanLock(t, r) /\ got' = [got EXCEPT ![t] = @ \cup {r}]
  <2> PICK r \in Names(job[t]) : CanLock(t, r) /\ got' = [got EXCEPT ![t] = @ \cup {r}]
    BY <1>1
  <2>1. r \in AllNames
    BY DEF HostTypeOK, AllNames
  <2>2. got' \in [Task -> SUBSET AllNames]
    BY <2>1 DEF HostTypeOK
  <2>3. ASSUME NEW u \in Task, NEW v \in Task, u # v, NEW q \in got'[u] \cap got'[v]
        PROVE  Compatible(u, q, v)'
    <3>1. Compatible(u, q, v)' = Compatible(u, q, v)
      BY DEF Compatible, Shared, Exclusive
    <3>2. CASE q \in got[u] \cap got[v]
      BY <2>3, <3>1, <3>2 DEF Leased
    <3>3. CASE q = r /\ u = t
      BY <2>3, <3>1, <3>3 DEF HostTypeOK, CanLock
    <3>4. CASE q = r /\ v = t
      BY <2>3, <3>1, <3>4 DEF HostTypeOK, CanLock, Compatible
    <3>5. QED
      BY <2>3, <3>2, <3>3, <3>4 DEF HostTypeOK
  <2>4. QED
    BY <2>2, <2>3 DEF Leased
<1>2. CASE got' = [got EXCEPT ![t] = {}] \/ got' = got
  BY <1>2 DEF HostTypeOK, Leased, Compatible, Shared, Exclusive
<1>3. QED
  BY <1>1, <1>2

LEMMA AttemptKeeps == ASSUME HostInv, NEW t \in Task, Attempt(t) PROVE HostInv'
<1> USE DEF HostInv, Attempt, LeasesFrame
<1>1. Leased' /\ got' \in [Task -> SUBSET AllNames]
  BY LocksExclude
<1>2. HostTypeOK'
  BY <1>1 DEF HostTypeOK
<1>3. Held'
  BY DEF HostTypeOK, Held, Names, Exclusive, Shared
<1>4. Attended'
  BY DEF HostTypeOK, Attended, Native
<1>5. WakesAreKept'
  BY DEF HostTypeOK, Attended, WakesAreKept, Native
<1>6. QED
  BY <1>1, <1>2, <1>3, <1>4, <1>5

LEMMA LockOneKeeps == ASSUME HostInv, NEW t \in Task, LockOne(t) PROVE HostInv'
<1> USE DEF HostInv, LockOne, LeasesFrame
<1>1. Leased' /\ got' \in [Task -> SUBSET AllNames]
  BY LocksExclude
<1>2. HostTypeOK'
  BY <1>1 DEF HostTypeOK
<1>3. Held'
  BY DEF HostTypeOK, Held, Names, Exclusive, Shared
<1>4. Attended'
  BY DEF HostTypeOK, Attended, Native
<1>5. WakesAreKept'
  BY DEF HostTypeOK, Attended, WakesAreKept, Native
<1>6. QED
  BY <1>1, <1>2, <1>3, <1>4, <1>5

LEMMA LockBusyKeeps == ASSUME HostInv, NEW t \in Task, LockBusy(t) PROVE HostInv'
<1> USE DEF HostInv, LockBusy, LeasesFrame
<1>1. Leased' /\ got' \in [Task -> SUBSET AllNames]
  BY LocksExclude
<1>2. HostTypeOK'
  BY <1>1 DEF HostTypeOK
<1>3. Held'
  BY DEF HostTypeOK, Held, Names, Exclusive, Shared
<1>4. Attended'
  BY DEF HostTypeOK, Attended, Native
<1>5. WakesAreKept'
  BY DEF HostTypeOK, Attended, WakesAreKept, Native
<1>6. QED
  BY <1>1, <1>2, <1>3, <1>4, <1>5

LEMMA LockErrorKeeps == ASSUME HostInv, NEW t \in Task, LockError(t) PROVE HostInv'
<1> USE DEF HostInv, LockError, LeasesFrame
<1>1. Leased' /\ got' \in [Task -> SUBSET AllNames]
  BY LocksExclude
<1>2. HostTypeOK'
  BY <1>1 DEF HostTypeOK
<1>3. Held'
  BY DEF HostTypeOK, Held, Names, Exclusive, Shared
<1>4. Attended'
  BY DEF HostTypeOK, Attended, Native
<1>5. WakesAreKept'
  BY DEF HostTypeOK, Attended, WakesAreKept, Native
<1>6. QED
  BY <1>1, <1>2, <1>3, <1>4, <1>5

LEMMA StartKeeps == ASSUME HostInv, NEW t \in Task, Start(t) PROVE HostInv'
<1> USE DEF HostInv, Start
<1>1. Leased' /\ got' \in [Task -> SUBSET AllNames]
  BY LocksExclude
<1>2. HostTypeOK'
  BY <1>1 DEF HostTypeOK
<1>3. Held'
  BY DEF HostTypeOK, Held, Names, Exclusive, Shared
<1>4. Attended'
  BY DEF HostTypeOK, Attended, Native
<1>5. WakesAreKept'
  BY DEF HostTypeOK, Attended, WakesAreKept, Native
<1>6. QED
  BY <1>1, <1>2, <1>3, <1>4, <1>5

LEMMA StopTaskKeeps == ASSUME HostInv, NEW t \in Task, StopTask(t) PROVE HostInv'
<1> USE DEF HostInv, StopTask, Terminated
<1>1. Leased' /\ got' \in [Task -> SUBSET AllNames]
  BY LocksExclude
<1>2. HostTypeOK'
  BY <1>1 DEF HostTypeOK
<1>3. Held'
  BY DEF HostTypeOK, Held, Names, Exclusive, Shared
<1>4. Attended'
  BY DEF HostTypeOK, Attended, Native
<1>5. WakesAreKept'
  BY DEF HostTypeOK, Attended, WakesAreKept, Native
<1>6. QED
  BY <1>1, <1>2, <1>3, <1>4, <1>5

LEMMA PollKeeps == ASSUME HostInv, NEW t \in Task, Poll(t) PROVE HostInv'
<1> USE DEF HostInv, Poll, Terminated
<1>1. Leased' /\ got' \in [Task -> SUBSET AllNames]
  BY LocksExclude
<1>2. HostTypeOK'
  BY <1>1 DEF HostTypeOK
<1>3. Held'
  BY DEF HostTypeOK, Held, Names, Exclusive, Shared
<1>4. Attended'
  BY DEF HostTypeOK, Attended, Native
<1>5. WakesAreKept'
  BY DEF HostTypeOK, Attended, WakesAreKept, Native
<1>6. QED
  BY <1>1, <1>2, <1>3, <1>4, <1>5

LEMMA SleepKeeps == ASSUME HostInv, NEW t \in Task, Sleep(t) PROVE HostInv'
<1> USE DEF HostInv, Sleep, Ready, workerVars
<1>1. Leased' /\ got' \in [Task -> SUBSET AllNames]
  BY LocksExclude
<1>2. HostTypeOK'
  BY <1>1 DEF HostTypeOK
<1>3. Held'
  BY DEF HostTypeOK, Held, Names, Exclusive, Shared
<1>4. Attended'
  BY DEF HostTypeOK, Attended, Native
<1>5. WakesAreKept'
  BY DEF HostTypeOK, Attended, WakesAreKept, Native
<1>6. QED
  BY <1>1, <1>2, <1>3, <1>4, <1>5

LEMMA WakeUpKeeps == ASSUME HostInv, NEW t \in Task, WakeUp(t) PROVE HostInv'
<1> USE DEF HostInv, WakeUp, workerVars
<1>1. Leased' /\ got' \in [Task -> SUBSET AllNames]
  BY LocksExclude
<1>2. HostTypeOK'
  BY <1>1 DEF HostTypeOK
<1>3. Held'
  BY DEF HostTypeOK, Held, Names, Exclusive, Shared
<1>4. Attended'
  BY DEF HostTypeOK, Attended, Native
<1>5. WakesAreKept'
  BY DEF HostTypeOK, Attended, WakesAreKept, Native
<1>6. QED
  BY <1>1, <1>2, <1>3, <1>4, <1>5

LEMMA ReleaseKeeps == ASSUME HostInv, NEW t \in Task, Release(t) PROVE HostInv'
<1> USE DEF HostInv, Release, LeasesFrame, Joined
<1>1. Leased' /\ got' \in [Task -> SUBSET AllNames]
  BY LocksExclude
<1>2. HostTypeOK'
  BY <1>1 DEF HostTypeOK
<1>3. Held'
  BY DEF HostTypeOK, Held, Names, Exclusive, Shared
<1>4. Attended'
  BY DEF HostTypeOK, Attended, Native
<1>5. WakesAreKept'
  BY DEF HostTypeOK, Attended, WakesAreKept, Native
<1>6. QED
  BY <1>1, <1>2, <1>3, <1>4, <1>5

-----------------------------------------------------------------------------
(* Processes, which touch neither leases nor phases. *)

LEMMA ForksKeeps == ASSUME HostInv, NEW t \in Task, Forks(t) PROVE HostInv'
<1> USE DEF HostInv, Forks, workerVars
<1>1. job' = job /\ phase' = phase /\ got' = got
  OBVIOUS
<1>2. Leased'
  BY <1>1 DEF Leased, Compatible, Shared, Exclusive
<1>3. HostTypeOK'
  BY <1>1 DEF HostTypeOK
<1>4. Held'
  BY <1>1 DEF HostTypeOK, Held, Names, Exclusive, Shared
<1>5. Attended'
  BY DEF HostTypeOK, Attended, Native
<1>6. WakesAreKept'
  BY DEF HostTypeOK, Attended, WakesAreKept, Native
<1>7. QED
  BY <1>1, <1>2, <1>3, <1>4, <1>5, <1>6

LEMMA ExitsKeeps == ASSUME HostInv, NEW t \in Task, Exits(t) PROVE HostInv'
<1> USE DEF HostInv, Exits, workerVars
<1>1. job' = job /\ phase' = phase /\ got' = got
  OBVIOUS
<1>2. Leased'
  BY <1>1 DEF Leased, Compatible, Shared, Exclusive
<1>3. HostTypeOK'
  BY <1>1 DEF HostTypeOK
<1>4. Held'
  BY <1>1 DEF HostTypeOK, Held, Names, Exclusive, Shared
<1>5. Attended'
  BY DEF HostTypeOK, Attended, Native
<1>6. WakesAreKept'
  BY DEF HostTypeOK, Attended, WakesAreKept, Native
<1>7. QED
  BY <1>1, <1>2, <1>3, <1>4, <1>5, <1>6

LEMMA HelperEndsKeeps == ASSUME HostInv, NEW t \in Task, HelperEnds(t) PROVE HostInv'
<1> USE DEF HostInv, HelperEnds, workerVars
<1>1. job' = job /\ phase' = phase /\ got' = got
  OBVIOUS
<1>2. Leased'
  BY <1>1 DEF Leased, Compatible, Shared, Exclusive
<1>3. HostTypeOK'
  BY <1>1 DEF HostTypeOK
<1>4. Held'
  BY <1>1 DEF HostTypeOK, Held, Names, Exclusive, Shared
<1>5. Attended'
  BY DEF HostTypeOK, Attended, Native
<1>6. WakesAreKept'
  BY DEF HostTypeOK, Attended, WakesAreKept, Native
<1>7. QED
  BY <1>1, <1>2, <1>3, <1>4, <1>5, <1>6

-----------------------------------------------------------------------------
(* The worker of a primitive. *)

LEMMA ExecuteKeeps == ASSUME HostInv, NEW t \in Task, Execute(t) PROVE HostInv'
<1> USE DEF HostInv, Execute, EngineFrame
<1>1. job' = job /\ phase' = phase /\ got' = got
  OBVIOUS
<1>2. Leased'
  BY <1>1 DEF Leased, Compatible, Shared, Exclusive
<1>3. HostTypeOK'
  BY <1>1 DEF HostTypeOK, Ends, Epilogue
<1>4. Held'
  BY <1>1 DEF HostTypeOK, Held, Names, Exclusive, Shared
<1>5. Attended'
  BY DEF HostTypeOK, Attended, Native, Ends, Epilogue
<1>6. WakesAreKept'
  BY DEF HostTypeOK, Attended, WakesAreKept, Native, Ends, Epilogue
<1>7. QED
  BY <1>1, <1>2, <1>3, <1>4, <1>5, <1>6

LEMMA DigestKeeps == ASSUME HostInv, NEW t \in Task, Digest(t) PROVE HostInv'
<1> USE DEF HostInv, Digest, EngineFrame
<1>1. job' = job /\ phase' = phase /\ got' = got
  OBVIOUS
<1>2. Leased'
  BY <1>1 DEF Leased, Compatible, Shared, Exclusive
<1>3. HostTypeOK'
  BY <1>1 DEF HostTypeOK, Ends, Epilogue
<1>4. Held'
  BY <1>1 DEF HostTypeOK, Held, Names, Exclusive, Shared
<1>5. Attended'
  BY DEF HostTypeOK, Attended, Native, Ends, Epilogue
<1>6. WakesAreKept'
  BY DEF HostTypeOK, Attended, WakesAreKept, Native, Ends, Epilogue
<1>7. QED
  BY <1>1, <1>2, <1>3, <1>4, <1>5, <1>6

LEMMA FindKeeps == ASSUME HostInv, NEW t \in Task, Find(t) PROVE HostInv'
<1> USE DEF HostInv, Find, EngineFrame, Spawns
<1>1. job' = job /\ phase' = phase /\ got' = got
  OBVIOUS
<1>2. Leased'
  BY <1>1 DEF Leased, Compatible, Shared, Exclusive
<1>3. HostTypeOK'
  BY <1>1 DEF HostTypeOK, Ends, Epilogue
<1>4. Held'
  BY <1>1 DEF HostTypeOK, Held, Names, Exclusive, Shared
<1>5. Attended'
  BY DEF HostTypeOK, Attended, Native, Ends, Epilogue
<1>6. WakesAreKept'
  BY DEF HostTypeOK, Attended, WakesAreKept, Native, Ends, Epilogue
<1>7. QED
  BY <1>1, <1>2, <1>3, <1>4, <1>5, <1>6

LEMMA RunPollKeeps == ASSUME HostInv, NEW t \in Task, RunPoll(t) PROVE HostInv'
<1> USE DEF HostInv, RunPoll, EngineFrame, Spawns, Running
<1>1. job' = job /\ phase' = phase /\ got' = got
  OBVIOUS
<1>2. Leased'
  BY <1>1 DEF Leased, Compatible, Shared, Exclusive
<1>3. HostTypeOK'
  BY <1>1 DEF HostTypeOK, Ends, Epilogue
<1>4. Held'
  BY <1>1 DEF HostTypeOK, Held, Names, Exclusive, Shared
<1>5. Attended'
  BY DEF HostTypeOK, Attended, Native, Ends, Epilogue
<1>6. WakesAreKept'
  BY DEF HostTypeOK, Attended, WakesAreKept, Native, Ends, Epilogue
<1>7. QED
  BY <1>1, <1>2, <1>3, <1>4, <1>5, <1>6

LEMMA TermKeeps == ASSUME HostInv, NEW t \in Task, Term(t) PROVE HostInv'
<1> USE DEF HostInv, Term, EngineFrame, Running
<1>1. job' = job /\ phase' = phase /\ got' = got
  OBVIOUS
<1>2. Leased'
  BY <1>1 DEF Leased, Compatible, Shared, Exclusive
<1>3. HostTypeOK'
  BY <1>1 DEF HostTypeOK
<1>4. Held'
  BY <1>1 DEF HostTypeOK, Held, Names, Exclusive, Shared
<1>5. Attended'
  BY DEF HostTypeOK, Attended, Native
<1>6. WakesAreKept'
  BY DEF HostTypeOK, Attended, WakesAreKept, Native
<1>7. QED
  BY <1>1, <1>2, <1>3, <1>4, <1>5, <1>6

LEMMA KillKeeps == ASSUME HostInv, NEW t \in Task, Kill(t) PROVE HostInv'
<1> USE DEF HostInv, Kill, EngineFrame
<1>1. job' = job /\ phase' = phase /\ got' = got
  OBVIOUS
<1>2. Leased'
  BY <1>1 DEF Leased, Compatible, Shared, Exclusive
<1>3. HostTypeOK'
  BY <1>1 DEF HostTypeOK, Ends, Epilogue
<1>4. Held'
  BY <1>1 DEF HostTypeOK, Held, Names, Exclusive, Shared
<1>5. Attended'
  BY DEF HostTypeOK, Attended, Native, Ends, Epilogue
<1>6. WakesAreKept'
  BY DEF HostTypeOK, Attended, WakesAreKept, Native, Ends, Epilogue
<1>7. QED
  BY <1>1, <1>2, <1>3, <1>4, <1>5, <1>6

LEMMA SendKeeps == ASSUME HostInv, NEW t \in Task, Send(t) PROVE HostInv'
<1> USE DEF HostInv, Send, EngineFrame
<1>1. job' = job /\ phase' = phase /\ got' = got
  OBVIOUS
<1>2. Leased'
  BY <1>1 DEF Leased, Compatible, Shared, Exclusive
<1>3. HostTypeOK'
  BY <1>1, EpilogueOrder DEF HostTypeOK
<1>4. Held'
  BY <1>1 DEF HostTypeOK, Held, Names, Exclusive, Shared
<1>5. Attended'
  BY EpilogueOrder DEF HostTypeOK, Attended, Native
<1>6. WakesAreKept'
  BY EpilogueOrder DEF HostTypeOK, Attended, WakesAreKept, Native
<1>7. QED
  BY <1>1, <1>2, <1>3, <1>4, <1>5, <1>6

LEMMA NotifyKeeps == ASSUME HostInv, NEW t \in Task, Notify(t) PROVE HostInv'
<1> USE DEF HostInv, Notify, EngineFrame
<1>1. job' = job /\ phase' = phase /\ got' = got
  OBVIOUS
<1>2. Leased'
  BY <1>1 DEF Leased, Compatible, Shared, Exclusive
<1>3. HostTypeOK'
  BY <1>1, EpilogueOrder DEF HostTypeOK
<1>4. Held'
  BY <1>1 DEF HostTypeOK, Held, Names, Exclusive, Shared
<1>5. Attended'
  BY EpilogueOrder DEF HostTypeOK, Attended, Native
<1>6. WakesAreKept'
  BY EpilogueOrder DEF HostTypeOK, Attended, WakesAreKept, Native
<1>7. QED
  BY <1>1, <1>2, <1>3, <1>4, <1>5, <1>6

LEMMA HostStep == HostInv /\ [HostNext]_hostVars => HostInv'
<1> SUFFICES ASSUME HostInv, [HostNext]_hostVars PROVE HostInv'
  OBVIOUS
<1>1. ASSUME NEW t \in Task, Engine(t) PROVE HostInv'
  BY <1>1, AttemptKeeps, LockOneKeeps, LockBusyKeeps, LockErrorKeeps, StartKeeps, PollKeeps,
     SleepKeeps, WakeUpKeeps, ReleaseKeeps DEF Engine
<1>2. ASSUME NEW t \in Task, Work(t) PROVE HostInv'
  BY <1>2, ExecuteKeeps, DigestKeeps, FindKeeps, RunPollKeeps, TermKeeps, KillKeeps, SendKeeps,
     NotifyKeeps DEF Work
<1>3. ASSUME NEW t \in Task, StopTask(t) \/ Forks(t) \/ Exits(t) \/ HelperEnds(t) PROVE HostInv'
  BY <1>3, StopTaskKeeps, ForksKeeps, ExitsKeeps, HelperEndsKeeps
<1>4. CASE UNCHANGED hostVars
  BY <1>4 DEF hostVars, HostInv, HostTypeOK, Leased, Held, Attended, WakesAreKept, Compatible,
              Native, Names, Exclusive, Shared
<1>5. QED
  BY <1>1, <1>2, <1>3, <1>4 DEF HostNext

\* While a package install has a process no other task that uses its prefix has
\* one, no process outlives its task and its leases, and no wake-up of a worker
\* is lost, for any number of tasks with any jobs.
THEOREM HostIsSafe == HostSpec => []HostIsShared
  BY HostStart, HostStep, HostSafe, PTL DEF HostSpec

\* So it is in the composition of MCLive.
THEOREM HostStaysShared == PartsSpec => []HostHolds
<1> DEFINE Holds == part = "host" => HostInv
<1>1. PartsInit => Holds
  BY HostStart DEF PartsInit
<1>2. Holds /\ [PartsNext]_partsVars => Holds'
  BY HostStep DEF PartsNext, partsVars
<1>3. Holds => HostHolds
  BY HostSafe DEF HostHolds
<1>4. QED
  BY <1>1, <1>2, <1>3, PTL DEF PartsSpec

-----------------------------------------------------------------------------
(* The inductive invariant of WorkspaceCopy. *)

Version == {Absent} \cup Nat
Snapshot == [SourceFile -> Version]
Activity == SourceFile \cup {"ready", "ended", "error"}

CopyTypeOK ==
    /\ source \in Snapshot /\ staging \in Snapshot /\ digests \in Snapshot /\ before \in Snapshot
    /\ copyPhase \in {"inventory", "hash", "copy", "publish", "published", "failed"}
    /\ sweep \in {"before", "staging", "source"}
    /\ files \in Seq(SourceFile) /\ next \in Nat /\ next >= 1
    /\ hashing \in [HashThread -> Activity]
    /\ gaveUp \in BOOLEAN

\* Every state of the source is remembered, and versions count them.
Remembered ==
    /\ IsFiniteSet(moments) /\ source \in moments /\ moments \subseteq Snapshot
    /\ \A m \in moments, f \in SourceFile : m[f] < Cardinality(moments)

\* The files of a sweep are all hashed in the end, unless a thread fails: what
\* has been taken is hashed, or at a thread, or a thread has failed.
Swept ==
    copyPhase = "hash" =>
       /\ gaveUp => \E t \in HashThread : hashing[t] = "error"
       /\ \A t \in HashThread :
             /\ hashing[t] = "ended" => gaveUp \/ next > Len(files)
             /\ hashing[t] \in SourceFile => hashing[t] \in ToSet(files)
       /\ \A i \in 1..Len(files) :
             i < next => \/ digests[files[i]] # Absent
                         \/ \E t \in HashThread : hashing[t] \in {files[i], "error"}
       /\ \A f \in SourceFile : f \notin ToSet(files) => digests[f] = Absent

\* What was digested or copied are versions that existed before.
Aged(s) == \A f \in SourceFile : s[f] < Cardinality(moments)

\* The copy has the digests of the first snapshot once it has been looked at.
SweptCopy ==
    sweep = "staging" /\ copyPhase = "hash" =>
       /\ ToSet(files) = {f \in SourceFile : staging[f] # Absent}
       /\ \A f \in SourceFile : digests[f] # Absent => digests[f] = staging[f]
Compared == sweep = "source" => staging = before
Copying == copyPhase = "copy" => sweep = "before"

\* A state m of the source, with the number n of states until then, after which
\* no older version came back: m is the state when the last sweep began.
Settled(m, n) ==
    /\ \A f \in SourceFile : staging[f] < n
    /\ \A f \in SourceFile : source[f] # Absent /\ source[f] < n => source[f] = m[f]
    /\ ToSet(files) = {f \in SourceFile : m[f] # Absent}
    /\ \A f \in SourceFile : digests[f] # Absent /\ digests[f] < n => digests[f] = m[f]
SweptSource ==
    sweep = "source" /\ copyPhase = "hash" =>
       \E m \in moments, n \in Nat : n <= Cardinality(moments) /\ Settled(m, n)

\* Only a copy that was compared goes on to be published.
Published == copyPhase \in {"publish", "published"} => staging \in moments

CopyInv ==
    /\ CopyTypeOK /\ Remembered /\ Swept
    /\ Aged(staging) /\ Aged(before) /\ Aged(digests)
    /\ SweptCopy /\ Compared /\ SweptSource /\ Published /\ Copying

\* An inventory lists every file once.
LEMMA Listing ==
    ASSUME NEW S, IsFiniteSet(S)
    PROVE  SetToSeq(S) \in Seq(S) /\ ToSet(SetToSeq(S)) = S
<1> DEFINE n == Cardinality(S)
<1>1. n \in Nat /\ ExistsBijection(1..n, S)
  BY FS_CardinalityType
<1>2. PICK b \in Bijection(1..n, S) : TRUE
  BY <1>1 DEF ExistsBijection
<1>3. b \in [1..n -> S] /\ IsInjective(b)
  BY <1>2 DEF Bijection, Injection, IsInjective
<1>4. SetToSeq(S) \in [1..n -> S] /\ IsInjective(SetToSeq(S))
  BY <1>3 DEF SetToSeq
<1>5. SetToSeq(S) \in Injection(1..n, S)
  BY <1>4 DEF Injection
<1>6. Cardinality(1..n) = n
  BY <1>1, FS_Interval
<1>7. SetToSeq(S) \in Surjection(1..n, S)
  BY <1>5, <1>6, FS_Injection
<1>8. QED
  BY <1>1, <1>4, <1>7 DEF Surjection, ToSet

LEMMA CopyStart == CopyInit => CopyInv
<1> SUFFICES ASSUME CopyInit PROVE CopyInv
  OBVIOUS
<1>0. source \in Snapshot /\ Empty \in Snapshot /\ \A f \in SourceFile : source[f] < 1 /\ Empty[f] < 1
  BY DEF CopyInit, Snapshot, Version, Empty, Absent
<1>1. CopyTypeOK
  <2>1. hashing \in [HashThread -> Activity]
    BY DEF CopyInit, CopyReady, Activity
  <2>2. gaveUp \in BOOLEAN
    BY Zenon DEF CopyInit
  <2>3. QED
    BY <1>0, <2>1, <2>2 DEF CopyInit, CopyTypeOK
<1>2. IsFiniteSet(moments) /\ Cardinality(moments) = 1
  BY FS_Singleton DEF CopyInit
<1>3. Remembered
  BY <1>0, <1>2 DEF CopyInit, Remembered
<1>4. Aged(staging) /\ Aged(before) /\ Aged(digests)
  BY <1>0, <1>2 DEF CopyInit, Aged
<1>5. Swept /\ SweptCopy /\ Compared /\ SweptSource /\ Published /\ Copying
  BY DEF CopyInit, Swept, SweptCopy, Compared, SweptSource, Published, Copying
<1>6. QED
  BY <1>1, <1>3, <1>4, <1>5 DEF CopyInv

LEMMA AbandonKeeps == ASSUME CopyInv, Abandon PROVE CopyInv'
<1> USE DEF CopyInv, Abandon, Frame, snapshot
<1>1. CopyTypeOK'
  BY DEF CopyTypeOK
<1>2. Remembered' /\ Aged(staging)' /\ Aged(before)' /\ Aged(digests)'
  BY DEF Remembered, Aged
<1>3. Swept' /\ SweptCopy' /\ Compared' /\ SweptSource' /\ Published' /\ Copying'
  BY DEF Swept, SweptCopy, Compared, SweptSource, Published, Copying
<1>4. QED
  BY <1>1, <1>2, <1>3

LEMMA InventoryKeeps == ASSUME CopyInv, Inventory PROVE CopyInv'
<1>1. CASE stop
  BY <1>1, AbandonKeeps DEF Inventory
<1>2. CASE ~stop
  <2> DEFINE listed == {f \in SourceFile : Now(f) # Absent}
  <2> USE <1>2 DEF CopyInv, Inventory, Frame
  <2>1. files' \in Seq(SourceFile) /\ ToSet(files') = listed
    <3>1. IsFiniteSet(listed)
      BY CopyAssumption, FS_Subset
    <3>2. SetToSeq(listed) \in Seq(listed) /\ ToSet(SetToSeq(listed)) = listed
      BY <3>1, Listing
    <3>3. Seq(listed) \subseteq Seq(SourceFile)
      OBVIOUS
    <3>4. QED
      BY <3>2, <3>3
  <2>2. CopyTypeOK'
    <3>1. Empty \in Snapshot
      BY DEF Empty, Snapshot, Version
    <3>2. CopyReady \in [HashThread -> Activity]
      BY DEF CopyReady, Activity
    <3>3. gaveUp' \in BOOLEAN
      BY Zenon
    <3>4. QED
      BY <2>1, <3>1, <3>2, <3>3 DEF CopyTypeOK
  <2>3. Remembered' /\ Aged(staging)' /\ Aged(before)'
    BY DEF Remembered, Aged
  <2>4. Aged(digests)'
    BY FS_CardinalityType DEF Aged, Empty, Absent, Remembered
  <2>5. Swept'
    BY <2>1, CopyAssumption DEF Swept, CopyReady, Empty, CopyTypeOK
  <2>6. SweptCopy'
    BY <2>1 DEF SweptCopy, Empty, Now
  <2>7. Compared' /\ Published' /\ Copying'
    BY DEF Compared, Published, Copying
  <2>8. SweptSource'
    <3> SUFFICES ASSUME sweep = "source" PROVE Settled(source, Cardinality(moments))'
      BY FS_CardinalityType DEF SweptSource, Remembered
    <3>1. listed = {f \in SourceFile : source[f] # Absent}
      BY DEF Now
    <3>2. QED
      BY <2>1, <3>1 DEF Settled, Aged, Empty
  <2>9. QED
    BY <2>2, <2>3, <2>4, <2>5, <2>6, <2>7, <2>8
<1>3. QED
  BY <1>1, <1>2

LEMMA TakeKeeps == ASSUME CopyInv, NEW t \in HashThread, Take(t) PROVE CopyInv'
<1> USE DEF CopyInv, Take, Frame
<1>1. CopyTypeOK'
  <2>1. /\ {"ready", "ended", "error"} \subseteq Activity
        /\ next \in 1..Len(files) => files[next] \in Activity
    BY DEF CopyTypeOK, Activity
  <2>2. hashing' \in [HashThread -> Activity]
    BY <2>1 DEF CopyTypeOK
  <2>3. next' \in Nat /\ next' >= 1
    BY DEF CopyTypeOK
  <2>4. gaveUp' \in BOOLEAN
    BY Zenon DEF CopyTypeOK
  <2>5. QED
    BY <2>2, <2>3, <2>4 DEF CopyTypeOK
<1>2. Remembered' /\ Aged(staging)' /\ Aged(before)' /\ Aged(digests)'
  BY DEF Remembered, Aged
<1>3. SweptCopy' /\ Compared' /\ SweptSource' /\ Published' /\ Copying'
  BY DEF SweptCopy, Compared, SweptSource, Settled, Published, Copying
<1>4. Swept'
  <2> USE CopyAssumption
  <2>1. CASE gaveUp
    BY <2>1 DEF CopyTypeOK, Swept
  <2>2. CASE ~gaveUp /\ stop
    BY <2>2 DEF CopyTypeOK, Swept
  <2>3. CASE ~gaveUp /\ ~stop /\ next > Len(files)
    BY <2>3 DEF CopyTypeOK, Swept
  <2>4. CASE ~gaveUp /\ ~stop /\ next <= Len(files)
    <3>1. /\ files' = files /\ gaveUp' = gaveUp /\ digests' = digests /\ next' = next + 1
          /\ hashing' = [hashing EXCEPT ![t] = files[next]] /\ files[next] \in SourceFile
          /\ files[next] \in ToSet(files)
      BY <2>4 DEF CopyTypeOK, ToSet
    <3>2. QED
      BY <2>4, <3>1 DEF CopyTypeOK, Swept
  <2>5. QED
    BY <2>1, <2>2, <2>3, <2>4 DEF CopyTypeOK
<1>5. QED
  BY <1>1, <1>2, <1>3, <1>4

LEMMA HashFileKeeps == ASSUME CopyInv, NEW t \in HashThread, HashFile(t) PROVE CopyInv'
<1> USE CopyAssumption DEF CopyInv, HashFile, Frame
<1> DEFINE f == hashing[t]
<1>0. Now(f) \in Version /\ Now(f) < Cardinality(moments)
  BY DEF Now, CopyTypeOK, Snapshot, Remembered, Aged
<1>1. CopyTypeOK'
  <2>1. {"ready", "ended", "error"} \subseteq Activity
    BY DEF Activity
  <2>2. hashing' \in [HashThread -> Activity]
    BY <2>1 DEF CopyTypeOK
  <2>3. digests' \in Snapshot
    BY <1>0 DEF CopyTypeOK, Snapshot
  <2>4. QED
    BY <2>2, <2>3 DEF CopyTypeOK
<1>2. Remembered' /\ Aged(staging)' /\ Aged(before)'
  BY DEF Remembered, Aged
<1>3. Aged(digests)'
  BY <1>0 DEF Aged, CopyTypeOK, Snapshot
<1>4. Compared' /\ Published' /\ Copying'
  BY DEF Compared, Published, Copying
<1>5. SweptCopy'
  BY DEF SweptCopy, CopyTypeOK, Snapshot, Now
<1>6. SweptSource'
  <2> SUFFICES ASSUME sweep = "source"
               PROVE  \E m \in moments, n \in Nat : n <= Cardinality(moments) /\ Settled(m, n)'
    BY DEF SweptSource
  <2>1. PICK m \in moments, n \in Nat : n <= Cardinality(moments) /\ Settled(m, n)
    BY DEF SweptSource
  <2>2. ASSUME NEW g \in SourceFile, digests'[g] # Absent, digests'[g] < n
        PROVE  digests'[g] = m[g]
    BY <2>1, <2>2 DEF Settled, CopyTypeOK, Snapshot, Now
  <2>3. Settled(m, n)'
    BY <2>1, <2>2 DEF Settled
  <2>4. QED
    BY <2>1, <2>3
<1>7. Swept'
  <2>1. CASE stop \/ Now(f) = Absent
    BY <2>1 DEF CopyTypeOK, Swept
  <2>2. CASE ~(stop \/ Now(f) = Absent)
    <3>1. /\ files' = files /\ next' = next /\ gaveUp' = gaveUp
          /\ hashing' = [hashing EXCEPT ![t] = "ready"] /\ digests' = [digests EXCEPT ![f] = Now(f)]
          /\ f \in SourceFile /\ Now(f) # Absent /\ f \in ToSet(files)
      BY <2>2 DEF Swept
    <3> HIDE DEF f
    <3>2. QED
      BY <2>2, <3>1 DEF CopyTypeOK, Swept, Snapshot
  <2>3. QED
    BY <2>1, <2>2
<1>8. QED
  BY <1>1, <1>2, <1>3, <1>4, <1>5, <1>6, <1>7

\* A sweep whose threads all came to their end without an error has digested
\* every file of its inventory and no other.
LEMMA SweepWhole ==
    ASSUME CopyInv, Gathered, Sound, NEW f \in SourceFile
    PROVE  digests[f] # Absent <=> f \in ToSet(files)
<1> USE CopyAssumption DEF CopyInv, Gathered, Sound
<1>1. ~gaveUp /\ next > Len(files)
  BY DEF Swept
<1>2. ASSUME f \in ToSet(files) PROVE digests[f] # Absent
  <2>1. PICK i \in 1..Len(files) : f = files[i]
    BY <1>2 DEF ToSet, CopyTypeOK
  <2>2. i < next
    BY <1>1 DEF CopyTypeOK
  <2>3. QED
    BY <2>1, <2>2 DEF Swept
<1>3. QED
  BY <1>2 DEF Swept

LEMMA ConcludeKeeps == ASSUME CopyInv, Conclude PROVE CopyInv'
<1>1. CASE ~Sound \/ (sweep # "before" /\ digests # before)
  BY <1>1, AbandonKeeps DEF Conclude
<1>2. CASE Sound /\ (sweep # "before" => digests = before)
  <2>a. /\ Gathered /\ UNCHANGED <<source, stop, moments, staging, files, next, hashing, gaveUp, digests>>
        /\ sweep = "before" => copyPhase' = "copy" /\ before' = digests /\ sweep' = sweep
        /\ sweep = "staging" => copyPhase' = "inventory" /\ sweep' = "source" /\ before' = before
        /\ sweep = "source" => copyPhase' = "publish" /\ before' = before /\ sweep' = sweep
    BY <1>2, Zenon DEF Conclude, Frame, snapshot
  <2> USE <1>2, <2>a DEF CopyInv
  <2>0. Gathered /\ \A f \in SourceFile : digests[f] # Absent <=> f \in ToSet(files)
    BY SweepWhole
  <2>1. CopyTypeOK'
    BY DEF CopyTypeOK
  <2>2. Remembered' /\ Aged(staging)' /\ Aged(before)' /\ Aged(digests)'
    BY DEF Remembered, Aged, CopyTypeOK
  <2>3. Swept' /\ SweptCopy' /\ SweptSource' /\ Copying'
    BY DEF Swept, SweptCopy, SweptSource, Copying, CopyTypeOK
  <2>4. Compared'
    <3>1. CASE sweep = "staging"
      <4>1. \A f \in SourceFile : digests[f] = staging[f]
        BY <2>0, <3>1 DEF SweptCopy, Gathered
      <4>2. digests = staging
        BY <4>1 DEF CopyTypeOK, Snapshot
      <4>3. QED
        BY <3>1, <4>2 DEF Compared
    <3>2. CASE sweep # "staging"
      BY <3>2 DEF Compared, CopyTypeOK
    <3>3. QED
      BY <3>1, <3>2
  <2>5. Published'
    <3>1. CASE sweep = "source"
      <4>1. PICK m \in moments, n \in Nat : n <= Cardinality(moments) /\ Settled(m, n)
        BY <2>0, <3>1 DEF SweptSource, Gathered
      <4>2. \A f \in SourceFile : staging[f] = m[f]
        BY <2>0, <3>1, <4>1 DEF Settled, Compared
      <4>3. staging = m
        BY <4>2 DEF CopyTypeOK, Snapshot, Remembered
      <4>4. QED
        BY <4>3 DEF Published
    <3>2. CASE sweep # "source"
      BY <3>2 DEF Published, CopyTypeOK
    <3>3. QED
      BY <3>1, <3>2
  <2>6. QED
    BY <2>1, <2>2, <2>3, <2>4, <2>5
<1>3. QED
  BY <1>1, <1>2

LEMMA CopyFileKeeps == ASSUME CopyInv, CopyFile PROVE CopyInv'
<1> DEFINE f == CHOOSE f \in Left : TRUE
<1>1. CASE stop \/ source[f] = Absent
  BY <1>1, AbandonKeeps DEF CopyFile
<1>2. CASE ~(stop \/ source[f] = Absent)
  <2>1. /\ copyPhase = "copy" /\ f \in SourceFile /\ staging' = [staging EXCEPT ![f] = source[f]]
        /\ UNCHANGED <<copyPhase, sweep, before, snapshot>> /\ Frame
    BY <1>2 DEF CopyFile, Left
  <2>2. sweep = "before"
    BY <2>1 DEF CopyInv, Copying
  <2> HIDE DEF f
  <2> USE <2>1, <2>2 DEF CopyInv, Frame, snapshot
  <2>3. CopyTypeOK'
    <3>1. staging' \in Snapshot
      BY DEF CopyTypeOK, Snapshot
    <3>2. QED
      BY <3>1 DEF CopyTypeOK
  <2>4. Remembered' /\ Aged(before)' /\ Aged(digests)'
    BY DEF Remembered, Aged
  <2>5. Aged(staging)'
    BY DEF Aged, CopyTypeOK, Snapshot, Remembered
  <2>6. Swept' /\ SweptCopy' /\ Compared' /\ SweptSource' /\ Published' /\ Copying'
    BY DEF Swept, SweptCopy, Compared, SweptSource, Published, Copying
  <2>7. QED
    BY <2>3, <2>4, <2>5, <2>6
<1>3. QED
  BY <1>1, <1>2

LEMMA CopiedKeeps == ASSUME CopyInv, Copied PROVE CopyInv'
<1> USE DEF CopyInv, Copied, Frame, snapshot
<1>1. CopyTypeOK'
  BY DEF CopyTypeOK
<1>2. Remembered' /\ Aged(staging)' /\ Aged(before)' /\ Aged(digests)'
  BY DEF Remembered, Aged
<1>3. Swept' /\ SweptCopy' /\ Compared' /\ SweptSource' /\ Published' /\ Copying'
  BY DEF Swept, SweptCopy, Compared, SweptSource, Published, Copying
<1>4. QED
  BY <1>1, <1>2, <1>3

LEMMA PublishKeeps == ASSUME CopyInv, Publish PROVE CopyInv'
<1>1. CASE stop
  BY <1>1, AbandonKeeps DEF Publish
<1>2. CASE ~stop
  <2> USE <1>2 DEF CopyInv, Publish, Frame, snapshot
  <2>1. CopyTypeOK'
    BY DEF CopyTypeOK
  <2>2. Remembered' /\ Aged(staging)' /\ Aged(before)' /\ Aged(digests)'
    BY DEF Remembered, Aged
  <2>3. Swept' /\ SweptCopy' /\ Compared' /\ SweptSource' /\ Published' /\ Copying'
    BY DEF Swept, SweptCopy, Compared, SweptSource, Published, Copying
  <2>4. QED
    BY <2>1, <2>2, <2>3
<1>3. QED
  BY <1>1, <1>2

-----------------------------------------------------------------------------
(* The environment. *)

LEMMA EditSourceKeeps == ASSUME CopyInv, NEW f \in SourceFile, EditSource(f) PROVE CopyInv'
<1> DEFINE c == Cardinality(moments)
<1> USE DEF CopyInv
<1>1. /\ UNCHANGED <<staging, copyPhase, sweep, before, snapshot, stop>>
      /\ moments' = moments \cup {source'} /\ Cardinality(moments') > c
  BY DEF EditSource
<1>2. PICK v \in {c, Absent} : v # source[f] /\ source' = [source EXCEPT ![f] = v]
  BY DEF EditSource
<1>3. c \in Nat /\ IsFiniteSet(moments') /\ Cardinality(moments') = c + 1
  BY <1>1, FS_CardinalityType, FS_AddElement DEF Remembered
<1>4. source' \in Snapshot
  BY <1>2, <1>3 DEF CopyTypeOK, Snapshot, Version
<1>5. \A g \in SourceFile : source'[g] < c + 1
  <2> TAKE g \in SourceFile
  <2>1. source[g] < c
    BY DEF Remembered
  <2>2. source[g] \in Int /\ v \in Int /\ v < c + 1
    BY <1>3 DEF CopyTypeOK, Snapshot, Version, Absent
  <2>3. QED
    BY <1>2, <1>3, <2>1, <2>2 DEF CopyTypeOK, Snapshot
<1> USE <1>1 DEF snapshot
<1>6. CopyTypeOK'
  BY <1>4 DEF CopyTypeOK
<1>7. Remembered'
  <2>1. moments' \subseteq Snapshot
    BY <1>4 DEF Remembered
  <2>2. ASSUME NEW m \in moments', NEW g \in SourceFile PROVE m[g] < Cardinality(moments')
    <3>1. CASE m \in moments
      <4>1. m[g] < c /\ m[g] \in Int
        BY <3>1 DEF Remembered, Snapshot, Version, Absent
      <4>2. QED
        BY <1>3, <4>1
    <3>2. CASE m = source'
      BY <1>3, <1>5, <3>2
    <3>3. QED
      BY <2>2, <3>1, <3>2
  <2>3. QED
    BY <1>3, <2>1, <2>2 DEF Remembered
<1>8. ASSUME NEW s \in Snapshot, Aged(s) PROVE \A g \in SourceFile : s[g] < Cardinality(moments')
  <2> TAKE g \in SourceFile
  <2>1. s[g] < c /\ s[g] \in Int
    BY <1>8 DEF Aged, Snapshot, Version, Absent
  <2>2. QED
    BY <1>3, <2>1
<1>9. Aged(staging)' /\ Aged(before)' /\ Aged(digests)'
  BY <1>8 DEF Aged, CopyTypeOK
<1>10. Swept' /\ SweptCopy' /\ Compared' /\ Published' /\ Copying'
  BY DEF Swept, SweptCopy, Compared, Published, Copying
<1>11. SweptSource'
  <2> SUFFICES ASSUME sweep = "source", copyPhase = "hash"
               PROVE  \E m \in moments, n \in Nat : n <= c + 1 /\ Settled(m, n)'
    BY <1>3 DEF SweptSource
  <2>1. PICK m \in moments, n \in Nat : n <= c /\ Settled(m, n)
    BY DEF SweptSource
  <2>2. ASSUME NEW g \in SourceFile, source'[g] # Absent, source'[g] < n PROVE source'[g] = m[g]
    BY <1>2, <1>3, <2>1, <2>2 DEF Settled, CopyTypeOK, Snapshot
  <2>3. Settled(m, n)'
    BY <2>1, <2>2 DEF Settled
  <2>4. QED
    BY <1>3, <2>1, <2>3
<1>12. QED
  BY <1>6, <1>7, <1>9, <1>10, <1>11

LEMMA CopyStep == CopyInv /\ [CopyNext]_copyVars => CopyInv'
<1> SUFFICES ASSUME CopyInv, [CopyNext]_copyVars PROVE CopyInv'
  OBVIOUS
<1>1. CASE CopySteps
  BY <1>1, InventoryKeeps, ConcludeKeeps, CopyFileKeeps, CopiedKeeps, PublishKeeps DEF CopySteps
<1>2. ASSUME NEW t \in HashThread, HashSteps(t) PROVE CopyInv'
  BY <1>2, TakeKeeps, HashFileKeeps DEF HashSteps
<1>3. ASSUME NEW f \in SourceFile, EditSource(f) PROVE CopyInv'
  BY <1>3, EditSourceKeeps
<1>4. CASE StopRun \/ UNCHANGED copyVars
  <2> USE <1>4 DEF CopyInv, StopRun, copyVars, snapshot
  <2>1. CopyTypeOK' /\ Remembered' /\ Aged(staging)' /\ Aged(before)' /\ Aged(digests)'
    BY DEF CopyTypeOK, Remembered, Aged
  <2>2. Swept' /\ SweptCopy' /\ Compared' /\ SweptSource' /\ Published' /\ Copying'
    BY DEF Swept, SweptCopy, Compared, SweptSource, Settled, Published, Copying
  <2>3. QED
    BY <2>1, <2>2
<1>5. QED
  BY <1>1, <1>2, <1>3, <1>4 DEF CopyNext

LEMMA CopySafe == CopyInv => OneMoment
  BY DEF CopyInv, Published, OneMoment

\* A run works in a copy of its workspace as it was at one moment of the setup,
\* for any files, any number of threads and any edits.
THEOREM CopyIsOfOneMoment == CopySpec => []OneMoment
  BY CopyStart, CopyStep, CopySafe, PTL DEF CopySpec

\* So it is in the composition of MCLive.
THEOREM CopyStaysOfOneMoment == PartsSpec => []CopiedAtOnce
<1> DEFINE Holds == part = "copy" => CopyInv
<1>1. PartsInit => Holds
  BY CopyStart DEF PartsInit
<1>2. Holds /\ [PartsNext]_partsVars => Holds'
  BY CopyStep DEF PartsNext, partsVars
<1>3. Holds => CopiedAtOnce
  BY CopySafe DEF CopiedAtOnce
<1>4. QED
  BY <1>1, <1>2, <1>3, PTL DEF PartsSpec
=============================================================================
