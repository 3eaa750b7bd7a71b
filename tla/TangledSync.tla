---------------------------- MODULE TangledSync ----------------------------
(***************************************************************************)
(* The background index of an account's Tangled repositories:              *)
(* src/tangled.rs, its tables in src/db.rs, and the sign-in of src/auth.rs *)
(* and src/account.rs that schedules it.  A sign-in remembers the account, *)
(* claims its row of tangled_sync and spawns a worker of its own process   *)
(* group; the worker reads the remembered account back, lists the public   *)
(* repositories and replaces the stored ones.  Nobody waits for a worker,  *)
(* and a worker that is killed leaves its claim behind, so claims expire.  *)
(* Times are ages in ticks; a time stored as 0 is an age beyond any limit. *)
(***************************************************************************)
EXTENDS Naturals, FiniteSets

CONSTANTS Account, Client, Worker, Nobody,
          WorkerLimit,  \* ticks a worker needs to start, and the 120 s of fetch
          ClaimLimit,   \* the 300 s after which a claim expires
          FreshLimit,   \* the 900 s an index is fresh
          MaxSyncFaults \* bound: spawns, fetches and statements that fail, workers killed

\* A claim outlives both: the start of its worker and the fetch.
ASSUME SyncLimits ==
    /\ {WorkerLimit, ClaimLimit, FreshLimit, MaxSyncFaults} \subseteq Nat
    /\ 2 * WorkerLimit <= ClaimLimit /\ ClaimLimit <= FreshLimit

ASSUME NobodyIsNobody ==
    /\ Nobody \notin [started : Nat, updated : Nat]
    /\ Nobody \notin [account : Account, step : {"start", "fetch", "store"}, age : Nat]

Long == FreshLimit + 1

VARIABLES
    remembered, \* the account file
    signing,    \* what a client has remembered and not yet scheduled
    claim,      \* tangled_sync: the ages of started_at and updated_at, or Nobody
    index,      \* tangled_repositories: the age of the listing they come from, or Nobody
    worker,     \* account, step and age of a worker, or Nobody
    syncFaults

syncVars == <<remembered, signing, claim, index, worker, syncFaults>>

SyncFault == syncFaults < MaxSyncFaults /\ syncFaults' = syncFaults + 1
Works(w, a) == worker[w] # Nobody /\ worker[w].account = a
Older(age) == IF age < Long THEN age + 1 ELSE Long

SyncInit ==
    /\ remembered = Nobody /\ signing = [c \in Client |-> Nobody]
    /\ claim = [a \in Account |-> Nobody] /\ index = [a \in Account |-> Nobody]
    /\ worker = [w \in Worker |-> Nobody] /\ syncFaults = 0

-----------------------------------------------------------------------------
\* authenticate: the identity is saved by renaming a temporary file over it.
SignIn(c, a) ==
    /\ signing[c] = Nobody /\ signing' = [signing EXCEPT ![c] = a]
    /\ remembered' = a
    /\ UNCHANGED <<claim, index, worker, syncFaults>>

\* Mutants: the age of the claim is not looked at; a claim is made only once.
AcquiresFresh(a) == claim[a] # Nobody => claim[a].updated > FreshLimit
AcquiresOnce(a) == claim[a] = Nobody
\* acquire_tangled_sync: the row is inserted, or an expired one is taken over.
Acquires(a) ==
    claim[a] # Nobody => claim[a].started > ClaimLimit /\ claim[a].updated > FreshLimit

Claimed(a) == [started |-> 0, updated |-> IF claim[a] = Nobody THEN Long ELSE claim[a].updated]

\* fail_tangled_sync
Release(a) == claim' = [claim EXCEPT ![a].started = Long]

\* schedule: claim, then spawn; a spawn that fails gives the claim back.
Schedule(c) ==
    LET a == signing[c] IN
    /\ a # Nobody /\ signing' = [signing EXCEPT ![c] = Nobody]
    /\ \/ ~Acquires(a) /\ UNCHANGED <<claim, worker, syncFaults>>
       \/ /\ Acquires(a) /\ claim' = [claim EXCEPT ![a] = Claimed(a)]
          /\ \E w \in Worker :
                worker[w] = Nobody /\ worker' = [worker EXCEPT ![w] = [account |-> a, step |-> "start", age |-> 0]]
          /\ UNCHANGED syncFaults
       \/ /\ Acquires(a) /\ SyncFault
          /\ claim' = [claim EXCEPT ![a] = [Claimed(a) EXCEPT !.started = Long]]
          /\ UNCHANGED worker
    /\ UNCHANGED <<remembered, index>>

-----------------------------------------------------------------------------
(* index, in the worker's process. *)

WorkerEnds(w) == worker' = [worker EXCEPT ![w] = Nobody]

\* The remembered account is read back, and has to be the claimed one.
ReadAccount(w) ==
    /\ worker[w] # Nobody /\ worker[w].step = "start"
    /\ IF remembered = worker[w].account
       THEN worker' = [worker EXCEPT ![w].step = "fetch", ![w].age = 0] /\ UNCHANGED claim
       ELSE WorkerEnds(w) /\ Release(worker[w].account)
    /\ UNCHANGED <<remembered, signing, index, syncFaults>>

\* fetch follows the cursors of the listing to the end; an answer that is
\* malformed, a cursor that comes back and the timeout are failures.
FetchPages(w) ==
    /\ worker[w] # Nobody /\ worker[w].step = "fetch"
    /\ \/ worker' = [worker EXCEPT ![w].step = "store"] /\ UNCHANGED <<claim, syncFaults>>
       \/ SyncFault /\ WorkerEnds(w) /\ Release(worker[w].account)
    /\ UNCHANGED <<remembered, signing, index>>

\* replace_tangled_repositories: rows and times change in one transaction.
StoreIndex(w) ==
    LET a == worker[w].account IN
    /\ worker[w] # Nobody /\ worker[w].step = "store" /\ WorkerEnds(w)
    /\ \/ /\ index' = [index EXCEPT ![a] = worker[w].age]
          /\ claim' = [claim EXCEPT ![a] = [started |-> Long, updated |-> 0]]
          /\ UNCHANGED syncFaults
       \/ SyncFault /\ Release(a) /\ UNCHANGED index
    /\ UNCHANGED <<remembered, signing>>

WorkerStep(w) == ReadAccount(w) \/ FetchPages(w) \/ StoreIndex(w)

WorkerKilled(w) ==
    /\ worker[w] # Nobody /\ SyncFault /\ WorkerEnds(w)
    /\ UNCHANGED <<remembered, signing, claim, index>>

\* Time passes, though not beyond the life of a worker: the timeout of fetch.
SyncTick ==
    /\ \A w \in Worker : worker[w] # Nobody => worker[w].age < WorkerLimit
    /\ claim' = [a \in Account |-> IF claim[a] = Nobody THEN Nobody
                                   ELSE [started |-> Older(claim[a].started), updated |-> Older(claim[a].updated)]]
    /\ index' = [a \in Account |-> IF index[a] = Nobody THEN Nobody ELSE Older(index[a])]
    /\ worker' = [w \in Worker |-> IF worker[w] = Nobody THEN Nobody ELSE [worker[w] EXCEPT !.age = @ + 1]]
    /\ UNCHANGED <<remembered, signing, syncFaults>>

SyncNext ==
    \/ SyncTick
    \/ \E c \in Client : Schedule(c) \/ \E a \in Account : SignIn(c, a)
    \/ \E w \in Worker : WorkerStep(w) \/ WorkerKilled(w)

SyncSpec == SyncInit /\ [][SyncNext]_syncVars

\* A sign-in that remembered its account goes on, workers run, time passes.
FairSync ==
    /\ SyncSpec /\ WF_syncVars(SyncTick)
    /\ \A c \in Client : WF_syncVars(Schedule(c))
    /\ \A w \in Worker : WF_syncVars(WorkerStep(w))

-----------------------------------------------------------------------------
(* Properties. *)

\* Two workers never index one account at a time, so that an older listing
\* never replaces a newer one; no worker outlives its claim.
OneIndexer ==
    \A a \in Account :
       /\ Cardinality({w \in Worker : Works(w, a)}) <= 1
       /\ (\E w \in Worker : Works(w, a)) => claim[a] # Nobody /\ claim[a].started <= ClaimLimit
=============================================================================
