---------------------------- MODULE ActionCache ----------------------------
(***************************************************************************)
(* The local action cache: engine/crates/executor/src/cache.rs.            *)
(*                                                                         *)
(* Several processes share one cache directory.  Each looks an action up   *)
(* under the lock of its key; on a hit it restores the outputs, otherwise  *)
(* it runs the task and saves them.  A step reads or writes one artifact;  *)
(* files are edited, blobs and manifests damaged, renames refused and      *)
(* processes killed between any two steps.                                 *)
(***************************************************************************)
EXTENDS Integers, FiniteSets, Sequences, SequencesExt

CONSTANTS Proc,       \* processes that share the cache directory
          Workspace,  \* working directories
          Outputs,    \* CachePolicy::outputs, in order
          Versions,   \* contents of the declared inputs, 1..n
          CacheFaults \* bound: damages, refused renames and kills

ASSUME CacheAssumption ==
    /\ Versions \in Nat \ {0} /\ CacheFaults \in Nat
    /\ Outputs \in Seq(STRING) /\ IsInjective(Outputs) /\ ToSet(Outputs) \cap {"", "log"} = {}

Paths == ToSet(Outputs)
Artifacts == Append(Outputs, "log")   \* the order in which they are staged and stored
Parts == ToSet(Artifacts)
None == <<0, "none">>      \* no file
Stale == <<0, "stale">>    \* what somebody left there
\* A part's contents name the version of the inputs they were computed from.
Contents == (1..Versions) \X Parts
Keys == 1..Versions
Truth(key) == [part \in Parts |-> <<key, part>>]

VARIABLES
    workspace, \* the directory each process works in
    input,     \* the contents of the declared inputs of each directory
    output,    \* the declared outputs of each directory
    blobs,     \* the state of each blob: "absent", "intact" or "damaged"
    actions,   \* the manifest of each key, or why there is none
    owner,     \* who holds the lock of each key
    job,       \* each process
    cacheFaults

cacheVars == <<workspace, input, output, blobs, actions, owner, job, cacheFaults>>

Nobody == "nobody"
ASSUME NobodyAssumption == Nobody \notin Proc

Idle == [at |-> "idle", key |-> 0, todo |-> {}, copy |-> [part \in Parts |-> None],
         log |-> None, index |-> 1, backup |-> <<>>, before |-> [p \in Paths |-> None],
         spoiled |-> FALSE, cancelled |-> FALSE]
Stages == {"idle", "lookup", "stage", "logs", "setaside", "install", "rollback", "refused",
           "restored", "miss", "run", "save", "snapshot", "store", "persist", "saved"}

Readable(key) == DOMAIN actions[key] = Parts
Unreadable == [part \in {} |-> None]
NoManifest == [part \in {""} |-> None]

CacheTypeOK ==
    /\ workspace \in [Proc -> Workspace] /\ input \in [Workspace -> Keys]
    /\ output \in [Workspace -> [Paths -> Contents \cup {None, Stale}]]
    /\ blobs \in [Contents -> {"absent", "intact", "damaged"}]
    /\ \A key \in Keys : Readable(key) \/ actions[key] \in {Unreadable, NoManifest}
    /\ owner \in [Keys -> Proc \cup {Nobody}] /\ cacheFaults \in 0..CacheFaults
    /\ \A p \in Proc : job[p].at \in Stages /\ job[p].todo \subseteq Parts

CacheInit ==
    /\ workspace \in [Proc -> Workspace]
    /\ input = [w \in Workspace |-> 1]
    /\ output \in [Workspace -> {[p \in Paths |-> None], [p \in Paths |-> Stale]}]
    /\ blobs = [c \in Contents |-> "absent"]
    /\ actions = [key \in Keys |-> NoManifest]
    /\ owner = [key \in Keys |-> Nobody]
    /\ job = [p \in Proc |-> Idle]
    /\ cacheFaults = 0

Fault == cacheFaults < CacheFaults /\ cacheFaults' = cacheFaults + 1

\* Files at a path of the workspace of p.
File(p, path) == output[workspace[p]][path]
Put(p, path, content) == output' = [output EXCEPT ![workspace[p]][path] = content]
Goto(p, stage) == job' = [job EXCEPT ![p].at = stage]
\* Dropping Prepared closes the lock file.
Release(p) ==
    /\ owner' = [key \in Keys |-> IF owner[key] = p THEN Nobody ELSE owner[key]]
    /\ job' = [job EXCEPT ![p] = Idle]
Disk == <<workspace, input, output, blobs, actions>>
Locked == <<owner, cacheFaults>>

-----------------------------------------------------------------------------
(* Looking an action up and restoring its outputs. *)

\* The key is the digest of the inputs.  When another process owns the action
\* the scheduler asks again later.
Prepare(p) ==
    LET key == input[workspace[p]] IN
    /\ job[p].at = "idle" /\ owner[key] = Nobody
    /\ owner' = [owner EXCEPT ![key] = p]
    /\ job' = [job EXCEPT ![p].at = "lookup", ![p].key = key,
                          ![p].before = output[workspace[p]]]
    /\ UNCHANGED <<Disk, cacheFaults>>

\* restore returned an error: a cancelled lookup ends, another one is a miss.
Refuse(p) == Goto(p, "refused")

ReadManifest(p) ==
    LET key == job[p].key IN
    /\ job[p].at = "lookup"
    /\ IF job[p].cancelled \/ actions[key] = Unreadable THEN Refuse(p)
       ELSE IF actions[key] = NoManifest THEN Goto(p, "miss")
       ELSE job' = [job EXCEPT ![p].at = "stage", ![p].copy = actions[key]]
    /\ UNCHANGED <<Disk, Locked>>

\* The next artifact has been dealt with; after the last one comes a new stage.
Advance(p, stage) ==
    IF job[p].index = Len(Artifacts)
    THEN [job EXCEPT ![p].index = 1, ![p].at = stage]
    ELSE [job EXCEPT ![p].index = @ + 1]
Blob(p) == job[p].copy[Artifacts[job[p].index]]

\* The staged copy is verified, not the blob.
Stage(p) ==
    /\ job[p].at = "stage"
    /\ IF job[p].cancelled \/ blobs[Blob(p)] # "intact" THEN Refuse(p)
       ELSE job' = Advance(p, "logs")
    /\ UNCHANGED <<Disk, Locked>>

\* A log write failure must not occur after the publication, if there is one.
WriteLogs(p) ==
    /\ job[p].at = "logs"
    /\ IF job[p].cancelled THEN Refuse(p)
       ELSE job' = [job EXCEPT ![p].at = IF Outputs = <<>> THEN "restored" ELSE "setaside",
                               ![p].log = job[p].copy["log"]]
    /\ UNCHANGED <<Disk, Locked>>

\* publish_outputs records what was there before it attempts the replacement.
Record(p, path) == [path |-> path, old |-> File(p, path), installed |-> FALSE]
SetAside(p) ==
    LET path == Outputs[job[p].index] IN
    /\ job[p].at = "setaside"
    /\ Put(p, path, None)
    /\ job' = [job EXCEPT ![p].at = "install", ![p].backup = Append(@, Record(p, path))]
    /\ UNCHANGED <<workspace, input, blobs, actions, Locked>>

Install(p) ==
    LET i == job[p].index IN
    /\ job[p].at = "install"
    /\ Put(p, Outputs[i], job[p].copy[Outputs[i]])
    /\ job' = [job EXCEPT ![p].backup[i].installed = TRUE, ![p].index = i + 1,
                          ![p].at = IF i = Len(Outputs) THEN "restored" ELSE "setaside"]
    /\ UNCHANGED <<workspace, input, blobs, actions, Locked>>

\* A rename, or what precedes it, fails: what was recorded is rolled back.
RenameFails(p) ==
    /\ Fault /\ job[p].at \in {"setaside", "install"}
    /\ Goto(p, "rollback")
    /\ UNCHANGED <<Disk, owner>>

\* Mutant: what was set aside but not replaced is forgotten.
RollbackInstalled(p) ==
    LET last == Last(job[p].backup) IN
    /\ job[p].at = "rollback"
    /\ IF job[p].backup = <<>>
       THEN Refuse(p) /\ UNCHANGED output
       ELSE /\ IF last.installed THEN Put(p, last.path, last.old) ELSE UNCHANGED output
            /\ job' = [job EXCEPT ![p].backup = Front(@)]
    /\ UNCHANGED <<workspace, input, blobs, actions, Locked>>

\* In reverse order; a failure on one path does not keep the others from it.
Rollback(p) ==
    LET last == Last(job[p].backup)
        undone == [job EXCEPT ![p].backup = Front(@)] IN
    /\ job[p].at = "rollback"
    /\ \/ /\ job[p].backup = <<>>
          /\ Refuse(p)
          /\ UNCHANGED output
       \/ /\ job[p].backup # <<>>
          /\ Put(p, last.path, last.old)
          /\ job' = undone
       \/ /\ job[p].backup # <<>>
          /\ job' = [undone EXCEPT ![p].spoiled = TRUE]
          /\ \/ last.installed /\ UNCHANGED output           \* the replacement stays
             \/ last.old # None /\ Put(p, last.path, None)    \* the backup does
    /\ UNCHANGED <<workspace, input, blobs, actions, Locked>>

\* lookup: a hit is reported unless the task was cancelled meanwhile; a miss
\* begins with clean outputs and logs.
Restored(p) ==
    /\ job[p].at = "restored"
    /\ Release(p)
    /\ UNCHANGED <<Disk, cacheFaults>>

Miss(p) ==
    /\ job[p].at \in {"miss", "refused"}
    /\ IF job[p].cancelled
       THEN Release(p) /\ UNCHANGED output
       ELSE /\ output' = [output EXCEPT ![workspace[p]] = [path \in Paths |-> None]]
            /\ job' = [job EXCEPT ![p] = [Idle EXCEPT !.at = "run", !.key = job[p].key,
                                                      !.todo = Parts]]
            /\ UNCHANGED owner
    /\ UNCHANGED <<workspace, input, blobs, actions, cacheFaults>>

-----------------------------------------------------------------------------
(* Running the task and saving what it produced. *)

\* The task reads its inputs whenever it writes a part.
Produce(p, part) ==
    LET content == <<input[workspace[p]], part>> IN
    /\ job[p].at = "run" /\ part \in job[p].todo
    /\ IF part = "log" THEN UNCHANGED output ELSE Put(p, part, content)
    /\ job' = [job EXCEPT ![p].todo = @ \ {part},
                          ![p].log = IF part = "log" THEN content ELSE @,
                          ![p].at = IF job[p].todo = {part} THEN "save" ELSE "run"]
    /\ UNCHANGED <<workspace, input, blobs, actions, Locked>>

\* Nothing is saved for a task that failed, was cancelled, or whose save failed.
GiveUp(p) ==
    /\ job[p].at \in {"run", "save", "snapshot", "store", "persist"}
    /\ job[p].at = "run" \/ job[p].cancelled
    /\ Release(p)
    /\ UNCHANGED <<Disk, cacheFaults>>

\* Never publish under the old key if the inputs changed during execution.
CheckInputs(p) ==
    /\ job[p].at = "save" /\ ~job[p].cancelled
    /\ IF input[workspace[p]] = job[p].key
       THEN Goto(p, "snapshot") /\ UNCHANGED owner
       ELSE Release(p)
    /\ UNCHANGED <<Disk, cacheFaults>>

Snapshot(p) ==
    /\ job[p].at = "snapshot" /\ ~job[p].cancelled
    /\ IF \E path \in Paths : File(p, path) = None
       THEN Release(p)
       ELSE /\ job' = [job EXCEPT ![p].at = "store",
                                  ![p].copy = [part \in Parts |-> IF part = "log"
                                               THEN job[p].log ELSE File(p, part)]]
            /\ UNCHANGED owner
    /\ UNCHANGED <<Disk, cacheFaults>>

\* An intact blob is kept; any other is replaced if the source still has the
\* contents of the snapshot.
Source(p, part) == IF part = "log" THEN job[p].log ELSE File(p, part)
Store(p) ==
    /\ job[p].at = "store" /\ ~job[p].cancelled
    /\ IF blobs[Blob(p)] # "intact" /\ Source(p, Artifacts[job[p].index]) # Blob(p)
       THEN Release(p) /\ UNCHANGED blobs
       ELSE /\ blobs' = [blobs EXCEPT ![Blob(p)] = "intact"]
            /\ job' = Advance(p, "persist")
            /\ UNCHANGED owner
    /\ UNCHANGED <<workspace, input, output, actions, cacheFaults>>

Persist(p) ==
    /\ job[p].at = "persist" /\ ~job[p].cancelled
    /\ actions' = [actions EXCEPT ![job[p].key] = job[p].copy]
    /\ Goto(p, "saved")
    /\ UNCHANGED <<workspace, input, output, blobs, Locked>>

Saved(p) ==
    /\ job[p].at = "saved"
    /\ Release(p)
    /\ UNCHANGED <<Disk, cacheFaults>>

-----------------------------------------------------------------------------
(* The environment. *)

\* Somebody edits the inputs of a directory that only one process works in,
\* and never back to what they were.  See the README for the other cases.
Edit(w) ==
    /\ input[w] < Versions
    /\ \A p, q \in Proc : workspace[p] = w /\ workspace[q] = w => p = q
    /\ input' = [input EXCEPT ![w] = @ + 1]
    /\ UNCHANGED <<workspace, output, blobs, actions, owner, job, cacheFaults>>

CancelTask(p) ==
    /\ job[p].at # "idle" /\ ~job[p].cancelled
    /\ job' = [job EXCEPT ![p].cancelled = TRUE]
    /\ UNCHANGED <<Disk, Locked>>

DamageBlob(c) ==
    /\ Fault /\ blobs[c] = "intact"
    /\ blobs' = [blobs EXCEPT ![c] = "damaged"]
    /\ UNCHANGED <<workspace, input, output, actions, owner, job>>

DamageManifest(key) ==
    /\ Fault /\ Readable(key)
    /\ actions' = [actions EXCEPT ![key] = Unreadable]
    /\ UNCHANGED <<workspace, input, output, blobs, owner, job>>

\* The operating system releases the locks of a killed process.
KillProcess(p) ==
    /\ Fault /\ job[p].at # "idle"
    /\ Release(p)
    /\ UNCHANGED Disk

CacheStep(p) ==
    \/ Prepare(p) \/ ReadManifest(p) \/ Stage(p)
    \/ WriteLogs(p) \/ SetAside(p) \/ Install(p) \/ RenameFails(p) \/ Rollback(p)
    \/ Restored(p) \/ Miss(p) \/ \E part \in Parts : Produce(p, part)
    \/ GiveUp(p) \/ CheckInputs(p) \/ Snapshot(p) \/ Store(p)
    \/ Persist(p) \/ Saved(p) \/ CancelTask(p) \/ KillProcess(p)

CacheNext ==
    \/ \E p \in Proc : CacheStep(p)
    \/ \E w \in Workspace : Edit(w)
    \/ \E c \in Contents : DamageBlob(c)
    \/ \E key \in Keys : DamageManifest(key)

CacheSpec == CacheInit /\ [][CacheNext]_cacheVars

-----------------------------------------------------------------------------
(* Properties. *)

\* A manifest names what the task computes from the inputs of its key, although
\* the inputs may change between any two reads of the task.
CacheIsTrue ==
    \A key \in Keys : Readable(key) => actions[key] = Truth(key)

\* The blobs are written before the manifest: one that can be read names blobs
\* that are there, wherever processes were killed.
NamesStored ==
    \A key \in Keys : Readable(key) => \A part \in Parts : blobs[actions[key][part]] # "absent"

\* A hit has restored the outputs and the log of the key, all of them, although
\* blobs may be damaged at any time.
RestoredIsWhole ==
    \A p \in Proc : job[p].at = "restored" =>
        /\ \A path \in Paths : File(p, path) = Truth(job[p].key)[path]
        /\ job[p].log = Truth(job[p].key)["log"]

\* A restore that was refused has left the outputs as they were, unless a step
\* of the rollback failed too.
RolledBack ==
    \A p \in Proc : job[p].at = "refused" /\ ~job[p].spoiled =>
        output[workspace[p]] = job[p].before

\* What a reader of the cache directory relies on, over crashes and edits.
ManifestsHold == CacheIsTrue /\ NamesStored
\* What a task relies on whose action was looked up: all of it or nothing.
RestoreIsAtomic == RestoredIsWhole /\ RolledBack
=============================================================================
