--------------------------- MODULE WorkspaceCopy ---------------------------
(***************************************************************************)
(* The private copy of a workspace that a run works in:                    *)
(* engine/crates/executor/src/workspace.rs, with the snapshots that        *)
(* cache.rs takes on several threads and the copies of workspace_copy.rs.  *)
(*                                                                         *)
(* The source is digested, copied, and the copy and the source are         *)
(* digested once more; somebody edits, adds and removes files meanwhile.   *)
(***************************************************************************)
EXTENDS Integers, FiniteSets, Sequences, SequencesExt

CONSTANTS SourceFile,  \* declared inputs of the workspace
          HashThread,  \* threads of a snapshot
          SourceEdits  \* bound: edits of the source

\* A snapshot starts at least one thread (hash_entries); what a thread is at is
\* told from the files.
ASSUME CopyAssumption ==
    /\ IsFiniteSet(SourceFile) /\ SourceEdits \in Nat /\ HashThread # {}
    /\ SourceFile \cap {"ready", "ended", "error"} = {}

Absent == -1

VARIABLES
    source,     \* the version of each file
    staging,    \* the temporary directory, then "workspace"
    copyPhase,  \* inventory and hash of a snapshot, copy, published or failed
    sweep,      \* which snapshot
    files,      \* the inventory, in order
    next,       \* the position the next thread takes
    hashing,    \* what each thread is at: a file, "ready", "ended" or "error"
    gaveUp,     \* the flag that stops the other threads
    digests,    \* what the threads found
    before,     \* the first snapshot
    stop,       \* the run was cancelled
    moments     \* history: every state of the source since the setup began

copyVars == <<source, staging, copyPhase, sweep, files, next, hashing, gaveUp, digests,
              before, stop, moments>>
snapshot == <<files, next, hashing, gaveUp, digests>>

Empty == [f \in SourceFile |-> Absent]
CopyReady == [t \in HashThread |-> "ready"]
Now(f) == IF sweep = "staging" THEN staging[f] ELSE source[f]

CopyInit ==
    /\ source \in [SourceFile -> {Absent, 0}] /\ \E f \in SourceFile : source[f] = 0
    /\ staging = Empty
    /\ copyPhase = "inventory" /\ sweep = "before"
    /\ files = <<>> /\ next = 1 /\ hashing = CopyReady /\ gaveUp = FALSE
    /\ digests = Empty /\ before = Empty
    /\ stop = FALSE
    /\ moments = {source}

Frame == UNCHANGED <<source, stop, moments>>
Abandon == copyPhase' = "failed" /\ UNCHANGED <<staging, sweep, before, snapshot>> /\ Frame

-----------------------------------------------------------------------------
(* A snapshot: the inventory, then the contents on several threads. *)

Inventory ==
    /\ copyPhase = "inventory"
    /\ IF stop THEN Abandon
       ELSE /\ files' = SetToSeq({f \in SourceFile : Now(f) # Absent})
            /\ next' = 1 /\ hashing' = CopyReady /\ gaveUp' = FALSE /\ digests' = Empty
            /\ copyPhase' = "hash"
            /\ UNCHANGED <<staging, sweep, before>> /\ Frame

\* A thread takes the next position unless another one has given up.
Take(t) ==
    /\ copyPhase = "hash" /\ hashing[t] = "ready"
    /\ UNCHANGED <<files, digests>>
    /\ IF gaveUp THEN hashing' = [hashing EXCEPT ![t] = "ended"] /\ UNCHANGED <<next, gaveUp>>
       ELSE IF stop
       THEN hashing' = [hashing EXCEPT ![t] = "error"] /\ gaveUp' = TRUE /\ UNCHANGED next
       ELSE /\ next' = next + 1 /\ UNCHANGED gaveUp
            /\ hashing' = [hashing EXCEPT ![t] = IF next > Len(files) THEN "ended" ELSE files[next]]
    /\ UNCHANGED <<staging, copyPhase, sweep, before>> /\ Frame

\* A file that has gone is an error.
HashFile(t) ==
    LET f == hashing[t] IN
    /\ copyPhase = "hash" /\ f \in SourceFile
    /\ UNCHANGED <<files, next>>
    /\ IF stop \/ Now(f) = Absent
       THEN hashing' = [hashing EXCEPT ![t] = "error"] /\ gaveUp' = TRUE /\ UNCHANGED digests
       ELSE /\ hashing' = [hashing EXCEPT ![t] = "ready"] /\ UNCHANGED gaveUp
            /\ digests' = [digests EXCEPT ![f] = Now(f)]
    /\ UNCHANGED <<staging, copyPhase, sweep, before>> /\ Frame

Gathered == copyPhase = "hash" /\ \A t \in HashThread : hashing[t] \in {"ended", "error"}
Sound == ~stop /\ \A t \in HashThread : hashing[t] # "error"

\* All threads are joined, whatever they found.  The entries without contents
\* of a snapshot that failed are never looked at.
Conclude ==
    /\ Gathered
    /\ IF ~Sound \/ (sweep # "before" /\ digests # before) THEN Abandon
       ELSE /\ CASE sweep = "before"  -> copyPhase' = "copy" /\ before' = digests /\ UNCHANGED sweep
                 [] sweep = "staging" -> copyPhase' = "inventory" /\ sweep' = "source" /\ UNCHANGED before
                 [] sweep = "source"  -> copyPhase' = "publish" /\ UNCHANGED <<before, sweep>>
            /\ UNCHANGED <<staging, snapshot>> /\ Frame

-----------------------------------------------------------------------------
(* The copy. *)

\* The files of the first snapshot, one after the other, as they are now.
Left == {f \in SourceFile : before[f] # Absent /\ staging[f] = Absent}
CopyFile ==
    /\ copyPhase = "copy" /\ Left # {}
    /\ LET f == CHOOSE f \in Left : TRUE IN
       IF stop \/ source[f] = Absent THEN Abandon
       ELSE /\ staging' = [staging EXCEPT ![f] = source[f]]
            /\ UNCHANGED <<copyPhase, sweep, before, snapshot>> /\ Frame

\* Mutant: only the copy is compared with the first snapshot.
CopiedUnchecked ==
    /\ copyPhase = "copy" /\ Left = {}
    /\ copyPhase' = "publish"
    /\ UNCHANGED <<staging, sweep, before, snapshot>> /\ Frame

Copied ==
    /\ copyPhase = "copy" /\ Left = {}
    /\ copyPhase' = "inventory" /\ sweep' = "staging"
    /\ UNCHANGED <<staging, before, snapshot>> /\ Frame

Publish ==
    /\ copyPhase = "publish"
    /\ IF stop THEN Abandon
       ELSE copyPhase' = "published" /\ UNCHANGED <<staging, sweep, before, snapshot>> /\ Frame

-----------------------------------------------------------------------------
(* The environment. *)

\* Every edit gives a file a version that no file has had, or removes it.
EditSource(f) ==
    LET edited(v) == [source EXCEPT ![f] = v] IN
    /\ copyPhase \notin {"published", "failed"}
    /\ Cardinality(moments) <= SourceEdits
    /\ \E v \in {Cardinality(moments), Absent} : v # source[f] /\ source' = edited(v)
    /\ moments' = moments \cup {source'} /\ Cardinality(moments') > Cardinality(moments)
    /\ UNCHANGED <<staging, copyPhase, sweep, before, snapshot, stop>>

StopRun ==
    /\ copyPhase \notin {"published", "failed"} /\ ~stop
    /\ stop' = TRUE
    /\ UNCHANGED <<source, staging, copyPhase, sweep, before, snapshot, moments>>

CopySteps == Inventory \/ Conclude \/ CopyFile \/ Copied \/ Publish
HashSteps(t) == Take(t) \/ HashFile(t)
CopyNext == CopySteps \/ (\E t \in HashThread : HashSteps(t)) \/ (\E f \in SourceFile : EditSource(f)) \/ StopRun

CopySpec == CopyInit /\ [][CopyNext]_copyVars

-----------------------------------------------------------------------------
(* Properties. *)

\* The run works in a copy of the source as it was at one moment of the setup,
\* although neither the snapshots nor the copy are taken at one moment.
OneMoment == copyPhase = "published" => staging \in moments
=============================================================================
