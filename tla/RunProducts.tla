----------------------------- MODULE RunProducts -----------------------------
(***************************************************************************)
(* A task's named products (executor/src/workflow.rs, the publication in   *)
(* executor/src/lib.rs and the artifact endpoint of server/src/runs.rs):   *)
(* after the task has succeeded a worker reads its outputs and copies its  *)
(* artifacts out of a workspace other tasks may still write to; the run's  *)
(* report names what was published, a task bound to an output starts from  *)
(* it, and clients download the artifact piece by piece.  The machine may  *)
(* lose power: what was not synchronised may then be lost.                 *)
(*                                                                         *)
(* A file is a sequence of Pieces pieces, each the number of the write     *)
(* that left it there: writers replace it in place, piece after piece.     *)
(***************************************************************************)
EXTENDS Naturals, Sequences, FiniteSets, SequencesExt

CONSTANTS Pieces, MaxWrites

ASSUME ProductsAssumption == Pieces \in Nat \ {0} /\ MaxWrites \in Nat

VARIABLES
  source,    \* the artifact's file in the workspace
  writing,   \* pieces the write in progress has replaced; Pieces if none is
  moments,   \* what the file held since its publication began
  product,   \* where the publication stands
  before, copied, after,  \* what the two snapshots and the copy have read
  synced,    \* what is on the disk for certain: data, entry, name
  stored,    \* the published file: none, or its pieces
  outcome,   \* the task's status
  stopAsked, \* the run was cancelled, or the task's time is up
  bound,     \* the task bound to the output: pending, started or failed
  report,    \* result.json: none, renamed or durable
  advertised,\* the digest the report gives: none, or a file's pieces
  lost,      \* the power failed, or the run's process was killed
  received   \* the pieces a client has downloaded

productVars == <<source, writing, moments, product, before, copied, after,
                 synced, stored, outcome, stopAsked, bound, report,
                 advertised, lost, received>>

Nothing == <<>>
Parts == {"data", "entry", "name"}
Working == product \in {"output", "before", "copy", "after", "verify",
                        "entry", "rename", "name"}

ProductsInit ==
  /\ source = [i \in 1..Pieces |-> 0] /\ writing = Pieces /\ moments = {}
  /\ product = "idle" /\ before = Nothing /\ copied = Nothing /\ after = Nothing
  /\ synced = {} /\ stored = Nothing
  /\ outcome = "succeeded" /\ stopAsked = FALSE /\ bound = "pending"
  /\ report = "none" /\ advertised = Nothing /\ lost = FALSE
  /\ received = Nothing

-----------------------------------------------------------------------------
(* Another task of the run writes the file, in place. *)

Newest == CHOOSE n \in ToSet(source) : \A m \in ToSet(source) : m <= n

\* external: the next piece of a write, of a new one if none is in progress.
WriteSource ==
  /\ ~lost /\ (writing < Pieces \/ Newest < MaxWrites)
  /\ LET first == writing = Pieces
         i == IF first THEN 1 ELSE writing + 1
         v == IF first THEN Newest + 1 ELSE Newest
     IN  /\ source' = [source EXCEPT ![i] = v]
         /\ writing' = i
  /\ moments' = IF Working THEN moments \union {source'} ELSE moments
  /\ UNCHANGED <<product, before, copied, after, synced, stored, outcome,
                 stopAsked, bound, report, advertised, lost, received>>

-----------------------------------------------------------------------------
(* collect, on the publication's worker.  It can fail at every step. *)

Goes(p) == product' = p /\ ~lost

Outside == UNCHANGED <<source, writing, outcome, stopAsked, bound, report,
                       advertised, lost, received>>

\* The task's process has ended well and the worker is started.
StartsPublishing ==
  /\ product = "idle" /\ Goes("output")
  /\ outcome' = "running" /\ moments' = {source}
  /\ UNCHANGED <<source, writing, stopAsked, bound, report, advertised, lost,
                 received, before, copied, after, synced, stored>>

\* The token is looked at before each output and each buffer, and any of the
\* calls may fail: an output too large or not UTF-8, a file that is gone, a
\* directory, a symlink.
PublicationFails ==
  /\ Working /\ Goes("error")
  /\ UNCHANGED <<moments, before, copied, after, synced, stored>> /\ Outside

ReadsOutputs ==
  /\ product = "output" /\ Goes("before")
  /\ UNCHANGED <<moments, before, copied, after, synced, stored>> /\ Outside

\* snapshot and copy_file read the live file buffer by buffer.
Took(seq) == Append(seq, source[Len(seq) + 1])

SnapshotBefore ==
  /\ product = "before" /\ before' = Took(before)
  /\ Goes(IF Len(before') = Pieces THEN "copy" ELSE "before")
  /\ UNCHANGED <<moments, copied, after, synced, stored>> /\ Outside

CopiesPiece ==
  /\ product = "copy" /\ copied' = Took(copied)
  /\ Goes(IF Len(copied') = Pieces THEN "after" ELSE "copy")
  /\ UNCHANGED <<moments, before, after, synced, stored>> /\ Outside

SnapshotAfter ==
  /\ product = "after" /\ after' = Took(after)
  /\ Goes(IF Len(after') = Pieces THEN "verify" ELSE "after")
  /\ UNCHANGED <<moments, before, copied, synced, stored>> /\ Outside

\* Mutant: the second snapshot is taken, but not compared.
SteadyAnyway == Len(after) = Pieces
\* Nothing changed during publication, and the copy has the same digest.
Steady == before = after /\ copied = before

\* sync_all of the copied file.
SyncsData == synced \union {"data"}

VerifiesCopy ==
  /\ product = "verify"
  /\ IF Steady THEN Goes("entry") /\ synced' = SyncsData
                ELSE Goes("error") /\ UNCHANGED synced
  /\ UNCHANGED <<moments, before, copied, after, stored>> /\ Outside

SyncsStaging ==
  /\ product = "entry" /\ Goes("rename") /\ synced' = synced \union {"entry"}
  /\ UNCHANGED <<moments, before, copied, after, stored>> /\ Outside

RenamesStaging ==
  /\ product = "rename" /\ Goes("name") /\ stored' = copied
  /\ UNCHANGED <<moments, before, copied, after, synced>> /\ Outside

SyncsName ==
  /\ product = "name" /\ Goes("ok") /\ synced' = synced \union {"name"}
  /\ UNCHANGED <<moments, before, copied, after, stored>> /\ Outside

-----------------------------------------------------------------------------
(* The coordinator. *)

Ended == outcome \in {"succeeded", "failed", "stopped"} /\ product # "idle"
Idle == UNCHANGED <<source, writing, moments, before, copied, after, synced,
                    stored, lost, received>>

\* A cancelled run, or the task's deadline, sets the stop, which decides even
\* if the worker then finishes its publication.
AsksToStop ==
  /\ Working \/ product \in {"ok", "error"}
  /\ outcome = "running" /\ ~lost /\ ~stopAsked
  /\ stopAsked' = TRUE
  /\ Idle /\ UNCHANGED <<product, outcome, bound, report, advertised>>

\* The worker's outcome is taken; only a success has products.
Published == product = "ok" /\ ~stopAsked

TakesOutcome ==
  /\ outcome = "running" /\ product \in {"ok", "error"} /\ ~lost
  /\ outcome' = IF Published THEN "succeeded"
                ELSE IF stopAsked THEN "stopped" ELSE "failed"
  /\ advertised' = IF Published THEN before ELSE advertised
  /\ Idle /\ UNCHANGED <<product, stopAsked, bound, report>>

\* resolve, when the bound task is dispatched: its dependency has ended, and an
\* allowed failure or a finalizer's condition may let it through to here.
StartsBound ==
  /\ bound = "pending" /\ Ended /\ ~lost /\ report = "none"
  /\ bound' = IF outcome = "succeeded" THEN "started" ELSE "failed"
  /\ Idle /\ UNCHANGED <<product, outcome, stopAsked, report, advertised>>

\* The report is written to a temporary file, synchronised and renamed, and
\* then its directory is.
WritesReport ==
  /\ report = "none" /\ Ended /\ bound # "pending" /\ ~lost
  /\ report' = "renamed"
  /\ Idle /\ UNCHANGED <<product, outcome, stopAsked, bound, advertised>>

SyncsReport ==
  /\ report = "renamed" /\ ~lost /\ report' = "durable"
  /\ Idle /\ UNCHANGED <<product, outcome, stopAsked, bound, advertised>>

-----------------------------------------------------------------------------
(* external: the power fails.  What was synchronised is kept, and of the     *)
(* rest any part may be; the renames of the report may be kept or not.       *)

Torn == [i \in 1..Pieces |-> MaxWrites + 1]

PowerFails ==
  /\ ~lost /\ lost' = TRUE
  /\ \E kept \in SUBSET Parts, keptReport \in BOOLEAN :
       /\ synced \subseteq kept
       /\ stored' = IF stored = Nothing \/ ~ {"name", "entry"} \subseteq kept
                      THEN Nothing
                    ELSE IF "data" \in kept THEN stored ELSE Torn
       /\ report' = IF report = "renamed" /\ ~keptReport THEN "none" ELSE report
  /\ UNCHANGED <<source, writing, moments, product, before, copied, after,
                 synced, outcome, stopAsked, bound, advertised, received>>

-----------------------------------------------------------------------------
(* artifact: a client asks from the cursor it was given.  Without a report,  *)
(* or with nothing under that name, it is told there is nothing there; a     *)
(* file of another size is an error.                                         *)

Downloads ==
  /\ report # "none" /\ advertised # Nothing /\ stored # Nothing
  /\ Len(received) < Pieces
  /\ \E n \in (Len(received) + 1)..Pieces :
       received' = SubSeq(stored, 1, n)
  /\ UNCHANGED <<source, writing, moments, product, before, copied, after,
                 synced, stored, outcome, stopAsked, bound, report, advertised,
                 lost>>

ProductsNext ==
  \/ WriteSource \/ StartsPublishing \/ PublicationFails \/ ReadsOutputs
  \/ SnapshotBefore \/ CopiesPiece \/ SnapshotAfter \/ VerifiesCopy
  \/ SyncsStaging \/ RenamesStaging \/ SyncsName
  \/ AsksToStop \/ TakesOutcome \/ StartsBound \/ WritesReport \/ SyncsReport
  \/ PowerFails \/ Downloads

ProductsSpec == ProductsInit /\ [][ProductsNext]_productVars

-----------------------------------------------------------------------------
(* What an artifact holds is what its file held at one moment of the         *)
(* publication, and its digest is that of the stored copy: the snapshots     *)
(* around the copy notice every write in between.                            *)
CopiesAreMoments ==
  stored \notin {Nothing, Torn} =>
    /\ stored \in moments
    /\ advertised # Nothing => advertised = stored

(* A report that can be read never names an artifact that is not there,      *)
(* whole, also after a power failure: everything the artifact needs is on    *)
(* the disk before the report is renamed.                                    *)
ReportsAreBacked ==
  report # "none" /\ advertised # Nothing => stored = advertised

(* A task that was stopped while its products were published has none, even  *)
(* if its worker finished; a bound task never starts from such an output.    *)
StoppedHaveNone ==
  /\ stopAsked \/ outcome \in {"stopped", "failed"} => advertised = Nothing
  /\ bound = "started" => outcome = "succeeded" /\ advertised # Nothing

(* All of it, and what a client has downloaded is a beginning of the         *)
(* artifact the report describes (collect and execute, and the endpoint).    *)
ProductsAreWhole ==
  /\ CopiesAreMoments /\ ReportsAreBacked /\ StoppedHaveNone
  /\ IsPrefix(received, advertised)
=============================================================================
