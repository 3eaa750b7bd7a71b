------------------------------ MODULE Journal ------------------------------
(***************************************************************************)
(* The journal of a run and those who tail it:                             *)
(* engine/crates/executor/src/events.rs with the spans of telemetry.rs,    *)
(* the page of the run server (events of server/src/runs.rs), and the two  *)
(* watchers, cli/src/cmd/watch.rs with progress.rs and watch_remote.rs.    *)
(*                                                                         *)
(* The journal is written through a buffer, so what is on disk may end in  *)
(* the middle of an event: positions count half events, and an event is    *)
(* complete with its second half.  One stream of output stands for the     *)
(* four of a task.                                                         *)
(***************************************************************************)
EXTENDS Integers, Sequences, FiniteSets, SequencesExt

CONSTANTS JTask,       \* the tasks of the plan
          JNative,     \* tasks without a process of their own: files and primitives
          JCached,     \* tasks with a cache policy
          MaxOutput,   \* bound: pieces of output of a task
          MaxTries,    \* attempts of a task
          TickBudget,  \* pieces of one stream that a tick copies
          PageEvents,  \* events of a page of the server
          PollHalves   \* half events that a poll of the local watcher reads

ASSUME JournalAssumption ==
    /\ IsFiniteSet(JTask) /\ JNative \subseteq JTask /\ JCached \subseteq JTask
    /\ {MaxOutput, MaxTries, TickBudget, PageEvents, PollHalves} \subseteq Nat \ {0}

VARIABLES
    incremental,  \* only the tasks touched by an iteration are looked at
    tstate,       \* status of each task; "preparing" is Running while its cache is looked up,
                  \* "missed" is Pending after that
    tries,        \* attempts of each task that have ended
    log,          \* the file with the output of each task
    said,         \* history: what each task has put out, tentative logs excepted
    emitted,      \* number of events
    logged,       \* the output of each task that is in the journal
    finish,       \* the last event: "none", "succeeded" or "failed"
    flushed,      \* half events on disk
    known,        \* the state of each task in its last event
    offsets,      \* pieces of each log that have been copied
    drained,      \* logs seen at their end after their task had ended
    spans,        \* the span of each task, "open" or the status it ended with
    run,          \* queued, running, flushing, drained, finished or crashed
    record,       \* the state the run server reports
    watch         \* a watcher

runVars == <<incremental, tstate, tries, log, said>>
diskVars == <<emitted, logged, finish, flushed>>
journalVars == <<known, offsets, drained, spans>>
jVars == <<runVars, diskVars, journalVars, run, record, watch>>

JFinal == {"succeeded", "failed", "cancelled"}
Over == {"succeeded", "failed", "cancelled", "interrupted"}   \* of a record
OnDisk == flushed \div 2                                      \* complete events
FinishShown(n) == finish # "none" /\ n = emitted

JInit ==
    /\ incremental \in {b \in BOOLEAN : b => JCached = {}}
    /\ tstate = [t \in JTask |-> "pending"] /\ tries = [t \in JTask |-> 0]
    /\ log = [t \in JTask |-> <<>>] /\ said = log
    /\ emitted = 0 /\ flushed = 0 /\ logged = log /\ finish = "none"
    /\ known = tstate /\ offsets = tries /\ drained = [t \in JTask |-> FALSE]
    /\ spans = [t \in JTask |-> "open"]
    /\ run = "queued" /\ record = "queued"
    /\ watch \in [remote : BOOLEAN, follow : BOOLEAN, at : {0}, end : {-1}, page : {-1},
                  terminal : {FALSE}, verdict : {"watching", "nobody"}]

-----------------------------------------------------------------------------
(* The tasks, between two ticks. *)

\* A task changes its state at most once in an iteration of the scheduler.
Seen(t, s) == run = "running" /\ tstate[t] = s /\ known[t] = s
Becomes(t, s) == tstate' = [tstate EXCEPT ![t] = s] /\ UNCHANGED <<incremental, run, record, watch, diskVars, journalVars>>

LookUp(t) ==
    /\ Seen(t, "pending") /\ t \in JCached
    /\ Becomes(t, "preparing") /\ UNCHANGED <<tries, log, said>>

\* A hit keeps the restored log, and so does a lookup that is cancelled; a log
\* restored by a rejected entry is removed.
LookedUp(t) ==
    /\ Seen(t, "preparing")
    /\ \/ \E s \in {"succeeded", "cancelled"} : Becomes(t, s) /\ said' = [said EXCEPT ![t] = log[t]] /\ UNCHANGED log
       \/ Becomes(t, "missed") /\ log' = [log EXCEPT ![t] = <<>>] /\ UNCHANGED said
    /\ UNCHANGED tries

\* An attempt appends to the log of the one before it, but the log of a task
\* without a process is cut to nothing.
StartTask(t) ==
    /\ IF t \in JCached THEN Seen(t, "missed") ELSE Seen(t, "pending")
    /\ Becomes(t, "running")
    /\ log' = [log EXCEPT ![t] = IF t \in JNative THEN <<>> ELSE @]
    /\ UNCHANGED <<tries, said>>

\* Output, also of a descendant that outlives its task, and what a lookup restores.
Write(t) ==
    /\ run \in {"running", "flushing"} /\ tstate[t] \notin {"pending", "missed"} /\ Len(log[t]) + tries[t] < MaxOutput
    /\ log' = [log EXCEPT ![t] = Append(@, Len(said[t]) + 1)]
    /\ said' = IF tstate[t] = "preparing" THEN said ELSE [said EXCEPT ![t] = Append(@, Len(@) + 1)]
    /\ UNCHANGED <<incremental, tstate, tries, run, record, watch, diskVars, journalVars>>

EndTask(t) ==
    /\ Seen(t, "running")
    /\ tries' = [tries EXCEPT ![t] = @ + 1]
    /\ \/ \E s \in JFinal : Becomes(t, s)
       \/ tries'[t] < MaxTries /\ ~incremental /\ Becomes(t, IF t \in JCached THEN "missed" ELSE "pending")
    /\ UNCHANGED <<log, said>>

AbortTask(t) == (Seen(t, "pending") \/ Seen(t, "missed")) /\ Becomes(t, "cancelled") /\ UNCHANGED <<tries, log, said>>

-----------------------------------------------------------------------------
(* The journal. *)

StartRun ==
    /\ run = "queued" /\ record = "queued"
    /\ run' = "running" /\ record' = "running"
    /\ emitted' = 1 /\ flushed' = 2
    /\ UNCHANGED <<runVars, logged, finish, journalVars, watch>>

\* Mutant: the log of a lookup is copied as well.
MuteNothing(t, drain) == tstate[t] \in {"pending", "missed"} \/ (drained[t] /\ ~drain)

Muted(t, drain) == tstate[t] \in {"pending", "missed", "preparing"} \/ (drained[t] /\ ~drain)
Backlog(t) == IF Len(log[t]) > offsets[t] THEN Len(log[t]) - offsets[t] ELSE 0
Tailed(t, drain) == IF Muted(t, drain) THEN 0
                    ELSE IF drain \/ Backlog(t) < TickBudget THEN Backlog(t) ELSE TickBudget
AtEnd(t, drain) == ~Muted(t, drain) /\ (drain \/ Backlog(t) < TickBudget)
Lines(t, drain) == SubSeq(log[t], offsets[t] + 1, offsets[t] + Tailed(t, drain))
Events(t, drain) == Tailed(t, drain) + IF tstate[t] = known[t] THEN 0 ELSE 1

\* A span ends with the first final state of its task.
SpanOf(t) == IF tstate[t] # known[t] /\ tstate[t] \in JFinal /\ spans[t] = "open" THEN tstate[t] ELSE spans[t]

\* One update: for every task its output first, then its state.  An update that
\* finds nothing new changes nothing and is left out.
Tick ==
    LET drain == \A t \in JTask : tstate[t] \in JFinal
        looked == IF drain \/ ~incremental THEN JTask
                  ELSE {t \in JTask : tstate[t] # known[t] \/ tstate[t] = "running"} IN
    /\ run = "running"
    /\ emitted' = emitted + Cardinality(UNION {{t} \X (1..Events(t, drain)) : t \in looked})
    /\ logged' = [t \in JTask |-> logged[t] \o IF t \in looked THEN Lines(t, drain) ELSE <<>>]
    /\ offsets' = [t \in JTask |-> offsets[t] + IF t \in looked THEN Tailed(t, drain) ELSE 0]
    /\ drained' = [t \in JTask |-> IF t \in looked /\ AtEnd(t, drain) THEN tstate[t] \in JFinal ELSE drained[t]]
    /\ spans' = [t \in JTask |-> SpanOf(t)]
    /\ known' = tstate
    /\ drain \/ emitted' # emitted \/ drained' # drained
    /\ run' = IF drain THEN "drained" ELSE "flushing"
    /\ UNCHANGED <<runVars, finish, flushed, record, watch>>

\* The buffer is full in the middle of an update.
Spill ==
    /\ run \in {"flushing", "drained"} /\ flushed < 2 * emitted - 1
    /\ \E n \in flushed + 1 .. 2 * emitted - 1 : flushed' = n
    /\ UNCHANGED <<runVars, emitted, logged, finish, journalVars, run, record, watch>>

Flush ==
    /\ run = "flushing"
    /\ flushed' = 2 * emitted /\ run' = "running"
    /\ UNCHANGED <<runVars, emitted, logged, finish, journalVars, record, watch>>

\* The last event; the report is written afterwards.
JFinish ==
    /\ run = "drained"
    /\ finish' = IF \A t \in JTask : tstate[t] = "succeeded" THEN "succeeded" ELSE "failed"
    /\ emitted' = emitted + 1 /\ flushed' = 2 * emitted' /\ run' = "finished"
    /\ UNCHANGED <<runVars, logged, journalVars, record, watch>>

\* A crash, or a journal that cannot be written: the spans end as they are dropped.
CrashRun ==
    /\ run \in {"running", "flushing", "drained"}
    /\ run' = "crashed"
    /\ spans' = [t \in JTask |-> IF spans[t] = "open" THEN "interrupted" ELSE spans[t]]
    /\ UNCHANGED <<runVars, diskVars, known, offsets, drained, record, watch>>

\* The server: a cancelled request, or the end of a run, whatever it was.
Settle ==
    /\ record \notin Over
    /\ \/ run = "queued" /\ record' = "cancelled" /\ run' = "crashed"
       \/ /\ run = "finished" /\ UNCHANGED run
          /\ record' \in IF finish = "succeeded" THEN {"succeeded"} ELSE {"failed", "cancelled"}
       \/ run = "crashed" /\ record' \in {"failed", "interrupted"} /\ UNCHANGED run
    /\ UNCHANGED <<runVars, diskVars, journalVars, watch>>

-----------------------------------------------------------------------------
(* The watchers. *)

Watches(w) == watch' = w /\ UNCHANGED <<runVars, diskVars, journalVars, run, record>>
RunFailed(n) == FinishShown(n) /\ finish = "failed"
Least(a, b) == IF a < b THEN a ELSE b

\* The local watcher reads a part of the file and shows its complete events.
\* Without --follow it stops where the file ended when it began.
Poll ==
    LET limit == IF watch.follow THEN flushed ELSE IF watch.end = -1 THEN flushed ELSE watch.end
        at == Least(watch.at + PollHalves, limit)
        caught == at >= limit
        done == caught /\ (~watch.follow \/ FinishShown(at \div 2)) IN
    /\ watch.verdict = "watching" /\ ~watch.remote
    /\ run # "queued" /\ (emitted > 0 \/ watch.follow)
    /\ Watches([watch EXCEPT !.at = at, !.end = IF watch.follow THEN -1 ELSE limit,
                  !.verdict = IF ~done THEN @ ELSE IF RunFailed(at \div 2) THEN "failed" ELSE "ok"])

\* A page of the server: complete events after the cursor, and where the file ends.
Page ==
    /\ watch.verdict = "watching" /\ watch.remote /\ watch.page = -1
    /\ Watches([watch EXCEPT !.page = Least(OnDisk - watch.at \div 2, PageEvents),
                  !.end = IF ~watch.follow /\ @ = -1 THEN flushed ELSE @])

Conclude(shown, at, terminal) ==
    IF watch.follow THEN terminal /\ ((shown = 0 /\ watch.terminal) \/ FinishShown(at \div 2))
    ELSE shown = 0 \/ watch.at + 2 * watch.page >= watch.end

\* Then the state of the run, which may have changed since the page was read.
State ==
    LET allowed == IF watch.follow THEN watch.page
                   ELSE Least(watch.page, IF watch.end > watch.at THEN (watch.end - watch.at) \div 2 ELSE 0)
        at == watch.at + 2 * allowed
        terminal == record \in Over
        verdict == IF record \in Over \ {"succeeded"} \/ RunFailed(at \div 2) THEN "failed"
                   ELSE IF watch.follow /\ ~FinishShown(at \div 2) THEN "incomplete" ELSE "ok" IN
    /\ watch.verdict = "watching" /\ watch.remote /\ watch.page # -1
    /\ Watches([watch EXCEPT !.at = at, !.page = -1, !.terminal = terminal,
                  !.verdict = IF Conclude(allowed, at, terminal) THEN verdict ELSE @])

JRun == StartRun \/ Tick \/ Flush \/ JFinish \/ Settle
JNext ==
    \/ JRun \/ Spill \/ CrashRun
    \/ \E t \in JTask : LookUp(t) \/ LookedUp(t) \/ StartTask(t) \/ Write(t) \/ EndTask(t) \/ AbortTask(t)
    \/ Poll \/ Page \/ State

JSpec == JInit /\ [][JNext]_jVars

-----------------------------------------------------------------------------
(* Properties. *)

\* What the journal says of a task is what the task said, in order and once: a
\* part while the run goes on, and all of it before the run is said to be over.
\* Attempts, lookups that are rejected and output after the end do not change
\* that, and a span ends with the state its task ended in (Journal::update).
JournalIsTrue ==
    \A t \in JTask :
        /\ IsPrefix(logged[t], said[t])
        /\ run \in {"drained", "finished"} =>
             logged[t] = said[t] /\ known[t] = tstate[t] /\ spans[t] = tstate[t]

\* Nothing a task has put out is missing from the journal of a finished run.
NothingLost == run = "finished" => \A t \in JTask : Len(logged[t]) = Len(said[t])

WatchOver == watch.verdict \notin {"watching", "nobody"}

\* Whoever follows a run to its end has seen all of it, and is told how it
\* ended; a snapshot is what was complete when it was taken (observe, poll).
WatchersAreRight ==
    /\ WatchOver =>
         watch.at \div 2 = IF watch.follow THEN OnDisk ELSE watch.end \div 2
    /\ WatchOver /\ watch.follow =>
         run \in {"finished", "crashed"}
    /\ watch.verdict = "ok" /\ watch.follow => finish = "succeeded"
    /\ watch.verdict # "incomplete"
=============================================================================
