------------------------------ MODULE Indexer ------------------------------
(***************************************************************************)
(* The indexer of the package registry:                                    *)
(* apps/api/src/fluentci_api/jetstream/client_ffi.mjs and `apply_event` of *)
(* apps/api/src/fluentci_api/db/client.gleam.                              *)
(*                                                                         *)
(* Several Jetstream sources deliver the same history of a publisher's     *)
(* repository, each at its own pace and stamped with its own clock.  One   *)
(* queue serialises the writes; each source has its own connection and its *)
(* own durable checkpoint.  A step is one callback of the event loop.      *)
(***************************************************************************)
EXTENDS Integers, Sequences, FiniteSets, SequencesExt

CONSTANTS Source, Subject, None,
          Histories,   \* sequences of events: kind, subject, has a revision
          Clocks,      \* per source, the time_us of each event of a history
          Fresh,       \* sources without a checkpoint at the start
          Overlap,     \* 10_000_000
          MaxQueue,    \* 1000
          MaxFaults    \* bound: lost connections, failed writes, restarts

Kind == {"upsert", "account", "delete", "other", "invalid"}
Event == [kind : Kind, subject : Subject, rev : BOOLEAN]

ASSUME SourceAssumption == Fresh \subseteq Source /\ None \notin [rev : Nat, time : Nat, artifact : Nat]
ASSUME HistoryAssumption == \A h \in Histories : h \in Seq(Event) /\ h # <<>>
ASSUME BoundAssumption == Overlap \in Nat /\ MaxQueue \in Nat \ {0} /\ MaxFaults \in Nat
\* Every source stamps what it sees in the order of the repository.
ASSUME ClockAssumption ==
    \A c \in Clocks, h \in Histories : \A s \in Source :
       /\ \A i \in 1..Len(h) : c[s][i] \in Nat \ {0}
       /\ \A i, j \in 1..Len(h) : i < j => c[s][i] < c[s][j]

VARIABLES
    \* the sources
    history, time,  \* chosen once
    received,       \* per source, how much of the history it has seen
    \* SQLite
    row,            \* per subject: revision, event_time, artifact; or None
    ledger,         \* jetstream_events: identities
    checkpoint,     \* per source, 0 without one
    \* the process
    phase,          \* "up", "stopping", "down"
    next,           \* per source, the event its socket delivers next, 0 if closed
    processing,     \* the chain of messages, with their sources
    failed,         \* worker.failed
    \* history variables
    since,          \* per source, its first subscribed event, 0 before that
    faults

upstream == <<history, time>>
database == <<row, ledger, checkpoint>>
process == <<phase, next, processing, failed>>
vars == <<upstream, received, database, process, since, faults>>

-----------------------------------------------------------------------------
(* Events. *)

Events == 1..Len(history)
Recordable(i) == history[i].kind \in {"upsert", "account", "delete"}

\* eventId: an event without a revision is identified by its timestamp.
Identity(s, i) == <<i, IF history[i].rev THEN 0 ELSE time[s][i]>>

Queued(s) == Cardinality({k \in DOMAIN processing : processing[k].source = s})
Close(s) == next' = [next EXCEPT ![s] = 0]
Fault == faults < MaxFaults /\ faults' = faults + 1

-----------------------------------------------------------------------------
(* Writing: apply_event, one transaction. *)

\* Mutant: the last write wins.
NewerAlways(u, t) == TRUE
Newer(u, t) == row[u] = None \/ row[u].time < t

\* URL, checksum and version are those of the first record that was indexed.
Artifact(i) == LET old == row[history[i].subject] IN IF old = None THEN i ELSE old.artifact

\* mutate
Mutated(s, i) ==
    LET u == history[i].subject IN
    IF history[i].kind \in {"upsert", "account"} /\ Newer(u, time[s][i])
    THEN [row EXCEPT ![u] = [rev |-> i, time |-> time[s][i], artifact |-> Artifact(i)]]
    ELSE row

Checkpointed(s, i) ==
    checkpoint' = [checkpoint EXCEPT ![s] = IF @ < time[s][i] THEN time[s][i] ELSE @]

Apply(s, i) ==
    /\ Checkpointed(s, i)
    /\ IF Recordable(i) /\ Identity(s, i) \notin ledger
       THEN /\ ledger' = ledger \cup {Identity(s, i)}
            /\ row' = Mutated(s, i)
       ELSE UNCHANGED <<ledger, row>>

-----------------------------------------------------------------------------
(* The event loop. *)

Delivering(s) == phase = "up" /\ next[s] # 0 /\ next[s] <= received[s]

Overflow(s) == Queued(s) >= MaxQueue

\* socket.on("message")
Message(s) ==
    /\ Delivering(s)
    /\ IF Overflow(s)
       THEN /\ failed' = [failed EXCEPT ![s] = TRUE] /\ Close(s)
            /\ UNCHANGED processing
       ELSE /\ processing' = Append(processing, [source |-> s, event |-> next[s]])
            /\ next' = [next EXCEPT ![s] = @ + 1]
            /\ UNCHANGED failed
    /\ UNCHANGED <<upstream, received, database, phase, since, faults>>

\* The transaction of apply_event fails as a whole.
RolledBack == UNCHANGED database

\* One link of the chain.
Process ==
    /\ processing # <<>> /\ processing' = Tail(processing)
    /\ LET s == Head(processing).source
           i == Head(processing).event IN
       \/ /\ failed[s] \/ history[i].kind = "invalid"
          /\ UNCHANGED <<database, next, failed, faults>>
       \/ /\ ~failed[s] /\ history[i].kind # "invalid"
          /\ Apply(s, i) /\ UNCHANGED <<next, failed, faults>>
       \/ /\ ~failed[s] /\ history[i].kind # "invalid"
          /\ RolledBack /\ Fault
          /\ failed' = [failed EXCEPT ![s] = TRUE] /\ Close(s)
    /\ UNCHANGED <<upstream, received, phase, since>>

\* `await processing`; only the messages of this source matter to it.
Processed(s) == Queued(s) = 0

\* Mutant: a connection without a cursor.
SubscriptionLive(s) == received[s] + 1
\* What the source sends: the history after the cursor, or only what is new.
Subscription(s) ==
    IF checkpoint[s] = 0 THEN received[s] + 1
    ELSE CHOOSE i \in 1..Len(history) + 1 :
            \A j \in Events : j < i <=> time[s][j] < checkpoint[s] - Overlap

\* connect, after the delay of schedule.
Connect(s) ==
    /\ phase = "up" /\ next[s] = 0 /\ Processed(s)
    /\ next' = [next EXCEPT ![s] = Subscription(s)]
    /\ failed' = [failed EXCEPT ![s] = FALSE]
    /\ since' = [since EXCEPT ![s] = IF @ = 0 THEN Subscription(s) ELSE @]
    /\ UNCHANGED <<upstream, received, database, phase, processing, faults>>

-----------------------------------------------------------------------------
(* The environment: the sources, the network and the process. *)

Receive(s) ==
    /\ received[s] < Len(history)
    /\ received' = [received EXCEPT ![s] = @ + 1]
    /\ UNCHANGED <<upstream, database, process, since, faults>>

Disconnect(s) ==
    /\ next[s] # 0 /\ Close(s) /\ Fault
    /\ UNCHANGED <<upstream, received, database, phase, processing, failed, since>>

\* stop: the sockets are closed, the queue is drained.
Stop ==
    /\ phase = "up" /\ phase' = "stopping" /\ Fault
    /\ next' = [s \in Source |-> 0]
    /\ UNCHANGED <<upstream, received, database, processing, failed, since>>

Drained ==
    /\ phase = "stopping" /\ processing = <<>> /\ phase' = "down"
    /\ UNCHANGED <<upstream, received, database, next, processing, failed, since, faults>>

Crash ==
    /\ phase # "down" /\ phase' = "down" /\ Fault
    /\ next' = [s \in Source |-> 0] /\ processing' = <<>>
    /\ UNCHANGED <<upstream, received, database, failed, since>>

Start ==
    /\ phase = "down" /\ phase' = "up"
    /\ failed' = [s \in Source |-> FALSE]
    /\ UNCHANGED <<upstream, received, database, next, processing, since, faults>>

-----------------------------------------------------------------------------
\* A source that is not fresh has the first event of the history behind it.
Init ==
    /\ history \in Histories /\ time \in Clocks
    /\ received = [s \in Source |-> 1]
    /\ row = [u \in Subject |-> None] /\ ledger = {}
    /\ checkpoint = [s \in Source |-> IF s \in Fresh THEN 0 ELSE time[s][1]]
    /\ phase = "up" /\ next = [s \in Source |-> 0]
    /\ processing = <<>> /\ failed = [s \in Source |-> FALSE]
    /\ since = [s \in Source |-> IF s \in Fresh THEN 0 ELSE 2]
    /\ faults = 0

Finished == /\ phase = "up" /\ processing = <<>>
            /\ \A s \in Source : next[s] > Len(history)
            /\ UNCHANGED vars

Next == \/ \E s \in Source : Message(s) \/ Connect(s) \/ Receive(s) \/ Disconnect(s)
        \/ Process \/ Stop \/ Drained \/ Crash \/ Start \/ Finished

Spec == Init /\ [][Next]_vars

\* The event loop runs, the sources see the history and deliver it while they
\* are connected, and a process that ended is started again.
FairSpec == /\ Spec /\ WF_vars(Process) /\ WF_vars(Drained) /\ WF_vars(Start)
            /\ \A s \in Source : WF_vars(Connect(s)) /\ WF_vars(Message(s)) /\ WF_vars(Receive(s))

-----------------------------------------------------------------------------
(* Properties. *)

Row == [rev : Nat, time : Nat, artifact : Nat]

TypeOK ==
    /\ history \in Histories /\ time \in Clocks
    /\ \A s \in Source : received[s] \in Events
    /\ row \in [Subject -> Row \cup {None}]
    /\ ledger \subseteq Events \X Nat
    /\ checkpoint \in [Source -> Nat]
    /\ phase \in {"up", "stopping", "down"}
    /\ next \in [Source -> Nat] /\ since \in [Source -> Nat]
    /\ processing \in Seq([source : Source, event : Events])
    /\ \A s \in Source : Queued(s) <= MaxQueue
    /\ failed \in [Source -> BOOLEAN] /\ faults \in 0..MaxFaults

\* The checkpoint of a source never passes an event the source was subscribed
\* to and that is not indexed: whatever fails, it is replayed.
Gapless ==
    \A s \in Source, i \in Events :
       since[s] # 0 /\ since[s] <= i /\ time[s][i] <= checkpoint[s] /\ Recordable(i)
          => Identity(s, i) \in ledger

\* mutate keeps the URL, checksum and version of a package that is published.
KeepsArtifacts ==
    \A u \in Subject : row[u] # None => row'[u] # None /\ row'[u].artifact = row[u].artifact

\* mutate never replaces metadata by that of an older revision.
NeverStale ==
    [][\A u \in Subject : row[u] # None => row'[u] # None /\ row'[u].rev >= row[u].rev]_vars

Known == [u \in Subject |->
            {i \in Events : /\ history[i].kind \in {"upsert", "account"} /\ history[i].subject = u
                            /\ \E s \in Source : Identity(s, i) \in ledger}]
Current == [u \in Subject |-> IF row[u] = None THEN 0 ELSE row[u].rev]
=============================================================================
