----------------------------- MODULE MCRunServer -----------------------------
(***************************************************************************)
(* The run server and what it keeps on disk: one behaviour is a behaviour  *)
(* of one of the five parts, which `part' names; the variables of the      *)
(* other parts stay zero.  "keys" is RunServer with idempotency keys and   *)
(* saves that fail but few runs, "queue" is RunServer with more runs and   *)
(* neither.                                                                *)
(***************************************************************************)
EXTENDS RunServer, RunPages, RunProducts, MCJournal, TLC

CONSTANT KeyRuns  \* bound: the runs that are submitted in "keys"

VARIABLE part

BothModes == {TRUE, FALSE}

\* Run ids are interchangeable: states that differ in their names only are
\* explored once.
RunSymmetry == Permutations(Run)

\* In "keys" few runs are submitted; in "queue" none with a key, and no save fails.
KeysNext == Next /\ Cardinality({r \in Run : keyOf'[r] # "fresh"}) <= KeyRuns

QueueInit == FirstStart /\ faults = MaxFaults
QueueNext == Next /\ \A r \in Run : keyOf'[r] \notin Key

NoServer ==
    /\ state = 0 /\ admitted = 0 /\ result = 0 /\ submission = 0 /\ executions = 0
    /\ phase = 0 /\ boot = 0 /\ sequence = 0 /\ adm = 0 /\ op = 0
    /\ slots = 0 /\ queue = 0 /\ active = 0 /\ mem = 0 /\ token = 0
    /\ worker = 0 /\ verdict = 0 /\ keyOf = 0 /\ cancelled = 0 /\ torn = 0
    /\ faults = 0 /\ crashes = 0

NoPages == /\ kept = 0 /\ indexed = 0 /\ halfway = 0 /\ limit = 0
           /\ cursor = 0 /\ listed = 0 /\ present = 0

NoProducts ==
    /\ source = 0 /\ writing = 0 /\ moments = 0 /\ product = 0 /\ before = 0
    /\ copied = 0 /\ after = 0 /\ synced = 0 /\ stored = 0 /\ outcome = 0
    /\ stopAsked = 0 /\ bound = 0 /\ report = 0 /\ advertised = 0 /\ lost = 0
    /\ received = 0

NoJournal ==
    /\ incremental = 0 /\ tstate = 0 /\ tries = 0 /\ log = 0 /\ said = 0
    /\ emitted = 0 /\ logged = 0 /\ finish = 0 /\ flushed = 0 /\ known = 0
    /\ offsets = 0 /\ drained = 0 /\ spans = 0 /\ run = 0 /\ record = 0 /\ watch = 0

PartsInit ==
    \/ part = "keys" /\ Init /\ NoPages /\ NoProducts /\ NoJournal
    \/ part = "queue" /\ QueueInit /\ NoPages /\ NoProducts /\ NoJournal
    \/ part = "pages" /\ PagesInit /\ NoServer /\ NoProducts /\ NoJournal
    \/ part = "products" /\ ProductsInit /\ NoServer /\ NoPages /\ NoJournal
    \/ part = "journal" /\ MCJInit /\ NoServer /\ NoPages /\ NoProducts

PartsNext ==
    \/ part = "keys" /\ KeysNext /\ UNCHANGED <<part, pageVars, productVars, jVars>>
    \/ part = "queue" /\ QueueNext /\ UNCHANGED <<part, pageVars, productVars, jVars>>
    \/ part = "pages" /\ PagesNext /\ UNCHANGED <<part, vars, productVars, jVars>>
    \/ part = "products" /\ ProductsNext /\ UNCHANGED <<part, vars, pageVars, jVars>>
    \/ part = "journal" /\ MCJNext /\ UNCHANGED <<part, vars, pageVars, productVars>>
    \* A task's products and a run's journal come to an end; the rest never stops.
    \/ part \in {"products", "journal"} /\ UNCHANGED <<part, vars, pageVars, productVars, jVars>>

PartsSpec == PartsInit /\ [][PartsNext]_<<part, vars, pageVars, productVars, jVars>>

-----------------------------------------------------------------------------
\* What the server has promised about a run survives its threads, lost saves
\* and restarts: a run cancelled before it executed never executes, commands
\* are executed once per run and per key, and a completed report stands.
RunsAreKept == part = "keys" => TypeOK /\ CancelIsDurable /\ ExecutedOnce /\ ReportIsKept

\* Runs are given slots in the order of their admission, across restarts too,
\* never more than there are, and the queue that was persisted always fits when
\* the server starts again.
QueueIsFair ==
    part = "queue" => FirstComeFirstServed /\ Bounded /\ NeverRefused

\* The pages of the run history, put together, list every run once.
HistoryListed == part = "pages" => HistoryIsWhole

\* The products a report names are there, whole and of one moment.
ProductsStored == part = "products" => ProductsAreWhole

\* The journal of a run is what its tasks said, and whoever watches it is told so.
JournalHolds == part = "journal" => JournalIsTrue /\ WatchersAreRight
=============================================================================
