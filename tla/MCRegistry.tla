----------------------------- MODULE MCRegistry -----------------------------
(***************************************************************************)
(* What the registry follows: "indexer" is Indexer and "sync" TangledSync. *)
(* One behaviour is a behaviour of one of these parts, which `part' names; *)
(* the variables of the other stay zero.                                   *)
(***************************************************************************)
EXTENDS MCIndexer, TangledSync

VARIABLE part

NoIndexer ==
    /\ history = 0 /\ time = 0 /\ received = 0 /\ row = 0 /\ ledger = 0 /\ checkpoint = 0
    /\ phase = 0 /\ next = 0 /\ processing = 0 /\ failed = 0 /\ since = 0 /\ faults = 0
NoSync ==
    /\ remembered = 0 /\ signing = 0 /\ claim = 0 /\ index = 0 /\ worker = 0 /\ syncFaults = 0

PartsInit == \/ part = "indexer" /\ Init /\ NoSync
             \/ part = "sync" /\ SyncInit /\ NoIndexer

PartsNext ==
    /\ \/ part = "indexer" /\ Next /\ UNCHANGED syncVars
       \/ part = "sync" /\ SyncNext /\ UNCHANGED vars
    /\ UNCHANGED part

\* The fairness of Indexer and of TangledSync, while that part runs.
FairIndexer ==
    /\ WF_vars(part = "indexer" /\ Process) /\ WF_vars(part = "indexer" /\ Drained)
    /\ WF_vars(part = "indexer" /\ Start)
    /\ \A s \in Source : /\ WF_vars(part = "indexer" /\ Connect(s))
                         /\ WF_vars(part = "indexer" /\ Message(s))
                         /\ WF_vars(part = "indexer" /\ Receive(s))
FairTangled ==
    /\ WF_syncVars(part = "sync" /\ SyncTick)
    /\ \A c \in Client : WF_syncVars(part = "sync" /\ Schedule(c))
    /\ \A w \in Worker : WF_syncVars(part = "sync" /\ WorkerStep(w))

PartsSpec == PartsInit /\ [][PartsNext]_<<part, vars, syncVars>> /\ FairIndexer /\ FairTangled

-----------------------------------------------------------------------------
\* The index never has a gap below a checkpoint, keeps the artifact that was
\* published under a version, and implements PackageIndex: a subject shows the
\* newest of its revisions that are known, as the clocks of the sources agree.
Shown == INSTANCE PackageIndex
    WITH known <- IF part = "indexer" THEN Known ELSE [u \in Subject |-> {}],
         current <- IF part = "indexer" THEN Current ELSE [u \in Subject |-> 0]
IndexIsRight ==
    /\ [](part = "indexer" => TypeOK /\ Gapless)
    /\ [][part = "indexer" => KeepsArtifacts]_vars
    /\ Shown!Spec

\* Every event the sources see after their checkpoint is indexed in the end,
\* unless connections are given up again and again.
EventsIndexed ==
    <>[](part = "indexer" => \A s \in Source : ~failed[s]) =>
       <>(part = "indexer" =>
            \A i \in 2..Len(history) :
               Recordable(i) => \E s \in Source : Identity(s, i) \in ledger)

\* Two workers never index one account, and no worker outlives its claim.
IndexersExclude == part = "sync" => OneIndexer

\* An account that is the one that signs in, again and again, gets a fresh
\* index again and again, whatever was left behind.
SyncCatchesUp ==
    \A a \in Account :
       /\ <>[](part = "sync" => remembered = a /\ \A c \in Client : signing[c] \in {a, Nobody})
       /\ []<>(part = "sync" => \E c \in Client : signing[c] = a)
       => []<>(part = "sync" => index[a] # Nobody /\ index[a] <= WorkerLimit)
=============================================================================
