--------------------------- MODULE RegistryProofs ---------------------------
(***************************************************************************)
(* What holds of TangledSync for every set of accounts, clients and        *)
(* workers, and of Indexer for every history, and so of their composition  *)
(* in MCRegistry.                                                          *)
(***************************************************************************)
EXTENDS MCRegistry, FiniteSetTheorems, SequenceTheorems, TLAPS

-----------------------------------------------------------------------------
(* TangledSync. *)

Claim == [started : Nat, updated : Nat]
AtWork == [account : Account, step : {"start", "fetch", "store"}, age : Nat]

SyncTypeOK ==
    /\ claim \in [Account -> Claim \cup {Nobody}]
    /\ worker \in [Worker -> AtWork \cup {Nobody}]
    /\ signing \in [Client -> Account \cup {Nobody}]

\* The claim of a worker is as old as the worker: its start and its fetch take
\* WorkerLimit ticks each.
Claimant(w) ==
    LET a == worker[w].account IN
    /\ worker[w].age <= WorkerLimit
    /\ claim[a] # Nobody
    /\ claim[a].started <= worker[w].age + (IF worker[w].step = "start" THEN 0 ELSE WorkerLimit)

Claims ==
    \A w \in Worker : worker[w] # Nobody =>
       /\ Claimant(w)
       /\ \A v \in Worker : Works(v, worker[w].account) => v = w

SyncInv == SyncTypeOK /\ Claims

LEMMA SyncStart == SyncInit => SyncInv
  BY DEF SyncInit, SyncInv, SyncTypeOK, Claims

LEMMA SyncSafe == SyncInv => OneIndexer
<1> SUFFICES ASSUME SyncInv, NEW a \in Account
             PROVE  /\ Cardinality({w \in Worker : Works(w, a)}) <= 1
                    /\ (\E w \in Worker : Works(w, a)) => claim[a] # Nobody /\ claim[a].started <= ClaimLimit
  BY DEF OneIndexer
<1> USE DEF SyncInv, Works
<1>1. CASE \E w \in Worker : Works(w, a)
  <2> PICK w \in Worker : Works(w, a)
    BY <1>1
  <2>1. {v \in Worker : Works(v, a)} = {w}
    BY DEF Claims
  <2>2. Cardinality({v \in Worker : Works(v, a)}) = 1
    BY <2>1, FS_Singleton
  <2>3. /\ worker[w] \in AtWork /\ claim[a] \in Claim
        /\ claim[a].started <= worker[w].age + WorkerLimit /\ worker[w].age <= WorkerLimit
    BY SyncLimits DEF SyncTypeOK, Claims, Claimant, AtWork, Claim
  <2>4. claim[a].started <= ClaimLimit
    BY <2>3, SyncLimits DEF AtWork, Claim
  <2>5. QED
    BY <2>2, <2>3, <2>4, NobodyIsNobody DEF Claim
<1>2. CASE ~\E w \in Worker : Works(w, a)
  <2>1. {v \in Worker : Works(v, a)} = {}
    BY <1>2
  <2>2. QED
    BY <1>2, <2>1, FS_EmptySet
<1>3. QED
  BY <1>1, <1>2

\* A claim that can be acquired has no worker.
LEMMA AcquiredAlone ==
    ASSUME SyncInv, NEW a \in Account, Acquires(a), NEW w \in Worker
    PROVE  ~Works(w, a)
<1> SUFFICES ASSUME Works(w, a) PROVE FALSE
  OBVIOUS
<1>1. claim[a] # Nobody /\ claim[a].started <= ClaimLimit
  BY SyncSafe DEF OneIndexer
<1>2. claim[a] \in Claim
  BY <1>1 DEF SyncInv, SyncTypeOK
<1>3. QED
  BY <1>1, <1>2, SyncLimits DEF Acquires, Claim

\* A worker that ends gives back its claim or leaves it; the claims of others
\* stay as they are.
LEMMA EndKeeps ==
    ASSUME SyncInv, NEW w \in Worker, worker[w] # Nobody, WorkerEnds(w), signing' = signing,
           claim' \in [Account -> Claim \cup {Nobody}],
           \A a \in Account : a # worker[w].account => claim'[a] = claim[a]
    PROVE  SyncInv'
<1> USE DEF SyncInv, WorkerEnds
<1>1. SyncTypeOK'
  BY DEF SyncTypeOK
<1>2. ASSUME NEW v \in Worker, worker'[v] # Nobody
      PROVE  Claimant(v)' /\ \A u \in Worker : Works(u, worker[v].account)' => u = v
  <2>1. v # w /\ worker'[v] = worker[v] /\ worker[v].account \in Account
    BY <1>2 DEF SyncTypeOK, AtWork
  <2>2. worker[v].account # worker[w].account
    BY <2>1, <1>2 DEF Claims, Works
  <2>3. claim'[worker[v].account] = claim[worker[v].account]
    BY <2>1, <2>2
  <2>4. Claimant(v)'
    BY <1>2, <2>1, <2>3 DEF Claims, Claimant
  <2>5. ASSUME NEW u \in Worker, Works(u, worker[v].account)' PROVE u = v
    BY <1>2, <2>1, <2>5 DEF Claims, Works, SyncTypeOK
  <2>6. QED
    BY <2>4, <2>5
<1>3. Claims'
  <2> SUFFICES ASSUME NEW v \in Worker, worker'[v] # Nobody
               PROVE  Claimant(v)' /\ \A u \in Worker : Works(u, worker[v].account)' => u = v
    BY <1>1 DEF Claims, SyncTypeOK, Works
  <2>1. QED
    BY <1>2
<1>4. QED
  BY <1>1, <1>3

LEMMA SyncStep == SyncInv /\ [SyncNext]_syncVars => SyncInv'
<1> SUFFICES ASSUME SyncInv, [SyncNext]_syncVars PROVE SyncInv'
  OBVIOUS
<1> USE DEF SyncInv
<1>1. CASE UNCHANGED syncVars
  BY <1>1 DEF syncVars, SyncTypeOK, Claims, Claimant, Works
<1>2. ASSUME NEW c \in Client, NEW a \in Account, SignIn(c, a) PROVE SyncInv'
  BY <1>2 DEF SignIn, SyncTypeOK, Claims, Claimant, Works
<1>3. ASSUME NEW c \in Client, Schedule(c) PROVE SyncInv'
  <2> DEFINE a == signing[c]
  <2>0. a \in Account /\ signing' \in [Client -> Account \cup {Nobody}]
    BY <1>3 DEF Schedule, SyncTypeOK
  <2>1. CASE UNCHANGED <<claim, worker>>
    BY <2>0, <2>1 DEF SyncTypeOK, Claims, Claimant, Works
  <2>2. Claimed(a) \in Claim
    BY <2>0, SyncLimits DEF Claimed, Long, Claim, SyncTypeOK
  <2>3. ASSUME NEW w \in Worker, Acquires(a), worker[w] = Nobody,
               worker' = [worker EXCEPT ![w] = [account |-> a, step |-> "start", age |-> 0]],
               claim' = [claim EXCEPT ![a] = Claimed(a)]
        PROVE  SyncInv'
    <3> DEFINE new == [account |-> a, step |-> "start", age |-> 0]
    <3>1. new \in AtWork /\ new # Nobody
      BY <2>0, NobodyIsNobody DEF AtWork
    <3>2. SyncTypeOK'
      BY <2>0, <2>2, <2>3, <3>1 DEF SyncTypeOK
    <3>3. \A v \in Worker : worker[v] # Nobody => worker[v].account # a
      BY <2>0, <2>3, AcquiredAlone DEF Works
    <3>4. worker' = [worker EXCEPT ![w] = new] /\ new.account = a /\ new.step = "start" /\ new.age = 0
      BY <2>3
    <3>5. claim'[a] = Claimed(a) /\ Claimed(a).started = 0 /\ Claimed(a) # Nobody
      BY <2>0, <2>2, <2>3, NobodyIsNobody DEF Claimed, SyncTypeOK, Claim
    <3> HIDE DEF new
    <3>6. ASSUME NEW v \in Worker, worker'[v] # Nobody
          PROVE  Claimant(v)' /\ \A u \in Worker : Works(u, worker[v].account)' => u = v
      <4>1. CASE v = w
        <5>1. worker'[v] = new
          BY <3>4, <4>1 DEF SyncTypeOK
        <5>2. Claimant(v)'
          BY <3>4, <3>5, <5>1, SyncLimits DEF Claimant
        <5>3. ASSUME NEW u \in Worker, u # v PROVE ~Works(u, worker[v].account)'
          BY <3>3, <3>4, <4>1, <5>1, <5>3 DEF Works, SyncTypeOK
        <5>4. QED
          BY <5>2, <5>3
      <4>2. CASE v # w
        <5>1. worker'[v] = worker[v] /\ worker[v].account # a
          BY <3>3, <3>4, <3>6, <4>2 DEF SyncTypeOK
        <5>2. worker[v].account \in Account
          BY <5>1, <3>6 DEF SyncTypeOK, AtWork
        <5>3. claim'[worker[v].account] = claim[worker[v].account]
          BY <2>3, <5>1, <5>2 DEF SyncTypeOK
        <5>4. Claimant(v)'
          BY <3>6, <5>1, <5>3 DEF Claims, Claimant
        <5>5. ASSUME NEW u \in Worker, Works(u, worker[v].account)' PROVE u = v
          BY <3>4, <3>6, <5>1, <5>5 DEF Claims, Works, SyncTypeOK
        <5>6. QED
          BY <5>4, <5>5
      <4>3. QED
        BY <4>1, <4>2
    <3>7. QED
      BY <3>2, <3>6 DEF Claims
  <2>4. CASE Acquires(a) /\ worker' = worker /\ claim' = [claim EXCEPT ![a] = [Claimed(a) EXCEPT !.started = Long]]
    <3>1. [Claimed(a) EXCEPT !.started = Long] \in Claim
      BY <2>2, SyncLimits DEF Claim, Long
    <3>2. SyncTypeOK'
      BY <2>0, <2>4, <3>1 DEF SyncTypeOK
    <3>3. \A v \in Worker : worker[v] # Nobody => worker[v].account # a
      BY <2>0, <2>4, AcquiredAlone DEF Works
    <3>4. \A v \in Worker : worker[v] # Nobody => claim'[worker[v].account] = claim[worker[v].account]
      BY <2>0, <2>4, <3>3 DEF SyncTypeOK, AtWork
    <3>5. Claims'
      BY <2>4, <3>4 DEF Claims, Claimant, Works
    <3>6. QED
      BY <3>2, <3>5
  <2>5. QED
    BY <1>3, <2>1, <2>3, <2>4 DEF Schedule
<1>4. ASSUME NEW w \in Worker, WorkerStep(w) PROVE SyncInv'
  <2> DEFINE a == worker[w].account
  <2>0. worker[w] # Nobody /\ worker[w] \in AtWork /\ a \in Account /\ claim[a] \in Claim /\ signing' = signing
    BY <1>4 DEF WorkerStep, ReadAccount, FetchPages, StoreIndex, SyncTypeOK, AtWork, Claims, Claimant
  <2>1. CASE WorkerEnds(w) /\ Release(a)
    <3>1. claim' \in [Account -> Claim \cup {Nobody}] /\ \A b \in Account : b # a => claim'[b] = claim[b]
      BY <2>0, <2>1, SyncLimits DEF Release, SyncTypeOK, Claim, Long
    <3>2. QED
      BY <2>0, <2>1, <3>1, EndKeeps
  <2>2. CASE WorkerEnds(w) /\ claim' = [claim EXCEPT ![a] = [started |-> Long, updated |-> 0]]
    <3>1. claim' \in [Account -> Claim \cup {Nobody}] /\ \A b \in Account : b # a => claim'[b] = claim[b]
      BY <2>0, <2>2, SyncLimits DEF SyncTypeOK, Claim, Long
    <3>2. QED
      BY <2>0, <2>2, <3>1, EndKeeps
  <2>3. ASSUME NEW new \in AtWork, new.account = a, new.step # "start",
               \/ worker[w].step = "start" /\ new.age = 0
               \/ worker[w].step = "fetch" /\ new.age = worker[w].age,
               worker' = [worker EXCEPT ![w] = new], claim' = claim
        PROVE  SyncInv'
    <3>1. new \in AtWork /\ new # Nobody /\ new.account = a
      BY <2>3, NobodyIsNobody DEF AtWork
    <3>2. worker' = [worker EXCEPT ![w] = new]
      BY <2>3
    <3>3. SyncTypeOK'
      BY <2>0, <2>3, <3>1, <3>2 DEF SyncTypeOK
    <3>4. \A v \in Worker, b \in Account : Works(v, b)' <=> Works(v, b)
      BY <2>0, <3>1, <3>2 DEF Works, SyncTypeOK
    <3>5. Claimant(w)'
      <4>1. /\ worker[w].age <= WorkerLimit /\ claim[a] # Nobody
            /\ claim[a].started <= worker[w].age + (IF worker[w].step = "start" THEN 0 ELSE WorkerLimit)
        BY <2>0 DEF Claims, Claimant
      <4>2. claim[a].started <= new.age + WorkerLimit /\ new.age <= WorkerLimit
        BY <2>0, <2>3, <4>1, SyncLimits DEF AtWork, Claim
      <4>3. worker'[w] = new
        BY <3>2 DEF SyncTypeOK
      <4>4. QED
        BY <2>3, <3>1, <4>1, <4>2, <4>3 DEF Claimant
    <3>6. ASSUME NEW v \in Worker, worker'[v] # Nobody
          PROVE  Claimant(v)' /\ \A u \in Worker : Works(u, worker[v].account)' => u = v
      <4>1. worker[v] # Nobody /\ worker'[v].account = worker[v].account /\ worker[v].account \in Account
        BY <2>0, <3>1, <3>2, <3>6 DEF SyncTypeOK, AtWork
      <4>2. Claimant(v)'
        <5>1. CASE v = w
          BY <3>5, <5>1
        <5>2. CASE v # w
          BY <2>3, <3>2, <4>1, <5>2 DEF Claims, Claimant, SyncTypeOK
        <5>3. QED
          BY <5>1, <5>2
      <4>3. QED
        BY <3>4, <4>1, <4>2 DEF Claims
    <3>7. QED
      BY <3>3, <3>6 DEF Claims
  <2>4. CASE ReadAccount(w)
    <3>1. CASE worker' = [worker EXCEPT ![w].step = "fetch", ![w].age = 0] /\ claim' = claim
      <4> DEFINE new == [worker[w] EXCEPT !.step = "fetch", !.age = 0]
      <4>1. worker' = [worker EXCEPT ![w] = new]
        BY <2>0, <3>1 DEF SyncTypeOK, AtWork
      <4>2. new \in AtWork /\ new.account = a /\ new.step = "fetch" /\ new.age = 0
        BY <2>0 DEF AtWork
      <4>3. claim' = claim
        BY <3>1
      <4>4. worker[w].step = "start"
        BY <2>4 DEF ReadAccount
      <4> HIDE DEF new
      <4>5. QED
        BY <2>3, <4>1, <4>2, <4>3, <4>4
    <3>2. QED
      BY <2>1, <2>4, <3>1 DEF ReadAccount
  <2>5. CASE FetchPages(w)
    <3>1. CASE worker' = [worker EXCEPT ![w].step = "store"] /\ claim' = claim
      <4> DEFINE new == [worker[w] EXCEPT !.step = "store"]
      <4>1. worker' = [worker EXCEPT ![w] = new]
        BY <2>0, <3>1 DEF SyncTypeOK, AtWork
      <4>2. /\ worker[w].step = "fetch" /\ worker[w].age \in Nat
            /\ new \in AtWork /\ new.account = a /\ new.step = "store" /\ new.age = worker[w].age
        BY <2>0, <2>5 DEF FetchPages, AtWork
      <4> HIDE DEF new
      <4>3. QED
        BY <2>3, <3>1, <4>1, <4>2
    <3>2. QED
      BY <2>1, <2>5, <3>1 DEF FetchPages
  <2>6. CASE StoreIndex(w)
    BY <2>1, <2>2, <2>6 DEF StoreIndex
  <2>7. QED
    BY <1>4, <2>4, <2>5, <2>6 DEF WorkerStep
<1>5. ASSUME NEW w \in Worker, WorkerKilled(w) PROVE SyncInv'
  <2>1. /\ claim' \in [Account -> Claim \cup {Nobody}] /\ signing' = signing
        /\ worker[w] # Nobody /\ WorkerEnds(w)
        /\ \A a \in Account : a # worker[w].account => claim'[a] = claim[a]
    BY <1>5 DEF WorkerKilled, SyncTypeOK
  <2>2. QED
    BY <2>1, EndKeeps
<1>6. CASE SyncTick
  <2>1. ASSUME NEW a \in Account, claim[a] # Nobody
        PROVE  claim'[a] \in Claim /\ claim'[a].started <= claim[a].started + 1
    BY <1>6, <2>1, SyncLimits DEF SyncTick, SyncTypeOK, Claim, Older, Long
  <2>2. claim' \in [Account -> Claim \cup {Nobody}]
    BY <1>6, <2>1 DEF SyncTick
  <2>3. ASSUME NEW w \in Worker, worker[w] # Nobody
        PROVE  /\ worker[w] \in AtWork /\ worker'[w] \in AtWork /\ worker'[w].account = worker[w].account
               /\ worker'[w].step = worker[w].step /\ worker'[w].age = worker[w].age + 1
               /\ worker'[w].age <= WorkerLimit
    BY <1>6, <2>3, SyncLimits DEF SyncTick, SyncTypeOK, AtWork
  <2>4. worker' \in [Worker -> AtWork \cup {Nobody}] /\ \A w \in Worker : worker'[w] # Nobody <=> worker[w] # Nobody
    <3>1. worker' = [w \in Worker |-> worker'[w]] /\ \A w \in Worker : worker[w] = Nobody => worker'[w] = Nobody
      BY <1>6 DEF SyncTick
    <3>2. \A w \in Worker : worker[w] # Nobody => worker'[w] # Nobody
      BY <2>3, NobodyIsNobody DEF AtWork
    <3>3. QED
      BY <2>3, <3>1, <3>2
  <2>5. ASSUME NEW w \in Worker, worker'[w] # Nobody
        PROVE  Claimant(w)' /\ \A v \in Worker : Works(v, worker[w].account)' => v = w
    <3> DEFINE a == worker[w].account
    <3>1. worker[w] # Nobody /\ worker'[w].account = a /\ a \in Account
      BY <2>3, <2>4, <2>5 DEF AtWork
    <3>2. claim[a] # Nobody /\ claim[a] \in Claim /\ claim'[a] \in Claim /\ claim'[a] # Nobody
      BY <2>1, <3>1, NobodyIsNobody DEF Claims, Claimant, SyncTypeOK, Claim
    <3>3. claim'[a].started <= worker'[w].age + (IF worker[w].step = "start" THEN 0 ELSE WorkerLimit)
      BY <2>1, <2>3, <3>1, <3>2, SyncLimits DEF Claims, Claimant, Claim, AtWork
    <3>4. Claimant(w)'
      BY <2>3, <3>1, <3>2, <3>3 DEF Claimant
    <3>5. ASSUME NEW v \in Worker, Works(v, worker[w].account)' PROVE v = w
      BY <2>3, <2>4, <3>1, <3>5 DEF Claims, Works
    <3>6. QED
      BY <3>4, <3>5
  <2>6. SyncTypeOK'
    BY <1>6, <2>2, <2>4 DEF SyncTick, SyncTypeOK
  <2>7. QED
    BY <2>5, <2>6 DEF Claims
<1>7. QED
  BY <1>1, <1>2, <1>3, <1>4, <1>5, <1>6 DEF SyncNext

\* Two workers never index one account, however they are scheduled, killed and
\* started, for any number of accounts, clients and workers, if a claim lasts
\* as long as a worker needs to start and to fetch.
THEOREM SyncExcludes == SyncSpec => []OneIndexer
  BY SyncStart, SyncStep, SyncSafe, PTL DEF SyncSpec

\* So it is in the composition of MCRegistry.
THEOREM SyncStaysExclusive == PartsSpec => []IndexersExclude
<1> DEFINE Holds == part = "sync" => SyncInv
<1>1. PartsInit => Holds
  BY SyncStart DEF PartsInit
<1>2. Holds /\ [PartsNext]_<<part, vars, syncVars>> => Holds'
  BY SyncStep DEF PartsNext
<1>3. Holds => IndexersExclude
  BY SyncSafe DEF IndexersExclude
<1>4. QED
  BY <1>1, <1>2, <1>3, PTL DEF PartsSpec

-----------------------------------------------------------------------------
(* Indexer: the queue of messages. *)

Places(q, s) == {k \in DOMAIN q : q[k].source = s}

LEMMA PlacesAreFinite ==
    ASSUME NEW L, NEW q \in Seq(L), NEW s
    PROVE  /\ IsFiniteSet(Places(q, s)) /\ Cardinality(Places(q, s)) \in Nat
           /\ Cardinality(Places(q, s)) = 0 => \A k \in DOMAIN q : q[k].source # s
           /\ q = <<>> => Cardinality(Places(q, s)) = 0
<1>1. Places(q, s) \subseteq 1..Len(q) /\ Len(q) \in Nat
  BY DEF Places
<1>2. IsFiniteSet(1..Len(q))
  BY <1>1, FS_Interval
<1>3. IsFiniteSet(Places(q, s))
  BY <1>1, <1>2, FS_Subset
<1>4. Cardinality(Places(q, s)) \in Nat
  BY <1>3, FS_CardinalityType
<1>5. Cardinality(Places(q, s)) = 0 => Places(q, s) = {}
  BY <1>3, FS_EmptySet
<1>6. q = <<>> => Places(q, s) = {}
  BY DEF Places
<1>7. QED
  BY <1>3, <1>4, <1>5, <1>6, FS_EmptySet DEF Places

\* A message that is queued counts for its source only.
LEMMA PlacesAppend ==
    ASSUME NEW L, NEW q \in Seq(L), NEW l \in L, NEW s
    PROVE  Cardinality(Places(Append(q, l), s)) =
              Cardinality(Places(q, s)) + (IF l.source = s THEN 1 ELSE 0)
<1> DEFINE n == Len(q) + 1
<1>1. /\ DOMAIN Append(q, l) = 1..n /\ DOMAIN q = 1..Len(q) /\ Len(q) \in Nat
      /\ \A k \in 1..Len(q) : Append(q, l)[k] = q[k]
      /\ Append(q, l)[n] = l
  BY AppendProperties
<1>2. CASE l.source = s
  <2>1. Places(Append(q, l), s) = Places(q, s) \cup {n} /\ n \notin Places(q, s)
    BY <1>1, <1>2 DEF Places
  <2>2. QED
    BY <1>2, <2>1, PlacesAreFinite, FS_AddElement
<1>3. CASE l.source # s
  <2>1. Places(Append(q, l), s) = Places(q, s)
    BY <1>1, <1>3 DEF Places
  <2>2. QED
    BY <1>3, <2>1, PlacesAreFinite
<1>4. QED
  BY <1>2, <1>3

\* Taking the first message counts no source for more.
LEMMA PlacesTail ==
    ASSUME NEW L, NEW q \in Seq(L), q # <<>>, NEW s
    PROVE  Cardinality(Places(Tail(q), s)) <= Cardinality(Places(q, s))
<1> DEFINE T == Places(Tail(q), s)
           f == [k \in T |-> k + 1]
<1>1. /\ DOMAIN Tail(q) = 1..Len(q) - 1 /\ DOMAIN q = 1..Len(q) /\ Len(q) \in Nat
      /\ \A k \in 1..Len(q) - 1 : Tail(q)[k] = q[k + 1]
  BY HeadTailProperties
<1>2. \A k \in T : k \in Nat /\ k + 1 \in Places(q, s)
  BY <1>1 DEF Places
<1>3. f \in [T -> Places(q, s)]
  BY <1>2
<1>4. \A a, b \in T : f[a] = f[b] => a = b
  BY <1>2
<1>5. f \in Injection(T, Places(q, s))
  BY <1>3, <1>4 DEF Injection, IsInjective
<1>6. IsFiniteSet(Places(q, s))
  BY PlacesAreFinite
<1>7. QED
  BY <1>5, <1>6, FS_Injection

LEMMA QueuedCounts == \A s : Queued(s) = Cardinality(Places(processing, s))
  BY DEF Queued, Places

-----------------------------------------------------------------------------
(* Indexer: where a source resumes. *)

\* The history is a sequence of events, and every source stamps it.
LEMMA Stamps ==
    ASSUME TypeOK, NEW s \in Source
    PROVE  /\ Len(history) \in Nat \ {0} /\ history \in [Events -> Event] /\ history # <<>>
           /\ \A i \in Events : time[s][i] \in Nat \ {0}
           /\ \A i, j \in Events : i < j => time[s][i] < time[s][j]
<1>1. history \in Histories /\ time \in Clocks
  BY DEF TypeOK
<1>2. history \in Seq(Event) /\ history # <<>>
  BY <1>1, HistoryAssumption
<1>3. Len(history) \in Nat \ {0} /\ history \in [Events -> Event]
  BY <1>2 DEF Events
<1>4. QED
  BY <1>1, <1>2, <1>3, ClockAssumption DEF Events

\* What a connection resumes at is the first event inside of the overlap.
LEMMA Resumes ==
    ASSUME TypeOK, NEW s \in Source
    PROVE  /\ Subscription(s) \in Nat
           /\ checkpoint[s] # 0 =>
                 \A j \in Events : j < Subscription(s) <=> time[s][j] < checkpoint[s] - Overlap
<1>1. checkpoint[s] \in Nat /\ received[s] \in Nat /\ Overlap \in Nat
  BY BoundAssumption, Stamps DEF TypeOK, Events
<1>2. CASE checkpoint[s] = 0
  BY <1>1, <1>2 DEF Subscription
<1>3. CASE checkpoint[s] # 0
  <2> DEFINE x == checkpoint[s] - Overlap
             S == {j \in Events : time[s][j] < x}
             n == Cardinality(S)
             P(i) == \A j \in Events : j < i <=> time[s][j] < x
  <2>1. Len(history) \in Nat /\ Events = 1..Len(history) /\ x \in Int
    BY <1>1, Stamps DEF Events
  <2>2. IsFiniteSet(Events) /\ Cardinality(Events) = Len(history)
    <3> DEFINE m == Len(history)
    <3>1. m \in Nat /\ m # 0
      BY Stamps
    <3> HIDE DEF m
    <3>2. IsFiniteSet(1..m) /\ Cardinality(1..m) = m
      BY <3>1, FS_Interval
    <3>3. QED
      BY <2>1, <3>2 DEF m
  <2>3. IsFiniteSet(S) /\ n \in Nat /\ n <= Len(history)
    <3>1. S \subseteq Events
      OBVIOUS
    <3>2. QED
      BY <2>2, <3>1, FS_Subset, FS_CardinalityType
  <2>4. ASSUME NEW j \in S PROVE j <= n
    <3>1. j \in 1..Len(history) /\ time[s][j] < x
      BY <2>1
    <3>2. 1..j \subseteq S
      BY <2>1, <3>1, Stamps
    <3>3. Cardinality(1..j) = j
      BY <3>1, FS_Interval
    <3>4. Cardinality(1..j) <= Cardinality(S)
      BY <2>3, <3>2, FS_Subset
    <3>5. QED
      BY <3>3, <3>4
  <2>5. ASSUME NEW j \in Events, j \notin S PROVE n < j
    <3>1. j \in 1..Len(history) /\ ~(time[s][j] < x)
      BY <2>1, <2>5
    <3>2. S \subseteq 1..(j - 1)
      BY <2>1, <3>1, Stamps
    <3>3. IsFiniteSet(1..(j - 1)) /\ Cardinality(1..(j - 1)) = j - 1
      BY <3>1, FS_Interval
    <3>4. n <= j - 1
      BY <3>2, <3>3, FS_Subset
    <3>5. QED
      BY <2>3, <3>1, <3>4
  <2>6. n + 1 \in 1..Len(history) + 1
    BY <2>1, <2>3
  <2>7. P(n + 1)
    <3> HIDE DEF n
    <3>1. \A j \in Events : j \in Nat /\ (time[s][j] < x <=> j \in S)
      BY <2>1
    <3> HIDE DEF S
    <3>2. QED
      BY <2>3, <2>4, <2>5, <3>1
  <2> HIDE DEF n, S
  <2>8. \E i \in 1..Len(history) + 1 : P(i)
    BY <2>6, <2>7
  <2>9. Subscription(s) = CHOOSE i \in 1..Len(history) + 1 : P(i)
    BY <1>3 DEF Subscription
  <2> HIDE DEF P
  <2>10. Subscription(s) \in 1..Len(history) + 1 /\ P(Subscription(s))
    BY <2>8, <2>9
  <2>11. QED
    BY <1>3, <2>1, <2>10 DEF P
<1>4. QED
  BY <1>2, <1>3

-----------------------------------------------------------------------------
(* Indexer: the inductive invariant. *)

Link == [source : Source, event : Events]

Streams ==
    /\ received \in [Source -> Nat]
    /\ phase = "down" => processing = <<>>
    /\ phase # "up" => \A s \in Source : next[s] = 0

\* An event of the history is indexed, or waits before the k-th message.
Got(s, i, k) ==
    Recordable(i) =>
       \/ Identity(s, i) \in ledger
       \/ \E m \in DOMAIN processing : m < k /\ processing[m].source = s /\ processing[m].event = i

\* What a source subscribed to and has passed is indexed or waits in the queue,
\* in the order of the history, unless its connection failed and is to resume.
Contiguous ==
    \A s \in Source \ Fresh : failed[s] = FALSE =>
       /\ next[s] # 0 =>
             \A i \in Events : since[s] <= i /\ i < next[s] => Got(s, i, Len(processing) + 1)
       /\ \A k \in DOMAIN processing : processing[k].source = s =>
             \A i \in Events : since[s] <= i /\ i < processing[k].event => Got(s, i, k)

\* Gapless, of the sources that have a checkpoint from the start.
NoGaps ==
    \A s \in Source \ Fresh :
       /\ since[s] # 0 /\ checkpoint[s] # 0
       /\ \A i \in Events : since[s] <= i /\ time[s][i] <= checkpoint[s] /\ Recordable(i)
                              => Identity(s, i) \in ledger

IndexInv == TypeOK /\ Streams /\ Contiguous /\ NoGaps

LEMMA LinkProcessing == TypeOK => processing \in Seq(Link)
  BY DEF TypeOK, Link

LEMMA IndexStart == Init => IndexInv
<1> SUFFICES ASSUME Init PROVE IndexInv
  OBVIOUS
<1>1. /\ history \in Seq(Event) /\ history # <<>> /\ Len(history) \in Nat \ {0} /\ 1 \in Events
      /\ \A s \in Source : time[s][1] \in Nat \ {0}
      /\ \A s \in Source : \A i, j \in Events : i < j => time[s][i] < time[s][j]
  <2>1. history \in Seq(Event) /\ history # <<>>
    BY HistoryAssumption DEF Init
  <2>2. Len(history) \in Nat \ {0} /\ 1 \in Events
    BY <2>1 DEF Events
  <2>3. QED
    BY <2>1, <2>2, ClockAssumption DEF Init, Events
<1>2. \A s \in Source : Queued(s) = 0
  <2>1. processing \in Seq(Link) /\ processing = <<>>
    BY DEF Init
  <2>2. QED
    BY <2>1, PlacesAreFinite, QueuedCounts
<1>3. TypeOK
  BY <1>1, <1>2, BoundAssumption DEF Init, TypeOK
<1>4. Streams /\ Contiguous
  BY DEF Init, Streams, Contiguous
<1>5. NoGaps
  <2>1. ASSUME NEW s \in Source \ Fresh, NEW i \in Events, since[s] <= i, time[s][i] <= checkpoint[s]
        PROVE  FALSE
    <3>1. since[s] = 2 /\ checkpoint[s] = time[s][1]
      BY DEF Init
    <3>2. i \in Nat /\ 1 < i /\ 1 \in Events
      BY <1>1, <2>1, <3>1 DEF Events
    <3>3. time[s][1] < time[s][i] /\ time[s][1] \in Nat /\ time[s][i] \in Nat
      <4>1. /\ history \in Histories /\ time \in Clocks
            /\ \A j \in 1..Len(history) : time[s][j] \in Nat \ {0}
        BY ClockAssumption DEF Init
      <4>2. QED
        BY <1>1, <3>2, <4>1 DEF Events
    <3>4. QED
      BY <2>1, <3>1, <3>3
  <2>2. QED
    BY <1>1, <2>1, SourceAssumption DEF Init, NoGaps
<1>6. QED
  BY <1>3, <1>4, <1>5 DEF IndexInv

\* The types, and what a stopped process keeps.
LEMMA IndexTypes == TypeOK /\ Streams /\ [Next]_vars => (TypeOK /\ Streams)'
<1> SUFFICES ASSUME TypeOK, Streams, [Next]_vars PROVE (TypeOK /\ Streams)'
  OBVIOUS
<1> USE DEF upstream, database, process, Fault, Close
<1>a. /\ processing \in Seq(Link) /\ Len(history) \in Nat \ {0}
      /\ \A s \in Source : Queued(s) \in Nat /\ Queued(s) <= MaxQueue
  <2>1. processing \in Seq(Link)
    BY LinkProcessing
  <2>3. ASSUME NEW s \in Source PROVE Queued(s) \in Nat /\ Queued(s) <= MaxQueue
    BY <2>1, QueuedCounts, PlacesAreFinite DEF TypeOK
  <2>4. Len(history) \in Nat \ {0}
    BY HistoryAssumption DEF TypeOK
  <2>5. QED
    BY <2>1, <2>3, <2>4
<1>b. ASSUME UNCHANGED upstream PROVE Events' = Events /\ Link' = Link
  BY <1>b DEF Events, Link
<1>c. ASSUME UNCHANGED <<upstream, processing>> PROVE \A s \in Source : Queued(s)' = Queued(s)
  BY <1>c DEF Queued
<1>1. CASE UNCHANGED vars
  <2>1. UNCHANGED <<upstream, received, database, process, since, faults>>
    BY <1>1 DEF vars
  <2>2. QED
    BY <2>1, <1>b, <1>c DEF TypeOK, Streams, Row
<1>2. ASSUME NEW s \in Source, Message(s) PROVE (TypeOK /\ Streams)'
  <2> USE <1>2 DEF Message
  <2>0. next[s] \in Events /\ UNCHANGED <<upstream, received, database, phase, since, faults>> /\ phase = "up"
    BY DEF Delivering, TypeOK, Events
  <2>1. CASE Overflow(s)
    <3>1. UNCHANGED processing /\ failed' = [failed EXCEPT ![s] = TRUE] /\ next' = [next EXCEPT ![s] = 0]
      BY <2>1
    <3>2. failed' \in [Source -> BOOLEAN] /\ next' \in [Source -> Nat]
      BY <3>1 DEF TypeOK
    <3>3. QED
      BY <2>0, <3>1, <3>2, <1>b, <1>c DEF TypeOK, Streams, Row
  <2>2. CASE ~Overflow(s)
    <3> DEFINE l == [source |-> s, event |-> next[s]]
    <3>1. /\ processing' = Append(processing, l) /\ next' = [next EXCEPT ![s] = next[s] + 1]
          /\ failed' = failed /\ l \in Link /\ l.source = s
      BY <2>0, <2>2 DEF Link
    <3> HIDE DEF l
    <3>2. next' \in [Source -> Nat] /\ processing' \in Seq(Link)
      BY <1>a, <3>1, AppendProperties DEF TypeOK
    <3>3. ASSUME NEW t \in Source PROVE Queued(t)' <= MaxQueue
      <4>1. Queued(t)' = Cardinality(Places(processing', t))
        BY DEF Queued, Places
      <4>2. Cardinality(Places(processing', t)) = Queued(t) + (IF s = t THEN 1 ELSE 0)
        BY <1>a, <3>1, PlacesAppend, QueuedCounts
      <4>3. Queued(s) < MaxQueue
        BY <1>a, <2>2, BoundAssumption DEF Overflow
      <4>4. QED
        BY <1>a, <4>1, <4>2, <4>3, BoundAssumption
    <3>4. TypeOK'
      BY <1>b, <2>0, <3>1, <3>2, <3>3 DEF TypeOK, Row, Link
    <3>5. Streams'
      BY <2>0 DEF Streams
    <3>6. QED
      BY <3>4, <3>5
  <2>3. QED
    BY <2>1, <2>2
<1>3. ASSUME NEW s \in Source, Connect(s) PROVE (TypeOK /\ Streams)'
  <2>1. Subscription(s) \in Nat
    BY Resumes
  <2>2. next' \in [Source -> Nat] /\ since' \in [Source -> Nat] /\ failed' \in [Source -> BOOLEAN]
    BY <1>3, <2>1 DEF Connect, TypeOK
  <2>3. UNCHANGED <<upstream, received, database, phase, processing, faults>> /\ phase = "up"
    BY <1>3 DEF Connect
  <2>4. QED
    BY <2>2, <2>3, <1>b, <1>c DEF TypeOK, Streams, Row
<1>4. ASSUME NEW s \in Source, Receive(s) PROVE (TypeOK /\ Streams)'
  <2>1. received' \in [Source -> Nat] /\ \A t \in Source : received'[t] \in Events
    <3>1. received[s] < Len(history) /\ received' = [received EXCEPT ![s] = received[s] + 1]
      BY <1>4 DEF Receive
    <3>2. received \in [Source -> Nat] /\ \A t \in Source : received[t] \in 1..Len(history)
      BY DEF TypeOK, Streams, Events
    <3>3. received[s] + 1 \in 1..Len(history)
      BY <1>a, <3>1, <3>2
    <3>4. QED
      BY <3>1, <3>2, <3>3 DEF Events
  <2>2. UNCHANGED <<upstream, database, process, since, faults>>
    BY <1>4 DEF Receive
  <2>3. QED
    BY <2>1, <2>2, <1>b, <1>c DEF TypeOK, Streams, Row
<1>5. ASSUME NEW s \in Source, Disconnect(s) PROVE (TypeOK /\ Streams)'
  <2>1. next' \in [Source -> Nat] /\ faults' \in 0..MaxFaults
    BY <1>5, BoundAssumption DEF Disconnect, TypeOK
  <2>2. UNCHANGED <<upstream, received, database, phase, processing, failed, since>>
    BY <1>5 DEF Disconnect
  <2>3. phase # "up" => \A t \in Source : next'[t] = 0
    BY <1>5 DEF Disconnect, Streams, TypeOK
  <2>4. QED
    BY <2>1, <2>2, <2>3, <1>b, <1>c DEF TypeOK, Streams, Row
<1>6. CASE Process
  <2> DEFINE s == processing[1].source
             i == processing[1].event
  <2>0. /\ processing # <<>> /\ processing' = Tail(processing) /\ phase # "down"
        /\ UNCHANGED <<upstream, received, phase, since>>
        /\ s \in Source /\ i \in Events /\ Head(processing) = processing[1]
    <3>1. /\ processing # <<>> /\ processing' = Tail(processing) /\ phase # "down"
          /\ UNCHANGED <<upstream, received, phase, since>>
      BY <1>6 DEF Process, Streams
    <3>2. Head(processing) = processing[1] /\ Head(processing) \in Link
      BY <1>a, <3>1, HeadTailProperties
    <3>3. QED
      BY <3>1, <3>2 DEF Link
  <2>1. processing' \in Seq(Link) /\ \A t \in Source : Queued(t)' <= MaxQueue
    <3>1. processing' \in Seq(Link)
      BY <1>a, <2>0, HeadTailProperties
    <3>2. ASSUME NEW t \in Source PROVE Queued(t)' <= MaxQueue
      <4>1. Queued(t)' = Cardinality(Places(processing', t))
        BY DEF Queued, Places
      <4>2. Cardinality(Places(processing', t)) <= Queued(t)
        BY <1>a, <2>0, PlacesTail, QueuedCounts
      <4>3. Cardinality(Places(processing', t)) \in Nat
        BY <3>1, PlacesAreFinite
      <4>4. QED
        BY <1>a, <4>1, <4>2, <4>3, BoundAssumption
    <3>3. QED
      BY <3>1, <3>2
  <2>2. CASE UNCHANGED <<database, next, failed, faults>>
    BY <2>0, <2>1, <2>2, <1>b DEF TypeOK, Streams, Row, Link
  <2>3. CASE Apply(s, i) /\ UNCHANGED <<next, failed, faults>>
    <3>1. checkpoint' \in [Source -> Nat]
      BY <2>0, <2>3, Stamps DEF Apply, Checkpointed, TypeOK
    <3>2. Identity(s, i) \in Events \X Nat
      BY <2>0, Stamps DEF Identity
    <3>3. ledger' \subseteq Events \X Nat
      BY <2>3, <3>2 DEF Apply, TypeOK
    <3>4. Mutated(s, i) \in [Subject -> Row \cup {None}]
      <4>1. history[i].subject \in Subject
        BY <2>0, Stamps DEF Event
      <4>2. Artifact(i) \in Nat
        BY <2>0, <4>1 DEF Artifact, TypeOK, Row, Events
      <4>3. [rev |-> i, time |-> time[s][i], artifact |-> Artifact(i)] \in Row
        BY <2>0, <4>2, Stamps DEF Row, Events
      <4>4. QED
        BY <4>1, <4>3 DEF Mutated, TypeOK
    <3>5. row' \in [Subject -> Row \cup {None}]
      BY <2>3, <3>4 DEF Apply, TypeOK
    <3>6. QED
      BY <2>0, <2>1, <2>3, <3>1, <3>3, <3>5, <1>b DEF TypeOK, Streams, Row, Link
  <2>4. CASE RolledBack /\ Fault /\ failed' = [failed EXCEPT ![s] = TRUE] /\ Close(s)
    <3>1. failed' \in [Source -> BOOLEAN] /\ next' \in [Source -> Nat] /\ faults' \in 0..MaxFaults
      <4>1. failed' \in [Source -> BOOLEAN]
        BY <2>4 DEF TypeOK
      <4>2. next' \in [Source -> Nat]
        BY <2>4 DEF TypeOK
      <4>3. faults' \in 0..MaxFaults
        BY <2>4, BoundAssumption DEF TypeOK
      <4>4. QED
        BY <4>1, <4>2, <4>3
    <3>2. phase # "up" => \A t \in Source : next'[t] = 0
      BY <2>0, <2>4 DEF Streams, TypeOK
    <3>3. UNCHANGED database
      BY <2>4 DEF RolledBack
    <3>4. QED
      BY <2>0, <2>1, <3>1, <3>2, <3>3, <1>b DEF TypeOK, Streams, Row, Link
  <2>5. QED
    BY <1>6, <2>0, <2>2, <2>3, <2>4 DEF Process
<1>7. CASE Stop \/ Drained \/ Crash \/ Start
  <2>1. /\ UNCHANGED <<upstream, received, database, since>>
        /\ faults' \in 0..MaxFaults /\ next' \in [Source -> Nat] /\ failed' \in [Source -> BOOLEAN]
        /\ processing' = processing \/ processing' = <<>>
        /\ phase' \in {"up", "stopping", "down"}
    <3>1. /\ UNCHANGED <<upstream, received, database, since>>
          /\ processing' = processing \/ processing' = <<>>
          /\ phase' \in {"up", "stopping", "down"}
      BY <1>7 DEF Stop, Drained, Crash, Start
    <3>2. faults' \in 0..MaxFaults
      <4>1. faults' = faults \/ Fault
        BY <1>7, Zenon DEF Stop, Drained, Crash, Start
      <4>2. QED
        BY <4>1, BoundAssumption DEF TypeOK
    <3>3. next' \in [Source -> Nat]
      <4>1. next' = next \/ next' = [t \in Source |-> 0]
        BY <1>7 DEF Stop, Drained, Crash, Start
      <4>2. QED
        BY <4>1 DEF TypeOK
    <3>4. failed' \in [Source -> BOOLEAN]
      <4>1. failed' = failed \/ failed' = [t \in Source |-> FALSE]
        BY <1>7 DEF Stop, Drained, Crash, Start
      <4>2. QED
        BY <4>1 DEF TypeOK
    <3>5. QED
      BY <3>1, <3>2, <3>3, <3>4
  <2>2. Streams'
    BY <1>7 DEF Stop, Drained, Crash, Start, TypeOK, Streams
  <2>3. processing' \in Seq(Link) /\ \A t \in Source : Queued(t)' <= MaxQueue
    <3>1. CASE processing' = processing
      BY <1>a, <1>c, <2>1, <3>1
    <3>2. CASE processing' = <<>>
      <4>1. processing' \in Seq(Link)
        BY <3>2
      <4>2. \A t \in Source : Queued(t)' = 0
        BY <3>2, <4>1, PlacesAreFinite DEF Queued, Places
      <4>3. QED
        BY <4>1, <4>2, BoundAssumption
    <3>3. QED
      BY <2>1, <3>1, <3>2
  <2>4. QED
    BY <2>1, <2>2, <2>3, <1>b DEF TypeOK, Row, Link
<1>8. QED
  BY <1>1, <1>2, <1>3, <1>4, <1>5, <1>6, <1>7 DEF Next, Finished

\* What a step that leaves the history alone leaves alone as well.
LEMMA SameEvents ==
    ASSUME UNCHANGED upstream
    PROVE  /\ Events' = Events
           /\ \A i : Recordable(i)' = Recordable(i)
           /\ \A s, i : Identity(s, i)' = Identity(s, i)
  BY DEF upstream, Events, Recordable, Identity

\* Whatever fails, nothing is lost between a checkpoint and what a source
\* delivers next.
LEMMA IndexGaps == IndexInv /\ TypeOK' /\ [Next]_vars => (Contiguous /\ NoGaps)'
<1> SUFFICES ASSUME IndexInv, TypeOK', [Next]_vars PROVE (Contiguous /\ NoGaps)'
  OBVIOUS
<1> USE DEF IndexInv, upstream, database, process, Close
<1>a. /\ processing \in Seq(Link) /\ Len(processing) \in Nat
      /\ DOMAIN processing = 1..Len(processing)
  BY LinkProcessing
<1>1. CASE UNCHANGED vars
  <2>1. UNCHANGED <<upstream, received, database, process, since, faults>>
    BY <1>1 DEF vars
  <2>2. QED
    BY <2>1, SameEvents DEF Contiguous, NoGaps, Got
<1>2. ASSUME NEW s \in Source, Message(s) PROVE (Contiguous /\ NoGaps)'
  <2>0. next[s] \in Nat /\ next[s] # 0 /\ UNCHANGED <<upstream, database, since>>
    BY <1>2 DEF Message, Delivering, TypeOK
  <2>1. NoGaps'
    BY <2>0, SameEvents DEF NoGaps
  <2>2. CASE Overflow(s)
    <3>1. UNCHANGED processing /\ failed' = [failed EXCEPT ![s] = TRUE] /\ next' = [next EXCEPT ![s] = 0]
      BY <1>2, <2>2 DEF Message
    <3>2. \A t, i, k : Got(t, i, k)' <=> Got(t, i, k)
      BY <2>0, <3>1, SameEvents DEF Got
    <3>3. \A t \in Source : failed'[t] = FALSE => failed[t] = FALSE /\ next'[t] = next[t]
      BY <3>1 DEF TypeOK
    <3>4. Contiguous'
      BY <2>0, <3>1, <3>2, <3>3, SameEvents DEF Contiguous
    <3>5. QED
      BY <2>1, <3>4
  <2>3. CASE ~Overflow(s)
    <3> DEFINE l == [source |-> s, event |-> next[s]]
    <3> PICK n : n = Len(processing) + 1
      OBVIOUS
    <3> PICK e : e = next[s]
      OBVIOUS
    <3>1. /\ processing' = Append(processing, l) /\ next' = [next EXCEPT ![s] = next[s] + 1]
          /\ failed' = failed /\ l.source = s /\ l.event = e
      BY <1>2, <2>3 DEF Message
    <3>l. l \in Link
      BY <1>2, <2>0 DEF Link, Message, Delivering, TypeOK, Events
    <3> HIDE DEF l
    <3>2. /\ processing' \in Seq(Link) /\ Len(processing') = n /\ processing'[n] = l
          /\ DOMAIN processing' = 1..n
          /\ \A k \in 1..Len(processing) : processing'[k] = processing[k]
      BY <1>a, <3>1, <3>l, AppendProperties
    <3>3. \A t, i, k : Got(t, i, k) => Got(t, i, k)'
      BY <1>a, <2>0, <3>2, SameEvents DEF Got
    <3>4. \A t, i : Got(t, i, n) => Got(t, i, n + 1)'
      BY <1>a, <2>0, <3>2, SameEvents DEF Got
    <3>5. Got(s, e, n + 1)'
      BY <1>a, <3>1, <3>2 DEF Got
    <3>6. ASSUME NEW t \in Source \ Fresh, failed'[t] = FALSE, next'[t] # 0,
                 NEW i \in Events, since[t] <= i, i < next'[t]
          PROVE  Got(t, i, n + 1)'
      <4>1. CASE t = s /\ i = e
        BY <3>5, <4>1
      <4>2. CASE ~(t = s /\ i = e)
        <5>1. next[t] # 0 /\ i < next[t]
          BY <2>0, <3>1, <3>6, <4>2 DEF TypeOK, Events
        <5>2. Got(t, i, n)
          BY <3>1, <3>6, <5>1 DEF Contiguous
        <5>3. QED
          BY <3>4, <5>2
      <4>3. QED
        BY <4>1, <4>2
    <3>7. ASSUME NEW t \in Source \ Fresh, failed'[t] = FALSE, NEW k \in DOMAIN processing',
                 processing'[k].source = t, NEW i \in Events, since[t] <= i, i < processing'[k].event
          PROVE  Got(t, i, k)'
      <4>1. CASE k = n
        <5>1. t = s /\ i < next[s]
          BY <3>1, <3>2, <3>7, <4>1
        <5>2. Got(t, i, n)
          BY <2>0, <3>1, <3>7, <5>1 DEF Contiguous
        <5>3. QED
          BY <3>3, <4>1, <5>2
      <4>2. CASE k # n
        <5>1. k \in DOMAIN processing /\ processing'[k] = processing[k]
          BY <1>a, <3>2, <4>2
        <5>2. Got(t, i, k)
          BY <3>1, <3>7, <5>1 DEF Contiguous
        <5>3. QED
          BY <3>3, <5>2
      <4>3. QED
        BY <4>1, <4>2
    <3>8. Contiguous'
      BY <2>0, <3>2, <3>6, <3>7, SameEvents DEF Contiguous
    <3>9. QED
      BY <2>1, <3>8
  <2>4. QED
    BY <2>2, <2>3
<1>3. ASSUME NEW s \in Source, Connect(s) PROVE (Contiguous /\ NoGaps)'
  <2>1. /\ UNCHANGED <<upstream, database, processing>> /\ Queued(s) = 0
        /\ next' = [next EXCEPT ![s] = Subscription(s)] /\ failed' = [failed EXCEPT ![s] = FALSE]
    BY <1>3 DEF Connect, Processed
  <2>2. \A t \in Source : (t # s \/ s \notin Fresh) => since'[t] = since[t]
    BY <1>3 DEF Connect, NoGaps, TypeOK
  <2>3. \A k \in DOMAIN processing : processing[k].source # s
    BY <1>a, <2>1, PlacesAreFinite, QueuedCounts
  <2>4. NoGaps'
    BY <2>1, <2>2, SameEvents DEF NoGaps
  <2>5. \A t, i, k : Got(t, i, k)' <=> Got(t, i, k)
    BY <2>1, SameEvents DEF Got
  <2>6. ASSUME s \notin Fresh, NEW i \in Events, since[s] <= i, i < Subscription(s)
        PROVE  Got(s, i, Len(processing) + 1)
    <3>1. time[s][i] < checkpoint[s] - Overlap
      BY <2>6, Resumes DEF NoGaps
    <3>2. time[s][i] <= checkpoint[s]
      <4>1. time[s][i] \in Nat /\ checkpoint[s] \in Nat /\ Overlap \in Nat
        BY Stamps, BoundAssumption DEF TypeOK
      <4>2. QED
        BY <3>1, <4>1
    <3>3. QED
      BY <2>6, <3>2 DEF NoGaps, Got
  <2>7. \A t \in Source : t # s => next'[t] = next[t] /\ failed'[t] = failed[t]
    BY <2>1 DEF TypeOK
  <2>8. next'[s] = Subscription(s)
    BY <2>1 DEF TypeOK
  <2>9. ASSUME NEW t \in Source \ Fresh, failed'[t] = FALSE
        PROVE  /\ next'[t] # 0 => \A i \in Events : since'[t] <= i /\ i < next'[t] => Got(t, i, Len(processing) + 1)
               /\ \A k \in DOMAIN processing : processing[k].source = t =>
                     \A i \in Events : since'[t] <= i /\ i < processing[k].event => Got(t, i, k)
    <3>1. CASE t = s
      BY <2>2, <2>3, <2>6, <2>8, <3>1
    <3>2. CASE t # s
      BY <2>2, <2>7, <2>9, <3>2 DEF Contiguous
    <3>3. QED
      BY <3>1, <3>2
  <2>10. Contiguous'
    BY <2>1, <2>5, <2>9, SameEvents DEF Contiguous
  <2>11. QED
    BY <2>4, <2>10
<1>4. ASSUME NEW s \in Source, Receive(s) PROVE (Contiguous /\ NoGaps)'
  BY <1>4, SameEvents DEF Receive, Contiguous, NoGaps, Got
<1>5. ASSUME NEW s \in Source, Disconnect(s) PROVE (Contiguous /\ NoGaps)'
  <2>1. /\ UNCHANGED <<upstream, database, processing, failed, since>>
        /\ next' = [next EXCEPT ![s] = 0]
    BY <1>5 DEF Disconnect
  <2>2. \A t \in Source : next'[t] # 0 => next'[t] = next[t]
    BY <2>1 DEF TypeOK
  <2>3. QED
    BY <2>1, <2>2, SameEvents DEF Contiguous, NoGaps, Got
<1>6. CASE Process
  <2> DEFINE s == processing[1].source
             i == processing[1].event
  <2> PICK n : n = Len(processing) - 1
    OBVIOUS
  <2>0. /\ processing # <<>> /\ processing' = Tail(processing)
        /\ UNCHANGED <<upstream, since>> /\ Head(processing) = processing[1]
    BY <1>6, <1>a DEF Process
  <2>1. /\ Len(processing') = n /\ DOMAIN processing' = 1..n /\ n \in Nat
        /\ \A k \in 1..n : processing'[k] = processing[k + 1]
        /\ s \in Source /\ i \in Events
    <3>1. Len(processing') = n /\ processing' \in Seq(Link) /\ Head(processing) \in Link
      BY <1>a, <2>0, HeadTailProperties
    <3>2. \A k \in 1..n : processing'[k] = processing[k + 1]
      BY <1>a, <2>0, <3>1, HeadTailProperties
    <3>3. n \in Nat /\ DOMAIN processing' = 1..n
      BY <3>1
    <3>4. QED
      BY <2>0, <3>1, <3>2, <3>3 DEF Link
  <2>2. ASSUME ledger \subseteq ledger',
               \A t \in Source \ Fresh : failed'[t] = FALSE =>
                  /\ failed[t] = FALSE /\ next'[t] = next[t]
                  /\ t = s /\ Recordable(i) => Identity(s, i) \in ledger'
        PROVE  Contiguous'
    <3>1. ASSUME NEW t \in Source \ Fresh, failed'[t] = FALSE, NEW j, NEW k \in 1..Len(processing) + 1, Got(t, j, k)
          PROVE  Got(t, j, k - 1)'
      <4>1. SUFFICES ASSUME Recordable(j), Identity(t, j) \notin ledger'
                     PROVE  \E m \in DOMAIN processing' :
                               m < k - 1 /\ processing'[m].source = t /\ processing'[m].event = j
        BY <2>0, SameEvents DEF Got
      <4>2. PICK m \in DOMAIN processing : m < k /\ processing[m].source = t /\ processing[m].event = j
        BY <2>2, <3>1, <4>1 DEF Got
      <4>3. m # 1
        BY <2>2, <3>1, <4>1, <4>2
      <4>4. m - 1 \in DOMAIN processing' /\ processing'[m - 1] = processing[m] /\ m - 1 < k - 1
        BY <1>a, <2>1, <4>2, <4>3
      <4>5. QED
        BY <4>2, <4>4
    <3>2. ASSUME NEW t \in Source \ Fresh, failed'[t] = FALSE, next'[t] # 0,
                 NEW j \in Events, since[t] <= j, j < next'[t]
          PROVE  Got(t, j, n + 1)'
      <4>1. Got(t, j, Len(processing) + 1)
        BY <2>2, <3>2 DEF Contiguous
      <4>2. Len(processing) + 1 \in 1..Len(processing) + 1 /\ (Len(processing) + 1) - 1 = n + 1
        BY <1>a
      <4>3. QED
        BY <3>1, <3>2, <4>1, <4>2
    <3>3. ASSUME NEW t \in Source \ Fresh, failed'[t] = FALSE, NEW k \in 1..n,
                 processing'[k].source = t, NEW j \in Events, since[t] <= j, j < processing'[k].event
          PROVE  Got(t, j, k)'
      <4>1. k + 1 \in DOMAIN processing /\ k + 1 \in 1..Len(processing) + 1 /\ (k + 1) - 1 = k
        BY <1>a, <2>1
      <4>2. Got(t, j, k + 1)
        BY <2>1, <2>2, <3>3, <4>1 DEF Contiguous
      <4>3. QED
        BY <3>1, <3>3, <4>1, <4>2
    <3>4. QED
      BY <2>0, <2>1, <3>2, <3>3, SameEvents DEF Contiguous
  <2>3. CASE /\ failed[s] \/ history[i].kind = "invalid"
             /\ UNCHANGED <<database, next, failed, faults>>
    <3>1. Recordable(i) => failed[s]
      BY <2>3 DEF Recordable
    <3>2. Contiguous'
      BY <2>2, <2>3, <3>1
    <3>3. NoGaps'
      BY <2>0, <2>3, SameEvents DEF NoGaps
    <3>4. QED
      BY <3>2, <3>3
  <2>4. CASE ~failed[s] /\ Apply(s, i) /\ UNCHANGED <<next, failed, faults>>
    <3>1. ledger \subseteq ledger' /\ (Recordable(i) => Identity(s, i) \in ledger')
      BY <2>4 DEF Apply
    <3>2. Contiguous'
      BY <2>2, <2>4, <3>1
    <3>3. /\ \A t \in Source : t # s => checkpoint'[t] = checkpoint[t]
          /\ checkpoint'[s] = IF checkpoint[s] < time[s][i] THEN time[s][i] ELSE checkpoint[s]
      BY <2>1, <2>4 DEF Apply, Checkpointed, TypeOK
    <3>4. checkpoint[s] \in Nat /\ time[s][i] \in Nat \ {0} /\ \A t \in Source : checkpoint[t] \in Nat
      BY <2>1, Stamps DEF TypeOK
    <3>5. \A t \in Source \ Fresh : since[t] # 0 /\ checkpoint'[t] # 0
      BY <3>3, <3>4 DEF NoGaps
    <3>6. ASSUME NEW t \in Source \ Fresh, NEW j \in Events,
                 since[t] <= j, time[t][j] <= checkpoint'[t], Recordable(j)
          PROVE  Identity(t, j) \in ledger'
      <4>1. CASE time[t][j] <= checkpoint[t]
        BY <3>1, <3>6, <4>1 DEF NoGaps
      <4>2. CASE ~(time[t][j] <= checkpoint[t])
        <5>1. t = s /\ time[t][j] <= time[s][i]
          BY <3>3, <3>6, <4>2
        <5>2. j <= i
          BY <2>1, <3>6, <5>1, Stamps DEF Events
        <5>3. CASE j = i
          BY <3>1, <3>6, <5>1, <5>3
        <5>4. CASE j < i
          <6>1. 1 \in DOMAIN processing /\ failed[s] = FALSE
            BY <1>a, <2>0, <2>1, <2>4 DEF TypeOK
          <6>2. Got(s, j, 1)
            BY <2>1, <3>6, <5>1, <5>4, <6>1 DEF Contiguous
          <6>3. QED
            BY <1>a, <3>1, <3>6, <5>1, <6>2 DEF Got
        <5>5. QED
          BY <2>1, <3>6, <5>2, <5>3, <5>4 DEF Events
      <4>3. QED
        BY <4>1, <4>2
    <3>7. NoGaps'
      BY <2>0, <3>5, <3>6, SameEvents DEF NoGaps
    <3>8. QED
      BY <3>2, <3>7
  <2>5. CASE RolledBack /\ failed' = [failed EXCEPT ![s] = TRUE] /\ Close(s)
    <3>1. \A t \in Source : failed'[t] = FALSE => t # s
      BY <2>1, <2>5 DEF TypeOK
    <3>2. \A t \in Source : t # s => failed'[t] = failed[t] /\ next'[t] = next[t]
      BY <2>5 DEF TypeOK
    <3>3. UNCHANGED database
      BY <2>5 DEF RolledBack
    <3>4. Contiguous'
      BY <2>2, <3>1, <3>2, <3>3
    <3>5. NoGaps'
      BY <2>0, <3>3, SameEvents DEF NoGaps
    <3>6. QED
      BY <3>4, <3>5
  <2>6. QED
    BY <1>6, <2>0, <2>3, <2>4, <2>5 DEF Process
<1>7. CASE Stop \/ Drained \/ Crash \/ Start
  <2>1. /\ UNCHANGED <<upstream, database, since>>
        /\ \/ processing' = <<>>
           \/ processing' = processing /\ failed' = failed
        /\ \A t \in Source : next'[t] = 0 \/ (next'[t] = next[t] /\ failed' = failed /\ processing' = processing)
    <3>1. CASE Stop
      BY <3>1 DEF Stop
    <3>2. CASE Drained
      BY <3>2 DEF Drained
    <3>3. CASE Crash
      <4>1. UNCHANGED <<upstream, database, since>> /\ processing' = <<>>
        BY <3>3 DEF Crash
      <4>2. \A t \in Source : next'[t] = 0
        BY <3>3 DEF Crash
      <4>3. QED
        BY <4>1, <4>2
    <3>4. CASE Start
      <4>1. UNCHANGED <<upstream, database, since>> /\ processing' = <<>> /\ next' = next
        BY <3>4 DEF Start, Streams
      <4>2. \A t \in Source : next'[t] = 0
        BY <3>4, <4>1 DEF Start, Streams
      <4>3. QED
        BY <4>1, <4>2
    <3>5. QED
      BY <1>7, <3>1, <3>2, <3>3, <3>4
  <2>2. NoGaps'
    BY <2>1, SameEvents DEF NoGaps
  <2>3. processing' = processing => \A t, i, k : Got(t, i, k)' <=> Got(t, i, k)
    BY <2>1, SameEvents DEF Got
  <2>4. Contiguous'
    BY <2>1, <2>3, SameEvents DEF Contiguous
  <2>5. QED
    BY <2>2, <2>4
<1>8. QED
  BY <1>1, <1>2, <1>3, <1>4, <1>5, <1>6, <1>7 DEF Next, Finished

LEMMA IndexStep == IndexInv /\ [Next]_vars => IndexInv'
  BY IndexTypes, IndexGaps DEF IndexInv

-----------------------------------------------------------------------------
(* Indexer: what the index shows. *)

\* The clocks of the sources agree: a revision that follows another one is
\* stamped later by every source.
ClocksAgree ==
    \A c \in Clocks, h \in Histories : \A s, t \in Source :
       \A i, j \in 1..Len(h) : i < j => c[s][i] < c[t][j]

\* A subject shows the newest revision that is known, with the time some
\* source stamped on it.
Rows ==
    \A u \in Subject :
       /\ row[u] = None => Known[u] = {}
       /\ row[u] # None => /\ row[u].rev \in Known[u]
                           /\ \E t \in Source : row[u].time = time[t][row[u].rev]
                           /\ \A j \in Known[u] : j <= row[u].rev

\* An event that is new to the ledger is the only thing that changes the index.
Indexes(s, i) ==
    /\ Recordable(i) /\ Identity(s, i) \notin ledger
    /\ ledger' = ledger \cup {Identity(s, i)} /\ row' = Mutated(s, i)

LEMMA OnlyIndexes ==
    ASSUME TypeOK, [Next]_vars
    PROVE  /\ UNCHANGED upstream
           /\ \/ UNCHANGED <<row, ledger>>
              \/ \E s \in Source, i \in Events : Indexes(s, i)
<1> USE DEF database
<1>1. CASE UNCHANGED vars
  BY <1>1 DEF vars
<1>2. CASE \E s \in Source : Message(s) \/ Connect(s) \/ Receive(s) \/ Disconnect(s)
  BY <1>2 DEF Message, Connect, Receive, Disconnect
<1>3. CASE Stop \/ Drained \/ Crash \/ Start
  <2>1. UNCHANGED <<upstream, database>>
    BY <1>3, Zenon DEF Stop, Drained, Crash, Start
  <2>2. QED
    BY <2>1
<1>4. CASE Process
  <2> DEFINE s == Head(processing).source
             i == Head(processing).event
  <2>1. s \in Source /\ i \in Events
    <3>1. processing # <<>> /\ processing \in Seq(Link)
      BY <1>4, LinkProcessing DEF Process
    <3>2. Head(processing) \in Link
      BY <3>1, HeadTailProperties
    <3>3. QED
      BY <3>2 DEF Link
  <2>2. UNCHANGED upstream /\ (UNCHANGED database \/ Apply(s, i))
    BY <1>4 DEF Process, RolledBack
  <2> HIDE DEF s, i
  <2>3. QED
    BY <2>1, <2>2 DEF Apply, Indexes
<1>5. QED
  BY <1>1, <1>2, <1>3, <1>4 DEF Next, Finished

\* mutate keeps what was published.
LEMMA IndexKeeps ==
    ASSUME TypeOK, [Next]_vars
    PROVE  KeepsArtifacts
<1>1. CASE UNCHANGED <<row, ledger>>
  BY <1>1 DEF KeepsArtifacts
<1>2. ASSUME NEW s \in Source, NEW i \in Events, Indexes(s, i) PROVE KeepsArtifacts
  <2> DEFINE u == history[i].subject
             new == [rev |-> i, time |-> time[s][i], artifact |-> Artifact(i)]
  <2>1. u \in Subject /\ new \in Row /\ i \in Nat
    <3>1. u \in Subject
      BY Stamps DEF Event
    <3>2. Artifact(i) \in Nat
      BY <3>1 DEF Artifact, TypeOK, Row, Events
    <3>3. i \in Nat /\ time[s][i] \in Nat
      BY Stamps DEF Events
    <3>4. QED
      BY <3>1, <3>2, <3>3 DEF Row
  <2>2. new # None
    BY <2>1, SourceAssumption DEF Row
  <2>3. row[u] # None => new.artifact = row[u].artifact
    BY DEF Artifact
  <2>4. row' = row \/ row' = [row EXCEPT ![u] = new]
    BY <1>2 DEF Indexes, Mutated
  <2> HIDE DEF u, new
  <2>5. QED
    BY <2>1, <2>2, <2>3, <2>4 DEF KeepsArtifacts, TypeOK
<1>3. QED
  BY <1>1, <1>2, OnlyIndexes

\* What is known of a subject and what it shows change as PackageIndex says.
Learns ==
    \E u \in Subject : \E i \in Known'[u] :
       /\ i \notin Known[u]
       /\ Known' = [Known EXCEPT ![u] = Known[u] \cup {i}]
       /\ Current' = [Current EXCEPT ![u] = IF i > Current[u] THEN i ELSE Current[u]]

LEMMA IndexLearns ==
    ASSUME ClocksAgree, TypeOK, Rows, [Next]_vars
    PROVE  Rows' /\ (Learns \/ UNCHANGED <<Known, Current>>)
<1>1. CASE UNCHANGED <<row, ledger>>
  <2>1. UNCHANGED upstream
    BY OnlyIndexes
  <2>2. history' = history /\ time' = time /\ Events' = Events
    BY <2>1 DEF upstream, Events
  <2>3. Known' = Known
    BY <1>1, <2>1, <2>2, SameEvents DEF Known
  <2>4. Current' = Current
    BY <1>1 DEF Current
  <2>5. Rows'
    BY <1>1, <2>2, <2>3 DEF Rows
  <2>6. QED
    BY <2>3, <2>4, <2>5
<1>2. ASSUME NEW s \in Source, NEW i \in Events, Indexes(s, i)
      PROVE  Rows' /\ (Learns \/ UNCHANGED <<Known, Current>>)
  <2> PICK u : u = history[i].subject
    OBVIOUS
  <2> DEFINE shown == history[i].kind \in {"upsert", "account"}
             new == [rev |-> i, time |-> time[s][i], artifact |-> Artifact(i)]
  <2>1. history' = history /\ time' = time /\ Events' = Events
    BY OnlyIndexes DEF upstream, Events
  <2>2. u \in Subject /\ new \in Row /\ new # None /\ i \in Nat \ {0} /\ time[s][i] \in Nat
    <3>1. u \in Subject
      BY Stamps DEF Event
    <3>2. Artifact(i) \in Nat /\ i \in Nat \ {0} /\ time[s][i] \in Nat
      BY <3>1, Stamps DEF Artifact, TypeOK, Row, Events
    <3>3. QED
      BY <3>1, <3>2, SourceAssumption DEF Row
  <2>3. ASSUME NEW v \in Subject, NEW j
        PROVE  j \in Known'[v] <=> j \in Known[v] \/ (j = i /\ v = u /\ shown)
    <3>1. Known'[v] = {k \in Events : /\ history[k].kind \in {"upsert", "account"} /\ history[k].subject = v
                                       /\ \E t \in Source : Identity(t, k) \in ledger'}
      BY <2>1, SameEvents, OnlyIndexes DEF Known
    <3>2. Known[v] = {k \in Events : /\ history[k].kind \in {"upsert", "account"} /\ history[k].subject = v
                                      /\ \E t \in Source : Identity(t, k) \in ledger}
      BY DEF Known
    <3>3. \A t \in Source : \A k : Identity(t, k) = Identity(s, i) => k = i
      BY DEF Identity
    <3>4. ledger' = ledger \cup {Identity(s, i)}
      BY <1>2 DEF Indexes
    <3>5. QED
      BY <3>1, <3>2, <3>3, <3>4
  <2>k. Known = [v \in Subject |-> Known[v]] /\ Known' = [v \in Subject |-> Known'[v]]
    BY DEF Known
  <2>4. CASE row' = row
    <3>1. Current' = Current
      BY <2>4 DEF Current
    <3>2. CASE ~shown \/ i \in Known[u]
      <4>1. ASSUME NEW v \in Subject PROVE Known'[v] = Known[v]
        <5>1. \A j : j \in Known'[v] <=> j \in Known[v]
          BY <2>3, <3>2
        <5>2. QED
          BY <5>1
      <4>2. Known' = Known
        BY <2>k, <4>1
      <4>3. Rows'
        BY <2>1, <2>4, <4>2 DEF Rows
      <4>4. QED
        BY <3>1, <4>2, <4>3
    <3>3. CASE shown /\ i \notin Known[u]
      <4>1. row[u] # None /\ ~(row[u].time < time[s][i])
        <5>1. ~Newer(u, time[s][i]) \/ row' = [row EXCEPT ![u] = new]
          BY <1>2, <3>3 DEF Indexes, Mutated
        <5>2. CASE row' = [row EXCEPT ![u] = new]
          <6>1. row[u] = new
            BY <2>2, <2>4, <5>2 DEF TypeOK
          <6>2. row[u].rev = i /\ row[u] # None
            BY <2>2, <6>1
          <6>3. QED
            BY <2>2, <3>3, <6>2 DEF Rows
        <5>3. QED
          BY <5>1, <5>2 DEF Newer
      <4>2. PICK t \in Source : row[u].time = time[t][row[u].rev]
        BY <2>2, <4>1 DEF Rows
      <4>3. row[u].rev \in Known[u] /\ row[u].rev \in Events
        BY <2>2, <4>1 DEF Rows, Known
      <4>4. i <= row[u].rev
        <5>1. row[u].rev < i => time[t][row[u].rev] < time[s][i]
          BY <4>3 DEF ClocksAgree, TypeOK, Events
        <5>2. row[u].rev \in Nat
          BY <4>3 DEF Events
        <5>3. QED
          BY <2>2, <4>1, <4>2, <5>1, <5>2
      <4>5. \A v \in Subject : Known'[v] = IF v = u THEN Known[u] \cup {i} ELSE Known[v]
        BY <2>3, <3>3
      <4>6. Known' = [Known EXCEPT ![u] = Known[u] \cup {i}]
        BY <2>2, <2>k, <4>5
      <4>7. Current[u] = row[u].rev /\ row[u].rev \in Nat
        BY <2>2, <4>1, <4>3 DEF Current, Events
      <4>8. Current' = [Current EXCEPT ![u] = IF i > Current[u] THEN i ELSE Current[u]]
        BY <2>2, <3>1, <4>4, <4>7 DEF Current
      <4>9. Rows'
        BY <2>1, <2>4, <4>1, <4>4, <4>5 DEF Rows
      <4>10. i \in Known'[u]
        BY <2>2, <4>5
      <4>11. Learns
        BY <2>2, <3>3, <4>6, <4>8, <4>10 DEF Learns
      <4>12. QED
        BY <4>9, <4>11
    <3>4. QED
      BY <3>2, <3>3
  <2>5. CASE row' # row
    <3>1. shown /\ Newer(u, time[s][i]) /\ row' = [row EXCEPT ![u] = new]
      BY <1>2, <2>5 DEF Indexes, Mutated
    <3>2. row'[u] = new /\ row'[u].rev = i /\ row'[u].time = time[s][i] /\ row'[u] # None
      BY <2>2, <3>1 DEF TypeOK
    <3>3. \A v \in Subject : v # u => row'[v] = row[v]
      BY <3>1 DEF TypeOK
    <3>4. \A v \in Subject : Known'[v] = IF v = u THEN Known[u] \cup {i} ELSE Known[v]
      BY <2>3, <3>1
    <3>5. \A j \in Known[u] : j \in Nat /\ j <= i
      <4>1. CASE row[u] = None
        BY <2>2, <4>1 DEF Rows
      <4>2. CASE row[u] # None
        <5>1. PICK t \in Source : row[u].time = time[t][row[u].rev]
          BY <2>2, <4>2 DEF Rows
        <5>2. /\ row[u].rev \in Known[u] /\ row[u].rev \in Events
              /\ \A j \in Known[u] : j \in Nat /\ j <= row[u].rev
          BY <2>2, <4>2 DEF Rows, Known, Events
        <5>3. i < row[u].rev => time[s][i] < time[t][row[u].rev]
          BY <5>2 DEF ClocksAgree, TypeOK, Events
        <5>4. row[u].time < time[s][i] /\ row[u].time \in Nat
          BY <2>2, <3>1, <4>2 DEF Newer, TypeOK, Row
        <5>5. row[u].rev <= i
          BY <2>2, <5>1, <5>2, <5>3, <5>4 DEF Events
        <5>6. QED
          BY <2>2, <5>2, <5>5
      <4>3. QED
        BY <4>1, <4>2
    <3>6. Rows'
      <4>1. ASSUME NEW v \in Subject
            PROVE  /\ row'[v] = None => Known'[v] = {}
                   /\ row'[v] # None => /\ row'[v].rev \in Known'[v]
                                        /\ \E t \in Source : row'[v].time = time[t][row'[v].rev]
                                        /\ \A j \in Known'[v] : j <= row'[v].rev
        <5>1. CASE v = u
          <6>1. Known'[v] = Known[u] \cup {i}
            BY <3>4, <5>1
          <6>2. QED
            BY <2>2, <3>2, <3>5, <5>1, <6>1
        <5>2. CASE v # u
          <6>1. Known'[v] = Known[v] /\ row'[v] = row[v]
            BY <3>3, <3>4, <5>2
          <6>2. QED
            BY <6>1 DEF Rows
        <5>3. QED
          BY <5>1, <5>2
      <4>2. QED
        BY <2>1, <4>1 DEF Rows
    <3>7. Current' = [Current EXCEPT ![u] = i]
      <4>1. \A v \in Subject : Current'[v] = IF v = u THEN i ELSE Current[v]
        BY <3>2, <3>3 DEF Current
      <4>2. Current = [v \in Subject |-> Current[v]] /\ Current' = [v \in Subject |-> Current'[v]]
        BY DEF Current
      <4>3. QED
        BY <2>2, <4>1, <4>2
    <3>8. Known' = [Known EXCEPT ![u] = Known[u] \cup {i}]
      BY <2>2, <2>k, <3>4
    <3>9. Current[u] \in Nat /\ Current[u] \in Known[u] \cup {0}
      BY <2>2 DEF Current, Rows, TypeOK, Row
    <3>10. CASE i \in Known[u]
      <4>1. Known' = Known
        BY <2>2, <2>k, <3>4, <3>10
      <4>2. row[u] # None /\ row[u].rev = i
        <5>1. row[u] # None
          BY <2>2, <3>10 DEF Rows
        <5>2. row[u].rev \in Known[u] /\ i <= row[u].rev
          BY <2>2, <3>10, <5>1 DEF Rows
        <5>3. row[u].rev \in Nat /\ row[u].rev <= i
          BY <3>5, <5>2
        <5>4. QED
          BY <2>2, <5>1, <5>2, <5>3
      <4>3. Current' = Current
        BY <2>2, <3>7, <4>2 DEF Current
      <4>4. QED
        BY <3>6, <4>1, <4>3
    <3>11. CASE i \notin Known[u]
      <4>1. i > Current[u]
        BY <2>2, <3>5, <3>9, <3>11
      <4>2. i \in Known'[u]
        BY <2>2, <3>4
      <4>3. Current' = [Current EXCEPT ![u] = IF i > Current[u] THEN i ELSE Current[u]]
        BY <3>7, <4>1
      <4>4. Learns
        BY <2>2, <3>8, <3>11, <4>2, <4>3 DEF Learns
      <4>5. QED
        BY <3>6, <4>4
    <3>12. QED
      BY <3>10, <3>11
  <2>6. QED
    BY <2>4, <2>5
<1>3. QED
  BY <1>1, <1>2, OnlyIndexes

\* For every history, every number of sources and every bound: an index has no
\* gap below the checkpoint of a source that had one from the start, and keeps
\* the artifact that was published under a version.
THEOREM IndexIsGapless == Spec => []NoGaps /\ [][KeepsArtifacts]_vars
<1>1. IndexInv => NoGaps
  BY DEF IndexInv
<1>2. IndexInv /\ [Next]_vars => [KeepsArtifacts]_vars
  BY IndexKeeps DEF IndexInv
<1>3. QED
  BY <1>1, <1>2, IndexStart, IndexStep, PTL DEF Spec

\* So it is in the composition of MCRegistry, where, as the clocks of the
\* sources agree, a subject also shows the newest revision that is known: the
\* indexer implements PackageIndex.  A source without a checkpoint may lose
\* what it saw before its first one, and is left out.
THEOREM IndexStaysRight ==
    ASSUME Fresh = {}, ClocksAgree
    PROVE  PartsSpec => IndexIsRight
<1> DEFINE Holds == part = "indexer" => IndexInv /\ Rows
           Step == [PartsNext]_<<part, vars, syncVars>>
           Shows == [Shown!Next]_<<IF part = "indexer" THEN Known ELSE [u \in Subject |-> {}],
                                   IF part = "indexer" THEN Current ELSE [u \in Subject |-> 0]>>
<1>1. PartsInit => Holds /\ Shown!Init
  <2>1. Init => Rows /\ Known = [u \in Subject |-> {}] /\ Current = [u \in Subject |-> 0]
    BY DEF Init, Rows, Known, Current
  <2>2. QED
    BY <2>1, IndexStart DEF PartsInit, Shown!Init
<1>2. Holds /\ Step => Holds'
  BY IndexStep, IndexLearns DEF PartsNext, IndexInv, vars, syncVars, Rows
<1>3. Holds => (part = "indexer" => TypeOK /\ Gapless)
  BY SourceAssumption DEF IndexInv, NoGaps, Gapless
<1>4. Holds /\ Step => [part = "indexer" => KeepsArtifacts]_vars
  BY IndexKeeps DEF PartsNext, IndexInv
<1>5. Holds /\ Step => Shows
  BY IndexLearns DEF PartsNext, IndexInv, Shown!Next, Shown!Learn, Learns
<1>6. QED
  BY <1>1, <1>2, <1>3, <1>4, <1>5, PTL DEF PartsSpec, IndexIsRight, Shown!Spec

=============================================================================
