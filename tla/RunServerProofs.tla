--------------------------- MODULE RunServerProofs ---------------------------
(***************************************************************************)
(* Proofs about the run server, for any number of runs, keys, faults and   *)
(* restarts, and about what it keeps on disk and shows of it: a product    *)
(* and its manifest, the event journal and the logs, and the pages of the  *)
(* history, for any number of pieces, tasks, events and watchers, and any  *)
(* page size.                                                              *)
(***************************************************************************)
EXTENDS MCRunServer, FiniteSetTheorems, FunctionTheorems, SequenceTheorems, TLAPS

-----------------------------------------------------------------------------
(* Lemmas about the queue. *)

LEMMA UpToIs == \A n \in Nat : IsFiniteSet(1..n) /\ Cardinality(1..n) = n
<1> SUFFICES ASSUME NEW n \in Nat PROVE IsFiniteSet(1..n) /\ Cardinality(1..n) = n
  OBVIOUS
<1>1. 1 \in Int /\ n \in Int
  OBVIOUS
<1>2. IsFiniteSet(1..n) /\ Cardinality(1..n) = IF 1 > n THEN 0 ELSE n - 1 + 1
  BY <1>1, FS_Interval
<1>3. QED
  BY <1>2

\* What stays up to a place, and how much of it there is.
LEMMA StayingGrows ==
    ASSUME NEW s, NEW S, NEW n \in Nat
    PROVE  /\ \A k \in 0..n : IsFiniteSet(Staying(s, S, k)) /\ Cardinality(Staying(s, S, k)) \in Nat
           /\ \A j, k \in 0..n : j <= k => Cardinality(Staying(s, S, j)) <= Cardinality(Staying(s, S, k))
           /\ \A j, k \in 0..n : j < k /\ k \in Staying(s, S, k)
                 => Cardinality(Staying(s, S, j)) < Cardinality(Staying(s, S, k))
<1>1. \A k \in 0..n : IsFiniteSet(Staying(s, S, k)) /\ Cardinality(Staying(s, S, k)) \in Nat
  <2> SUFFICES ASSUME NEW k \in 0..n PROVE IsFiniteSet(Staying(s, S, k)) /\ Cardinality(Staying(s, S, k)) \in Nat
    OBVIOUS
  <2>1. IsFiniteSet(1..k)
    BY FS_Interval
  <2>2. Staying(s, S, k) \in SUBSET (1..k)
    BY DEF Staying
  <2>3. IsFiniteSet(Staying(s, S, k))
    BY <2>1, <2>2, FS_Subset
  <2>4. QED
    BY <2>3, FS_CardinalityType
<1>2. \A j, k \in 0..n : j <= k => Staying(s, S, j) \in SUBSET Staying(s, S, k)
  BY DEF Staying
<1>3. \A j, k \in 0..n : j <= k => Cardinality(Staying(s, S, j)) <= Cardinality(Staying(s, S, k))
  BY <1>1, <1>2, FS_Subset
<1>4. ASSUME NEW j \in 0..n, NEW k \in 0..n, j < k, k \in Staying(s, S, k)
      PROVE  Cardinality(Staying(s, S, j)) < Cardinality(Staying(s, S, k))
  <2>1. Cardinality(Staying(s, S, j)) <= Cardinality(Staying(s, S, k))
    BY <1>3, <1>4
  <2>2. Staying(s, S, j) # Staying(s, S, k)
    BY <1>4 DEF Staying
  <2>3. Cardinality(Staying(s, S, k)) # Cardinality(Staying(s, S, j))
    BY <1>1, <1>2, <1>4, <2>2, FS_Subset
  <2>4. QED
    BY <1>1, <2>1, <2>3
<1>5. QED
  BY <1>1, <1>3, <1>4

\* The places of a filtered sequence: increasing, and all those that stay.
LEMMA PlacesOfWithout ==
    ASSUME NEW A, NEW s \in Seq(A), NEW S
    PROVE  \E at \in [1..Cardinality(Staying(s, S, Len(s))) -> DOMAIN s] :
              /\ Cardinality(Staying(s, S, Len(s))) \in Nat
              /\ Without(s, S) = [n \in 1..Cardinality(Staying(s, S, Len(s))) |-> s[at[n]]]
              /\ \A i \in DOMAIN s : s[i] \notin S =>
                    \E n \in 1..Cardinality(Staying(s, S, Len(s))) : at[n] = i
              /\ \A n \in 1..Cardinality(Staying(s, S, Len(s))) : s[at[n]] \notin S
              /\ \A m, n \in 1..Cardinality(Staying(s, S, Len(s))) : m < n => at[m] < at[n]
<1> DEFINE all == Staying(s, S, Len(s))
           C(k) == Cardinality(Staying(s, S, k))
           Nth(n) == CHOOSE k \in DOMAIN s : k \in Staying(s, S, k) /\ Cardinality(Staying(s, S, k)) = n
<1>1. Len(s) \in Nat /\ DOMAIN s = 1..Len(s)
  OBVIOUS
<1>2. /\ \A k \in 0..Len(s) : IsFiniteSet(Staying(s, S, k)) /\ C(k) \in Nat
      /\ \A j, k \in 0..Len(s) : j <= k => C(j) <= C(k)
      /\ \A j, k \in 0..Len(s) : j < k /\ k \in Staying(s, S, k) => C(j) < C(k)
  BY <1>1, StayingGrows
<1>3. \A k \in 1..Len(s) : k \in Staying(s, S, k) <=> k \in all
  BY <1>1 DEF Staying
<1>4. all \subseteq 1..Len(s) /\ \A k \in 1..Len(s) : k \in all <=> s[k] \notin S
  BY <1>1 DEF Staying
<1> HIDE DEF C
<1>5. \A k \in all : C(k) \in 1..C(Len(s))
  <2> SUFFICES ASSUME NEW k \in all PROVE C(k) \in 1..C(Len(s))
    OBVIOUS
  <2>1. k \in 1..Len(s) /\ 0 \in 0..Len(s) /\ 0 < k
    BY <1>1, <1>4
  <2>2. C(0) < C(k) /\ C(k) <= C(Len(s))
    BY <1>1, <1>2, <1>3, <2>1
  <2>3. QED
    BY <1>1, <1>2, <2>1, <2>2
<1> DEFINE f == [k \in all |-> C(k)]
<1>6. f \in Injection(all, 1..C(Len(s)))
  <2>1. f \in [all -> 1..C(Len(s))]
    BY <1>5
  <2>2. \A j, k \in all : j # k => C(j) # C(k)
    BY <1>1, <1>2, <1>3, <1>4
  <2>3. \A k \in all : f[k] = C(k)
    OBVIOUS
  <2> HIDE DEF f
  <2>4. IsInjective(f)
    BY <2>1, <2>2, <2>3 DEF IsInjective
  <2>5. QED
    BY <2>1, <2>4 DEF Injection
<1>7. \A n \in 1..C(Len(s)) : \E k \in all : C(k) = n
  <2>1. IsFiniteSet(1..C(Len(s))) /\ Cardinality(1..C(Len(s))) = C(Len(s))
    BY <1>1, <1>2, UpToIs
  <2>2. Cardinality(all) = C(Len(s))
    BY DEF C
  <2>3. f \in Surjection(all, 1..C(Len(s)))
    BY <1>6, <2>1, <2>2, FS_Injection
  <2>4. QED
    BY <2>3 DEF Surjection
<1>8. \A n \in 1..C(Len(s)) : Nth(n) \in DOMAIN s /\ Nth(n) \in all /\ C(Nth(n)) = n
  <2> SUFFICES ASSUME NEW n \in 1..C(Len(s)) PROVE Nth(n) \in DOMAIN s /\ Nth(n) \in all /\ C(Nth(n)) = n
    OBVIOUS
  <2>1. PICK k \in all : C(k) = n
    BY <1>7
  <2>2. k \in DOMAIN s /\ k \in Staying(s, S, k) /\ Cardinality(Staying(s, S, k)) = n
    BY <1>1, <1>3, <1>4, <2>1 DEF C
  <2>3. Nth(n) \in DOMAIN s /\ Nth(n) \in Staying(s, S, Nth(n)) /\ Cardinality(Staying(s, S, Nth(n))) = n
    BY <2>2
  <2> HIDE DEF Nth
  <2>4. QED
    BY <1>1, <1>3, <2>3 DEF C
<1>9. Without(s, S) = [n \in 1..C(Len(s)) |-> s[Nth(n)]]
  BY DEF Without, C
<1> HIDE DEF Nth, all
<1>10. \A i \in DOMAIN s : s[i] \notin S => \E n \in 1..C(Len(s)) : Nth(n) = i
  <2> SUFFICES ASSUME NEW i \in DOMAIN s, s[i] \notin S PROVE Nth(C(i)) = i /\ C(i) \in 1..C(Len(s))
    OBVIOUS
  <2>1. i \in all /\ C(i) \in 1..C(Len(s))
    BY <1>1, <1>4, <1>5
  <2>2. Nth(C(i)) \in 1..Len(s) /\ Nth(C(i)) \in all /\ C(Nth(C(i))) = C(i)
    BY <1>1, <1>8, <2>1
  <2>3. QED
    BY <1>1, <1>2, <1>3, <2>1, <2>2
<1>11. \A m, n \in 1..C(Len(s)) : m < n => Nth(m) < Nth(n)
  <2> SUFFICES ASSUME NEW m \in 1..C(Len(s)), NEW n \in 1..C(Len(s)), m < n PROVE Nth(m) < Nth(n)
    OBVIOUS
  <2>1. Nth(m) \in 1..Len(s) /\ Nth(n) \in 1..Len(s) /\ C(Nth(m)) = m /\ C(Nth(n)) = n
    BY <1>1, <1>8
  <2>2. ~(Nth(n) <= Nth(m))
    BY <1>1, <1>2, <2>1
  <2>3. QED
    BY <1>1, <2>1, <2>2
<1> DEFINE at == [n \in 1..C(Len(s)) |-> Nth(n)]
<1>12. at \in [1..C(Len(s)) -> DOMAIN s] /\ \A n \in 1..C(Len(s)) : at[n] = Nth(n)
  BY <1>8
<1>13. C(Len(s)) = Cardinality(Staying(s, S, Len(s))) /\ C(Len(s)) \in Nat
  BY <1>1, <1>2 DEF C
<1> HIDE DEF at
<1>14. /\ Without(s, S) = [n \in 1..C(Len(s)) |-> s[at[n]]]
       /\ \A i \in DOMAIN s : s[i] \notin S => \E n \in 1..C(Len(s)) : at[n] = i
       /\ \A n \in 1..C(Len(s)) : s[at[n]] \notin S
       /\ \A m, n \in 1..C(Len(s)) : m < n => at[m] < at[n]
  BY <1>1, <1>4, <1>8, <1>9, <1>10, <1>11, <1>12
<1>15. QED
  BY <1>12, <1>13, <1>14

\* The queue without some runs: the others, each as often and in the same order.
LEMMA WithoutIs ==
    ASSUME NEW A, NEW s \in Seq(A), NEW S
    PROVE  /\ Without(s, S) \in Seq(A)
           /\ ToSet(Without(s, S)) = ToSet(s) \ S
           /\ Len(Without(s, S)) <= Len(s)
           /\ \A m, n \in DOMAIN Without(s, S) : m < n =>
                 \E i, j \in DOMAIN s : i < j /\ Without(s, S)[m] = s[i] /\ Without(s, S)[n] = s[j]
<1>1. PICK c \in Nat : c = Cardinality(Staying(s, S, Len(s)))
  BY PlacesOfWithout
<1>2. PICK at \in [1..c -> DOMAIN s] :
              /\ Without(s, S) = [n \in 1..c |-> s[at[n]]]
              /\ \A i \in DOMAIN s : s[i] \notin S => \E n \in 1..c : at[n] = i
              /\ \A n \in 1..c : s[at[n]] \notin S
              /\ \A m, n \in 1..c : m < n => at[m] < at[n]
  BY <1>1, PlacesOfWithout
<1>3. Without(s, S) \in Seq(A) /\ Len(Without(s, S)) = c /\ DOMAIN Without(s, S) = 1..c
  <2>1. \A n \in 1..c : s[at[n]] \in A
    BY <1>2
  <2>2. QED
    BY <1>1, <1>2, <2>1
<1>4. ToSet(Without(s, S)) = ToSet(s) \ S
  <2>1. \A n \in 1..c : at[n] \in DOMAIN s /\ Without(s, S)[n] = s[at[n]] /\ s[at[n]] \notin S
    BY <1>2
  <2>2. ToSet(Without(s, S)) \subseteq ToSet(s) \ S
    BY <1>3, <2>1 DEF ToSet
  <2>3. ASSUME NEW i \in DOMAIN s, s[i] \notin S PROVE s[i] \in ToSet(Without(s, S))
    <3>1. PICK n \in 1..c : at[n] = i
      BY <1>2, <2>3
    <3>2. Without(s, S)[n] = s[i]
      BY <2>1, <3>1
    <3>3. QED
      BY <1>3, <3>2 DEF ToSet
  <2>4. ToSet(s) \ S \subseteq ToSet(Without(s, S))
    BY <2>3 DEF ToSet
  <2>5. QED
    BY <2>2, <2>4
<1>5. c <= Len(s)
  <2>1. Staying(s, S, Len(s)) \in SUBSET (1..Len(s)) /\ Len(s) \in Nat
    BY DEF Staying
  <2>2. IsFiniteSet(1..Len(s)) /\ Cardinality(1..Len(s)) = Len(s)
    BY <2>1, UpToIs
  <2>3. QED
    BY <1>1, <2>1, <2>2, FS_Subset
<1>6. QED
  BY <1>2, <1>3, <1>4, <1>5


\* Inserting an element that is not there adds it, once.
LEMMA InsertAtIs ==
    ASSUME NEW A, NEW s \in Seq(A), NEW p \in 1..(Len(s) + 1), NEW e \in A
    PROVE  /\ InsertAt(s, p, e) \in Seq(A)
           /\ Len(InsertAt(s, p, e)) = Len(s) + 1
           /\ DOMAIN InsertAt(s, p, e) = 1..(Len(s) + 1) /\ InsertAt(s, p, e)[p] = e
           /\ \A i \in 1..(Len(s) + 1) : /\ i < p => InsertAt(s, p, e)[i] = s[i]
                                         /\ i > p => InsertAt(s, p, e)[i] = s[i - 1]
           /\ ToSet(InsertAt(s, p, e)) = ToSet(s) \cup {e}
           /\ e \notin ToSet(s) /\ IsInjective(s) => IsInjective(InsertAt(s, p, e))
<1>1. Len(s) \in Nat /\ DOMAIN s = 1..Len(s) /\ p \in Int /\ 1 \in Int /\ p - 1 \in Int /\ Len(s) \in Int
  OBVIOUS
<1> DEFINE a == SubSeq(s, 1, p - 1)
           z == SubSeq(s, p, Len(s))
<1>2. a \in Seq(A) /\ Len(a) = p - 1 /\ \A i \in 1..(p - 1) : a[i] = s[i]
  <2>1. \A i \in 1..(p - 1) : s[i] \in A
    BY <1>1
  <2>2. /\ a \in Seq(A) /\ Len(a) = IF 1 <= p - 1 THEN p - 1 - 1 + 1 ELSE 0
        /\ \A i \in 1..(p - 1) - 1 + 1 : a[i] = s[1 + i - 1]
    BY <1>1, <2>1, SubSeqProperties
  <2> HIDE DEF a
  <2>3. QED
    BY <1>1, <2>2
<1>3. z \in Seq(A) /\ Len(z) = Len(s) - p + 1 /\ \A i \in 1..(Len(s) - p + 1) : z[i] = s[p + i - 1]
  <2>1. \A i \in p..Len(s) : s[i] \in A
    BY <1>1
  <2>2. /\ z \in Seq(A) /\ Len(z) = IF p <= Len(s) THEN Len(s) - p + 1 ELSE 0
        /\ \A i \in 1..(Len(s) - p + 1) : z[i] = s[p + i - 1]
    BY <1>1, <2>1, SubSeqProperties
  <2> HIDE DEF z
  <2>3. QED
    BY <1>1, <2>2
<1>4. InsertAt(s, p, e) = (a \o <<e>>) \o z
  BY DEF InsertAt
<1> HIDE DEF a, z
<1>5. <<e>> \in Seq(A) /\ Len(<<e>>) = 1 /\ <<e>>[1] = e
  OBVIOUS
<1> DEFINE b == a \o <<e>>
<1>6. /\ b \in Seq(A) /\ Len(b) = p
      /\ \A i \in 1..p : b[i] = IF i < p THEN s[i] ELSE e
  <2>1. /\ b \in Seq(A) /\ Len(b) = Len(a) + 1
        /\ \A i \in 1..Len(a) + 1 : b[i] = IF i <= Len(a) THEN a[i] ELSE <<e>>[i - Len(a)]
    BY <1>2, <1>5, ConcatProperties
  <2> HIDE DEF b
  <2>2. \A i \in 1..p : b[i] = IF i < p THEN s[i] ELSE e
    BY <1>1, <1>2, <1>5, <2>1
  <2>3. QED
    BY <1>1, <1>2, <2>1, <2>2
<1>6a. InsertAt(s, p, e) = b \o z
  BY <1>4
<1> HIDE DEF b
<1>7. PICK t : t = InsertAt(s, p, e)
  OBVIOUS
<1>8. /\ t \in Seq(A) /\ Len(t) = Len(s) + 1
      /\ \A i \in 1..(Len(s) + 1) : t[i] = IF i < p THEN s[i] ELSE IF i = p THEN e ELSE s[i - 1]
  <2>1. /\ b \o z \in Seq(A) /\ Len(b \o z) = Len(b) + Len(z)
        /\ \A i \in 1..Len(b) + Len(z) : (b \o z)[i] = IF i <= Len(b) THEN b[i] ELSE z[i - Len(b)]
    BY <1>3, <1>6, ConcatProperties
  <2>2. t = b \o z
    BY <1>6a, <1>7
  <2>3. QED
    BY <1>1, <1>3, <1>6, <2>1, <2>2
<1>9. DOMAIN t = 1..(Len(s) + 1) /\ p \in DOMAIN t
  BY <1>1, <1>8
<1>10. ToSet(t) = ToSet(s) \cup {e}
  <2>1. \A i \in DOMAIN t : t[i] = e \/ \E j \in DOMAIN s : t[i] = s[j]
    <3> SUFFICES ASSUME NEW i \in DOMAIN t, i # p PROVE \E j \in DOMAIN s : t[i] = s[j]
      BY <1>1, <1>8
    <3>1. CASE i < p
      <4>1. i \in DOMAIN s /\ t[i] = s[i]
        BY <1>1, <1>8, <1>9, <3>1
      <4>2. QED
        BY <4>1
    <3>2. CASE ~(i < p)
      <4>1. i - 1 \in DOMAIN s /\ t[i] = s[i - 1]
        BY <1>1, <1>8, <1>9, <3>2
      <4>2. QED
        BY <4>1
    <3>3. QED
      BY <3>1, <3>2
  <2>2. \A j \in DOMAIN s : \E i \in DOMAIN t : t[i] = s[j]
    <3> SUFFICES ASSUME NEW j \in DOMAIN s PROVE \E i \in DOMAIN t : t[i] = s[j]
      OBVIOUS
    <3>1. CASE j < p
      BY <1>1, <1>8, <1>9, <3>1
    <3>2. CASE ~(j < p)
      <4>1. j + 1 \in DOMAIN t /\ t[j + 1] = s[j]
        BY <1>1, <1>8, <1>9, <3>2
      <4>2. QED
        BY <4>1
    <3>3. QED
      BY <3>1, <3>2
  <2>3. t[p] = e
    BY <1>1, <1>8
  <2>4. QED
    BY <1>9, <2>1, <2>2, <2>3 DEF ToSet
<1>11. ASSUME e \notin ToSet(s), \A i, j \in DOMAIN s : s[i] = s[j] => i = j
       PROVE  \A i, j \in DOMAIN t : t[i] = t[j] => i = j
  <2>1. \A i \in DOMAIN s : s[i] # e
    BY <1>11 DEF ToSet
  <2> DEFINE Old(i) == IF i < p THEN i ELSE i - 1
  <2>2. \A i \in DOMAIN t : i # p => Old(i) \in DOMAIN s /\ t[i] = s[Old(i)]
    BY <1>1, <1>8, <1>9
  <2>3. \A i, j \in DOMAIN t : i # p /\ j # p /\ Old(i) = Old(j) => i = j
    BY <1>1, <1>9
  <2>4. t[p] = e
    BY <1>1, <1>8
  <2> HIDE DEF Old
  <2>5. QED
    BY <1>11, <2>1, <2>2, <2>3, <2>4
<1>12. /\ t[p] = e
       /\ \A i \in 1..(Len(s) + 1) : (i < p => t[i] = s[i]) /\ (i > p => t[i] = s[i - 1])
  BY <1>1, <1>8
<1>13. QED
  BY <1>7, <1>8, <1>9, <1>10, <1>11, <1>12 DEF IsInjective

\* Taking the first element leaves the others.
LEMMA TailIs ==
    ASSUME NEW A, NEW s \in Seq(A), s # <<>>
    PROVE  /\ Head(s) \in A /\ Head(s) = s[1] /\ Tail(s) \in Seq(A) /\ Head(s) \in ToSet(s)
           /\ Len(Tail(s)) = Len(s) - 1 /\ Len(s) \in Nat \ {0}
           /\ \A i \in DOMAIN Tail(s) : i + 1 \in DOMAIN s /\ Tail(s)[i] = s[i + 1]
           /\ ToSet(s) = ToSet(Tail(s)) \cup {Head(s)}
           /\ IsInjective(s) => Head(s) \notin ToSet(Tail(s)) /\ IsInjective(Tail(s))
<1>1. Len(s) \in Nat \ {0} /\ DOMAIN s = 1..Len(s) /\ Head(s) = s[1] /\ 1 \in DOMAIN s
  OBVIOUS
<1>2. PICK t \in Seq(A) : t = Tail(s) /\ Len(t) = Len(s) - 1 /\ \A i \in 1..Len(t) : t[i] = s[i + 1]
  BY HeadTailProperties
<1>3. DOMAIN t = 1..(Len(s) - 1) /\ \A i \in DOMAIN t : i + 1 \in DOMAIN s /\ t[i] = s[i + 1]
  BY <1>1, <1>2
<1>4. ToSet(s) = ToSet(t) \cup {s[1]}
  <2>1. \A j \in DOMAIN s : j = 1 \/ \E i \in DOMAIN t : t[i] = s[j]
    <3> SUFFICES ASSUME NEW j \in DOMAIN s, j # 1 PROVE j - 1 \in DOMAIN t /\ t[j - 1] = s[j]
      OBVIOUS
    <3>1. QED
      BY <1>1, <1>3
  <2>2. QED
    BY <1>1, <1>3, <2>1 DEF ToSet
<1>5. ASSUME \A i, j \in DOMAIN s : s[i] = s[j] => i = j
      PROVE  s[1] \notin ToSet(t) /\ \A i, j \in DOMAIN t : t[i] = t[j] => i = j
  <2>1. \A i \in DOMAIN t : t[i] # s[1]
    BY <1>1, <1>3, <1>5
  <2>2. \A i, j \in DOMAIN t : t[i] = t[j] => i = j
    BY <1>1, <1>3, <1>5
  <2>3. QED
    BY <2>1, <2>2 DEF ToSet
<1>6. s[1] \in A /\ s[1] \in ToSet(s)
  BY <1>1 DEF ToSet
<1>7. QED
  BY <1>1, <1>2, <1>3, <1>4, <1>5, <1>6 DEF IsInjective

\* A finite set of numbers that is not empty has a greatest one.
LEMMA MaxOfIs ==
    ASSUME NEW S, S \subseteq Nat, IsFiniteSet(S), S # {}
    PROVE  MaxOf(S) \in S /\ \A y \in S : y <= MaxOf(S)
<1> DEFINE Upto(x) == {y \in S : y <= x}
           C(x) == Cardinality(Upto(x))
<1>1. Cardinality(S) \in Nat
  BY FS_CardinalityType
<1>2. PICK n \in Nat : n = Cardinality(S)
  BY <1>1
<1>3. \A x \in S : Upto(x) \in SUBSET S /\ IsFiniteSet(Upto(x)) /\ C(x) \in 0..n /\ x \in Upto(x)
  <2> SUFFICES ASSUME NEW x \in S PROVE Upto(x) \in SUBSET S /\ IsFiniteSet(Upto(x)) /\ C(x) \in 0..n /\ x \in Upto(x)
    OBVIOUS
  <2>1. Upto(x) \in SUBSET S /\ x \in Upto(x)
    OBVIOUS
  <2>2. IsFiniteSet(Upto(x)) /\ C(x) <= n
    BY <1>2, <2>1, FS_Subset
  <2>3. C(x) \in Nat
    BY <2>2, FS_CardinalityType
  <2>4. QED
    BY <2>1, <2>2, <2>3
<1>4. \A x \in S : C(x) \in 1..n
  <2> SUFFICES ASSUME NEW x \in S PROVE C(x) # 0
    BY <1>3
  <2>1. Upto(x) # {}
    BY <1>3
  <2>2. QED
    BY <1>3, <2>1, FS_EmptySet
<1>5. \A x, y \in S : x < y => C(x) < C(y)
  <2> SUFFICES ASSUME NEW x \in S, NEW y \in S, x < y PROVE C(x) < C(y)
    OBVIOUS
  <2>1. Upto(x) \in SUBSET Upto(y) /\ y \in Upto(y) /\ y \notin Upto(x)
    <3>1. x \in Nat /\ y \in Nat /\ \A v \in S : v \in Nat
      OBVIOUS
    <3>2. \A v \in S : v <= x => v <= y
      BY <3>1
    <3>3. ~(y <= x) /\ y <= y
      BY <3>1
    <3>4. QED
      BY <3>2, <3>3
  <2>2. C(x) <= C(y) /\ C(x) # C(y)
    BY <1>3, <2>1, FS_Subset
  <2>3. QED
    BY <1>3, <2>2
<1> DEFINE f == [x \in S |-> C(x)]
<1>6. f \in Injection(S, 1..n)
  <2>1. f \in [S -> 1..n]
    BY <1>4
  <2>2. \A x, y \in S : x # y => C(x) # C(y)
    <3>1. \A x \in S : C(x) \in Nat /\ x \in Nat
      BY <1>4
    <3> HIDE DEF C
    <3>2. QED
      BY <1>5, <3>1
  <2>3. \A x \in S : f[x] = C(x)
    OBVIOUS
  <2> HIDE DEF f
  <2>4. IsInjective(f)
    BY <2>1, <2>2, <2>3 DEF IsInjective
  <2>5. QED
    BY <2>1, <2>4 DEF Injection
<1>7. f \in Surjection(S, 1..n)
  <2>1. IsFiniteSet(1..n) /\ Cardinality(1..n) = n
    BY UpToIs
  <2>2. QED
    BY <1>2, <1>6, <2>1, FS_Injection
<1>8. n \in 1..n
  <2>1. n # 0
    BY <1>2, FS_EmptySet
  <2>2. QED
    BY <2>1
<1>9. PICK x \in S : C(x) = n
  BY <1>7, <1>8 DEF Surjection
<1>10. Upto(x) = S
  BY <1>2, <1>3, <1>9, FS_Subset
<1>11. \A y \in S : y <= x
  BY <1>10
<1>12. QED
  BY <1>11 DEF MaxOf


-----------------------------------------------------------------------------
(* The invariant of the part "keys": what holds of the server as a whole,  *)
(* and what holds of each run.                                             *)

\* Who may act in a phase of the server. The cancellation under way is never
\* of the run that is being admitted, and recovery found each run once.
ServerFits ==
    /\ adm # None => phase = "up"
    /\ op # None => /\ phase \in {"up", "stopping", "closed"}
                    /\ op.step = "next" => phase = "stopping"
                    /\ op.step = "disk" => phase \in {"up", "closed"}
                    /\ op.step # "next" => op.run \in Run
    /\ op # None /\ adm # None => adm.run # op.run
    /\ IsInjective(boot.found)

\* A run with a thread has a control, which a cancellation will find.
ThreadOf(x) ==
    /\ phase \in {"down", "refused", "recovering"} => worker[x] = "none" /\ mem[x] = None
    /\ phase \in {"resuming", "up"} /\ worker[x] \notin {"none", "gone"} => x \in active
    /\ phase = "closed" => worker[x] \in {"none", "gone"}
    /\ worker[x] # "none" \/ x \in active => mem[x] # None

\* The run that is being cancelled has a control that stays signalled, or it
\* has no worker and is on disk.
OperationOf(x) ==
    op # None =>
        /\ op.run = x =>
              /\ op.step \in {"token", "save"} => mem[x] # None
              /\ op.step = "save" => token[x]
              /\ op.step = "disk" => worker[x] \in {"none", "gone"} /\ state[x] # None
        /\ x \in op.rest => mem[x] # None

\* The run that is being admitted has nothing yet but what its steps saved.
AdmissionOf(x) ==
    adm # None /\ adm.run = x =>
        /\ executions[x] = 0 /\ worker[x] = "none" /\ mem[x] = None
        /\ keyOf[x] # "fresh" /\ x \notin cancelled
        /\ adm.step = "state" => state[x] = None
        /\ adm.step \in {"key", "record", "spawn"} => state[x] = InitialStatus(x)
        /\ adm.step \in {"state", "key"} /\ keyOf[x] \in Key => submission[keyOf[x]] = None
        /\ adm.step \in {"record", "spawn"} /\ keyOf[x] \in Key => submission[keyOf[x]] = x

\* What recovery found is queued on disk and not yet started.
FoundOf(x) ==
    x \in ToSet(boot.found) =>
        /\ x \notin boot.todo
        /\ phase \in {"recovering", "resuming"} =>
              /\ state[x] = "queued" /\ executions[x] = 0 /\ admitted[x] # 0
              /\ worker[x] = "none"

\* What is on disk of a run, and the key it answers for.
DiskOf(x) ==
    /\ keyOf[x] = "fresh" => /\ state[x] = None /\ executions[x] = 0 /\ admitted[x] = 0
                             /\ worker[x] = "none" /\ mem[x] = None
    /\ (executions[x] > 0 \/ worker[x] \in {"wait", "start"} \/ admitted[x] # 0)
          /\ keyOf[x] \in Key => submission[keyOf[x]] = x
    /\ executions[x] <= 1
    /\ result[x] # None => executions[x] = 1
    /\ executions[x] > 0 => state[x] \notin {None, "queued"}
    /\ x \in cancelled => executions[x] = 0 /\ state[x] \notin {None, "queued"}
    /\ x \notin torn /\ result[x] # None /\ state[x] \in Final => state[x] = result[x]

\* What a worker knows of its run is what the disk says, unless it is told to stop.
WorkerOf(x) ==
    /\ mem[x] = "queued" => executions[x] = 0
    /\ mem[x] \notin {None, "queued"} => state[x] \notin {None, "queued"}
    /\ worker[x] \in {"wait", "start"} =>
          /\ executions[x] = 0
          /\ x \in cancelled => token[x]
          /\ ~token[x] => mem[x] \in {"queued", "running"}
          /\ mem[x] = "running" => state[x] = "running"
    /\ worker[x] = "execute" => /\ mem[x] = "running" /\ state[x] = "running"
                                /\ result[x] = None /\ executions[x] = 1
    /\ worker[x] = "finish" => /\ verdict[x] # None
                               /\ result[x] # None /\ x \notin torn => verdict[x] = result[x]

RunFits(x) == /\ ThreadOf(x) /\ OperationOf(x) /\ AdmissionOf(x)
              /\ FoundOf(x) /\ DiskOf(x) /\ WorkerOf(x)

RunsInv == TypeOK /\ ServerFits /\ \A x \in Run : RunFits(x)

-----------------------------------------------------------------------------
(* Steps of one run. *)

RunTypes ==
    /\ state \in [Run -> Status \cup {None}]
    /\ admitted \in [Run -> Nat] /\ executions \in [Run -> Nat]
    /\ result \in [Run -> Outcome \cup {None}]
    /\ mem \in [Run -> Status \cup {None}] /\ token \in [Run -> BOOLEAN]
    /\ worker \in [Run -> WorkerStep]
    /\ verdict \in [Run -> Outcome \cup {None, "error"}]
    /\ keyOf \in [Run -> Key \cup {None, "fresh"}]
    /\ slots \subseteq Run /\ active \subseteq Run
    /\ cancelled \subseteq Run /\ torn \subseteq Run

ServerTypes ==
    /\ submission \in [Key -> Run \cup {None}]
    /\ phase \in {"down", "recovering", "resuming", "up", "stopping", "closed", "refused"}
    /\ boot \in [todo : SUBSET Run, found : Seq(Run), resume : BOOLEAN]
    /\ sequence \in Nat
    /\ adm = None \/ adm \in [run : Run, step : {"state", "key", "record", "spawn", "fail"}]
    /\ op = None \/ op \in [run : Run \cup {None}, rest : SUBSET Run,
                            step : {"token", "save", "disk", "next"}]
    /\ queue \in Seq(Run) /\ faults \in 0..MaxFaults /\ crashes \in 0..MaxCrashes

LEMMA TypesAre == TypeOK <=> RunTypes /\ ServerTypes
BY DEF TypeOK, RunTypes, ServerTypes

\* Nothing of a run has changed, but that its finished thread may be forgotten.
SameRun(x) ==
    /\ state'[x] = state[x] /\ admitted'[x] = admitted[x] /\ result'[x] = result[x]
    /\ executions'[x] = executions[x] /\ mem'[x] = mem[x] /\ token'[x] = token[x]
    /\ worker'[x] = worker[x] /\ verdict'[x] = verdict[x] /\ keyOf'[x] = keyOf[x]
    /\ (x \in slots' <=> x \in slots)
    /\ (x \in active' => x \in active) /\ (x \in active /\ worker[x] # "gone" => x \in active')
    /\ (x \in cancelled' <=> x \in cancelled) /\ (x \in torn' <=> x \in torn)

OnlyRun(r) == RunTypes' /\ \A x \in Run \ {r} : SameRun(x)

\* A run that a step leaves alone stays right, if the server stays in its phase
\* and begins nothing with the run.
LEMMA OthersKeep ==
    ASSUME NEW x \in Run, RunFits(x), SameRun(x), phase' = phase,
           op' # None /\ op'.run = x => op # None /\ op.run = x /\ op'.step \in {op.step, "next"},
           op' # None /\ x \in op'.rest => op # None /\ x \in op.rest,
           adm' # None /\ adm'.run = x => adm' = adm,
           x \in ToSet(boot'.found) => x \in ToSet(boot.found) /\ (x \in boot'.todo => x \in boot.todo),
           keyOf[x] \in Key => \/ submission'[keyOf[x]] = submission[keyOf[x]]
                               \/ /\ submission[keyOf[x]] = None
                                  /\ ~(adm' # None /\ adm'.run = x)
    PROVE  RunFits(x)'
<1> USE DEF RunFits, SameRun
<1>1. ThreadOf(x)' /\ FoundOf(x)' /\ WorkerOf(x)'
  BY DEF ThreadOf, FoundOf, WorkerOf
<1>2. OperationOf(x)'
  BY DEF OperationOf
<1>3. AdmissionOf(x)'
  BY DEF AdmissionOf, InitialStatus
<1>4. DiskOf(x)'
  BY RunAssumption DEF DiskOf
<1>5. QED
  BY <1>1, <1>2, <1>3, <1>4

\* A step of one run that leaves the server alone.
LEMMA RunSteps ==
    ASSUME NEW r \in Run, RunsInv, OnlyRun(r), UNCHANGED <<phase, op, adm, boot, submission>>,
           ServerTypes', RunFits(r)'
    PROVE  RunsInv'
<1>1. TypeOK'
  BY TypesAre, PTL DEF OnlyRun
<1>2. ServerFits'
  BY DEF RunsInv, ServerFits
<1>3. ASSUME NEW x \in Run PROVE RunFits(x)'
  <2>1. CASE x = r
    BY <2>1
  <2>2. CASE x # r
    BY <2>2, OthersKeep DEF RunsInv, OnlyRun
  <2>3. QED
    BY <2>1, <2>2
<1>4. QED
  BY <1>1, <1>2, <1>3 DEF RunsInv

LEMMA RunsInvInit == FirstStart /\ faults \in 0..MaxFaults => RunsInv
<1> SUFFICES ASSUME FirstStart, faults \in 0..MaxFaults PROVE RunsInv
  OBVIOUS
<1> USE DEF FirstStart
<1>1. TypeOK
  BY RunAssumption, Bounds DEF TypeOK, Status, Final, Outcome, WorkerStep
<1>2. ServerFits
  BY DEF ServerFits, IsInjective
<1>3. ASSUME NEW x \in Run PROVE RunFits(x)
  <2>1. ThreadOf(x) /\ OperationOf(x) /\ AdmissionOf(x)
    BY DEF ThreadOf, OperationOf, AdmissionOf
  <2>2. FoundOf(x)
    BY DEF FoundOf, ToSet
  <2>3. DiskOf(x) /\ WorkerOf(x)
    BY DEF DiskOf, WorkerOf, Final, Outcome
  <2>4. QED
    BY <2>1, <2>2, <2>3 DEF RunFits
<1>4. QED
  BY <1>1, <1>2, <1>3 DEF RunsInv

LEMMA KeepsStart == ASSUME NEW r \in Run, RunsInv, Start(r) PROVE RunsInv'
<1> USE DEF RunTypes
<1>1. RunTypes /\ ServerTypes /\ RunFits(r) /\ ServerFits
  BY TypesAre DEF RunsInv
<1>2. /\ worker[r] = "start" /\ UNCHANGED <<admitted, submission, server, adm, op, active, token,
                   keyOf, cancelled, crashes, result, admission, torn>>
      /\ worker' \in {[worker EXCEPT ![r] = "finish"], [worker EXCEPT ![r] = "execute"]}
  BY DEF Start, WorkerAt, GoTo, Erred
<1>3. state' \in {state, [state EXCEPT ![r] = "running"]} /\ faults' \in 0..MaxFaults
  BY <1>1, Bounds DEF Start, Saved, Unsaved, Fault, ServerTypes
<1>4. /\ mem' \in {mem, [mem EXCEPT ![r] = "running"]}
      /\ executions' \in {executions, [executions EXCEPT ![r] = @ + 1]}
      /\ verdict' \in {verdict, [verdict EXCEPT ![r] = "cancelled"], [verdict EXCEPT ![r] = "error"]}
  BY DEF Start, Erred
<1>5. \/ /\ token[r] /\ worker'[r] = "finish" /\ UNCHANGED <<state, mem, executions>>
      \/ /\ ~token[r] /\ worker'[r] = "execute" /\ mem'[r] = "running"
         /\ executions'[r] = executions[r] + 1
         /\ mem[r] = "queued" => state'[r] = "running"
         /\ mem[r] # "queued" => UNCHANGED state
      \/ /\ ~token[r] /\ mem[r] = "queued" /\ worker'[r] = "finish"
         /\ state'[r] \in {state[r], "running"} /\ UNCHANGED <<mem, executions>>
  BY <1>1 DEF Start, Erred, GoTo, Saved, Unsaved
<1>6. OnlyRun(r)
  <2>1. RunTypes'
    BY <1>1, <1>2, <1>3, <1>4 DEF Status, WorkerStep, Final, Outcome, admission
  <2>2. ASSUME NEW x \in Run \ {r} PROVE SameRun(x)
    BY <1>1, <1>2, <1>3, <1>4 DEF SameRun, admission
  <2>3. QED
    BY <2>1, <2>2 DEF OnlyRun
<1>7. RunFits(r)'
  <2> USE <1>1, <1>2, <1>5 DEF RunFits, server, admission
  <2>1. ThreadOf(r)' /\ OperationOf(r)'
    BY Distinct DEF ThreadOf, OperationOf, Status
  <2>2. AdmissionOf(r)' /\ FoundOf(r)'
    BY DEF AdmissionOf, FoundOf
  <2>3. DiskOf(r)'
    BY Distinct DEF DiskOf, WorkerOf, Status, Final, Outcome
  <2>4. worker'[r] = "finish" => verdict'[r] # None
    BY <1>1, Distinct DEF Start, Erred, GoTo, Status, Final, Outcome
  <2>5. WorkerOf(r)'
    BY <2>4 DEF DiskOf, WorkerOf
  <2>6. QED
    BY <2>1, <2>2, <2>3, <2>5
<1>8. ServerTypes'
  BY <1>1, <1>2, <1>3 DEF ServerTypes, server, admission
<1>9. QED
  BY <1>1, <1>2, <1>6, <1>7, <1>8, RunSteps DEF server

LEMMA KeepsWait == ASSUME NEW r \in Run, RunsInv, Wait(r) PROVE RunsInv'
<1> USE DEF RunTypes
<1>1. RunTypes /\ ServerTypes /\ RunFits(r) /\ ServerFits
  BY TypesAre DEF RunsInv
<1>2. /\ worker[r] = "wait"
      /\ UNCHANGED <<admitted, submission, server, adm, op, active, token, keyOf, cancelled,
                     crashes, state, result, executions, mem, torn, faults>>
  BY DEF Wait, WorkerAt
<1>3. /\ worker' \in {[worker EXCEPT ![r] = "finish"], [worker EXCEPT ![r] = "start"]}
      /\ verdict' \in {verdict, [verdict EXCEPT ![r] = "cancelled"], [verdict EXCEPT ![r] = "error"]}
      /\ slots' \in {slots, slots \cup {r}}
  BY DEF Wait, GoTo, Erred, admission
<1>4. queue' \in Seq(Run)
  <2>1. CASE queue' = queue
    BY <1>1, <2>1 DEF ServerTypes
  <2>2. CASE queue # <<>> /\ queue' = Tail(queue)
    BY <1>1, <2>2, TailIs DEF ServerTypes
  <2>3. QED
    BY <2>1, <2>2 DEF Wait, Granted, admission
<1>5. OnlyRun(r)
  <2>1. RunTypes'
    BY <1>1, <1>2, <1>3 DEF Status, WorkerStep, Final, Outcome
  <2>2. ASSUME NEW x \in Run \ {r} PROVE SameRun(x)
    BY <1>1, <1>2, <1>3 DEF SameRun
  <2>3. QED
    BY <2>1, <2>2 DEF OnlyRun
<1>6. RunFits(r)'
  <2>1. worker'[r] \in {"finish", "start"}
    BY <1>1, <1>3
  <2> USE <1>1, <1>2, <2>1 DEF RunFits, server
  <2>2. ThreadOf(r)' /\ OperationOf(r)'
    BY DEF ThreadOf, OperationOf
  <2>3. AdmissionOf(r)' /\ FoundOf(r)'
    BY DEF AdmissionOf, FoundOf
  <2>4. DiskOf(r)'
    BY DEF DiskOf
  <2>5. worker'[r] = "finish" => verdict'[r] # None
    BY <1>1, Distinct DEF Wait, Erred, GoTo, Status, Final, Outcome
  <2>6. WorkerOf(r)'
    BY <2>5 DEF DiskOf, WorkerOf
  <2>7. QED
    BY <2>2, <2>3, <2>4, <2>6
<1>7. ServerTypes'
  BY <1>1, <1>2, <1>4 DEF ServerTypes, server
<1>8. QED
  BY <1>1, <1>2, <1>5, <1>6, <1>7, RunSteps DEF server

LEMMA KeepsExecute == ASSUME NEW r \in Run, RunsInv, Execute(r) PROVE RunsInv'
<1> USE DEF RunTypes
<1>1. RunTypes /\ ServerTypes /\ RunFits(r) /\ ServerFits
  BY TypesAre DEF RunsInv
<1>2. /\ worker[r] = "execute" /\ worker' = [worker EXCEPT ![r] = "finish"]
      /\ UNCHANGED <<admitted, submission, server, adm, op, active, token, keyOf, cancelled,
                     crashes, state, executions, mem, admission>>
  BY DEF Execute, WorkerAt, GoTo, Erred
<1>3. PICK v \in Outcome \cup {"error"} : verdict' = [verdict EXCEPT ![r] = v]
  BY DEF Execute, Erred, Outcome
<1>4. faults' \in 0..MaxFaults /\ torn' \in {torn, torn \cup {r}}
  BY <1>1, Bounds DEF Execute, Fault, ServerTypes
<1>5. \/ result' = result
      \/ \E o \in Outcome : /\ result' = [result EXCEPT ![r] = o]
                            /\ verdict' = [verdict EXCEPT ![r] = o] \/ r \in torn'
  BY DEF Execute
<1>6. OnlyRun(r)
  <2>1. result' \in [Run -> Outcome \cup {None}]
    BY <1>1, <1>5
  <2>2. RunTypes'
    BY <1>1, <1>2, <1>3, <1>4, <2>1 DEF WorkerStep, admission
  <2>3. ASSUME NEW x \in Run \ {r} PROVE result'[x] = result[x]
    BY <1>1, <1>5
  <2>4. ASSUME NEW x \in Run \ {r} PROVE SameRun(x)
    BY <1>1, <1>2, <1>3, <1>4, <2>3 DEF SameRun, admission
  <2>5. QED
    BY <2>2, <2>4 DEF OnlyRun
<1>7. RunFits(r)'
  <2>1. worker'[r] = "finish" /\ (result'[r] # result[r] => verdict'[r] = result'[r] \/ r \in torn')
    BY <1>1, <1>2, <1>5
  <2> USE <1>1, <1>2, <2>1 DEF RunFits, server, admission
  <2>2. ThreadOf(r)' /\ OperationOf(r)'
    BY DEF ThreadOf, OperationOf
  <2>3. AdmissionOf(r)' /\ FoundOf(r)'
    BY DEF AdmissionOf, FoundOf
  <2>4. state'[r] \notin Final /\ state'[r] \notin {None, "queued"} /\ executions[r] = 1 /\ r \notin cancelled
    BY Distinct DEF DiskOf, WorkerOf, Final, Outcome, Status
  <2>5. DiskOf(r)'
    BY <2>4 DEF DiskOf
  <2>6. verdict'[r] # None
    BY <1>1, <1>3, Distinct DEF Status, Final, Outcome
  <2>7. WorkerOf(r)'
    BY <2>4, <2>6 DEF DiskOf, WorkerOf
  <2>8. QED
    BY <2>2, <2>3, <2>5, <2>7
<1>8. ServerTypes'
  BY <1>1, <1>2, <1>4 DEF ServerTypes, server, admission
<1>9. QED
  BY <1>1, <1>2, <1>6, <1>7, <1>8, RunSteps DEF server

LEMMA KeepsFinish == ASSUME NEW r \in Run, RunsInv, Finish(r) PROVE RunsInv'
<1> USE DEF RunTypes
<1>1. RunTypes /\ ServerTypes /\ RunFits(r) /\ ServerFits
  BY TypesAre DEF RunsInv
<1>2. /\ worker[r] = "finish" /\ worker' = [worker EXCEPT ![r] = "ended"]
      /\ UNCHANGED <<admitted, submission, server, adm, op, active, token, keyOf, cancelled,
                     crashes, result, executions, admission, verdict, torn>>
  BY DEF Finish, WorkerAt, GoTo
<1>3. Reported(r) \subseteq Outcome \cup {None}
  BY <1>1 DEF Reported, Outcome
<1>4. \/ UNCHANGED <<state, mem>>
      \/ /\ mem[r] # "cancelled"
         /\ \E s \in Reported(r) : /\ state' \in {state, [state EXCEPT ![r] = s]}
                                   /\ \/ mem' = mem
                                      \/ mem' = [mem EXCEPT ![r] = s] /\ state' = [state EXCEPT ![r] = s]
  BY DEF Finish, Saved, Unsaved
<1>5. faults' \in 0..MaxFaults
  BY <1>1, Bounds DEF Finish, Saved, Unsaved, Fault, ServerTypes
<1>6. OnlyRun(r)
  <2>1. state' \in [Run -> Status \cup {None}] /\ mem' \in [Run -> Status \cup {None}]
    BY <1>1, <1>3, <1>4 DEF Status, Final
  <2>2. RunTypes'
    BY <1>1, <1>2, <2>1 DEF WorkerStep, admission
  <2>3. ASSUME NEW x \in Run \ {r} PROVE state'[x] = state[x] /\ mem'[x] = mem[x]
    BY <1>1, <1>4
  <2>4. ASSUME NEW x \in Run \ {r} PROVE SameRun(x)
    BY <1>1, <1>2, <2>3 DEF SameRun, admission
  <2>5. QED
    BY <2>2, <2>4 DEF OnlyRun
<1>7. RunFits(r)'
  <2>1. worker'[r] = "ended"
    BY <1>1, <1>2
  <2>2. result[r] # None /\ r \notin torn => Reported(r) = {result[r]}
    BY <1>1, <1>2 DEF RunFits, WorkerOf, Reported, Outcome
  <2>3. \/ state'[r] = state[r] /\ mem'[r] = mem[r]
        \/ \E s \in Reported(r) : /\ state'[r] \in {state[r], s}
                                  /\ mem'[r] = mem[r] \/ (mem'[r] = s /\ state'[r] = s)
    BY <1>1, <1>4
  <2>4. \A s \in Reported(r) : s # "queued" /\ s # None
    BY <1>1, <1>2, Distinct DEF Reported, Outcome, Status, Final, RunFits, WorkerOf
  <2> USE <1>1, <1>2, <2>1, <2>2, <2>3, <2>4 DEF RunFits, server, admission
  <2>5. ThreadOf(r)' /\ OperationOf(r)'
    BY DEF ThreadOf, OperationOf
  <2>6. AdmissionOf(r)' /\ FoundOf(r)'
    BY DEF AdmissionOf, FoundOf
  <2>7. DiskOf(r)'
    BY DEF DiskOf
  <2>8. WorkerOf(r)'
    BY DEF DiskOf, WorkerOf
  <2>9. QED
    BY <2>5, <2>6, <2>7, <2>8
<1>8. ServerTypes'
  BY <1>1, <1>2, <1>5 DEF ServerTypes, server, admission
<1>9. QED
  BY <1>1, <1>2, <1>6, <1>7, <1>8, RunSteps DEF server

LEMMA KeepsExit == ASSUME NEW r \in Run, RunsInv, Exit(r) PROVE RunsInv'
<1> USE DEF RunTypes
<1>1. RunTypes /\ ServerTypes /\ RunFits(r) /\ ServerFits
  BY TypesAre DEF RunsInv
<1>2. /\ worker[r] = "ended" /\ worker' = [worker EXCEPT ![r] = "gone"] /\ slots' = slots \ {r}
      /\ UNCHANGED <<admitted, submission, server, adm, op, active, token, keyOf, cancelled,
                     crashes, state, result, executions, mem, verdict, torn, faults>>
  BY DEF Exit, WorkerAt, GoTo, Release
<1>3. queue' \in Seq(Run)
  BY <1>1, WithoutIs DEF Exit, Release, Dequeue, ServerTypes
<1>4. OnlyRun(r)
  <2>1. RunTypes'
    BY <1>1, <1>2 DEF WorkerStep
  <2>2. ASSUME NEW x \in Run \ {r} PROVE SameRun(x)
    BY <1>1, <1>2 DEF SameRun
  <2>3. QED
    BY <2>1, <2>2 DEF OnlyRun
<1>5. RunFits(r)'
  <2>1. worker'[r] = "gone"
    BY <1>1, <1>2
  <2> USE <1>1, <1>2, <2>1 DEF RunFits, server
  <2>2. ThreadOf(r)' /\ OperationOf(r)'
    BY DEF ThreadOf, OperationOf
  <2>3. AdmissionOf(r)' /\ FoundOf(r)'
    BY DEF AdmissionOf, FoundOf
  <2>4. DiskOf(r)' /\ WorkerOf(r)'
    BY DEF DiskOf, WorkerOf
  <2>5. QED
    BY <2>2, <2>3, <2>4
<1>6. ServerTypes'
  BY <1>1, <1>2, <1>3 DEF ServerTypes, server
<1>7. QED
  BY <1>1, <1>2, <1>4, <1>5, <1>6, RunSteps DEF server

-----------------------------------------------------------------------------
(* Steps of an admission. *)

\* A step that is about the run being admitted, or begins to admit it.
LEMMA AdmissionSteps ==
    ASSUME NEW r \in Run, RunsInv, OnlyRun(r), UNCHANGED <<phase, op, boot>>, phase = "up",
           op # None => op.run # r,
           adm' # None => adm'.run = r, adm # None => adm.run = r,
           \A x \in Run \ {r} : keyOf[x] \in Key =>
              submission'[keyOf[x]] = submission[keyOf[x]] \/ submission[keyOf[x]] = None,
           ServerTypes', RunFits(r)'
    PROVE  RunsInv'
<1>1. TypeOK'
  BY TypesAre, PTL DEF OnlyRun
<1>2. ServerFits'
  BY DEF RunsInv, ServerFits
<1>3. ASSUME NEW x \in Run PROVE RunFits(x)'
  <2>1. CASE x = r
    BY <2>1
  <2>2. CASE x # r
    BY <2>2, OthersKeep DEF RunsInv, OnlyRun
  <2>3. QED
    BY <2>1, <2>2
<1>4. QED
  BY <1>1, <1>2, <1>3 DEF RunsInv

LEMMA KeepsSubmit ==
    ASSUME NEW r \in Run, NEW k \in Key \cup {None}, RunsInv, Submit(r, k) PROVE RunsInv'
<1> USE DEF RunTypes
<1>1. RunTypes /\ ServerTypes /\ RunFits(r) /\ ServerFits
  BY TypesAre DEF RunsInv
<1>2. /\ phase = "up" /\ adm = None /\ keyOf[r] = "fresh" /\ (k \in Key => submission[k] = None)
      /\ adm' = [run |-> r, step |-> "state"] /\ keyOf' = [keyOf EXCEPT ![r] = k]
      /\ active' = {a \in active : worker[a] # "gone"}
      /\ UNCHANGED <<disk, server, op, mem, token, worker, verdict, cancelled, torn, crashes, faults>>
  BY DEF Submit, Unused
<1>3. slots' \in {slots, slots \cup {r}}
  BY DEF Submit, Reserve
<1>4. queue' \in Seq(Run)
  <2>1. queue \in Seq(Run) /\ Append(queue, r) \in Seq(Run)
    BY <1>1, AppendProperties DEF ServerTypes
  <2>2. queue' = queue \/ queue' = Append(queue, r)
    BY DEF Submit, Reserve
  <2>3. QED
    BY <2>1, <2>2
<1>5. OnlyRun(r)
  <2>1. RunTypes'
    BY <1>1, <1>2, <1>3 DEF disk
  <2>2. ASSUME NEW x \in Run \ {r} PROVE SameRun(x)
    BY <1>1, <1>2, <1>3 DEF SameRun, disk
  <2>3. QED
    BY <2>1, <2>2 DEF OnlyRun
<1>6. keyOf'[r] = k /\ k # "fresh" /\ (op # None => op.run # r)
  BY <1>1, <1>2, Distinct DEF ServerFits, RunFits, DiskOf, OperationOf, ServerTypes
<1>7. RunFits(r)'
  <2>1. /\ state[r] = None /\ executions[r] = 0 /\ admitted[r] = 0 /\ worker[r] = "none"
        /\ mem[r] = None /\ r \notin cancelled /\ keyOf'[r] = k /\ k # "fresh"
    BY <1>1, <1>2, Distinct DEF RunFits, DiskOf
  <2> USE <1>1, <1>2, <2>1 DEF RunFits, server, disk
  <2>2. ThreadOf(r)' /\ OperationOf(r)'
    BY DEF ThreadOf, OperationOf
  <2>3. AdmissionOf(r)' /\ FoundOf(r)'
    BY DEF AdmissionOf, FoundOf
  <2>4. DiskOf(r)'
    BY DEF DiskOf
  <2>5. WorkerOf(r)'
    BY Distinct DEF WorkerOf, Status
  <2>6. QED
    BY <2>2, <2>3, <2>4, <2>5
<1>8. ServerTypes'
  BY <1>1, <1>2, <1>4 DEF ServerTypes, server, disk
<1>9. QED
  BY <1>1, <1>2, <1>5, <1>6, <1>7, <1>8, AdmissionSteps DEF server, disk

\* What an admission does before its run has a thread.
LEMMA AdmissionKeeps ==
    ASSUME RunsInv, adm # None, NEW r, r = adm.run,
           UNCHANGED <<result, executions, phase, boot, op, history, workers>>,
           state' \in [Run -> Status \cup {None}], admitted' \in [Run -> Nat],
           \A x \in Run \ {r} : state'[x] = state[x] /\ admitted'[x] = admitted[x],
           slots' \in {slots, slots \ {r}},
           submission' = submission \/ (/\ adm.step = "key" /\ keyOf[r] \in Key
                                        /\ submission' = [submission EXCEPT ![keyOf[r]] = r]),
           admitted'[r] # 0 /\ keyOf[r] \in Key => submission'[keyOf[r]] = r,
           adm' # None => adm'.run = r, AdmissionOf(r)', ServerTypes'
    PROVE  RunsInv'
<1> USE DEF RunTypes
<1>1. RunTypes /\ ServerTypes /\ ServerFits
  BY TypesAre DEF RunsInv
<1>2. r \in Run /\ RunFits(r)
  BY <1>1 DEF ServerTypes, RunsInv
<1>3. OnlyRun(r)
  <2>1. RunTypes'
    BY <1>1 DEF history, workers
  <2>2. ASSUME NEW x \in Run \ {r} PROVE SameRun(x)
    BY <1>1 DEF SameRun, history, workers
  <2>3. QED
    BY <2>1, <2>2 DEF OnlyRun
<1>4. phase = "up" /\ (op # None => op.run # r)
  BY DEF RunsInv, ServerFits
<1>5. \A x \in Run \ {r} : keyOf[x] \in Key =>
         submission'[keyOf[x]] = submission[keyOf[x]] \/ submission[keyOf[x]] = None
  BY <1>1, <1>2 DEF RunFits, AdmissionOf, ServerTypes
<1>6. RunFits(r)'
  <2>1. /\ executions[r] = 0 /\ worker[r] = "none" /\ mem[r] = None /\ keyOf[r] # "fresh"
        /\ r \notin cancelled /\ result[r] = None
    BY <1>1, <1>2 DEF RunFits, AdmissionOf, DiskOf
  <2> USE <1>1, <1>2, <1>4, <2>1 DEF RunFits, history, workers
  <2>2. ThreadOf(r)' /\ OperationOf(r)'
    BY DEF ThreadOf, OperationOf
  <2>3. FoundOf(r)'
    BY DEF FoundOf
  <2>4. DiskOf(r)'
    BY DEF DiskOf
  <2>5. WorkerOf(r)'
    BY Distinct DEF WorkerOf, Status
  <2>6. QED
    BY <2>2, <2>3, <2>4, <2>5
<1>7. QED
  BY <1>1, <1>2, <1>3, <1>4, <1>5, <1>6, AdmissionSteps

LEMMA KeepsAdmitState == ASSUME RunsInv, AdmitState PROVE RunsInv'
<1>1. RunTypes /\ ServerTypes
  BY TypesAre DEF RunsInv
<1>2. PICK r \in Run : r = adm.run /\ adm # None /\ adm.step = "state" /\ RunFits(r)
  BY <1>1 DEF AdmitState, AdmitStep, ServerTypes, RunsInv
<1>3. /\ UNCHANGED <<result, executions, phase, boot, op, history, admitted, submission,
                     sequence, admission, workers>>
      /\ \/ /\ state' = [state EXCEPT ![r] = InitialStatus(r)] /\ adm' = [adm EXCEPT !.step = "key"]
         \/ /\ state' \in {state, [state EXCEPT ![r] = InitialStatus(r)]}
            /\ adm' = [adm EXCEPT !.step = "fail"]
  BY <1>2 DEF AdmitState, AdmitStep, Saved, Unsaved, NextAdmission
<1>4. faults' \in 0..MaxFaults
  BY <1>1, Bounds DEF AdmitState, Saved, Unsaved, Fault, ServerTypes
<1>5. InitialStatus(r) \in Status
  BY DEF InitialStatus, Status
<1>6. adm'.run = r /\ adm' \in [run : Run, step : {"key", "fail"}]
      /\ (adm'.step = "key" => state'[r] = InitialStatus(r))
  BY <1>1, <1>2, <1>3 DEF ServerTypes, RunTypes
<1>7. ServerTypes'
  BY <1>1, <1>3, <1>4, <1>6 DEF ServerTypes, admission, history
<1>8. AdmissionOf(r)'
  BY <1>2, <1>3, <1>6 DEF AdmissionOf, InitialStatus, RunFits, workers, history, admission
<1>9. /\ state' \in [Run -> Status \cup {None}] /\ admitted' \in [Run -> Nat]
      /\ \A x \in Run \ {r} : state'[x] = state[x] /\ admitted'[x] = admitted[x]
  BY <1>1, <1>3, <1>5 DEF RunTypes
<1>10. admitted'[r] # 0 /\ keyOf[r] \in Key => submission'[keyOf[r]] = r
  BY <1>2, <1>3 DEF RunFits, DiskOf
<1>11. QED
  BY <1>2, <1>3, <1>6, <1>7, <1>8, <1>9, <1>10, AdmissionKeeps DEF admission

LEMMA KeepsAdmitKey == ASSUME RunsInv, AdmitKey PROVE RunsInv'
<1>1. RunTypes /\ ServerTypes
  BY TypesAre DEF RunsInv
<1>2. PICK r \in Run : r = adm.run /\ adm # None /\ adm.step = "key" /\ RunFits(r)
  BY <1>1 DEF AdmitKey, AdmitStep, ServerTypes, RunsInv
<1>3. /\ UNCHANGED <<result, executions, phase, boot, op, history, state, admitted,
                     sequence, admission, workers>>
      /\ \/ /\ keyOf[r] = None /\ submission' = submission /\ adm' = [adm EXCEPT !.step = "record"]
         \/ /\ keyOf[r] # None /\ submission' = [submission EXCEPT ![keyOf[r]] = r]
            /\ adm' = [adm EXCEPT !.step = "record"]
         \/ /\ keyOf[r] # None /\ submission' \in {submission, [submission EXCEPT ![keyOf[r]] = r]}
            /\ adm' = [adm EXCEPT !.step = "fail"]
  BY <1>2 DEF AdmitKey, AdmitStep, NextAdmission
<1>4. faults' \in 0..MaxFaults
  BY <1>1, Bounds DEF AdmitKey, Fault, ServerTypes
<1>5. adm'.run = r /\ adm' \in [run : Run, step : {"record", "fail"}]
  BY <1>1, <1>2, <1>3 DEF ServerTypes
<1>6. keyOf[r] \in Key \cup {None} /\ None \notin Key
  BY <1>1, <1>2, RunAssumption DEF RunTypes, RunFits, AdmissionOf
<1>7. /\ submission' \in [Key -> Run \cup {None}]
      /\ submission' = submission \/ (keyOf[r] \in Key /\ submission' = [submission EXCEPT ![keyOf[r]] = r])
      /\ keyOf[r] \in Key /\ adm'.step = "record" => submission'[keyOf[r]] = r
  BY <1>1, <1>2, <1>3, <1>6 DEF ServerTypes
<1>8. ServerTypes'
  BY <1>1, <1>3, <1>4, <1>5, <1>7 DEF ServerTypes, admission, history
<1>9. AdmissionOf(r)'
  BY <1>2, <1>3, <1>5, <1>7 DEF AdmissionOf, InitialStatus, RunFits, workers, history, admission
<1>10. admitted'[r] # 0 /\ keyOf[r] \in Key => submission'[keyOf[r]] = r
  BY <1>1, <1>2, <1>3, <1>7 DEF RunFits, DiskOf, ServerTypes
<1>11. state' \in [Run -> Status \cup {None}] /\ admitted' \in [Run -> Nat]
  BY <1>1, <1>3 DEF RunTypes
<1>12. QED
  BY <1>2, <1>3, <1>5, <1>7, <1>8, <1>9, <1>10, <1>11, AdmissionKeeps DEF admission

LEMMA KeepsAdmitRecord == ASSUME RunsInv, AdmitRecord PROVE RunsInv'
<1>1. RunTypes /\ ServerTypes
  BY TypesAre DEF RunsInv
<1>2. PICK r \in Run : r = adm.run /\ adm # None /\ adm.step = "record" /\ RunFits(r)
  BY <1>1 DEF AdmitRecord, AdmitStep, ServerTypes, RunsInv
<1>3. /\ UNCHANGED <<result, executions, phase, boot, op, history, state, submission,
                     admission, workers>>
      /\ sequence' = sequence + 1 /\ admitted' \in {admitted, [admitted EXCEPT ![r] = sequence + 1]}
      /\ adm' \in {[adm EXCEPT !.step = "spawn"], [adm EXCEPT !.step = "fail"]}
  BY <1>2 DEF AdmitRecord, AdmitStep, NextAdmission
<1>4. faults' \in 0..MaxFaults
  BY <1>1, Bounds DEF AdmitRecord, Fault, ServerTypes
<1>5. adm'.run = r /\ adm' \in [run : Run, step : {"spawn", "fail"}]
  BY <1>1, <1>2, <1>3 DEF ServerTypes
<1>6. /\ admitted' \in [Run -> Nat] /\ state' \in [Run -> Status \cup {None}]
      /\ \A x \in Run \ {r} : state'[x] = state[x] /\ admitted'[x] = admitted[x]
  <2>1. sequence + 1 \in Nat /\ admitted \in [Run -> Nat] /\ state \in [Run -> Status \cup {None}]
    BY <1>1 DEF RunTypes, ServerTypes
  <2>2. state' = state
    BY <1>3
  <2>3. CASE admitted' = admitted
    BY <2>1, <2>2, <2>3
  <2>4. CASE admitted' = [admitted EXCEPT ![r] = sequence + 1]
    BY <2>1, <2>2, <2>4
  <2>5. QED
    BY <1>3, <2>3, <2>4
<1>7. ServerTypes'
  BY <1>1, <1>3, <1>4, <1>5 DEF ServerTypes, admission, history
<1>8. AdmissionOf(r)' /\ (keyOf[r] \in Key => submission[keyOf[r]] = r)
  BY <1>2, <1>3, <1>5 DEF AdmissionOf, InitialStatus, RunFits, workers, history, admission
<1>9. QED
  BY <1>2, <1>3, <1>5, <1>6, <1>7, <1>8, AdmissionKeeps DEF admission

LEMMA KeepsSpawnFails == ASSUME RunsInv, SpawnFails PROVE RunsInv'
<1>1. RunTypes /\ ServerTypes
  BY TypesAre DEF RunsInv
<1>2. PICK r \in Run : r = adm.run /\ adm # None /\ adm.step = "spawn" /\ RunFits(r)
  BY <1>1 DEF SpawnFails, AdmitStep, ServerTypes, RunsInv
<1>3. /\ UNCHANGED <<result, executions, phase, boot, op, history, state, admitted, submission,
                     sequence, workers>>
      /\ adm' = [adm EXCEPT !.step = "fail"] /\ slots' = slots \ {r} /\ queue' = Without(queue, {r})
  BY <1>2 DEF SpawnFails, AdmitStep, NextAdmission, Release, Dequeue
<1>4. faults' \in 0..MaxFaults /\ queue' \in Seq(Run)
  BY <1>1, <1>3, Bounds, WithoutIs DEF SpawnFails, Fault, ServerTypes
<1>5. adm'.run = r /\ adm' \in [run : Run, step : {"fail"}]
  BY <1>1, <1>2, <1>3 DEF ServerTypes
<1>6. ServerTypes'
  BY <1>1, <1>3, <1>4, <1>5 DEF ServerTypes, history
<1>7. AdmissionOf(r)'
  BY <1>2, <1>3, <1>5 DEF AdmissionOf, RunFits, workers, history
<1>8. /\ admitted' \in [Run -> Nat] /\ state' \in [Run -> Status \cup {None}]
      /\ admitted'[r] # 0 /\ keyOf[r] \in Key => submission'[keyOf[r]] = r
  BY <1>1, <1>2, <1>3 DEF RunTypes, RunFits, DiskOf
<1>9. QED
  BY <1>2, <1>3, <1>5, <1>6, <1>7, <1>8, AdmissionKeeps

LEMMA KeepsAdmitFail == ASSUME RunsInv, AdmitFail PROVE RunsInv'
<1>1. RunTypes /\ ServerTypes
  BY TypesAre DEF RunsInv
<1>2. PICK r \in Run : r = adm.run /\ adm # None /\ adm.step = "fail" /\ RunFits(r)
  BY <1>1 DEF AdmitFail, AdmitStep, ServerTypes, RunsInv
<1>3. /\ UNCHANGED <<result, executions, phase, boot, op, history, admitted, submission,
                     sequence, workers>>
      /\ state' \in {state, [state EXCEPT ![r] = "failed"]}
      /\ adm' = None /\ slots' = slots \ {r} /\ queue' = Without(queue, {r})
  BY <1>2 DEF AdmitFail, AdmitStep, Saved, Unsaved, Release, Dequeue
<1>4. faults' \in 0..MaxFaults /\ queue' \in Seq(Run)
  BY <1>1, <1>3, Bounds, WithoutIs DEF AdmitFail, Saved, Unsaved, Fault, ServerTypes
<1>5. /\ admitted' \in [Run -> Nat] /\ state' \in [Run -> Status \cup {None}]
      /\ \A x \in Run \ {r} : state'[x] = state[x] /\ admitted'[x] = admitted[x]
      /\ admitted'[r] # 0 /\ keyOf[r] \in Key => submission'[keyOf[r]] = r
  BY <1>1, <1>2, <1>3 DEF RunTypes, RunFits, DiskOf, Status, Final, Outcome
<1>6. ServerTypes'
  BY <1>1, <1>3, <1>4 DEF ServerTypes, history
<1>7. AdmissionOf(r)'
  BY <1>3 DEF AdmissionOf
<1>8. QED
  BY <1>2, <1>3, <1>5, <1>6, <1>7, AdmissionKeeps

LEMMA KeepsAdmitSpawn == ASSUME RunsInv, AdmitSpawn PROVE RunsInv'
<1> USE DEF RunTypes
<1>1. RunTypes /\ ServerTypes /\ ServerFits
  BY TypesAre DEF RunsInv
<1>2. PICK r \in Run : r = adm.run /\ adm # None /\ adm.step = "spawn" /\ RunFits(r)
  BY <1>1 DEF AdmitSpawn, AdmitStep, ServerTypes, RunsInv
<1>3. /\ UNCHANGED <<result, executions, phase, boot, op, history, state, admitted, submission,
                     sequence, admission, faults, token, verdict>>
      /\ adm' = None /\ active' = active \cup {r} /\ mem' = [mem EXCEPT ![r] = InitialStatus(r)]
      /\ worker' = [worker EXCEPT ![r] = "wait"]
  BY <1>2 DEF AdmitSpawn, AdmitStep, Spawn
<1>4. /\ executions[r] = 0 /\ keyOf[r] # "fresh" /\ r \notin cancelled
      /\ state[r] = InitialStatus(r) /\ (keyOf[r] \in Key => submission[keyOf[r]] = r)
      /\ phase = "up" /\ (op # None => op.run # r /\ r \notin op.rest) /\ result[r] = None
  BY <1>1, <1>2 DEF RunFits, AdmissionOf, ServerFits, OperationOf, DiskOf
<1>5. InitialStatus(r) \in {"queued", "running"}
  BY DEF InitialStatus
<1>6. OnlyRun(r)
  <2>1. RunTypes'
    BY <1>1, <1>3, <1>5 DEF history, admission, Status, WorkerStep
  <2>2. ASSUME NEW x \in Run \ {r} PROVE SameRun(x)
    BY <1>1, <1>3 DEF SameRun, history, admission
  <2>3. QED
    BY <2>1, <2>2 DEF OnlyRun
<1>7. RunFits(r)'
  <2>1. worker'[r] = "wait" /\ mem'[r] = state[r] /\ state[r] \in {"queued", "running"} /\ r \in active'
    BY <1>1, <1>3, <1>4, <1>5
  <2> USE <1>1, <1>2, <1>3, <1>4, <2>1 DEF RunFits, history
  <2>2. ThreadOf(r)' /\ OperationOf(r)'
    BY Distinct DEF ThreadOf, OperationOf, Status
  <2>3. AdmissionOf(r)' /\ FoundOf(r)'
    BY DEF AdmissionOf, FoundOf
  <2>4. DiskOf(r)'
    BY DEF DiskOf
  <2>5. WorkerOf(r)'
    BY Distinct DEF WorkerOf, Status
  <2>6. QED
    BY <2>2, <2>3, <2>4, <2>5
<1>8. ServerTypes'
  BY <1>1, <1>3 DEF ServerTypes, history, admission
<1>9. QED
  BY <1>1, <1>2, <1>3, <1>4, <1>6, <1>7, <1>8, AdmissionSteps

-----------------------------------------------------------------------------
(* Cancellation. *)

\* A step that is about the run being cancelled, or begins to cancel it.
LEMMA OperationSteps ==
    ASSUME NEW r \in Run, RunsInv, OnlyRun(r), UNCHANGED <<phase, adm, boot, submission>>,
           op' # None => op'.run = r /\ \A x \in op'.rest : op # None /\ x \in op.rest,
           ServerTypes', ServerFits', RunFits(r)'
    PROVE  RunsInv'
<1>1. TypeOK'
  BY TypesAre, PTL DEF OnlyRun
<1>2. ASSUME NEW x \in Run PROVE RunFits(x)'
  <2>1. CASE x = r
    BY <2>1
  <2>2. CASE x # r
    BY <2>2, OthersKeep DEF RunsInv, OnlyRun
  <2>3. QED
    BY <2>1, <2>2
<1>3. QED
  BY <1>1, <1>2 DEF RunsInv

LEMMA KeepsCancelRun == ASSUME NEW r \in Run, RunsInv, CancelRun(r) PROVE RunsInv'
<1> USE DEF RunTypes
<1>1. RunTypes /\ ServerTypes /\ ServerFits /\ RunFits(r)
  BY TypesAre DEF RunsInv
<1>2. /\ phase \in {"up", "closed"} /\ op = None /\ adm = None /\ state[r] # None
      /\ UNCHANGED <<disk, server, adm, admission, mem, token, worker, verdict, history, faults>>
      /\ \/ /\ r \in active /\ worker[r] # "gone" /\ active' = active
            /\ op' = [run |-> r, step |-> "token", rest |-> {}]
         \/ /\ ~(r \in active /\ worker[r] # "gone") /\ active' = active \ {r}
            /\ op' = [run |-> r, step |-> "disk", rest |-> {}]
  BY DEF CancelRun
<1>3. OnlyRun(r)
  <2>1. RunTypes'
    BY <1>1, <1>2 DEF history, admission, disk
  <2>2. ASSUME NEW x \in Run \ {r} PROVE SameRun(x)
    BY <1>1, <1>2 DEF SameRun, history, admission, disk
  <2>3. QED
    BY <2>1, <2>2 DEF OnlyRun
<1>4. /\ op'.run = r /\ op'.rest = {} /\ op'.step \in {"token", "disk"}
      /\ op' \in [run : Run \cup {None}, rest : SUBSET Run, step : {"token", "save", "disk", "next"}]
  BY <1>2
<1>5. /\ op'.step = "token" => mem[r] # None
      /\ op'.step = "disk" => worker[r] \in {"none", "gone"}
  BY <1>1, <1>2 DEF RunFits, ThreadOf
<1>6. RunFits(r)'
  <2> USE <1>1, <1>2, <1>4, <1>5 DEF RunFits, server, disk, history
  <2>1. ThreadOf(r)'
    BY DEF ThreadOf
  <2>2. OperationOf(r)'
    BY DEF OperationOf
  <2>3. AdmissionOf(r)' /\ FoundOf(r)'
    BY DEF AdmissionOf, FoundOf
  <2>4. DiskOf(r)' /\ WorkerOf(r)'
    BY DEF DiskOf, WorkerOf
  <2>5. QED
    BY <2>1, <2>2, <2>3, <2>4
<1>7. ServerTypes' /\ ServerFits'
  BY <1>1, <1>2, <1>4 DEF ServerTypes, ServerFits, server, disk, admission, history
<1>8. QED
  BY <1>2, <1>3, <1>4, <1>6, <1>7, OperationSteps DEF server, disk

LEMMA KeepsCancelToken == ASSUME RunsInv, CancelToken PROVE RunsInv'
<1> USE DEF RunTypes
<1>1. RunTypes /\ ServerTypes /\ ServerFits
  BY TypesAre DEF RunsInv
<1>2. PICK r \in Run : r = op.run /\ op # None /\ op.step = "token" /\ RunFits(r)
  BY <1>1 DEF CancelToken, AtCancel, ServerFits, RunsInv
<1>3. /\ UNCHANGED <<admitted, result, submission, executions, boot, sequence, adm, slots, active,
                     worker, verdict, keyOf, torn, crashes, state, phase, queue, mem, cancelled, faults>>
      /\ token' = [token EXCEPT ![r] = TRUE] /\ op' = [op EXCEPT !.step = "save"]
  BY <1>2 DEF CancelToken, AtCancel, Signalled
<1>4. OnlyRun(r)
  <2>1. RunTypes'
    BY <1>1, <1>3
  <2>2. ASSUME NEW x \in Run \ {r} PROVE SameRun(x)
    BY <1>1, <1>3 DEF SameRun
  <2>3. QED
    BY <2>1, <2>2 DEF OnlyRun
<1>5. /\ op'.run = r /\ op'.rest = op.rest /\ op'.step = "save"
      /\ op' \in [run : Run \cup {None}, rest : SUBSET Run, step : {"token", "save", "disk", "next"}]
  BY <1>1, <1>2, <1>3 DEF ServerTypes
<1>6. token'[r]
  BY <1>1, <1>3
<1>7. RunFits(r)'
  <2> USE <1>1, <1>2, <1>3, <1>5, <1>6 DEF RunFits
  <2>1. ThreadOf(r)'
    BY DEF ThreadOf
  <2>2. OperationOf(r)'
    BY DEF OperationOf
  <2>3. AdmissionOf(r)' /\ FoundOf(r)'
    BY DEF AdmissionOf, FoundOf, InitialStatus
  <2>4. DiskOf(r)' /\ WorkerOf(r)'
    BY DEF DiskOf, WorkerOf
  <2>5. QED
    BY <2>1, <2>2, <2>3, <2>4
<1>8. ServerTypes' /\ ServerFits'
  BY <1>1, <1>2, <1>3, <1>5 DEF ServerTypes, ServerFits
<1>9. QED
  BY <1>2, <1>3, <1>4, <1>5, <1>7, <1>8, OperationSteps

LEMMA KeepsCancelSave == ASSUME RunsInv, CancelSave PROVE RunsInv'
<1> USE DEF RunTypes
<1>1. RunTypes /\ ServerTypes /\ ServerFits
  BY TypesAre DEF RunsInv
<1>2. PICK r \in Run : r = op.run /\ op # None /\ op.step = "save" /\ RunFits(r)
  BY <1>1 DEF CancelSave, AtCancel, ServerFits, RunsInv
<1>3. /\ UNCHANGED <<admitted, result, submission, executions, boot, sequence, adm, slots, active,
                     worker, verdict, keyOf, torn, crashes, phase, token>>
      /\ op' = IF phase = "stopping" THEN [op EXCEPT !.step = "next"] ELSE None
  BY <1>2 DEF CancelSave, AtCancel, AfterCancel
<1>4. \/ /\ mem[r] = "queued" /\ state' = [state EXCEPT ![r] = "cancelled"]
         /\ mem' = [mem EXCEPT ![r] = "cancelled"]
         /\ cancelled' = IF executions[r] = 0 THEN cancelled \cup {r} ELSE cancelled
      \/ /\ mem[r] = "queued" /\ state' \in {state, [state EXCEPT ![r] = "cancelled"]}
         /\ UNCHANGED <<mem, cancelled>>
      \/ /\ mem[r] # "queued" /\ UNCHANGED <<state, mem>>
         /\ cancelled' = IF executions[r] = 0 THEN cancelled \cup {r} ELSE cancelled
  BY <1>2 DEF CancelSave, QueuedCancelled, Saved, Unsaved, Acknowledge
<1>5. faults' \in 0..MaxFaults /\ queue' \in Seq(Run)
  <2>1. faults' \in 0..MaxFaults
    BY <1>1, Bounds DEF CancelSave, QueuedCancelled, Saved, Unsaved, Fault, ServerTypes
  <2>2. queue' = queue \/ queue' = Without(queue, {r})
    BY <1>2 DEF CancelSave, QueuedCancelled, Dequeue
  <2>3. queue \in Seq(Run) /\ Without(queue, {r}) \in Seq(Run)
    BY <1>1, WithoutIs DEF ServerTypes
  <2>4. QED
    BY <2>1, <2>2, <2>3
<1>6. OnlyRun(r)
  <2>1. RunTypes'
    BY <1>1, <1>3, <1>4 DEF Status, Final, Outcome
  <2>2. ASSUME NEW x \in Run \ {r} PROVE SameRun(x)
    BY <1>1, <1>3, <1>4 DEF SameRun
  <2>3. QED
    BY <2>1, <2>2 DEF OnlyRun
<1>7. op' # None => /\ op'.run = r /\ op'.rest = op.rest /\ op'.step = "next" /\ phase = "stopping"
                    /\ op' \in [run : Run \cup {None}, rest : SUBSET Run,
                                step : {"token", "save", "disk", "next"}]
  BY <1>1, <1>2, <1>3 DEF ServerTypes
<1>8. RunFits(r)'
  <2>1. \/ /\ mem[r] = "queued" /\ state'[r] = "cancelled" /\ mem'[r] = "cancelled"
      \/ /\ mem[r] = "queued" /\ state'[r] \in {state[r], "cancelled"}
         /\ mem'[r] = mem[r] /\ cancelled' = cancelled
      \/ /\ mem[r] # "queued" /\ state'[r] = state[r] /\ mem'[r] = mem[r]
    BY <1>1, <1>4
  <2>2. /\ r \in cancelled' => r \in cancelled \/ executions[r] = 0
        /\ mem[r] # None /\ token[r] /\ (adm # None => adm.run # r)
    BY <1>1, <1>2, <1>4 DEF RunFits, OperationOf, ServerFits
  <2> USE <1>1, <1>2, <1>3, <1>7, <2>1, <2>2 DEF RunFits
  <2>3. ThreadOf(r)'
    BY Distinct DEF ThreadOf, Status, Final, Outcome
  <2>4. OperationOf(r)'
    BY Distinct DEF OperationOf, Status, Final, Outcome
  <2>5. AdmissionOf(r)'
    BY DEF AdmissionOf
  <2>6. FoundOf(r)'
    BY DEF FoundOf, ServerFits
  <2>7. DiskOf(r)'
    BY Distinct DEF DiskOf, WorkerOf, Status, Final, Outcome
  <2>8. WorkerOf(r)'
    BY Distinct DEF WorkerOf, DiskOf, Status, Final, Outcome
  <2>9. QED
    BY <2>3, <2>4, <2>5, <2>6, <2>7, <2>8
<1>9. ServerTypes' /\ ServerFits'
  BY <1>1, <1>2, <1>3, <1>5, <1>7 DEF ServerTypes, ServerFits
<1>10. QED
  BY <1>2, <1>3, <1>6, <1>7, <1>8, <1>9, OperationSteps

\* What a late cancellation makes of a run agrees with its report.
LEMMA RepairedIs ==
    ASSUME NEW r \in Run, RunTypes, DiskOf(r), state[r] # None
    PROVE  /\ Repaired(r) \in Final
           /\ result[r] # None /\ r \notin torn => Repaired(r) = result[r]
BY Distinct DEF RunTypes, DiskOf, Repaired, Recovered, Status, Final, Outcome

LEMMA KeepsCancelDisk == ASSUME RunsInv, CancelDisk PROVE RunsInv'
<1> USE DEF RunTypes
<1>1. RunTypes /\ ServerTypes /\ ServerFits
  BY TypesAre DEF RunsInv
<1>2. PICK r \in Run : r = op.run /\ op # None /\ op.step = "disk" /\ RunFits(r)
  BY <1>1 DEF CancelDisk, AtCancel, ServerFits, RunsInv
<1>3. /\ UNCHANGED <<admitted, result, submission, executions, boot, sequence, adm, slots, active,
                     worker, verdict, keyOf, torn, crashes, phase, queue, mem, token>>
      /\ op' = None
      /\ \/ /\ state' = [state EXCEPT ![r] = Repaired(r)]
            /\ cancelled' = IF executions[r] = 0 THEN cancelled \cup {r} ELSE cancelled
         \/ /\ state' \in {state, [state EXCEPT ![r] = Repaired(r)]} /\ cancelled' = cancelled
  BY <1>2 DEF CancelDisk, AtCancel, Saved, Unsaved, Acknowledge
<1>4. faults' \in 0..MaxFaults
  BY <1>1, Bounds DEF CancelDisk, Saved, Unsaved, Fault, ServerTypes
<1>5. /\ Repaired(r) \in Final /\ (result[r] # None /\ r \notin torn => Repaired(r) = result[r])
      /\ worker[r] \in {"none", "gone"} /\ state[r] # None
  BY <1>1, <1>2, RepairedIs DEF RunFits, OperationOf
<1>6. OnlyRun(r)
  <2>1. RunTypes'
    BY <1>1, <1>3, <1>5 DEF Status
  <2>2. ASSUME NEW x \in Run \ {r} PROVE SameRun(x)
    BY <1>1, <1>3 DEF SameRun
  <2>3. QED
    BY <2>1, <2>2 DEF OnlyRun
<1>7. RunFits(r)'
  <2>1. \/ state'[r] = Repaired(r)
        \/ state'[r] = state[r] /\ cancelled' = cancelled
    BY <1>1, <1>3
  <2>2. /\ r \in cancelled' => r \in cancelled \/ executions[r] = 0
        /\ adm # None => adm.run # r
        /\ Repaired(r) # None /\ Repaired(r) # "queued"
    BY <1>1, <1>2, <1>3, <1>5, Distinct DEF ServerFits, Status, Final, Outcome
  <2> USE <1>1, <1>2, <1>3, <1>5, <2>1, <2>2 DEF RunFits
  <2>3. ThreadOf(r)' /\ OperationOf(r)'
    BY DEF ThreadOf, OperationOf
  <2>4. AdmissionOf(r)'
    BY DEF AdmissionOf
  <2>5. FoundOf(r)'
    BY DEF FoundOf, ServerFits
  <2>6. DiskOf(r)'
    BY DEF DiskOf
  <2>7. WorkerOf(r)'
    BY DEF WorkerOf, DiskOf
  <2>8. QED
    BY <2>3, <2>4, <2>5, <2>6, <2>7
<1>8. ServerTypes' /\ ServerFits'
  BY <1>1, <1>2, <1>3, <1>4 DEF ServerTypes, ServerFits
<1>9. QED
  BY <1>2, <1>3, <1>6, <1>7, <1>8, OperationSteps

LEMMA KeepsShutdownNext == ASSUME NEW r \in Run, RunsInv, ShutdownNext(r) PROVE RunsInv'
<1> USE DEF RunTypes
<1>1. RunTypes /\ ServerTypes /\ ServerFits /\ RunFits(r)
  BY TypesAre DEF RunsInv
<1>2. /\ UNCHANGED <<admitted, result, submission, executions, boot, sequence, adm, slots, active,
                     worker, verdict, keyOf, torn, crashes, state, phase, queue, mem, token, cancelled, faults>>
      /\ op # None /\ op.step = "next" /\ r \in op.rest
      /\ op' = [run |-> r, step |-> "token", rest |-> op.rest \ {r}]
  BY DEF ShutdownNext, AtCancel
<1>3. OnlyRun(r)
  <2>1. RunTypes'
    BY <1>1, <1>2
  <2>2. ASSUME NEW x \in Run \ {r} PROVE SameRun(x)
    BY <1>1, <1>2 DEF SameRun
  <2>3. QED
    BY <2>1, <2>2 DEF OnlyRun
<1>4. /\ op'.run = r /\ op'.rest = op.rest \ {r} /\ op'.step = "token" /\ op.rest \subseteq Run
      /\ op' \in [run : Run \cup {None}, rest : SUBSET Run, step : {"token", "save", "disk", "next"}]
      /\ phase = "stopping" /\ adm = None
  BY <1>1, <1>2 DEF ServerTypes, ServerFits
<1>5. RunFits(r)'
  <2> USE <1>1, <1>2, <1>4 DEF RunFits
  <2>1. ThreadOf(r)' /\ OperationOf(r)'
    BY DEF ThreadOf, OperationOf
  <2>2. AdmissionOf(r)' /\ FoundOf(r)'
    BY DEF AdmissionOf, FoundOf
  <2>3. DiskOf(r)' /\ WorkerOf(r)'
    BY DEF DiskOf, WorkerOf
  <2>4. QED
    BY <2>1, <2>2, <2>3
<1>6. ServerTypes' /\ ServerFits'
  BY <1>1, <1>2, <1>4 DEF ServerTypes, ServerFits
<1>7. QED
  BY <1>2, <1>3, <1>4, <1>5, <1>6, OperationSteps

-----------------------------------------------------------------------------
(* The process stops and starts. *)

LEMMA KeepsShutdown == ASSUME RunsInv, Shutdown PROVE RunsInv'
<1> USE DEF RunTypes
<1>1. RunTypes /\ ServerTypes /\ ServerFits
  BY TypesAre DEF RunsInv
<1>2. /\ phase = "up" /\ op = None /\ adm = None /\ phase' = "stopping" /\ active' = {}
      /\ op' = [run |-> None, step |-> "next", rest |-> active]
      /\ UNCHANGED <<disk, boot, sequence, adm, admission, mem, token, worker, verdict, history, faults>>
  BY DEF Shutdown, Draining
<1>3. TypeOK'
  BY <1>1, <1>2, TypesAre DEF TypeOK, RunTypes, ServerTypes, disk, admission, history
<1>4. ServerFits'
  BY <1>1, <1>2 DEF ServerFits
<1>5. op'.run = None /\ op'.rest = active /\ op'.step = "next"
  BY <1>2
<1>6. ASSUME NEW x \in Run PROVE RunFits(x)'
  <2>1. RunFits(x) /\ x # None
    BY RunAssumption DEF RunsInv
  <2> USE <1>2, <1>5, <2>1 DEF RunFits, disk, admission, history
  <2>2. ThreadOf(x)' /\ OperationOf(x)'
    BY DEF ThreadOf, OperationOf
  <2>3. AdmissionOf(x)' /\ FoundOf(x)'
    BY DEF AdmissionOf, FoundOf
  <2>4. DiskOf(x)' /\ WorkerOf(x)'
    BY DEF DiskOf, WorkerOf
  <2>5. QED
    BY <2>2, <2>3, <2>4
<1>7. QED
  BY <1>3, <1>4, <1>6 DEF RunsInv

LEMMA KeepsJoined == ASSUME RunsInv, Joined PROVE RunsInv'
<1> USE DEF RunTypes
<1>1. RunTypes /\ ServerTypes /\ ServerFits
  BY TypesAre DEF RunsInv
<1>2. /\ UNCHANGED <<admitted, result, submission, executions, boot, sequence, adm, slots, active,
                     worker, verdict, keyOf, torn, crashes, state, queue, mem, token, cancelled, faults>>
      /\ op # None /\ op.step = "next" /\ op' = None /\ phase' = "closed"
      /\ \A x \in Run : worker[x] \in {"none", "gone"}
  BY DEF Joined, AtCancel
<1>3. TypeOK' /\ ServerFits'
  BY <1>1, <1>2 DEF TypeOK, RunTypes, ServerTypes, ServerFits
<1>4. ASSUME NEW x \in Run PROVE RunFits(x)'
  <2>1. RunFits(x) /\ adm = None
    BY <1>1, <1>2 DEF RunsInv, ServerFits
  <2> USE <1>2, <2>1 DEF RunFits
  <2>2. ThreadOf(x)' /\ OperationOf(x)'
    BY DEF ThreadOf, OperationOf
  <2>3. AdmissionOf(x)' /\ FoundOf(x)'
    BY DEF AdmissionOf, FoundOf
  <2>4. DiskOf(x)' /\ WorkerOf(x)'
    BY DEF DiskOf, WorkerOf
  <2>5. QED
    BY <2>2, <2>3, <2>4
<1>5. QED
  BY <1>3, <1>4 DEF RunsInv

\* What recovery, or a late cancellation, may have made of a run's state.
Settles(x) == \/ state'[x] = state[x]
              \/ /\ state'[x] \in Final /\ state[x] # None
                 /\ result[x] # None /\ x \notin torn => state'[x] = result[x]

LEMMA SettledIs ==
    ASSUME NEW r \in Run, RunTypes, DiskOf(r), state[r] # None
    PROVE  /\ Settled(r) \in Final
           /\ result[r] # None /\ r \notin torn => Settled(r) = result[r]
BY Distinct DEF RunTypes, DiskOf, Settled, Recovered, Status, Final, Outcome

\* The memory of the process is gone; the disk stays.
LEMMA OffKeeps ==
    ASSUME RunsInv, NEW next \in {"down", "refused"}, Off(next),
           state' \in [Run -> Status \cup {None}], \A x \in Run : Settles(x),
           faults' \in 0..MaxFaults, crashes' \in 0..MaxCrashes
    PROVE  RunsInv'
<1> USE DEF RunTypes
<1>1. RunTypes /\ ServerTypes /\ ServerFits
  BY TypesAre DEF RunsInv
<1>2. /\ phase' = next /\ boot' = [todo |-> {}, found |-> <<>>, resume |-> FALSE]
      /\ sequence' = 0 /\ adm' = None /\ op' = None
      /\ slots' = {} /\ queue' = <<>> /\ active' = {}
      /\ mem' = [r \in Run |-> None] /\ token' = [r \in Run |-> FALSE]
      /\ worker' = [r \in Run |-> "none"] /\ verdict' = [r \in Run |-> None]
      /\ UNCHANGED <<admitted, result, submission, executions, keyOf, cancelled, torn>>
  BY DEF Off
<1>3. boot' \in [todo : SUBSET Run, found : Seq(Run), resume : BOOLEAN] /\ boot'.found = <<>>
  BY <1>2
<1>4. RunTypes'
  BY <1>1, <1>2 DEF WorkerStep
<1>5. ServerTypes'
  BY <1>1, <1>2, <1>3 DEF ServerTypes
<1>6. ServerFits'
  BY <1>2, <1>3 DEF ServerFits, IsInjective
<1>7. ASSUME NEW x \in Run PROVE RunFits(x)'
  <2>1. RunFits(x) /\ Settles(x)
    BY DEF RunsInv
  <2>2. worker'[x] = "none" /\ mem'[x] = None /\ ~token'[x] /\ x \notin ToSet(boot'.found)
    BY <1>2, <1>3 DEF ToSet
  <2>3. \A s \in Final : s # None /\ s # "queued"
    BY Distinct DEF Status, Final, Outcome
  <2> USE <1>2, <2>1, <2>2, <2>3 DEF RunFits, Settles
  <2>4. ThreadOf(x)' /\ OperationOf(x)'
    BY DEF ThreadOf, OperationOf
  <2>5. AdmissionOf(x)' /\ FoundOf(x)'
    BY DEF AdmissionOf, FoundOf
  <2>6. DiskOf(x)'
    BY DEF DiskOf
  <2>7. WorkerOf(x)'
    BY Distinct DEF WorkerOf, Status
  <2>8. QED
    BY <2>4, <2>5, <2>6, <2>7
<1>8. TypeOK'
  BY <1>4, <1>5 DEF TypeOK, ServerTypes
<1>9. QED
  BY <1>6, <1>7, <1>8 DEF RunsInv

LEMMA KeepsProcessEnds == ASSUME RunsInv, ProcessEnds PROVE RunsInv'
<1>1. RunTypes /\ ServerTypes
  BY TypesAre DEF RunsInv
<1>2. Off("down") /\ UNCHANGED <<state, faults, crashes>>
  BY DEF ProcessEnds
<1>3. /\ state' \in [Run -> Status \cup {None}] /\ faults' \in 0..MaxFaults /\ crashes' \in 0..MaxCrashes
      /\ \A x \in Run : Settles(x)
  BY <1>1, <1>2 DEF RunTypes, ServerTypes, Settles
<1>4. QED
  BY <1>2, <1>3, OffKeeps

LEMMA KeepsCrash == ASSUME RunsInv, Crash PROVE RunsInv'
<1>1. RunTypes /\ ServerTypes
  BY TypesAre DEF RunsInv
<1>2. Off("down") /\ UNCHANGED <<state, faults>> /\ crashes < MaxCrashes /\ crashes' = crashes + 1
  BY DEF Crash
<1>3. /\ state' \in [Run -> Status \cup {None}] /\ faults' \in 0..MaxFaults /\ crashes' \in 0..MaxCrashes
      /\ \A x \in Run : Settles(x)
  BY <1>1, <1>2, Bounds DEF RunTypes, ServerTypes, Settles
<1>4. QED
  BY <1>2, <1>3, OffKeeps

LEMMA LastSequenceIs ==
    ASSUME RunTypes PROVE LastSequence \in Nat /\ \A r \in Run : admitted[r] <= LastSequence
<1> DEFINE S == {admitted[r] : r \in Run}
           f == [r \in Run |-> admitted[r]]
<1>1. f \in Surjection(Run, S)
  <2>1. f \in [Run -> S] /\ \A s \in S : \E r \in Run : f[r] = s
    OBVIOUS
  <2> HIDE DEF f, S
  <2>2. QED
    BY <2>1 DEF Surjection
<1>2. IsFiniteSet(S)
  BY <1>1, RunAssumption, FS_Surjection
<1>3. S \subseteq Nat
  BY DEF RunTypes
<1> HIDE DEF S
<1>4. IsFiniteSet({0} \cup S)
  BY <1>2, FS_Singleton, FS_Union
<1>5. MaxOf({0} \cup S) \in {0} \cup S /\ \A y \in {0} \cup S : y <= MaxOf({0} \cup S)
  <2>1. {0} \cup S \subseteq Nat /\ {0} \cup S # {}
    BY <1>3
  <2>2. QED
    BY <1>4, <2>1, MaxOfIs
<1>6. QED
  BY <1>3, <1>5 DEF LastSequence, S

LEMMA KeepsRestart == ASSUME NEW resume \in ResumeModes, RunsInv, Restart(resume) PROVE RunsInv'
<1> USE DEF RunTypes
<1>1. RunTypes /\ ServerTypes /\ ServerFits
  BY TypesAre DEF RunsInv
<1>2. /\ phase \in {"down", "refused"} /\ phase' = "recovering" /\ sequence' = LastSequence
      /\ boot' = [todo |-> {r \in Run : state[r] # None}, found |-> <<>>, resume |-> resume]
      /\ UNCHANGED <<disk, adm, op, admission, workers, history, faults>>
  BY DEF Restart
<1>3. boot' \in [todo : SUBSET Run, found : Seq(Run), resume : BOOLEAN] /\ boot'.found = <<>>
  BY <1>2, Modes
<1>4. TypeOK'
  BY <1>1, <1>2, <1>3, LastSequenceIs DEF TypeOK, ServerTypes, disk, admission, workers, history
<1>5. ServerFits'
  BY <1>1, <1>2, <1>3 DEF ServerFits, IsInjective
<1>6. ASSUME NEW x \in Run PROVE RunFits(x)'
  <2>1. RunFits(x) /\ adm = None /\ op = None /\ x \notin ToSet(boot'.found)
    BY <1>1, <1>2, <1>3 DEF RunsInv, ServerFits, ToSet
  <2> USE <1>2, <2>1 DEF RunFits, disk, admission, workers, history
  <2>2. ThreadOf(x)' /\ OperationOf(x)'
    BY DEF ThreadOf, OperationOf
  <2>3. AdmissionOf(x)' /\ FoundOf(x)'
    BY DEF AdmissionOf, FoundOf
  <2>4. DiskOf(x)' /\ WorkerOf(x)'
    BY DEF DiskOf, WorkerOf
  <2>5. QED
    BY <2>2, <2>3, <2>4
<1>7. QED
  BY <1>4, <1>5, <1>6 DEF RunsInv

LEMMA KeepsServe == ASSUME RunsInv, Serve PROVE RunsInv'
<1> USE DEF RunTypes
<1>1. RunTypes /\ ServerTypes /\ ServerFits
  BY TypesAre DEF RunsInv
<1>2. /\ phase = "resuming" /\ phase' = "up"
      /\ UNCHANGED <<disk, boot, sequence, adm, op, admission, workers, history, faults>>
  BY DEF Serve
<1>3. TypeOK' /\ ServerFits'
  BY <1>1, <1>2 DEF TypeOK, ServerTypes, ServerFits, disk, admission, workers, history
<1>4. ASSUME NEW x \in Run PROVE RunFits(x)'
  <2>1. RunFits(x) /\ adm = None /\ op = None
    BY <1>1, <1>2 DEF RunsInv, ServerFits
  <2> USE <1>2, <2>1 DEF RunFits, disk, admission, workers, history
  <2>2. ThreadOf(x)' /\ OperationOf(x)'
    BY DEF ThreadOf, OperationOf
  <2>3. AdmissionOf(x)' /\ FoundOf(x)'
    BY DEF AdmissionOf, FoundOf
  <2>4. DiskOf(x)' /\ WorkerOf(x)'
    BY DEF DiskOf, WorkerOf
  <2>5. QED
    BY <2>2, <2>3, <2>4
<1>5. QED
  BY <1>3, <1>4 DEF RunsInv

-----------------------------------------------------------------------------
(* Recovery. *)

LEMMA FoundSorted == ASSUME RunsInv, NEW r \in Run PROVE Place(r) \in 1..(Len(boot.found) + 1)
<1> DEFINE prior == {i \in DOMAIN boot.found : ~BySequence(r, boot.found[i])}
<1>1. boot.found \in Seq(Run)
  BY TypesAre DEF RunsInv, ServerTypes
<1>2. PICK n \in Nat : n = Len(boot.found)
  BY <1>1
<1>3. prior \in SUBSET (1..n)
  BY <1>1, <1>2
<1>4. IsFiniteSet(1..n) /\ Cardinality(1..n) = n
  BY UpToIs
<1>5. IsFiniteSet(prior) /\ Cardinality(prior) <= n
  BY <1>3, <1>4, FS_Subset
<1>6. Cardinality(prior) \in Nat
  BY <1>5, FS_CardinalityType
<1>7. Place(r) = 1 + Cardinality(prior)
  BY DEF Place
<1> HIDE DEF prior
<1>8. QED
  BY <1>2, <1>5, <1>6, <1>7

LEMMA KeepsRecoverRun == ASSUME NEW r \in Run, RunsInv, RecoverRun(r) PROVE RunsInv'
<1> USE DEF RunTypes
<1>1. RunTypes /\ ServerTypes /\ ServerFits /\ RunFits(r)
  BY TypesAre DEF RunsInv
<1>2. phase = "recovering" /\ r \in boot.todo /\ UNCHANGED crashes
  BY DEF RecoverRun
<1>3. CASE /\ ~Resumable(r) /\ state[r] \in {"queued", "running"}
           /\ Unsaved(r, Settled(r)) /\ Off("down")
  <2>1. state[r] # None
    BY <1>3, Distinct DEF Status
  <2>2. Settled(r) \in Final /\ (result[r] # None /\ r \notin torn => Settled(r) = result[r])
    BY <1>1, <2>1, SettledIs DEF RunFits
  <2>3. state' \in {state, [state EXCEPT ![r] = Settled(r)]} /\ faults' \in 0..MaxFaults
    BY <1>1, <1>3, Bounds DEF Unsaved, Fault, ServerTypes
  <2>4. /\ state' \in [Run -> Status \cup {None}] /\ crashes' \in 0..MaxCrashes
        /\ \A x \in Run : Settles(x)
    <3>1. state' \in [Run -> Status \cup {None}]
      BY <1>1, <2>2, <2>3 DEF Status
    <3>2. crashes' \in 0..MaxCrashes
      BY <1>1, <1>2 DEF ServerTypes
    <3>3. ASSUME NEW x \in Run PROVE Settles(x)
      <4>1. CASE state' = state
        BY <4>1 DEF Settles
      <4>2. CASE state' = [state EXCEPT ![r] = Settled(r)]
        BY <1>1, <2>1, <2>2, <4>2 DEF Settles
      <4>3. QED
        BY <2>3, <4>1, <4>2
    <3>4. QED
      BY <3>1, <3>2, <3>3
  <2>5. QED
    BY <1>3, <2>3, <2>4, OffKeeps
<1>4. CASE /\ boot' = [boot EXCEPT !.todo = @ \ {r},
                         !.found = IF Resumable(r) THEN InsertAt(@, Place(r), r) ELSE @]
           /\ IF Resumable(r) THEN UNCHANGED <<state, faults>> ELSE Saved(r, Settled(r))
           /\ UNCHANGED <<admitted, result, submission, executions, phase, sequence, adm, op,
                          admission, workers, keyOf, cancelled, torn>>
  <2>1. /\ UNCHANGED <<admitted, result, submission, executions, phase, sequence, adm, op,
                       slots, queue, active, mem, token, worker, verdict, keyOf, cancelled, torn, faults>>
        /\ state' = IF Resumable(r) THEN state ELSE [state EXCEPT ![r] = Settled(r)]
    BY <1>4 DEF Saved, admission, workers
  <2>2. /\ boot.found \in Seq(Run) /\ boot.todo \subseteq Run
        /\ boot'.todo = boot.todo \ {r} /\ boot'.resume \in BOOLEAN
        /\ boot'.found = IF Resumable(r) THEN InsertAt(boot.found, Place(r), r) ELSE boot.found
        /\ boot' = [todo |-> boot'.todo, found |-> boot'.found, resume |-> boot'.resume]
    BY <1>1, <1>4 DEF ServerTypes
  <2>3. r \notin ToSet(boot.found) /\ IsInjective(boot.found)
    BY <1>1, <1>2 DEF RunFits, FoundOf, ServerFits
  <2>4. /\ boot'.found \in Seq(Run)
        /\ ToSet(boot'.found) = IF Resumable(r) THEN ToSet(boot.found) \cup {r} ELSE ToSet(boot.found)
        /\ IsInjective(boot'.found)
    <3>1. CASE Resumable(r)
      <4>1. boot'.found = InsertAt(boot.found, Place(r), r) /\ Place(r) \in 1..(Len(boot.found) + 1)
        BY <2>2, <3>1, FoundSorted
      <4>2. QED
        BY <2>2, <2>3, <3>1, <4>1, InsertAtIs
    <3>2. CASE ~Resumable(r)
      BY <2>2, <2>3, <3>2
    <3>3. QED
      BY <3>1, <3>2
  <2>5. Settled(r) \in Status \cup {None}
    BY <1>1 DEF Settled, Recovered, Status, Final
  <2>6. OnlyRun(r)
    <3>1. RunTypes'
      BY <1>1, <2>1, <2>5
    <3>2. ASSUME NEW x \in Run \ {r} PROVE SameRun(x)
      BY <1>1, <2>1 DEF SameRun
    <3>3. QED
      BY <3>1, <3>2 DEF OnlyRun
  <2>7. adm = None /\ op = None /\ worker[r] = "none" /\ mem[r] = None
    BY <1>1, <1>2 DEF ServerFits, RunFits, ThreadOf
  <2>8. ServerFits' /\ ServerTypes'
    BY <1>1, <1>2, <2>1, <2>2, <2>4, <2>7 DEF ServerFits, ServerTypes
  <2>9. RunFits(r)'
    <3>1. /\ Resumable(r) => state'[r] = state[r] /\ state[r] = "queued" /\ admitted[r] # 0 /\ executions[r] = 0
          /\ ~Resumable(r) => state'[r] = Settled(r)
          /\ r \notin boot'.todo
      BY <1>1, <2>1, <2>2 DEF Resumable
    <3>2. \/ state'[r] = state[r]
          \/ /\ state'[r] \in Final /\ state'[r] # None /\ state'[r] # "queued" /\ state[r] # None
             /\ result[r] # None /\ r \notin torn => state'[r] = result[r]
      BY <1>1, <2>1, <3>1, SettledIs, Distinct DEF RunFits, Settled, Status, Final, Outcome
    <3> USE <1>1, <1>2, <2>1, <2>3, <2>4, <2>7, <3>1, <3>2 DEF RunFits
    <3>3. ThreadOf(r)' /\ OperationOf(r)'
      BY DEF ThreadOf, OperationOf
    <3>4. AdmissionOf(r)' /\ FoundOf(r)'
      BY DEF AdmissionOf, FoundOf
    <3>5. DiskOf(r)'
      BY DEF DiskOf
    <3>6. WorkerOf(r)'
      BY Distinct DEF WorkerOf, Status
    <3>7. QED
      BY <3>3, <3>4, <3>5, <3>6
  <2>10. ASSUME NEW x \in Run PROVE RunFits(x)'
    <3>1. CASE x = r
      BY <2>9, <3>1
    <3>2. CASE x # r
      BY <2>1, <2>2, <2>4, <2>6, <2>7, <3>2, OthersKeep DEF RunsInv, OnlyRun
    <3>3. QED
      BY <3>1, <3>2
  <2>11. TypeOK'
    BY <2>6, <2>8 DEF OnlyRun, TypeOK, ServerTypes
  <2>12. QED
    BY <2>8, <2>10, <2>11 DEF RunsInv
<1>5. QED
  BY <1>3, <1>4 DEF RecoverRun

LEMMA KeepsRecover == ASSUME RunsInv, Recover PROVE RunsInv'
<1> USE DEF RunTypes
<1>1. RunTypes /\ ServerTypes /\ ServerFits
  BY TypesAre DEF RunsInv
<1>2. phase = "recovering" /\ UNCHANGED <<state, faults, crashes>>
  BY DEF Recover
<1>3. CASE Off("refused")
  <2>1. /\ state' \in [Run -> Status \cup {None}] /\ faults' \in 0..MaxFaults /\ crashes' \in 0..MaxCrashes
        /\ \A x \in Run : Settles(x)
    BY <1>1, <1>2 DEF ServerTypes, Settles
  <2>2. QED
    BY <1>3, <2>1, OffKeeps
<1>4. CASE \E n \in Nat : /\ n <= Len(boot.found)
                          /\ phase' = "resuming" /\ slots' = {boot.found[i] : i \in 1..n}
                          /\ queue' = SubSeq(boot.found, n + 1, Len(boot.found))
                          /\ UNCHANGED <<admitted, result, submission, executions, boot, sequence,
                                         adm, op, workers, keyOf, cancelled, torn>>
  <2>1. PICK n \in Nat : /\ n <= Len(boot.found)
                         /\ phase' = "resuming" /\ slots' = {boot.found[i] : i \in 1..n}
                         /\ queue' = SubSeq(boot.found, n + 1, Len(boot.found))
                         /\ UNCHANGED <<admitted, result, submission, executions, boot, sequence,
                                        adm, op, workers, keyOf, cancelled, torn>>
    BY <1>4
  <2>2. boot.found \in Seq(Run) /\ Len(boot.found) \in Nat
    BY <1>1 DEF ServerTypes
  <2>3. slots' \subseteq Run
    BY <2>1, <2>2
  <2>4. queue' \in Seq(Run)
    <3>1. n + 1 \in Int /\ Len(boot.found) \in Int /\ \A i \in n + 1..Len(boot.found) : boot.found[i] \in Run
      BY <2>2
    <3>2. QED
      BY <2>1, <3>1, SubSeqProperties
  <2>5. TypeOK'
    BY <1>1, <1>2, <2>1, <2>3, <2>4 DEF TypeOK, ServerTypes, workers
  <2>6. ServerFits' /\ adm = None /\ op = None
    BY <1>1, <1>2, <2>1 DEF ServerFits
  <2>7. ASSUME NEW x \in Run PROVE RunFits(x)'
    <3>1. RunFits(x) /\ worker[x] = "none" /\ mem[x] = None
      BY <1>2 DEF RunsInv, RunFits, ThreadOf
    <3> USE <1>2, <2>1, <2>6, <3>1 DEF RunFits, workers
    <3>2. ThreadOf(x)' /\ OperationOf(x)'
      BY DEF ThreadOf, OperationOf
    <3>3. AdmissionOf(x)' /\ FoundOf(x)'
      BY DEF AdmissionOf, FoundOf
    <3>4. DiskOf(x)' /\ WorkerOf(x)'
      BY DEF DiskOf, WorkerOf
    <3>5. QED
      BY <3>2, <3>3, <3>4
  <2>8. QED
    BY <2>5, <2>6, <2>7 DEF RunsInv
<1>5. boot.found \in Seq(Run) /\ Len(boot.found) \in Nat
  BY <1>1 DEF ServerTypes
<1>6. CASE ~(Ambiguous \/ Len(boot.found) > MaxRunning + MaxQueued)
  <2>1. PICK n \in Nat : /\ n <= Len(boot.found)
                         /\ n = IF Len(boot.found) < MaxRunning THEN Len(boot.found) ELSE MaxRunning
    BY <1>5, Capacities
  <2>2. /\ phase' = "resuming" /\ slots' = {boot.found[i] : i \in 1..n}
        /\ queue' = SubSeq(boot.found, n + 1, Len(boot.found))
        /\ UNCHANGED <<admitted, result, submission, executions, boot, sequence,
                       adm, op, workers, keyOf, cancelled, torn>>
    BY <1>6, <2>1 DEF Recover
  <2>3. QED
    BY <1>4, <2>1, <2>2
<1>7. CASE Ambiguous \/ Len(boot.found) > MaxRunning + MaxQueued
  BY <1>3, <1>7 DEF Recover
<1>8. QED
  BY <1>6, <1>7

LEMMA KeepsResumeNext == ASSUME RunsInv, ResumeNext PROVE RunsInv'
<1> USE DEF RunTypes
<1>1. RunTypes /\ ServerTypes /\ ServerFits
  BY TypesAre DEF RunsInv
<1>2. /\ phase = "resuming" /\ boot.found # <<>> /\ boot.found \in Seq(Run)
      /\ UNCHANGED <<disk, phase, sequence, adm, op, admission, history, faults>>
  BY <1>1 DEF ResumeNext, ServerTypes
<1>3. PICK r \in Run : r = Head(boot.found)
  BY <1>2, TailIs
<1>4. /\ active' = active \cup {r} /\ mem' = [mem EXCEPT ![r] = "queued"]
      /\ worker' = [worker EXCEPT ![r] = "wait"] /\ UNCHANGED <<token, verdict>>
      /\ boot' = [boot EXCEPT !.found = Tail(@)]
  BY <1>3 DEF ResumeNext, Spawn
<1>5. /\ boot' \in [todo : SUBSET Run, found : Seq(Run), resume : BOOLEAN]
      /\ boot'.found = Tail(boot.found) /\ boot'.todo = boot.todo
  BY <1>1, <1>2, <1>4, TailIs DEF ServerTypes
<1>6. /\ r \in ToSet(boot.found) /\ r \notin ToSet(boot'.found)
      /\ ToSet(boot'.found) \subseteq ToSet(boot.found)
      /\ IsInjective(boot'.found)
  BY <1>1, <1>2, <1>3, <1>5, TailIs DEF ServerFits
<1>7. /\ RunFits(r) /\ state[r] = "queued" /\ executions[r] = 0 /\ admitted[r] # 0 /\ worker[r] = "none"
      /\ r \notin cancelled /\ adm = None /\ op = None
  BY <1>1, <1>2, <1>6 DEF RunsInv, RunFits, FoundOf, DiskOf, ServerFits
<1>8. OnlyRun(r)
  <2>1. RunTypes'
    BY <1>1, <1>2, <1>4 DEF disk, admission, history, Status, WorkerStep
  <2>2. ASSUME NEW x \in Run \ {r} PROVE SameRun(x)
    BY <1>1, <1>2, <1>4 DEF SameRun, disk, admission, history
  <2>3. QED
    BY <2>1, <2>2 DEF OnlyRun
<1>9. RunFits(r)'
  <2>1. worker'[r] = "wait" /\ mem'[r] = "queued" /\ r \in active'
    BY <1>1, <1>4
  <2> USE <1>1, <1>2, <1>4, <1>5, <1>6, <1>7, <2>1 DEF RunFits, disk, admission, history
  <2>2. ThreadOf(r)' /\ OperationOf(r)'
    BY Distinct DEF ThreadOf, OperationOf, Status
  <2>3. AdmissionOf(r)' /\ FoundOf(r)'
    BY DEF AdmissionOf, FoundOf
  <2>4. DiskOf(r)'
    BY Distinct DEF DiskOf, Status
  <2>5. WorkerOf(r)'
    BY Distinct DEF WorkerOf, Status
  <2>6. QED
    BY <2>2, <2>3, <2>4, <2>5
<1>10. ASSUME NEW x \in Run PROVE RunFits(x)'
  <2>1. CASE x = r
    BY <1>9, <2>1
  <2>2. CASE x # r
    BY <1>2, <1>5, <1>6, <1>7, <1>8, <2>2, OthersKeep DEF RunsInv, OnlyRun, disk
  <2>3. QED
    BY <2>1, <2>2
<1>11. TypeOK'
  BY <1>1, <1>2, <1>5, <1>8 DEF OnlyRun, TypeOK, ServerTypes, disk, admission, history
<1>12. ServerFits'
  BY <1>2, <1>6, <1>7 DEF ServerFits
<1>13. QED
  BY <1>10, <1>11, <1>12 DEF RunsInv

LEMMA KeepsResumeFails == ASSUME RunsInv, ResumeFails PROVE RunsInv'
<1> USE DEF RunTypes
<1>1. RunTypes /\ ServerTypes /\ ServerFits
  BY TypesAre DEF RunsInv
<1>2. /\ phase = "resuming" /\ boot.found # <<>> /\ boot.found \in Seq(Run)
      /\ UNCHANGED <<admitted, result, submission, executions, boot, sequence, adm,
                     mem, token, worker, verdict, history>>
      /\ slots' = slots \ ToSet(boot.found) /\ queue' = Without(queue, ToSet(boot.found))
      /\ phase' = "stopping" /\ op' = [run |-> None, step |-> "next", rest |-> active] /\ active' = {}
  BY <1>1 DEF ResumeFails, ServerTypes, Draining
<1>3. PICK r \in Run : r = Head(boot.found) /\ r \in ToSet(boot.found)
  BY <1>2, TailIs
<1>4. state' \in {state, [state EXCEPT ![r] = "failed"]} /\ faults' \in 0..MaxFaults
  BY <1>1, <1>3, Bounds DEF ResumeFails, Unsaved, Fault, ServerTypes
<1>5. queue' \in Seq(Run)
  BY <1>1, <1>2, WithoutIs DEF ServerTypes
<1>6. /\ op' \in [run : Run \cup {None}, rest : SUBSET Run, step : {"token", "save", "disk", "next"}]
      /\ op'.run = None /\ op'.rest = active /\ op'.step = "next" /\ adm = None
  BY <1>1, <1>2 DEF ServerFits
<1>7. TypeOK'
  BY <1>1, <1>2, <1>4, <1>5, <1>6 DEF TypeOK, ServerTypes, history, Status, Final, Outcome
<1>8. ServerFits'
  BY <1>1, <1>2, <1>6 DEF ServerFits
<1>9. RunFits(r) /\ executions[r] = 0 /\ state[r] = "queued"
  BY <1>2, <1>3 DEF RunsInv, RunFits, FoundOf
<1>10. ASSUME NEW x \in Run PROVE RunFits(x)'
  <2>1. RunFits(x) /\ x # None
    BY RunAssumption DEF RunsInv
  <2>2. state'[x] = state[x] \/ (/\ state'[x] = "failed" /\ executions[x] = 0
                                 /\ state[x] = "queued" /\ result[x] = None /\ worker[x] = "none")
    <3>1. r \in ToSet(boot.found) /\ result[r] = None /\ worker[r] = "none"
      BY <1>2, <1>3, <1>9 DEF RunFits, DiskOf, FoundOf
    <3>2. CASE x = r
      BY <1>1, <1>4, <1>9, <3>1, <3>2
    <3>3. CASE x # r
      BY <1>1, <1>4, <3>3
    <3>4. QED
      BY <3>2, <3>3
  <2> USE <1>1, <1>2, <1>6, <2>1, <2>2 DEF RunFits, history
  <2>3. ThreadOf(x)' /\ OperationOf(x)'
    BY DEF ThreadOf, OperationOf
  <2>4. AdmissionOf(x)' /\ FoundOf(x)'
    BY DEF AdmissionOf, FoundOf
  <2>5. DiskOf(x)'
    BY Distinct DEF DiskOf, Status, Final, Outcome
  <2>6. WorkerOf(x)'
    BY Distinct DEF WorkerOf, Status, Final, Outcome
  <2>7. QED
    BY <2>3, <2>4, <2>5, <2>6
<1>11. QED
  BY <1>7, <1>8, <1>10 DEF RunsInv

-----------------------------------------------------------------------------
(* What the server has promised about its runs. *)

LEMMA RunsInvNext == RunsInv /\ [Next]_vars => RunsInv'
<1> SUFFICES ASSUME RunsInv, [Next]_vars PROVE RunsInv'
  OBVIOUS
<1>1. ASSUME NEW r \in Run, NEW k \in Key \cup {None}, Submit(r, k) PROVE RunsInv'
  BY <1>1, KeepsSubmit
<1>2. ASSUME NEW r \in Run, Work(r) PROVE RunsInv'
  BY <1>2, KeepsWait, KeepsStart, KeepsExecute, KeepsFinish, KeepsExit DEF Work
<1>3. CASE Admission
  BY <1>3, KeepsAdmitState, KeepsAdmitKey, KeepsAdmitRecord, KeepsAdmitSpawn,
     KeepsSpawnFails, KeepsAdmitFail DEF Admission
<1>4. ASSUME NEW r \in Run, CancelRun(r) PROVE RunsInv'
  BY <1>4, KeepsCancelRun
<1>5. CASE Cancelling
  BY <1>5, KeepsCancelToken, KeepsCancelSave, KeepsCancelDisk, KeepsJoined,
     KeepsProcessEnds, KeepsShutdownNext DEF Cancelling
<1>6. CASE Shutdown \/ Crash
  BY <1>6, KeepsShutdown, KeepsCrash
<1>7. CASE Booting
  BY <1>7, KeepsRecover, KeepsResumeNext, KeepsResumeFails, KeepsServe, KeepsRecoverRun DEF Booting
<1>8. ASSUME NEW resume \in ResumeModes, Restart(resume) PROVE RunsInv'
  BY <1>8, KeepsRestart
<1>9. CASE UNCHANGED vars
  <2>1. /\ UNCHANGED <<state, admitted, result, submission, executions, phase, boot, sequence>>
        /\ UNCHANGED <<adm, op, slots, queue, active, mem, token, worker, verdict>>
        /\ UNCHANGED <<keyOf, cancelled, torn, crashes, faults>>
    BY <1>9 DEF vars, disk, server, admission, workers, history
  <2>2. TypeOK' /\ ServerFits'
    BY <2>1 DEF RunsInv, TypeOK, ServerFits
  <2>3. ASSUME NEW x \in Run PROVE RunFits(x)'
    BY <2>1 DEF RunsInv, RunFits, ThreadOf, OperationOf, AdmissionOf, InitialStatus, FoundOf, DiskOf, WorkerOf
  <2>4. QED
    BY <2>2, <2>3 DEF RunsInv
<1>10. QED
  BY <1>1, <1>2, <1>3, <1>4, <1>5, <1>6, <1>7, <1>8, <1>9 DEF Next

\* The keys of two runs that executed differ: each answers for its own run.
LEMMA RunsInvKeeps == RunsInv => TypeOK /\ CancelIsDurable /\ ExecutedOnce /\ ReportIsKept
<1> SUFFICES ASSUME RunsInv PROVE TypeOK /\ CancelIsDurable /\ ExecutedOnce /\ ReportIsKept
  OBVIOUS
<1>1. TypeOK /\ \A r \in Run : DiskOf(r)
  BY DEF RunsInv, RunFits
<1>2. CancelIsDurable /\ ReportIsKept
  BY <1>1 DEF DiskOf, CancelIsDurable, ReportIsKept, TypeOK
<1>3. ASSUME NEW r \in Run, NEW q \in Run
      PROVE  /\ executions[r] <= 1
             /\ r # q /\ keyOf[r] = keyOf[q] /\ keyOf[r] \in Key => executions[r] + executions[q] <= 1
  <2>1. /\ executions[r] \in Nat /\ executions[q] \in Nat /\ executions[r] <= 1 /\ executions[q] <= 1
        /\ executions[r] > 0 /\ keyOf[r] \in Key => submission[keyOf[r]] = r
        /\ executions[q] > 0 /\ keyOf[q] \in Key => submission[keyOf[q]] = q
    BY <1>1 DEF DiskOf, TypeOK
  <2>2. QED
    BY <2>1
<1>4. QED
  BY <1>1, <1>2, <1>3 DEF ExecutedOnce

\* A run cancelled before it executed is never executed, commands are executed
\* at most once per run and per idempotency key, and the outcome of a completed
\* report stands: for any number of runs and keys, any number of saves that fail,
\* kills and restarts, and whatever the threads of the server do between two saves.
THEOREM RunsAreSafe == Spec => [](TypeOK /\ CancelIsDurable /\ ExecutedOnce /\ ReportIsKept)
<1>1. Init => RunsInv
  BY RunsInvInit, Bounds DEF Init
<1>2. QED
  BY <1>1, RunsInvNext, RunsInvKeeps, PTL DEF Spec

\* The same of the part "keys" that a run explores, in the words of its invariant.
THEOREM RunsStayKept == PartsSpec => []RunsAreKept
<1> DEFINE Holds == part = "keys" => RunsInv
           All == <<part, vars, pageVars, productVars, jVars>>
<1>1. PartsInit => Holds
  BY RunsInvInit, Bounds DEF PartsInit, Init
<1>2. Holds /\ [PartsNext]_All => Holds'
  <2> SUFFICES ASSUME Holds, [PartsNext]_All, part' = "keys" PROVE RunsInv'
    OBVIOUS
  <2>1. part = "keys" /\ [Next]_vars
    BY DEF PartsNext, KeysNext
  <2>2. QED
    BY <2>1, RunsInvNext
<1>3. Holds => RunsAreKept
  BY RunsInvKeeps DEF RunsAreKept
<1>4. QED
  BY <1>1, <1>2, <1>3, PTL DEF PartsSpec

-----------------------------------------------------------------------------
(* The invariant of the part "queue", in which no save fails.              *)

\* Runs with a slot or a place in the queue.
Placed == slots \cup ToSet(queue)

\* Runs that the next start will find.
Persisted == {r \in Run : state[r] = "queued" /\ admitted[r] # 0}

\* Who has a place, and keeps it as long as it may need it: the run being
\* admitted, its worker until it ends or is cancelled, and what is persisted.
PlaceOf(x) ==
    /\ x \in Placed => keyOf[x] # "fresh" /\ (admitted[x] # 0 \/ (adm # None /\ adm.run = x))
    /\ adm # None /\ adm.run = x => /\ x \in Placed /\ adm.step # "fail"
                                    /\ adm.step = "spawn" <=> admitted[x] # 0
    /\ worker[x] \in {"start", "execute"} => x \in slots
    /\ worker[x] = "wait" /\ ~token[x] => x \in Placed
    /\ worker[x] \in {"ended", "gone"} => state[x] # "queued"
    /\ phase = "resuming" /\ x \in ToSet(boot.found) => x \in Placed
    /\ phase \in {"resuming", "up", "stopping"} /\ x \in Persisted => x \in Placed
    /\ phase = "recovering" /\ x \in Persisted => x \in boot.todo \cup ToSet(boot.found)

\* Sequence numbers are given once, in the order of the queue, and those who
\* have a slot came before those who wait for one.
NumbersFit ==
    /\ phase \notin {"down", "refused"} => \A r \in Run : admitted[r] <= sequence
    /\ \A r, q \in Run : admitted[r] = admitted[q] /\ admitted[r] # 0 => r = q

QueueOrdered ==
    \A i, j \in DOMAIN queue : i < j =>
        /\ admitted[queue[i]] # 0
        /\ admitted[queue[j]] # 0 => admitted[queue[i]] < admitted[queue[j]]

SlotsFirst ==
    \A r \in slots, q \in ToSet(queue) :
        admitted[r] # 0 /\ (admitted[q] # 0 => admitted[r] < admitted[q])

FoundOrdered ==
    phase \in {"recovering", "resuming"} =>
        \A i, j \in DOMAIN boot.found : i < j => admitted[boot.found[i]] <= admitted[boot.found[j]]

\* There are never more places than the server has, in memory or on disk.
PlacesBounded ==
    /\ Cardinality(slots) <= MaxRunning /\ Len(queue) <= MaxQueued
    /\ Cardinality(Persisted) <= MaxRunning + MaxQueued

QueueInv ==
    /\ faults = MaxFaults /\ phase # "refused"
    /\ NumbersFit /\ QueueOrdered /\ SlotsFirst /\ FoundOrdered /\ PlacesBounded
    /\ \A x \in Run : PlaceOf(x)

LEMMA FiniteSets == ASSUME RunTypes
                    PROVE  /\ IsFiniteSet(slots) /\ Cardinality(slots) \in Nat
                           /\ IsFiniteSet(Persisted) /\ Cardinality(Persisted) \in Nat
<1>1. IsFiniteSet(Run) /\ slots \in SUBSET Run /\ Persisted \in SUBSET Run
  BY RunAssumption DEF RunTypes, Persisted
<1>2. IsFiniteSet(slots) /\ IsFiniteSet(Persisted)
  BY <1>1, FS_Subset
<1>3. QED
  BY <1>2, FS_CardinalityType

\* Steps that give no place and no number, and take places only from the runs of S.
LEMMA PlacesKeep ==
    ASSUME RunsInv, RunsInv', QueueInv, NEW S,
           UNCHANGED <<admitted, sequence, boot, keyOf, faults>>,
           \/ phase' = phase
           \/ phase \in {"resuming", "up", "stopping"} /\ phase' \in {"up", "stopping", "closed"},
           slots' \in {slots, slots \ S}, queue' \in {queue, Without(queue, S)},
           \A x \in Run : state'[x] = "queued" /\ admitted[x] # 0 => state[x] = "queued",
           \A x \in Run \ S :
              /\ adm # adm' => ~(adm # None /\ adm.run = x) /\ ~(adm' # None /\ adm'.run = x)
              /\ worker'[x] \in {"start", "execute"} => worker[x] \in {"start", "execute"} \/ x \in slots
              /\ worker'[x] = "wait" /\ ~token'[x] => worker[x] = "wait" /\ ~token[x]
              /\ worker'[x] \in {"ended", "gone"} => worker[x] \in {"ended", "gone"} \/ state'[x] # "queued"
              /\ state'[x] = "queued" => state[x] = "queued" \/ worker'[x] = "none",
           \A x \in Run \cap S : PlaceOf(x)'
    PROVE  QueueInv'
<1>1. RunTypes /\ ServerTypes /\ RunTypes'
  <2>1. RunTypes /\ ServerTypes
    BY TypesAre DEF RunsInv
  <2>2. TypeOK'
    BY DEF RunsInv
  <2>3. QED
    BY <2>1, <2>2, TypesAre, PTL
<1>2. /\ queue' \in Seq(Run) /\ Len(queue') <= Len(queue) /\ Len(queue) \in Nat
      /\ ToSet(queue') = ToSet(queue) \/ ToSet(queue') = ToSet(queue) \ S
      /\ \A m, n \in DOMAIN queue' : m < n =>
            \E i, j \in DOMAIN queue : i < j /\ queue'[m] = queue[i] /\ queue'[n] = queue[j]
  <2>1. queue \in Seq(Run)
    BY <1>1 DEF ServerTypes
  <2>2. CASE queue' = queue
    BY <2>1, <2>2
  <2>3. CASE queue' = Without(queue, S)
    BY <2>1, <2>3, WithoutIs
  <2>4. QED
    BY <2>2, <2>3
<1>3. NumbersFit' /\ FoundOrdered' /\ phase' # "refused" /\ faults' = MaxFaults
  BY DEF QueueInv, NumbersFit, FoundOrdered
<1>4. QueueOrdered'
  BY <1>2 DEF QueueInv, QueueOrdered
<1>5. SlotsFirst'
  BY <1>2 DEF QueueInv, SlotsFirst
<1>6. PlacesBounded'
  <2>1. slots' \in SUBSET slots /\ Persisted' \in SUBSET Persisted
    BY DEF Persisted
  <2>2. /\ IsFiniteSet(slots) /\ Cardinality(slots) \in Nat
        /\ IsFiniteSet(Persisted) /\ Cardinality(Persisted) \in Nat
    BY <1>1, FiniteSets
  <2>3. /\ IsFiniteSet(slots') /\ Cardinality(slots') <= Cardinality(slots)
        /\ IsFiniteSet(Persisted') /\ Cardinality(Persisted') <= Cardinality(Persisted)
    BY <2>1, <2>2, FS_Subset
  <2>4. Cardinality(slots') \in Nat /\ Cardinality(Persisted') \in Nat /\ Len(queue') \in Nat
    BY <1>2, <2>3, FS_CardinalityType
  <2>5. QED
    BY <1>2, <2>2, <2>3, <2>4, Capacities DEF QueueInv, PlacesBounded
<1>7. ASSUME NEW x \in Run PROVE PlaceOf(x)'
  <2>1. CASE x \in S
    BY <2>1
  <2>2. CASE x \notin S
    <3>1. (x \in slots' <=> x \in slots) /\ (x \in ToSet(queue') <=> x \in ToSet(queue))
      BY <1>2, <2>2
    <3>2. (x \in Placed)' <=> x \in Placed
      BY <3>1 DEF Placed
    <3>3. (x \in Persisted)' => x \in Persisted
      BY DEF Persisted
    <3>4. PlaceOf(x)
      BY DEF QueueInv
    <3> HIDE DEF Placed, Persisted
    <3>5. QED
      BY <2>2, <3>1, <3>2, <3>3, <3>4 DEF PlaceOf
  <2>3. QED
    BY <2>1, <2>2
<1>8. QED
  BY <1>3, <1>4, <1>5, <1>6, <1>7 DEF QueueInv

\* Steps of threads and requests that leave the places alone.
LEMMA PlacesLeftAlone ==
    ASSUME RunsInv, RunsInv', QueueInv,
           \/ \E r \in Run : \/ Start(r) \/ Execute(r) \/ Finish(r) \/ CancelRun(r) \/ ShutdownNext(r)
           \/ CancelToken \/ CancelDisk \/ Joined \/ Shutdown \/ Serve
    PROVE  QueueInv'
<1> DEFINE Quiet ==
       /\ UNCHANGED <<admitted, sequence, boot, keyOf, faults, slots, queue, adm>>
       /\ \/ phase' = phase
          \/ phase \in {"resuming", "up", "stopping"} /\ phase' \in {"up", "stopping", "closed"}
       /\ \A x \in Run :
             /\ state'[x] = "queued" => state[x] = "queued"
             /\ worker'[x] \in {"start", "execute"} => worker[x] \in {"start", "execute"}
             /\ worker'[x] = "wait" /\ ~token'[x] => worker[x] = "wait" /\ ~token[x]
             /\ worker'[x] \in {"ended", "gone"} => worker[x] \in {"ended", "gone"} \/ state'[x] # "queued"
<1>1. Quiet => QueueInv'
  <2> SUFFICES ASSUME Quiet PROVE QueueInv'
    OBVIOUS
  <2>1. PICK S : S = {}
    OBVIOUS
  <2>2. slots' \in {slots, slots \ S} /\ queue' \in {queue, Without(queue, S)}
    OBVIOUS
  <2>3. \A x \in Run : /\ state'[x] = "queued" /\ admitted[x] # 0 => state[x] = "queued"
                       /\ adm # adm' => ~(adm # None /\ adm.run = x) /\ ~(adm' # None /\ adm'.run = x)
    OBVIOUS
  <2>4. \A x \in Run \cap S : PlaceOf(x)'
    BY <2>1
  <2>5. QED
    BY <2>2, <2>3, <2>4, PlacesKeep
<1>2. RunTypes /\ ServerTypes
  BY TypesAre DEF RunsInv
<1>3. ~Fault
  BY <1>2, Bounds DEF QueueInv, Fault
<1>4. \A x \in Run : ThreadOf(x) /\ DiskOf(x) /\ WorkerOf(x) /\ OperationOf(x)
  BY DEF RunsInv, RunFits
<1>0. ASSUME UNCHANGED <<admitted, sequence, boot, keyOf, faults, slots, queue, adm, worker>>,
             \/ phase' = phase
             \/ phase \in {"resuming", "up", "stopping"} /\ phase' \in {"up", "stopping", "closed"},
             \A x \in Run : state'[x] = "queued" => state[x] = "queued",
             \A x \in Run : ~token'[x] => ~token[x]
      PROVE  Quiet
  <2>1. \A x \in Run : worker'[x] = worker[x]
    BY <1>0
  <2>2. \A x \in Run : worker'[x] = "wait" /\ ~token'[x] => worker[x] = "wait" /\ ~token[x]
    BY <1>0, <2>1, Zenon
  <2>3. \A x \in Run :
             /\ worker'[x] \in {"start", "execute"} => worker[x] \in {"start", "execute"}
             /\ worker'[x] \in {"ended", "gone"} => worker[x] \in {"ended", "gone"} \/ state'[x] # "queued"
    BY <2>1
  <2>4. QED
    BY <1>0, <2>2, <2>3, Zenon
<1>5. ASSUME NEW r \in Run, Start(r) PROVE Quiet
  BY <1>2, <1>3, <1>5 DEF Start, WorkerAt, Erred, GoTo, Saved, Unsaved, RunTypes, server, admission
<1>6. ASSUME NEW r \in Run, Execute(r) PROVE Quiet
  BY <1>2, <1>3, <1>6 DEF Execute, WorkerAt, Erred, GoTo, RunTypes, server, admission
<1>7. ASSUME NEW r \in Run, Finish(r) PROVE Quiet
  <2>1. PICK s \in Status \cup {None} : /\ s # "queued"
           /\ state' = [state EXCEPT ![r] = s]
    <3>1. CASE mem[r] = "cancelled"
      <4>1. state[r] \in Status \cup {None} /\ state[r] # "queued" /\ state' = state
        BY <1>2, <1>4, <1>7, <3>1, Distinct DEF Finish, WorkerOf, RunTypes, Status, Final, Outcome
      <4>2. state' = [state EXCEPT ![r] = state[r]]
        BY <1>2, <4>1 DEF RunTypes
      <4>3. QED
        BY <4>1, <4>2
    <3>2. CASE mem[r] # "cancelled"
      <4>1. PICK s \in Reported(r) : state' = [state EXCEPT ![r] = s]
        BY <1>3, <1>7, <3>2 DEF Finish, Saved, Unsaved
      <4>2. s \in Status \cup {None} /\ s # "queued"
        BY <1>2, <1>4, <1>7, <4>1 DEF Finish, WorkerAt, WorkerOf, Reported, RunTypes, Status, Final, Outcome
      <4>3. QED
        BY <4>1, <4>2
    <3>3. QED
      BY <3>1, <3>2
  <2>2. /\ UNCHANGED <<admitted, sequence, boot, keyOf, faults, slots, queue, adm, phase, token>>
        /\ worker' = [worker EXCEPT ![r] = "ended"]
    BY <1>3, <1>7 DEF Finish, WorkerAt, GoTo, Saved, Unsaved, server, admission
  <2>3. QED
    BY <1>2, <2>1, <2>2 DEF RunTypes
<1>8. ASSUME NEW r \in Run, CancelRun(r) \/ ShutdownNext(r) PROVE Quiet
  BY <1>8 DEF CancelRun, ShutdownNext, AtCancel, disk, server, admission, history
<1>9. CASE CancelToken
  <2>1. PICK r : token' = [token EXCEPT ![r] = TRUE]
    BY <1>9 DEF CancelToken, Signalled
  <2>2. UNCHANGED <<admitted, sequence, boot, keyOf, faults, slots, queue, adm, phase, state, worker>>
    BY <1>9 DEF CancelToken, AtCancel
  <2>3. \A x \in Run : ~token'[x] => ~token[x]
    BY <1>2, <2>1 DEF RunTypes
  <2> HIDE DEF Quiet
  <2>4. QED
    BY <1>0, <1>1, <2>2, <2>3
<1>10. CASE CancelDisk
  <2>1. PICK r : r = op.run /\ r \in Run /\ state[r] # None
    BY <1>4, <1>10 DEF CancelDisk, AtCancel, RunsInv, ServerFits, OperationOf
  <2>2. Repaired(r) # "queued"
    BY <1>2, <1>4, <2>1, RepairedIs DEF Final, Outcome
  <2>3. /\ UNCHANGED <<admitted, sequence, boot, keyOf, faults, slots, queue, adm, phase, token, worker>>
        /\ state' = [state EXCEPT ![r] = Repaired(r)]
    BY <1>3, <1>10, <2>1 DEF CancelDisk, AtCancel, Saved, Unsaved
  <2>4. \A x \in Run : state'[x] = "queued" => state[x] = "queued"
    BY <1>2, <2>1, <2>2, <2>3 DEF RunTypes
  <2>5. \A x \in Run : ~token'[x] <=> ~token[x]
    BY <2>3
  <2> HIDE DEF Quiet
  <2>6. QED
    BY <1>0, <1>1, <2>3, <2>4, <2>5
<1>11. CASE Joined
  <2>1. /\ UNCHANGED <<admitted, sequence, boot, keyOf, faults, slots, queue, adm, state, worker, token>>
        /\ phase' = "closed" /\ phase = "stopping"
    BY <1>11 DEF Joined, AtCancel, RunsInv, ServerFits
  <2>2. \A x \in Run : ~token'[x] <=> ~token[x]
    BY <2>1
  <2> HIDE DEF Quiet
  <2>3. QED
    BY <1>0, <1>1, <2>1, <2>2
<1>12. CASE Shutdown \/ Serve
  <2>1. /\ UNCHANGED <<admitted, sequence, boot, keyOf, faults, slots, queue, adm, state, worker, token>>
        /\ phase \in {"resuming", "up"} /\ phase' \in {"up", "stopping"}
    BY <1>12 DEF Shutdown, Serve, disk, admission, workers, history
  <2>2. \A x \in Run : ~token'[x] <=> ~token[x]
    BY <2>1
  <2> HIDE DEF Quiet
  <2>3. QED
    BY <1>0, <1>1, <2>1, <2>2
<1>13. QED
  BY <1>1, <1>5, <1>6, <1>7, <1>8, <1>9, <1>10, <1>11, <1>12

\* The thread of a run ends, or the run is cancelled: its place is given back.
LEMMA PlacesExit == ASSUME NEW r \in Run, RunsInv, RunsInv', QueueInv, Exit(r) PROVE QueueInv'
<1>1. RunTypes /\ ServerTypes
  BY TypesAre DEF RunsInv
<1>2. /\ worker[r] = "ended" /\ worker' = [worker EXCEPT ![r] = "gone"]
      /\ slots' = slots \ {r} /\ queue' = Without(queue, {r})
      /\ UNCHANGED <<admitted, sequence, boot, keyOf, faults, phase, adm, token, state>>
  BY DEF Exit, WorkerAt, GoTo, Release, Dequeue, server
<1>3. PlaceOf(r) /\ ~(adm # None /\ adm.run = r)
  BY <1>2 DEF QueueInv, RunsInv, RunFits, AdmissionOf
<1>4. worker'[r] = "gone" /\ \A x \in Run \ {r} : worker'[x] = worker[x]
  BY <1>1, <1>2 DEF RunTypes
<1>5. r \notin slots' /\ r \notin ToSet(queue')
  <2>1. queue \in Seq(Run)
    BY <1>1 DEF ServerTypes
  <2>2. ToSet(queue') = ToSet(queue) \ {r}
    BY <1>2, <2>1, WithoutIs
  <2>3. QED
    BY <1>2, <2>2
<1>6. (r \in Placed)' <=> FALSE
  BY <1>5 DEF Placed
<1>7. r \notin Persisted /\ ((r \in Persisted)' <=> r \in Persisted)
  BY <1>2, <1>3 DEF Persisted, PlaceOf
<1>8. FoundOf(r)
  BY DEF RunsInv, RunFits
<1>9. PlaceOf(r)'
  <2> HIDE DEF Placed, Persisted
  <2>1. QED
    BY <1>2, <1>3, <1>4, <1>6, <1>7, <1>8 DEF PlaceOf, FoundOf
<1>10. PICK S : S = {r}
  OBVIOUS
<1>11. \A x \in Run \ S : worker'[x] = worker[x] /\ (~token'[x] <=> ~token[x]) /\ state'[x] = state[x]
  BY <1>2, <1>4, <1>10
<1>12. QED
  BY <1>2, <1>9, <1>10, <1>11, PlacesKeep

LEMMA PlacesCancelSave == ASSUME RunsInv, RunsInv', QueueInv, CancelSave PROVE QueueInv'
<1>1. RunTypes /\ ServerTypes /\ ServerFits
  BY TypesAre DEF RunsInv
<1>2. ~Fault
  BY <1>1, Bounds DEF QueueInv, Fault, ServerTypes
<1>3. PICK r \in Run : r = op.run /\ op # None /\ op.step = "save" /\ RunFits(r) /\ token[r]
  BY <1>1 DEF CancelSave, AtCancel, ServerFits, RunsInv, RunFits, OperationOf
<1>4. PICK S : S = {r}
  OBVIOUS
<1>5. /\ UNCHANGED <<admitted, sequence, boot, keyOf, faults, phase, adm, token, slots, worker>>
      /\ \/ state' = [state EXCEPT ![r] = "cancelled"] /\ queue' = Without(queue, S)
         \/ state' = state /\ queue' = queue
  BY <1>2, <1>3, <1>4 DEF CancelSave, AtCancel, QueuedCancelled, Saved, Unsaved, Dequeue
<1>6. \A x \in Run : /\ worker'[x] = worker[x] /\ (~token'[x] <=> ~token[x])
                     /\ state'[x] = state[x] \/ state'[x] = "cancelled"
  BY <1>1, <1>5 DEF RunTypes
<1>7. slots' \in {slots, slots \ S} /\ queue' \in {queue, Without(queue, S)}
  BY <1>5
<1>8. ~(adm # None /\ adm.run = r) /\ PlaceOf(r)
  BY <1>1, <1>3 DEF ServerFits, QueueInv
<1>9. PlaceOf(r)'
  <2>1. CASE queue' = queue
    <3>1. (r \in Placed)' <=> r \in Placed
      BY <1>5, <2>1 DEF Placed
    <3>2. (r \in Persisted)' => r \in Persisted
      BY <1>3, <1>5, <1>6 DEF Persisted
    <3> HIDE DEF Placed, Persisted
    <3>3. QED
      BY <1>3, <1>5, <1>6, <1>8, <3>1, <3>2 DEF PlaceOf
  <2>2. CASE state' = [state EXCEPT ![r] = "cancelled"] /\ queue' = Without(queue, S)
    <3>1. ToSet(queue') = ToSet(queue) \ S
      BY <1>1, <2>2, WithoutIs DEF ServerTypes
    <3>2. (r \in Placed)' => r \in Placed
      BY <1>5, <3>1 DEF Placed
    <3>3. state'[r] = "cancelled" /\ r \notin Persisted'
      BY <1>1, <2>2 DEF RunTypes, Persisted
    <3>4. ~(phase = "resuming")
      BY <1>1, <1>3 DEF ServerFits
    <3> HIDE DEF Placed, Persisted
    <3>5. QED
      BY <1>3, <1>5, <1>6, <1>8, <3>2, <3>3, <3>4 DEF PlaceOf
  <2>3. QED
    BY <1>5, <2>1, <2>2
<1>10. QED
  BY <1>4, <1>5, <1>6, <1>7, <1>9, PlacesKeep

\* A worker whose turn it is takes a slot.
LEMMA PlacesWait == ASSUME NEW r \in Run, RunsInv, RunsInv', QueueInv, Wait(r) PROVE QueueInv'
<1>1. RunTypes /\ ServerTypes
  BY TypesAre DEF RunsInv
<1>2. /\ worker[r] = "wait"
      /\ UNCHANGED <<admitted, sequence, boot, keyOf, faults, phase, adm, token, state>>
      /\ worker' \in {[worker EXCEPT ![r] = "finish"], [worker EXCEPT ![r] = "start"]}
  BY DEF Wait, WorkerAt, Erred, GoTo, server
<1>3. /\ worker'[r] \in {"finish", "start"} /\ \A x \in Run \ {r} : worker'[x] = worker[x]
      /\ \A x \in Run : (~token'[x] <=> ~token[x]) /\ state'[x] = state[x]
  BY <1>1, <1>2 DEF RunTypes
<1>4. CASE slots' = slots /\ queue' = queue
  <2>1. PICK S : S = {}
    OBVIOUS
  <2>2. worker'[r] = "start" => r \in slots
    BY <1>1, <1>2, <1>4 DEF Wait, Erred, GoTo, RunTypes, Granted
  <2>3. slots' \in {slots, slots \ S} /\ queue' \in {queue, Without(queue, S)}
    BY <1>4
  <2>4. \A x \in Run :
           /\ worker'[x] \in {"start", "execute"} => worker[x] \in {"start", "execute"} \/ x \in slots
           /\ worker'[x] \in {"ended", "gone"} => worker[x] \in {"ended", "gone"}
           /\ worker'[x] = "wait" => worker[x] = "wait"
    BY <1>2, <1>3, <2>2
  <2>5. QED
    BY <1>2, <1>3, <2>1, <2>3, <2>4, PlacesKeep
<1>5. CASE /\ Granted(r) /\ slots' = slots \cup {r} /\ queue' = Tail(queue)
           /\ worker' = [worker EXCEPT ![r] = "start"]
  <2>1. queue \in Seq(Run) /\ queue # <<>> /\ r = Head(queue) /\ Cardinality(slots) < MaxRunning
    BY <1>1, <1>5 DEF ServerTypes, Granted
  <2>2. PICK t : t = Tail(queue)
    OBVIOUS
  <2>3. /\ t \in Seq(Run) /\ r = queue[1] /\ Len(t) = Len(queue) - 1 /\ Len(queue) \in Nat \ {0}
        /\ \A i \in DOMAIN t : i + 1 \in DOMAIN queue /\ t[i] = queue[i + 1]
        /\ ToSet(queue) = ToSet(t) \cup {r}
    BY <2>1, <2>2, TailIs
  <2>4. /\ 1 \in DOMAIN queue /\ DOMAIN t \subseteq Nat \ {0} /\ DOMAIN queue \subseteq Nat
        /\ \A q \in ToSet(t) : \E j \in DOMAIN queue : 1 < j /\ queue[j] = q
    <3>1. /\ 1 \in DOMAIN queue /\ DOMAIN t \subseteq Nat \ {0} /\ DOMAIN queue \subseteq Nat
      BY <2>1, <2>3
    <3>2. \A i \in DOMAIN t : 1 < i + 1
      BY <3>1
    <3>3. QED
      BY <2>3, <3>1, <3>2 DEF ToSet
  <2>5. QueueOrdered /\ SlotsFirst
    BY DEF QueueInv
  <2>6. \A q \in ToSet(t) : admitted[r] # 0 /\ (admitted[q] # 0 => admitted[r] < admitted[q])
    BY <2>3, <2>4, <2>5 DEF QueueOrdered
  <2>7. QueueOrdered'
    <3>1. \A i, j \in DOMAIN t : i < j => i + 1 < j + 1
      BY <2>4
    <3>2. \A i, j \in DOMAIN t : i < j =>
             admitted[t[i]] # 0 /\ (admitted[t[j]] # 0 => admitted[t[i]] < admitted[t[j]])
      BY <2>3, <2>5, <3>1 DEF QueueOrdered
    <3>3. QED
      BY <1>2, <1>5, <2>2, <3>2 DEF QueueOrdered
  <2>8. SlotsFirst'
    BY <1>2, <1>5, <2>2, <2>3, <2>5, <2>6 DEF SlotsFirst
  <2>9. (\A x : x \in Placed <=> x \in Placed') /\ Persisted' = Persisted
    BY <1>2, <1>5, <2>2, <2>3 DEF Placed, Persisted
  <2>10. PlacesBounded'
    <3>1. IsFiniteSet(slots) /\ Cardinality(slots) \in Nat
      BY <1>1, FiniteSets
    <3>2. Cardinality(slots') <= Cardinality(slots) + 1 /\ Cardinality(slots') \in Nat
      <4>1. IsFiniteSet(slots') /\ Cardinality(slots') = IF r \in slots THEN Cardinality(slots) ELSE Cardinality(slots) + 1
        BY <1>5, <3>1, FS_AddElement
      <4>2. QED
        BY <3>1, <4>1
    <3>3. Len(queue') < Len(queue) /\ Len(queue') \in Nat
      BY <1>5, <2>2, <2>3
    <3>4. QED
      BY <1>5, <2>1, <2>3, <2>9, <3>1, <3>2, <3>3, Capacities DEF QueueInv, PlacesBounded
  <2>11. ASSUME NEW x \in Run PROVE PlaceOf(x)'
    <3>1. PlaceOf(x) /\ (x \in Placed <=> (x \in Placed)') /\ (x \in slots => x \in slots')
      BY <1>5, <2>9 DEF QueueInv
    <3>2. (x \in Persisted)' <=> x \in Persisted
      BY <2>9
    <3>3. x = r => x \in slots'
      BY <1>5
    <3> HIDE DEF Placed, Persisted
    <3>4. QED
      BY <1>2, <1>3, <3>1, <3>2, <3>3 DEF PlaceOf
  <2>12. NumbersFit' /\ FoundOrdered' /\ phase' # "refused" /\ faults' = MaxFaults
    BY <1>2 DEF QueueInv, NumbersFit, FoundOrdered
  <2>13. QED
    BY <2>7, <2>8, <2>10, <2>11, <2>12 DEF QueueInv
<1>6. QED
  BY <1>4, <1>5 DEF Wait, Erred, GoTo, admission

\* The saves of an admission, and the thread of the run that is admitted.
LEMMA PlacesAdmit ==
    ASSUME RunsInv, RunsInv', QueueInv, AdmitState \/ AdmitKey \/ AdmitSpawn
    PROVE  QueueInv'
<1>1. RunTypes /\ ServerTypes
  BY TypesAre DEF RunsInv
<1>2. ~Fault
  BY <1>1, Bounds DEF QueueInv, Fault, ServerTypes
<1>3. adm # None /\ adm.run \in Run /\ adm.step \in {"state", "key", "spawn"}
  BY <1>1 DEF AdmitState, AdmitKey, AdmitSpawn, AdmitStep, ServerTypes
<1>4. PICK r \in Run : r = adm.run
  BY <1>3
<1>5. PICK S : S = {r}
  OBVIOUS
<1>6. PlaceOf(r) /\ phase = "up" /\ AdmissionOf(r) /\ ServerFits
  BY <1>3 DEF QueueInv, RunsInv, ServerFits, RunFits
<1>7. UNCHANGED <<admitted, sequence, boot, keyOf, faults, phase, slots, queue, token>>
  BY <1>2 DEF AdmitState, AdmitKey, AdmitSpawn, AdmitStep, Saved, Unsaved, Spawn, history, admission, workers
<1>8. (r \in Placed)' <=> r \in Placed
  BY <1>7 DEF Placed
<1>9. CASE AdmitSpawn
  <2>1. /\ worker' = [worker EXCEPT ![r] = "wait"] /\ adm' = None /\ state' = state
        /\ adm.step = "spawn"
    BY <1>4, <1>9 DEF AdmitSpawn, AdmitStep, Spawn
  <2>2. worker'[r] = "wait" /\ \A x \in Run \ S : worker'[x] = worker[x]
    BY <1>1, <1>5, <2>1 DEF RunTypes
  <2>3. (r \in Persisted)' <=> r \in Persisted
    BY <1>7, <2>1 DEF Persisted
  <2>4. PlaceOf(r)'
    <3> HIDE DEF Placed, Persisted
    <3>1. QED
      BY <1>3, <1>4, <1>6, <1>7, <1>8, <2>1, <2>2, <2>3 DEF PlaceOf
  <2>5. /\ slots' \in {slots, slots \ S} /\ queue' \in {queue, Without(queue, S)}
        /\ \A x \in Run : state'[x] = state[x] /\ (~token'[x] <=> ~token[x])
        /\ \A x \in Run \ S : ~(adm # None /\ adm.run = x) /\ ~(adm' # None /\ adm'.run = x)
    BY <1>4, <1>5, <1>7, <2>1
  <2>6. QED
    BY <1>5, <1>7, <2>2, <2>4, <2>5, PlacesKeep
<1>10. CASE AdmitState \/ AdmitKey
  <2>1. /\ worker' = worker /\ adm.step \in {"state", "key"}
        /\ \E step \in {"key", "record"} : adm' = [adm EXCEPT !.step = step]
        /\ state' \in {state, [state EXCEPT ![r] = InitialStatus(r)]}
    BY <1>2, <1>4, <1>10 DEF AdmitState, AdmitKey, AdmitStep, Saved, Unsaved, NextAdmission, workers
  <2>2. adm' # None /\ adm'.run = r /\ adm'.step \in {"key", "record"}
    <3>1. adm \in [run : Run, step : {"state", "key", "record", "spawn", "fail"}]
      BY <1>1, <1>3 DEF ServerTypes
    <3>2. PICK step \in {"key", "record"} : adm' = [adm EXCEPT !.step = step]
      BY <2>1
    <3>3. adm' \in [run : Run, step : {"state", "key", "record", "spawn", "fail"}]
      BY <3>1, <3>2
    <3>4. adm'.run = r /\ adm'.step \in {"key", "record"}
      BY <1>4, <3>1, <3>2
    <3>5. QED
      BY <3>3, <3>4, NoAdmission
  <2>3. admitted[r] = 0 /\ worker[r] = "none"
    BY <1>3, <1>4, <1>6, <2>1 DEF PlaceOf, AdmissionOf
  <2>4. \A x \in Run \ S : state'[x] = state[x]
    BY <1>1, <1>5, <2>1 DEF RunTypes
  <2>5. r \notin Persisted'
    BY <1>7, <2>3 DEF Persisted
  <2>6. PlaceOf(r)'
    <3> HIDE DEF Placed, Persisted
    <3>1. FoundOf(r)
      BY DEF RunsInv, RunFits
    <3>2. QED
      BY <1>3, <1>4, <1>6, <1>7, <1>8, <2>1, <2>2, <2>3, <2>5, <3>1 DEF PlaceOf, FoundOf
  <2>7. /\ slots' \in {slots, slots \ S} /\ queue' \in {queue, Without(queue, S)}
        /\ \A x \in Run : worker'[x] = worker[x] /\ (~token'[x] <=> ~token[x])
        /\ \A x \in Run \ S : ~(adm # None /\ adm.run = x) /\ ~(adm' # None /\ adm'.run = x)
        /\ \A x \in Run : state'[x] = "queued" /\ admitted[x] # 0 => state[x] = "queued"
    BY <1>4, <1>5, <1>7, <2>1, <2>2, <2>3, <2>4
  <2>8. QED
    BY <1>5, <1>7, <2>4, <2>6, <2>7, PlacesKeep
<1>11. QED
  BY <1>9, <1>10

\* There are no more runs with a place than slots and places that are taken.
LEMMA PlacedIsBounded ==
    ASSUME NEW A, IsFiniteSet(A), NEW s \in Seq(A), NEW T, IsFiniteSet(T)
    PROVE  /\ IsFiniteSet(ToSet(s)) /\ Cardinality(ToSet(s)) <= Len(s)
           /\ IsInjective(s) => Cardinality(ToSet(s)) = Len(s)
           /\ IsFiniteSet(T \cup ToSet(s)) /\ Cardinality(T \cup ToSet(s)) <= Cardinality(T) + Len(s)
           /\ Cardinality(T) \in Nat /\ Cardinality(ToSet(s)) \in Nat /\ Cardinality(T \cup ToSet(s)) \in Nat
<1>1. Len(s) \in Nat /\ DOMAIN s = 1..Len(s)
  OBVIOUS
<1>2. IsFiniteSet(1..Len(s)) /\ Cardinality(1..Len(s)) = Len(s)
  BY <1>1, UpToIs
<1>3. s \in Surjection(1..Len(s), ToSet(s))
  BY <1>1 DEF Surjection, ToSet
<1>4. IsFiniteSet(ToSet(s)) /\ Cardinality(ToSet(s)) <= Len(s)
  BY <1>2, <1>3, FS_Surjection
<1>5. IsInjective(s) => Cardinality(ToSet(s)) = Len(s)
  <2> SUFFICES ASSUME IsInjective(s) PROVE Cardinality(ToSet(s)) = Len(s)
    OBVIOUS
  <2>1. s \in Injection(1..Len(s), ToSet(s))
    BY <1>3 DEF Surjection, Injection
  <2>2. Cardinality(1..Len(s)) <= Cardinality(ToSet(s))
    BY <1>4, <2>1, FS_Injection
  <2>3. Cardinality(ToSet(s)) \in Nat
    BY <1>4, FS_CardinalityType
  <2>4. QED
    BY <1>1, <1>2, <1>4, <2>2, <2>3
<1>6. IsFiniteSet(T \cup ToSet(s)) /\ Cardinality(T) \in Nat /\ Cardinality(ToSet(s)) \in Nat
  BY <1>4, FS_Union, FS_CardinalityType
<1>7. /\ Cardinality(T \cup ToSet(s)) = Cardinality(T) + Cardinality(ToSet(s)) - Cardinality(T \cap ToSet(s))
      /\ Cardinality(T \cap ToSet(s)) \in Nat /\ Cardinality(T \cup ToSet(s)) \in Nat
  <2>1. IsFiniteSet(T \cap ToSet(s))
    <3>1. T \cap ToSet(s) \in SUBSET T
      OBVIOUS
    <3>2. QED
      BY <3>1, FS_Subset
  <2>2. QED
    BY <1>4, <1>6, <2>1, FS_Union, FS_CardinalityType
<1>8. QED
  BY <1>1, <1>4, <1>5, <1>6, <1>7

\* While the server is up, what the next start will find has a place now.
LEMMA PersistedIsPlaced ==
    ASSUME RunsInv, NEW T \in SUBSET Placed, Cardinality(slots) <= MaxRunning, Len(queue) <= MaxQueued
    PROVE  Cardinality(T) <= MaxRunning + MaxQueued
<1>1. RunTypes /\ queue \in Seq(Run) /\ IsFiniteSet(Run)
  BY TypesAre, RunAssumption DEF RunsInv, ServerTypes
<1>2. IsFiniteSet(slots) /\ Cardinality(slots) \in Nat /\ Len(queue) \in Nat
  BY <1>1, FiniteSets
<1>3. /\ IsFiniteSet(Placed) /\ Cardinality(Placed) <= Cardinality(slots) + Len(queue)
      /\ Cardinality(Placed) \in Nat
  BY <1>1, <1>2, PlacedIsBounded DEF Placed
<1> HIDE DEF Placed
<1>4. Cardinality(T) <= Cardinality(Placed) /\ Cardinality(T) \in Nat
  <2>1. IsFiniteSet(T) /\ Cardinality(T) <= Cardinality(Placed)
    BY <1>3, FS_Subset
  <2>2. QED
    BY <2>1, FS_CardinalityType
<1>5. QED
  BY <1>2, <1>3, <1>4, Capacities

\* The sequence number of an admission is above every earlier one.
LEMMA PlacesAdmitRecord == ASSUME RunsInv, RunsInv', QueueInv, AdmitRecord PROVE QueueInv'
<1>1. RunTypes /\ ServerTypes
  BY TypesAre DEF RunsInv
<1>2. ~Fault
  BY <1>1, Bounds DEF QueueInv, Fault, ServerTypes
<1>3. PICK r \in Run : r = adm.run /\ adm # None /\ adm.step = "record"
  BY <1>1 DEF AdmitRecord, AdmitStep, ServerTypes
<1>4. PICK n \in Nat : n = sequence + 1
  BY <1>1 DEF ServerTypes
<1>5. /\ UNCHANGED <<boot, keyOf, faults, phase, slots, queue, token, state, worker>>
      /\ sequence' = n /\ admitted' = [admitted EXCEPT ![r] = n] /\ adm' = [adm EXCEPT !.step = "spawn"]
  BY <1>2, <1>3, <1>4 DEF AdmitRecord, AdmitStep, NextAdmission, history, admission, workers
<1>6. adm' # None /\ adm'.run = r /\ adm'.step = "spawn"
  <2>1. adm \in [run : Run, step : {"state", "key", "record", "spawn", "fail"}]
    BY <1>1, <1>3 DEF ServerTypes
  <2>2. adm' \in [run : Run, step : {"state", "key", "record", "spawn", "fail"}]
    BY <1>5, <2>1
  <2>3. adm'.run = r /\ adm'.step = "spawn"
    BY <1>3, <1>5, <2>1
  <2>4. QED
    BY <2>2, <2>3, NoAdmission
<1>7. PlaceOf(r) /\ phase = "up" /\ AdmissionOf(r)
  BY <1>3 DEF QueueInv, RunsInv, ServerFits, RunFits
<1>8. admitted[r] = 0 /\ r \in Placed /\ worker[r] = "none"
  BY <1>3, <1>7, <1>1 DEF PlaceOf, AdmissionOf
<1>9. /\ \A x \in Run : admitted[x] \in Nat /\ admitted[x] < n
      /\ \A x \in Run \ {r} : admitted'[x] = admitted[x]
      /\ admitted'[r] = n /\ n # 0
  BY <1>1, <1>4, <1>5, <1>7 DEF QueueInv, NumbersFit, RunTypes, ServerTypes
<1>10. NumbersFit'
  <2>1. \A x \in Run : admitted'[x] <= sequence'
    BY <1>5, <1>9
  <2>2. \A x, q \in Run : admitted'[x] = admitted'[q] /\ admitted'[x] # 0 => x = q
    BY <1>9 DEF QueueInv, NumbersFit
  <2>3. QED
    BY <2>1, <2>2 DEF NumbersFit
<1>11. \A i \in DOMAIN queue : queue[i] \in Run
  BY <1>1 DEF ServerTypes
<1>12. QueueOrdered'
  BY <1>5, <1>8, <1>9, <1>11 DEF QueueInv, QueueOrdered
<1>13. SlotsFirst'
  <2>1. \A q \in ToSet(queue) : q \in Run
    BY <1>11 DEF ToSet
  <2>2. \A s \in slots : s \in Run
    BY <1>1 DEF RunTypes
  <2>3. QED
    BY <1>5, <1>8, <1>9, <2>1, <2>2 DEF QueueInv, SlotsFirst
<1>14. FoundOrdered'
  BY <1>5, <1>7 DEF FoundOrdered
<1>15. ASSUME NEW x \in Run PROVE PlaceOf(x)'
  <2>1. (x \in Placed)' <=> x \in Placed
    BY <1>5 DEF Placed
  <2>2. PlaceOf(x)
    BY DEF QueueInv
  <2>3. x # r => ((x \in Persisted)' <=> x \in Persisted)
    BY <1>5, <1>9 DEF Persisted
  <2> HIDE DEF Placed, Persisted
  <2>4. CASE x = r
    BY <1>5, <1>6, <1>7, <1>8, <1>9, <2>1, <2>2, <2>4 DEF PlaceOf
  <2>5. CASE x # r
    BY <1>3, <1>5, <1>6, <1>9, <2>1, <2>2, <2>3, <2>5 DEF PlaceOf
  <2>6. QED
    BY <2>4, <2>5
<1>16. PlacesBounded'
  <2>1. Persisted' \subseteq Placed
    BY <1>5, <1>7, <1>15 DEF PlaceOf, Persisted, Placed
  <2>2. Cardinality(Persisted') <= MaxRunning + MaxQueued
    BY <2>1, PersistedIsPlaced DEF QueueInv, PlacesBounded
  <2>3. QED
    BY <1>5, <2>2 DEF QueueInv, PlacesBounded
<1>17. QED
  BY <1>5, <1>7, <1>10, <1>12, <1>13, <1>14, <1>15, <1>16 DEF QueueInv

\* A run that is submitted comes after all that have a place.
LEMMA PlacesSubmit ==
    ASSUME NEW r \in Run, NEW k \in Key \cup {None}, RunsInv, RunsInv', QueueInv, Submit(r, k)
    PROVE  QueueInv'
<1>1. RunTypes /\ ServerTypes
  BY TypesAre DEF RunsInv
<1>2. /\ phase = "up" /\ adm = None /\ keyOf[r] = "fresh" /\ Reserve(r)
      /\ keyOf' = [keyOf EXCEPT ![r] = k] /\ adm' = [run |-> r, step |-> "state"]
      /\ UNCHANGED <<boot, faults, phase, token, state, worker, admitted, sequence>>
  BY DEF Submit, disk, server
<1>3. adm' # None /\ adm'.run = r /\ adm'.step = "state"
  <2>1. adm' \in [run : Run, step : {"state", "key", "record", "spawn", "fail"}]
    BY <1>2
  <2>2. QED
    BY <1>2, <2>1, NoAdmission
<1>4. /\ keyOf'[r] # "fresh" /\ \A x \in Run \ {r} : keyOf'[x] = keyOf[x]
      /\ admitted[r] = 0 /\ worker[r] = "none"
  <2>1. DiskOf(r)
    BY DEF RunsInv, RunFits
  <2>2. QED
    BY <1>1, <1>2, <2>1, Distinct DEF DiskOf, RunTypes
<1>5. /\ queue \in Seq(Run) /\ Len(queue) \in Nat /\ DOMAIN queue = 1..Len(queue)
      /\ slots \subseteq Run /\ \A i \in DOMAIN queue : queue[i] \in Run /\ queue[i] \in Placed
  BY <1>1 DEF ServerTypes, RunTypes, Placed, ToSet
<1>6. \A x \in Placed : x \in Run /\ x # r /\ admitted[x] # 0
  <2>1. Placed \subseteq Run
    BY <1>5 DEF Placed, ToSet
  <2>2. QED
    BY <1>2, <2>1 DEF QueueInv, PlaceOf
<1>7. /\ Placed' = Placed \cup {r} /\ slots \subseteq slots' /\ Persisted' = Persisted
      /\ QueueOrdered' /\ SlotsFirst' /\ Cardinality(slots') <= MaxRunning /\ Len(queue') <= MaxQueued
  <2>0. Persisted' = Persisted
    BY <1>2 DEF Persisted
  <2>1. CASE SlotFree(MaxRunning - Cardinality(slots)) /\ slots' = slots \cup {r} /\ UNCHANGED queue
    <3>1. queue = <<>> /\ queue' = <<>> /\ MaxRunning - Cardinality(slots) > 0
      BY <2>1 DEF SlotFree
    <3>2. Placed' = Placed \cup {r} /\ QueueOrdered' /\ SlotsFirst' /\ Len(queue') <= MaxQueued
      BY <2>1, <3>1, Capacities DEF Placed, QueueOrdered, SlotsFirst, ToSet
    <3>3. IsFiniteSet(slots) /\ Cardinality(slots) \in Nat
      BY <1>1, FiniteSets
    <3>4. Cardinality(slots') = IF r \in slots THEN Cardinality(slots) ELSE Cardinality(slots) + 1
      BY <2>1, <3>3, FS_AddElement
    <3>5. QED
      BY <2>0, <2>1, <3>1, <3>2, <3>3, <3>4, Capacities
  <2>2. CASE Len(queue) < MaxQueued /\ queue' = Append(queue, r) /\ UNCHANGED slots
    <3>1. /\ queue' \in Seq(Run) /\ Len(queue') = Len(queue) + 1 /\ DOMAIN queue' = 1..(Len(queue) + 1)
          /\ \A i \in 1..Len(queue) : queue'[i] = queue[i]
          /\ queue'[Len(queue) + 1] = r
      BY <1>5, <2>2
    <3>2. ToSet(queue') = ToSet(queue) \cup {r}
      <4>1. \A i \in DOMAIN queue : i \in DOMAIN queue'
        BY <1>5, <3>1
      <4>2. \A i \in DOMAIN queue' : i \in DOMAIN queue \/ i = Len(queue) + 1
        BY <1>5, <3>1
      <4>3. Len(queue) + 1 \in DOMAIN queue'
        BY <1>5, <3>1
      <4>4. QED
        BY <1>5, <3>1, <4>1, <4>2, <4>3 DEF ToSet
    <3>3. Placed' = Placed \cup {r}
      BY <2>2, <3>2 DEF Placed
    <3>4. QueueOrdered'
      <4> SUFFICES ASSUME NEW i \in DOMAIN queue', NEW j \in DOMAIN queue', i < j
                   PROVE  /\ admitted'[queue'[i]] # 0
                          /\ admitted'[queue'[j]] # 0 => admitted'[queue'[i]] < admitted'[queue'[j]]
        BY DEF QueueOrdered
      <4>1. i \in DOMAIN queue /\ queue'[i] = queue[i]
        BY <1>5, <3>1
      <4>2. CASE j = Len(queue) + 1
        BY <1>2, <1>4, <1>5, <1>6, <3>1, <4>1, <4>2
      <4>3. CASE j \in DOMAIN queue
        BY <1>2, <1>5, <3>1, <4>1, <4>3 DEF QueueInv, QueueOrdered
      <4>4. QED
        BY <1>5, <3>1, <4>2, <4>3
    <3>5. SlotsFirst'
      <4> SUFFICES ASSUME NEW s \in slots', NEW q \in ToSet(queue')
                   PROVE  admitted'[s] # 0 /\ (admitted'[q] # 0 => admitted'[s] < admitted'[q])
        BY DEF SlotsFirst
      <4>1. s \in slots /\ s \in Placed /\ admitted' = admitted
        BY <1>2, <2>2 DEF Placed
      <4>2. CASE q = r
        BY <1>4, <1>6, <4>1, <4>2
      <4>3. CASE q \in ToSet(queue)
        BY <4>1, <4>3 DEF QueueInv, SlotsFirst
      <4>4. QED
        BY <3>2, <4>2, <4>3
    <3>6. Cardinality(slots') <= MaxRunning /\ Len(queue') <= MaxQueued
      BY <1>5, <2>2, <3>1, Capacities DEF QueueInv, PlacesBounded
    <3>7. QED
      BY <2>0, <2>2, <3>3, <3>4, <3>5, <3>6
  <2>3. QED
    BY <1>2, <2>1, <2>2 DEF Reserve
<1>8. ASSUME NEW x \in Run PROVE PlaceOf(x)'
  <2>1. (x \in Placed)' <=> x \in Placed \/ x = r
    BY <1>7
  <2>2. PlaceOf(x) /\ ((x \in Persisted)' <=> x \in Persisted) /\ (x \in slots => x \in slots')
    BY <1>7 DEF QueueInv
  <2>3. x # r => keyOf'[x] = keyOf[x]
    BY <1>4
  <2>4. x \in Placed => admitted[x] # 0
    BY <1>6
  <2>5. admitted[r] = 0 /\ worker[r] = "none" /\ keyOf'[r] # "fresh" /\ ~(r \in Persisted)
    BY <1>4 DEF Persisted
  <2> HIDE DEF Placed, Persisted
  <2>6. CASE x = r
    BY <1>2, <1>3, <2>1, <2>2, <2>5, <2>6 DEF PlaceOf
  <2>7. CASE x # r
    BY <1>2, <1>3, <2>1, <2>2, <2>3, <2>4, <2>7 DEF PlaceOf
  <2>8. QED
    BY <2>6, <2>7
<1>9. NumbersFit' /\ FoundOrdered' /\ phase' # "refused" /\ faults' = MaxFaults
  BY <1>2 DEF QueueInv, NumbersFit, FoundOrdered
<1>10. QED
  BY <1>7, <1>8, <1>9 DEF QueueInv, PlacesBounded

\* When the process is gone no run has a place, and its queued state stays on disk.
LEMMA PlacesLost ==
    ASSUME RunsInv, RunsInv', QueueInv, ProcessEnds \/ Crash PROVE QueueInv'
<1>1. /\ phase' = "down" /\ boot'.found = <<>> /\ adm' = None /\ slots' = {} /\ queue' = <<>>
      /\ worker' = [r \in Run |-> "none"]
      /\ UNCHANGED <<admitted, keyOf, state, faults>>
  BY DEF ProcessEnds, Crash, Off
<1>2. Placed' = {} /\ Persisted' = Persisted
  BY <1>1 DEF Placed, Persisted, ToSet
<1>3. PlacesBounded'
  <2>1. Cardinality(slots') = 0
    BY <1>1, FS_EmptySet
  <2>2. Len(queue') = 0
    BY <1>1
  <2>3. QED
    BY <1>2, <2>1, <2>2, Capacities DEF QueueInv, PlacesBounded
<1>4. QueueOrdered' /\ SlotsFirst' /\ FoundOrdered' /\ NumbersFit'
  BY <1>1 DEF QueueInv, QueueOrdered, SlotsFirst, FoundOrdered, NumbersFit
<1>5. ASSUME NEW x \in Run PROVE PlaceOf(x)'
  <2>1. worker'[x] = "none" /\ (x \notin Placed)'
    BY <1>1, <1>2
  <2> HIDE DEF Placed, Persisted
  <2>2. QED
    BY <1>1, <2>1 DEF PlaceOf
<1>6. QED
  BY <1>1, <1>3, <1>4, <1>5 DEF QueueInv

\* The numbers go on from the greatest one on disk.
LEMMA PlacesRestart ==
    ASSUME NEW resume \in ResumeModes, RunsInv, RunsInv', QueueInv, Restart(resume) PROVE QueueInv'
<1>1. RunTypes
  BY TypesAre DEF RunsInv
<1>2. /\ phase' = "recovering" /\ sequence' = LastSequence
      /\ boot' = [todo |-> {r \in Run : state[r] # None}, found |-> <<>>, resume |-> resume]
      /\ boot'.found = <<>> /\ boot'.todo = {r \in Run : state[r] # None}
      /\ UNCHANGED <<admitted, keyOf, state, faults, adm, slots, queue, worker, token>>
  BY DEF Restart, disk, admission, workers, history
<1>3. NumbersFit'
  BY <1>1, <1>2, LastSequenceIs DEF QueueInv, NumbersFit
<1>4. FoundOrdered'
  BY <1>2 DEF FoundOrdered
<1>5. (\A x : x \in Placed <=> (x \in Placed)') /\ Persisted' = Persisted
  BY <1>2 DEF Placed, Persisted
<1>6. QueueOrdered' /\ SlotsFirst' /\ PlacesBounded'
  BY <1>2, <1>5 DEF QueueInv, QueueOrdered, SlotsFirst, PlacesBounded
<1>7. ASSUME NEW x \in Run PROVE PlaceOf(x)'
  <2>1. PlaceOf(x) /\ ((x \in Placed)' <=> x \in Placed) /\ ((x \in Persisted)' <=> x \in Persisted)
    BY <1>5 DEF QueueInv
  <2>2. x \in Persisted => x \in boot'.todo
    BY <1>2, Distinct DEF Persisted, Status
  <2> HIDE DEF Placed, Persisted
  <2>3. QED
    BY <1>2, <2>1, <2>2 DEF PlaceOf
<1>8. QED
  BY <1>2, <1>3, <1>4, <1>6, <1>7 DEF QueueInv

\* The next found run gets its thread; its place was given to it before.
LEMMA PlacesResumeNext == ASSUME RunsInv, RunsInv', QueueInv, ResumeNext PROVE QueueInv'
<1>1. RunTypes /\ ServerTypes
  BY TypesAre DEF RunsInv
<1>2. /\ phase = "resuming" /\ boot.found # <<>> /\ boot.found \in Seq(Run)
      /\ UNCHANGED <<admitted, sequence, keyOf, state, faults, phase, adm, slots, queue, token>>
  BY <1>1 DEF ResumeNext, Spawn, ServerTypes, disk, admission, history
<1>3. PICK r \in Run : r = Head(boot.found) /\ r \in ToSet(boot.found)
  BY <1>2, TailIs
<1>4. worker' = [worker EXCEPT ![r] = "wait"] /\ boot'.found = Tail(boot.found) /\ boot'.todo = boot.todo
  BY <1>1, <1>3 DEF ResumeNext, Spawn, ServerTypes
<1>5. worker'[r] = "wait" /\ \A x \in Run \ {r} : worker'[x] = worker[x]
  BY <1>1, <1>4 DEF RunTypes
<1>6. PICK t : t = Tail(boot.found)
  OBVIOUS
<1>7. /\ ToSet(t) \subseteq ToSet(boot.found) /\ t \in Seq(Run)
      /\ \A i \in DOMAIN t : i + 1 \in DOMAIN boot.found /\ t[i] = boot.found[i + 1]
  BY <1>2, <1>6, TailIs
<1>8. FoundOrdered'
  <2>1. DOMAIN t \subseteq Nat /\ \A i, j \in DOMAIN t : i < j => i + 1 < j + 1
    BY <1>7
  <2>2. \A i, j \in DOMAIN t : i < j => admitted[t[i]] <= admitted[t[j]]
    BY <1>2, <1>7, <2>1 DEF QueueInv, FoundOrdered
  <2>3. QED
    BY <1>2, <1>4, <1>6, <2>2 DEF FoundOrdered
<1>9. (\A x : x \in Placed <=> (x \in Placed)') /\ Persisted' = Persisted
  BY <1>2 DEF Placed, Persisted
<1>10. QueueOrdered' /\ SlotsFirst' /\ PlacesBounded' /\ NumbersFit'
  BY <1>2, <1>9 DEF QueueInv, QueueOrdered, SlotsFirst, PlacesBounded, NumbersFit
<1>11. ASSUME NEW x \in Run PROVE PlaceOf(x)'
  <2>1. PlaceOf(x) /\ ((x \in Placed)' <=> x \in Placed) /\ ((x \in Persisted)' <=> x \in Persisted)
    BY <1>9 DEF QueueInv
  <2>2. x \in ToSet(boot'.found) => x \in ToSet(boot.found)
    BY <1>4, <1>6, <1>7
  <2> HIDE DEF Placed, Persisted
  <2>3. CASE x = r
    BY <1>2, <1>3, <1>5, <2>1, <2>2, <2>3 DEF PlaceOf
  <2>4. CASE x # r
    BY <1>2, <1>5, <2>1, <2>2, <2>4 DEF PlaceOf
  <2>5. QED
    BY <2>3, <2>4
<1>12. QED
  BY <1>2, <1>8, <1>10, <1>11 DEF QueueInv

\* No save fails, and no admission with it.
LEMMA NothingFails ==
    ASSUME RunsInv, QueueInv PROVE ~SpawnFails /\ ~AdmitFail /\ ~ResumeFails
<1>1. ServerTypes
  BY TypesAre DEF RunsInv
<1>2. ~Fault
  BY <1>1, Bounds DEF QueueInv, Fault, ServerTypes
<1>3. ~SpawnFails /\ ~ResumeFails
  BY <1>2 DEF SpawnFails, ResumeFails, Unsaved
<1>4. ASSUME AdmitFail PROVE FALSE
  <2>1. PICK r \in Run : r = adm.run /\ adm # None /\ adm.step = "fail"
    BY <1>1, <1>4 DEF AdmitFail, AdmitStep, ServerTypes
  <2>2. PlaceOf(r)
    BY DEF QueueInv
  <2>3. QED
    BY <2>1, <2>2 DEF PlaceOf
<1>5. QED
  BY <1>3, <1>4

\* A set of places that has all before each of its own is the first ones.
LEMMA PrefixIs ==
    ASSUME NEW n \in Nat, NEW T \in SUBSET (1..n), \A i \in T, j \in 1..n : j < i => j \in T
    PROVE  /\ Cardinality(T) \in Nat
           /\ \A i \in 1..n : i \in T <=> i <= Cardinality(T)
<1>1. IsFiniteSet(1..n) /\ IsFiniteSet(T)
  BY UpToIs, FS_Subset
<1>2. Cardinality(T) \in Nat
  BY <1>1, FS_CardinalityType
<1>3. ASSUME NEW i \in 1..n, i \in T PROVE i <= Cardinality(T)
  <2>1. 1..i \in SUBSET T /\ i \in Nat
    BY <1>3
  <2>2. Cardinality(1..i) <= Cardinality(T)
    BY <1>1, <2>1, FS_Subset
  <2>3. QED
    BY <2>1, <2>2, UpToIs
<1>4. ASSUME NEW i \in 1..n, i \notin T PROVE ~(i <= Cardinality(T))
  <2>1. i - 1 \in Nat /\ i \in Nat
    OBVIOUS
  <2>2. T \in SUBSET (1..(i - 1))
    <3> SUFFICES ASSUME NEW j \in T PROVE j \in 1..(i - 1)
      OBVIOUS
    <3>1. j \in 1..n /\ ~(i < j) /\ i # j
      BY <1>4
    <3>2. QED
      BY <3>1
  <2>3. IsFiniteSet(1..(i - 1)) /\ Cardinality(1..(i - 1)) = i - 1
    BY <2>1, UpToIs
  <2>4. Cardinality(T) <= i - 1
    <3>1. Cardinality(T) <= Cardinality(1..(i - 1))
      BY <2>2, <2>3, FS_Subset
    <3>2. QED
      BY <2>3, <3>1
  <2>5. QED
    BY <1>2, <2>1, <2>4
<1>5. QED
  BY <1>2, <1>3, <1>4

\* The place of a run in what was found keeps it sorted.
LEMMA PlaceIsSorted ==
    ASSUME RunsInv, QueueInv, phase = "recovering", NEW r \in Run
    PROVE  \A i \in DOMAIN boot.found :
              /\ i < Place(r) => admitted[boot.found[i]] <= admitted[r]
              /\ i >= Place(r) => admitted[r] <= admitted[boot.found[i]]
<1> DEFINE prior == {i \in DOMAIN boot.found : ~BySequence(r, boot.found[i])}
<1>1. RunTypes /\ boot.found \in Seq(Run)
  BY TypesAre DEF RunsInv, ServerTypes
<1>2. PICK n \in Nat : n = Len(boot.found) /\ DOMAIN boot.found = 1..n
  BY <1>1
<1>3. \A i \in 1..n : boot.found[i] \in Run /\ admitted[boot.found[i]] \in Nat /\ admitted[r] \in Nat
  BY <1>1, <1>2 DEF RunTypes
<1>4. \A i \in 1..n : i \in prior <=> admitted[boot.found[i]] <= admitted[r]
  BY <1>2, <1>3 DEF BySequence
<1>5. \A i \in prior, j \in 1..n : j < i => j \in prior
  <2> SUFFICES ASSUME NEW i \in prior, NEW j \in 1..n, j < i PROVE admitted[boot.found[j]] <= admitted[r]
    BY <1>4
  <2>1. admitted[boot.found[j]] <= admitted[boot.found[i]] /\ i \in 1..n
    BY <1>2 DEF QueueInv, FoundOrdered
  <2>2. QED
    BY <1>3, <1>4, <2>1
<1>6. prior \in SUBSET (1..n)
  BY <1>2
<1>7. Place(r) = 1 + Cardinality(prior)
  BY DEF Place
<1> HIDE DEF prior
<1>8. Cardinality(prior) \in Nat /\ \A i \in 1..n : i \in prior <=> i <= Cardinality(prior)
  BY <1>5, <1>6, PrefixIs
<1>9. \A i \in 1..n : i < Place(r) <=> i \in prior
  BY <1>7, <1>8
<1>10. \A i \in 1..n : i >= Place(r) => i \notin prior
  BY <1>7, <1>8
<1>11. QED
  BY <1>2, <1>3, <1>4, <1>9, <1>10

\* What is inserted behind all that come before it, and before the others, is in order.
LEMMA InsertKeepsOrder ==
    ASSUME NEW A, NEW s \in Seq(A), NEW e \in A, NEW a \in [A -> Nat], NEW p \in 1..(Len(s) + 1),
           \A i, j \in DOMAIN s : i < j => a[s[i]] <= a[s[j]],
           \A i \in DOMAIN s : (i < p => a[s[i]] <= a[e]) /\ (i >= p => a[e] <= a[s[i]])
    PROVE  \A i, j \in DOMAIN InsertAt(s, p, e) :
              i < j => a[InsertAt(s, p, e)[i]] <= a[InsertAt(s, p, e)[j]]
<1>1. PICK n \in Nat : n = Len(s) /\ DOMAIN s = 1..n
  OBVIOUS
<1> DEFINE t == InsertAt(s, p, e)
<1>3. /\ DOMAIN t = 1..(Len(s) + 1) /\ t[p] = e
      /\ \A i \in 1..(Len(s) + 1) : /\ i < p => t[i] = s[i]
                                    /\ i > p => t[i] = s[i - 1]
  BY InsertAtIs
<1> HIDE DEF t
<1>4. DOMAIN t = 1..(n + 1) /\ p \in 1..(n + 1) /\ t[p] = e
  BY <1>1, <1>3
<1>5. \A i \in 1..(n + 1) : (i < p => t[i] = s[i]) /\ (i > p => t[i] = s[i - 1])
  BY <1>1, <1>3
<1>6. \A i \in 1..n : s[i] \in A /\ a[s[i]] \in Nat /\ a[e] \in Nat
  BY <1>1
<1>7. ASSUME NEW i \in 1..(n + 1), NEW j \in 1..(n + 1), i < j PROVE a[t[i]] <= a[t[j]]
  <2>1. CASE j < p
    <3>1. t[i] = s[i] /\ t[j] = s[j] /\ i \in 1..n /\ j \in 1..n
      BY <1>1, <1>4, <1>5, <1>7, <2>1
    <3>2. QED
      BY <1>1, <1>7, <3>1
  <2>2. CASE j = p
    <3>1. t[i] = s[i] /\ t[j] = e /\ i \in 1..n /\ i < p
      BY <1>1, <1>4, <1>5, <1>7, <2>2
    <3>2. QED
      BY <1>1, <3>1
  <2>3. CASE j > p
    <3>1. t[j] = s[j - 1] /\ j - 1 \in 1..n /\ j - 1 >= p
      BY <1>1, <1>4, <1>5, <2>3
    <3>2. CASE i < p
      <4>1. t[i] = s[i] /\ i \in 1..n /\ i < j - 1
        BY <1>1, <1>4, <1>5, <3>1, <3>2
      <4>2. QED
        BY <1>1, <3>1, <4>1
    <3>3. CASE i = p
      BY <1>1, <1>4, <3>1, <3>3
    <3>4. CASE i > p
      <4>1. t[i] = s[i - 1] /\ i - 1 \in 1..n /\ i - 1 < j - 1
        BY <1>1, <1>4, <1>5, <1>7, <3>4
      <4>2. QED
        BY <1>1, <3>1, <4>1
    <3>5. QED
      BY <1>4, <3>2, <3>3, <3>4
  <2>4. QED
    BY <1>4, <2>1, <2>2, <2>3
<1>8. QED
  BY <1>4, <1>7 DEF t

\* Recovery finds what is persisted, one run after the other, and sorts it.
LEMMA PlacesRecoverRun ==
    ASSUME NEW r \in Run, RunsInv, RunsInv', QueueInv, RecoverRun(r) PROVE QueueInv'
<1>1. RunTypes /\ ServerTypes /\ phase = "recovering" /\ RunFits(r)
  BY TypesAre DEF RunsInv, RecoverRun
<1>2. ~Fault
  BY <1>1, Bounds DEF QueueInv, Fault, ServerTypes
<1>3. /\ boot' = [boot EXCEPT !.todo = @ \ {r},
                        !.found = IF Resumable(r) THEN InsertAt(@, Place(r), r) ELSE @]
      /\ state' = IF Resumable(r) THEN state ELSE [state EXCEPT ![r] = Settled(r)]
      /\ UNCHANGED <<admitted, sequence, keyOf, faults, phase, adm, slots, queue, worker, token>>
  BY <1>2 DEF RecoverRun, Saved, Unsaved, admission, workers
<1>4. /\ boot'.todo = boot.todo \ {r} /\ boot.found \in Seq(Run)
      /\ boot'.found = IF Resumable(r) THEN InsertAt(boot.found, Place(r), r) ELSE boot.found
  BY <1>1, <1>3 DEF ServerTypes
<1>5. /\ \A x \in Run \ {r} : state'[x] = state[x]
      /\ Resumable(r) => state'[r] = state[r]
      /\ ~Resumable(r) => state'[r] # "queued"
  <2>1. Settled(r) # "queued"
    BY <1>1, Distinct DEF Settled, Recovered, RunTypes, Outcome
  <2>2. QED
    BY <1>1, <1>3, <2>1 DEF RunTypes
<1>6. ASSUME Resumable(r) PROVE FoundOrdered' /\ ToSet(boot'.found) = ToSet(boot.found) \cup {r}
  <2>1. boot'.found = InsertAt(boot.found, Place(r), r) /\ Place(r) \in 1..(Len(boot.found) + 1)
    BY <1>4, <1>6, FoundSorted
  <2>2. ToSet(boot'.found) = ToSet(boot.found) \cup {r}
    BY <1>4, <2>1, InsertAtIs
  <2>3. \A i, j \in DOMAIN boot.found : i < j => admitted[boot.found[i]] <= admitted[boot.found[j]]
    BY <1>1 DEF QueueInv, FoundOrdered
  <2>4. \A i \in DOMAIN boot.found : /\ i < Place(r) => admitted[boot.found[i]] <= admitted[r]
                                     /\ i >= Place(r) => admitted[r] <= admitted[boot.found[i]]
    BY <1>1, PlaceIsSorted
  <2>5. admitted \in [Run -> Nat]
    BY <1>1 DEF RunTypes
  <2>6. \A i, j \in DOMAIN boot'.found : i < j => admitted[boot'.found[i]] <= admitted[boot'.found[j]]
    <3>1. PICK g \in Seq(Run) : g = boot.found
      BY <1>4
    <3>2. PICK p \in 1..(Len(g) + 1) : p = Place(r)
      BY <2>1, <3>1
    <3>3. PICK a \in [Run -> Nat] : a = admitted
      BY <2>5
    <3>4. \A i, j \in DOMAIN g : i < j => a[g[i]] <= a[g[j]]
      BY <2>3, <3>1, <3>3
    <3>5. \A i \in DOMAIN g : (i < p => a[g[i]] <= a[r]) /\ (i >= p => a[r] <= a[g[i]])
      <4> SUFFICES ASSUME NEW i \in DOMAIN g
                   PROVE  (i < p => a[g[i]] <= a[r]) /\ (i >= p => a[r] <= a[g[i]])
        OBVIOUS
      <4>1. /\ i < Place(r) => admitted[boot.found[i]] <= admitted[r]
            /\ i >= Place(r) => admitted[r] <= admitted[boot.found[i]]
        BY <2>4, <3>1
      <4>2. QED
        BY <3>1, <3>2, <3>3, <4>1
    <3>6. \A i, j \in DOMAIN InsertAt(g, p, r) :
              i < j => a[InsertAt(g, p, r)[i]] <= a[InsertAt(g, p, r)[j]]
      BY <3>4, <3>5, InsertKeepsOrder, Zenon
    <3>7. QED
      BY <2>1, <3>1, <3>2, <3>3, <3>6
  <2>7. FoundOrdered'
    BY <1>3, <2>6 DEF FoundOrdered
  <2>8. QED
    BY <2>2, <2>7
<1>7. ASSUME ~Resumable(r) PROVE FoundOrdered' /\ ToSet(boot'.found) = ToSet(boot.found)
  BY <1>3, <1>4, <1>7 DEF QueueInv, FoundOrdered
<1>8. Placed' = Placed
  BY <1>3 DEF Placed
<1>9. \A x \in Run : x \in Persisted' <=> x \in Persisted /\ (x = r => Resumable(r))
  BY <1>3, <1>5 DEF Persisted, Resumable
<1>10. PlacesBounded'
  <2>1. IsFiniteSet(Persisted) /\ Cardinality(Persisted) \in Nat /\ Persisted' \in SUBSET Persisted
    <3>1. Persisted' \subseteq Run
      BY DEF Persisted
    <3>2. QED
      BY <1>1, <1>9, <3>1, FiniteSets
  <2>2. Cardinality(Persisted') <= Cardinality(Persisted) /\ Cardinality(Persisted') \in Nat
    BY <2>1, FS_Subset, FS_CardinalityType
  <2>3. QED
    BY <1>3, <2>1, <2>2, Capacities DEF QueueInv, PlacesBounded
<1>11. ASSUME NEW x \in Run PROVE PlaceOf(x)'
  <2>1. PlaceOf(x) /\ ((x \in Placed)' <=> x \in Placed)
    BY <1>8 DEF QueueInv
  <2>2. (x \in Persisted)' => x \in Persisted /\ (x = r => Resumable(r))
    BY <1>9
  <2>3. x # r => (x \in boot.todo => x \in boot'.todo) /\ (x \in ToSet(boot.found) => x \in ToSet(boot'.found))
    BY <1>4, <1>6, <1>7
  <2>4. x = r /\ Resumable(r) => x \in ToSet(boot'.found)
    BY <1>6
  <2>5. state'[x] # "queued" \/ state'[x] = state[x]
    BY <1>5
  <2> HIDE DEF Placed, Persisted
  <2>6. QED
    BY <1>1, <1>3, <2>1, <2>2, <2>3, <2>4, <2>5 DEF PlaceOf
<1>12. QueueOrdered' /\ SlotsFirst' /\ NumbersFit' /\ faults' = MaxFaults /\ phase' # "refused"
  BY <1>3 DEF QueueInv, QueueOrdered, SlotsFirst, NumbersFit
<1>13. QED
  BY <1>6, <1>7, <1>10, <1>11, <1>12 DEF QueueInv

\* What was found is what is persisted: it fits, and no two numbers are the same.
LEMMA FoundFits ==
    ASSUME RunsInv, QueueInv, phase = "recovering"
    PROVE  /\ Len(boot.found) <= MaxRunning + MaxQueued /\ ~Ambiguous
           /\ \A i, j \in DOMAIN boot.found :
                 i < j => admitted[boot.found[i]] < admitted[boot.found[j]]
<1>1. RunTypes /\ boot.found \in Seq(Run) /\ IsInjective(boot.found) /\ IsFiniteSet(Run)
  BY TypesAre, RunAssumption DEF RunsInv, ServerTypes, ServerFits
<1>2. PICK n \in Nat : n = Len(boot.found) /\ DOMAIN boot.found = 1..n
  BY <1>1
<1>3. \A x \in ToSet(boot.found) : x \in Run /\ state[x] = "queued" /\ admitted[x] # 0 /\ admitted[x] \in Nat
  <2>1. \A x \in ToSet(boot.found) : x \in Run
    BY <1>1 DEF ToSet
  <2>2. QED
    BY <1>1, <2>1 DEF RunsInv, RunFits, FoundOf, RunTypes
<1>4. Len(boot.found) <= MaxRunning + MaxQueued
  <2>1. IsFiniteSet(Persisted) /\ Cardinality(Persisted) \in Nat
    BY <1>1, FiniteSets
  <2>2. ToSet(boot.found) \in SUBSET Persisted
    BY <1>3 DEF Persisted
  <2>3. Cardinality(ToSet(boot.found)) <= Cardinality(Persisted)
    BY <2>1, <2>2, FS_Subset
  <2>4. IsFiniteSet(slots)
    BY <1>1, FiniteSets
  <2>5. Cardinality(ToSet(boot.found)) = Len(boot.found)
    BY <1>1, <2>4, PlacedIsBounded
  <2>6. QED
    BY <1>2, <2>1, <2>3, <2>5, Capacities DEF QueueInv, PlacesBounded
<1>5. \A i \in 1..n : boot.found[i] \in Run /\ admitted[boot.found[i]] # 0 /\ admitted[boot.found[i]] \in Nat
  BY <1>2, <1>3 DEF ToSet
<1>6. \A i, j \in 1..n : admitted[boot.found[i]] = admitted[boot.found[j]] => i = j
  <2>1. \A i, j \in 1..n : boot.found[i] = boot.found[j] => i = j
    BY <1>1, <1>2 DEF IsInjective
  <2>2. QED
    BY <1>5, <2>1 DEF QueueInv, NumbersFit
<1>7. ASSUME NEW i \in 1..n, NEW j \in 1..n, i < j PROVE admitted[boot.found[i]] < admitted[boot.found[j]]
  <2>1. admitted[boot.found[i]] <= admitted[boot.found[j]]
    BY <1>2, <1>7 DEF QueueInv, FoundOrdered
  <2>2. i # j
    BY <1>7
  <2>3. admitted[boot.found[i]] # admitted[boot.found[j]]
    BY <1>6, <2>2
  <2>4. QED
    BY <1>5, <2>1, <2>3
<1>8. ~Ambiguous
  <2> SUFFICES ASSUME NEW i \in 2..n, admitted[boot.found[i]] = admitted[boot.found[i - 1]] PROVE FALSE
    BY <1>2 DEF Ambiguous
  <2>1. i \in 1..n /\ i - 1 \in 1..n /\ i # i - 1
    OBVIOUS
  <2>2. QED
    BY <1>6, <2>1
<1>9. QED
  BY <1>2, <1>4, <1>7, <1>8

\* Recovery is never refused: it gives what it found the places it had.
LEMMA PlacesRecover == ASSUME RunsInv, RunsInv', QueueInv, Recover PROVE QueueInv'
<1>1. RunTypes /\ ServerTypes /\ ServerFits /\ phase = "recovering" /\ boot.todo = {}
  BY TypesAre DEF RunsInv, Recover
<1>2. PICK f \in Seq(Run) : f = boot.found
  BY <1>1 DEF ServerTypes
<1>3. PICK l \in Nat : l = Len(f) /\ DOMAIN f = 1..l
  BY <1>2
<1>4. /\ l <= MaxRunning + MaxQueued /\ ~Ambiguous
      /\ \A i, j \in 1..l : i < j => admitted[f[i]] < admitted[f[j]]
  BY <1>1, <1>2, <1>3, FoundFits
<1>5. PICK n \in Nat : n = IF l < MaxRunning THEN l ELSE MaxRunning
  BY Capacities
<1>6. n <= l /\ n <= MaxRunning /\ l - n <= MaxQueued /\ l - n \in Nat
  BY <1>4, <1>5, Capacities
<1>7. /\ phase' = "resuming" /\ slots' = {f[i] : i \in 1..n} /\ queue' = SubSeq(f, n + 1, l)
      /\ UNCHANGED <<admitted, keyOf, boot, sequence, adm, token, worker, state, faults>>
  <2>1. ~(Ambiguous \/ Len(boot.found) > MaxRunning + MaxQueued)
    BY <1>2, <1>3, <1>4, Capacities
  <2>2. QED
    BY <1>2, <1>3, <1>5, <2>1 DEF Recover, workers
<1>8. PICK q \in Seq(Run) : /\ q = queue' /\ Len(q) = l - n /\ DOMAIN q = 1..(l - n)
                            /\ \A i \in 1..(l - n) : q[i] = f[n + i] /\ n + i \in n + 1..l
  <2>1. n + 1 \in Int /\ l \in Int /\ \A i \in n + 1..l : f[i] \in Run
    BY <1>3
  <2>2. /\ queue' \in Seq(Run) /\ Len(queue') = IF n + 1 <= l THEN l - (n + 1) + 1 ELSE 0
        /\ \A i \in 1..(l - (n + 1) + 1) : queue'[i] = f[n + 1 + i - 1]
    BY <1>7, <2>1, SubSeqProperties
  <2>3. Len(queue') = l - n
    BY <1>6, <2>2
  <2>4. \A i \in 1..(l - n) : n + 1 + i - 1 = n + i /\ n + i \in n + 1..l /\ i \in 1..(l - (n + 1) + 1)
    BY <1>6
  <2>5. QED
    BY <2>2, <2>3, <2>4
<1>9. \A i \in 1..n : i \in DOMAIN f
  BY <1>3, <1>6
<1>10. ToSet(f) = Placed'
  <2>1. ASSUME NEW i \in 1..l PROVE f[i] \in slots' \cup ToSet(q)
    <3>1. CASE i <= n
      BY <1>7, <3>1
    <3>2. CASE ~(i <= n)
      <4>1. i - n \in 1..(l - n) /\ n + (i - n) = i
        BY <1>6, <3>2
      <4>2. q[i - n] = f[i]
        BY <1>8, <4>1
      <4>3. QED
        BY <1>8, <4>1, <4>2 DEF ToSet
    <3>3. QED
      BY <3>1, <3>2
  <2>2. ToSet(f) \subseteq slots' \cup ToSet(q)
    BY <1>3, <2>1 DEF ToSet
  <2>3. slots' \subseteq ToSet(f)
    BY <1>3, <1>7, <1>9 DEF ToSet
  <2>4. n + 1..l \subseteq 1..l
    BY <1>6
  <2>5. ToSet(q) \subseteq ToSet(f)
    <3>1. ASSUME NEW i \in 1..(l - n) PROVE q[i] \in ToSet(f)
      <4>1. q[i] = f[n + i] /\ n + i \in 1..l
        BY <1>8, <2>4
      <4>2. QED
        BY <1>3, <4>1 DEF ToSet
    <3>2. QED
      BY <1>8, <3>1 DEF ToSet
  <2>6. QED
    BY <1>8, <2>2, <2>3, <2>5 DEF Placed
<1>11. \A i \in 1..l : f[i] \in ToSet(f) /\ admitted[f[i]] # 0
  <2>1. \A i \in 1..l : f[i] \in ToSet(f) /\ f[i] \in Run
    BY <1>3 DEF ToSet
  <2>2. QED
    BY <1>1, <1>2, <2>1 DEF RunsInv, RunFits, FoundOf
<1>12. QueueOrdered'
  <2> SUFFICES ASSUME NEW i \in DOMAIN q, NEW j \in DOMAIN q, i < j
               PROVE  admitted[q[i]] # 0 /\ admitted[q[i]] < admitted[q[j]]
    BY <1>7, <1>8 DEF QueueOrdered
  <2>1. q[i] = f[n + i] /\ q[j] = f[n + j] /\ i \in 1..(l - n) /\ j \in 1..(l - n)
    BY <1>8
  <2>2. n + i \in 1..l /\ n + j \in 1..l /\ n + i < n + j
    <3>1. l \in Nat /\ n \in Nat /\ n <= l
      BY <1>3, <1>5, <1>6
    <3>2. i \in 1..(l - n) /\ j \in 1..(l - n)
      BY <2>1
    <3>3. QED
      BY <3>1, <3>2
  <2>3. QED
    BY <1>4, <1>11, <2>1, <2>2
<1>13. SlotsFirst'
  <2> SUFFICES ASSUME NEW i \in 1..n, NEW j \in DOMAIN q
               PROVE  admitted[f[i]] # 0 /\ admitted[f[i]] < admitted[q[j]]
    BY <1>7, <1>8 DEF SlotsFirst, ToSet
  <2>1. q[j] = f[n + j] /\ j \in 1..(l - n)
    BY <1>8
  <2>2. i \in 1..l /\ n + j \in 1..l /\ i < n + j
    <3>1. l \in Nat /\ n \in Nat /\ n <= l
      BY <1>3, <1>5, <1>6
    <3>2. i \in 1..n /\ j \in 1..(l - n)
      BY <2>1
    <3>3. QED
      BY <3>1, <3>2
  <2>3. QED
    BY <1>4, <1>11, <2>1, <2>2
<1>14. Persisted' = Persisted
  BY <1>7 DEF Persisted
<1>15. PlacesBounded'
  <2> DEFINE g == [i \in 1..n |-> f[i]]
  <2>1. g \in Surjection(1..n, slots')
    BY <1>7 DEF Surjection
  <2>2. Cardinality(slots') <= n
    BY <2>1, UpToIs, FS_Surjection
  <2>3. Cardinality(slots') \in Nat
    BY <2>1, UpToIs, FS_Surjection, FS_CardinalityType
  <2>4. QED
    BY <1>6, <1>8, <1>14, <2>2, <2>3, Capacities DEF QueueInv, PlacesBounded
<1>16. FoundOrdered' /\ NumbersFit'
  BY <1>1, <1>7 DEF QueueInv, FoundOrdered, NumbersFit
<1>17. ASSUME NEW x \in Run PROVE PlaceOf(x)'
  <2>1. /\ PlaceOf(x) /\ worker[x] = "none" /\ adm = None /\ (x \in ToSet(f) => admitted[x] # 0)
        /\ keyOf[x] = "fresh" => admitted[x] = 0
    BY <1>1, <1>2 DEF QueueInv, RunsInv, RunFits, ThreadOf, ServerFits, FoundOf, DiskOf
  <2>2. (x \in Placed)' <=> x \in ToSet(f)
    BY <1>10
  <2>3. (x \in Persisted)' <=> x \in Persisted
    BY <1>14
  <2> HIDE DEF Placed, Persisted
  <2>4. QED
    BY <1>1, <1>2, <1>7, <2>1, <2>2, <2>3 DEF PlaceOf
<1>18. QED
  BY <1>7, <1>12, <1>13, <1>15, <1>16, <1>17 DEF QueueInv

LEMMA QueueInvInit == FirstStart /\ faults = MaxFaults => QueueInv
<1> SUFFICES ASSUME FirstStart, faults = MaxFaults PROVE QueueInv
  OBVIOUS
<1>1. /\ phase = "up" /\ boot.found = <<>> /\ adm = None /\ slots = {} /\ queue = <<>> /\ sequence = 0
      /\ worker = [r \in Run |-> "none"] /\ state = [r \in Run |-> None]
      /\ admitted = [r \in Run |-> 0]
  BY DEF FirstStart
<1>2. Placed = {} /\ Persisted = {}
  BY <1>1 DEF Placed, Persisted, ToSet
<1>3. PlacesBounded
  <2>1. Cardinality(slots) = 0 /\ Cardinality(Persisted) = 0 /\ Len(queue) = 0
    BY <1>1, <1>2, FS_EmptySet
  <2>2. QED
    BY <2>1, Capacities DEF PlacesBounded
<1>4. QueueOrdered /\ SlotsFirst /\ FoundOrdered /\ NumbersFit
  BY <1>1 DEF QueueOrdered, SlotsFirst, FoundOrdered, NumbersFit
<1>5. ASSUME NEW x \in Run PROVE PlaceOf(x)
  <2>1. x \notin Placed /\ x \notin Persisted /\ worker[x] = "none"
    BY <1>1, <1>2
  <2> HIDE DEF Placed, Persisted
  <2>2. QED
    BY <1>1, <2>1 DEF PlaceOf
<1>6. QED
  BY <1>1, <1>3, <1>4, <1>5 DEF QueueInv

LEMMA QueueInvNext == RunsInv /\ QueueInv /\ [Next]_vars => QueueInv'
<1> SUFFICES ASSUME RunsInv, QueueInv, [Next]_vars PROVE QueueInv'
  OBVIOUS
<1>0. RunsInv'
  BY RunsInvNext
<1>1. ASSUME NEW r \in Run, NEW k \in Key \cup {None}, Submit(r, k) PROVE QueueInv'
  BY <1>0, <1>1, PlacesSubmit
<1>2. ASSUME NEW r \in Run, Work(r) \/ CancelRun(r) PROVE QueueInv'
  BY <1>0, <1>2, PlacesWait, PlacesLeftAlone, PlacesExit DEF Work
<1>3. CASE Admission
  BY <1>0, <1>3, PlacesAdmit, PlacesAdmitRecord, NothingFails DEF Admission
<1>4. CASE Cancelling
  BY <1>0, <1>4, PlacesLeftAlone, PlacesCancelSave, PlacesLost DEF Cancelling
<1>5. CASE Shutdown \/ Crash
  BY <1>0, <1>5, PlacesLeftAlone, PlacesLost
<1>6. CASE Booting
  BY <1>0, <1>6, PlacesRecover, PlacesResumeNext, NothingFails, PlacesLeftAlone, PlacesRecoverRun DEF Booting
<1>7. ASSUME NEW resume \in ResumeModes, Restart(resume) PROVE QueueInv'
  BY <1>0, <1>7, PlacesRestart
<1>8. CASE UNCHANGED vars
  <2>1. UNCHANGED <<state, admitted, phase, boot, sequence, adm, slots, queue, token, worker, keyOf, faults>>
    BY <1>8 DEF vars, disk, server, admission, workers, history
  <2>2. Placed' = Placed /\ Persisted' = Persisted
    BY <2>1 DEF Placed, Persisted
  <2>3. NumbersFit' /\ QueueOrdered' /\ SlotsFirst' /\ FoundOrdered' /\ PlacesBounded'
    BY <2>1, <2>2 DEF QueueInv, NumbersFit, QueueOrdered, SlotsFirst, FoundOrdered, PlacesBounded
  <2>4. ASSUME NEW x \in Run PROVE PlaceOf(x)'
    <3>1. PlaceOf(x) /\ ((x \in Placed)' <=> x \in Placed) /\ ((x \in Persisted)' <=> x \in Persisted)
      BY <2>2 DEF QueueInv
    <3> HIDE DEF Placed, Persisted
    <3>2. QED
      BY <2>1, <3>1 DEF PlaceOf
  <2>5. QED
    BY <2>1, <2>3, <2>4 DEF QueueInv
<1>9. QED
  BY <1>1, <1>2, <1>3, <1>4, <1>5, <1>6, <1>7, <1>8 DEF Next

LEMMA QueueInvServes == RunsInv /\ QueueInv => FirstComeFirstServed /\ Bounded /\ NeverRefused
<1> SUFFICES ASSUME RunsInv, QueueInv PROVE FirstComeFirstServed /\ Bounded /\ NeverRefused
  OBVIOUS
<1>1. RunTypes
  BY TypesAre DEF RunsInv
<1>2. ASSUME NEW r \in slots, NEW q \in Run \ slots,
             worker[q] = "wait", 0 < admitted[q], admitted[q] < admitted[r], ~token[q]
      PROVE  FALSE
  <2>1. q \in ToSet(queue)
    BY <1>2 DEF QueueInv, PlaceOf, Placed
  <2>2. admitted[q] \in Nat /\ admitted[r] \in Nat
    BY <1>1 DEF RunTypes
  <2>3. admitted[q] # 0 /\ ~(admitted[r] < admitted[q])
    BY <1>2, <2>2
  <2>4. QED
    BY <2>1, <2>3 DEF QueueInv, SlotsFirst
<1>3. FirstComeFirstServed
  BY <1>2 DEF FirstComeFirstServed
<1>4. Bounded /\ NeverRefused
  BY DEF QueueInv, PlacesBounded, PlaceOf, Bounded, NeverRefused
<1>5. QED
  BY <1>3, <1>4

\* While no save fails: a run gets its slot before those admitted after it, no
\* more than max_runs execute, and the queue that is on disk always fits again,
\* in one order, when the server restarts. For any number of runs, slots and
\* places in the queue, and any kills, shutdowns and cancellations.
THEOREM QueueIsServed ==
    FirstStart /\ faults = MaxFaults /\ [][Next]_vars
       => [](FirstComeFirstServed /\ Bounded /\ NeverRefused)
<1>1. FirstStart /\ faults = MaxFaults => RunsInv /\ QueueInv
  BY RunsInvInit, QueueInvInit, Bounds
<1>2. RunsInv /\ QueueInv /\ [Next]_vars => (RunsInv /\ QueueInv)'
  BY RunsInvNext, QueueInvNext
<1>3. QED
  BY <1>1, <1>2, QueueInvServes, PTL

\* The same of the part "queue" that a run explores, in the words of its invariant.
THEOREM QueueStaysFair == PartsSpec => []QueueIsFair
<1> DEFINE Holds == part = "queue" => RunsInv /\ QueueInv
           All == <<part, vars, pageVars, productVars, jVars>>
<1>1. PartsInit => Holds
  BY RunsInvInit, QueueInvInit, Bounds DEF PartsInit, QueueInit
<1>2. Holds /\ [PartsNext]_All => Holds'
  <2> SUFFICES ASSUME Holds, [PartsNext]_All, part' = "queue" PROVE RunsInv' /\ QueueInv'
    OBVIOUS
  <2>1. part = "queue" /\ [Next]_vars
    BY DEF PartsNext, QueueNext
  <2>2. QED
    BY <2>1, RunsInvNext, QueueInvNext
<1>3. Holds => QueueIsFair
  BY QueueInvServes DEF QueueIsFair
<1>4. QED
  BY <1>1, <1>2, <1>3, PTL DEF PartsSpec

-----------------------------------------------------------------------------
(* RunProducts: the inductive invariant. *)

Stored == [1..Pieces -> Nat]
Buffer == {s \in Seq(Nat) : Len(s) <= Pieces}

ProductTypes ==
    /\ source \in Stored /\ writing \in Nat /\ moments \subseteq Stored
    /\ before \in Buffer /\ copied \in Buffer /\ after \in Buffer /\ synced \subseteq Parts
    /\ received \in Seq(Nat)
    /\ product \in {"idle", "output", "before", "copy", "after", "verify", "entry", "rename",
                    "name", "ok", "error"}

\* Writes only increase what a piece holds: between what the first snapshot has
\* read and what the second has read lies what the file was at one moment.
Bracketed ==
    \E m \in moments :
        /\ \A i \in 1..Pieces : before[i] <= m[i] /\ m[i] <= source[i]
        /\ \A i \in 1..Len(after) : m[i] <= after[i]

Reading ==
    /\ product \in {"idle", "output", "before"} => copied = Nothing /\ after = Nothing
    /\ product \in {"idle", "output"} => before = Nothing
    /\ product = "before" => Len(before) < Pieces /\ \A i \in 1..Len(before) : before[i] <= source[i]
    /\ product \in {"copy", "after", "verify"} => Len(before) = Pieces /\ Bracketed
    /\ product = "copy" => after = Nothing /\ Len(copied) < Pieces
    /\ product = "after" => Len(after) < Pieces
    /\ product = "verify" => Len(after) = Pieces

\* What the file is once it is there.
OfOneMoment == copied = before /\ copied \in moments
Storing ==
    /\ Working => source \in moments
    /\ product \in {"entry", "rename", "name", "ok"} => OfOneMoment
    /\ product \in {"entry", "rename", "name"} => "data" \in synced
    /\ product \in {"rename", "name"} => "entry" \in synced
    /\ product = "ok" => synced = Parts /\ stored = copied
    /\ product = "name" /\ ~lost => stored = copied
    /\ ~lost /\ stored # Nothing => product \in {"name", "ok", "error"}
    /\ stored # Nothing => (lost /\ stored = Torn) \/ (stored = copied /\ OfOneMoment)

\* Products are advertised by a task that succeeded, and by no other.
Telling ==
    /\ advertised # Nothing => product = "ok" /\ outcome = "succeeded" /\ ~stopAsked /\ advertised = before
    /\ outcome = "running" => product # "idle"
    /\ outcome = "succeeded" => product = "idle" \/ (product = "ok" /\ advertised = before)
    /\ bound = "started" => product = "ok" /\ outcome = "succeeded"
    /\ product = "idle" => stored = Nothing
    /\ received # Nothing => advertised # Nothing
    /\ IsPrefix(received, advertised)

ProductsInv == ProductTypes /\ Reading /\ Storing /\ Telling

-----------------------------------------------------------------------------
(* Steps of a publication. *)

LEMMA BeginningIs ==
    ASSUME NEW S, NEW a \in Seq(S), NEW n \in 0..Len(a)
    PROVE  /\ SubSeq(a, 1, n) \in Seq(S) /\ Len(SubSeq(a, 1, n)) = n
           /\ \A i \in 1..n : SubSeq(a, 1, n)[i] = a[i]
           /\ IsPrefix(SubSeq(a, 1, n), a)
<1>1. /\ 1 \in Int /\ n \in Int /\ n \in Nat /\ n <= Len(a) /\ n - 1 + 1 = n
      /\ \A i \in 1..n : a[i] \in S /\ 1 + i - 1 = i
  <2>1. Len(a) \in Nat
    OBVIOUS
  <2>2. \A i \in 1..Len(a) : a[i] \in S
    OBVIOUS
  <2>3. QED
    BY <2>1, <2>2
<1>2. /\ SubSeq(a, 1, n) \in Seq(S)
      /\ Len(SubSeq(a, 1, n)) = IF 1 <= n THEN n - 1 + 1 ELSE 0
      /\ \A i \in 1..n - 1 + 1 : SubSeq(a, 1, n)[i] = a[1 + i - 1]
  BY <1>1, SubSeqProperties
<1>3. Len(SubSeq(a, 1, n)) = n /\ \A i \in 1..n : SubSeq(a, 1, n)[i] = a[i]
  BY <1>1, <1>2
<1>4. IsPrefix(SubSeq(a, 1, n), a)
  <2>1. SubSeq(SubSeq(a, 1, n), 1, Len(SubSeq(a, 1, n))) = SubSeq(a, 1, n)
    BY <1>2, SubSeqFull, Zenon
  <2>2. SubSeq(SubSeq(a, 1, n), 1, n) = SubSeq(a, 1, n)
    BY <1>3, <2>1, Zenon
  <2>3. QED
    BY <1>1, <1>3, <2>1 DEF IsPrefix
<1>5. QED
  BY <1>2, <1>3, <1>4, Zenon

LEMMA NewestIs ==
    ASSUME source \in Stored
    PROVE  Newest \in Nat /\ \A i \in 1..Pieces : source[i] <= Newest
<1> DEFINE S == ToSet(source)
<1>1. Pieces \in Nat \ {0}
  BY ProductsAssumption
<1>2. S = {source[i] : i \in 1..Pieces}
  BY DEF ToSet, Stored
<1>3. IsFiniteSet(1..Pieces)
  BY <1>1, UpToIs
<1>4. IsFiniteSet(S)
  <2>1. source \in Surjection(1..Pieces, S)
    BY <1>2 DEF Surjection, Stored
  <2>2. QED
    BY <1>3, <2>1, FS_Surjection
<1>5. S \subseteq Nat /\ S # {}
  <2>1. 1 \in 1..Pieces
    BY <1>1
  <2>2. QED
    BY <1>2, <2>1 DEF Stored
<1>6. MaxOf(S) = Newest
  BY DEF MaxOf, Newest
<1>7. QED
  BY <1>2, <1>4, <1>5, <1>6, MaxOfIs

LEMMA MomentFacts ==
    ASSUME ProductsInv
    PROVE  /\ Nothing = <<>> /\ Len(Nothing) = 0 /\ Pieces \in Nat \ {0}
           /\ \A m \in moments : m # Nothing /\ m \in Seq(Nat) /\ Len(m) = Pieces
<1>1. Pieces \in Nat \ {0}
  BY ProductsAssumption
<1>2. \A m \in Stored : m \in Seq(Nat) /\ Len(m) = Pieces
  BY <1>1 DEF Stored
<1>3. Len(Nothing) = 0
  BY DEF Nothing
<1>4. QED
  BY <1>1, <1>2, <1>3 DEF ProductsInv, ProductTypes, Nothing

\* Nothing is advertised before the publication has ended well.
LEMMA NotYet ==
    ASSUME ProductsInv, product # "ok"
    PROVE  advertised = Nothing /\ received = Nothing /\ bound # "started"
           /\ (outcome = "succeeded" => product = "idle")
  BY DEF ProductsInv, Telling

LEMMA WriteKeepsProducts == ASSUME ProductsInv, WriteSource PROVE ProductsInv'
<1>1. /\ UNCHANGED <<product, before, copied, after, synced, stored, outcome, stopAsked, bound, report,
                     advertised, lost, received>>
      /\ moments' = IF Working THEN moments \cup {source'} ELSE moments
  BY DEF WriteSource
<1>2. PICK i \in Nat, v \in Nat : /\ source' = [source EXCEPT ![i] = v] /\ writing' = i
                                  /\ \A k \in 1..Pieces : source[k] <= v
  <2>1. Newest \in Nat /\ Newest + 1 \in Nat /\ \A k \in 1..Pieces : source[k] <= Newest /\ source[k] \in Nat
    BY NewestIs DEF ProductsInv, ProductTypes, Stored
  <2>2. \A k \in 1..Pieces : source[k] <= Newest + 1
    BY <2>1
  <2>3. writing + 1 \in Nat /\ 1 \in Nat
    BY DEF ProductsInv, ProductTypes
  <2>4. QED
    BY <2>1, <2>2, <2>3 DEF WriteSource
<1>3. source \in Stored /\ moments \subseteq Stored
  BY DEF ProductsInv, ProductTypes
<1>4. source' \in Stored /\ \A k \in 1..Pieces : source[k] <= source'[k]
  <2>1. \A k \in 1..Pieces : source[k] \in Nat /\ source[k] <= source[k]
    BY <1>3 DEF Stored
  <2>2. source' \in Stored
    BY <1>2, <1>3 DEF Stored
  <2>3. \A k \in 1..Pieces : source'[k] = source[k] \/ source'[k] = v
    BY <1>2, <1>3 DEF Stored
  <2>4. QED
    BY <1>2, <2>1, <2>2, <2>3
<1>5. moments \subseteq moments' /\ moments' \subseteq Stored
  BY <1>1, <1>3, <1>4
<1>6. ProductTypes'
  BY <1>1, <1>2, <1>4, <1>5 DEF ProductsInv, ProductTypes
<1>7. Bracketed => Bracketed'
  <2> SUFFICES ASSUME Bracketed PROVE Bracketed'
    OBVIOUS
  <2>1. PICK m \in moments : /\ \A k \in 1..Pieces : before[k] <= m[k] /\ m[k] <= source[k]
                             /\ \A k \in 1..Len(after) : m[k] <= after[k]
    BY DEF Bracketed
  <2>2. \A k \in 1..Pieces : m[k] <= source'[k]
    <3>1. \A k \in 1..Pieces : m[k] \in Nat /\ source[k] \in Nat /\ source'[k] \in Nat
      BY <1>3, <1>4 DEF Stored
    <3>2. QED
      BY <1>4, <2>1, <3>1
  <2>3. QED
    BY <1>1, <1>5, <2>1, <2>2 DEF Bracketed
<1>8. \A k \in 1..Len(before) : before[k] <= source[k] => before[k] <= source'[k]
  <2> SUFFICES ASSUME NEW k \in 1..Len(before), before[k] <= source[k] PROVE before[k] <= source'[k]
    OBVIOUS
  <2>1. k \in 1..Pieces /\ before[k] \in Nat
    BY ProductsAssumption DEF ProductsInv, ProductTypes, Buffer
  <2>2. source[k] \in Nat /\ source'[k] \in Nat
    BY <1>3, <1>4, <2>1 DEF Stored
  <2>3. QED
    BY <1>4, <2>1, <2>2
<1>9. Reading'
  BY <1>1, <1>7, <1>8 DEF ProductsInv, Reading
<1>10. Storing' /\ Telling'
  BY <1>1, <1>5 DEF ProductsInv, Storing, Telling, OfOneMoment, Working, Torn
<1>11. QED
  BY <1>6, <1>9, <1>10 DEF ProductsInv

\* A buffer that has read one piece more.
LEMMA TookOne ==
    ASSUME ProductsInv, NEW s \in Buffer, Len(s) < Pieces
    PROVE  /\ Took(s) \in Buffer /\ Len(Took(s)) = Len(s) + 1
           /\ Took(s)[Len(s) + 1] = source[Len(s) + 1] /\ source[Len(s) + 1] \in Nat
           /\ \A i \in 1..Len(s) : Took(s)[i] = s[i]
<1>1. Pieces \in Nat /\ s \in Seq(Nat) /\ Len(s) \in Nat /\ source \in [1..Pieces -> Nat]
  BY ProductsAssumption DEF Buffer, ProductsInv, ProductTypes, Stored
<1>2. Len(s) + 1 \in 1..Pieces
  BY <1>1
<1>3. source[Len(s) + 1] \in Nat
  BY <1>1, <1>2
<1> DEFINE v == source[Len(s) + 1]
<1>4. Took(s) = Append(s, v)
  BY DEF Took
<1> HIDE DEF v
<1>5. Append(s, v) \in Seq(Nat) /\ Len(Append(s, v)) = Len(s) + 1 /\ Append(s, v)[Len(s) + 1] = v
      /\ \A i \in 1..Len(s) : Append(s, v)[i] = s[i]
  BY <1>1, <1>3 DEF v
<1>6. QED
  BY <1>1, <1>2, <1>3, <1>4, <1>5 DEF Buffer, v

\* A step of the worker that stores nothing and has not finished.
LEMMA ReadingSteps ==
    ASSUME ProductsInv, Outside, UNCHANGED <<moments, synced, stored>>, ~lost,
           before' \in Buffer, copied' \in Buffer, after' \in Buffer,
           product \in {"output", "before", "copy", "after"},
           product' \in {"before", "copy", "after", "verify"}, Reading'
    PROVE  ProductsInv'
<1>1. UNCHANGED <<source, writing, outcome, stopAsked, bound, report, advertised, lost, received>>
  BY DEF Outside
<1>2. ProductTypes'
  BY <1>1 DEF ProductsInv, ProductTypes
<1>3. stored = Nothing /\ source \in moments /\ advertised = Nothing /\ received = Nothing
      /\ bound # "started" /\ outcome # "succeeded"
  BY NotYet DEF ProductsInv, Storing, Working
<1>4. Storing'
  BY <1>1, <1>3 DEF Storing
<1>5. Telling'
  BY <1>1, <1>3 DEF Telling, ProductsInv
<1>6. QED
  BY <1>2, <1>4, <1>5 DEF ProductsInv

LEMMA BeforeKeeps == ASSUME ProductsInv, SnapshotBefore PROVE ProductsInv'
<1>1. /\ product = "before" /\ ~lost /\ before' = Took(before)
      /\ product' = IF Len(before') = Pieces THEN "copy" ELSE "before"
      /\ UNCHANGED <<moments, copied, after, synced, stored>> /\ Outside /\ source' = source
  BY DEF SnapshotBefore, Goes, Outside
<1>2. /\ before \in Buffer /\ Len(before) < Pieces /\ copied = Nothing /\ after = Nothing
      /\ copied \in Buffer /\ after \in Buffer /\ source \in moments
      /\ \A i \in 1..Len(before) : before[i] <= source[i]
  BY <1>1 DEF ProductsInv, ProductTypes, Reading, Storing, Working
<1>3. Pieces \in Nat \ {0} /\ Len(before) \in Nat /\ Len(Nothing) = 0
  BY <1>2, MomentFacts DEF Buffer
<1>4. before' \in Buffer /\ Len(before') = Len(before) + 1
  BY <1>1, <1>2, TookOne
<1>5. \A i \in 1..Len(before') : before'[i] <= source[i]
  <2> SUFFICES ASSUME NEW i \in 1..Len(before') PROVE before'[i] <= source[i]
    OBVIOUS
  <2>1. CASE i = Len(before) + 1
    BY <1>1, <1>2, <2>1, TookOne
  <2>2. CASE i # Len(before) + 1
    <3>1. i \in 1..Len(before)
      BY <1>3, <1>4, <2>2
    <3>2. QED
      BY <1>1, <1>2, <3>1, TookOne
  <2>3. QED
    BY <2>1, <2>2
<1>6. CASE Len(before') = Pieces
  <2>1. \A i \in 1..Pieces : source[i] <= source[i]
    BY DEF ProductsInv, ProductTypes, Stored
  <2>2. Bracketed'
    BY <1>1, <1>2, <1>3, <1>5, <1>6, <2>1 DEF Bracketed
  <2>3. Reading'
    BY <1>1, <1>2, <1>3, <1>6, <2>2 DEF Reading
  <2>4. QED
    BY <1>1, <1>2, <1>4, <1>6, <2>3, ReadingSteps
<1>7. CASE Len(before') # Pieces
  <2>1. Len(before') < Pieces
    BY <1>2, <1>3, <1>4, <1>7
  <2>2. Reading'
    BY <1>1, <1>2, <1>5, <1>7, <2>1 DEF Reading
  <2>3. QED
    BY <1>1, <1>2, <1>4, <1>7, <2>2, ReadingSteps
<1>8. QED
  BY <1>6, <1>7

LEMMA CopyKeeps == ASSUME ProductsInv, CopiesPiece PROVE ProductsInv'
<1>1. /\ product = "copy" /\ ~lost /\ copied' = Took(copied)
      /\ product' = IF Len(copied') = Pieces THEN "after" ELSE "copy"
      /\ UNCHANGED <<moments, before, after, synced, stored>> /\ Outside /\ source' = source
  BY DEF CopiesPiece, Goes, Outside
<1>2. /\ copied \in Buffer /\ Len(copied) < Pieces /\ after = Nothing /\ after \in Buffer
      /\ before \in Buffer /\ Len(before) = Pieces /\ Bracketed
  BY <1>1 DEF ProductsInv, ProductTypes, Reading
<1>3. copied' \in Buffer /\ Len(copied') = Len(copied) + 1 /\ Len(copied) \in Nat
  BY <1>1, <1>2, TookOne DEF Buffer
<1>4. Pieces \in Nat \ {0} /\ Len(Nothing) = 0
  BY MomentFacts
<1>5. Bracketed'
  BY <1>1, <1>2 DEF Bracketed
<1>6. Len(copied') # Pieces => Len(copied') < Pieces
  BY <1>2, <1>3, <1>4
<1>7. Reading'
  BY <1>1, <1>2, <1>4, <1>5, <1>6 DEF Reading
<1>8. product' \in {"copy", "after"}
  BY <1>1
<1>9. QED
  BY <1>1, <1>2, <1>3, <1>7, <1>8, ReadingSteps

LEMMA AfterKeeps == ASSUME ProductsInv, SnapshotAfter PROVE ProductsInv'
<1>1. /\ product = "after" /\ ~lost /\ after' = Took(after)
      /\ product' = IF Len(after') = Pieces THEN "verify" ELSE "after"
      /\ UNCHANGED <<moments, before, copied, synced, stored>> /\ Outside /\ source' = source
  BY DEF SnapshotAfter, Goes, Outside
<1>2. /\ after \in Buffer /\ Len(after) < Pieces /\ copied \in Buffer /\ before \in Buffer
      /\ Len(before) = Pieces /\ Bracketed
  BY <1>1 DEF ProductsInv, ProductTypes, Reading
<1>3. after' \in Buffer /\ Len(after') = Len(after) + 1 /\ Len(after) \in Nat
  BY <1>1, <1>2, TookOne DEF Buffer
<1>4. Pieces \in Nat \ {0}
  BY MomentFacts
<1>5. Bracketed'
  <2>1. PICK m \in moments : /\ \A i \in 1..Pieces : before[i] <= m[i] /\ m[i] <= source[i]
                             /\ \A i \in 1..Len(after) : m[i] <= after[i]
    BY <1>2 DEF Bracketed
  <2>2. \A i \in 1..Len(after') : m[i] <= after'[i]
    <3> SUFFICES ASSUME NEW i \in 1..Len(after') PROVE m[i] <= after'[i]
      OBVIOUS
    <3>1. CASE i = Len(after) + 1
      <4>1. i \in 1..Pieces
        BY <1>2, <1>3, <1>4, <3>1
      <4>2. QED
        BY <1>1, <1>2, <2>1, <3>1, <4>1, TookOne
    <3>2. CASE i # Len(after) + 1
      <4>1. i \in 1..Len(after)
        BY <1>3, <3>2
      <4>2. QED
        BY <1>1, <1>2, <2>1, <4>1, TookOne
    <3>3. QED
      BY <3>1, <3>2
  <2>3. QED
    BY <1>1, <2>1, <2>2 DEF Bracketed
<1>6. Len(after') # Pieces => Len(after') < Pieces
  BY <1>2, <1>3, <1>4
<1>7. Reading'
  BY <1>1, <1>2, <1>5, <1>6 DEF Reading
<1>8. product' \in {"after", "verify"}
  BY <1>1
<1>9. QED
  BY <1>1, <1>2, <1>3, <1>7, <1>8, ReadingSteps

\* Two equal snapshots around a copy of the same digest are what the file was.
LEMMA SteadyIsMoment ==
    ASSUME ProductsInv, product = "verify", Steady
    PROVE  OfOneMoment
<1>1. before = after /\ copied = before /\ Len(before) = Pieces /\ before \in Seq(Nat) /\ moments \subseteq Stored
  BY DEF Steady, ProductsInv, ProductTypes, Reading, Buffer
<1>2. PICK m \in moments : /\ \A i \in 1..Pieces : before[i] <= m[i]
                           /\ \A i \in 1..Pieces : m[i] <= before[i]
  BY <1>1 DEF ProductsInv, Reading, Bracketed
<1>3. Pieces \in Nat /\ before \in [1..Pieces -> Nat] /\ m \in [1..Pieces -> Nat]
  BY <1>1, ProductsAssumption DEF Stored
<1>4. \A i \in 1..Pieces : before[i] = m[i]
  BY <1>2, <1>3
<1>5. before = m
  BY <1>3, <1>4
<1>6. QED
  BY <1>1, <1>5 DEF OfOneMoment

\* From there the file is synchronised, renamed and synchronised again.
LEMMA StoringSteps ==
    ASSUME ProductsInv, VerifiesCopy \/ SyncsStaging \/ RenamesStaging \/ SyncsName \/ PublicationFails
    PROVE  ProductsInv'
<1>1. /\ UNCHANGED <<moments, before, copied, after>> /\ ~lost
      /\ UNCHANGED <<source, writing, outcome, stopAsked, bound, report, advertised, lost, received>>
      /\ Working /\ product # "idle"
  BY DEF VerifiesCopy, SyncsStaging, RenamesStaging, SyncsName, PublicationFails, Goes, Outside, Working
<1>2. /\ advertised = Nothing /\ received = Nothing /\ bound # "started" /\ outcome # "succeeded"
      /\ source \in moments
  BY <1>1, NotYet DEF ProductsInv, Storing, Working
<1>3. /\ product' \in {"entry", "rename", "name", "ok", "error"} /\ synced' \subseteq Parts
      /\ (product' # "error" => OfOneMoment)
  BY SteadyIsMoment DEF VerifiesCopy, SyncsStaging, RenamesStaging, SyncsName, PublicationFails, Goes,
     SyncsData, ProductsInv, ProductTypes, Storing, Parts
<1>4. ProductTypes' /\ Reading' /\ Telling'
  BY <1>1, <1>2, <1>3 DEF ProductsInv, ProductTypes, Reading, Telling
<1>5. Storing'
  <2>1. Torn' = Torn /\ (OfOneMoment <=> OfOneMoment')
    BY <1>1 DEF Torn, OfOneMoment
  <2>2. CASE VerifiesCopy
    BY <1>1, <1>2, <1>3, <2>1, <2>2 DEF VerifiesCopy, Goes, SyncsData, ProductsInv, Storing
  <2>3. CASE SyncsStaging
    BY <1>1, <1>2, <1>3, <2>1, <2>3 DEF SyncsStaging, Goes, ProductsInv, Storing
  <2>4. CASE RenamesStaging
    BY <1>1, <1>2, <1>3, <2>1, <2>4 DEF RenamesStaging, Goes, ProductsInv, Storing
  <2>5. CASE SyncsName
    BY <1>1, <1>2, <1>3, <2>1, <2>5 DEF SyncsName, Goes, ProductsInv, Storing, Parts
  <2>6. CASE PublicationFails
    BY <1>1, <1>2, <1>3, <2>1, <2>6 DEF PublicationFails, Goes, ProductsInv, Storing, Working
  <2>7. QED
    BY <2>2, <2>3, <2>4, <2>5, <2>6
<1>6. QED
  BY <1>4, <1>5 DEF ProductsInv

LEMMA StartKeeps == ASSUME ProductsInv, StartsPublishing \/ ReadsOutputs PROVE ProductsInv'
<1>1. CASE StartsPublishing
  <2>1. /\ product = "idle" /\ product' = "output" /\ outcome' = "running" /\ moments' = {source} /\ ~lost
        /\ UNCHANGED <<source, writing, stopAsked, bound, report, advertised, lost, received, before, copied,
                       after, synced, stored>>
    BY <1>1 DEF StartsPublishing, Goes
  <2>2. advertised = Nothing /\ received = Nothing /\ bound # "started" /\ stored = Nothing
    BY <2>1, NotYet DEF ProductsInv, Telling
  <2>3. ProductTypes' /\ Reading'
    BY <2>1 DEF ProductsInv, ProductTypes, Reading
  <2>4. Storing' /\ Telling'
    BY <2>1, <2>2 DEF ProductsInv, Storing, Telling
  <2>5. QED
    BY <2>3, <2>4 DEF ProductsInv
<1>2. CASE ReadsOutputs
  <2>1. /\ product = "output" /\ product' = "before" /\ ~lost /\ Outside /\ source' = source
        /\ UNCHANGED <<moments, before, copied, after, synced, stored>>
    BY <1>2 DEF ReadsOutputs, Goes, Outside
  <2>2. before = Nothing /\ copied = Nothing /\ after = Nothing
    BY <2>1 DEF ProductsInv, Reading
  <2>3. Pieces \in Nat \ {0} /\ Len(Nothing) = 0
    BY MomentFacts
  <2>4. Reading'
    BY <2>1, <2>2, <2>3 DEF Reading
  <2>5. before \in Buffer /\ copied \in Buffer /\ after \in Buffer
    BY DEF ProductsInv, ProductTypes
  <2>6. QED
    BY <2>1, <2>4, <2>5, ReadingSteps
<1>3. QED
  BY <1>1, <1>2

-----------------------------------------------------------------------------
(* The coordinator, failures of the power and downloads. *)

LEMMA CoordinatorKeeps ==
    ASSUME ProductsInv, AsksToStop \/ TakesOutcome \/ StartsBound \/ WritesReport \/ SyncsReport
    PROVE  ProductsInv'
<1>1. /\ UNCHANGED <<source, writing, moments, before, copied, after, synced, stored, lost, received>>
      /\ UNCHANGED product
  BY DEF AsksToStop, TakesOutcome, StartsBound, WritesReport, SyncsReport, Idle
<1>2. ProductTypes' /\ Reading' /\ Storing'
  <2>1. Bracketed <=> Bracketed'
    BY <1>1 DEF Bracketed
  <2>2. Reading'
    BY <1>1, <2>1 DEF ProductsInv, Reading
  <2>3. QED
    BY <1>1, <2>2 DEF ProductsInv, ProductTypes, Storing, Working, OfOneMoment, Torn
<1>3. Telling'
  <2>1. CASE AsksToStop
    <3>1. advertised = Nothing
      BY <2>1 DEF AsksToStop, ProductsInv, Telling
    <3>2. QED
      BY <1>1, <2>1, <3>1 DEF AsksToStop, ProductsInv, Telling
  <2>2. CASE TakesOutcome
    <3>1. /\ outcome = "running" /\ product # "idle" /\ advertised = Nothing /\ received = Nothing
          /\ bound # "started"
      BY <2>2 DEF TakesOutcome, ProductsInv, Telling
    <3>2. UNCHANGED <<stopAsked, bound, report>>
      BY <2>2 DEF TakesOutcome
    <3>3. CASE Published
      <4>1. product = "ok" /\ outcome' = "succeeded" /\ advertised' = before /\ ~stopAsked
        BY <2>2, <3>3 DEF TakesOutcome, Published
      <4>2. before \in Seq(Nat) /\ IsPrefix(Nothing, before)
        <5>1. before \in Seq(Nat)
          BY DEF ProductsInv, ProductTypes, Buffer
        <5>2. QED
          BY <5>1 DEF IsPrefix, Nothing
      <4>3. QED
        BY <1>1, <3>1, <3>2, <4>1, <4>2 DEF Telling
    <3>4. CASE ~Published
      <4>1. outcome' \in {"stopped", "failed"} /\ advertised' = advertised
        BY <2>2, <3>4 DEF TakesOutcome
      <4>2. QED
        BY <1>1, <3>1, <3>2, <4>1 DEF ProductsInv, Telling
    <3>5. QED
      BY <3>3, <3>4
  <2>3. CASE StartsBound
    <3>1. UNCHANGED <<outcome, stopAsked, report, advertised>> /\ product # "idle"
          /\ (bound' = "started" => outcome = "succeeded")
      BY <2>3 DEF StartsBound, Ended
    <3>2. QED
      BY <1>1, <3>1 DEF ProductsInv, Telling
  <2>4. CASE WritesReport \/ SyncsReport
    <3>1. UNCHANGED <<outcome, stopAsked, bound, advertised>>
      BY <2>4 DEF WritesReport, SyncsReport
    <3>2. QED
      BY <1>1, <3>1 DEF ProductsInv, Telling
  <2>5. QED
    BY <2>1, <2>2, <2>3, <2>4
<1>4. QED
  BY <1>2, <1>3 DEF ProductsInv

\* What was synchronised stays; of the rest any part may be gone.
LEMMA PowerKeeps == ASSUME ProductsInv, PowerFails PROVE ProductsInv'
<1>1. /\ ~lost /\ lost'
      /\ UNCHANGED <<source, writing, moments, product, before, copied, after, synced, outcome, stopAsked, bound,
                     advertised, received>>
  BY DEF PowerFails
<1>2. /\ stored' \in {Nothing, stored, Torn}
      /\ (synced = Parts => stored' = stored)
  BY DEF PowerFails, Parts
<1>3. Bracketed <=> Bracketed'
  BY <1>1 DEF Bracketed
<1>4. ProductTypes' /\ Reading'
  BY <1>1, <1>3 DEF ProductsInv, ProductTypes, Reading
<1>5. Torn' = Torn /\ (OfOneMoment <=> OfOneMoment')
  BY <1>1 DEF Torn, OfOneMoment
<1>6. Storing'
  BY <1>1, <1>2, <1>5 DEF ProductsInv, Storing, Working
<1>7. product = "idle" => stored' = Nothing
  <2>1. product = "idle" => stored = Nothing
    BY DEF ProductsInv, Telling
  <2>2. stored = Nothing => stored' = Nothing
    BY DEF PowerFails
  <2>3. QED
    BY <2>1, <2>2
<1>8. Telling'
  BY <1>1, <1>7 DEF ProductsInv, Telling
<1>9. QED
  BY <1>4, <1>6, <1>8 DEF ProductsInv

LEMMA DownloadKeeps == ASSUME ProductsInv, Downloads PROVE ProductsInv'
<1>1. /\ advertised # Nothing
      /\ UNCHANGED <<source, writing, moments, product, before, copied, after, synced, stored, outcome,
                     stopAsked, bound, report, advertised, lost>>
  BY DEF Downloads
<1>2. stored = advertised /\ advertised \in moments
  BY <1>1 DEF ProductsInv, Telling, Storing, OfOneMoment
<1>3. advertised \in Seq(Nat) /\ Len(advertised) = Pieces /\ Pieces \in Nat \ {0}
  BY <1>2, MomentFacts
<1>4. PICK n \in (Len(received) + 1)..Pieces : received' = SubSeq(advertised, 1, n)
  BY <1>2 DEF Downloads
<1>5. n \in 1..Pieces
  <2>1. Len(received) \in Nat
    BY DEF ProductsInv, ProductTypes
  <2>2. QED
    BY <1>3, <2>1
<1> DEFINE a == advertised
<1>6. a \in Seq(Nat) /\ Len(a) = Pieces
  BY <1>3
<1> HIDE DEF a
<1>7. SubSeq(a, 1, n) \in Seq(Nat) /\ IsPrefix(SubSeq(a, 1, n), a)
  <2>1. n \in 0..Len(a)
    BY <1>5, <1>6
  <2>2. QED
    BY <1>6, <2>1, BeginningIs, Zenon
<1>8. ProductTypes' /\ Reading' /\ Storing'
  <2>1. Bracketed <=> Bracketed'
    BY <1>1 DEF Bracketed
  <2>2. Reading'
    BY <1>1, <2>1 DEF ProductsInv, Reading
  <2>3. QED
    BY <1>1, <1>4, <1>7, <2>2 DEF ProductsInv, ProductTypes, Storing, Working, OfOneMoment, Torn, a
<1>9. Telling'
  BY <1>1, <1>4, <1>7 DEF ProductsInv, Telling, a
<1>10. QED
  BY <1>8, <1>9 DEF ProductsInv

LEMMA ProductsStart == ASSUME ProductsInit PROVE ProductsInv
<1>1. Pieces \in Nat \ {0} /\ Nothing \in Seq(Nat) /\ Len(Nothing) = 0
  BY ProductsAssumption DEF Nothing
<1>2. ProductTypes
  BY <1>1 DEF ProductsInit, ProductTypes, Stored, Buffer
<1>3. IsPrefix(Nothing, Nothing)
  BY DEF IsPrefix
<1>4. Reading /\ Storing /\ Telling
  BY <1>3 DEF ProductsInit, Reading, Storing, Telling, Working
<1>5. QED
  BY <1>2, <1>4 DEF ProductsInv

LEMMA ProductsStep == ASSUME ProductsInv, [ProductsNext]_productVars PROVE ProductsInv'
<1>1. CASE UNCHANGED productVars
  <2>1. UNCHANGED <<source, writing, moments, product, before, copied, after, synced, stored, outcome, stopAsked,
                    bound, report, advertised, lost, received>>
    BY <1>1 DEF productVars
  <2>2. Bracketed <=> Bracketed'
    BY <2>1 DEF Bracketed
  <2>3. Reading'
    BY <2>1, <2>2 DEF ProductsInv, Reading
  <2>4. QED
    BY <2>1, <2>3 DEF ProductsInv, ProductTypes, Storing, Working, OfOneMoment, Torn, Telling
<1>2. QED
  BY <1>1, WriteKeepsProducts, StartKeeps, BeforeKeeps, CopyKeeps, AfterKeeps, StoringSteps, CoordinatorKeeps,
     PowerKeeps, DownloadKeeps DEF ProductsNext

\* What the invariant says to whoever reads a report.
LEMMA ProductsSafe == ProductsInv => ProductsAreWhole
<1> SUFFICES ASSUME ProductsInv PROVE ProductsAreWhole
  OBVIOUS
<1>1. \A m \in moments : m # Nothing
  BY MomentFacts
<1>2. advertised # Nothing => stored = advertised /\ advertised \in moments
  BY DEF ProductsInv, Storing, Telling, OfOneMoment
<1>3. CopiesAreMoments
  BY <1>2 DEF CopiesAreMoments, ProductsInv, Storing, OfOneMoment
<1>4. ReportsAreBacked
  BY <1>2 DEF ReportsAreBacked
<1>5. StoppedHaveNone
  <2>1. product = "ok" => before \in moments
    BY DEF ProductsInv, Storing, OfOneMoment
  <2>2. bound = "started" => outcome = "succeeded" /\ advertised # Nothing
    BY <1>1, <2>1 DEF ProductsInv, Telling
  <2>3. QED
    BY <2>2 DEF StoppedHaveNone, ProductsInv, Telling
<1>6. QED
  BY <1>3, <1>4, <1>5 DEF ProductsAreWhole, ProductsInv, Telling

\* A stored artifact is what its file was at one moment of the publication, a
\* report names only artifacts that are there, and a stopped task has none, for
\* files of any size, any writes meanwhile and a loss of power at any moment
\* (executor/src/workflow.rs and lib.rs).
THEOREM ProductsAreOfOneMoment == ProductsSpec => []ProductsAreWhole
  BY ProductsStart, ProductsStep, ProductsSafe, PTL DEF ProductsSpec

\* The same of the part "products" that a run explores.
THEOREM ProductsStayWhole == PartsSpec => []ProductsStored
<1> DEFINE Holds == part = "products" => ProductsInv
           All == <<part, vars, pageVars, productVars, jVars>>
<1>1. PartsInit => Holds
  BY ProductsStart DEF PartsInit
<1>2. Holds /\ [PartsNext]_All => Holds'
  <2> SUFFICES ASSUME Holds, [PartsNext]_All, part' = "products" PROVE ProductsInv'
    OBVIOUS
  <2>1. part = "products" /\ [ProductsNext]_productVars
    BY DEF PartsNext
  <2>2. QED
    BY <2>1, ProductsStep
<1>3. Holds => ProductsStored
  BY ProductsSafe DEF ProductsStored
<1>4. QED
  BY <1>1, <1>2, <1>3, PTL DEF PartsSpec

-----------------------------------------------------------------------------
(* Journal: the inductive invariants. *)

TaskState == {"pending", "preparing", "missed", "running"} \cup JFinal
Stopped == {"finished", "crashed"}
Verdicts == {"watching", "nobody", "ok", "failed", "incomplete"}

JTypes ==
    /\ incremental \in BOOLEAN
    /\ tstate \in [JTask -> TaskState] /\ known \in [JTask -> TaskState]
    /\ tries \in [JTask -> Nat] /\ offsets \in [JTask -> Nat]
    /\ log \in [JTask -> Seq(Nat)] /\ said \in [JTask -> Seq(Nat)] /\ logged \in [JTask -> Seq(Nat)]
    /\ spans \in [JTask -> JFinal \cup {"open", "interrupted"}]
    /\ emitted \in Nat /\ flushed \in Nat /\ finish \in {"none", "succeeded", "failed"}
    /\ run \in {"queued", "running", "flushing", "drained"} \cup Stopped
    /\ record \in {"queued", "running"} \cup Over

\* How far the disk, the run and what the server says of it have come.
DiskFits ==
    /\ flushed <= 2 * emitted
    /\ run = "queued" => flushed = 0
    /\ finish # "none" <=> run = "finished"
    /\ run = "finished" => flushed = 2 * emitted
    /\ record \in Over => run \in Stopped
    /\ record = "succeeded" => run = "finished" /\ finish = "succeeded"

\* What a watcher holds: its position, where its snapshot ends, and the page
\* it has read before it asks for the state of the run.
WatchTypes ==
    watch \in [remote : BOOLEAN, follow : BOOLEAN, at : Nat, end : Nat \cup {-1}, page : Nat \cup {-1},
               terminal : BOOLEAN, verdict : Verdicts]
Positions ==
    /\ watch.at <= flushed
    /\ IF watch.remote THEN \E k \in Nat : watch.at = 2 * k ELSE watch.page = -1
    /\ watch.follow => watch.end = -1
    /\ ~watch.follow /\ watch.end = -1 => watch.at = 0
    /\ watch.end # -1 => watch.at <= watch.end /\ watch.end <= flushed
PageHeld ==
    watch.page # -1 =>
      /\ watch.at + 2 * watch.page <= flushed
      /\ ~watch.follow => /\ watch.end # -1
                          /\ watch.page < PageEvents => watch.end <= watch.at + 2 * watch.page + 1
      /\ watch.terminal /\ watch.page < PageEvents => flushed <= watch.at + 2 * watch.page + 1
Watching ==
    /\ WatchTypes /\ Positions /\ PageHeld
    /\ watch.terminal => record \in Over
    /\ WatchersAreRight

WatchInv == JTypes /\ DiskFits /\ Watching

\* The log of a task is what it has put out, but while its cache is looked up;
\* the journal has copied it up to the offset.
CopiedUpTo(t) == offsets[t] <= Len(said[t]) /\ logged[t] = SubSeq(said[t], 1, offsets[t])
LogOf(t) ==
    /\ CopiedUpTo(t)
    /\ IF tstate[t] = "preparing" THEN said[t] = <<>> ELSE log[t] = said[t]
    /\ tstate[t] \in {"pending", "preparing", "missed"} => tries[t] < MaxTries
    /\ tstate[t] \in {"pending", "missed"} /\ tries[t] = 0 => said[t] = <<>>
    /\ tstate[t] = "pending" /\ t \in JCached => tries[t] = 0
StateOf(t) ==
    /\ known[t] \in JFinal => tstate[t] = known[t]
    /\ run # "crashed" => spans[t] = IF known[t] \in JFinal THEN known[t] ELSE "open"
    /\ run \in {"drained", "finished"} =>
         tstate[t] \in JFinal /\ known[t] = tstate[t] /\ offsets[t] = Len(said[t])

LogInv == JTypes /\ \A t \in JTask : LogOf(t) /\ StateOf(t)

\* The log of a task that can be retried is never cut.
Uncut == JNative = {} \/ MaxTries = 1

-----------------------------------------------------------------------------
(* What a step may do to the journal's file. *)

\* The file only grows, and is what it is once the run has ended.
Advances ==
    /\ flushed' >= flushed
    /\ run \in Stopped => UNCHANGED <<run, flushed, emitted, finish>>
    /\ record \in Over => record' = record

LEMMA TailedIs ==
    ASSUME JTypes, NEW t \in JTask, NEW drain \in BOOLEAN
    PROVE  /\ Backlog(t) \in Nat /\ Tailed(t, drain) \in Nat /\ Tailed(t, drain) <= Backlog(t)
           /\ (Tailed(t, drain) > 0 => Len(log[t]) = offsets[t] + Backlog(t))
           /\ Events(t, drain) \in Nat
<1>1. Len(log[t]) \in Nat /\ offsets[t] \in Nat /\ TickBudget \in Nat
  <2>1. log[t] \in Seq(Nat) /\ offsets[t] \in Nat
    BY DEF JTypes
  <2>2. QED
    BY <2>1, JournalAssumption
<1>2. Backlog(t) \in Nat /\ (Backlog(t) > 0 => Len(log[t]) = offsets[t] + Backlog(t))
  BY <1>1 DEF Backlog
<1>3. Tailed(t, drain) \in Nat /\ Tailed(t, drain) <= Backlog(t)
  BY <1>1, <1>2 DEF Tailed
<1>4. Events(t, drain) \in Nat
  BY <1>3 DEF Events
<1>5. QED
  BY <1>2, <1>3, <1>4

LEMMA EmittedIs ==
    ASSUME JTypes, NEW drain \in BOOLEAN, NEW looked, looked \subseteq JTask
    PROVE  Cardinality(UNION {{t} \X (1..Events(t, drain)) : t \in looked}) \in Nat
<1> DEFINE E(t) == {t} \X (1..Events(t, drain))
<1>1. IsFiniteSet(looked)
  BY JournalAssumption, FS_Subset
<1>2. IsFiniteSet({E(t) : t \in looked})
  <2> DEFINE f == [t \in looked |-> E(t)]
             U == {E(t) : t \in looked}
  <2>1. f \in Surjection(looked, U)
    BY DEF Surjection
  <2> HIDE DEF f, U
  <2>2. IsFiniteSet(U)
    BY <1>1, <2>1, FS_Surjection
  <2>3. QED
    BY <2>2 DEF U
<1>3. ASSUME NEW t \in looked PROVE IsFiniteSet(E(t))
  <2>1. Events(t, drain) \in Int /\ 1 \in Int
    BY TailedIs
  <2>2. IsFiniteSet(1..Events(t, drain))
    BY <2>1, FS_Interval
  <2>3. IsFiniteSet({t})
    BY FS_Singleton
  <2>4. QED
    BY <2>2, <2>3, FS_Product, Zenon
<1>4. IsFiniteSet(UNION {E(t) : t \in looked})
  <2> DEFINE U == {E(t) : t \in looked}
  <2>1. \A T \in U : IsFiniteSet(T)
    BY <1>3
  <2> HIDE DEF U
  <2>2. IsFiniteSet(UNION U)
    BY <1>2, <2>1, FS_UNION DEF U
  <2>3. QED
    BY <2>2 DEF U
<1>5. QED
  BY <1>4, FS_CardinalityType

\* The steps of the tasks leave the journal, the run and its watcher alone.
TaskStep(t) == LookUp(t) \/ LookedUp(t) \/ StartTask(t) \/ Write(t) \/ EndTask(t) \/ AbortTask(t)

LEMMA TaskLeaves ==
    ASSUME NEW t \in JTask, TaskStep(t)
    PROVE  /\ UNCHANGED <<incremental, run, record, watch, emitted, logged, finish, flushed, known, offsets,
                          drained, spans>>
           /\ run \in {"running", "flushing"}
  BY DEF TaskStep, LookUp, LookedUp, StartTask, Write, EndTask, AbortTask, Becomes, Seen, diskVars, journalVars

LEMMA TaskTypes == ASSUME JTypes, NEW t \in JTask, TaskStep(t) PROVE JTypes'
<1>1. UNCHANGED <<incremental, run, record, emitted, logged, finish, flushed, known, offsets, spans>>
  BY TaskLeaves
<1>2. tstate' \in [JTask -> TaskState] /\ tries' \in [JTask -> Nat]
  <2>1. tstate' = tstate \/ \E s \in TaskState : Becomes(t, s)
    <3>1. ASSUME LookUp(t) \/ StartTask(t) \/ AbortTask(t) PROVE \E s \in TaskState : Becomes(t, s)
      BY <3>1 DEF LookUp, StartTask, AbortTask, TaskState, JFinal
    <3>2. ASSUME LookedUp(t) PROVE \E s \in TaskState : Becomes(t, s)
      BY <3>2 DEF LookedUp, TaskState, JFinal
    <3>3. ASSUME EndTask(t) PROVE \E s \in TaskState : Becomes(t, s)
      BY <3>3 DEF EndTask, TaskState, JFinal
    <3>4. ASSUME Write(t) PROVE tstate' = tstate
      BY <3>4 DEF Write
    <3>5. QED
      BY <3>1, <3>2, <3>3, <3>4 DEF TaskStep
  <2>2. tstate' \in [JTask -> TaskState]
    BY <2>1 DEF Becomes, JTypes
  <2>3. tries' = tries \/ tries' = [tries EXCEPT ![t] = @ + 1]
    BY DEF TaskStep, LookUp, LookedUp, StartTask, Write, EndTask, AbortTask
  <2>4. tries' \in [JTask -> Nat]
    <3>1. tries \in [JTask -> Nat]
      BY DEF JTypes
    <3>2. tries[t] + 1 \in Nat
      BY <3>1
    <3>3. QED
      BY <2>3, <3>1, <3>2
  <2>5. QED
    BY <2>2, <2>4
<1>3. log' \in [JTask -> Seq(Nat)] /\ said' \in [JTask -> Seq(Nat)]
  <2>1. log[t] \in Seq(Nat) /\ said[t] \in Seq(Nat) /\ Len(said[t]) + 1 \in Nat
    BY DEF JTypes
  <2>2. Append(log[t], Len(said[t]) + 1) \in Seq(Nat) /\ Append(said[t], Len(said[t]) + 1) \in Seq(Nat)
    BY <2>1, AppendProperties
  <2>3. /\ log' \in {log, [log EXCEPT ![t] = <<>>], [log EXCEPT ![t] = Append(log[t], Len(said[t]) + 1)]}
        /\ said' \in {said, [said EXCEPT ![t] = log[t]], [said EXCEPT ![t] = Append(said[t], Len(said[t]) + 1)]}
    BY DEF TaskStep, LookUp, LookedUp, StartTask, Write, EndTask, AbortTask, Becomes, JTypes
  <2>4. <<>> \in Seq(Nat)
    OBVIOUS
  <2>5. log \in [JTask -> Seq(Nat)] /\ said \in [JTask -> Seq(Nat)]
    BY DEF JTypes
  <2>6. log' \in [JTask -> Seq(Nat)]
    BY <2>2, <2>3, <2>4, <2>5
  <2>7. said' \in [JTask -> Seq(Nat)]
    BY <2>1, <2>2, <2>3, <2>5
  <2>8. QED
    BY <2>6, <2>7
<1>4. QED
  BY <1>1, <1>2, <1>3 DEF JTypes

\* The steps of the run that leave its tasks alone.
RunStep == JRun \/ Spill \/ CrashRun

LEMMA TickLeaves ==
    ASSUME JTypes, Tick
    PROVE  /\ emitted' \in Nat /\ emitted' >= emitted /\ run = "running" /\ run' \in {"drained", "flushing"}
           /\ UNCHANGED <<runVars, finish, flushed, record, watch>>
           /\ known' = tstate /\ spans' = [t \in JTask |-> SpanOf(t)]
<1> DEFINE all == \A t \in JTask : tstate[t] \in JFinal
<1>1. \E looked \in SUBSET JTask :
        emitted' = emitted + Cardinality(UNION {{t} \X (1..Events(t, all)) : t \in looked})
  <2> DEFINE L == IF all \/ ~incremental THEN JTask
                  ELSE {t \in JTask : tstate[t] # known[t] \/ tstate[t] = "running"}
  <2>1. L \in SUBSET JTask
    OBVIOUS
  <2>2. emitted' = emitted + Cardinality(UNION {{t} \X (1..Events(t, all)) : t \in L})
    BY DEF Tick
  <2> HIDE DEF L
  <2>3. QED
    BY <2>1, <2>2
<1>2. PICK looked \in SUBSET JTask :
        emitted' = emitted + Cardinality(UNION {{t} \X (1..Events(t, all)) : t \in looked})
  BY <1>1
<1>3. all \in BOOLEAN
  OBVIOUS
<1> HIDE DEF all
<1>4. Cardinality(UNION {{t} \X (1..Events(t, all)) : t \in looked}) \in Nat
  BY <1>3, EmittedIs
<1>5. emitted' \in Nat /\ emitted' >= emitted
  BY <1>2, <1>4 DEF JTypes
<1>6. QED
  BY <1>5 DEF Tick

\* What is in the journal after a tick is what was there, and what was copied.
LEMMA TickTypes == ASSUME JTypes, Tick PROVE JTypes'
<1> DEFINE all == \A t \in JTask : tstate[t] \in JFinal
           looked == IF all \/ ~incremental THEN JTask
                     ELSE {t \in JTask : tstate[t] # known[t] \/ tstate[t] = "running"}
<1>1. /\ logged' = [t \in JTask |-> logged[t] \o IF t \in looked THEN Lines(t, all) ELSE <<>>]
      /\ offsets' = [t \in JTask |-> offsets[t] + IF t \in looked THEN Tailed(t, all) ELSE 0]
  BY DEF Tick
<1>2. all \in BOOLEAN
  OBVIOUS
<1> HIDE DEF all, looked
<1>3. ASSUME NEW t \in JTask
      PROVE  /\ offsets[t] + (IF t \in looked THEN Tailed(t, all) ELSE 0) \in Nat
             /\ logged[t] \o (IF t \in looked THEN Lines(t, all) ELSE <<>>) \in Seq(Nat)
  <2>1. log[t] \in Seq(Nat) /\ logged[t] \in Seq(Nat) /\ offsets[t] \in Nat
    BY DEF JTypes
  <2>2. /\ Tailed(t, all) \in Nat
        /\ Tailed(t, all) > 0 => Len(log[t]) >= offsets[t] + Tailed(t, all)
    <3>1. /\ Backlog(t) \in Nat /\ Tailed(t, all) \in Nat /\ Tailed(t, all) <= Backlog(t)
          /\ (Tailed(t, all) > 0 => Len(log[t]) = offsets[t] + Backlog(t))
      BY <1>2, TailedIs
    <3>2. QED
      BY <2>1, <3>1
  <2>3. Lines(t, all) \in Seq(Nat)
    <3> DEFINE m == offsets[t] + 1
               n == offsets[t] + Tailed(t, all)
    <3>1. m \in Int /\ n \in Int /\ (m <= n => n <= Len(log[t])) /\ m >= 1
      BY <2>1, <2>2
    <3>2. \A i \in m..n : log[t][i] \in Nat
      <4>1. \A i \in 1..Len(log[t]) : log[t][i] \in Nat
        BY <2>1
      <4>2. \A i \in m..n : i \in 1..Len(log[t])
        <5>1. Len(log[t]) \in Nat
          BY <2>1
        <5> HIDE DEF m, n
        <5>2. QED
          BY <3>1, <5>1
      <4>3. QED
        BY <4>1, <4>2
    <3> HIDE DEF m, n
    <3>3. SubSeq(log[t], m, n) \in Seq(Nat)
      BY <3>1, <3>2, SubSeqProperties
    <3>4. QED
      BY <3>3 DEF Lines, m, n
  <2>4. \A s \in Seq(Nat) : logged[t] \o s \in Seq(Nat)
    BY <2>1, ConcatProperties
  <2>5. <<>> \in Seq(Nat)
    OBVIOUS
  <2>6. QED
    BY <2>1, <2>2, <2>3, <2>4, <2>5
<1>4. logged' \in [JTask -> Seq(Nat)] /\ offsets' \in [JTask -> Nat]
  BY <1>1, <1>3
<1>5. spans' \in [JTask -> JFinal \cup {"open", "interrupted"}]
  BY TickLeaves DEF SpanOf, JTypes
<1>6. QED
  BY <1>4, <1>5, TickLeaves DEF JTypes, runVars

LEMMA RunStepKeeps ==
    ASSUME JTypes, DiskFits, RunStep
    PROVE  JTypes' /\ DiskFits' /\ Advances /\ watch' = watch
<1>1. CASE Tick
  <2>1. /\ emitted' \in Nat /\ emitted' >= emitted /\ run = "running" /\ run' \in {"drained", "flushing"}
        /\ UNCHANGED <<finish, flushed, record, watch>> /\ JTypes'
    BY <1>1, TickLeaves, TickTypes
  <2>2. emitted \in Nat /\ flushed \in Nat /\ flushed <= 2 * emitted
        /\ record \notin Over /\ record # "succeeded" /\ finish = "none"
    BY <2>1 DEF JTypes, DiskFits, Stopped
  <2>3. flushed' <= 2 * emitted'
    <3> DEFINE a == emitted
               b == emitted'
               f == flushed
    <3>1. a \in Nat /\ f \in Nat /\ f <= 2 * a /\ b \in Nat /\ b >= a
      BY <2>1, <2>2
    <3>2. flushed' = f
      BY <2>1
    <3> HIDE DEF a, b, f
    <3>3. f <= 2 * b
      BY <3>1
    <3>4. QED
      BY <3>2, <3>3 DEF b
  <2>4. DiskFits'
    BY <2>1, <2>2, <2>3 DEF DiskFits
  <2>5. QED
    BY <2>1, <2>2, <2>4 DEF Advances, Stopped
<1>2. CASE StartRun
  BY <1>2 DEF StartRun, JTypes, DiskFits, Advances, Stopped, Over, runVars, journalVars
<1>3. CASE Flush
  BY <1>3 DEF Flush, JTypes, DiskFits, Advances, Stopped, Over, runVars, journalVars
<1>4. CASE JFinish
  <2>1. /\ run = "drained" /\ run' = "finished" /\ emitted' = emitted + 1 /\ flushed' = 2 * emitted'
        /\ finish' \in {"succeeded", "failed"} /\ UNCHANGED <<runVars, logged, journalVars, record, watch>>
    BY <1>4 DEF JFinish
  <2>2. /\ emitted \in Nat /\ flushed \in Nat /\ flushed <= 2 * emitted /\ record \notin Over
    BY <2>1 DEF JTypes, DiskFits, Stopped
  <2>3. emitted' \in Nat /\ flushed' \in Nat /\ flushed' >= flushed
    BY <2>1, <2>2
  <2>4. JTypes'
    BY <2>1, <2>3 DEF JTypes, runVars, journalVars, Stopped
  <2>5. QED
    BY <2>1, <2>2, <2>3, <2>4 DEF DiskFits, Advances, Stopped, Over
<1>5. CASE Settle
  <2>1. /\ record \notin Over /\ UNCHANGED <<runVars, diskVars, journalVars, watch>>
        /\ run' \in Stopped /\ (run \in Stopped => run' = run) /\ record' \in Over
        /\ run = run' \/ (run = "queued" /\ run' = "crashed")
        /\ (record' = "succeeded" => run' = "finished" /\ run = "finished" /\ finish = "succeeded")
    BY <1>5 DEF Settle, Over, Stopped
  <2>2. JTypes'
    BY <2>1 DEF JTypes, runVars, journalVars, diskVars, Stopped
  <2>3. DiskFits'
    BY <2>1 DEF DiskFits, runVars, journalVars, diskVars, Stopped
  <2>4. QED
    BY <2>1, <2>2, <2>3 DEF Advances, diskVars, JTypes
<1>6. CASE Spill
  <2>1. /\ run \in {"flushing", "drained"} /\ flushed' \in Nat /\ flushed' >= flushed /\ flushed' <= 2 * emitted
        /\ UNCHANGED <<runVars, emitted, logged, finish, journalVars, run, record, watch>>
    <3>1. flushed \in Nat /\ emitted \in Nat
      BY DEF JTypes
    <3>2. \A n \in flushed + 1 .. 2 * emitted - 1 : n \in Nat /\ n >= flushed /\ n <= 2 * emitted
      BY <3>1
    <3>3. QED
      BY <1>6, <3>2 DEF Spill
  <2>2. JTypes'
    BY <2>1 DEF JTypes, runVars, journalVars
  <2>3. QED
    BY <2>1, <2>2 DEF DiskFits, Advances, Stopped, Over
<1>7. CASE CrashRun
  <2>1. /\ run \in {"running", "flushing", "drained"} /\ run' = "crashed"
        /\ UNCHANGED <<runVars, diskVars, known, offsets, drained, record, watch>>
        /\ spans' \in [JTask -> JFinal \cup {"open", "interrupted"}]
    BY <1>7 DEF CrashRun, JTypes
  <2>2. JTypes'
    BY <2>1 DEF JTypes, runVars, diskVars, Stopped
  <2>3. DiskFits'
    BY <2>1 DEF DiskFits, diskVars, Stopped
  <2>4. QED
    BY <2>1, <2>2, <2>3 DEF Advances, diskVars, Stopped, JTypes, DiskFits
<1>8. QED
  BY <1>1, <1>2, <1>3, <1>4, <1>5, <1>6, <1>7 DEF RunStep, JRun

-----------------------------------------------------------------------------
(* The watchers. *)

LEMMA HalfIs ==
    ASSUME NEW n \in Nat
    PROVE  /\ n \div 2 \in Nat /\ 2 * (n \div 2) <= n /\ n <= 2 * (n \div 2) + 1
           /\ \A k \in Nat : n = 2 * k \/ n = 2 * k + 1 => n \div 2 = k
  OBVIOUS

\* A watcher is not disturbed by the run it watches: what it was told at the
\* end stays what is on the disk.
LEMMA WatchKept ==
    ASSUME WatchInv, Advances, JTypes', DiskFits', watch' = watch
    PROVE  WatchInv'
<1>1. flushed \in Nat /\ flushed' \in Nat /\ flushed' >= flushed
  BY DEF WatchInv, JTypes, Advances
<1>2. watch.terminal => record' \in Over /\ run \in Stopped
  BY DEF WatchInv, Watching, Advances, DiskFits
<1>3. run \in Stopped => UNCHANGED <<run, flushed, emitted, finish>>
  BY DEF Advances
<1>4. WatchTypes'
  BY DEF WatchInv, Watching, WatchTypes
<1>5. Positions'
  BY <1>1 DEF WatchInv, Watching, Positions, WatchTypes
<1>6. PageHeld'
  <2>1. ASSUME watch.page # -1 PROVE watch.page \in Nat /\ watch.at \in Nat
    BY <2>1 DEF WatchInv, Watching, WatchTypes
  <2>2. QED
    BY <1>1, <1>2, <1>3, <2>1 DEF WatchInv, Watching, PageHeld
<1>7. WatchersAreRight'
  <2>1. WatchOver /\ watch.follow => run \in Stopped
    BY DEF WatchInv, Watching, WatchersAreRight, Stopped
  <2>2. QED
    BY <1>3, <2>1 DEF WatchInv, Watching, WatchersAreRight, WatchOver, OnDisk, Stopped
<1>8. QED
  BY <1>2, <1>4, <1>5, <1>6, <1>7 DEF WatchInv, Watching

\* What the end of the journal tells of the run.
LEMMA EndIs ==
    ASSUME JTypes, DiskFits, NEW n \in Nat, FinishShown(n)
    PROVE  /\ run = "finished" /\ OnDisk = n
           /\ ~RunFailed(n) => finish = "succeeded"
<1>1. run = "finished" /\ n = emitted /\ flushed = 2 * n /\ finish \in {"succeeded", "failed"}
  BY DEF FinishShown, DiskFits, JTypes
<1>2. OnDisk = n
  BY <1>1, HalfIs DEF OnDisk
<1>3. QED
  BY <1>1, <1>2 DEF RunFailed, FinishShown

LEMMA PollKeeps == ASSUME WatchInv, Poll PROVE WatchInv'
<1> DEFINE till == IF watch.follow THEN flushed ELSE IF watch.end = -1 THEN flushed ELSE watch.end
           at == Least(watch.at + PollHalves, till)
           done == at >= till /\ (~watch.follow \/ FinishShown(at \div 2))
           told == IF ~done THEN watch.verdict ELSE IF RunFailed(at \div 2) THEN "failed" ELSE "ok"
           end == IF watch.follow THEN -1 ELSE till
<1>1. /\ watch' = [watch EXCEPT !.at = at, !.end = end, !.verdict = told]
      /\ watch.verdict = "watching" /\ ~watch.remote
      /\ UNCHANGED <<runVars, diskVars, journalVars, run, record>>
  BY DEF Poll, Watches
<1>2. JTypes' /\ DiskFits' /\ JTypes /\ DiskFits /\ flushed \in Nat
  BY <1>1 DEF WatchInv, JTypes, DiskFits, runVars, diskVars, journalVars
<1>3. /\ watch.at \in Nat /\ watch.end \in Nat \cup {-1} /\ watch.at <= flushed
      /\ watch.end # -1 => watch.at <= watch.end /\ watch.end <= flushed
      /\ watch.follow => watch.end = -1
      /\ WatchTypes
  BY DEF WatchInv, Watching, WatchTypes, Positions
<1>4. till \in Nat /\ watch.at <= till /\ till <= flushed
  BY <1>2, <1>3
<1> HIDE DEF till
<1>5. at \in Nat /\ watch.at <= at /\ at <= till
  BY <1>3, <1>4, JournalAssumption DEF Least
<1> HIDE DEF at, done, told, end
<1>6. told \in Verdicts /\ end \in Nat \cup {-1}
  BY <1>1, <1>4 DEF told, end, Verdicts
<1>7. /\ watch'.at = at /\ watch'.end = end /\ watch'.verdict = told /\ watch'.remote = watch.remote
      /\ watch'.follow = watch.follow /\ watch'.page = watch.page /\ watch'.terminal = watch.terminal
      /\ WatchTypes'
  BY <1>1, <1>3, <1>5, <1>6 DEF WatchTypes
<1>8. flushed' = flushed /\ run' = run /\ finish' = finish /\ record' = record /\ emitted' = emitted
  BY <1>1 DEF diskVars
<1>9. ~watch.remote /\ watch.page = -1
  BY <1>1 DEF WatchInv, Watching, Positions
<1>10. Positions'
  <2>1. at <= flushed /\ (watch.follow => end = -1)
        /\ (~watch.follow => end = till /\ end # -1 /\ at <= end /\ end <= flushed)
    BY <1>2, <1>4, <1>5 DEF end
  <2>2. QED
    BY <1>7, <1>8, <1>9, <2>1 DEF Positions
<1>11. PageHeld'
  BY <1>7, <1>9 DEF PageHeld
<1>12. WatchersAreRight'
  <2>1. CASE ~done
    <3>1. told = "watching"
      BY <1>1, <2>1 DEF told
    <3>2. QED
      BY <1>7, <3>1 DEF WatchersAreRight, WatchOver
  <2>2. CASE done
    <3>1. told \in {"ok", "failed"} /\ at = till
      BY <1>4, <1>5, <2>2 DEF told, done
    <3>2. CASE watch.follow
      <4>1. at \div 2 \in Nat /\ FinishShown(at \div 2)
        BY <1>5, <2>2, <3>2, HalfIs DEF done
      <4>2. run = "finished" /\ OnDisk = at \div 2 /\ (told = "ok" => finish = "succeeded")
        BY <1>2, <2>2, <4>1, EndIs DEF told
      <4>3. OnDisk' = OnDisk
        BY <1>8 DEF OnDisk
      <4>4. QED
        BY <1>7, <1>8, <3>1, <3>2, <4>2, <4>3 DEF WatchersAreRight, WatchOver
    <3>3. CASE ~watch.follow
      <4>1. end = at
        BY <3>1, <3>3 DEF end
      <4>2. QED
        BY <1>7, <3>1, <3>3, <4>1 DEF WatchersAreRight, WatchOver
    <3>4. QED
      BY <3>2, <3>3
  <2>3. QED
    BY <2>1, <2>2
<1>13. QED
  BY <1>2, <1>7, <1>8, <1>10, <1>11, <1>12 DEF WatchInv, Watching

\* A page ends before the end of what is on the disk, and is short only if it
\* reaches it.
LEMMA PageKeeps == ASSUME WatchInv, Page PROVE WatchInv'
<1> DEFINE page == Least(OnDisk - watch.at \div 2, PageEvents)
           end == IF ~watch.follow /\ watch.end = -1 THEN flushed ELSE watch.end
<1>1. /\ watch' = [watch EXCEPT !.page = page, !.end = end]
      /\ watch.verdict = "watching" /\ watch.remote /\ watch.page = -1
      /\ UNCHANGED <<runVars, diskVars, journalVars, run, record>>
  BY DEF Page, Watches
<1>2. JTypes' /\ DiskFits' /\ JTypes /\ DiskFits /\ flushed \in Nat
  BY <1>1 DEF WatchInv, JTypes, DiskFits, runVars, diskVars, journalVars
<1>3. /\ watch.at \in Nat /\ watch.end \in Nat \cup {-1} /\ watch.at <= flushed
      /\ watch.end # -1 => watch.at <= watch.end /\ watch.end <= flushed
      /\ watch.follow => watch.end = -1
      /\ ~watch.follow /\ watch.end = -1 => watch.at = 0
      /\ WatchTypes /\ watch.follow \in BOOLEAN
  BY DEF WatchInv, Watching, WatchTypes, Positions
<1>4. PICK k \in Nat : watch.at = 2 * k
  BY <1>1 DEF WatchInv, Watching, Positions
<1>5. PICK d \in Nat : OnDisk = d /\ 2 * d <= flushed /\ flushed <= 2 * d + 1
  BY <1>2, HalfIs DEF OnDisk
<1>6. watch.at \div 2 = k
  BY <1>3, <1>4, HalfIs
<1>7. page = Least(d - k, PageEvents) /\ k <= d /\ PageEvents \in Nat \ {0}
  <2>1. k <= d
    BY <1>2, <1>3, <1>4, <1>5
  <2>2. page = Least(d - k, PageEvents)
    BY <1>5, <1>6
  <2>3. QED
    BY <2>1, <2>2, JournalAssumption
<1> HIDE DEF page
<1>8. page \in Nat /\ k + page <= d /\ (page < PageEvents => k + page = d)
  BY <1>7 DEF Least
<1>9. end \in Nat \cup {-1} /\ (watch.follow => end = -1)
      /\ (~watch.follow => end # -1 /\ watch.at <= end /\ end <= flushed)
  BY <1>2, <1>3
<1> HIDE DEF end
<1>10. /\ watch'.at = watch.at /\ watch'.end = end /\ watch'.verdict = "watching" /\ watch'.remote
       /\ watch'.follow = watch.follow /\ watch'.page = page /\ watch'.terminal = watch.terminal
       /\ WatchTypes'
  BY <1>1, <1>3, <1>8, <1>9 DEF WatchTypes
<1>11. flushed' = flushed /\ run' = run /\ finish' = finish /\ record' = record /\ emitted' = emitted
  BY <1>1 DEF diskVars
<1>12. Positions'
  BY <1>3, <1>4, <1>9, <1>10, <1>11 DEF Positions
<1>13. PageHeld'
  <2>1. watch.at + 2 * page <= flushed /\ (page < PageEvents => flushed <= watch.at + 2 * page + 1)
    BY <1>2, <1>4, <1>5, <1>8
  <2>2. ~watch.follow /\ page < PageEvents => end <= watch.at + 2 * page + 1
    BY <1>2, <1>3, <1>7, <1>8, <1>9, <2>1
  <2>3. QED
    BY <1>9, <1>10, <1>11, <2>1, <2>2 DEF PageHeld
<1>14. WatchersAreRight'
  BY <1>10 DEF WatchersAreRight, WatchOver
<1>15. QED
  BY <1>2, <1>10, <1>11, <1>12, <1>13, <1>14 DEF WatchInv, Watching

\* The state that is asked for afterwards is that of a run which has ended with
\* all of its journal on the disk, if it is one of which nothing is missing.
LEMMA StateKeeps == ASSUME WatchInv, State PROVE WatchInv'
<1> DEFINE room == IF watch.end > watch.at THEN (watch.end - watch.at) \div 2 ELSE 0
           shown == IF watch.follow THEN watch.page ELSE Least(watch.page, room)
           at == watch.at + 2 * shown
           ended == record \in Over
           says == IF record \in Over \ {"succeeded"} \/ RunFailed(at \div 2) THEN "failed"
                   ELSE IF watch.follow /\ ~FinishShown(at \div 2) THEN "incomplete" ELSE "ok"
           done == Conclude(shown, at, ended)
           told == IF done THEN says ELSE watch.verdict
<1>1. /\ watch' = [watch EXCEPT !.at = at, !.page = -1, !.terminal = ended, !.verdict = told]
      /\ watch.verdict = "watching" /\ watch.remote /\ watch.page # -1
      /\ UNCHANGED <<runVars, diskVars, journalVars, run, record>>
  BY DEF State, Watches
<1>2. JTypes' /\ DiskFits' /\ JTypes /\ DiskFits /\ flushed \in Nat
  BY <1>1 DEF WatchInv, JTypes, DiskFits, runVars, diskVars, journalVars
<1>3. /\ watch.at \in Nat /\ watch.end \in Nat \cup {-1} /\ watch.at <= flushed /\ watch.page \in Nat
      /\ watch.end # -1 => watch.at <= watch.end /\ watch.end <= flushed
      /\ watch.follow => watch.end = -1
      /\ WatchTypes /\ watch.follow \in BOOLEAN
  BY <1>1 DEF WatchInv, Watching, WatchTypes, Positions
<1>4. PICK k \in Nat : watch.at = 2 * k
  BY <1>1 DEF WatchInv, Watching, Positions
<1>5. /\ watch.at + 2 * watch.page <= flushed
      /\ ~watch.follow => /\ watch.end # -1
                          /\ watch.page < PageEvents => watch.end <= watch.at + 2 * watch.page + 1
      /\ watch.terminal /\ watch.page < PageEvents => flushed <= watch.at + 2 * watch.page + 1
  BY <1>1 DEF WatchInv, Watching, PageHeld
<1>6. /\ room \in Nat
      /\ ~watch.follow => 2 * room <= watch.end - watch.at /\ watch.end - watch.at <= 2 * room + 1
  <2>1. CASE watch.end > watch.at
    <3>1. watch.end - watch.at \in Nat
      BY <1>3, <2>1
    <3>2. QED
      BY <2>1, <3>1, HalfIs
  <2>2. CASE ~(watch.end > watch.at)
    BY <1>3, <1>5, <2>2
  <2>3. QED
    BY <2>1, <2>2
<1> HIDE DEF room
<1>7. /\ shown \in Nat /\ shown <= watch.page /\ (watch.follow => shown = watch.page)
      /\ ~watch.follow => shown = Least(watch.page, room) /\ shown <= room
  BY <1>3, <1>6 DEF Least
<1> HIDE DEF shown
<1>8. /\ at = 2 * (k + shown) /\ at \in Nat /\ at <= flushed /\ k + shown \in Nat
      /\ ~watch.follow => watch.end # -1 /\ at <= watch.end
  BY <1>2, <1>3, <1>4, <1>5, <1>6, <1>7
<1>9. at \div 2 = k + shown
  BY <1>8, HalfIs
<1> HIDE DEF at, says, done, told, ended
<1>10. told \in Verdicts /\ ended \in BOOLEAN
  BY <1>1 DEF told, says, ended, Verdicts
<1>11. /\ watch'.at = at /\ watch'.end = watch.end /\ watch'.verdict = told /\ watch'.remote
       /\ watch'.follow = watch.follow /\ watch'.page = -1 /\ watch'.terminal = ended
       /\ WatchTypes'
  BY <1>1, <1>3, <1>8, <1>10 DEF WatchTypes
<1>12. flushed' = flushed /\ run' = run /\ finish' = finish /\ record' = record /\ emitted' = emitted
  BY <1>1 DEF diskVars
<1>13. Positions'
  BY <1>3, <1>8, <1>11, <1>12 DEF Positions
<1>14. PageHeld'
  BY <1>11 DEF PageHeld
<1>15. WatchersAreRight'
  <2>1. CASE ~done
    <3>1. told = "watching"
      BY <1>1, <2>1 DEF told
    <3>2. QED
      BY <1>11, <3>1 DEF WatchersAreRight, WatchOver
  <2>2. CASE done /\ watch.follow
    <3>1. PageEvents \in Nat \ {0}
      BY JournalAssumption
    <3>2. ended /\ ((shown = 0 /\ watch.terminal) \/ FinishShown(at \div 2))
      BY <2>2 DEF done, Conclude
    <3>3. OnDisk = at \div 2 /\ run \in Stopped
      <4>1. CASE FinishShown(at \div 2)
        BY <1>2, <1>8, <1>9, <4>1, EndIs DEF Stopped
      <4>2. CASE shown = 0 /\ watch.terminal
        <5>1. flushed <= 2 * k + 1 /\ 2 * k <= flushed
          BY <1>2, <1>3, <1>4, <1>5, <1>7, <2>2, <3>1, <4>2
        <5>2. flushed = 2 * k \/ flushed = 2 * k + 1
          BY <1>2, <5>1
        <5>3. OnDisk = k
          BY <1>2, <5>2, HalfIs DEF OnDisk
        <5>4. at \div 2 = k
          BY <1>9, <4>2
        <5>5. QED
          BY <1>2, <3>2, <5>3, <5>4 DEF DiskFits, ended
      <4>3. QED
        BY <3>2, <4>1, <4>2
    <3>4. told # "incomplete" /\ (told = "ok" => finish = "succeeded")
      <4>1. CASE record # "succeeded" \/ RunFailed(at \div 2)
        BY <2>2, <3>2, <4>1 DEF told, says, ended
      <4>2. CASE record = "succeeded"
        <5>1. finish = "succeeded" /\ emitted \in Nat /\ flushed = 2 * emitted
          BY <1>2, <4>2 DEF DiskFits, JTypes
        <5>2. OnDisk = emitted
          BY <1>2, <5>1, HalfIs DEF OnDisk
        <5>3. FinishShown(at \div 2)
          BY <3>3, <5>1, <5>2 DEF FinishShown
        <5>4. QED
          BY <2>2, <5>1, <5>3 DEF told, says
      <4>3. QED
        BY <4>1, <4>2
    <3>5. OnDisk' = OnDisk
      BY <1>12 DEF OnDisk
    <3>6. QED
      BY <1>11, <1>12, <2>2, <3>3, <3>4, <3>5 DEF WatchersAreRight, Stopped
  <2>3. CASE done /\ ~watch.follow
    <3>1. PageEvents \in Nat \ {0} /\ watch.end \in Nat /\ room \in Nat
      BY <1>3, <1>5, <1>6, <2>3, JournalAssumption
    <3>2. shown = 0 \/ watch.at + 2 * watch.page >= watch.end
      BY <2>3 DEF done, Conclude
    <3>3. shown = room \/ shown = watch.page
      BY <1>7, <2>3 DEF Least
    <3>4. watch.end = 2 * (k + shown) \/ watch.end = 2 * (k + shown) + 1
      <4>1. CASE shown = room
        BY <1>4, <1>6, <2>3, <3>1, <4>1
      <4>2. CASE shown = watch.page /\ shown < room
        BY <1>3, <1>4, <1>5, <1>6, <1>7, <2>3, <3>1, <3>2, <4>2
      <4>3. QED
        BY <1>7, <2>3, <3>1, <3>3, <4>1, <4>2
    <3>5. watch.end \div 2 = k + shown
      BY <1>8, <3>1, <3>4, HalfIs
    <3>6. told # "incomplete"
      BY <2>3 DEF told, says
    <3>7. QED
      BY <1>9, <1>11, <2>3, <3>5, <3>6 DEF WatchersAreRight
  <2>4. QED
    BY <2>1, <2>2, <2>3
<1>16. ended => record' \in Over
  BY <1>12 DEF ended
<1>17. QED
  BY <1>2, <1>11, <1>12, <1>13, <1>14, <1>15, <1>16 DEF WatchInv, Watching

LEMMA JournalStarts == ASSUME JInit PROVE WatchInv
<1>1. JTypes
  <2>1. <<>> \in Seq(Nat)
    OBVIOUS
  <2>2. QED
    BY <2>1 DEF JInit, JTypes, TaskState, JFinal
<1>2. DiskFits
  BY DEF JInit, DiskFits, Over
<1>3. /\ watch.at = 0 /\ watch.end = -1 /\ watch.page = -1 /\ watch.terminal = FALSE
      /\ watch.verdict \in {"watching", "nobody"} /\ watch.remote \in BOOLEAN /\ WatchTypes
  <2>1. watch \in [remote : BOOLEAN, follow : BOOLEAN, at : {0}, end : {-1}, page : {-1},
                    terminal : {FALSE}, verdict : {"watching", "nobody"}]
    BY DEF JInit
  <2>2. /\ watch.at = 0 /\ watch.end = -1 /\ watch.page = -1 /\ watch.terminal = FALSE
        /\ watch.verdict \in {"watching", "nobody"} /\ watch.remote \in BOOLEAN /\ watch.follow \in BOOLEAN
    BY <2>1
  <2>3. /\ {0} \subseteq Nat /\ {-1} \subseteq Nat \cup {-1} /\ {FALSE} \subseteq BOOLEAN
        /\ {"watching", "nobody"} \subseteq Verdicts
    BY DEF Verdicts
  <2>4. WatchTypes
    BY <2>1, <2>3, Zenon DEF WatchTypes
  <2>5. QED
    BY <2>2, <2>4
<1>4. Positions
  <2>1. 0 = 2 * 0 /\ 0 \in Nat /\ flushed = 0
    BY DEF JInit
  <2>2. QED
    BY <1>3, <2>1 DEF Positions
<1>5. QED
  BY <1>1, <1>2, <1>3, <1>4 DEF WatchInv, Watching, PageHeld, WatchersAreRight, WatchOver

LEMMA WatchStep == ASSUME WatchInv, [JNext]_jVars PROVE WatchInv'
<1>1. JTypes /\ DiskFits
  BY DEF WatchInv
<1>2. ASSUME NEW t \in JTask, TaskStep(t) PROVE WatchInv'
  <2>1. /\ UNCHANGED <<incremental, run, record, watch, emitted, finish, flushed>> /\ JTypes'
    BY <1>1, <1>2, TaskLeaves, TaskTypes
  <2>2. DiskFits' /\ Advances
    BY <1>1, <2>1 DEF DiskFits, Advances, JTypes
  <2>3. QED
    BY <2>1, <2>2, WatchKept
<1>3. ASSUME RunStep PROVE WatchInv'
  BY <1>1, <1>3, RunStepKeeps, WatchKept
<1>4. CASE UNCHANGED jVars
  <2>1. UNCHANGED <<runVars, diskVars, journalVars, run, record, watch>>
    BY <1>4 DEF jVars
  <2>2. JTypes' /\ DiskFits' /\ Advances
    BY <1>1, <2>1 DEF JTypes, DiskFits, Advances, runVars, diskVars, journalVars
  <2>3. QED
    BY <2>1, <2>2, WatchKept
<1>5. QED
  BY <1>2, <1>3, <1>4, PollKeeps, PageKeeps, StateKeeps DEF JNext, RunStep, TaskStep

\* Whoever follows a run to its end has seen all of its journal and is told how
\* it ended, and a snapshot is what was on the disk when it was taken, for any
\* number of tasks, events, pages and polls (cli/src/cmd/watch.rs,
\* watch_remote.rs and the events page of server/src/runs.rs).
THEOREM WatchersStayRight == JSpec => []WatchersAreRight
<1>1. WatchInv => WatchersAreRight
  BY DEF WatchInv, Watching
<1>2. QED
  BY <1>1, JournalStarts, WatchStep, PTL DEF JSpec

-----------------------------------------------------------------------------
(* What the journal says of the tasks. *)

LEMMA AppendKeeps ==
    ASSUME NEW s \in Seq(Nat), NEW e \in Nat, NEW n \in 0..Len(s)
    PROVE  SubSeq(Append(s, e), 1, n) = SubSeq(s, 1, n) /\ n <= Len(Append(s, e))
<1>1. n \in Nat /\ Len(s) \in Nat
  OBVIOUS
<1>2. Append(s, e) \in Seq(Nat) /\ Len(Append(s, e)) = Len(s) + 1
      /\ \A i \in 1..Len(s) : Append(s, e)[i] = s[i]
  BY AppendProperties
<1> DEFINE a == Append(s, e)
<1> HIDE DEF a
<1>3. a \in Seq(Nat) /\ Len(a) = Len(s) + 1 /\ (\A i \in 1..Len(s) : a[i] = s[i]) /\ n \in 0..Len(a)
  BY <1>1, <1>2 DEF a
<1>4. SubSeq(a, 1, n) \in Seq(Nat) /\ Len(SubSeq(a, 1, n)) = n /\ \A i \in 1..n : SubSeq(a, 1, n)[i] = a[i]
  BY <1>3, BeginningIs, Zenon
<1>5. SubSeq(s, 1, n) \in Seq(Nat) /\ Len(SubSeq(s, 1, n)) = n /\ \A i \in 1..n : SubSeq(s, 1, n)[i] = s[i]
  BY BeginningIs, Zenon
<1> DEFINE p == SubSeq(a, 1, n)
           q == SubSeq(s, 1, n)
<1> HIDE DEF p, q
<1>6. p \in Seq(Nat) /\ q \in Seq(Nat) /\ Len(p) = n /\ Len(q) = n /\ \A i \in 1..n : p[i] = q[i]
  <2>1. \A i \in 1..n : a[i] = s[i]
    BY <1>1, <1>3
  <2>2. QED
    BY <1>4, <1>5, <2>1 DEF p, q
<1>7. p = q
  BY <1>6, SeqEqual
<1>8. QED
  BY <1>1, <1>3, <1>7 DEF p, q, a

\* A task that is not in its step keeps what is known of it.
LEMMA OtherTasksKeep ==
    ASSUME NEW t \in JTask, LogOf(t), StateOf(t), tstate'[t] = tstate[t], tries'[t] = tries[t], log'[t] = log[t],
           said'[t] = said[t], logged'[t] = logged[t], offsets'[t] = offsets[t], known'[t] = known[t],
           spans'[t] = spans[t], run' = run
    PROVE  LogOf(t)' /\ StateOf(t)'
  BY DEF LogOf, StateOf, CopiedUpTo

LEMMA TaskKeepsLog == ASSUME Uncut, LogInv, NEW t \in JTask, TaskStep(t) PROVE LogInv'
<1>1. /\ UNCHANGED <<incremental, run, emitted, logged, finish, flushed, known, offsets, drained, spans>>
      /\ run \in {"running", "flushing"} /\ JTypes'
  BY TaskLeaves, TaskTypes DEF LogInv
<1>2. /\ LogOf(t) /\ StateOf(t) /\ JTypes /\ MaxTries \in Nat \ {0}
  BY JournalAssumption DEF LogInv
<1>3. /\ log[t] \in Seq(Nat) /\ said[t] \in Seq(Nat) /\ offsets[t] \in Nat /\ tries[t] \in Nat
      /\ tstate[t] \in TaskState /\ known[t] \in TaskState
  BY <1>2 DEF JTypes
<1>4. ASSUME NEW u \in JTask, u # t PROVE LogOf(u)' /\ StateOf(u)'
  <2>1. tstate'[u] = tstate[u] /\ tries'[u] = tries[u]
    BY <1>2, <1>4 DEF TaskStep, LookUp, LookedUp, StartTask, Write, EndTask, AbortTask, Becomes, JTypes
  <2>2. log'[u] = log[u] /\ said'[u] = said[u]
    BY <1>2, <1>4 DEF TaskStep, LookUp, LookedUp, StartTask, Write, EndTask, AbortTask, Becomes, JTypes
  <2>3. LogOf(u) /\ StateOf(u)
    BY <1>4 DEF LogInv
  <2>4. QED
    BY <1>1, <2>1, <2>2, <2>3, OtherTasksKeep
<1> DEFINE n == Len(said[t]) + 1
<1>5. ASSUME Write(t) PROVE LogOf(t)' /\ StateOf(t)'
  <2>1. /\ tstate[t] \notin {"pending", "missed"} /\ log' = [log EXCEPT ![t] = Append(@, n)]
        /\ said' = IF tstate[t] = "preparing" THEN said ELSE [said EXCEPT ![t] = Append(@, n)]
        /\ UNCHANGED <<tstate, tries>>
    BY <1>5 DEF Write
  <2>2. n \in Nat /\ offsets[t] \in 0..Len(said[t])
    BY <1>2, <1>3 DEF LogOf, CopiedUpTo
  <2> HIDE DEF n
  <2>3. CASE tstate[t] = "preparing"
    <3>1. said' = said
      BY <2>1, <2>3
    <3>2. QED
      BY <1>1, <1>2, <2>1, <2>3, <3>1 DEF LogOf, StateOf, CopiedUpTo
  <2>4. CASE tstate[t] # "preparing"
    <3>1. said'[t] = Append(said[t], n) /\ log'[t] = Append(said[t], n)
      BY <1>2, <2>1, <2>4 DEF JTypes, LogOf
    <3>2. SubSeq(said'[t], 1, offsets[t]) = SubSeq(said[t], 1, offsets[t]) /\ offsets[t] <= Len(said'[t])
      BY <1>3, <2>2, <3>1, AppendKeeps
    <3>3. CopiedUpTo(t)'
      BY <1>1, <1>2, <3>2 DEF CopiedUpTo, LogOf
    <3>4. LogOf(t)'
      BY <1>2, <2>1, <2>4, <3>1, <3>3 DEF LogOf
    <3>5. StateOf(t)'
      BY <1>1, <1>2, <2>1 DEF StateOf
    <3>6. QED
      BY <3>4, <3>5
  <2>5. QED
    BY <2>3, <2>4
\* The others are steps of a task that the journal has seen in its state.
<1>6. ASSUME NEW s, Seen(t, s), s \notin JFinal, tries'[t] \in Nat PROVE StateOf(t)'
  <2>1. run = "running" /\ known[t] = s
    BY <1>6 DEF Seen
  <2>2. QED
    BY <1>1, <1>2, <1>6, <2>1 DEF StateOf
<1>7. ASSUME NEW s, Becomes(t, s) PROVE tstate'[t] = s
  BY <1>2, <1>7 DEF Becomes, JTypes
<1>8. tries'[t] \in Nat
  BY <1>1 DEF JTypes
<1>9. ASSUME LookUp(t) PROVE LogOf(t)' /\ StateOf(t)'
  <2>1. Seen(t, "pending") /\ t \in JCached /\ tstate'[t] = "preparing" /\ UNCHANGED <<tries, log, said>>
    BY <1>7, <1>9 DEF LookUp
  <2>2. tstate[t] = "pending" /\ said[t] = <<>> /\ tries[t] = 0
    BY <1>2, <2>1 DEF Seen, LogOf
  <2>3. LogOf(t)'
    BY <1>1, <1>2, <2>1, <2>2 DEF LogOf, CopiedUpTo
  <2>4. QED
    BY <1>6, <1>8, <2>1, <2>3 DEF JFinal
<1>10. ASSUME LookedUp(t) PROVE LogOf(t)' /\ StateOf(t)'
  <2>1. /\ Seen(t, "preparing") /\ tries' = tries
        /\ \/ tstate'[t] \in {"succeeded", "cancelled"} /\ said' = [said EXCEPT ![t] = log[t]] /\ log' = log
           \/ tstate'[t] = "missed" /\ log' = [log EXCEPT ![t] = <<>>] /\ said' = said
    BY <1>7, <1>10 DEF LookedUp
  <2>2. tstate[t] = "preparing" /\ said[t] = <<>> /\ offsets[t] = 0 /\ logged[t] = SubSeq(<<>>, 1, 0)
    <3>1. tstate[t] = "preparing" /\ said[t] = <<>>
      BY <1>2, <2>1 DEF Seen, LogOf
    <3>2. offsets[t] <= Len(<<>>) /\ logged[t] = SubSeq(<<>>, 1, offsets[t])
      BY <1>2, <3>1 DEF LogOf, CopiedUpTo
    <3>3. offsets[t] = 0
      BY <1>3, <3>2
    <3>4. QED
      BY <3>1, <3>2, <3>3
  <2>3. SubSeq(<<>>, 1, 0) = <<>> /\ SubSeq(log[t], 1, 0) = <<>> /\ Len(log[t]) \in Nat
    BY <1>3, SubSeqEmpty
  <2>4. CASE tstate'[t] = "missed"
    <3>1. log'[t] = <<>> /\ said'[t] = <<>>
      BY <1>2, <2>1, <2>2, <2>4 DEF JTypes
    <3>2. QED
      BY <1>1, <1>2, <1>6, <1>8, <2>1, <2>2, <2>4, <3>1 DEF LogOf, CopiedUpTo, JFinal
  <2>5. CASE tstate'[t] \in {"succeeded", "cancelled"}
    <3>1. log'[t] = log[t] /\ said'[t] = log[t]
      BY <1>2, <2>1, <2>5 DEF JTypes
    <3>2. CopiedUpTo(t)'
      BY <1>1, <2>2, <2>3, <3>1 DEF CopiedUpTo
    <3>3. QED
      BY <1>1, <1>2, <1>6, <1>8, <2>1, <2>5, <3>1, <3>2 DEF LogOf, JFinal
  <2>6. QED
    BY <2>1, <2>4, <2>5
<1>11. ASSUME StartTask(t) PROVE LogOf(t)' /\ StateOf(t)'
  <2>1. /\ Seen(t, "pending") \/ Seen(t, "missed")
        /\ tstate'[t] = "running" /\ UNCHANGED <<tries, said>>
        /\ log'[t] = IF t \in JNative THEN <<>> ELSE log[t]
    BY <1>2, <1>7, <1>11 DEF StartTask, JTypes
  <2>2. tstate[t] \in {"pending", "missed"} /\ log[t] = said[t] /\ tries[t] < MaxTries
    BY <1>2, <2>1 DEF Seen, LogOf
  <2>3. log'[t] = said'[t]
    <3>1. CASE t \in JNative
      <4>1. tries[t] = 0
        BY <1>2, <1>3, <2>2, <3>1 DEF Uncut
      <4>2. said[t] = <<>>
        BY <1>2, <2>2, <4>1 DEF LogOf
      <4>3. QED
        BY <2>1, <3>1, <4>2
    <3>2. CASE t \notin JNative
      BY <2>1, <2>2, <3>2
    <3>3. QED
      BY <3>1, <3>2
  <2>4. LogOf(t)'
    BY <1>1, <1>2, <2>1, <2>3 DEF LogOf, CopiedUpTo
  <2>5. QED
    BY <1>6, <1>8, <2>1, <2>4 DEF JFinal
<1>12. ASSUME EndTask(t) PROVE LogOf(t)' /\ StateOf(t)'
  <2>1. /\ Seen(t, "running") /\ tries'[t] = tries[t] + 1 /\ UNCHANGED <<log, said>>
        /\ \/ tstate'[t] \in JFinal
           \/ tries'[t] < MaxTries /\ tstate'[t] = IF t \in JCached THEN "missed" ELSE "pending"
    BY <1>2, <1>7, <1>12 DEF EndTask, JTypes
  <2>2. tstate[t] = "running" /\ log[t] = said[t] /\ tries'[t] # 0
    BY <1>2, <1>3, <2>1 DEF Seen, LogOf
  <2>3. LogOf(t)'
    BY <1>1, <1>2, <2>1, <2>2 DEF LogOf, CopiedUpTo, JFinal
  <2>4. QED
    BY <1>6, <1>8, <2>1, <2>3 DEF JFinal
<1>13. ASSUME AbortTask(t) PROVE LogOf(t)' /\ StateOf(t)'
  <2>1. /\ Seen(t, "pending") \/ Seen(t, "missed")
        /\ tstate'[t] = "cancelled" /\ UNCHANGED <<tries, log, said>>
    BY <1>7, <1>13 DEF AbortTask
  <2>2. log[t] = said[t]
    BY <1>2, <2>1 DEF Seen, LogOf
  <2>3. LogOf(t)'
    BY <1>1, <1>2, <2>1, <2>2 DEF LogOf, CopiedUpTo
  <2>4. QED
    BY <1>6, <1>8, <2>1, <2>3 DEF JFinal
<1>14. LogOf(t)' /\ StateOf(t)'
  BY <1>5, <1>9, <1>10, <1>11, <1>12, <1>13 DEF TaskStep
<1>15. QED
  BY <1>1, <1>4, <1>14 DEF LogInv

\* A tick copies the log from where the last one has left off.
LEMMA TickKeepsLog == ASSUME LogInv, Tick PROVE LogInv'
<1> DEFINE all == \A t \in JTask : tstate[t] \in JFinal
           looked == IF all \/ ~incremental THEN JTask
                     ELSE {t \in JTask : tstate[t] # known[t] \/ tstate[t] = "running"}
<1>1. /\ logged' = [t \in JTask |-> logged[t] \o IF t \in looked THEN Lines(t, all) ELSE <<>>]
      /\ offsets' = [t \in JTask |-> offsets[t] + IF t \in looked THEN Tailed(t, all) ELSE 0]
      /\ run' = IF all THEN "drained" ELSE "flushing"
  BY DEF Tick
<1>2. all \in BOOLEAN /\ (all => looked = JTask /\ \A t \in JTask : tstate[t] \in JFinal)
  OBVIOUS
<1> HIDE DEF all, looked
<1>3. /\ JTypes /\ JTypes' /\ run = "running" /\ run' \in {"drained", "flushing"}
      /\ UNCHANGED <<tstate, tries, log, said>> /\ known' = tstate /\ spans' = [t \in JTask |-> SpanOf(t)]
  BY TickLeaves, TickTypes DEF LogInv, runVars
<1>4. ASSUME NEW t \in JTask PROVE LogOf(t)' /\ StateOf(t)'
  <2> DEFINE n == offsets[t]
             k == IF t \in looked THEN Tailed(t, all) ELSE 0
             s == said[t]
  <2>1. LogOf(t) /\ StateOf(t) /\ log[t] \in Seq(Nat) /\ s \in Seq(Nat) /\ logged[t] \in Seq(Nat) /\ n \in Nat
    BY <1>3 DEF LogInv, JTypes
  <2>2. n \in 0..Len(s) /\ logged[t] = SubSeq(s, 1, n)
    BY <2>1 DEF LogOf, CopiedUpTo
  <2>3. /\ k \in Nat /\ (k > 0 => tstate[t] # "preparing" /\ n + k <= Len(log[t]))
        /\ all => n + k = Len(s)
    <3>1. /\ Backlog(t) \in Nat /\ Tailed(t, all) \in Nat /\ Tailed(t, all) <= Backlog(t)
          /\ Tailed(t, all) > 0 => Len(log[t]) = n + Backlog(t)
      BY <1>2, <1>3, TailedIs
    <3>2. Tailed(t, all) > 0 => tstate[t] # "preparing"
      BY DEF Tailed, Muted
    <3>3. ASSUME all PROVE n + k = Len(s)
      <4>1. tstate[t] \in JFinal /\ k = Tailed(t, all)
        BY <1>2, <3>3
      <4>2. Tailed(t, all) = Backlog(t) /\ log[t] = s
        BY <2>1, <3>3, <4>1 DEF Tailed, Muted, JFinal, LogOf
      <4>3. QED
        BY <2>1, <2>2, <4>1, <4>2 DEF Backlog
    <3>4. QED
      BY <2>1, <3>1, <3>2, <3>3
  <2>4. logged'[t] = logged[t] \o SubSeq(s, n + 1, n + k)
    <3>1. logged'[t] = logged[t] \o IF t \in looked THEN Lines(t, all) ELSE <<>>
      BY <1>1
    <3>2. CASE k = 0
      <4>1. n + 1 \in Int /\ n + 0 \in Int /\ n + 0 < n + 1
        BY <2>1
      <4>2. SubSeq(s, n + 1, n + 0) = <<>> /\ SubSeq(log[t], n + 1, n + 0) = <<>>
        BY <4>1, SubSeqEmpty
      <4>3. QED
        BY <3>1, <3>2, <4>2 DEF Lines
    <3>3. CASE k > 0
      <4>1. log[t] = s /\ t \in looked
        BY <2>1, <2>3, <3>3 DEF LogOf
      <4>2. QED
        BY <3>1, <4>1 DEF Lines
    <3>4. k = 0 \/ k > 0
      BY <2>3
    <3>5. QED
      BY <3>2, <3>3, <3>4, Zenon
  <2>5. n + k \in 0..Len(s)
    <3>1. k > 0 => log[t] = s
      BY <2>1, <2>3 DEF LogOf
    <3>2. QED
      BY <2>1, <2>2, <2>3, <3>1
  <2>6. offsets'[t] = n + k
    BY <1>1
  <2> HIDE DEF n, k, s
  <2>7. SubSeq(s, 1, n) \o SubSeq(s, n + 1, n + k) = SubSeq(s, 1, n + k)
    <3> DEFINE m == n + k
    <3>1. m \in n..Len(s) /\ n \in (1 - 1)..Len(s) /\ 1 \in 1..(Len(s) + 1)
      BY <2>1, <2>2, <2>3, <2>5
    <3> HIDE DEF m
    <3>2. SubSeq(s, 1, n) \o SubSeq(s, n + 1, m) = SubSeq(s, 1, m)
      BY <2>1, <3>1, ConcatAdjacentSubSeq
    <3>3. QED
      BY <3>2 DEF m
  <2>8. said'[t] = s
    BY <1>3 DEF s
  <2>9. CopiedUpTo(t)'
    BY <2>2, <2>4, <2>5, <2>6, <2>7, <2>8 DEF CopiedUpTo
  <2>10. LogOf(t)'
    BY <1>3, <2>1, <2>9 DEF LogOf
  <2>11. StateOf(t)'
    <3>1. known'[t] = tstate[t] /\ tstate'[t] = tstate[t] /\ spans'[t] = SpanOf(t)
      BY <1>3
    <3>2. SpanOf(t) = IF tstate[t] \in JFinal THEN tstate[t] ELSE "open"
      BY <1>3, <2>1 DEF SpanOf, StateOf
    <3>3. run' = "drained" => all
      BY <1>1
    <3>4. run' # "finished" /\ run' # "crashed"
      BY <1>3
    <3>5. all => tstate[t] \in JFinal /\ offsets'[t] = Len(said'[t])
      BY <1>2, <2>3, <2>6, <2>8 DEF n, k, s
    <3>6. QED
      BY <3>1, <3>2, <3>3, <3>4, <3>5 DEF StateOf
  <2>12. QED
    BY <2>10, <2>11
<1>5. QED
  BY <1>3, <1>4 DEF LogInv

LEMMA RunKeepsLog == ASSUME LogInv, DiskFits, RunStep PROVE LogInv'
<1>1. JTypes'
  BY RunStepKeeps DEF LogInv
<1>2. ASSUME StartRun \/ Flush \/ JFinish \/ Spill \/ Settle PROVE LogInv'
  <2>1. /\ UNCHANGED <<tstate, tries, log, said, logged, known, offsets, spans>>
        /\ run' \in {"drained", "finished"} => run \in {"drained", "finished"}
        /\ run = "crashed" => run' = "crashed"
    <3>1. CASE StartRun \/ Flush \/ JFinish \/ Spill
      BY <3>1 DEF StartRun, Flush, JFinish, Spill, runVars, diskVars, journalVars
    <3>2. CASE Settle
      BY <3>2 DEF Settle, runVars, diskVars, journalVars
    <3>3. QED
      BY <1>2, <3>1, <3>2
  <2>2. ASSUME NEW t \in JTask PROVE LogOf(t)' /\ StateOf(t)'
    <3>1. LogOf(t) /\ StateOf(t)
      BY DEF LogInv
    <3>2. QED
      BY <2>1, <3>1 DEF LogOf, StateOf, CopiedUpTo
  <2>3. QED
    BY <1>1, <2>2 DEF LogInv
<1>3. ASSUME CrashRun PROVE LogInv'
  <2>1. UNCHANGED <<tstate, tries, log, said, logged, known, offsets>> /\ run' = "crashed"
    BY <1>3 DEF CrashRun, runVars, diskVars
  <2>2. ASSUME NEW t \in JTask PROVE LogOf(t)' /\ StateOf(t)'
    <3>1. LogOf(t) /\ StateOf(t)
      BY DEF LogInv
    <3>2. QED
      BY <2>1, <3>1 DEF LogOf, StateOf, CopiedUpTo
  <2>3. QED
    BY <1>1, <2>2 DEF LogInv
<1>4. QED
  BY <1>2, <1>3, TickKeepsLog DEF RunStep, JRun

LEMMA JournalStep == ASSUME Uncut, LogInv, WatchInv, [JNext]_jVars PROVE LogInv'
<1>1. ASSUME UNCHANGED <<runVars, diskVars, journalVars, run, record>> PROVE LogInv'
  <2>1. JTypes'
    BY <1>1 DEF LogInv, JTypes, runVars, diskVars, journalVars
  <2>2. ASSUME NEW t \in JTask PROVE LogOf(t)' /\ StateOf(t)'
    BY <1>1, <2>2 DEF LogInv, LogOf, StateOf, CopiedUpTo, runVars, diskVars, journalVars
  <2>3. QED
    BY <2>1, <2>2 DEF LogInv
<1>2. ASSUME Poll \/ Page \/ State \/ UNCHANGED jVars
      PROVE  UNCHANGED <<runVars, diskVars, journalVars, run, record>>
  BY <1>2 DEF Poll, Page, State, Watches, jVars
<1>3. ASSUME RunStep PROVE LogInv'
  BY <1>3, RunKeepsLog DEF WatchInv
<1>4. ASSUME NEW t \in JTask, TaskStep(t) PROVE LogInv'
  BY <1>4, TaskKeepsLog
<1>5. QED
  BY <1>1, <1>2, <1>3, <1>4 DEF JNext, RunStep, TaskStep

LEMMA LogStarts == ASSUME JInit PROVE LogInv
<1>1. JTypes
  BY JournalStarts DEF WatchInv
<1>2. ASSUME NEW t \in JTask PROVE LogOf(t) /\ StateOf(t)
  <2>1. /\ tstate[t] = "pending" /\ tries[t] = 0 /\ log[t] = <<>> /\ said[t] = <<>> /\ logged[t] = <<>>
        /\ known[t] = "pending" /\ offsets[t] = 0 /\ spans[t] = "open" /\ run = "queued"
    BY DEF JInit
  <2>2. Len(<<>>) = 0 /\ SubSeq(<<>>, 1, 0) = <<>>
    BY SubSeqEmpty
  <2>3. MaxTries \in Nat \ {0}
    BY JournalAssumption
  <2>4. QED
    BY <2>1, <2>2, <2>3 DEF LogOf, StateOf, CopiedUpTo, JFinal
<1>3. QED
  BY <1>1, <1>2 DEF LogInv

LEMMA LogIsTrue == ASSUME LogInv, DiskFits PROVE JournalIsTrue
<1> SUFFICES ASSUME NEW t \in JTask
             PROVE  /\ IsPrefix(logged[t], said[t])
                    /\ run \in {"drained", "finished"} =>
                         logged[t] = said[t] /\ known[t] = tstate[t] /\ spans[t] = tstate[t]
  BY DEF JournalIsTrue
<1>1. LogOf(t) /\ StateOf(t) /\ said[t] \in Seq(Nat) /\ offsets[t] \in 0..Len(said[t])
      /\ logged[t] = SubSeq(said[t], 1, offsets[t])
  <2>1. LogOf(t) /\ StateOf(t) /\ said[t] \in Seq(Nat) /\ offsets[t] \in Nat
    BY DEF LogInv, JTypes
  <2>2. QED
    BY <2>1 DEF LogOf, CopiedUpTo
<1>2. IsPrefix(logged[t], said[t])
  BY <1>1, BeginningIs, Zenon
<1>3. SubSeq(said[t], 1, Len(said[t])) = said[t]
  BY <1>1, SubSeqFull
<1>4. QED
  BY <1>1, <1>2, <1>3 DEF StateOf

\* What the journal says of a task is what the task has said, in order and once,
\* and all of it when the run is over, for any tasks, output, attempts and ticks,
\* if the log of a native task is not cut by a second attempt (Journal::update).
THEOREM JournalStaysTrue == ASSUME Uncut PROVE JSpec => []JournalIsTrue
<1>1. JInit => LogInv /\ WatchInv
  BY LogStarts, JournalStarts
<1>2. LogInv /\ WatchInv /\ [JNext]_jVars => (LogInv /\ WatchInv)'
  BY JournalStep, WatchStep
<1>3. LogInv /\ WatchInv => JournalIsTrue
  BY LogIsTrue DEF WatchInv
<1>4. QED
  BY <1>1, <1>2, <1>3, PTL DEF JSpec

\* The same of the part "journal" that a run explores.
THEOREM JournalStaysRight == ASSUME Uncut PROVE PartsSpec => []JournalHolds
<1> DEFINE Holds == part = "journal" => LogInv /\ WatchInv
           All == <<part, vars, pageVars, productVars, jVars>>
<1>1. PartsInit => Holds
  BY LogStarts, JournalStarts DEF PartsInit, MCJInit
<1>2. Holds /\ [PartsNext]_All => Holds'
  <2> SUFFICES ASSUME Holds, [PartsNext]_All, part' = "journal" PROVE (LogInv /\ WatchInv)'
    OBVIOUS
  <2>1. part' = part /\ [JNext]_jVars
    BY DEF PartsNext, MCJNext
  <2>2. LogInv /\ WatchInv
    BY <2>1
  <2>3. QED
    BY <2>1, <2>2, JournalStep, WatchStep
<1>3. Holds => JournalHolds
  <2>1. LogInv /\ WatchInv => JournalIsTrue /\ WatchersAreRight
    BY LogIsTrue DEF WatchInv, Watching
  <2>2. QED
    BY <2>1 DEF JournalHolds
<1>4. QED
  BY <1>1, <1>2, <1>3, PTL DEF PartsSpec

-----------------------------------------------------------------------------
(* RunPages: the order of the keys, and a page. *)

LEMMA KeysAreOrdered ==
    /\ \A k \in RunKey : ~Before(k, k)
    /\ \A k, l \in RunKey : k = l \/ Before(k, l) \/ Before(l, k)
    /\ \A k, l, m \in RunKey : Before(k, l) /\ Before(l, m) => Before(k, m)
    /\ \A k, l \in RunKey : ~(Before(k, l) /\ Before(l, k))
<1>1. \A k \in RunKey : k = <<k[1], k[2]>> /\ k[1] \in Nat /\ k[2] \in Nat
  <2>1. RunIds \subseteq Nat /\ Times \subseteq Nat
    BY PagesAssumption
  <2>2. \A k \in Times \X RunIds : k = <<k[1], k[2]>> /\ k[1] \in Times /\ k[2] \in RunIds
    OBVIOUS
  <2>3. QED
    BY <2>1, <2>2 DEF RunKey
<1>2. ASSUME NEW a \in Nat, NEW b \in Nat, NEW c \in Nat, NEW d \in Nat, NEW e \in Nat, NEW f \in Nat
      PROVE  /\ ~(a < a \/ (a = a /\ b < b))
             /\ (a = c /\ b = d) \/ (a < c \/ (a = c /\ b < d)) \/ (c < a \/ (c = a /\ d < b))
             /\ (a < c \/ (a = c /\ b < d)) /\ (c < e \/ (c = e /\ d < f)) => (a < e \/ (a = e /\ b < f))
             /\ ~((a < c \/ (a = c /\ b < d)) /\ (c < a \/ (c = a /\ d < b)))
  OBVIOUS
<1>3. \A k \in RunKey : ~Before(k, k)
  BY <1>1, <1>2 DEF Before
<1>4. ASSUME NEW k \in RunKey, NEW l \in RunKey PROVE k = l \/ Before(k, l) \/ Before(l, k)
  <2>1. (k[1] = l[1] /\ k[2] = l[2]) \/ Before(k, l) \/ Before(l, k)
    BY <1>1, <1>2 DEF Before
  <2>2. k[1] = l[1] /\ k[2] = l[2] => k = l
    BY <1>1
  <2>3. QED
    BY <2>1, <2>2
<1>5. ASSUME NEW k \in RunKey, NEW l \in RunKey, NEW m \in RunKey, Before(k, l), Before(l, m) PROVE Before(k, m)
  BY <1>1, <1>2, <1>5 DEF Before
<1>6. ASSUME NEW k \in RunKey, NEW l \in RunKey, Before(k, l), Before(l, k) PROVE FALSE
  BY <1>1, <1>2, <1>6 DEF Before
<1>7. QED
  BY <1>3, <1>4, <1>5, <1>6

\* Places are numbers, each key has its own, and the newer one has the lower.
LEMMA RanksAre ==
    ASSUME NEW S, S \subseteq RunKey, IsFiniteSet(S)
    PROVE  /\ Cardinality(S) \in Nat
           /\ \A k \in S : Rank(S, k) \in 1..Cardinality(S)
           /\ \A k, l \in S : Before(k, l) => Rank(S, l) < Rank(S, k)
           /\ \A i \in 1..Cardinality(S) : \E k \in S : Rank(S, k) = i
<1> DEFINE n == Cardinality(S)
           Upto(k) == {l \in S : l = k \/ Before(k, l)}
<1>1. n \in Nat
  BY FS_CardinalityType
<1>2. ASSUME NEW k \in S
      PROVE  /\ IsFiniteSet(Upto(k)) /\ Rank(S, k) = Cardinality(Upto(k))
             /\ Rank(S, k) \in Nat /\ Rank(S, k) \in 1..n
  <2>1. Upto(k) \subseteq S /\ k \in Upto(k)
    OBVIOUS
  <2>2. IsFiniteSet(Upto(k)) /\ Cardinality(Upto(k)) <= n /\ Cardinality(Upto(k)) \in Nat
    BY <2>1, FS_Subset, FS_CardinalityType
  <2>3. Cardinality(Upto(k)) # 0
    BY <2>1, <2>2, FS_EmptySet
  <2>4. Rank(S, k) = Cardinality(Upto(k))
    BY DEF Rank
  <2>5. QED
    BY <1>1, <2>2, <2>3, <2>4
<1>3. ASSUME NEW k \in S, NEW l \in S, Before(k, l) PROVE Rank(S, l) < Rank(S, k)
  <2>1. k \in RunKey /\ l \in RunKey /\ \A m \in S : m \in RunKey
    OBVIOUS
  <2>2. \A m \in S : Before(l, m) => Before(k, m)
    BY <1>3, <2>1, KeysAreOrdered
  <2>3. Upto(l) \subseteq Upto(k)
    BY <1>3, <2>2
  <2>4. k \in Upto(k) /\ k \notin Upto(l)
    BY <1>3, <2>1, KeysAreOrdered
  <2>5. Cardinality(Upto(l)) <= Cardinality(Upto(k))
        /\ (Cardinality(Upto(l)) = Cardinality(Upto(k)) => Upto(l) = Upto(k))
    BY <1>2, <2>3, FS_Subset
  <2>6. Rank(S, l) = Cardinality(Upto(l)) /\ Rank(S, k) = Cardinality(Upto(k))
        /\ Rank(S, l) \in Nat /\ Rank(S, k) \in Nat
    BY <1>2
  <2>7. Upto(l) # Upto(k)
    BY <2>4
  <2> HIDE DEF Upto
  <2>8. QED
    BY <2>5, <2>6, <2>7
<1> DEFINE f == [k \in S |-> Rank(S, k)]
<1>4. f \in Injection(S, 1..n)
  <2>1. f \in [S -> 1..n] /\ \A k \in S : f[k] = Rank(S, k)
    BY <1>2
  <2>2. ASSUME NEW k \in S, NEW l \in S, Rank(S, k) = Rank(S, l) PROVE k = l
    <3>1. Rank(S, k) \in Nat /\ Rank(S, l) \in Nat
      BY <1>2
    <3>2. ~Before(k, l) /\ ~Before(l, k)
      BY <1>3, <2>2, <3>1
    <3>3. QED
      BY <3>2, KeysAreOrdered
  <2> HIDE DEF f
  <2>3. QED
    BY <2>1, <2>2 DEF Injection, IsInjective
<1>5. f \in Surjection(S, 1..n)
  <2>1. IsFiniteSet(1..n) /\ Cardinality(1..n) = n
    BY <1>1, UpToIs
  <2> HIDE DEF f
  <2>2. QED
    BY <1>1, <1>4, <2>1, FS_Injection
<1>6. \A i \in 1..n : \E k \in S : Rank(S, k) = i
  BY <1>5 DEF Surjection
<1>7. QED
  BY <1>1, <1>2, <1>3, <1>6

Sorted(s) == \A i, j \in 1..Len(s) : i < j => Before(s[j], s[i])
In(s, k) == \E i \in 1..Len(s) : k = s[i]

\* The n newest keys of a set, in their order; c is how many there are.
IsPage(p, S, n, c) ==
    /\ p \in Seq(S) /\ c \in Nat /\ Len(p) = (IF n < c THEN n ELSE c) /\ Sorted(p)
    /\ \A i \in 1..Len(p), k \in S : k = p[i] \/ Before(k, p[i]) \/ \E j \in 1..Len(p) : j < i /\ k = p[j]
    /\ c <= n => \A k \in S : In(p, k)

LEMMA PageIs ==
    ASSUME NEW S, S \subseteq RunKey, IsFiniteSet(S), NEW n \in Nat
    PROVE  IsPage(NewestFirst(S, n), S, n, Cardinality(S))
<1>1. PICK c \in Nat : c = Cardinality(S)
  BY FS_CardinalityType
<1>2. /\ \A k \in S : Rank(S, k) \in 1..c
      /\ \A k, l \in S : Before(k, l) => Rank(S, l) < Rank(S, k)
      /\ \A i \in 1..c : \E k \in S : Rank(S, k) = i
  BY <1>1, RanksAre
<1>3. PICK m \in Nat : m = (IF n < c THEN n ELSE c) /\ m <= c /\ m <= n
  OBVIOUS
<1>4. Min({n, Cardinality(S)}) = m
  <2>1. m \in {n, c} /\ \A y \in {n, c} : m <= y
    BY <1>3
  <2>2. \A x \in {n, c} : (\A y \in {n, c} : x <= y) => x = m
    BY <1>3
  <2>3. QED
    BY <1>1, <2>1, <2>2 DEF Min
<1> DEFINE p == NewestFirst(S, n)
<1>5. p \in [1..m -> S] /\ \A i \in 1..m : Rank(S, p[i]) = i
  <2>1. p = [i \in 1..m |-> CHOOSE k \in S : Rank(S, k) = i]
    BY <1>4 DEF NewestFirst
  <2>2. \A i \in 1..m : \E k \in S : Rank(S, k) = i
    BY <1>2, <1>3
  <2> HIDE DEF p
  <2>3. QED
    BY <2>1, <2>2
<1> HIDE DEF p
<1>6. p \in Seq(S) /\ Len(p) = m
  BY <1>5
<1>7. \A k \in S : k \in RunKey
  OBVIOUS
<1>8. ASSUME NEW i \in 1..m, NEW k \in S, Rank(S, k) < i PROVE Rank(S, k) \in 1..m
  BY <1>2, <1>8
<1>9. ASSUME NEW k \in S, NEW l \in S, Rank(S, k) = Rank(S, l) PROVE k = l
  <2>1. Rank(S, k) \in Nat /\ Rank(S, l) \in Nat
    BY <1>2
  <2>2. ~Before(k, l) /\ ~Before(l, k)
    BY <1>2, <1>9, <2>1
  <2>3. QED
    BY <1>7, <2>2, KeysAreOrdered
<1>10. ASSUME NEW k \in S, NEW l \in S, Rank(S, k) < Rank(S, l) PROVE Before(l, k)
  <2>1. Rank(S, k) \in Nat /\ Rank(S, l) \in Nat
    BY <1>2
  <2>2. k # l /\ ~Before(k, l)
    BY <1>2, <1>10, <2>1
  <2>3. QED
    BY <1>7, <2>2, KeysAreOrdered
<1>11. \A i, j \in 1..m : i < j => Before(p[j], p[i])
  BY <1>5, <1>10
<1>12. ASSUME NEW i \in 1..m, NEW k \in S
       PROVE  k = p[i] \/ Before(k, p[i]) \/ \E j \in 1..m : j < i /\ k = p[j]
  <2>1. p[i] \in S /\ Rank(S, p[i]) = i /\ Rank(S, k) \in Nat
    BY <1>2, <1>5
  <2>2. CASE Rank(S, k) = i
    BY <1>9, <2>1, <2>2
  <2>3. CASE i < Rank(S, k)
    BY <1>10, <2>1, <2>3
  <2>4. CASE Rank(S, k) < i
    <3> DEFINE j == Rank(S, k)
    <3>1. j \in 1..m /\ j < i
      BY <1>8, <2>4
    <3>2. p[j] \in S /\ Rank(S, p[j]) = j
      BY <1>5, <3>1
    <3>3. k = p[j]
      BY <1>9, <3>2
    <3>4. QED
      BY <3>1, <3>3
  <2>5. QED
    BY <2>1, <2>2, <2>3, <2>4
<1>13. ASSUME c <= n, NEW k \in S PROVE \E j \in 1..m : k = p[j]
  <2> DEFINE j == Rank(S, k)
  <2>1. j \in 1..m
    BY <1>2, <1>3, <1>13
  <2>2. p[j] \in S /\ Rank(S, p[j]) = j
    BY <1>5, <2>1
  <2>3. k = p[j]
    BY <1>9, <2>2
  <2>4. QED
    BY <2>1, <2>3
<1>14. QED
  BY <1>1, <1>3, <1>6, <1>11, <1>12, <1>13 DEF p, IsPage, Sorted, In

-----------------------------------------------------------------------------
(* RunPages: the inductive invariant. *)

PageTypes ==
    /\ kept \subseteq RunKey /\ IsFiniteSet(kept) /\ halfway \subseteq kept
    /\ indexed \subseteq kept /\ present \subseteq indexed
    /\ limit \in Nat \ {0} /\ listed \in Seq(RunKey)
    /\ cursor \in RunKey \cup {NoCursor, TheEnd}

\* Whatever was there when the client began is in the list or below the cursor,
\* and everything in the list is at the cursor or above it.
PagesFit ==
    /\ Sorted(listed) /\ \A i \in 1..Len(listed) : listed[i] \in kept
    /\ cursor = NoCursor => listed = <<>>
    /\ cursor = TheEnd => \A k \in present : In(listed, k)
    /\ cursor \in RunKey =>
         /\ \A i \in 1..Len(listed) : listed[i] = cursor \/ Before(cursor, listed[i])
         /\ \A k \in present : Before(k, cursor) \/ In(listed, k)

PagesInv == PageTypes /\ PagesFit

LEMMA CursorsDiffer == NoCursor \notin RunKey /\ TheEnd \notin RunKey /\ NoCursor # TheEnd
  BY DEF NoCursor, TheEnd, RunKey

LEMMA PagesStart == ASSUME PagesInit PROVE PagesInv
<1>1. \A l \in Limits : l \in Nat \ {0}
  BY PagesAssumption
<1>2. IsFiniteSet({}) /\ <<>> \in Seq(RunKey) /\ Len(<<>>) = 0 /\ 1..0 = {}
  BY FS_EmptySet
<1>3. PageTypes
  BY <1>1, <1>2 DEF PagesInit, PageTypes
<1>4. PagesFit
  BY <1>2, CursorsDiffer DEF PagesInit, PagesFit, Sorted, In
<1>5. QED
  BY <1>3, <1>4 DEF PagesInv

\* An admission and a restart only add to what the client may be shown.
LEMMA AdmissionKeepsPages == ASSUME PagesInv, SavesState \/ InsertsKey \/ RestartsServer PROVE PagesInv'
<1>1. /\ UNCHANGED <<limit, cursor, listed, present>>
      /\ kept \subseteq kept' /\ kept' \subseteq RunKey /\ IsFiniteSet(kept')
      /\ halfway' \subseteq kept' /\ indexed' \subseteq kept' /\ indexed \subseteq indexed'
  <2>1. /\ kept \subseteq RunKey /\ IsFiniteSet(kept) /\ halfway \subseteq kept /\ indexed \subseteq kept
    BY DEF PagesInv, PageTypes
  <2>2. CASE SavesState
    <3>1. PICK k \in RunKey : kept' = kept \cup {k} /\ halfway' = {k}
      BY <2>2 DEF SavesState
    <3>2. IsFiniteSet(kept \cup {k})
      BY <2>1, FS_AddElement
    <3>3. QED
      BY <2>1, <2>2, <3>1, <3>2 DEF SavesState
  <2>3. CASE InsertsKey
    BY <2>1, <2>3 DEF InsertsKey
  <2>4. CASE RestartsServer
    BY <2>1, <2>4 DEF RestartsServer
  <2>5. QED
    BY <2>2, <2>3, <2>4
<1>2. QED
  BY <1>1 DEF PagesInv, PageTypes, PagesFit, Sorted, In

LEMMA PageKeepsList == ASSUME PagesInv, AsksPage PROVE PagesInv'
<1>1. PageTypes /\ PagesFit /\ cursor # TheEnd /\ UNCHANGED <<kept, indexed, halfway, limit>>
  BY DEF PagesInv, AsksPage
<1>2. /\ Below \subseteq RunKey /\ IsFiniteSet(Below) /\ Below \subseteq kept
      /\ limit \in Nat \ {0} /\ limit + 1 \in Nat
  <2>1. Below \subseteq kept
    BY <1>1 DEF Below, PageTypes
  <2>2. QED
    BY <1>1, <2>1, FS_Subset DEF PageTypes
<1>3. PICK p \in Seq(Below), c \in Nat :
             /\ p = NewestFirst(Below, limit + 1) /\ Len(p) = IF limit + 1 < c THEN limit + 1 ELSE c
             /\ Sorted(p)
             /\ \A i \in 1..Len(p), k \in Below : k = p[i] \/ Before(k, p[i]) \/ \E j \in 1..Len(p) : j < i /\ k = p[j]
             /\ c <= limit + 1 => \A k \in Below : In(p, k)
  <2>1. IsPage(NewestFirst(Below, limit + 1), Below, limit + 1, Cardinality(Below))
    BY <1>2, PageIs
  <2>2. QED
    BY <2>1 DEF IsPage
<1>4. PICK n \in Nat : n = Len(p)
  BY <1>3
<1>5. PICK m \in Nat : m = (IF limit < n THEN limit ELSE n)
  BY <1>2
<1> DEFINE shown == SubSeq(p, 1, m)
<1>6. /\ listed' = listed \o shown
      /\ cursor' = IF n > limit THEN p[m] ELSE TheEnd
      /\ present' = IF cursor = NoCursor THEN indexed ELSE present
  <2>1. Min({limit, n}) = m
    <3>1. m \in {limit, n} /\ \A y \in {limit, n} : m <= y
      BY <1>2, <1>4, <1>5
    <3>2. \A x \in {limit, n} : (\A y \in {limit, n} : x <= y) => x = m
      BY <1>2, <1>4, <1>5
    <3>3. QED
      BY <3>1, <3>2 DEF Min
  <2>3. /\ listed' = listed \o SubSeq(p, 1, Min({limit, Len(p)})) /\ cursor' = NextCursor(p)
        /\ present' = IF cursor = NoCursor THEN indexed ELSE present
    BY <1>3 DEF AsksPage
  <2>4. NextCursor(p) = IF n > limit THEN p[m] ELSE TheEnd
    BY <1>2, <1>4, <1>5 DEF NextCursor
  <2>5. Min({limit, Len(p)}) = m
    BY <1>4, <2>1
  <2>6. QED
    BY <2>3, <2>4, <2>5, Zenon
<1>7. /\ m \in 0..n /\ m <= limit /\ (n > limit => m = limit /\ m \in 1..n) /\ (n <= limit => m = n /\ c <= limit + 1)
  BY <1>2, <1>3, <1>4, <1>5
<1>8. /\ shown \in Seq(Below) /\ Len(shown) = m /\ \A i \in 1..m : shown[i] = p[i]
  <2>1. m \in 0..Len(p)
    BY <1>4, <1>7
  <2>2. QED
    <3>1. p \in Seq(Below)
      BY <1>3
    <3>2. QED
      BY <2>1, <3>1, BeginningIs, Zenon
<1> HIDE DEF shown
<1>9. \A i \in 1..n : p[i] \in Below /\ p[i] \in RunKey /\ p[i] \in kept
  BY <1>2, <1>3, <1>4
<1> DEFINE l == Len(listed)
<1>10. /\ l \in Nat /\ listed \in Seq(RunKey) /\ shown \in Seq(RunKey)
       /\ \A i \in 1..l : listed[i] \in RunKey /\ listed[i] \in kept
  <2>1. listed \in Seq(RunKey) /\ \A i \in 1..l : listed[i] \in kept
    BY <1>1 DEF PageTypes, PagesFit
  <2>2. shown \in Seq(RunKey)
    BY <1>2, <1>8
  <2>3. QED
    BY <2>1, <2>2
<1>11. /\ listed' \in Seq(RunKey) /\ Len(listed') = l + m
       /\ \A i \in 1..l : listed'[i] = listed[i]
       /\ \A i \in 1..m : listed'[l + i] = p[i]
       /\ \A i \in 1..(l + m) : i \in 1..l \/ i - l \in 1..m
       /\ \A i \in 1..(l + m) : i - l \in 1..m => listed'[i] = p[i - l]
  <2>1. /\ listed \o shown \in Seq(RunKey) /\ Len(listed \o shown) = Len(listed) + Len(shown)
        /\ \A i \in 1..Len(listed) + Len(shown) :
             (listed \o shown)[i] = IF i <= Len(listed) THEN listed[i] ELSE shown[i - Len(listed)]
    BY <1>10, ConcatProperties
  <2>2. PICK q : q = listed'
    OBVIOUS
  <2>3. q \in Seq(RunKey) /\ Len(q) = l + m /\ \A i \in 1..(l + m) : q[i] = IF i <= l THEN listed[i] ELSE shown[i - l]
    BY <1>6, <1>8, <2>1, <2>2
  <2> HIDE DEF l
  <2>4. l \in Nat /\ m \in Nat /\ \A i \in 1..m : shown[i] = p[i]
    BY <1>8, <1>10
  <2>5. ASSUME NEW i \in 1..l PROVE q[i] = listed[i]
    <3>1. i \in 1..(l + m) /\ i <= l
      BY <2>4
    <3>2. QED
      BY <2>3, <3>1
  <2>6. ASSUME NEW i \in 1..(l + m), i - l \in 1..m PROVE q[i] = p[i - l]
    <3>1. ~(i <= l)
      BY <2>4, <2>6
    <3>2. QED
      BY <2>3, <2>4, <2>6, <3>1
  <2>7. ASSUME NEW i \in 1..m PROVE q[l + i] = p[i]
    <3> DEFINE j == l + i
    <3>1. j \in 1..(l + m) /\ ~(j <= l) /\ j - l = i
      BY <2>4
    <3> HIDE DEF j
    <3>2. q[j] = shown[j - l]
      BY <2>3, <3>1
    <3>3. q[j] = p[i]
      BY <2>4, <3>1, <3>2
    <3>4. QED
      BY <3>3 DEF j
  <2>8. \A i \in 1..(l + m) : i \in 1..l \/ i - l \in 1..m
    BY <2>4
  <2>9. QED
    BY <2>2, <2>3, <2>5, <2>6, <2>7, <2>8, Zenon
<1> HIDE DEF l
\* What was in the list before comes before what is added.
<1>12. \A i \in 1..l, j \in 1..n : Before(p[j], listed[i])
  <2> SUFFICES ASSUME NEW i \in 1..l, NEW j \in 1..n PROVE Before(p[j], listed[i])
    OBVIOUS
  <2>1. listed # <<>> /\ cursor # NoCursor /\ cursor \in RunKey
    <3>1. listed # <<>>
      BY <1>10 DEF l
    <3>2. QED
      BY <1>1, <3>1 DEF PagesFit, PageTypes
  <2>2. Before(p[j], cursor) /\ p[j] \in RunKey /\ listed[i] \in RunKey
    BY <1>9, <1>10, <2>1 DEF Below
  <2>3. listed[i] = cursor \/ Before(cursor, listed[i])
    BY <1>1, <2>1 DEF PagesFit, l
  <2>4. QED
    BY <2>1, <2>2, <2>3, KeysAreOrdered
<1>13. Sorted(listed')
  <2>1. \A i, j \in 1..l : i < j => Before(listed[j], listed[i])
    BY <1>1 DEF PagesFit, Sorted, l
  <2>2. \A i, j \in 1..n : i < j => Before(p[j], p[i])
    BY <1>3, <1>4 DEF Sorted
  <2> SUFFICES ASSUME NEW i \in 1..(l + m), NEW j \in 1..(l + m), i < j PROVE Before(listed'[j], listed'[i])
    BY <1>11 DEF Sorted
  <2>3. CASE i \in 1..l /\ j \in 1..l
    BY <1>11, <2>1, <2>3
  <2>4. CASE i \in 1..l /\ j - l \in 1..m
    <3>1. j - l \in 1..n
      BY <1>7, <2>4
    <3>2. listed'[j] = p[j - l]
      BY <1>11, <2>4
    <3>3. QED
      BY <1>11, <1>12, <2>4, <3>1, <3>2
  <2>5. CASE i - l \in 1..m /\ j - l \in 1..m
    <3>1. j - l \in 1..n /\ i - l \in 1..n /\ i - l < j - l
      BY <1>7, <1>10, <2>5
    <3>2. listed'[j] = p[j - l] /\ listed'[i] = p[i - l]
      BY <1>11, <2>5
    <3>3. QED
      BY <2>2, <3>1, <3>2
  <2>6. CASE i - l \in 1..m /\ j \in 1..l
    BY <1>10, <2>6
  <2>7. QED
    BY <1>11, <2>3, <2>4, <2>5, <2>6
<1>14. \A i \in 1..(l + m) : listed'[i] \in kept
  <2> SUFFICES ASSUME NEW i \in 1..(l + m) PROVE listed'[i] \in kept
    OBVIOUS
  <2>1. CASE i \in 1..l
    BY <1>10, <1>11, <2>1
  <2>2. CASE i - l \in 1..m
    <3>1. listed'[i] = p[i - l] /\ i - l \in 1..n
      BY <1>7, <1>11, <2>2
    <3>2. QED
      BY <1>9, <3>1
  <2>3. QED
    BY <1>11, <2>1, <2>2
\* What was in the list, and what is shown, is in it now.
<1>15. /\ \A k : In(listed, k) => In(listed', k)
       /\ \A i \in 1..m : In(listed', p[i])
  <2>1. \A i \in 1..l : i \in 1..(l + m)
    BY <1>10
  <2>2. \A i \in 1..m : l + i \in 1..(l + m)
    BY <1>10
  <2>3. ASSUME NEW k, In(listed, k) PROVE In(listed', k)
    <3>1. PICK i \in 1..l : k = listed[i]
      BY <2>3 DEF In, l
    <3>2. QED
      BY <1>11, <2>1, <3>1 DEF In
  <2>4. QED
    BY <1>11, <2>2, <2>3 DEF In
\* What was there when the client began is below, or was in the list.
<1>16. /\ present' \subseteq indexed
       /\ \A k \in present' : k \in Below \/ In(listed, k)
  <2>1. CASE cursor = NoCursor
    BY <1>6, <2>1 DEF Below
  <2>2. CASE cursor # NoCursor
    <3>1. cursor \in RunKey /\ present' = present /\ present \subseteq indexed
      BY <1>1, <1>6, <2>2 DEF PageTypes
    <3>2. \A k \in present : Before(k, cursor) \/ In(listed, k)
      BY <1>1, <3>1 DEF PagesFit
    <3>3. QED
      BY <2>2, <3>1, <3>2 DEF Below
  <2>3. QED
    BY <2>1, <2>2
<1>17. CASE n > limit
  <2>1. cursor' = p[m] /\ m \in 1..n /\ cursor' \in RunKey
    BY <1>6, <1>7, <1>9, <1>17
  <2>2. \A k \in present' : Before(k, cursor') \/ In(listed', k)
    <3> SUFFICES ASSUME NEW k \in present' PROVE Before(k, p[m]) \/ In(listed', k)
      BY <2>1
    <3>1. CASE In(listed, k)
      BY <1>15, <3>1
    <3>2. CASE k \in Below
      <4>1. k = p[m] \/ Before(k, p[m]) \/ \E j \in 1..n : j < m /\ k = p[j]
        BY <1>3, <1>4, <2>1, <3>2
      <4>2. \A j \in 1..n : j < m => j \in 1..m
        OBVIOUS
      <4>3. m \in 1..m
        BY <2>1
      <4>4. QED
        BY <1>15, <4>1, <4>2, <4>3
    <3>3. QED
      BY <1>16, <3>1, <3>2
  <2>3. \A i \in 1..(l + m) : listed'[i] = cursor' \/ Before(cursor', listed'[i])
    <3> SUFFICES ASSUME NEW i \in 1..(l + m) PROVE listed'[i] = p[m] \/ Before(p[m], listed'[i])
      BY <2>1
    <3>1. CASE i \in 1..l
      BY <1>11, <1>12, <2>1, <3>1
    <3>2. CASE i - l \in 1..m
      <4>1. listed'[i] = p[i - l] /\ i - l \in 1..n /\ (i - l = m \/ i - l < m)
        BY <1>7, <1>11, <3>2
      <4>2. QED
        BY <1>3, <1>4, <2>1, <4>1 DEF Sorted
    <3>3. QED
      BY <1>11, <3>1, <3>2
  <2>4. PageTypes'
    BY <1>1, <1>11, <1>16, <2>1 DEF PageTypes
  <2>5. PagesFit'
    BY <1>1, <1>11, <1>13, <1>14, <2>1, <2>2, <2>3, CursorsDiffer DEF PagesFit
  <2>6. QED
    BY <2>4, <2>5 DEF PagesInv
<1>18. CASE ~(n > limit)
  <2>1. cursor' = TheEnd /\ m = n /\ c <= limit + 1
    BY <1>2, <1>6, <1>7, <1>18
  <2>2. ASSUME NEW k \in present' PROVE In(listed', k)
    <3>1. CASE k \in Below
      <4>1. In(p, k)
        BY <1>3, <2>1, <3>1
      <4>2. PICK j \in 1..m : k = p[j]
        BY <1>4, <2>1, <4>1 DEF In
      <4>3. QED
        BY <1>15, <4>2
    <3>2. QED
      BY <1>15, <1>16, <3>1
  <2>3. PageTypes'
    BY <1>1, <1>11, <1>16, <2>1 DEF PageTypes
  <2>4. PagesFit'
    BY <1>1, <1>11, <1>13, <1>14, <2>1, <2>2, CursorsDiffer DEF PagesFit
  <2>5. QED
    BY <2>3, <2>4 DEF PagesInv
<1>19. QED
  BY <1>17, <1>18

LEMMA PagesStep == ASSUME PagesInv, [PagesNext]_pageVars PROVE PagesInv'
<1>1. CASE UNCHANGED pageVars
  BY <1>1 DEF pageVars, PagesInv, PageTypes, PagesFit, Sorted, In
<1>2. QED
  BY <1>1, AdmissionKeepsPages, PageKeepsList DEF PagesNext

LEMMA PagesListAll == ASSUME PagesInv PROVE HistoryIsWhole
<1>1. listed \in Seq(RunKey) /\ DOMAIN listed = 1..Len(listed) /\ ToSet(listed) = {listed[i] : i \in 1..Len(listed)}
  BY DEF PagesInv, PageTypes, ToSet
<1>2. QED
  BY <1>1 DEF PagesInv, PagesFit, Sorted, In, HistoryIsWhole

\* A client that follows the cursors is shown every run that was there when it
\* began, newest first and none twice, for any number of runs, pages of any size
\* and any clock, whatever is admitted meanwhile and wherever the server is
\* restarted (history_page).
THEOREM HistoryStaysWhole == PagesSpec => []HistoryIsWhole
  BY PagesStart, PagesStep, PagesListAll, PTL DEF PagesSpec

\* The same of the part "pages" that a run explores.
THEOREM HistoryStaysListed == PartsSpec => []HistoryListed
<1> DEFINE Holds == part = "pages" => PagesInv
           All == <<part, vars, pageVars, productVars, jVars>>
<1>1. PartsInit => Holds
  BY PagesStart DEF PartsInit
<1>2. Holds /\ [PartsNext]_All => Holds'
  <2> SUFFICES ASSUME Holds, [PartsNext]_All, part' = "pages" PROVE PagesInv'
    OBVIOUS
  <2>1. part' = part /\ [PagesNext]_pageVars
    BY DEF PartsNext
  <2>2. PagesInv
    BY <2>1
  <2>3. QED
    BY <2>1, <2>2, PagesStep
<1>3. Holds => HistoryListed
  BY PagesListAll DEF HistoryListed
<1>4. QED
  BY <1>1, <1>2, <1>3, PTL DEF PartsSpec

=============================================================================
