---------------------------- MODULE EngineProofs ----------------------------
(***************************************************************************)
(* What holds of the parts of MCEngine for every value of their constants, *)
(* each on its own and in their composition.                               *)
(***************************************************************************)
EXTENDS MCEngine, FiniteSetTheorems, FunctionTheorems, SequenceTheorems, WellFoundedInduction, TLAPS

-----------------------------------------------------------------------------
(* Lemmas about numbers. *)

LEMMA LessIsLess == \A x, y \in Nat : x < y => <<x, y>> \in OpToRel(<, Nat)
  BY Zenon DEF OpToRel

LEMMA LeastOf ==
    ASSUME NEW R, NEW S, IsWellFoundedOn(R, S), \A x, y \in S : x < y => <<x, y>> \in R,
           NEW T, T \subseteq S, T # {}
    PROVE  \E x \in T : \A y \in T : ~(y < x)
<1>1. PICK x \in T : \A y \in T : ~ (<<y, x>> \in R)
  BY WFMin
<1>2. QED
  BY <1>1, Zenon

\* A set of numbers has a least element.
LEMMA Least == ASSUME NEW T, T \subseteq Nat, T # {} PROVE \E x \in T : \A y \in T : x <= y
<1>1. \E x \in T : \A y \in T : ~(y < x)
  BY NatLessThanWellFounded, LessIsLess, LeastOf, Zenon
<1>2. QED
  BY <1>1

LEMMA UpToIs == \A n \in Nat : IsFiniteSet(1..n) /\ Cardinality(1..n) = n
<1> SUFFICES ASSUME NEW n \in Nat PROVE IsFiniteSet(1..n) /\ Cardinality(1..n) = n
  OBVIOUS
<1>1. 1 \in Int /\ n \in Int
  OBVIOUS
<1>2. IsFiniteSet(1..n) /\ Cardinality(1..n) = IF 1 > n THEN 0 ELSE n - 1 + 1
  BY <1>1, FS_Interval
<1>3. QED
  BY <1>2

Distinct(s) == \A i, j \in DOMAIN s : i # j => s[i] # s[j]

\* The elements of a set of tasks can be listed in their order: each in the
\* place that says how many come up to it.
LEMMA AscendingLists ==
    ASSUME NEW S, S \subseteq Node
    PROVE  Ascending(S) \in Seq(S) /\ ToSet(Ascending(S)) = S /\ Distinct(Ascending(S))
<1> DEFINE n == Cardinality(S)
           Upto(x) == {y \in S : y <= x}
           C(x) == Cardinality(Upto(x))
<1>0. \A x \in S : x \in Nat
  BY NAssumption DEF Node
<1>1. IsFiniteSet(S) /\ n \in Nat
  <2>1. IsFiniteSet(Node)
    BY UpToIs, NAssumption DEF Node
  <2>2. QED
    BY <2>1, FS_Subset, FS_CardinalityType
<1>2. \A x \in S : IsFiniteSet(Upto(x)) /\ C(x) \in 1..n
  <2> SUFFICES ASSUME NEW x \in S PROVE IsFiniteSet(Upto(x)) /\ C(x) \in 1..n
    OBVIOUS
  <2>1. Upto(x) \subseteq S /\ x \in Upto(x)
    BY <1>0
  <2>2. IsFiniteSet(Upto(x)) /\ C(x) <= n /\ C(x) \in Nat
    BY <1>1, <2>1, FS_Subset, FS_CardinalityType
  <2>3. C(x) # 0
    BY <2>1, <2>2, FS_EmptySet
  <2>4. QED
    BY <2>2, <2>3, <1>1
<1>3. \A x, y \in S : x < y => C(x) < C(y)
  <2> SUFFICES ASSUME NEW x \in S, NEW y \in S, x < y PROVE C(x) < C(y)
    OBVIOUS
  <2>1. y <= y /\ ~(y <= x)
    BY <1>0
  <2>4. \A z \in S : z <= x => z <= y
    BY <1>0
  <2>5. Upto(x) \subseteq Upto(y) /\ y \in Upto(y) /\ y \notin Upto(x)
    BY <2>1, <2>4
  <2>2. C(x) <= C(y) /\ (C(x) = C(y) => Upto(x) = Upto(y))
    BY <1>2, <2>5, FS_Subset, Zenon
  <2>3. QED
    BY <1>2, <2>5, <2>2
<1>4. \A x, y \in S : x # y => C(x) # C(y)
  <2> SUFFICES ASSUME NEW x \in S, NEW y \in S, x # y PROVE C(x) # C(y)
    OBVIOUS
  <2>1. x \in Nat /\ y \in Nat /\ C(x) \in Nat /\ C(y) \in Nat
    BY <1>0, <1>2
  <2>2. C(x) < C(y) \/ C(y) < C(x)
    BY <1>3, <2>1
  <2> HIDE DEF C
  <2>3. QED
    BY <2>1, <2>2
<1> DEFINE f == [x \in S |-> C(x)]
<1>5. f \in Injection(S, 1..n)
  <2>1. f \in [S -> 1..n] /\ \A x \in S : f[x] = C(x)
    BY <1>2
  <2> HIDE DEF f, C
  <2>2. IsInjective(f)
    BY <2>1, <1>4 DEF IsInjective
  <2>3. QED
    BY <2>1, <2>2 DEF Injection
<1>6. f \in Surjection(S, 1..n)
  <2>1. IsFiniteSet(1..n) /\ Cardinality(1..n) = n
    BY <1>1, UpToIs
  <2> HIDE DEF f
  <2>2. QED
    BY <1>1, <1>5, <2>1, FS_Injection
<1>7. \A i \in 1..n : \E x \in S : C(x) = i
  BY <1>6, Zenon DEF Surjection
<1> DEFINE s == [i \in 1..n |-> CHOOSE x \in S : C(x) = i]
<1>8. s \in [1..n -> S] /\ \A i \in 1..n : C(s[i]) = i
  BY <1>7, Zenon
<1> HIDE DEF s, C
<1>9. \A i, j \in 1..n : i < j => s[i] < s[j]
  <2> SUFFICES ASSUME NEW i \in 1..n, NEW j \in 1..n, i < j PROVE s[i] < s[j]
    OBVIOUS
  <2>1. s[i] \in S /\ s[j] \in S /\ C(s[i]) = i /\ C(s[j]) = j
    BY <1>8
  <2>2. s[i] \in Nat /\ s[j] \in Nat /\ s[i] # s[j] /\ ~(s[j] < s[i])
    BY <2>1, <1>0, <1>1, <1>3
  <2>3. QED
    BY <2>2
<1> DEFINE a == Ascending(S)
<1>10. a \in [1..n -> S] /\ \A i, j \in 1..n : i < j => a[i] < a[j]
  BY <1>8, <1>9, Zenon DEF Ascending
<1> HIDE DEF a
<1>11. \A i, j \in 1..n : i # j => a[i] # a[j]
  <2> SUFFICES ASSUME NEW i \in 1..n, NEW j \in 1..n, i # j PROVE a[i] # a[j]
    OBVIOUS
  <2>1. a[i] \in Nat /\ a[j] \in Nat /\ (i < j \/ j < i)
    BY <1>0, <1>1, <1>10
  <2>2. QED
    BY <1>10, <2>1
<1>12. a \in Seq(S) /\ DOMAIN a = 1..n
  BY <1>1, <1>10
<1>13. a \in Surjection(1..n, S)
  <2>1. a \in Injection(1..n, S)
    BY <1>10, <1>11 DEF Injection, IsInjective
  <2>2. IsFiniteSet(1..n) /\ Cardinality(1..n) = n
    BY <1>1, UpToIs
  <2>3. QED
    BY <1>1, <2>1, <2>2, FS_Injection
<1>14. \A x \in S : \E i \in 1..n : a[i] = x
  BY <1>13 DEF Surjection
<1>15. ToSet(a) = S /\ Distinct(a)
  BY <1>10, <1>11, <1>12, <1>14 DEF ToSet, Distinct
<1>16. QED
  BY <1>12, <1>15 DEF a

-----------------------------------------------------------------------------
(* Lemmas about sequences. *)

LEMMA AppendAdds ==
    ASSUME NEW S, NEW s \in Seq(S), NEW e \in S
    PROVE  /\ ToSet(Append(s, e)) = ToSet(s) \cup {e}
           /\ Distinct(s) /\ e \notin ToSet(s) => Distinct(Append(s, e))
<1>1. /\ DOMAIN s = 1..Len(s) /\ DOMAIN Append(s, e) = 1..Len(s) + 1 /\ Len(s) \in Nat
      /\ \A i \in 1..Len(s) : Append(s, e)[i] = s[i]
      /\ Append(s, e)[Len(s) + 1] = e
  OBVIOUS
<1> DEFINE a == Append(s, e)
<1> HIDE DEF a
<1>2. \A i \in DOMAIN a : i \in DOMAIN s \/ i = Len(s) + 1
  BY <1>1 DEF a
<1>3. \A i \in DOMAIN s : i \in DOMAIN a /\ a[i] = s[i]
  BY <1>1 DEF a
<1>4. Len(s) + 1 \in DOMAIN a /\ a[Len(s) + 1] = e
  BY <1>1 DEF a
<1>5. ToSet(a) = ToSet(s) \cup {e}
  BY <1>2, <1>3, <1>4 DEF ToSet
<1>6. Distinct(s) /\ e \notin ToSet(s) => Distinct(a)
  BY <1>2, <1>3, <1>4 DEF ToSet, Distinct
<1>7. QED
  BY <1>5, <1>6 DEF a

LEMMA ConcatAdds ==
    ASSUME NEW S, NEW s \in Seq(S), NEW t \in Seq(S)
    PROVE  /\ ToSet(s \o t) = ToSet(s) \cup ToSet(t)
           /\ Distinct(s) /\ Distinct(t) /\ ToSet(s) \cap ToSet(t) = {} => Distinct(s \o t)
<1> DEFINE c == s \o t
<1>1. /\ DOMAIN s = 1..Len(s) /\ DOMAIN t = 1..Len(t) /\ DOMAIN c = 1..Len(s) + Len(t)
      /\ Len(s) \in Nat /\ Len(t) \in Nat
      /\ \A i \in 1..Len(s) + Len(t) : c[i] = IF i <= Len(s) THEN s[i] ELSE t[i - Len(s)]
  OBVIOUS
<1> HIDE DEF c
<1>2. \A i \in DOMAIN c : \/ i \in DOMAIN s /\ c[i] = s[i]
                          \/ i \notin DOMAIN s /\ i - Len(s) \in DOMAIN t /\ c[i] = t[i - Len(s)]
  BY <1>1
<1>3. \A i \in DOMAIN s : i \in DOMAIN c /\ c[i] = s[i]
  BY <1>1
<1>4. \A i \in DOMAIN t : i + Len(s) \in DOMAIN c /\ c[i + Len(s)] = t[i]
  <2> SUFFICES ASSUME NEW i \in DOMAIN t PROVE i + Len(s) \in DOMAIN c /\ c[i + Len(s)] = t[i]
    OBVIOUS
  <2>1. i \in Nat /\ i >= 1 /\ i <= Len(t)
    BY <1>1
  <2>2. i + Len(s) \in 1..Len(s) + Len(t) /\ ~(i + Len(s) <= Len(s)) /\ (i + Len(s)) - Len(s) = i
    BY <1>1, <2>1
  <2>3. QED
    BY <1>1, <2>2
<1>5. ToSet(c) = ToSet(s) \cup ToSet(t)
  BY <1>2, <1>3, <1>4 DEF ToSet
<1>6. ASSUME Distinct(s), Distinct(t), ToSet(s) \cap ToSet(t) = {} PROVE Distinct(c)
  <2> SUFFICES ASSUME NEW i \in DOMAIN c, NEW j \in DOMAIN c, i # j PROVE c[i] # c[j]
    BY DEF Distinct
  <2>1. i \in Int /\ j \in Int /\ i - Len(s) # j - Len(s)
    BY <1>1
  <2>2. \A x \in DOMAIN s, y \in DOMAIN t : s[x] # t[y]
    BY <1>6, Zenon DEF ToSet
  <2>3. QED
    BY <1>2, <1>6, <2>1, <2>2 DEF Distinct
<1>7. QED
  BY <1>5, <1>6 DEF c

LEMMA HeadLeaves ==
    ASSUME NEW S, NEW s \in Seq(S), s # <<>>, Distinct(s)
    PROVE  /\ Head(s) \in ToSet(s) /\ Head(s) \in S /\ Tail(s) \in Seq(S)
           /\ ToSet(Tail(s)) = ToSet(s) \ {Head(s)} /\ Distinct(Tail(s))
<1> DEFINE t == Tail(s)
           h == Head(s)
<1>1. /\ DOMAIN s = 1..Len(s) /\ Len(s) \in Nat \ {0} /\ t \in Seq(S) /\ h = s[1] /\ h \in S
      /\ DOMAIN t = 1..Len(s) - 1 /\ \A i \in 1..Len(s) - 1 : t[i] = s[i + 1]
  OBVIOUS
<1> HIDE DEF t, h
<1>2. 1 \in DOMAIN s /\ \A i \in DOMAIN t : i + 1 \in DOMAIN s /\ i + 1 # 1 /\ t[i] = s[i + 1]
  BY <1>1
<1>3. \A i \in DOMAIN s : i = 1 \/ (i - 1 \in DOMAIN t /\ t[i - 1] = s[i])
  <2> SUFFICES ASSUME NEW i \in DOMAIN s, i # 1 PROVE i - 1 \in DOMAIN t /\ t[i - 1] = s[i]
    OBVIOUS
  <2>1. i - 1 \in 1..Len(s) - 1 /\ (i - 1) + 1 = i
    BY <1>1
  <2>2. QED
    BY <1>1, <2>1
<1>4. h \in ToSet(s)
  BY <1>1, <1>2 DEF ToSet
<1>5. ToSet(t) = ToSet(s) \ {h}
  <2>1. \A i \in DOMAIN t : t[i] \in ToSet(s) /\ t[i] # h
    BY <1>1, <1>2 DEF ToSet, Distinct
  <2>2. \A i \in DOMAIN s : s[i] # h => s[i] \in ToSet(t)
    BY <1>1, <1>3 DEF ToSet
  <2>3. QED
    BY <2>1, <2>2 DEF ToSet
<1>6. Distinct(t)
  <2> SUFFICES ASSUME NEW i \in DOMAIN t, NEW j \in DOMAIN t, i # j PROVE t[i] # t[j]
    BY DEF Distinct
  <2>1. i + 1 # j + 1
    BY <1>1
  <2>2. QED
    BY <1>2, <2>1 DEF Distinct
<1>7. QED
  BY <1>1, <1>4, <1>5, <1>6 DEF t, h

\* How many distinct tasks a list of all of them has.
LEMMA AllListed ==
    ASSUME NEW s \in Seq(Node), Distinct(s)
    PROVE  Len(s) = N <=> ToSet(s) = Node
<1>1. /\ DOMAIN s = 1..Len(s) /\ Len(s) \in Nat /\ s \in [1..Len(s) -> Node]
  OBVIOUS
<1>2. /\ IsFiniteSet(1..Len(s)) /\ Cardinality(1..Len(s)) = Len(s)
      /\ IsFiniteSet(Node) /\ Cardinality(Node) = N
  BY <1>1, UpToIs, NAssumption DEF Node
<1>3. s \in Injection(1..Len(s), Node)
  BY <1>1 DEF Injection, IsInjective, Distinct
<1>4. ASSUME Len(s) = N PROVE ToSet(s) = Node
  <2>1. s \in Surjection(1..Len(s), Node)
    BY <1>2, <1>3, <1>4, FS_Injection
  <2>2. QED
    BY <1>1, <2>1 DEF Surjection, ToSet
<1>5. ASSUME ToSet(s) = Node PROVE Len(s) = N
  <2>1. s \in Surjection(1..Len(s), Node)
    BY <1>1, <1>5 DEF Surjection, ToSet
  <2>2. s \in Bijection(1..Len(s), Node)
    BY <1>3, <2>1 DEF Bijection
  <2>3. ExistsBijection(1..Len(s), Node)
    BY <2>2 DEF ExistsBijection
  <2>4. Cardinality(1..Len(s)) = Cardinality(Node)
    BY <1>2, <2>3, FS_Bijection
  <2>5. QED
    BY <1>2, <2>4
<1>6. QED
  BY <1>4, <1>5

-----------------------------------------------------------------------------
(* DependencyGraph: the inductive invariant. *)

\* The counters are the needs that are not ordered yet; a task whose needs are
\* all ordered is ordered itself or waits in the queue, in one place.
Sorted ==
    /\ needs \in [Node -> SUBSET Node]
    /\ Distinct(order) /\ Distinct(queue) /\ ToSet(order) \cap ToSet(queue) = {}
    /\ \A n \in Node : remaining[n] = Cardinality(needs[n] \ ToSet(order))
    /\ \A n \in Node : needs[n] \subseteq ToSet(order) <=> n \in ToSet(order) \cup ToSet(queue)
    /\ \A i \in DOMAIN order : \A p \in needs[order[i]] : \E j \in 1..i - 1 : order[j] = p

GraphInv ==
    /\ TypeOK
    /\ phase \in {"intern", "missing"} => order = <<>> /\ queue = <<>>
    /\ phase \in {"sort", "built", "cycle"} => Sorted
    /\ phase \in {"built", "cycle"} => queue = <<>> /\ (phase = "built" <=> Len(order) = N)
    /\ phase = "missing" => \E n \in Node : Missing \in needs[n]

LEMMA NodesFinite == \A S : S \subseteq Node => IsFiniteSet(S) /\ Cardinality(S) \in Nat
<1>1. IsFiniteSet(Node)
  BY UpToIs, NAssumption DEF Node
<1>2. QED
  BY <1>1, FS_Subset, FS_CardinalityType

LEMMA GraphStart == Init => GraphInv
<1> SUFFICES ASSUME Init PROVE GraphInv
  OBVIOUS
<1>1. TypeOK
  BY GraphAssumption DEF Init, TypeOK
<1>2. QED
  BY <1>1 DEF Init, GraphInv

\* In a complete order no set of tasks is cyclic: the first of them comes after its needs.
LEMMA OrderBreaksCycles ==
    ASSUME TypeOK, Sorted, ToSet(order) = Node
    PROVE  ~Cyclic
<1> SUFFICES ASSUME NEW S \in SUBSET Node, S # {}, \A n \in S : needs[n] \cap S # {}
             PROVE  FALSE
  BY DEF Cyclic
<1> DEFINE T == {i \in DOMAIN order : order[i] \in S}
<1>1. DOMAIN order = 1..Len(order) /\ Len(order) \in Nat
  BY DEF TypeOK
<1>2. T \subseteq Nat /\ T # {}
  BY <1>1 DEF ToSet
<1>3. PICK i \in T : \A j \in T : i <= j
  BY <1>2, Least, Zenon
<1>4. PICK p \in S : p \in needs[order[i]]
  BY <1>3
<1>5. PICK j \in 1..i - 1 : order[j] = p
  BY <1>3, <1>4 DEF Sorted
<1>6. j \in T /\ ~(i <= j)
  BY <1>1, <1>3, <1>4, <1>5
<1>7. QED
  BY <1>3, <1>6

\* What an empty queue leaves over is cyclic.
LEMMA RestIsCyclic ==
    ASSUME TypeOK, Sorted, queue = <<>>, ToSet(order) # Node
    PROVE  Cyclic
<1> DEFINE S == Node \ ToSet(order)
<1>1. ToSet(order) \subseteq Node
  BY DEF TypeOK, ToSet
<1>2. ToSet(queue) = {}
  BY DEF ToSet
<1>3. S \in SUBSET Node /\ S # {}
  BY <1>1, Zenon
<1>4. \A n \in S : needs[n] \cap S # {}
  BY <1>2 DEF Sorted
<1>5. QED
  BY <1>3, <1>4, Zenon DEF Cyclic

LEMMA GraphSafe == GraphInv => TypeOK /\ Topological /\ VerdictIsRight
<1> SUFFICES ASSUME GraphInv PROVE Topological /\ VerdictIsRight
  BY DEF GraphInv
<1>1. TypeOK /\ (order = <<>> \/ Sorted)
  BY DEF GraphInv, TypeOK
<1>2. order \in Seq(Node) /\ DOMAIN order = 1..Len(order) /\ Len(order) \in Nat
  BY <1>1 DEF TypeOK
<1>3. Topological
  BY <1>1, <1>2 DEF Topological, Sorted, Distinct
<1>4. ASSUME phase = "built" PROVE ~Cyclic /\ \A n \in Node : \E i \in 1..Len(order) : order[i] = n
  <2>1. Sorted /\ Len(order) = N
    BY <1>4 DEF GraphInv
  <2>2. ToSet(order) = Node
    BY <1>2, <2>1, AllListed DEF Sorted
  <2>3. QED
    BY <1>1, <1>2, <2>1, <2>2, OrderBreaksCycles DEF ToSet
<1>5. ASSUME phase = "cycle" PROVE Cyclic
  <2>1. Sorted /\ Len(order) # N /\ queue = <<>>
    BY <1>5 DEF GraphInv
  <2>2. ToSet(order) # Node
    BY <1>2, <2>1, AllListed DEF Sorted
  <2>3. QED
    BY <1>1, <2>1, <2>2, RestIsCyclic
<1>6. phase = "missing" => \E n \in Node : Missing \in needs[n]
  BY DEF GraphInv
<1>7. QED
  BY <1>3, <1>4, <1>5, <1>6 DEF VerdictIsRight

LEMMA InternSorts == ASSUME GraphInv, Intern PROVE GraphInv'
<1>1. TypeOK /\ phase = "intern" /\ order = <<>> /\ queue = <<>> /\ needs' = needs
  BY DEF GraphInv, Intern
<1>2. CASE /\ \E n \in Node : Missing \in needs[n]
           /\ phase' = "missing"
           /\ UNCHANGED <<remaining, queue, order>>
  BY <1>1, <1>2 DEF GraphInv, TypeOK
<1>3. CASE /\ \A n \in Node : needs[n] \subseteq Node
           /\ phase' = "sort"
           /\ remaining' = [n \in Node |-> Cardinality(needs[n])]
           /\ queue' = Ascending({n \in Node : needs[n] = {}})
           /\ UNCHANGED order
  <2> DEFINE S == {n \in Node : needs[n] = {}}
  <2>2. S \subseteq Node /\ queue' = Ascending(S)
    BY <1>3
  <2> HIDE DEF S
  <2>1. queue' \in Seq(S) /\ ToSet(queue') = S /\ Distinct(queue')
    BY <2>2, AscendingLists
  <2>3. queue' \in Seq(Node)
    BY <2>1, <2>2
  <2>4. TypeOK'
    <3>1. \A n \in Node : Cardinality(needs[n]) \in Nat
      BY <1>3, NodesFinite
    <3>2. QED
      BY <1>1, <1>3, <2>3, <3>1 DEF TypeOK
  <2>5. ToSet(order') = {} /\ DOMAIN order' = {}
    BY <1>1, <1>3 DEF ToSet
  <2>6. Sorted'
    <3>1. needs' \in [Node -> SUBSET Node]
      BY <1>1, <1>3 DEF TypeOK
    <3>2. \A n \in Node : remaining'[n] = Cardinality(needs'[n] \ ToSet(order'))
      <4>1. \A n \in Node : needs[n] \ {} = needs[n]
        OBVIOUS
      <4>2. QED
        BY <1>1, <1>3, <2>5, <4>1, Zenon
    <3>3. \A n \in Node : needs'[n] \subseteq ToSet(order') <=> n \in ToSet(order') \cup ToSet(queue')
      BY <1>1, <2>1, <2>5 DEF S
    <3>4. QED
      BY <2>1, <2>5, <3>1, <3>2, <3>3 DEF Sorted, Distinct
  <2>7. QED
    BY <1>1, <1>3, <2>4, <2>6 DEF GraphInv
<1>4. QED
  BY <1>2, <1>3 DEF Intern

LEMMA PopSorts == ASSUME GraphInv, Pop PROVE GraphInv'
<1> DEFINE n == Head(queue)
           D == ToSet(order)
           F == Freed(n)
<1>1. TypeOK /\ Sorted /\ phase = "sort" /\ queue # <<>> /\ needs' = needs /\ phase' = phase
  BY DEF GraphInv, Pop
<1>2. /\ order' = Append(order, n)
      /\ remaining' = [m \in Node |-> IF m \in Successors(n) THEN remaining[m] - 1 ELSE remaining[m]]
      /\ queue' = Tail(queue) \o Ascending(F)
  BY DEF Pop
<1>3. /\ n \in Node /\ n \in ToSet(queue) /\ Tail(queue) \in Seq(Node)
      /\ ToSet(Tail(queue)) = ToSet(queue) \ {n} /\ Distinct(Tail(queue))
  BY <1>1, HeadLeaves DEF TypeOK, Sorted
<1>4. n \notin D
  BY <1>1, <1>3 DEF Sorted
<1> HIDE DEF n
<1>5. order' \in Seq(Node) /\ ToSet(order') = D \cup {n} /\ Distinct(order')
  BY <1>1, <1>2, <1>3, <1>4, AppendAdds DEF TypeOK, Sorted
<1>6. \A m \in Node : IF n \in needs[m]
                      THEN /\ Cardinality(needs[m] \ (D \cup {n})) = remaining[m] - 1
                           /\ remaining[m] - 1 \in Nat
                           /\ remaining[m] = 1 <=> needs[m] \subseteq D \cup {n}
                      ELSE needs[m] \ (D \cup {n}) = needs[m] \ D
  <2> SUFFICES ASSUME NEW m \in Node, n \in needs[m]
               PROVE  /\ Cardinality(needs[m] \ (D \cup {n})) = remaining[m] - 1
                      /\ remaining[m] - 1 \in Nat
                      /\ remaining[m] = 1 <=> needs[m] \subseteq D \cup {n}
    BY Zenon
  <2> DEFINE X == needs[m] \ D
  <2>1. n \in X /\ IsFiniteSet(X) /\ remaining[m] = Cardinality(X) /\ remaining[m] \in Nat
    BY <1>1, <1>4, NodesFinite DEF Sorted, TypeOK
  <2>2. needs[m] \ (D \cup {n}) = X \ {n}
    OBVIOUS
  <2>3. needs[m] \subseteq D \cup {n} <=> X \ {n} = {}
    OBVIOUS
  <2> HIDE DEF X
  <2>4. IsFiniteSet(X \ {n}) /\ Cardinality(X \ {n}) = Cardinality(X) - 1
    BY <2>1, FS_RemoveElement, Zenon
  <2>5. Cardinality(X \ {n}) \in Nat /\ (Cardinality(X \ {n}) = 0 <=> X \ {n} = {})
    BY <2>4, FS_CardinalityType, FS_EmptySet, Zenon
  <2>6. remaining[m] - 1 = Cardinality(X \ {n}) /\ remaining[m] - 1 \in Nat
    BY <2>1, <2>4, <2>5
  <2>7. remaining[m] = 1 <=> X \ {n} = {}
    BY <2>1, <2>5, <2>6
  <2>8. QED
    BY <2>2, <2>3, <2>6, <2>7, Zenon
<1>7. F = {m \in Node : n \in needs[m] /\ needs[m] \subseteq D \cup {n}}
  BY <1>6, Zenon DEF Freed, Successors
<1>8. F \subseteq Node /\ F \cap (D \cup ToSet(queue)) = {}
  BY <1>1, <1>4, <1>7 DEF Sorted
<1> DEFINE A == Ascending(F)
<1>9. A \in Seq(Node) /\ ToSet(A) = F /\ Distinct(A)
  <2>1. A \in Seq(F) /\ ToSet(A) = F /\ Distinct(A)
    BY <1>8, AscendingLists
  <2> HIDE DEF F, A
  <2>2. QED
    BY <1>8, <2>1
<1>10. queue' \in Seq(Node) /\ ToSet(queue') = (ToSet(queue) \ {n}) \cup F /\ Distinct(queue')
  <2> HIDE DEF A, F
  <2>1. Tail(queue) \in Seq(Node) /\ ToSet(Tail(queue)) \cap ToSet(A) = {}
    BY <1>3, <1>8, <1>9
  <2>2. queue' = Tail(queue) \o A
    BY <1>2 DEF A
  <2> DEFINE t == Tail(queue)
  <2> HIDE DEF t
  <2>3. t \in Seq(Node) /\ Distinct(t) /\ ToSet(t) = ToSet(queue) \ {n} /\ ToSet(t) \cap ToSet(A) = {}
    BY <1>3, <2>1 DEF t
  <2>4. ToSet(t \o A) = ToSet(t) \cup ToSet(A) /\ Distinct(t \o A)
    BY <1>9, <2>3, ConcatAdds
  <2>5. t \o A \in Seq(Node)
    BY <1>9, <2>3
  <2>6. queue' = t \o A
    BY <2>2 DEF t
  <2>7. QED
    BY <1>9, <2>3, <2>4, <2>5, <2>6
<1> HIDE DEF F, A
<1>11. \A m \in Node : remaining'[m] = Cardinality(needs[m] \ (D \cup {n})) /\ remaining'[m] \in Nat
  BY <1>1, <1>2, <1>6, Zenon DEF Sorted, Successors, TypeOK
<1>12. TypeOK'
  <2>1. remaining' \in [Node -> Nat]
    BY <1>2, <1>11, Zenon
  <2>2. QED
    BY <1>1, <1>5, <1>10, <2>1 DEF TypeOK
<1>13. \A m \in Node : needs[m] \subseteq D \cup {n} <=> m \in (D \cup {n}) \cup ((ToSet(queue) \ {n}) \cup F)
  <2> SUFFICES ASSUME NEW m \in Node
               PROVE  needs[m] \subseteq D \cup {n} <=> m \in D \cup ToSet(queue) \cup F
    BY <1>3
  <2>1. needs[m] \subseteq D <=> m \in D \cup ToSet(queue)
    BY <1>1 DEF Sorted
  <2>2. m \in F <=> n \in needs[m] /\ needs[m] \subseteq D \cup {n}
    BY <1>7
  <2>3. QED
    BY <2>1, <2>2
<1>14. \A i \in DOMAIN order' : \A p \in needs[order'[i]] : \E j \in 1..i - 1 : order'[j] = p
  <2>1. /\ order \in Seq(Node) /\ DOMAIN order = 1..Len(order) /\ Len(order) \in Nat
        /\ DOMAIN order' = 1..Len(order) + 1 /\ order'[Len(order) + 1] = n
        /\ \A i \in 1..Len(order) : order'[i] = order[i]
    BY <1>1, <1>2, <1>3 DEF TypeOK
  <2> SUFFICES ASSUME NEW i \in DOMAIN order', NEW p \in needs[order'[i]]
               PROVE  \E j \in 1..i - 1 : order'[j] = p
    OBVIOUS
  <2>2. CASE i \in 1..Len(order)
    <3>1. PICK j \in 1..i - 1 : order[j] = p
      BY <1>1, <2>1, <2>2 DEF Sorted
    <3>2. QED
      BY <2>1, <2>2, <3>1
  <2>3. CASE i = Len(order) + 1
    <3>1. p \in D
      BY <1>1, <1>3, <2>1, <2>3 DEF Sorted
    <3>2. PICK j \in DOMAIN order : order[j] = p
      BY <3>1 DEF ToSet
    <3>3. QED
      BY <2>1, <2>3, <3>2
  <2>4. QED
    BY <2>1, <2>2, <2>3
<1>15. Sorted'
  <2>1. needs' \in [Node -> SUBSET Node] /\ needs' = needs
    BY <1>1 DEF Sorted
  <2>2. ToSet(order') \cap ToSet(queue') = {}
    BY <1>1, <1>3, <1>5, <1>8, <1>10 DEF Sorted
  <2>3. QED
    BY <1>5, <1>10, <1>11, <1>13, <1>14, <2>1, <2>2 DEF Sorted
<1>16. QED
  BY <1>1, <1>12, <1>15 DEF GraphInv

LEMMA GraphStep == GraphInv /\ [Next]_vars => GraphInv'
<1> SUFFICES ASSUME GraphInv, [Next]_vars PROVE GraphInv'
  OBVIOUS
<1>1. CASE Conclude
  BY <1>1 DEF Conclude, GraphInv, TypeOK, Sorted
<1>2. CASE UNCHANGED vars
  BY <1>2 DEF vars, GraphInv, TypeOK, Sorted
<1>3. QED
  BY <1>1, <1>2, InternSorts, PopSorts DEF Next, Concluded

\* Every task comes after all that it needs, an order is found unless some tasks
\* wait for one another, and a name that is unknown is told: for any graph.
THEOREM OrdersAreRight == Spec => [](TypeOK /\ Topological /\ VerdictIsRight)
  BY GraphStart, GraphStep, GraphSafe, PTL DEF Spec

\* So it is in the composition of MCEngine.
THEOREM GraphStaysRight == PartsSpec => []GraphIsRight
<1> DEFINE Holds == part = "graph" => GraphInv
<1>1. PartsInit => Holds
  BY GraphStart DEF PartsInit
<1>2. Holds /\ [PartsNext]_partsVars => Holds'
  <2> SUFFICES ASSUME Holds, [PartsNext]_partsVars, part' = "graph" PROVE GraphInv'
    OBVIOUS
  <2>1. part = "graph" /\ [Next]_vars
    BY DEF PartsNext, partsVars
  <2>2. QED
    BY <2>1, GraphStep
<1>3. Holds => GraphIsRight
  BY GraphSafe DEF GraphIsRight
<1>4. QED
  BY <1>1, <1>2, <1>3, PTL DEF PartsSpec

-----------------------------------------------------------------------------
(* ActionCache: the inductive invariant.  Its parts speak of a process, its *)
(* job, the inputs and outputs of its directory, owners and blobs.          *)

Files == Contents \cup {None, Stale}
Backup == [path : Paths, old : Files, installed : BOOLEAN]
Job == [at : Stages, key : Nat, todo : SUBSET Parts, copy : [Parts -> Files], log : Files,
        index : Nat, backup : Seq(Backup), before : [Paths -> Files],
        spoiled : BOOLEAN, cancelled : BOOLEAN]
Manifest == {Unreadable, NoManifest} \cup [Parts -> Files]

CacheTypes == CacheTypeOK /\ job \in [Proc -> Job] /\ actions \in [Keys -> Manifest]

\* Whoever is at work on a key owns it, and the inputs were not newer then.
Holding(p, j, own, in) ==
    IF j.at = "idle" THEN j = Idle
    ELSE j.key \in Keys /\ own[j.key] = p /\ j.key <= in

\* A restore changes an output after another; what it has not come to, and what
\* it has rolled back, is as it was.
Untouched(j, out, n) == \A i \in 1..Len(Outputs) : i > n => out[Outputs[i]] = j.before[Outputs[i]]
Replaced(j, out, n) == \A i \in 1..Len(Outputs) : i <= n => out[Outputs[i]] = Truth(j.key)[Outputs[i]]
Restoring(j, out) ==
    /\ j.at \in {"lookup", "stage", "logs"} => out = j.before /\ j.backup = <<>>
    /\ j.at \in {"lookup", "logs"} => j.index = 1
    /\ j.at \in {"stage", "logs", "setaside", "install", "restored"} => j.copy = Truth(j.key)
    /\ j.at = "stage" => j.index \in 1..Len(Artifacts)
    /\ j.at \in {"setaside", "install", "restored"} => j.log = Truth(j.key)["log"]
    /\ j.at \in {"setaside", "install"} => j.index \in 1..Len(Outputs) /\ Replaced(j, out, j.index - 1)
    /\ j.at = "setaside" => Len(j.backup) = j.index - 1 /\ Untouched(j, out, j.index - 1)
    /\ j.at = "install" => Len(j.backup) = j.index /\ Untouched(j, out, j.index)
    /\ j.at \in {"setaside", "install", "rollback"} =>
          /\ Len(j.backup) <= Len(Outputs)
          /\ \A i \in 1..Len(j.backup) : j.backup[i].path = Outputs[i] /\ j.backup[i].old = j.before[Outputs[i]]
    /\ j.at = "rollback" /\ ~j.spoiled => Untouched(j, out, Len(j.backup))
    /\ j.at = "restored" => \A path \in Paths : out[path] = Truth(j.key)[path]
    /\ j.at = "refused" /\ ~j.spoiled => out = j.before

\* What is saved was made from inputs between those of the key and the present.
Made(j, out, item) == IF item = "log" THEN j.log ELSE out[item]
Saving(j, in, out, blob) ==
    /\ j.at \in {"run", "save", "snapshot"} => j.index = 1
    /\ j.at = "run" => \A item \in Parts \ j.todo : \E v \in j.key..in : Made(j, out, item) = <<v, item>>
    /\ j.at = "save" => \A item \in Parts : \E v \in j.key..in : Made(j, out, item) = <<v, item>>
    /\ j.at = "snapshot" => \A item \in Parts : Made(j, out, item) = <<j.key, item>>
    /\ j.at \in {"store", "persist"} => j.copy = Truth(j.key)
    /\ j.at = "store" => j.index \in 1..Len(Artifacts)
                         /\ \A i \in 1..Len(Artifacts) : i < j.index => blob[<<j.key, Artifacts[i]>>] # "absent"
    /\ j.at = "persist" => \A item \in Parts : blob[<<j.key, item>>] # "absent"

Fits(p, j, own, in, out, blob) ==
    Holding(p, j, own, in) /\ Restoring(j, out) /\ Saving(j, in, out, blob)
AllFit == \A p \in Proc : Fits(p, job[p], owner, input[workspace[p]], output[workspace[p]], blobs)

\* A directory that several processes work in is not edited.
SharedIsStill == \A p, q \in Proc : p # q /\ workspace[p] = workspace[q] => input[workspace[p]] = 1

CacheInv == CacheTypes /\ SharedIsStill /\ AllFit /\ CacheIsTrue /\ NamesStored

-----------------------------------------------------------------------------
(* Lemmas about the constants of ActionCache. *)

LEMMA OutputList ==
    /\ Outputs \in Seq(Paths) /\ DOMAIN Outputs = 1..Len(Outputs) /\ Len(Outputs) \in Nat
    /\ \A i \in 1..Len(Outputs) : Outputs[i] \in Paths
    /\ \A path \in Paths : \E i \in 1..Len(Outputs) : Outputs[i] = path
    /\ \A i, k \in 1..Len(Outputs) : Outputs[i] = Outputs[k] => i = k
<1>1. Outputs \in Seq(STRING) /\ IsInjective(Outputs)
  BY CacheAssumption, Zenon
<1>2. DOMAIN Outputs = 1..Len(Outputs) /\ Len(Outputs) \in Nat
  BY <1>1
<1>3. \A i \in 1..Len(Outputs) : Outputs[i] \in Paths
  BY <1>2 DEF Paths, ToSet
<1>4. \A path \in Paths : \E i \in 1..Len(Outputs) : Outputs[i] = path
  BY <1>2 DEF Paths, ToSet
<1>5. \A i, k \in 1..Len(Outputs) : Outputs[i] = Outputs[k] => i = k
  BY <1>1, <1>2 DEF IsInjective
<1>6. Outputs \in [1..Len(Outputs) -> Paths]
  BY <1>1, <1>2, <1>3
<1>7. Outputs \in Seq(Paths)
  BY <1>2, <1>6
<1>8. QED
  BY <1>2, <1>3, <1>4, <1>5, <1>7

LEMMA ArtifactList ==
    /\ Parts = Paths \cup {"log"} /\ "log" \notin Paths
    /\ Len(Artifacts) = Len(Outputs) + 1 /\ DOMAIN Artifacts = 1..Len(Artifacts)
    /\ \A i \in 1..Len(Artifacts) : Artifacts[i] \in Parts
    /\ \A item \in Parts : \E i \in 1..Len(Artifacts) : Artifacts[i] = item
<1> DEFINE S == Paths \cup {"log"}
<1>1. ToSet(Outputs) \cap {"", "log"} = {}
  BY CacheAssumption, Zenon
<1>2. "log" \notin Paths /\ "log" \in S
  BY <1>1, Zenon DEF Paths
<1>3. Outputs \in Seq(S)
  BY OutputList
<1> HIDE DEF S
<1>4. Parts = Paths \cup {"log"}
  BY <1>2, <1>3, AppendAdds DEF Parts, Artifacts, Paths
<1>5. Artifacts \in Seq(S) /\ Len(Artifacts) = Len(Outputs) + 1
  BY <1>2, <1>3 DEF Artifacts
<1>6. DOMAIN Artifacts = 1..Len(Artifacts)
  BY <1>5
<1>7. /\ \A i \in 1..Len(Artifacts) : Artifacts[i] \in Parts
      /\ \A item \in Parts : \E i \in 1..Len(Artifacts) : Artifacts[i] = item
  BY <1>6 DEF Parts, ToSet
<1>8. QED
  BY <1>2, <1>4, <1>5, <1>6, <1>7

LEMMA KeyFacts ==
    /\ Keys \subseteq Nat \ {0} /\ 1 \in Keys
    /\ \A k \in Keys : /\ Truth(k) \in [Parts -> Files]
                       /\ \A item \in Parts : Truth(k)[item] = <<k, item>> /\ <<k, item>> \in Contents
    /\ None \notin Contents /\ None # Stale
    /\ Unreadable \notin [Parts -> Files] /\ NoManifest \notin [Parts -> Files] /\ Unreadable # NoManifest
<1>0. Versions \in Nat \ {0}
  BY CacheAssumption, Zenon
<1>1. Keys \subseteq Nat \ {0} /\ 1 \in Keys
  BY <1>0 DEF Keys
<1>2. \A k \in Keys : \A item \in Parts : <<k, item>> \in Contents
  BY DEF Keys, Contents
<1>3. \A k \in Keys : /\ Truth(k) \in [Parts -> Files]
                      /\ \A item \in Parts : Truth(k)[item] = <<k, item>>
  BY <1>2 DEF Truth, Files
<1>4. None \notin Contents /\ None # Stale
  BY <1>0 DEF None, Stale, Contents
<1>5. "log" \in Parts /\ "" \notin Parts
  <2>1. ToSet(Outputs) \cap {"", "log"} = {} /\ Parts = Paths \cup {"log"}
    BY CacheAssumption, ArtifactList, Zenon
  <2>2. QED
    BY <2>1, Zenon DEF Paths
<1>6. DOMAIN Unreadable = {} /\ DOMAIN NoManifest = {""} /\ \A f \in [Parts -> Files] : DOMAIN f = Parts
  BY DEF Unreadable, NoManifest
<1>7. QED
  BY <1>1, <1>2, <1>3, <1>4, <1>5, <1>6, Zenon

LEMMA IdleIsJob == Idle \in Job /\ Idle.at = "idle"
<1>1. <<>> \in Seq(Backup)
  OBVIOUS
<1>2. QED
  BY <1>1 DEF Idle, Job, Stages, Files

-----------------------------------------------------------------------------
(* Steps of one process. *)

\* A job still fits when inputs grow and blobs appear.
LEMMA FitsKeeps ==
    ASSUME NEW p, NEW j \in Job, NEW own, NEW own2, NEW in \in Nat, NEW in2 \in Nat,
           NEW out, NEW out2, NEW blob, NEW blob2,
           Fits(p, j, own, in, out, blob), in <= in2,
           j.at # "idle" => out2 = out /\ own2[j.key] = own[j.key],
           \A c \in Contents : blob[c] # "absent" => blob2[c] # "absent"
    PROVE  Fits(p, j, own2, in2, out2, blob2)
<1>1. Holding(p, j, own2, in2)
  BY KeyFacts DEF Fits, Holding, Job
<1>2. CASE j.at = "idle"
  BY <1>1, <1>2 DEF Fits, Restoring, Saving
<1>3. CASE j.at # "idle"
  <2>1. j.key \in Keys /\ j.key \in Nat /\ out2 = out
    BY <1>3, KeyFacts, Zenon DEF Fits, Holding
  <2>2. Restoring(j, out2)
    BY <2>1 DEF Fits
  <2>3. \A v \in j.key..in : v \in j.key..in2
    BY <2>1
  <2>4. \A item \in Parts : <<j.key, item>> \in Contents
    BY <2>1, KeyFacts
  <2>5. \A i \in 1..Len(Artifacts) : <<j.key, Artifacts[i]>> \in Contents
    BY <2>4, ArtifactList
  <2>6. Saving(j, in2, out2, blob2)
    BY <2>1, <2>3, <2>4, <2>5 DEF Fits, Saving
  <2>7. QED
    BY <1>1, <2>2, <2>6 DEF Fits
<1>4. QED
  BY <1>2, <1>3

\* Of the processes that share a directory one is at work.
LEMMA Alone ==
    ASSUME CacheInv, NEW p \in Proc, NEW q \in Proc, p # q, workspace[p] = workspace[q], job[p].at # "idle"
    PROVE  job[q].at = "idle"
<1>1. input[workspace[p]] = 1
  BY DEF CacheInv, SharedIsStill
<1>2. job[p].key \in Keys /\ owner[job[p].key] = p /\ job[p].key <= 1
  BY <1>1 DEF CacheInv, AllFit, Fits, Holding
<1>3. job[q].at # "idle" => job[q].key \in Keys /\ owner[job[q].key] = q /\ job[q].key <= 1
  BY <1>1 DEF CacheInv, AllFit, Fits, Holding
<1>4. \A k \in Keys : k <= 1 => k = 1
  BY KeyFacts
<1>5. QED
  BY <1>2, <1>3, <1>4

\* What a step of a process may do to others, and what is then to be shown of it.
LEMMA StepKeeps ==
    ASSUME CacheInv, NEW p \in Proc, NEW j \in Job, UNCHANGED <<workspace, input>>,
           job' = [job EXCEPT ![p] = j], cacheFaults' \in 0..CacheFaults,
           owner' \in [Keys -> Proc \cup {Nobody}],
           \A k \in Keys : owner[k] \notin {p, Nobody} => owner'[k] = owner[k],
           \/ output' = output
           \/ job[p].at # "idle" /\ \E f \in [Paths -> Files] : output' = [output EXCEPT ![workspace[p]] = f],
           blobs' \in [Contents -> {"absent", "intact", "damaged"}],
           \A c \in Contents : blobs[c] # "absent" => blobs'[c] # "absent",
           \/ actions' = actions
           \/ \E k \in Keys : /\ actions' = [actions EXCEPT ![k] = Truth(k)]
                              /\ \A item \in Parts : blobs'[<<k, item>>] # "absent",
           Fits(p, j, owner', input[workspace[p]], output'[workspace[p]], blobs')
    PROVE  CacheInv'
<1>1. /\ workspace \in [Proc -> Workspace] /\ input \in [Workspace -> Keys] /\ owner \in [Keys -> Proc \cup {Nobody}]
      /\ output \in [Workspace -> [Paths -> Files]] /\ job \in [Proc -> Job] /\ actions \in [Keys -> Manifest]
      /\ \A k \in Keys : Readable(k) \/ actions[k] \in {Unreadable, NoManifest}
  BY DEF CacheInv, CacheTypes, CacheTypeOK, Files
<1>2. output' \in [Workspace -> [Paths -> Files]]
  BY <1>1, Zenon
<1>3. job' \in [Proc -> Job] /\ job'[p] = j /\ \A q \in Proc : q # p => job'[q] = job[q]
  BY <1>1
<1>4. actions' \in [Keys -> Manifest] /\ \A k \in Keys : actions'[k] \in {actions[k], Truth(k)}
  <2>1. CASE actions' = actions
    BY <1>1, <2>1
  <2>2. CASE \E k \in Keys : /\ actions' = [actions EXCEPT ![k] = Truth(k)]
                             /\ \A item \in Parts : blobs'[<<k, item>>] # "absent"
    <3>1. PICK k \in Keys : actions' = [actions EXCEPT ![k] = Truth(k)]
      BY <2>2
    <3>2. Truth(k) \in Manifest
      BY KeyFacts DEF Manifest
    <3>3. actions \in [Keys -> Manifest]
      BY <1>1
    <3>4. actions' \in [Keys -> Manifest]
      BY <3>1, <3>2, <3>3
    <3>5. \A q \in Keys : actions'[q] \in {actions[q], Truth(q)}
      BY <3>1, <3>3
    <3>6. QED
      BY <3>4, <3>5
  <2>3. QED
    BY <2>1, <2>2
<1>5. \A k \in Keys : DOMAIN Truth(k) = Parts
  BY DEF Truth
<1>6. \A k \in Keys : Readable(k)' \/ actions'[k] \in {Unreadable, NoManifest}
  BY <1>1, <1>4, <1>5 DEF Readable
<1>7. \A q \in Proc : job'[q].at \in Stages /\ job'[q].todo \subseteq Parts
  BY <1>3 DEF Job
<1>8. CacheTypes'
  BY <1>1, <1>2, <1>3, <1>4, <1>6, <1>7 DEF CacheTypes, CacheTypeOK, Files
<1>9. CacheIsTrue'
  BY <1>4 DEF CacheInv, CacheIsTrue, Readable
<1>10. NamesStored'
  <2> SUFFICES ASSUME NEW k \in Keys, Readable(k)', NEW item \in Parts
               PROVE  blobs'[actions'[k][item]] # "absent"
    BY DEF NamesStored
  <2>1. Truth(k)[item] = <<k, item>> /\ <<k, item>> \in Contents
    BY KeyFacts
  <2>2. CASE actions' = actions
    BY <2>1, <2>2 DEF CacheInv, NamesStored, CacheIsTrue, Readable
  <2>3. ASSUME NEW m \in Keys, actions' = [actions EXCEPT ![m] = Truth(m)],
               \A i \in Parts : blobs'[<<m, i>>] # "absent"
        PROVE  blobs'[actions'[k][item]] # "absent"
    <3>1. CASE m = k
      BY <1>1, <2>1, <2>3, <3>1, Zenon
    <3>2. CASE m # k
      <4>1. actions'[k] = actions[k] /\ Readable(k)
        BY <1>1, <2>3, <3>2 DEF Readable
      <4>2. actions[k] = Truth(k) /\ blobs[actions[k][item]] # "absent"
        BY <4>1 DEF CacheInv, NamesStored, CacheIsTrue
      <4>3. QED
        BY <2>1, <4>1, <4>2
    <3>3. QED
      BY <3>1, <3>2
  <2>4. QED
    BY <2>2, <2>3
<1>11. AllFit'
  <2> SUFFICES ASSUME NEW q \in Proc
               PROVE  Fits(q, job'[q], owner', input[workspace[q]], output'[workspace[q]], blobs')
    BY DEF AllFit
  <2>1. CASE q = p
    BY <1>3, <2>1
  <2>2. CASE q # p
    <3>1. Fits(q, job[q], owner, input[workspace[q]], output[workspace[q]], blobs)
      BY DEF CacheInv, AllFit
    <3>2. job[q].at # "idle" => output'[workspace[q]] = output[workspace[q]]
      <4> SUFFICES ASSUME job[q].at # "idle" PROVE output'[workspace[q]] = output[workspace[q]]
        OBVIOUS
      <4>1. workspace[q] = workspace[p] => job[p].at = "idle"
        BY <2>2, Alone
      <4>2. workspace[q] \in Workspace
        BY <1>1
      <4>3. QED
        BY <1>1, <4>1, <4>2
    <3>3. job[q].at # "idle" => owner'[job[q].key] = owner[job[q].key]
      <4>1. job[q].at # "idle" => job[q].key \in Keys /\ owner[job[q].key] = q
        BY <3>1 DEF Fits, Holding
      <4>2. q \notin {p, Nobody}
        BY <2>2, NobodyAssumption
      <4>3. QED
        BY <4>1, <4>2
    <3>4. input[workspace[q]] \in Nat /\ job[q] \in Job
      BY <1>1, KeyFacts, Zenon
    <3>6. input[workspace[q]] <= input[workspace[q]]
      BY <3>4
    <3>5. QED
      BY <1>3, <2>2, <3>1, <3>2, <3>3, <3>4, <3>6, FitsKeeps
  <2>3. QED
    BY <2>1, <2>2
<1>12. SharedIsStill'
  BY DEF CacheInv, SharedIsStill
<1>13. QED
  BY <1>8, <1>9, <1>10, <1>11, <1>12 DEF CacheInv

LEMMA JobOf ==
    ASSUME CacheInv, NEW p \in Proc
    PROVE  /\ job \in [Proc -> Job] /\ job[p] \in Job
           /\ workspace[p] \in Workspace /\ input[workspace[p]] \in Keys /\ input[workspace[p]] \in Nat
           /\ output \in [Workspace -> [Paths -> Files]] /\ output[workspace[p]] \in [Paths -> Files]
           /\ owner \in [Keys -> Proc \cup {Nobody}] /\ cacheFaults \in 0..CacheFaults
           /\ blobs \in [Contents -> {"absent", "intact", "damaged"}]
           /\ Fits(p, job[p], owner, input[workspace[p]], output[workspace[p]], blobs)
<1>1. /\ workspace \in [Proc -> Workspace] /\ input \in [Workspace -> Keys]
      /\ output \in [Workspace -> [Paths -> Files]] /\ job \in [Proc -> Job]
      /\ owner \in [Keys -> Proc \cup {Nobody}] /\ cacheFaults \in 0..CacheFaults
      /\ blobs \in [Contents -> {"absent", "intact", "damaged"}]
  BY DEF CacheInv, CacheTypes, CacheTypeOK, Files
<1>2. job[p] \in Job /\ workspace[p] \in Workspace /\ output[workspace[p]] \in [Paths -> Files]
  BY <1>1
<1>3. input[workspace[p]] \in Keys /\ input[workspace[p]] \in Nat
  BY <1>1, <1>2, KeyFacts, Zenon
<1>4. Fits(p, job[p], owner, input[workspace[p]], output[workspace[p]], blobs)
  BY DEF CacheInv, AllFit
<1>5. QED
  BY <1>1, <1>2, <1>3, <1>4

\* A step that concerns the job only.
LEMMA JobStep ==
    ASSUME CacheInv, NEW p \in Proc, NEW j \in Job, UNCHANGED <<Disk, owner>>,
           cacheFaults' \in 0..CacheFaults, job' = [job EXCEPT ![p] = j],
           job[p].at # "idle", j.at # "idle", j.key = job[p].key,
           Restoring(j, output[workspace[p]]),
           Saving(j, input[workspace[p]], output[workspace[p]], blobs)
    PROVE  CacheInv'
<1>1. Fits(p, j, owner', input[workspace[p]], output'[workspace[p]], blobs')
  BY JobOf DEF Fits, Holding, Disk
<1>2. QED
  BY <1>1, JobOf, StepKeeps, Zenon DEF Disk

\* A step that writes outputs too.
LEMMA OutputStep ==
    ASSUME CacheInv, NEW p \in Proc, NEW j \in Job, NEW f \in [Paths -> Files],
           UNCHANGED <<workspace, input, blobs, actions, owner, cacheFaults>>,
           output' = [output EXCEPT ![workspace[p]] = f], job' = [job EXCEPT ![p] = j],
           job[p].at # "idle", j.at # "idle", j.key = job[p].key,
           Restoring(j, f), Saving(j, input[workspace[p]], f, blobs)
    PROVE  CacheInv'
<1>1. output'[workspace[p]] = f
  BY JobOf
<1>2. Fits(p, j, owner', input[workspace[p]], output'[workspace[p]], blobs')
  BY <1>1, JobOf DEF Fits, Holding
<1>3. QED
  BY <1>2, JobOf, StepKeeps, Zenon

LEMMA ReleaseKeeps ==
    ASSUME CacheInv, NEW p \in Proc, Release(p), UNCHANGED Disk, cacheFaults' \in 0..CacheFaults
    PROVE  CacheInv'
<1>1. job' = [job EXCEPT ![p] = Idle] /\ Idle \in Job
  BY IdleIsJob DEF Release
<1>2. owner' = [k \in Keys |-> IF owner[k] = p THEN Nobody ELSE owner[k]]
  BY DEF Release
<1>3. owner' \in [Keys -> Proc \cup {Nobody}] /\ \A k \in Keys : owner[k] \notin {p, Nobody} => owner'[k] = owner[k]
  BY <1>2, JobOf
<1>4. Fits(p, Idle, owner', input[workspace[p]], output'[workspace[p]], blobs')
  BY IdleIsJob DEF Fits, Holding, Restoring, Saving
<1>5. QED
  BY <1>1, <1>3, <1>4, JobOf, StepKeeps, Zenon DEF Disk

LEMMA PrepareKeeps == ASSUME CacheInv, NEW p \in Proc, Prepare(p) PROVE CacheInv'
<1> DEFINE key == input[workspace[p]]
           j == [job[p] EXCEPT !.at = "lookup", !.key = key, !.before = output[workspace[p]]]
<1>1. job[p] = Idle /\ owner[key] = Nobody /\ owner' = [owner EXCEPT ![key] = p]
      /\ UNCHANGED <<Disk, cacheFaults>>
  BY JobOf DEF Prepare, Fits, Holding
<1>2. job' = [job EXCEPT ![p] = j]
  BY JobOf, Zenon DEF Prepare
<1>3. /\ j \in Job /\ j.at = "lookup" /\ j.key = key /\ j.before = output[workspace[p]]
      /\ j.backup = <<>> /\ j.index = 1
  <2>1. "lookup" \in Stages /\ Idle.backup = <<>> /\ Idle.index = 1
    BY DEF Stages, Idle
  <2>2. QED
    BY <1>1, <2>1, JobOf, Zenon DEF Job
<1> HIDE DEF j
<1>4. owner'[key] = p /\ owner' \in [Keys -> Proc \cup {Nobody}]
      /\ \A k \in Keys : owner[k] \notin {p, Nobody} => owner'[k] = owner[k]
  BY <1>1, JobOf
<1>5. Fits(p, j, owner', key, output[workspace[p]], blobs)
  <2>1. Holding(p, j, owner', key)
    BY <1>3, <1>4, JobOf DEF Holding
  <2>2. QED
    BY <1>3, <2>1 DEF Fits, Restoring, Saving
<1>6. QED
  BY <1>1, <1>2, <1>3, <1>4, <1>5, JobOf, StepKeeps, Zenon DEF Disk

\* A restore that is refused before it has changed anything, or when all is rolled back.
LEMMA RefuseFits ==
    ASSUME CacheInv, NEW p \in Proc,
           \/ job[p].at \in {"lookup", "stage", "logs"}
           \/ job[p].at = "rollback" /\ job[p].backup = <<>>
    PROVE  /\ [job[p] EXCEPT !.at = "refused"] \in Job
           /\ Restoring([job[p] EXCEPT !.at = "refused"], output[workspace[p]])
           /\ Saving([job[p] EXCEPT !.at = "refused"], input[workspace[p]], output[workspace[p]], blobs)
<1> DEFINE j == [job[p] EXCEPT !.at = "refused"]
<1>1. j \in Job /\ j.at = "refused" /\ j.before = job[p].before /\ j.spoiled = job[p].spoiled
  <2>1. "refused" \in Stages
    BY DEF Stages
  <2>2. QED
    BY <2>1, JobOf, Zenon DEF Job
<1>2. ~job[p].spoiled => output[workspace[p]] = job[p].before
  <2>1. CASE job[p].at \in {"lookup", "stage", "logs"}
    BY <2>1, JobOf DEF Fits, Restoring
  <2>2. ASSUME job[p].at = "rollback", job[p].backup = <<>>, ~job[p].spoiled
        PROVE  output[workspace[p]] = job[p].before
    <3>1. Untouched(job[p], output[workspace[p]], 0)
      BY <2>2, JobOf DEF Fits, Restoring
    <3>2. \A i \in 1..Len(Outputs) : output[workspace[p]][Outputs[i]] = job[p].before[Outputs[i]]
      BY <3>1, OutputList DEF Untouched
    <3>3. \A path \in Paths : output[workspace[p]][path] = job[p].before[path]
      BY <3>2, OutputList
    <3>4. job[p].before \in [Paths -> Files] /\ output[workspace[p]] \in [Paths -> Files]
      BY JobOf DEF Job
    <3>5. QED
      BY <3>3, <3>4
  <2>3. QED
    BY <2>1, <2>2
<1> HIDE DEF j
<1>3. Restoring(j, output[workspace[p]]) /\ Saving(j, input[workspace[p]], output[workspace[p]], blobs)
  BY <1>1, <1>2 DEF Restoring, Saving
<1>4. QED
  BY <1>1, <1>3 DEF j

LEMMA RefuseKeeps ==
    ASSUME CacheInv, NEW p \in Proc, Refuse(p), UNCHANGED <<Disk, owner, cacheFaults>>,
           \/ job[p].at \in {"lookup", "stage", "logs"}
           \/ job[p].at = "rollback" /\ job[p].backup = <<>>
    PROVE  CacheInv'
<1> DEFINE j == [job[p] EXCEPT !.at = "refused"]
<1>1. job' = [job EXCEPT ![p] = j]
  BY DEF Refuse, Goto
<1>2. j.at = "refused" /\ j.key = job[p].key
  BY JobOf DEF Job
<1>3. j \in Job /\ Restoring(j, output[workspace[p]]) /\ Saving(j, input[workspace[p]], output[workspace[p]], blobs)
  BY RefuseFits
<1> HIDE DEF j
<1>4. QED
  BY <1>1, <1>2, <1>3, JobOf, JobStep, Zenon DEF Disk

LEMMA ReadKeeps == ASSUME CacheInv, NEW p \in Proc, ReadManifest(p) PROVE CacheInv'
<1> DEFINE key == job[p].key
           out == output[workspace[p]]
<1>1. job[p].at = "lookup" /\ UNCHANGED <<Disk, owner, cacheFaults>>
  BY DEF ReadManifest, Locked
<1>2. key \in Keys /\ out = job[p].before /\ job[p].index = 1 /\ job[p].backup = <<>>
  BY <1>1, JobOf DEF Fits, Holding, Restoring
<1>3. CASE Refuse(p)
  BY <1>1, <1>3, RefuseKeeps
<1>4. CASE Goto(p, "miss")
  <2> DEFINE j == [job[p] EXCEPT !.at = "miss"]
  <2>1. "miss" \in Stages
    BY DEF Stages
  <2>2. job' = [job EXCEPT ![p] = j] /\ j \in Job /\ j.at = "miss" /\ j.key = key
    BY <1>4, <2>1, JobOf, Zenon DEF Goto, Job
  <2> HIDE DEF j
  <2>3. Restoring(j, out) /\ Saving(j, input[workspace[p]], out, blobs)
    BY <2>2 DEF Restoring, Saving
  <2>4. QED
    BY <1>1, <2>2, <2>3, JobOf, JobStep, Zenon DEF Disk
<1>5. CASE actions[key] \notin {Unreadable, NoManifest}
           /\ job' = [job EXCEPT ![p].at = "stage", ![p].copy = actions[key]]
  <2> DEFINE j == [job[p] EXCEPT !.at = "stage", !.copy = actions[key]]
  <2>1. actions[key] = Truth(key)
    BY <1>2, <1>5 DEF CacheInv, CacheTypes, CacheTypeOK, CacheIsTrue
  <2>2. "stage" \in Stages /\ Truth(key) \in [Parts -> Files]
    BY <1>2, KeyFacts, Zenon DEF Stages
  <2>3. job' = [job EXCEPT ![p] = j]
    BY <1>5, Zenon
  <2>4. /\ j \in Job /\ j.at = "stage" /\ j.key = key /\ j.copy = Truth(key)
        /\ j.before = job[p].before /\ j.backup = <<>> /\ j.index = 1
    BY <1>2, <2>1, <2>2, JobOf, Zenon DEF Job
  <2> HIDE DEF j
  <2>5. Restoring(j, out) /\ Saving(j, input[workspace[p]], out, blobs)
    <3>1. 1 \in 1..Len(Artifacts)
      BY OutputList, ArtifactList
    <3>2. QED
      BY <1>2, <2>4, <3>1 DEF Restoring, Saving
  <2>6. QED
    BY <1>1, <2>3, <2>4, <2>5, JobOf, JobStep, Zenon DEF Disk
<1>6. QED
  BY <1>3, <1>4, <1>5 DEF ReadManifest

LEMMA StageKeeps == ASSUME CacheInv, NEW p \in Proc, Stage(p) PROVE CacheInv'
<1> DEFINE out == output[workspace[p]]
<1>1. job[p].at = "stage" /\ UNCHANGED <<Disk, owner, cacheFaults>>
  BY DEF Stage, Locked
<1>2. /\ out = job[p].before /\ job[p].backup = <<>> /\ job[p].copy = Truth(job[p].key)
      /\ job[p].index \in 1..Len(Artifacts)
  BY <1>1, JobOf DEF Fits, Restoring
<1>3. CASE Refuse(p)
  BY <1>1, <1>3, RefuseKeeps
<1>4. CASE job' = Advance(p, "logs")
  <2>1. "logs" \in Stages /\ Len(Artifacts) \in Nat /\ job[p].index + 1 \in Nat
    BY <1>2, OutputList, ArtifactList DEF Stages
  <2>2. CASE job[p].index = Len(Artifacts)
    <3> DEFINE j == [job[p] EXCEPT !.index = 1, !.at = "logs"]
    <3>1. job' = [job EXCEPT ![p] = j]
      BY <1>4, <2>2, Zenon DEF Advance
    <3>2. /\ j \in Job /\ j.key = job[p].key /\ j.copy = job[p].copy
          /\ j.before = job[p].before /\ j.backup = job[p].backup /\ j.at = "logs" /\ j.index = 1
      BY <2>1, JobOf, Zenon DEF Job
    <3> HIDE DEF j
    <3>3. Restoring(j, out) /\ Saving(j, input[workspace[p]], out, blobs)
      BY <1>2, <3>2 DEF Restoring, Saving
    <3>4. QED
      BY <1>1, <3>1, <3>2, <3>3, JobOf, JobStep, Zenon DEF Disk
  <2>3. CASE job[p].index # Len(Artifacts)
    <3> DEFINE j == [job[p] EXCEPT !.index = job[p].index + 1]
    <3>1. job' = [job EXCEPT ![p] = j]
      BY <1>4, <2>3 DEF Advance
    <3>2. /\ j \in Job /\ j.key = job[p].key /\ j.copy = job[p].copy
          /\ j.before = job[p].before /\ j.backup = job[p].backup /\ j.at = "stage"
          /\ j.index = job[p].index + 1
      BY <1>1, <2>1, JobOf, Zenon DEF Job
    <3> HIDE DEF j
    <3>3. job[p].index + 1 \in 1..Len(Artifacts)
      BY <1>2, <2>1, <2>3
    <3>4. Restoring(j, out) /\ Saving(j, input[workspace[p]], out, blobs)
      BY <1>2, <3>2, <3>3 DEF Restoring, Saving
    <3>5. QED
      BY <1>1, <3>1, <3>2, <3>4, JobOf, JobStep, Zenon DEF Disk
  <2>4. QED
    BY <2>2, <2>3
<1>5. QED
  BY <1>3, <1>4 DEF Stage

LEMMA LogsKeep == ASSUME CacheInv, NEW p \in Proc, WriteLogs(p) PROVE CacheInv'
<1> DEFINE out == output[workspace[p]]
           stage == IF Outputs = <<>> THEN "restored" ELSE "setaside"
<1>1. job[p].at = "logs" /\ UNCHANGED <<Disk, owner, cacheFaults>>
  BY DEF WriteLogs, Locked
<1>2. /\ out = job[p].before /\ job[p].backup = <<>> /\ job[p].index = 1 /\ job[p].copy = Truth(job[p].key)
      /\ job[p].key \in Keys
  BY <1>1, JobOf DEF Fits, Restoring, Holding
<1>3. CASE Refuse(p)
  BY <1>1, <1>3, RefuseKeeps
<1>4. CASE job' = [job EXCEPT ![p].at = stage, ![p].log = job[p].copy["log"]]
  <2> DEFINE j == [job[p] EXCEPT !.at = stage, !.log = job[p].copy["log"]]
  <2>1. stage \in Stages /\ job[p].copy["log"] \in Files
    <3>1. "log" \in Parts
      BY ArtifactList
    <3>2. QED
      BY <3>1, JobOf DEF Job, Stages
  <2>2. job' = [job EXCEPT ![p] = j]
    BY <1>4, Zenon
  <2>3. /\ j \in Job /\ j.at = stage /\ j.key = job[p].key /\ j.copy = job[p].copy
        /\ j.log = job[p].copy["log"] /\ j.before = job[p].before /\ j.backup = job[p].backup /\ j.index = job[p].index
    BY <2>1, JobOf, Zenon DEF Job
  <2> HIDE DEF j
  <2>4. Len(j.backup) = 0 /\ j.index - 1 = 0 /\ Untouched(j, out, 0) /\ Replaced(j, out, 0)
    BY <1>2, <2>3, OutputList DEF Untouched, Replaced
  <2>5. stage = "setaside" => 1 \in 1..Len(Outputs)
    BY OutputList
  <2>6. stage = "restored" => \A path \in Paths : out[path] = Truth(j.key)[path]
    BY OutputList
  <2> HIDE DEF stage
  <2>7. stage \in {"setaside", "restored"}
    BY DEF stage
  <2>8. Restoring(j, out) /\ Saving(j, input[workspace[p]], out, blobs)
    BY <1>2, <2>3, <2>4, <2>5, <2>6, <2>7, OutputList DEF Restoring, Saving
  <2>9. QED
    BY <1>1, <2>2, <2>3, <2>7, <2>8, JobOf, JobStep, Zenon DEF Disk
<1>5. QED
  BY <1>3, <1>4 DEF WriteLogs

LEMMA SetAsideKeeps == ASSUME CacheInv, NEW p \in Proc, SetAside(p) PROVE CacheInv'
<1> DEFINE out == output[workspace[p]]
           i == job[p].index
           path == Outputs[i]
           r == Record(p, path)
           f == [out EXCEPT ![path] = None]
           j == [job[p] EXCEPT !.at = "install", !.backup = Append(@, r)]
<1>1. job[p].at = "setaside" /\ UNCHANGED <<workspace, input, blobs, actions, owner, cacheFaults>>
  BY DEF SetAside, Locked
<1>2. /\ job[p].copy = Truth(job[p].key) /\ job[p].log = Truth(job[p].key)["log"]
      /\ i \in 1..Len(Outputs) /\ Replaced(job[p], out, i - 1)
      /\ Len(job[p].backup) = i - 1 /\ Untouched(job[p], out, i - 1)
      /\ \A k \in 1..Len(job[p].backup) :
            job[p].backup[k].path = Outputs[k] /\ job[p].backup[k].old = job[p].before[Outputs[k]]
  BY <1>1, JobOf DEF Fits, Restoring
<1>3. path \in Paths /\ i \in Nat /\ i >= 1
  BY <1>2, OutputList
<1>4. job' = [job EXCEPT ![p] = j] /\ output' = [output EXCEPT ![workspace[p]] = f]
  BY JobOf, Zenon DEF SetAside, Put
<1>5. f \in [Paths -> Files] /\ \A q \in Paths : q # path => f[q] = out[q]
  BY <1>3, JobOf DEF Files
<1>6. r \in Backup /\ r.path = path /\ r.old = job[p].before[path]
  <2>1. out[path] = job[p].before[path] /\ out[path] \in Files
    BY <1>2, <1>3, JobOf DEF Untouched
  <2>2. QED
    BY <1>3, <2>1 DEF Record, File, Backup
<1> HIDE DEF r
<1>7. /\ Append(job[p].backup, r) \in Seq(Backup) /\ Len(Append(job[p].backup, r)) = i
      /\ Append(job[p].backup, r)[i] = r
      /\ \A k \in 1..i - 1 : Append(job[p].backup, r)[k] = job[p].backup[k]
  BY <1>2, <1>3, <1>6, JobOf DEF Job
<1>8. /\ j \in Job /\ j.at = "install" /\ j.key = job[p].key /\ j.copy = job[p].copy /\ j.log = job[p].log
      /\ j.before = job[p].before /\ j.backup = Append(job[p].backup, r) /\ j.index = i
  <2>1. "install" \in Stages
    BY DEF Stages
  <2>2. QED
    BY <1>7, <2>1, JobOf, ZenonT(40) DEF Job
<1> HIDE DEF j, f
<1>9. \A k \in 1..Len(Outputs) : k # i => Outputs[k] \in Paths /\ f[Outputs[k]] = out[Outputs[k]]
  BY <1>2, <1>5, OutputList
<1>10. Replaced(j, f, i - 1) /\ Untouched(j, f, i)
  <2>1. \A k \in 1..Len(Outputs) : k <= i - 1 => k # i
    BY <1>3
  <2>2. \A k \in 1..Len(Outputs) : k > i => k # i /\ k > i - 1
    BY <1>3
  <2>3. QED
    BY <1>2, <1>8, <1>9, <2>1, <2>2 DEF Replaced, Untouched
<1>11. \A k \in 1..Len(j.backup) : j.backup[k].path = Outputs[k] /\ j.backup[k].old = j.before[Outputs[k]]
  <2> SUFFICES ASSUME NEW k \in 1..i PROVE j.backup[k].path = Outputs[k] /\ j.backup[k].old = j.before[Outputs[k]]
    BY <1>7, <1>8
  <2>1. CASE k = i
    BY <1>6, <1>7, <1>8, <2>1
  <2>2. CASE k # i
    <3>1. k \in 1..i - 1
      BY <1>3, <2>2
    <3>2. QED
      BY <1>2, <1>7, <1>8, <3>1
  <2>3. QED
    BY <2>1, <2>2
<1>12. Restoring(j, f)
  BY <1>2, <1>7, <1>8, <1>10, <1>11, OutputList DEF Restoring
<1>13. Saving(j, input[workspace[p]], f, blobs)
  BY <1>8 DEF Saving
<1>14. QED
  BY <1>1, <1>4, <1>5, <1>8, <1>12, <1>13, OutputStep, Zenon

LEMMA InstallKeeps == ASSUME CacheInv, NEW p \in Proc, Install(p) PROVE CacheInv'
<1> DEFINE out == output[workspace[p]]
           i == job[p].index
           path == Outputs[i]
           f == [out EXCEPT ![path] = job[p].copy[path]]
           stage == IF i = Len(Outputs) THEN "restored" ELSE "setaside"
           b == [job[p].backup EXCEPT ![i].installed = TRUE]
           j == [job[p] EXCEPT !.backup = b, !.index = i + 1, !.at = stage]
<1>1. job[p].at = "install" /\ UNCHANGED <<workspace, input, blobs, actions, owner, cacheFaults>>
  BY DEF Install, Locked
<1>2. /\ job[p].copy = Truth(job[p].key) /\ job[p].log = Truth(job[p].key)["log"] /\ job[p].key \in Keys
      /\ i \in 1..Len(Outputs) /\ Replaced(job[p], out, i - 1)
      /\ Len(job[p].backup) = i /\ Untouched(job[p], out, i)
      /\ \A k \in 1..Len(job[p].backup) :
            job[p].backup[k].path = Outputs[k] /\ job[p].backup[k].old = job[p].before[Outputs[k]]
  BY <1>1, JobOf DEF Fits, Restoring, Holding
<1>3. path \in Paths /\ path \in Parts /\ i \in Nat /\ i >= 1 /\ i <= Len(Outputs) /\ Len(Outputs) \in Nat
  BY <1>2, OutputList, ArtifactList
<1>4. job' = [job EXCEPT ![p] = j] /\ output' = [output EXCEPT ![workspace[p]] = f]
  BY JobOf, Zenon DEF Install, Put
<1>5. f \in [Paths -> Files] /\ f[path] = Truth(job[p].key)[path] /\ \A q \in Paths : q # path => f[q] = out[q]
  BY <1>2, <1>3, KeyFacts, JobOf, Zenon
<1>6. /\ b \in Seq(Backup) /\ Len(b) = i
      /\ \A k \in 1..i : b[k].path = job[p].backup[k].path /\ b[k].old = job[p].backup[k].old
  <2> DEFINE o == job[p].backup
  <2>1. o \in Seq(Backup) /\ Len(o) = i /\ i \in 1..Len(o) /\ DOMAIN o = 1..i
    BY <1>2, <1>3, JobOf DEF Job
  <2> HIDE DEF o
  <2>2. \A k \in 1..i : o[k] \in Backup
    BY <2>1
  <2>3. [o[i] EXCEPT !.installed = TRUE] \in Backup
    BY <2>1, <2>2, Zenon DEF Backup
  <2>4. [o EXCEPT ![i].installed = TRUE] \in [1..i -> Backup]
    BY <2>1, <2>2, <2>3
  <2>5. \A k \in 1..i : /\ [o EXCEPT ![i].installed = TRUE][k].path = o[k].path
                        /\ [o EXCEPT ![i].installed = TRUE][k].old = o[k].old
    BY <2>1, <2>2 DEF Backup
  <2> DEFINE c == [o EXCEPT ![i].installed = TRUE]
  <2>6. c \in [1..i -> Backup] /\ b = c
    BY <2>4 DEF o
  <2> HIDE DEF c
  <2>7. c \in Seq(Backup) /\ Len(c) = i
    BY <1>3, <2>6
  <2>8. \A k \in 1..i : c[k].path = o[k].path /\ c[k].old = o[k].old
    BY <2>5 DEF c
  <2>9. QED
    BY <2>6, <2>7, <2>8, Zenon DEF o
<1>7. stage \in {"restored", "setaside"} /\ (stage = "restored" <=> i = Len(Outputs))
  OBVIOUS
<1> HIDE DEF b, stage
<1>8. /\ j \in Job /\ j.at = stage /\ j.key = job[p].key /\ j.copy = job[p].copy /\ j.log = job[p].log
      /\ j.before = job[p].before /\ j.backup = b /\ j.index = i + 1
  <2>1. stage \in Stages /\ b \in Seq(Backup) /\ i + 1 \in Nat
    BY <1>3, <1>6, <1>7 DEF Stages
  <2> DEFINE m == i + 1
  <2>2. job[p] \in Job /\ j = [job[p] EXCEPT !.backup = b, !.index = m, !.at = stage]
    BY JobOf
  <2>3. m \in Nat
    BY <2>1
  <2> HIDE DEF m
  <2>4. /\ [job[p] EXCEPT !.backup = b, !.index = m, !.at = stage] \in Job
        /\ j.at = stage /\ j.key = job[p].key /\ j.copy = job[p].copy /\ j.log = job[p].log
        /\ j.before = job[p].before /\ j.backup = b /\ j.index = m
    BY <2>1, <2>2, <2>3, Zenon DEF Job
  <2>5. QED
    BY <2>2, <2>4 DEF m
<1> HIDE DEF j, f
<1>9. \A k \in 1..Len(Outputs) : k # i => Outputs[k] \in Paths /\ f[Outputs[k]] = out[Outputs[k]]
  BY <1>2, <1>5, OutputList
<1>10. Replaced(j, f, i) /\ Untouched(j, f, i)
  <2>1. \A k \in 1..Len(Outputs) : k <= i => k = i \/ (k # i /\ k <= i - 1)
    BY <1>3
  <2>2. \A k \in 1..Len(Outputs) : k > i => k # i
    BY <1>3
  <2>3. QED
    BY <1>2, <1>5, <1>8, <1>9, <2>1, <2>2, ZenonT(40) DEF Replaced, Untouched
<1>11. stage = "restored" => \A q \in Paths : f[q] = Truth(j.key)[q]
  BY <1>3, <1>7, <1>10, OutputList DEF Replaced
<1>12. stage = "setaside" => i + 1 \in 1..Len(Outputs)
  BY <1>3, <1>7
<1>13. (i + 1) - 1 = i
  BY <1>3
<1>14. Restoring(j, f)
  BY <1>2, <1>3, <1>6, <1>7, <1>8, <1>10, <1>11, <1>12, <1>13 DEF Restoring
<1>15. Saving(j, input[workspace[p]], f, blobs)
  BY <1>7, <1>8 DEF Saving
<1>16. QED
  BY <1>1, <1>4, <1>5, <1>7, <1>8, <1>14, <1>15, OutputStep, Zenon

LEMMA RenameFailsKeeps == ASSUME CacheInv, NEW p \in Proc, RenameFails(p) PROVE CacheInv'
<1> DEFINE out == output[workspace[p]]
           j == [job[p] EXCEPT !.at = "rollback"]
<1>1. job[p].at \in {"setaside", "install"} /\ UNCHANGED <<Disk, owner>>
  BY DEF RenameFails
<1>2. cacheFaults' \in 0..CacheFaults
  <2>1. cacheFaults \in Nat /\ cacheFaults < CacheFaults /\ cacheFaults' = cacheFaults + 1
    BY JobOf DEF RenameFails, Fault
  <2>2. CacheFaults \in Nat
    BY CacheAssumption, Zenon
  <2>3. QED
    BY <2>1, <2>2
<1>3. /\ Len(job[p].backup) <= Len(Outputs) /\ Untouched(job[p], out, Len(job[p].backup))
      /\ \A i \in 1..Len(job[p].backup) :
            job[p].backup[i].path = Outputs[i] /\ job[p].backup[i].old = job[p].before[Outputs[i]]
  BY <1>1, JobOf DEF Fits, Restoring
<1>4. "rollback" \in Stages
  BY DEF Stages
<1>5. /\ job' = [job EXCEPT ![p] = j] /\ j \in Job /\ j.at = "rollback" /\ j.key = job[p].key
      /\ j.backup = job[p].backup /\ j.before = job[p].before
  BY <1>4, JobOf, Zenon DEF RenameFails, Goto, Job
<1> HIDE DEF j
<1>6. Untouched(j, out, Len(j.backup))
  BY <1>3, <1>5 DEF Untouched
<1>7. Restoring(j, out) /\ Saving(j, input[workspace[p]], out, blobs)
  BY <1>3, <1>5, <1>6 DEF Restoring, Saving
<1>8. job[p].at # "idle"
  BY <1>1
<1>9. QED
  BY <1>1, <1>2, <1>5, <1>7, <1>8, JobStep, Zenon

\* One path is rolled back, or its rollback fails.
LEMMA RollbackKeeps == ASSUME CacheInv, NEW p \in Proc, Rollback(p) PROVE CacheInv'
<1> DEFINE out == output[workspace[p]]
           old == job[p].backup
           n == Len(old)
           last == Last(old)
           undone == [job EXCEPT ![p].backup = Front(@)]
<1>1. job[p].at = "rollback" /\ UNCHANGED <<workspace, input, blobs, actions, owner, cacheFaults>>
  BY DEF Rollback, Locked
<1>2. /\ n <= Len(Outputs) /\ (~job[p].spoiled => Untouched(job[p], out, n))
      /\ \A i \in 1..n : old[i].path = Outputs[i] /\ old[i].old = job[p].before[Outputs[i]]
  BY <1>1, JobOf DEF Fits, Restoring
<1>3. CASE old = <<>> /\ Refuse(p) /\ UNCHANGED output
  BY <1>1, <1>3, RefuseKeeps DEF Disk
<1>4. old \in Seq(Backup)
  BY JobOf DEF Job
<1>5. CASE old # <<>> /\ ((Put(p, last.path, last.old) /\ job' = undone)
                          \/ /\ job' = [undone EXCEPT ![p].spoiled = TRUE]
                             /\ \/ last.installed /\ UNCHANGED output
                                \/ last.old # None /\ Put(p, last.path, None))
  <2>1. n \in 1..Len(Outputs) /\ last = old[n] /\ n - 1 \in Nat
    BY <1>2, <1>4, <1>5, OutputList DEF Last
  <2>2. /\ Front(old) \in Seq(Backup) /\ Len(Front(old)) = n - 1
        /\ \A i \in 1..n - 1 : Front(old)[i] = old[i] /\ i \in 1..n
    BY <1>4, <1>5, <2>1 DEF Front
  <2>3. last.path = Outputs[n] /\ Outputs[n] \in Paths /\ last.old = job[p].before[Outputs[n]]
    BY <1>2, <2>1, OutputList
  <2>4. last.old \in Files
    BY <2>3, JobOf DEF Job
  <2>5. \A v \in Files : [out EXCEPT ![last.path] = v] \in [Paths -> Files]
    BY <2>3, JobOf
  <2>6. \A v : Put(p, last.path, v) => output' = [output EXCEPT ![workspace[p]] = [out EXCEPT ![last.path] = v]]
    BY JobOf DEF Put
  <2>7. UNCHANGED output => output' = [output EXCEPT ![workspace[p]] = out]
    BY JobOf
  <2>8. None \in Files
    BY DEF Files
  <2> DEFINE j(b) == [job[p] EXCEPT !.backup = Front(old), !.spoiled = b]
  <2>9. \A b \in BOOLEAN : /\ j(b) \in Job /\ j(b).at = "rollback" /\ j(b).key = job[p].key /\ j(b).spoiled = b
                           /\ j(b).backup = Front(old) /\ j(b).before = job[p].before
    <3> TAKE b \in BOOLEAN
    <3>1. j(b) = [job[p] EXCEPT !.backup = Front(old), !.spoiled = b]
      OBVIOUS
    <3>2. job[p] \in Job
      BY JobOf
    <3> DEFINE k == [job[p] EXCEPT !.backup = Front(old), !.spoiled = b]
               g == Front(old)
    <3>3. g \in Seq(Backup)
      BY <2>2
    <3> HIDE DEF g, j
    <3>4. k = [job[p] EXCEPT !.backup = g, !.spoiled = b]
      BY DEF g
    <3>5. k \in Job /\ k.at = "rollback" /\ k.key = job[p].key /\ k.spoiled = b
          /\ k.backup = g /\ k.before = job[p].before
      <4> HIDE DEF k
      <4>1. QED
        BY <1>1, <3>2, <3>3, <3>4, Zenon DEF Job
    <3>6. QED
      BY <3>1, <3>5 DEF g
  <2>10. job' \in {[job EXCEPT ![p] = j(job[p].spoiled)], [job EXCEPT ![p] = j(TRUE)]}
         /\ (job' = undone => job' = [job EXCEPT ![p] = j(job[p].spoiled)])
         /\ (job' = [undone EXCEPT ![p].spoiled = TRUE] => job' = [job EXCEPT ![p] = j(TRUE)])
    <3>1. undone = [job EXCEPT ![p] = j(job[p].spoiled)]
      <4>1. [job[p] EXCEPT !.backup = Front(old)] = j(job[p].spoiled)
        BY JobOf, Zenon DEF Job
      <4>2. QED
        BY <4>1, Zenon
    <3>2. [undone EXCEPT ![p].spoiled = TRUE] = [job EXCEPT ![p] = j(TRUE)]
      BY JobOf, Zenon
    <3>3. QED
      BY <1>5, <3>1, <3>2
  <2> HIDE DEF j
  <2>11. \A b \in BOOLEAN : \A i \in 1..Len(j(b).backup) :
            j(b).backup[i].path = Outputs[i] /\ j(b).backup[i].old = j(b).before[Outputs[i]]
    <3> TAKE b \in BOOLEAN
    <3>1. j(b).backup = Front(old) /\ j(b).before = job[p].before
      BY <2>9
    <3>2. \A i \in 1..n - 1 : Front(old)[i].path = Outputs[i] /\ Front(old)[i].old = job[p].before[Outputs[i]]
      BY <1>2, <2>2, Zenon
    <3>3. QED
      BY <2>2, <3>1, <3>2
  <2>12. \A b \in BOOLEAN, f \in [Paths -> Files] :
            (~b => Untouched(j(b), f, n - 1)) => Restoring(j(b), f) /\ Saving(j(b), input[workspace[p]], f, blobs)
    <3> TAKE b \in BOOLEAN, f \in [Paths -> Files]
    <3> HAVE ~b => Untouched(j(b), f, n - 1)
    <3>1. Len(j(b).backup) = n - 1 /\ n - 1 <= Len(Outputs)
      BY <2>1, <2>2, <2>9, OutputList
    <3>2. QED
      BY <2>9, <2>11, <3>1 DEF Restoring, Saving
  <2>13. CASE Put(p, last.path, last.old) /\ job' = undone
    <3> DEFINE f == [out EXCEPT ![last.path] = last.old]
    <3>1. f \in [Paths -> Files] /\ job[p].spoiled \in BOOLEAN
      BY <2>4, <2>5, JobOf DEF Job
    <3>2. ~job[p].spoiled => Untouched(j(job[p].spoiled), f, n - 1)
      <4> SUFFICES ASSUME ~job[p].spoiled, NEW i \in 1..Len(Outputs), i > n - 1
                   PROVE  f[Outputs[i]] = job[p].before[Outputs[i]]
        BY <2>9, <3>1 DEF Untouched
      <4>1. Outputs[i] \in Paths
        BY OutputList
      <4>2. CASE i = n
        BY <2>3, <4>1, <4>2, JobOf
      <4>3. CASE i # n
        <5>1. i > n /\ Outputs[i] # Outputs[n]
          BY <2>1, <4>3, OutputList
        <5>2. QED
          BY <1>2, <2>3, <4>1, <5>1, JobOf DEF Untouched
      <4>4. QED
        BY <4>2, <4>3
    <3>3. output' = [output EXCEPT ![workspace[p]] = f]
      BY <2>6, <2>13
    <3> HIDE DEF f
    <3>4. QED
      BY <1>1, <2>9, <2>10, <2>12, <2>13, <3>1, <3>2, <3>3, OutputStep, Zenon
  <2>14. ASSUME NEW f \in [Paths -> Files], job' = [job EXCEPT ![p] = j(TRUE)],
                output' = [output EXCEPT ![workspace[p]] = f]
         PROVE  CacheInv'
    BY <1>1, <2>9, <2>12, <2>14, OutputStep, Zenon
  <2>15. QED
    BY <1>5, <2>5, <2>6, <2>7, <2>8, <2>10, <2>13, <2>14, JobOf, Zenon
<1>6. QED
  BY <1>3, <1>5 DEF Rollback

\* The lookup was a miss: the task begins with clean outputs.
LEMMA MissKeeps == ASSUME CacheInv, NEW p \in Proc, Miss(p) PROVE CacheInv'
<1>1. job[p].at # "idle" /\ UNCHANGED <<workspace, input, blobs, actions, cacheFaults>>
  BY DEF Miss
<1>2. CASE Release(p) /\ UNCHANGED output
  BY <1>1, <1>2, ReleaseKeeps, JobOf DEF Disk
<1>3. CASE /\ output' = [output EXCEPT ![workspace[p]] = [path \in Paths |-> None]]
           /\ job' = [job EXCEPT ![p] = [Idle EXCEPT !.at = "run", !.key = job[p].key, !.todo = Parts]]
           /\ UNCHANGED owner
  <2> DEFINE f == [path \in Paths |-> None]
             j == [Idle EXCEPT !.at = "run", !.key = job[p].key, !.todo = Parts]
  <2>1. f \in [Paths -> Files]
    BY DEF Files
  <2>2. "run" \in Stages
    BY DEF Stages
  <2>3. j \in Job /\ j.at = "run" /\ j.key = job[p].key /\ j.todo = Parts /\ j.index = 1
    <3>1. Idle.index = 1
      BY DEF Idle
    <3>2. QED
      BY <2>2, <3>1, IdleIsJob, JobOf, Zenon DEF Job
  <2>4. job' = [job EXCEPT ![p] = j] /\ output' = [output EXCEPT ![workspace[p]] = f]
    BY <1>3
  <2> HIDE DEF f, j
  <2>5. Restoring(j, f) /\ Saving(j, input[workspace[p]], f, blobs)
    BY <2>3 DEF Restoring, Saving
  <2>6. QED
    BY <1>1, <1>3, <2>1, <2>3, <2>4, <2>5, OutputStep, Zenon
<1>4. QED
  BY <1>2, <1>3 DEF Miss

\* Giving up, ending and being killed all drop the lock.
LEMMA EndKeeps ==
    ASSUME CacheInv, NEW p \in Proc, Restored(p) \/ GiveUp(p) \/ Saved(p) \/ KillProcess(p)
    PROVE  CacheInv'
<1>1. Release(p) /\ UNCHANGED Disk
  BY DEF Restored, GiveUp, Saved, KillProcess
<1>2. cacheFaults' \in 0..CacheFaults
  <2>1. \/ cacheFaults' = cacheFaults
        \/ cacheFaults < CacheFaults /\ cacheFaults' = cacheFaults + 1
    BY DEF Restored, GiveUp, Saved, KillProcess, Fault
  <2>2. CacheFaults \in Nat /\ cacheFaults \in 0..CacheFaults
    BY CacheAssumption, JobOf, Zenon
  <2>3. QED
    BY <2>1, <2>2
<1>3. QED
  BY <1>1, <1>2, ReleaseKeeps

\* A cancelled job fits like one that is not.
LEMMA CancelKeeps == ASSUME CacheInv, NEW p \in Proc, CancelTask(p) PROVE CacheInv'
<1> DEFINE j == [job[p] EXCEPT !.cancelled = TRUE]
           out == output[workspace[p]]
<1>1. job[p].at # "idle" /\ UNCHANGED <<Disk, owner, cacheFaults>>
  BY DEF CancelTask, Locked
<1>2. job' = [job EXCEPT ![p] = j]
  BY DEF CancelTask
<1>3. /\ j \in Job /\ j.at = job[p].at /\ j.key = job[p].key /\ j.todo = job[p].todo /\ j.copy = job[p].copy
      /\ j.log = job[p].log /\ j.index = job[p].index /\ j.backup = job[p].backup /\ j.before = job[p].before
      /\ j.spoiled = job[p].spoiled
  BY JobOf, Zenon DEF Job
<1> HIDE DEF j
<1>4. Restoring(job[p], out) /\ Saving(job[p], input[workspace[p]], out, blobs)
  BY JobOf DEF Fits
<1>5. /\ \A n : Untouched(j, out, n) <=> Untouched(job[p], out, n)
      /\ \A n : Replaced(j, out, n) <=> Replaced(job[p], out, n)
      /\ \A item : Made(j, out, item) = Made(job[p], out, item)
  BY <1>3 DEF Untouched, Replaced, Made
<1>6. Restoring(j, out)
  BY <1>3, <1>4, <1>5 DEF Restoring
<1>7. Saving(j, input[workspace[p]], out, blobs)
  BY <1>3, <1>4, <1>5 DEF Saving
<1>8. QED
  BY <1>1, <1>2, <1>3, <1>6, <1>7, JobOf, JobStep, Zenon

\* The task writes a part of what it makes, from the inputs it finds.
LEMMA ProduceKeeps == ASSUME CacheInv, NEW p \in Proc, NEW item \in Parts, Produce(p, item) PROVE CacheInv'
<1> DEFINE out == output[workspace[p]]
           in == input[workspace[p]]
           content == <<in, item>>
           f == IF item = "log" THEN out ELSE [out EXCEPT ![item] = content]
           log == IF item = "log" THEN content ELSE job[p].log
           stage == IF job[p].todo = {item} THEN "save" ELSE "run"
           todo == job[p].todo \ {item}
           j == [job[p] EXCEPT !.todo = todo, !.log = log, !.at = stage]
<1>1. job[p].at = "run" /\ UNCHANGED <<workspace, input, blobs, actions, owner, cacheFaults>>
  BY DEF Produce, Locked
<1>2. job[p].key \in Nat /\ in \in Nat /\ job[p].key <= in /\ in \in Keys
  BY <1>1, JobOf DEF Fits, Holding, Job
<1>3. \A i \in Parts \ job[p].todo : \E v \in job[p].key..in : Made(job[p], out, i) = <<v, i>>
  BY <1>1, JobOf DEF Fits, Saving
<1>3a. job[p].index = 1
  BY <1>1, JobOf DEF Fits, Saving
<1>4. content \in Files /\ in \in job[p].key..in
  BY <1>2, KeyFacts DEF Files
<1>5. item # "log" => item \in Paths
  BY ArtifactList
<1>6. f \in [Paths -> Files] /\ (item # "log" => f[item] = content)
      /\ \A i \in Paths : i # item => f[i] = out[i]
  BY <1>4, <1>5, ArtifactList, JobOf
<1>7. output' = [output EXCEPT ![workspace[p]] = f] /\ job' = [job EXCEPT ![p] = j]
  <2>1. job' = [job EXCEPT ![p] = j]
    BY Zenon DEF Produce
  <2>2. CASE item = "log"
    BY <2>1, <2>2, JobOf, Zenon DEF Produce
  <2>3. CASE item # "log"
    BY <2>1, <2>3, JobOf, Zenon DEF Produce, Put
  <2>4. QED
    BY <2>2, <2>3
<1>8. stage \in {"save", "run"} /\ (stage = "save" => todo = {}) /\ log \in Files /\ todo \in SUBSET Parts
  BY <1>4, JobOf DEF Job
<1>9. (item = "log" => log = content) /\ (item # "log" => log = job[p].log)
  OBVIOUS
<1>10. \A i \in Parts : i \notin todo => i = item \/ i \notin job[p].todo
  OBVIOUS
<1> HIDE DEF f, log, stage, todo
<1>11. /\ j \in Job /\ j.at = stage /\ j.key = job[p].key /\ j.todo = todo /\ j.log = log /\ j.index = job[p].index
  <2>1. stage \in Stages
    BY <1>8 DEF Stages
  <2>2. QED
    BY <1>8, <2>1, JobOf, Zenon DEF Job
<1> HIDE DEF j
<1>12. \A i \in Parts : i \notin todo => \E v \in j.key..in : Made(j, f, i) = <<v, i>>
  <2> SUFFICES ASSUME NEW i \in Parts, i \notin todo
               PROVE  \E v \in j.key..in : Made(j, f, i) = <<v, i>>
    OBVIOUS
  <2>1. CASE i = item
    BY <1>4, <1>6, <1>9, <1>11, <2>1 DEF Made
  <2>2. CASE i # item
    <3>1. PICK v \in job[p].key..in : Made(job[p], out, i) = <<v, i>>
      BY <1>3, <1>10, <2>2
    <3>2. Made(j, f, i) = Made(job[p], out, i)
      <4>1. CASE i = "log"
        BY <1>9, <1>11, <2>2, <4>1 DEF Made
      <4>2. CASE i # "log"
        BY <1>6, <2>2, <4>2, ArtifactList DEF Made
      <4>3. QED
        BY <4>1, <4>2
    <3>3. QED
      BY <1>11, <3>1, <3>2
  <2>3. QED
    BY <2>1, <2>2
<1>13. Saving(j, in, f, blobs)
  BY <1>3a, <1>8, <1>11, <1>12 DEF Saving
<1>14. Restoring(j, f)
  BY <1>8, <1>11 DEF Restoring
<1>15. QED
  BY <1>1, <1>6, <1>7, <1>8, <1>11, <1>13, <1>14, OutputStep, Zenon

LEMMA CheckKeeps == ASSUME CacheInv, NEW p \in Proc, CheckInputs(p) PROVE CacheInv'
<1> DEFINE out == output[workspace[p]]
           in == input[workspace[p]]
           j == [job[p] EXCEPT !.at = "snapshot"]
<1>1. job[p].at = "save" /\ UNCHANGED <<Disk, cacheFaults>>
  BY DEF CheckInputs
<1>2. CASE Release(p)
  BY <1>1, <1>2, ReleaseKeeps, JobOf
<1>3. CASE in = job[p].key /\ Goto(p, "snapshot") /\ UNCHANGED owner
  <2>1. "snapshot" \in Stages
    BY DEF Stages
  <2>2. /\ job' = [job EXCEPT ![p] = j] /\ j \in Job /\ j.at = "snapshot" /\ j.key = job[p].key
        /\ j.log = job[p].log /\ j.index = 1
    <3>1. job[p].index = 1
      BY <1>1, JobOf DEF Fits, Saving
    <3>2. QED
      BY <1>3, <2>1, <3>1, JobOf, ZenonT(40) DEF Goto, Job
  <2> HIDE DEF j
  <2>3. \A item \in Parts : Made(j, out, item) = <<j.key, item>>
    <3> SUFFICES ASSUME NEW item \in Parts PROVE Made(j, out, item) = <<j.key, item>>
      OBVIOUS
    <3>1. PICK v \in job[p].key..in : Made(job[p], out, item) = <<v, item>>
      BY <1>1, JobOf DEF Fits, Saving
    <3>2. v = in
      BY <1>3, <3>1, JobOf
    <3>3. Made(j, out, item) = Made(job[p], out, item)
      BY <2>2 DEF Made
    <3>4. QED
      BY <1>3, <2>2, <3>1, <3>2, <3>3
  <2>4. Restoring(j, out) /\ Saving(j, in, out, blobs)
    BY <2>2, <2>3 DEF Restoring, Saving
  <2>5. QED
    BY <1>1, <1>3, <2>2, <2>4, JobOf, JobStep, Zenon DEF Disk
<1>4. QED
  BY <1>2, <1>3 DEF CheckInputs

LEMMA SnapshotKeeps == ASSUME CacheInv, NEW p \in Proc, Snapshot(p) PROVE CacheInv'
<1> DEFINE out == output[workspace[p]]
           in == input[workspace[p]]
           copy == [item \in Parts |-> IF item = "log" THEN job[p].log ELSE File(p, item)]
           j == [job[p] EXCEPT !.at = "store", !.copy = copy]
<1>1. job[p].at = "snapshot" /\ UNCHANGED <<Disk, cacheFaults>>
  BY DEF Snapshot
<1>2. CASE Release(p)
  BY <1>1, <1>2, ReleaseKeeps, JobOf
<1>3. CASE job' = [job EXCEPT ![p].at = "store", ![p].copy = copy] /\ UNCHANGED owner
  <2>1. \A item \in Parts : Made(job[p], out, item) = <<job[p].key, item>>
    BY <1>1, JobOf DEF Fits, Saving
  <2>2. job[p].key \in Keys
    BY <1>1, JobOf DEF Fits, Holding
  <2>3. \A item \in Parts : copy[item] = <<job[p].key, item>>
    BY <2>1 DEF Made, File
  <2>4. copy = Truth(job[p].key) /\ copy \in [Parts -> Files]
    BY <2>2, <2>3, KeyFacts, Zenon DEF Truth
  <2>5. job' = [job EXCEPT ![p] = j]
    BY <1>3, Zenon
  <2> HIDE DEF copy
  <2>6. "store" \in Stages
    BY DEF Stages
  <2>7. /\ j \in Job /\ j.at = "store" /\ j.key = job[p].key /\ j.copy = copy /\ j.index = job[p].index
    BY <2>4, <2>6, JobOf, ZenonT(40) DEF Job
  <2>8. job[p].index = 1
    BY <1>1, JobOf DEF Fits, Saving
  <2> HIDE DEF j
  <2>9. 1 \in 1..Len(Artifacts) /\ \A i \in 1..Len(Artifacts) : ~(i < 1)
    BY OutputList, ArtifactList
  <2>10. Restoring(j, out) /\ Saving(j, in, out, blobs)
    BY <2>4, <2>7, <2>8, <2>9 DEF Restoring, Saving
  <2>11. QED
    BY <1>1, <1>3, <2>5, <2>7, <2>10, JobOf, JobStep, Zenon DEF Disk
<1>4. QED
  BY <1>2, <1>3 DEF Snapshot

LEMMA StoreKeeps == ASSUME CacheInv, NEW p \in Proc, Store(p) PROVE CacheInv'
<1> DEFINE out == output[workspace[p]]
           in == input[workspace[p]]
           i == job[p].index
           c == <<job[p].key, Artifacts[i]>>
<1>1. job[p].at = "store" /\ UNCHANGED <<workspace, input, output, actions, cacheFaults>>
  BY DEF Store
<1>2. CASE Release(p) /\ UNCHANGED blobs
  BY <1>1, <1>2, ReleaseKeeps, JobOf DEF Disk
<1>3. CASE blobs' = [blobs EXCEPT ![Blob(p)] = "intact"] /\ job' = Advance(p, "persist") /\ UNCHANGED owner
  <2>1. /\ job[p].copy = Truth(job[p].key) /\ job[p].key \in Keys /\ i \in 1..Len(Artifacts)
        /\ \A k \in 1..Len(Artifacts) : k < i => blobs[<<job[p].key, Artifacts[k]>>] # "absent"
        /\ owner[job[p].key] = p /\ job[p].key <= in
    BY <1>1, JobOf DEF Fits, Saving, Holding
  <2>2. Artifacts[i] \in Parts /\ i \in Nat /\ Len(Artifacts) \in Nat
    BY <2>1, ArtifactList, OutputList
  <2>3. Blob(p) = c /\ c \in Contents
    BY <2>1, <2>2, KeyFacts, Zenon DEF Blob
  <2>4. /\ blobs' \in [Contents -> {"absent", "intact", "damaged"}] /\ blobs'[c] # "absent"
        /\ \A d \in Contents : blobs[d] # "absent" => blobs'[d] # "absent"
    BY <1>3, <2>3, JobOf
  <2>5. \A k \in 1..Len(Artifacts) : <<job[p].key, Artifacts[k]>> \in Contents
    BY <2>1, ArtifactList, KeyFacts, Zenon
  <2>6. \A k \in 1..Len(Artifacts) : k <= i => blobs'[<<job[p].key, Artifacts[k]>>] # "absent"
    <3>1. \A k \in 1..Len(Artifacts) : k <= i => k = i \/ k < i
      BY <2>2
    <3>2. QED
      BY <2>1, <2>4, <2>5, <3>1
  <2>7. "persist" \in Stages /\ i + 1 \in Nat
    BY <2>2 DEF Stages
  <2>8. ASSUME NEW j \in Job, job' = [job EXCEPT ![p] = j], j.at \in {"store", "persist"}, j.key = job[p].key,
               j.copy = job[p].copy, j.at = "store" => j.index = i + 1 /\ i # Len(Artifacts),
               j.at = "persist" => i = Len(Artifacts)
        PROVE  CacheInv'
    <3>1. j.at = "store" => /\ j.index \in 1..Len(Artifacts)
                            /\ \A k \in 1..Len(Artifacts) : k < j.index => k <= i
      BY <2>1, <2>2, <2>8
    <3>2. j.at = "persist" => \A item \in Parts : blobs'[<<j.key, item>>] # "absent"
      <4> SUFFICES ASSUME j.at = "persist", NEW item \in Parts PROVE blobs'[<<j.key, item>>] # "absent"
        OBVIOUS
      <4>1. PICK k \in 1..Len(Artifacts) : Artifacts[k] = item
        BY ArtifactList
      <4>2. k <= i
        BY <2>2, <2>8
      <4>3. QED
        BY <2>6, <2>8, <4>1, <4>2
    <3>3. Restoring(j, out)
      BY <2>8 DEF Restoring
    <3>4. Saving(j, in, out, blobs')
      BY <2>1, <2>6, <2>8, <3>1, <3>2, Zenon DEF Saving
    <3>5. Holding(p, j, owner', in)
      BY <1>3, <2>1, <2>8 DEF Holding
    <3>6. Fits(p, j, owner', in, output'[workspace[p]], blobs')
      BY <1>1, <3>3, <3>4, <3>5 DEF Fits
    <3>7. QED
      BY <1>1, <1>3, <2>4, <2>8, <3>6, JobOf, StepKeeps, Zenon
  <2>9. CASE i = Len(Artifacts)
    <3> DEFINE j == [job[p] EXCEPT !.index = 1, !.at = "persist"]
    <3>1. job' = [job EXCEPT ![p] = j]
      BY <1>3, <2>9, Zenon DEF Advance
    <3>2. j \in Job /\ j.at = "persist" /\ j.key = job[p].key /\ j.copy = job[p].copy
      BY <2>7, JobOf, ZenonT(40) DEF Job
    <3> HIDE DEF j
    <3>3. QED
      BY <2>8, <2>9, <3>1, <3>2, Zenon
  <2>10. CASE i # Len(Artifacts)
    <3> DEFINE m == i + 1
               j == [job[p] EXCEPT !.index = m]
    <3>1. job' = [job EXCEPT ![p] = j]
      BY <1>3, <2>10 DEF Advance
    <3>2. m \in Nat /\ m = i + 1
      BY <2>7
    <3> HIDE DEF m
    <3>3. j \in Job /\ j.at = "store" /\ j.key = job[p].key /\ j.copy = job[p].copy /\ j.index = m
      BY <1>1, <3>2, JobOf, Zenon DEF Job
    <3> HIDE DEF j
    <3>4. QED
      BY <2>8, <2>10, <3>1, <3>2, <3>3, Zenon
  <2>11. QED
    BY <2>9, <2>10
<1>4. QED
  BY <1>2, <1>3 DEF Store

LEMMA PersistKeeps == ASSUME CacheInv, NEW p \in Proc, Persist(p) PROVE CacheInv'
<1> DEFINE out == output[workspace[p]]
           key == job[p].key
           j == [job[p] EXCEPT !.at = "saved"]
<1>1. /\ job[p].at = "persist" /\ UNCHANGED <<workspace, input, output, blobs, owner, cacheFaults>>
      /\ actions' = [actions EXCEPT ![key] = job[p].copy]
  BY DEF Persist, Locked
<1>2. /\ job[p].copy = Truth(key) /\ key \in Keys /\ owner[key] = p /\ key <= input[workspace[p]]
      /\ \A item \in Parts : blobs[<<key, item>>] # "absent"
  BY <1>1, JobOf DEF Fits, Saving, Holding
<1>3. "saved" \in Stages
  BY DEF Stages
<1>4. job' = [job EXCEPT ![p] = j] /\ j \in Job /\ j.at = "saved" /\ j.key = key
  BY <1>3, JobOf, Zenon DEF Persist, Goto, Job
<1> HIDE DEF j
<1>5. Fits(p, j, owner, input[workspace[p]], out, blobs)
  BY <1>2, <1>4 DEF Fits, Holding, Restoring, Saving
<1>6. QED
  BY <1>1, <1>2, <1>4, <1>5, JobOf, StepKeeps, Zenon


-----------------------------------------------------------------------------
(* Steps of the environment, and the theorems. *)

\* What edits and damages leave as it is.
LEMMA OutsideKeeps ==
    ASSUME CacheInv, UNCHANGED <<workspace, output, owner, job>>,
           input' \in [Workspace -> Keys], \A w \in Workspace : input[w] <= input'[w],
           cacheFaults' \in 0..CacheFaults,
           blobs' \in [Contents -> {"absent", "intact", "damaged"}],
           \A c \in Contents : blobs[c] # "absent" => blobs'[c] # "absent",
           actions' \in [Keys -> Manifest],
           \A key \in Keys : actions'[key] \in {actions[key], Unreadable},
           SharedIsStill'
    PROVE  CacheInv'
<1>1. CacheTypes' /\ \A key \in Keys : Readable(key)' => actions'[key] = actions[key] /\ Readable(key)
  <2>1. DOMAIN Unreadable # Parts
    <3>1. "log" \in Parts
      BY ArtifactList
    <3>2. QED
      BY <3>1 DEF Unreadable
  <2>2. \A key \in Keys : Readable(key)' => actions'[key] = actions[key] /\ Readable(key)
    BY <2>1 DEF Readable
  <2>3. \A key \in Keys : Readable(key)' \/ actions'[key] \in {Unreadable, NoManifest}
    BY DEF CacheInv, CacheTypes, CacheTypeOK, Readable
  <2>4. QED
    BY <2>2, <2>3 DEF CacheInv, CacheTypes, CacheTypeOK
<1>2. CacheIsTrue'
  BY <1>1 DEF CacheInv, CacheIsTrue
<1>3. NamesStored'
  <2> SUFFICES ASSUME NEW key \in Keys, Readable(key)', NEW item \in Parts
               PROVE  blobs'[actions'[key][item]] # "absent"
    BY DEF NamesStored
  <2>1. actions[key] = Truth(key) /\ blobs[actions[key][item]] # "absent" /\ actions'[key] = actions[key]
    BY <1>1 DEF CacheInv, CacheIsTrue, NamesStored
  <2>2. actions[key][item] \in Contents
    <3>1. Truth(key)[item] = <<key, item>> /\ <<key, item>> \in Contents
      BY KeyFacts
    <3>2. QED
      BY <2>1, <3>1
  <2>3. QED
    BY <2>1, <2>2
<1>4. AllFit'
  <2> SUFFICES ASSUME NEW p \in Proc
               PROVE  Fits(p, job[p], owner, input'[workspace[p]], output[workspace[p]], blobs')
    BY DEF AllFit
  <2>1. input'[workspace[p]] \in Nat
    BY JobOf, KeyFacts, Zenon
  <2>2. QED
    BY <2>1, JobOf, FitsKeeps
<1>5. QED
  BY <1>1, <1>2, <1>3, <1>4 DEF CacheInv

LEMMA FaultCounts == ASSUME CacheInv, Fault PROVE cacheFaults' \in 0..CacheFaults
<1>1. cacheFaults \in 0..CacheFaults /\ cacheFaults < CacheFaults /\ cacheFaults' = cacheFaults + 1
  BY DEF CacheInv, CacheTypes, CacheTypeOK, Fault
<1>2. CacheFaults \in Nat
  BY CacheAssumption, Zenon
<1>3. QED
  BY <1>1, <1>2

LEMMA EditKeeps == ASSUME CacheInv, NEW w \in Workspace, Edit(w) PROVE CacheInv'
<1>1. /\ input \in [Workspace -> Keys] /\ workspace \in [Proc -> Workspace] /\ actions \in [Keys -> Manifest]
      /\ cacheFaults \in 0..CacheFaults /\ blobs \in [Contents -> {"absent", "intact", "damaged"}]
  BY DEF CacheInv, CacheTypes, CacheTypeOK
<1>2. input[w] \in Keys /\ input[w] < Versions /\ input' = [input EXCEPT ![w] = input[w] + 1]
  BY <1>1 DEF Edit
<1>3. input[w] + 1 \in Keys
  <2>1. Versions \in Nat
    BY CacheAssumption, Zenon
  <2>2. QED
    BY <1>2, <2>1 DEF Keys
<1>4. input' \in [Workspace -> Keys] /\ \A v \in Workspace : input[v] <= input'[v]
  <2>1. \A v \in Workspace : input[v] \in Nat
    BY <1>1, KeyFacts, Zenon
  <2>2. QED
    BY <1>1, <1>2, <1>3, <2>1
<1>5. SharedIsStill'
  <2> SUFFICES ASSUME NEW p \in Proc, NEW q \in Proc, p # q, workspace[p] = workspace[q]
               PROVE  input'[workspace[p]] = 1
    BY DEF SharedIsStill, Edit
  <2>1. workspace[p] # w /\ workspace[p] \in Workspace
    BY <1>1 DEF Edit
  <2>2. input[workspace[p]] = 1
    BY DEF CacheInv, SharedIsStill
  <2>3. QED
    BY <1>1, <1>2, <2>1, <2>2
<1>6. QED
  BY <1>1, <1>4, <1>5, OutsideKeeps DEF Edit

LEMMA DamageKeeps ==
    ASSUME CacheInv, (\E c \in Contents : DamageBlob(c)) \/ (\E key \in Keys : DamageManifest(key))
    PROVE  CacheInv'
<1>1. /\ input \in [Workspace -> Keys] /\ actions \in [Keys -> Manifest]
      /\ blobs \in [Contents -> {"absent", "intact", "damaged"}]
  BY DEF CacheInv, CacheTypes, CacheTypeOK
<1>2. UNCHANGED <<workspace, input, output, owner, job>> /\ cacheFaults' \in 0..CacheFaults
  BY FaultCounts DEF DamageBlob, DamageManifest
<1>3. SharedIsStill' /\ \A w \in Workspace : input[w] <= input'[w]
  <2>1. \A w \in Workspace : input[w] \in Nat
    BY <1>1, KeyFacts, Zenon
  <2>2. QED
    BY <1>2, <2>1 DEF CacheInv, SharedIsStill
<1>4. blobs' \in [Contents -> {"absent", "intact", "damaged"}]
      /\ \A c \in Contents : blobs[c] # "absent" => blobs'[c] # "absent"
  BY <1>1 DEF DamageBlob, DamageManifest
<1>5. actions' \in [Keys -> Manifest] /\ \A key \in Keys : actions'[key] \in {actions[key], Unreadable}
  BY <1>1 DEF DamageBlob, DamageManifest, Manifest
<1>6. QED
  BY <1>1, <1>2, <1>3, <1>4, <1>5, OutsideKeeps

LEMMA CacheStart == ASSUME CacheInit PROVE CacheInv
<1>1. /\ workspace \in [Proc -> Workspace] /\ input = [w \in Workspace |-> 1]
      /\ output \in [Workspace -> [Paths -> Files]] /\ blobs = [c \in Contents |-> "absent"]
      /\ actions = [key \in Keys |-> NoManifest] /\ owner = [key \in Keys |-> Nobody]
      /\ job = [p \in Proc |-> Idle] /\ cacheFaults = 0
  BY DEF CacheInit, Files
<1>2. CacheFaults \in Nat
  BY CacheAssumption, Zenon
<1>3. DOMAIN NoManifest # Parts
  <2>1. ToSet(Outputs) \cap {"", "log"} = {} /\ "log" \in Parts
    BY CacheAssumption, ArtifactList, Zenon
  <2>2. QED
    BY <2>1, ArtifactList, Zenon DEF NoManifest, Paths
<1>4. \A key \in Keys : ~Readable(key) /\ actions[key] = NoManifest
  BY <1>1, <1>3 DEF Readable
<1>5. job \in [Proc -> Job] /\ \A p \in Proc : job[p] = Idle
  BY <1>1, IdleIsJob
<1>6. CacheTypes
  <2>1. \A p \in Proc : job[p].at \in Stages /\ job[p].todo \subseteq Parts
    BY <1>5 DEF Job
  <2>2. input \in [Workspace -> Keys] /\ actions \in [Keys -> Manifest]
    BY <1>1, KeyFacts DEF Manifest
  <2>3. blobs \in [Contents -> {"absent", "intact", "damaged"}] /\ owner \in [Keys -> Proc \cup {Nobody}]
        /\ cacheFaults \in 0..CacheFaults
    BY <1>1, <1>2
  <2>4. QED
    BY <1>1, <1>4, <1>5, <2>1, <2>2, <2>3 DEF CacheTypes, CacheTypeOK, Files
<1>7. AllFit
  <2> SUFFICES ASSUME NEW p \in Proc
               PROVE  Fits(p, Idle, owner, input[workspace[p]], output[workspace[p]], blobs)
    BY <1>5 DEF AllFit
  <2>1. Idle.at = "idle"
    BY IdleIsJob
  <2>2. QED
    BY <2>1 DEF Fits, Holding, Restoring, Saving
<1>8. SharedIsStill
  BY <1>1 DEF SharedIsStill
<1>9. CacheIsTrue /\ NamesStored
  BY <1>4 DEF CacheIsTrue, NamesStored
<1>10. QED
  BY <1>6, <1>7, <1>8, <1>9 DEF CacheInv

LEMMA CacheStepKeeps == ASSUME CacheInv, CacheNext \/ UNCHANGED cacheVars PROVE CacheInv'
<1>1. ASSUME NEW p \in Proc, CacheStep(p) PROVE CacheInv'
  BY <1>1, PrepareKeeps, ReadKeeps, StageKeeps, LogsKeep, SetAsideKeeps, InstallKeeps, RenameFailsKeeps,
     RollbackKeeps, EndKeeps, MissKeeps, ProduceKeeps, CheckKeeps, SnapshotKeeps, StoreKeeps, PersistKeeps,
     CancelKeeps DEF CacheStep
<1>2. ASSUME UNCHANGED cacheVars PROVE CacheInv'
  <2>1. UNCHANGED <<workspace, input, output, blobs, actions, owner, job, cacheFaults>>
    BY <1>2 DEF cacheVars
  <2>2. CacheTypes' /\ SharedIsStill' /\ CacheIsTrue' /\ NamesStored'
    BY <2>1 DEF CacheInv, CacheTypes, CacheTypeOK, SharedIsStill, CacheIsTrue, NamesStored, Readable
  <2>3. AllFit'
    BY <2>1 DEF CacheInv, AllFit
  <2>4. QED
    BY <2>2, <2>3 DEF CacheInv
<1>3. QED
  BY <1>1, <1>2, EditKeeps, DamageKeeps DEF CacheNext

\* What the invariant says to a reader of the cache and to a task.
LEMMA CacheSafe == ASSUME CacheInv PROVE CacheTypeOK /\ ManifestsHold /\ RestoreIsAtomic
<1>1. CacheTypeOK /\ ManifestsHold
  BY DEF CacheInv, CacheTypes, ManifestsHold
<1>2. RestoreIsAtomic
  BY DEF RestoreIsAtomic, RestoredIsWhole, RolledBack, CacheInv, AllFit, Fits, Restoring, File
<1>3. QED
  BY <1>1, <1>2

\* Whatever is edited, damaged, refused or killed between any two steps, a
\* manifest that can be read names what the task makes from the inputs of its
\* key, in blobs that are there, and a restore is all of it or leaves the outputs
\* as they were (executor/src/cache.rs: lookup, restore, publish_outputs, save).
THEOREM CacheKeepsItsWord == CacheSpec => [](CacheTypeOK /\ ManifestsHold /\ RestoreIsAtomic)
<1>1. CacheInit => CacheInv
  BY CacheStart
<1>2. CacheInv /\ [CacheNext]_cacheVars => CacheInv'
  BY CacheStepKeeps
<1>3. CacheInv => CacheTypeOK /\ ManifestsHold /\ RestoreIsAtomic
  BY CacheSafe
<1>4. QED
  BY <1>1, <1>2, <1>3, PTL DEF CacheSpec

\* So it is in the composition of MCEngine.
THEOREM CacheStaysTrue == PartsSpec => []CacheHolds
<1> DEFINE Holds == part = "cache" => CacheInv
<1>1. PartsInit => Holds
  BY CacheStart DEF PartsInit
<1>2. Holds /\ [PartsNext]_partsVars => Holds'
  <2> SUFFICES ASSUME Holds, [PartsNext]_partsVars, part' = "cache" PROVE CacheInv'
    OBVIOUS
  <2>1. part = "cache" /\ (CacheNext \/ UNCHANGED cacheVars)
    BY DEF PartsNext, partsVars
  <2>2. QED
    BY <2>1, CacheStepKeeps
<1>3. Holds => CacheHolds
  BY CacheSafe DEF CacheHolds
<1>4. QED
  BY <1>1, <1>2, <1>3, PTL DEF PartsSpec

-----------------------------------------------------------------------------
(* FileTasks: paths. *)

\* What paths consist of.
PathPart == STRING

LEMMA PathIs ==
    /\ Path \subseteq Seq(PathPart) /\ <<>> \notin Path
    /\ \A p \in Path : p \in Seq(PathPart) /\ Len(p) \in {1, 2} /\ p # <<>>
    /\ \A p \in Path : Len(p) = 2 => Parent(p) \in Path /\ p \in Below(Parent(p))
<1>1. Path \subseteq Seq(PathPart)
  BY FileAssumption DEF Path, ToSet, PathPart
<1>2. \A p \in Path : Len(p) \in {1, 2} /\ (Len(p) = 2 => Front(p) \in Path)
  BY FileAssumption
<1>3. \A p \in Path : p \in Seq(PathPart) /\ p # <<>>
  <2> SUFFICES ASSUME NEW p \in Path PROVE p \in Seq(PathPart) /\ p # <<>>
    OBVIOUS
  <2>1. p \in Seq(PathPart)
    BY <1>1
  <2>4. Len(p) = 1 \/ Len(p) = 2
    BY <1>2
  <2>2. Len(<<>>) = 0
    OBVIOUS
  <2>3. QED
    BY <2>1, <2>2, <2>4
<1>4. \A p \in Path : Len(p) = 2 => Parent(p) \in Path /\ p \in Below(Parent(p))
  BY <1>2 DEF Parent, Below
<1>5. QED
  BY <1>1, <1>2, <1>3, <1>4

\* Sequences with one part and with two.
LEMMA ShortIs ==
    ASSUME NEW q \in Seq(PathPart)
    PROVE  /\ Len(q) = 1 => q[1] \in PathPart /\ q = <<q[1]>>
           /\ Len(q) = 2 => /\ q[1] \in PathPart /\ q[2] \in PathPart /\ q = <<q[1], q[2]>>
                            /\ Last(q) = q[2] /\ SubSeq(q, 1, 1) = <<q[1]>> /\ SubSeq(q, 2, 2) = <<q[2]>>
<1>1. ASSUME Len(q) = 1 PROVE q[1] \in PathPart /\ q = <<q[1]>>
  <2>1. q[1] \in PathPart
    BY <1>1, ElementOfSeq
  <2>2. PICK x \in PathPart : x = q[1]
    BY <2>1
  <2>3. <<x>> \in Seq(PathPart) /\ Len(<<x>>) = 1 /\ <<x>>[1] = x
    OBVIOUS
  <2>4. \A k \in 1..Len(q) : q[k] = <<x>>[k]
    BY <1>1, <2>2, <2>3
  <2>5. q = <<x>>
    BY <1>1, <2>3, <2>4, SeqEqual
  <2>6. QED
    BY <2>1, <2>2, <2>5
<1>2. ASSUME Len(q) = 2
      PROVE  /\ q[1] \in PathPart /\ q[2] \in PathPart /\ q = <<q[1], q[2]>>
             /\ Last(q) = q[2] /\ SubSeq(q, 1, 1) = <<q[1]>> /\ SubSeq(q, 2, 2) = <<q[2]>>
  <2>1. q[1] \in PathPart /\ q[2] \in PathPart
    <3>1. 1 \in 1..Len(q) /\ 2 \in 1..Len(q)
      BY <1>2
    <3>2. \A n \in 1..Len(q) : q[n] \in PathPart
      BY ElementOfSeq
    <3>3. QED
      BY <3>1, <3>2
  <2>2. PICK x \in PathPart : x = q[1]
    BY <2>1
  <2>3. PICK y \in PathPart : y = q[2]
    BY <2>1
  <2>4. /\ <<x, y>> \in Seq(PathPart) /\ Len(<<x, y>>) = 2 /\ <<x, y>>[1] = x /\ <<x, y>>[2] = y
        /\ <<x>> \in Seq(PathPart) /\ Len(<<x>>) = 1 /\ <<x>>[1] = x
        /\ <<y>> \in Seq(PathPart) /\ Len(<<y>>) = 1 /\ <<y>>[1] = y
    OBVIOUS
  <2>5. \A k \in 1..Len(q) : q[k] = <<x, y>>[k]
    BY <1>2, <2>2, <2>3, <2>4
  <2>6. q = <<x, y>>
    BY <1>2, <2>4, <2>5, SeqEqual
  <2>7. Last(q) = q[2]
    BY <1>2 DEF Last
  <2>8. SubSeq(q, 1, 1) \in Seq(PathPart) /\ Len(SubSeq(q, 1, 1)) = 1 /\ SubSeq(q, 1, 1)[1] = x
    <3>1. \A k \in 1..1 : q[k] \in PathPart
      BY <2>1
    <3>2. /\ SubSeq(q, 1, 1) \in Seq(PathPart)
          /\ Len(SubSeq(q, 1, 1)) = IF 1 <= 1 THEN 1 - 1 + 1 ELSE 0
          /\ \A k \in 1 .. 1 - 1 + 1 : SubSeq(q, 1, 1)[k] = q[1 + k - 1]
      BY <3>1, SubSeqProperties
    <3>3. QED
      BY <2>2, <3>2
  <2>9. SubSeq(q, 2, 2) \in Seq(PathPart) /\ Len(SubSeq(q, 2, 2)) = 1 /\ SubSeq(q, 2, 2)[1] = y
    <3>1. \A k \in 2..2 : q[k] \in PathPart
      BY <2>1
    <3>2. /\ SubSeq(q, 2, 2) \in Seq(PathPart)
          /\ Len(SubSeq(q, 2, 2)) = IF 2 <= 2 THEN 2 - 2 + 1 ELSE 0
          /\ \A k \in 1 .. 2 - 2 + 1 : SubSeq(q, 2, 2)[k] = q[2 + k - 1]
      BY <3>1, SubSeqProperties
    <3>3. QED
      BY <2>3, <3>2
  <2>10. SubSeq(q, 1, 1) = <<x>>
    <3>1. \A k \in 1..Len(SubSeq(q, 1, 1)) : SubSeq(q, 1, 1)[k] = <<x>>[k]
      BY <2>4, <2>8
    <3>2. QED
      BY <2>4, <2>8, <3>1, SeqEqual, Zenon
  <2>11. SubSeq(q, 2, 2) = <<y>>
    <3>1. \A k \in 1..Len(SubSeq(q, 2, 2)) : SubSeq(q, 2, 2)[k] = <<y>>[k]
      BY <2>4, <2>9
    <3>2. QED
      BY <2>4, <2>9, <3>1, SeqEqual, Zenon
  <2>12. QED
    BY <2>1, <2>2, <2>3, <2>6, <2>7, <2>10, <2>11
<1>3. QED
  BY <1>1, <1>2

LEMMA FrontIs ==
    ASSUME NEW q \in Seq(PathPart), Len(q) = 2
    PROVE  Front(q) = <<q[1]>> /\ Len(Front(q)) = 1 /\ Front(q)[1] = q[1]
<1>1. Front(q) = SubSeq(q, 1, 1)
  BY DEF Front
<1>2. SubSeq(q, 1, 1) = <<q[1]>>
  BY ShortIs
<1>3. Len(<<q[1]>>) = 1 /\ <<q[1]>>[1] = q[1]
  OBVIOUS
<1>4. QED
  BY <1>1, <1>2, <1>3

\* A part behind another.
LEMMA AppendIs ==
    ASSUME NEW S, NEW u \in Seq(S), Len(u) = 1, NEW x \in S
    PROVE  /\ Append(u, x) \in Seq(S) /\ Len(Append(u, x)) = 2 /\ Append(u, x)[1] = u[1]
           /\ Append(u, x)[2] = x /\ Last(Append(u, x)) = x /\ Append(u, x) = u \o <<x>>
<1>1. /\ Append(u, x) \in Seq(S) /\ Len(Append(u, x)) = 1 + 1
      /\ Append(u, x)[1] = u[1] /\ Append(u, x)[2] = x
  <2>1. /\ Append(u, x) \in Seq(S) /\ Len(Append(u, x)) = Len(u) + 1
    OBVIOUS
  <2>2. \A k \in 1..Len(u) : Append(u, x)[k] = u[k]
    OBVIOUS
  <2>3. Append(u, x)[Len(u) + 1] = x
    <3>1. \A T : \A s \in Seq(T) : \A e \in T : Append(s, e)[Len(s) + 1] = e
      BY AppendProperties
    <3>2. QED
      BY <3>1, Zenon
  <2>4. QED
    BY <2>1, <2>2, <2>3
<1>2. Append(u, x) = u \o <<x>>
  BY AppendIsConcat
<1>3. Last(Append(u, x)) = Append(u, x)[2]
  BY <1>1 DEF Last
<1>4. QED
  BY <1>1, <1>2, <1>3

\* What is below a path is in it: it has its one part and another one.
LEMMA BelowIs ==
    ASSUME NEW p \in Path, NEW q \in Path
    PROVE  /\ q \in Below(p) <=> Len(q) = 2 /\ Len(p) = 1 /\ q[1] = p[1]
           /\ q \in Below(p) => q # p /\ Parent(q) = p /\ q = Append(p, Last(q))
<1>1. p \in Seq(PathPart) /\ q \in Seq(PathPart) /\ Len(p) \in {1, 2} /\ Len(q) \in {1, 2}
  BY PathIs
<1>2. Len(q) = 2 => Front(q) = <<q[1]>>
  BY <1>1, FrontIs
<1>3. Len(p) = 1 => p[1] \in PathPart /\ p = <<p[1]>>
  BY <1>1, ShortIs
<1>4. Len(q) = 2 => q[1] \in PathPart /\ q[2] \in PathPart /\ q = <<q[1], q[2]>> /\ Last(q) = q[2]
  BY <1>1, ShortIs
<1>5. q \in Below(p) <=> Len(q) = 2 /\ Front(q) = p
  BY DEF Below
<1>6. q \in Below(p) <=> Len(q) = 2 /\ Len(p) = 1 /\ q[1] = p[1]
  BY <1>1, <1>2, <1>3, <1>5
<1>7. ASSUME q \in Below(p) PROVE q = Append(p, Last(q))
  <2>1. Len(p) = 1 /\ Len(q) = 2 /\ q[1] = p[1]
    BY <1>6, <1>7
  <2>2. PICK x \in PathPart : x = q[2]
    BY <1>4, <2>1
  <2>3. Append(p, x) \in Seq(PathPart) /\ Len(Append(p, x)) = 2 /\ Append(p, x)[1] = p[1] /\ Append(p, x)[2] = x
    BY <1>1, <2>1, AppendIs
  <2>4. \A k \in 1..Len(q) : q[k] = Append(p, x)[k]
    BY <2>1, <2>2, <2>3
  <2>5. q = Append(p, x)
    BY <1>1, <2>1, <2>3, <2>4, SeqEqual
  <2>6. QED
    BY <1>4, <2>1, <2>2, <2>5
<1>8. q \in Below(p) => q # p /\ Parent(q) = p
  BY <1>5, <1>6 DEF Parent
<1>9. QED
  BY <1>6, <1>7, <1>8

LEMMA PrefixIs == ASSUME NEW p \in Path, NEW q \in Path PROVE IsPrefix(p, q) <=> p = q \/ q \in Below(p)
<1>1. p \in Seq(PathPart) /\ q \in Seq(PathPart) /\ Len(p) \in {1, 2} /\ Len(q) \in {1, 2}
  BY PathIs
<1>2. IsPrefix(p, q) <=> Len(p) <= Len(q) /\ SubSeq(p, 1, Len(p)) = SubSeq(q, 1, Len(p))
  BY DEF IsPrefix
<1>3. SubSeq(p, 1, Len(p)) = p /\ SubSeq(q, 1, Len(q)) = q
  BY <1>1, SubSeqFull
<1>4. CASE Len(p) = Len(q)
  <2>1. SubSeq(q, 1, Len(p)) = q
    BY <1>3, <1>4
  <2>2. q \notin Below(p)
    BY <1>4, BelowIs
  <2>3. QED
    BY <1>1, <1>2, <1>3, <1>4, <2>1, <2>2
<1>5. CASE Len(p) = 2 /\ Len(q) = 1
  BY <1>2, <1>5, BelowIs
<1>6. CASE Len(p) = 1 /\ Len(q) = 2
  <2>1. SubSeq(q, 1, Len(p)) = <<q[1]>>
    BY <1>1, <1>6, ShortIs
  <2>2. p = <<p[1]>>
    BY <1>1, <1>6, ShortIs
  <2>3. q \in Below(p) <=> q[1] = p[1]
    BY <1>6, BelowIs
  <2>4. p # q
    BY <1>6
  <2>5. QED
    BY <1>2, <1>3, <1>6, <2>1, <2>2, <2>3, <2>4
<1>7. QED
  BY <1>1, <1>4, <1>5, <1>6

\* What an entry is called elsewhere.
LEMMA ChildIs ==
    ASSUME NEW p \in Path, NEW q \in Path, NEW u \in Path, q \in Below(p), Len(u) = 1,
           Append(u, Last(q)) \in Path
    PROVE  Append(u, Last(q)) \in Below(u) /\ Last(Append(u, Last(q))) = Last(q)
<1>1. u \in Seq(PathPart) /\ q \in Seq(PathPart) /\ Len(q) = 2
  BY PathIs, BelowIs
<1>2. Last(q) \in PathPart
  BY <1>1, ShortIs
<1>3. PICK x \in PathPart : x = Last(q)
  BY <1>2
<1>5. Len(u) = 1
  OBVIOUS
<1>4. Append(u, x) \in Seq(PathPart) /\ Len(Append(u, x)) = 2 /\ Append(u, x)[1] = u[1] /\ Append(u, x)[2] = x
      /\ Last(Append(u, x)) = x
  <2>1. /\ Append(u, x) \in Seq(PathPart) /\ Len(Append(u, x)) = 2 /\ Append(u, x)[1] = u[1]
        /\ Append(u, x)[2] = x /\ Last(Append(u, x)) = x /\ Append(u, x) = u \o <<x>>
    BY ONLY <1>1, <1>5, x \in PathPart, AppendIs, Zenon
  <2>2. QED
    BY <2>1
<1>6. QED
  BY <1>3, <1>4, BelowIs, Zenon

LEMMA MovedIs ==
    ASSUME NEW p \in Path, NEW u \in Path, NEW q \in Path
    PROVE  /\ Moved(p, u, p) = u
           /\ q \in Below(p) /\ Len(u) = 1 => Moved(p, u, q) = Append(u, Last(q))
           /\ q # p /\ q \notin Below(p) => Moved(p, u, q) = q
<1>1. p \in Seq(PathPart) /\ u \in Seq(PathPart) /\ q \in Seq(PathPart)
  BY PathIs
<1>2. Moved(p, u, p) = u
  <2>1. Moved(p, u, p) = u \o SubSeq(p, Len(p) + 1, Len(p))
    BY PrefixIs DEF Moved
  <2>2. Len(p) \in Int
    BY PathIs
  <2>3. SubSeq(p, Len(p) + 1, Len(p)) = <<>>
    BY <2>2, SubSeqEmpty
  <2>4. u \o <<>> = u
    BY <1>1, ConcatEmptySeq
  <2>5. QED
    BY <2>1, <2>3, <2>4, Zenon
<1>3. ASSUME q \in Below(p), Len(u) = 1 PROVE Moved(p, u, q) = Append(u, Last(q))
  <2>1. Len(p) = 1 /\ Len(q) = 2
    BY <1>3, BelowIs
  <2>2. Moved(p, u, q) = u \o SubSeq(q, 2, 2)
    BY <1>3, <2>1, PrefixIs DEF Moved
  <2>3. SubSeq(q, 2, 2) = <<q[2]>> /\ q[2] \in PathPart /\ Last(q) = q[2]
    BY <1>1, <2>1, ShortIs
  <2>4. u \o <<q[2]>> = Append(u, q[2])
    BY <1>1, <1>3, <2>3, AppendIs
  <2>5. QED
    BY <2>2, <2>3, <2>4
<1>4. q # p /\ q \notin Below(p) => Moved(p, u, q) = q
  BY PrefixIs DEF Moved
<1>5. QED
  BY <1>2, <1>3, <1>4

\* The operations: where they go and come from.
LEMMA OperationIs ==
    ASSUME NEW o \in Operation
    PROVE  /\ o.to \in Path /\ (o.op = "write" => o.text \in Nat)
           /\ o.op \in {"copy", "tree", "move"} =>
                 /\ o.from \in Path /\ o.from # o.to
                 /\ o.to \notin Below(o.from) /\ o.from \notin Below(o.to)
           /\ o.op \in {"tree", "move"} =>
                 /\ Len(o.from) = Len(o.to)
                 /\ \A q \in Below(o.from) :
                       /\ q \in Path /\ Append(o.to, Last(q)) \in Below(o.to)
                       /\ Append(o.to, Last(q)) \in Path
                       /\ Last(Append(o.to, Last(q))) = Last(q)
<1>1. o.to \in Path /\ (o.op = "write" => o.text \in Nat) /\ (o.op \in {"copy", "tree", "move"} => o.from \in Path)
  BY FileAssumption
<1>2. o.op \in {"copy", "tree", "move"} =>
         /\ o.from # o.to /\ o.to \notin Below(o.from) /\ o.from \notin Below(o.to)
  BY <1>1, FileAssumption, PrefixIs DEF ValidOperation
<1>3. ASSUME o.op \in {"tree", "move"}
      PROVE  /\ Len(o.from) = Len(o.to)
             /\ \A q \in Below(o.from) :
                       /\ q \in Path /\ Append(o.to, Last(q)) \in Below(o.to)
                       /\ Append(o.to, Last(q)) \in Path
                       /\ Last(Append(o.to, Last(q))) = Last(q)
  <2>1. Len(o.from) = Len(o.to) /\ (\A q \in Below(o.from) : Append(o.to, Last(q)) \in Path)
    BY <1>3, FileAssumption DEF Roomy
  <2>2. ASSUME NEW q \in Below(o.from)
        PROVE  /\ q \in Path /\ Append(o.to, Last(q)) \in Below(o.to)
               /\ Last(Append(o.to, Last(q))) = Last(q)
    <3>1. q \in Path /\ o.from \in Path
      BY <1>1, <1>3 DEF Below
    <3>2. Len(o.to) = 1
      BY <2>1, <2>2, <3>1, BelowIs
    <3>3. QED
      BY <1>1, <2>1, <2>2, <3>1, <3>2, ChildIs
  <2>3. QED
    BY <2>1, <2>2
<1>4. QED
  BY <1>1, <1>2, <1>3

-----------------------------------------------------------------------------
(* FileTasks: the invariant. *)

WholeFile == {Regular(v, v) : v \in Nat}
WholeNode == {Nothing, Directory, Link} \cup WholeFile

LEMMA NodeIs ==
    /\ Nothing \in WholeNode /\ Directory \in WholeNode /\ Link \in WholeNode
    /\ Nothing # Directory /\ Nothing # Link /\ Link # Directory
    /\ Nothing.kind # "file" /\ Directory.kind # "file" /\ Link.kind # "file"
    /\ \A v \in Nat : Regular(v, v) \in WholeFile
    /\ \A node \in WholeFile : node \in WholeNode /\ node.kind = "file"
    /\ \A node \in WholeNode :
          /\ node.kind = "file" => /\ node.data[1] \in Nat /\ node.data[2] = node.data[1]
                                   /\ node # Nothing /\ node # Directory /\ node # Link
          /\ node.kind # "file" => node \in {Nothing, Directory, Link}
<1>1. \A v \in Nat : /\ Regular(v, v).kind = "file" /\ Regular(v, v).data[1] = v
                     /\ Regular(v, v).data[2] = v
  BY DEF Regular
<1>2. Nothing.kind = "none" /\ Directory.kind = "dir" /\ Link.kind = "link"
  BY DEF Nothing, Directory, Link
<1>3. QED
  BY <1>1, <1>2 DEF WholeNode, WholeFile

\* What a directory holds is in it, and is no directory.
TreeFine(tr) ==
    /\ tr \in [Path -> WholeNode]
    /\ \A q \in Path : Len(q) = 2 => tr[q] # Directory /\ (tr[q] # Nothing => tr[Parent(q)] = Directory)

FileAt == {"start", "list", "entry", "chunk", "compare", "commit", "look", "rename", "remove",
           "done", "failed"}
FileJob ==
    [op : Operation, at : FileAt, todo : SUBSET Path, entry : Path \cup {<<>>},
     open : Path \cup {<<>>}, data : Seq(Nat), changed : BOOLEAN, staged : BOOLEAN,
     stage : SUBSET (Path \X WholeFile), listed : SUBSET Path, cancelled : BOOLEAN]

\* The entries that have not been copied.
Rest(j) == j.todo \cup (IF j.at \in {"chunk", "compare", "commit"} THEN {j.entry} ELSE {})

\* What a task of each kind may be doing.
DoesItsPart(j) ==
    /\ j.at \in {"list", "entry", "look"} => j.op.op = "tree"
    /\ j.at \in {"chunk", "compare"} => j.op.op \in {"copy", "tree"}
    /\ j.at = "commit" => j.op.op \in {"write", "copy", "tree"}
    /\ j.at = "rename" => j.op.op \in {"tree", "move"}
    /\ j.at = "remove" => j.op.op = "remove" /\ j.todo \subseteq Below(j.op.to)
    /\ j.at \in {"start", "list"} => j.stage = {} /\ j.listed = {} /\ j.todo = {}
    /\ j.staged => j.op.op = "tree"

\* What was read is one version of the file unless it changed.
ReadsOne(j) ==
    /\ j.at = "chunk" => Len(j.data) = 1
    /\ j.at \in {"compare", "commit"} => Len(j.data) = 2
    /\ j.at = "compare" => j.changed \/ j.data[1] = j.data[2]
    /\ j.at = "commit" => j.data[1] = j.data[2]

\* Entries are listed, dealt with one by one, and copied once.
CopiesAll(j) ==
    j.op.op = "tree" =>
       /\ j.todo \subseteq Below(j.op.from) /\ j.listed \subseteq Below(j.op.from)
       /\ j.at \in {"chunk", "compare", "commit"} => j.entry \in Below(j.op.from) \ j.todo
       /\ j.at \in {"look", "rename"} => j.staged /\ j.todo = {}
       /\ j.at \in {"entry", "chunk", "compare", "commit", "look", "rename"} => Len(j.op.from) = 1

CopiesStand(j) ==
    j.staged /\ j.at \notin {"done", "failed"} =>
       /\ \A e \in j.stage : \E q \in Below(j.op.from) \ Rest(j) : e[1] = Append(j.op.to, Last(q))
       /\ \A e, f \in j.stage : e[1] = f[1] => e = f
       /\ \A q \in j.listed : q \in Rest(j) \/ \E e \in j.stage : e[1] = Append(j.op.to, Last(q))

JobStands(j) == DoesItsPart(j) /\ ReadsOne(j) /\ CopiesAll(j) /\ CopiesStand(j)

\* The file that is being read has the content it was opened with unless it changed.
ReadsFrom(j, tr) ==
    j.at = "chunk" /\ j.open # <<>> =>
       tr[j.open].kind = "file" /\ (~j.changed => j.data[1] = tr[j.open].data[1])

FileInv ==
    /\ TreeFine(tree) /\ edits \in Nat
    /\ filetask \in [FileTask -> FileJob]
    /\ \A u \in FileTask : JobStands(filetask[u]) /\ ReadsFrom(filetask[u], tree)

LEMMA FileStart == ASSUME FileInit PROVE FileInv
<1>1. TreeFine(tree)
  <2>1. /\ tree = [path \in Path |-> tree[path]] /\ \A path \in Path : Whole(tree[path])
        /\ \A path \in Path : Len(path) = 2 =>
             tree[path] # Directory /\ (tree[path] # Nothing => tree[Parent(path)] = Directory)
    BY TreesAssumption DEF FileInit
  <2>2. \A path \in Path : tree[path] \in WholeNode
    BY <2>1 DEF Whole, WholeNode, WholeFile
  <2>3. tree \in [Path -> WholeNode]
    BY <2>1, <2>2
  <2>4. QED
    BY <2>1, <2>3 DEF TreeFine
<1>2. edits \in Nat
  BY DEF FileInit
<1>3. ASSUME NEW o \in Operation PROVE NewTask(o) \in FileJob /\ JobStands(NewTask(o)) /\ ReadsFrom(NewTask(o), tree)
  <2>1. <<>> \in Seq(Nat)
    OBVIOUS
  <2>2. NewTask(o) \in FileJob
    BY <2>1 DEF NewTask, FileJob, FileAt
  <2>3. NewTask(o).at = "start" /\ NewTask(o).staged = FALSE /\ ~NewTask(o).staged
        /\ NewTask(o).todo = {} /\ NewTask(o).listed = {} /\ NewTask(o).stage = {}
    BY DEF NewTask
  <2>4. QED
    BY <2>2, <2>3 DEF JobStands, DoesItsPart, ReadsOne, CopiesAll, CopiesStand, ReadsFrom
<1>4. filetask \in [FileTask -> FileJob] /\ \A u \in FileTask : JobStands(filetask[u]) /\ ReadsFrom(filetask[u], tree)
  <2>1. filetask \in [FileTask -> {NewTask(o) : o \in Operation}]
    BY DEF FileInit
  <2>2. \A u \in FileTask : \E o \in Operation : filetask[u] = NewTask(o)
    BY <2>1
  <2>3. \A u \in FileTask : filetask[u] \in FileJob /\ JobStands(filetask[u]) /\ ReadsFrom(filetask[u], tree)
    BY <1>3, <2>2
  <2>4. QED
    BY <2>1, <2>3
<1>5. QED
  BY <1>1, <1>2, <1>4 DEF FileInv

\* A task does one thing and the directory stays.
LEMMA LookKeeps ==
    ASSUME FileInv, NEW t \in FileTask, NEW j \in FileJob, Look(t, j), JobStands(j), ReadsFrom(j, tree)
    PROVE  FileInv'
<1>1. UNCHANGED <<tree, edits>> /\ filetask' = [filetask EXCEPT ![t] = j]
  BY DEF Look
<1>2. filetask \in [FileTask -> FileJob]
  BY DEF FileInv
<1>3. filetask' \in [FileTask -> FileJob]
  BY <1>1, <1>2
<1>4. \A u \in FileTask : filetask'[u] = IF u = t THEN j ELSE filetask[u]
  BY <1>1, <1>2
<1>5. \A u \in FileTask : JobStands(filetask'[u]) /\ ReadsFrom(filetask'[u], tree)
  BY <1>4 DEF FileInv
<1>6. QED
  BY <1>1, <1>3, <1>5 DEF FileInv, TreeFine

\* What an invariant of a task is about.
LEMMA SameStands ==
    ASSUME NEW j \in FileJob, NEW k \in FileJob, JobStands(j),
           k.op = j.op, k.at = j.at, k.todo = j.todo, k.entry = j.entry, k.data = j.data,
           j.changed => k.changed, k.staged = j.staged, k.stage = j.stage, k.listed = j.listed
    PROVE  JobStands(k)
<1>1. Rest(k) = Rest(j)
  BY DEF Rest
<1>2. DoesItsPart(k) /\ ReadsOne(k) /\ CopiesAll(k)
  BY DEF JobStands, DoesItsPart, ReadsOne, CopiesAll
<1>3. CopiesStand(k)
  BY <1>1 DEF JobStands, CopiesStand
<1>4. QED
  BY <1>2, <1>3 DEF JobStands

LEMMA OpenElsewhere ==
    ASSUME NEW j \in FileJob, NEW place \in Path \cup {<<>>}, JobStands(j)
    PROVE  /\ [j EXCEPT !.open = place] \in FileJob /\ JobStands([j EXCEPT !.open = place])
           /\ [j EXCEPT !.open = place].open = place
           /\ [j EXCEPT !.open = place].at = j.at /\ [j EXCEPT !.open = place].op = j.op
           /\ [j EXCEPT !.open = place].data = j.data /\ [j EXCEPT !.open = place].changed = j.changed
<1> DEFINE k == [j EXCEPT !.open = place]
<1>1. k \in FileJob /\ k.open = place
  BY Zenon DEF FileJob
<1>2. /\ k.op = j.op /\ k.at = j.at /\ k.todo = j.todo /\ k.entry = j.entry /\ k.data = j.data
      /\ k.changed = j.changed /\ k.staged = j.staged /\ k.stage = j.stage /\ k.listed = j.listed
  BY DEF FileJob
<1> HIDE DEF k
<1>3. JobStands(k) /\ k \in FileJob /\ k.open = place /\ k.at = j.at /\ k.op = j.op /\ k.data = j.data
      /\ k.changed = j.changed
  BY <1>1, <1>2, SameStands
<1>4. QED
  BY <1>3 DEF k

LEMMA EndsWell ==
    ASSUME NEW j \in FileJob, NEW x \in {"done", "failed"}, JobStands(j)
    PROVE  /\ [j EXCEPT !.at = x] \in FileJob /\ JobStands([j EXCEPT !.at = x])
           /\ [j EXCEPT !.at = x].at = x
<1> DEFINE k == [j EXCEPT !.at = x]
<1>1. k \in FileJob /\ k.at = x
  BY DEF FileJob, FileAt
<1>2. /\ k.op = j.op /\ k.todo = j.todo /\ k.staged = j.staged /\ k.listed = j.listed
  BY DEF FileJob
<1> HIDE DEF k
<1>3. DoesItsPart(k) /\ ReadsOne(k) /\ CopiesAll(k) /\ CopiesStand(k)
  BY <1>1, <1>2 DEF JobStands, DoesItsPart, ReadsOne, CopiesAll, CopiesStand
<1>4. k \in FileJob /\ JobStands(k) /\ k.at = x
  BY <1>1, <1>3 DEF JobStands
<1>5. QED
  BY <1>4 DEF k

\* A task changes what is at some paths, and other files stay.
LEMMA ChangeKeeps ==
    ASSUME FileInv, NEW t \in FileTask, NEW paths, NEW new, NEW j \in FileJob,
           TreeFine(new), JobStands(j), j.at # "chunk", Change(t, paths, new, j),
           \A q \in Path : tree[q].kind = "file" /\ q \notin paths => new[q] = tree[q]
    PROVE  FileInv'
<1>1. /\ tree' = new /\ edits' = edits
      /\ filetask' = [u \in FileTask |->
                         IF u = t THEN j
                         ELSE IF filetask[u].open \in paths THEN [filetask[u] EXCEPT !.open = <<>>]
                         ELSE filetask[u]]
  BY DEF Change
<1>2. ASSUME NEW u \in FileTask
      PROVE  filetask'[u] \in FileJob /\ JobStands(filetask'[u]) /\ ReadsFrom(filetask'[u], new)
  <2>1. filetask[u] \in FileJob /\ JobStands(filetask[u]) /\ ReadsFrom(filetask[u], tree)
    BY DEF FileInv
  <2>2. CASE u = t
    BY <1>1, <2>2 DEF ReadsFrom
  <2>3. CASE u # t /\ filetask[u].open \in paths
    <3>1. filetask'[u] = [filetask[u] EXCEPT !.open = <<>>]
      BY <1>1, <2>3
    <3>2. [filetask[u] EXCEPT !.open = <<>>].open = <<>>
      BY <2>1 DEF FileJob
    <3>3. QED
      BY <2>1, <3>1, <3>2, OpenElsewhere DEF ReadsFrom
  <2>4. CASE u # t /\ filetask[u].open \notin paths
    <3>1. filetask'[u] = filetask[u]
      BY <1>1, <2>4
    <3>2. filetask[u].open = <<>> \/ filetask[u].open \in Path
      BY <2>1 DEF FileJob
    <3>3. ReadsFrom(filetask[u], new)
      BY <2>1, <2>4, <3>2 DEF ReadsFrom
    <3>4. QED
      BY <2>1, <3>1, <3>3
  <2>5. QED
    BY <2>2, <2>3, <2>4
<1>3. filetask' \in [FileTask -> FileJob]
  BY <1>1, <1>2
<1>4. edits' \in Nat
  BY <1>1 DEF FileInv
<1>5. QED
  BY <1>1, <1>2, <1>3, <1>4 DEF FileInv

-----------------------------------------------------------------------------
(* FileTasks: the steps that only look. *)

LEMMA TaskIs ==
    ASSUME FileInv, NEW t \in FileTask
    PROVE  /\ filetask[t] \in FileJob /\ JobStands(filetask[t]) /\ ReadsFrom(filetask[t], tree)
           /\ Op(t) = filetask[t].op /\ Op(t) \in Operation /\ filetask[t].staged \in BOOLEAN
           /\ filetask[t].todo \subseteq Path /\ TreeFine(tree)
<1>1. filetask[t] \in FileJob /\ JobStands(filetask[t]) /\ ReadsFrom(filetask[t], tree) /\ TreeFine(tree)
  BY DEF FileInv
<1>2. QED
  BY <1>1 DEF FileJob, Op

LEMMA FailKeeps == ASSUME FileInv, NEW t \in FileTask, FailFile(t) PROVE FileInv'
<1>1. PICK j : j = [filetask[t] EXCEPT !.at = "failed"]
  BY Zenon
<1>2. j \in FileJob /\ JobStands(j) /\ j.at = "failed"
  BY <1>1, TaskIs, EndsWell, Zenon
<1>3. Look(t, j) /\ ReadsFrom(j, tree)
  BY <1>1, <1>2 DEF FailFile, ReadsFrom
<1>4. QED
  BY <1>2, <1>3, LookKeeps

\* A task that is done without another change.
LEMMA DoneKeeps ==
    ASSUME FileInv, NEW t \in FileTask, Look(t, [filetask[t] EXCEPT !.at = "done"]) PROVE FileInv'
<1>1. PICK j : j = [filetask[t] EXCEPT !.at = "done"]
  OBVIOUS
<1>2. j \in FileJob /\ JobStands(j) /\ j.at = "done"
  BY <1>1, TaskIs, EndsWell, Zenon
<1>3. Look(t, j) /\ ReadsFrom(j, tree)
  BY <1>1, <1>2 DEF ReadsFrom
<1>4. QED
  BY <1>2, <1>3, LookKeeps

LEMMA BeginWriteKeeps == ASSUME FileInv, NEW t \in FileTask, BeginWrite(t) PROVE FileInv'
<1>1. SUFFICES ASSUME Look(t, [filetask[t] EXCEPT !.at = "commit", !.data = <<Op(t).text, Op(t).text>>])
      PROVE  FileInv'
  BY FailKeeps DEF BeginWrite
<1> DEFINE i == filetask[t]
           text == Op(t).text
           j == [i EXCEPT !.at = "commit", !.data = <<text, text>>]
<1>2. i \in FileJob /\ JobStands(i) /\ i.at = "start" /\ i.op.op = "write" /\ text \in Nat
  BY TaskIs, OperationIs DEF BeginWrite, Begins
<1>3. <<text, text>> \in Seq(Nat) /\ Len(<<text, text>>) = 2 /\ <<text, text>>[1] = <<text, text>>[2]
  BY <1>2
<1> HIDE DEF i, text
<1>4. /\ j \in FileJob /\ j.at = "commit" /\ j.data = <<text, text>>
      /\ j.op = i.op /\ j.todo = i.todo /\ j.stage = i.stage /\ j.listed = i.listed /\ j.staged = i.staged
  BY <1>2, <1>3, Zenon DEF FileJob, FileAt
<1> HIDE DEF j
<1>5. ~j.staged
  BY <1>2, <1>4 DEF JobStands, DoesItsPart
<1>6. DoesItsPart(j) /\ CopiesAll(j) /\ CopiesStand(j)
  BY <1>2, <1>4, <1>5 DEF DoesItsPart, CopiesAll, CopiesStand
<1>7. ReadsOne(j) /\ ReadsFrom(j, tree)
  BY <1>3, <1>4 DEF ReadsOne, ReadsFrom
<1>8. Look(t, j)
  BY <1>1 DEF i, text, j
<1>9. QED
  BY <1>4, <1>6, <1>7, <1>8, LookKeeps DEF JobStands

\* A file that is opened.
LEMMA OpenedIs ==
    ASSUME FileInv, NEW t \in FileTask, NEW path \in Path, IsFile(path)
    PROVE  /\ Opened(t, path) \in FileJob /\ Opened(t, path).at = "chunk" /\ Opened(t, path).open = path
           /\ Opened(t, path).entry = path /\ ReadsOne(Opened(t, path))
           /\ Opened(t, path).op = filetask[t].op /\ Opened(t, path).todo = filetask[t].todo
           /\ Opened(t, path).staged = filetask[t].staged /\ Opened(t, path).stage = filetask[t].stage
           /\ Opened(t, path).listed = filetask[t].listed
           /\ Opened(t, path).data = <<tree[path].data[1]>> /\ ReadsFrom(Opened(t, path), tree)
<1> DEFINE i == filetask[t]
           text == tree[path].data[1]
           j == [i EXCEPT !.at = "chunk", !.open = path, !.entry = path, !.changed = FALSE, !.data = <<text>>]
<1>1. i \in FileJob
  BY TaskIs
<1>2. tree[path].kind = "file" /\ text \in Nat
  BY TaskIs, NodeIs DEF IsFile, TreeFine
<1>3. j = Opened(t, path)
  BY DEF Opened
<1> HIDE DEF i, text
<1>4. <<text>> \in Seq(Nat) /\ Len(<<text>>) = 1 /\ <<text>>[1] = text
  BY <1>2
<1>5. /\ j \in FileJob /\ j.at = "chunk" /\ j.data = <<text>> /\ j.open = path /\ j.entry = path
      /\ j.op = i.op /\ j.todo = i.todo /\ j.stage = i.stage /\ j.listed = i.listed /\ j.staged = i.staged
  BY <1>1, <1>4, Zenon DEF FileJob, FileAt
<1> HIDE DEF j
<1>6. ReadsOne(j)
  BY <1>4, <1>5 DEF ReadsOne
<1>7. ReadsFrom(j, tree)
  <2>1. j.data[1] = tree[path].data[1]
    BY <1>4, <1>5 DEF text
  <2>2. QED
    BY <1>2, <1>5, <2>1 DEF ReadsFrom
<1>8. /\ j \in FileJob /\ j.at = "chunk" /\ j.data = <<tree[path].data[1]>> /\ j.open = path /\ j.entry = path
      /\ j.op = filetask[t].op /\ j.todo = filetask[t].todo /\ j.stage = filetask[t].stage
      /\ j.listed = filetask[t].listed /\ j.staged = filetask[t].staged
  BY <1>5 DEF i, text
<1>9. QED
  BY <1>3, <1>6, <1>7, <1>8

LEMMA BeginCopyKeeps == ASSUME FileInv, NEW t \in FileTask, BeginCopy(t) PROVE FileInv'
<1>1. SUFFICES ASSUME Look(t, Opened(t, Op(t).from)), IsFile(Op(t).from) PROVE FileInv'
  BY FailKeeps DEF BeginCopy
<1>2. /\ filetask[t].at = "start" /\ Op(t).op = "copy" /\ Op(t) = filetask[t].op /\ Op(t).from \in Path
      /\ JobStands(filetask[t])
  BY TaskIs, OperationIs DEF BeginCopy, Begins
<1>3. PICK j : j = Opened(t, Op(t).from)
  OBVIOUS
<1>4. /\ j \in FileJob /\ j.at = "chunk" /\ ReadsOne(j) /\ ReadsFrom(j, tree) /\ Look(t, j)
      /\ j.op = Op(t) /\ j.staged = filetask[t].staged
  BY <1>1, <1>2, <1>3, OpenedIs
<1>5. ~j.staged
  BY <1>2, <1>4 DEF JobStands, DoesItsPart
<1>6. DoesItsPart(j) /\ CopiesAll(j) /\ CopiesStand(j)
  BY <1>2, <1>4, <1>5 DEF DoesItsPart, CopiesAll, CopiesStand
<1>7. QED
  BY <1>4, <1>6, LookKeeps DEF JobStands

LEMMA BeginTreeKeeps == ASSUME FileInv, NEW t \in FileTask, BeginTree(t) PROVE FileInv'
<1>1. SUFFICES ASSUME Look(t, [filetask[t] EXCEPT !.at = "list", !.staged = ~Exists(Op(t).to)]) PROVE FileInv'
  BY FailKeeps DEF BeginTree
<1>2. PICK i : i = filetask[t]
  OBVIOUS
<1>3. PICK fresh \in BOOLEAN : fresh = ~Exists(Op(t).to)
  BY Zenon
<1>4. PICK j : j = [i EXCEPT !.at = "list", !.staged = fresh]
  OBVIOUS
<1>5. i \in FileJob /\ JobStands(i) /\ i.at = "start" /\ i.op.op = "tree"
  BY <1>2, TaskIs DEF BeginTree, Begins
<1>6. /\ j \in FileJob /\ j.at = "list" /\ j.staged = fresh
      /\ j.op = i.op /\ j.todo = i.todo /\ j.stage = i.stage /\ j.listed = i.listed
  BY <1>4, <1>5, Zenon DEF FileJob, FileAt
<1>7. j.stage = {} /\ j.listed = {} /\ j.todo = {}
  BY <1>5, <1>6 DEF JobStands, DoesItsPart
<1>8. DoesItsPart(j) /\ CopiesAll(j) /\ CopiesStand(j) /\ ReadsOne(j) /\ ReadsFrom(j, tree)
  BY <1>5, <1>6, <1>7 DEF DoesItsPart, CopiesAll, CopiesStand, ReadsOne, ReadsFrom
<1>9. Look(t, j)
  BY <1>1, <1>2, <1>3, <1>4
<1>10. QED
  BY <1>6, <1>8, <1>9, LookKeeps DEF JobStands

LEMMA ListKeeps == ASSUME FileInv, NEW t \in FileTask, ListEntries(t) PROVE FileInv'
<1>1. PICK found : found = Children(Op(t).from)
  OBVIOUS
<1>2. SUFFICES ASSUME Look(t, [filetask[t] EXCEPT !.at = "entry", !.todo = found, !.listed = found]),
                      IsDir(Op(t).from)
               PROVE  FileInv'
  BY <1>1, FailKeeps DEF ListEntries
<1>3. PICK i : i = filetask[t]
  OBVIOUS
<1>4. PICK j : j = [i EXCEPT !.at = "entry", !.todo = found, !.listed = found]
  OBVIOUS
<1>5. i \in FileJob /\ JobStands(i) /\ i.at = "list" /\ i.op = Op(t)
  BY <1>3, TaskIs DEF ListEntries
<1>6. i.op.op = "tree" /\ i.stage = {}
  BY <1>5 DEF JobStands, DoesItsPart
<1>13. Len(i.op.from) = 1
  <2>1. i.op.from \in Path /\ i.op.from # <<>>
    BY <1>5, <1>6, TaskIs, OperationIs, PathIs
  <2>2. Len(i.op.from) \in {1, 2}
    BY <2>1, PathIs
  <2>3. tree[i.op.from] = Directory
    BY <1>2, <1>5, <2>1 DEF IsDir
  <2>4. QED
    BY <2>1, <2>2, <2>3, TaskIs DEF TreeFine
<1>7. found \subseteq Path /\ found \subseteq Below(i.op.from)
  BY <1>1, <1>5 DEF Children, Below
<1>8. /\ j \in FileJob /\ j.at = "entry" /\ j.todo = found /\ j.listed = found
      /\ j.op = i.op /\ j.stage = i.stage
  BY <1>4, <1>5, <1>7, Zenon DEF FileJob, FileAt
<1>9. DoesItsPart(j) /\ CopiesAll(j) /\ ReadsOne(j) /\ ReadsFrom(j, tree)
  BY <1>6, <1>7, <1>8, <1>13 DEF DoesItsPart, CopiesAll, ReadsOne, ReadsFrom
<1>10. CopiesStand(j)
  BY <1>6, <1>8 DEF CopiesStand, Rest
<1>11. Look(t, j)
  BY <1>2, <1>3, <1>4
<1>12. QED
  BY <1>8, <1>9, <1>10, <1>11, LookKeeps DEF JobStands

\* The entry that comes first.
LEMMA FirstIs == ASSUME NEW S, S \subseteq Path, S # {} PROVE First(S) \in S
<1>1. \A path \in Path : Position(path) \in Nat
  <2> SUFFICES ASSUME NEW path \in Path PROVE Position(path) \in Nat
    OBVIOUS
  <2>1. PathOrder \in Seq(Seq(STRING))
    BY FileAssumption
  <2>2. DOMAIN PathOrder = 1..Len(PathOrder)
    BY <2>1
  <2>3. \E i \in DOMAIN PathOrder : PathOrder[i] = path
    BY <2>2 DEF Path, ToSet
  <2>4. Position(path) \in DOMAIN PathOrder
    BY <2>3 DEF Position
  <2>5. QED
    BY <2>2, <2>4
<1>2. PICK T : T = {Position(path) : path \in S}
  BY Zenon
<1>3. T \subseteq Nat /\ T # {}
  BY <1>1, <1>2
<1>4. PICK x \in T : \A y \in T : x <= y
  BY <1>3, Least, Zenon
<1>5. PICK path \in S : x = Position(path)
  BY <1>2, <1>4
<1>6. \A q \in S : Position(path) <= Position(q)
  BY <1>2, <1>4, <1>5
<1>7. QED
  BY <1>5, <1>6 DEF First

LEMMA NextEntryKeeps == ASSUME FileInv, NEW t \in FileTask, NextEntry(t) PROVE FileInv'
<1>1. PICK i : i = filetask[t]
  OBVIOUS
<1>2. i \in FileJob /\ JobStands(i) /\ i.at = "entry" /\ i.op = Op(t) /\ i.todo \subseteq Path /\ i.staged \in BOOLEAN
  BY <1>1, TaskIs DEF NextEntry
<1>3. i.op.op = "tree" /\ Rest(i) = i.todo
  BY <1>2 DEF JobStands, DoesItsPart, Rest
<1>4. CASE i.todo = {} /\ i.staged
  <2>1. PICK j : j = [i EXCEPT !.at = "look"]
    BY Zenon
  <2>2. Look(t, j)
    BY <1>1, <1>2, <1>4, <2>1 DEF NextEntry
  <2>3. /\ j \in FileJob /\ j.at = "look" /\ j.todo = {} /\ j.listed = i.listed /\ j.staged
        /\ j.op = i.op /\ j.stage = i.stage
    BY <1>2, <1>4, <2>1, Zenon DEF FileJob, FileAt
  <2>4. DoesItsPart(j) /\ ReadsOne(j) /\ ReadsFrom(j, tree) /\ CopiesAll(j)
    BY <1>2, <1>3, <2>3 DEF JobStands, DoesItsPart, ReadsOne, ReadsFrom, CopiesAll
  <2>5. Rest(j) = Rest(i)
    BY <1>3, <1>4, <2>3 DEF Rest
  <2>6. CopiesStand(j)
    BY <1>2, <1>4, <2>3, <2>5 DEF JobStands, CopiesStand
  <2>7. QED
    BY <2>2, <2>3, <2>4, <2>6, LookKeeps DEF JobStands
<1>5. CASE i.todo = {} /\ ~i.staged
  <2>1. Look(t, [filetask[t] EXCEPT !.at = "done"])
    BY <1>1, <1>5 DEF NextEntry
  <2>2. QED
    BY <2>1, DoneKeeps
<1>6. CASE i.todo # {}
  <2>1. PICK path : path = First(i.todo)
    OBVIOUS
  <2>2. SUFFICES ASSUME Look(t, [Opened(t, path) EXCEPT !.todo = i.todo \ {path}]), IsFile(path) PROVE FileInv'
    BY <1>1, <1>6, <2>1, FailKeeps DEF NextEntry
  <2>3. path \in i.todo /\ path \in Path
    BY <1>2, <1>6, <2>1, FirstIs
  <2>4. PICK k : k = Opened(t, path)
    OBVIOUS
  <2>5. /\ k \in FileJob /\ k.at = "chunk" /\ k.open = path /\ k.entry = path /\ ReadsOne(k) /\ ReadsFrom(k, tree)
        /\ k.op = i.op /\ k.todo = i.todo /\ k.staged = i.staged /\ k.stage = i.stage /\ k.listed = i.listed
    BY <1>1, <2>2, <2>3, <2>4, OpenedIs
  <2>6. PICK j : j = [k EXCEPT !.todo = i.todo \ {path}]
    BY Zenon
  <2>7. Look(t, j)
    BY <2>2, <2>4, <2>6
  <2>8. /\ j \in FileJob /\ j.at = k.at /\ j.open = k.open /\ j.entry = k.entry /\ j.data = k.data
        /\ j.changed = k.changed /\ j.op = k.op /\ j.todo = i.todo \ {path} /\ j.staged = k.staged
        /\ j.stage = k.stage /\ j.listed = k.listed
    BY <1>2, <2>5, <2>6, Zenon DEF FileJob
  <2>9. DoesItsPart(j)
    BY <1>2, <1>3, <2>5, <2>8 DEF JobStands, DoesItsPart
  <2>10. ReadsOne(j) /\ ReadsFrom(j, tree)
    BY <2>5, <2>8 DEF ReadsOne, ReadsFrom
  <2>11. CopiesAll(j)
    BY <1>2, <1>3, <2>3, <2>5, <2>8 DEF JobStands, CopiesAll
  <2>12. Rest(j) = Rest(i)
    BY <1>3, <2>3, <2>5, <2>8 DEF Rest
  <2>13. CopiesStand(j)
    BY <1>2, <2>5, <2>8, <2>12 DEF JobStands, CopiesStand
  <2>14. QED
    BY <2>7, <2>8, <2>9, <2>10, <2>11, <2>13, LookKeeps DEF JobStands
<1>7. QED
  BY <1>2, <1>4, <1>5, <1>6

LEMMA ReadChunkKeeps == ASSUME FileInv, NEW t \in FileTask, ReadChunk(t) PROVE FileInv'
<1>1. PICK i : i = filetask[t]
  OBVIOUS
<1>2. PICK chunk : chunk = IF i.open = <<>> THEN i.data[1] ELSE tree[i.open].data[2]
  OBVIOUS
<1>3. SUFFICES ASSUME Look(t, [i EXCEPT !.at = "compare", !.data = Append(@, chunk)]) PROVE FileInv'
  BY <1>1, <1>2, FailKeeps DEF ReadChunk
<1>4. i \in FileJob /\ JobStands(i) /\ ReadsFrom(i, tree) /\ i.at = "chunk" /\ TreeFine(tree)
  BY <1>1, TaskIs DEF ReadChunk
<1>5. i.data \in Seq(Nat) /\ Len(i.data) = 1 /\ i.data[1] \in Nat
  <2>1. i.data \in Seq(Nat) /\ Len(i.data) = 1
    BY <1>4 DEF FileJob, JobStands, ReadsOne
  <2>2. 1 \in 1..Len(i.data)
    BY <2>1
  <2>3. QED
    BY <2>1, <2>2, ElementOfSeq
<1>6. chunk \in Nat /\ (i.changed \/ i.data[1] = chunk)
  <2>1. CASE i.open = <<>>
    BY <1>2, <1>5, <2>1
  <2>2. CASE i.open # <<>>
    <3>1. i.open \in Path /\ tree[i.open] \in WholeNode
      BY <1>4, <2>2 DEF FileJob, TreeFine
    <3>2. tree[i.open].kind = "file" /\ (~i.changed => i.data[1] = tree[i.open].data[1])
      BY <1>4, <2>2 DEF ReadsFrom
    <3>3. chunk = tree[i.open].data[2]
      BY <1>2, <2>2
    <3>4. QED
      BY <3>1, <3>2, <3>3, NodeIs
  <2>3. QED
    BY <2>1, <2>2
<1>7. PICK both : both = Append(i.data, chunk)
  BY Zenon
<1>8. both \in Seq(Nat) /\ Len(both) = 2 /\ both[1] = i.data[1] /\ both[2] = chunk
  <2>1. \A s \in Seq(Nat) : \A x \in Nat :
           Len(s) = 1 => /\ Append(s, x) \in Seq(Nat) /\ Len(Append(s, x)) = 2
                         /\ Append(s, x)[1] = s[1] /\ Append(s, x)[2] = x
    <3>1. PICK S : S = Nat
      BY Zenon
    <3>2. \A s \in Seq(S) : \A x \in S :
             Len(s) = 1 => /\ Append(s, x) \in Seq(S) /\ Len(Append(s, x)) = 2
                           /\ Append(s, x)[1] = s[1] /\ Append(s, x)[2] = x
      <4> SUFFICES ASSUME NEW s \in Seq(S), NEW x \in S, Len(s) = 1
                   PROVE  /\ Append(s, x) \in Seq(S) /\ Len(Append(s, x)) = 2
                          /\ Append(s, x)[1] = s[1] /\ Append(s, x)[2] = x
        OBVIOUS
      <4>1. /\ Append(s, x) \in Seq(S) /\ Len(Append(s, x)) = 2 /\ Append(s, x)[1] = s[1]
            /\ Append(s, x)[2] = x /\ Last(Append(s, x)) = x /\ Append(s, x) = s \o <<x>>
        BY AppendIs, Zenon
      <4>2. QED
        BY <4>1
    <3>3. QED
      BY <3>1, <3>2
  <2>2. QED
    BY <1>5, <1>6, <1>7, <2>1
<1>9. PICK j : j = [i EXCEPT !.at = "compare", !.data = both]
  OBVIOUS
<1>10. Look(t, j)
  BY <1>3, <1>4, <1>7, <1>9 DEF FileJob
<1>11. /\ j \in FileJob /\ j.at = "compare" /\ j.data = both /\ j.op = i.op /\ j.todo = i.todo
       /\ j.entry = i.entry /\ j.changed = i.changed /\ j.staged = i.staged /\ j.stage = i.stage
       /\ j.listed = i.listed
  BY <1>4, <1>8, <1>9, Zenon DEF FileJob, FileAt
<1>12. DoesItsPart(j) /\ ReadsOne(j) /\ ReadsFrom(j, tree) /\ CopiesAll(j)
  BY <1>4, <1>6, <1>8, <1>11 DEF JobStands, DoesItsPart, ReadsOne, ReadsFrom, CopiesAll
<1>13. Rest(j) = Rest(i)
  BY <1>4, <1>11 DEF Rest
<1>14. CopiesStand(j)
  BY <1>4, <1>11, <1>13 DEF JobStands, CopiesStand
<1>15. QED
  BY <1>10, <1>11, <1>12, <1>14, LookKeeps DEF JobStands

LEMMA CompareKeeps == ASSUME FileInv, NEW t \in FileTask, Compare(t) PROVE FileInv'
<1>1. PICK i : i = filetask[t]
  OBVIOUS
<1>2. SUFFICES ASSUME ~i.changed, Look(t, [i EXCEPT !.at = "commit", !.open = <<>>]) PROVE FileInv'
  BY <1>1, FailKeeps DEF Compare
<1>3. i \in FileJob /\ JobStands(i) /\ i.at = "compare"
  BY <1>1, TaskIs DEF Compare
<1>4. PICK j : j = [i EXCEPT !.at = "commit", !.open = <<>>]
  OBVIOUS
<1>5. Look(t, j)
  BY <1>2, <1>4
<1>6. /\ j \in FileJob /\ j.at = "commit" /\ j.data = i.data /\ j.op = i.op /\ j.todo = i.todo
      /\ j.entry = i.entry /\ j.changed = i.changed /\ j.staged = i.staged /\ j.stage = i.stage
      /\ j.listed = i.listed
  BY <1>3, <1>4, Zenon DEF FileJob, FileAt
<1>7. DoesItsPart(j) /\ ReadsOne(j) /\ ReadsFrom(j, tree) /\ CopiesAll(j)
  BY <1>2, <1>3, <1>6 DEF JobStands, DoesItsPart, ReadsOne, ReadsFrom, CopiesAll
<1>8. Rest(j) = Rest(i)
  BY <1>3, <1>6 DEF Rest
<1>9. CopiesStand(j)
  BY <1>3, <1>6, <1>8 DEF JobStands, CopiesStand
<1>10. QED
  BY <1>5, <1>6, <1>7, <1>9, LookKeeps DEF JobStands

\* What is written is one version.
LEMMA PlacedIs ==
    ASSUME FileInv, NEW t \in FileTask, filetask[t].at = "commit"
    PROVE  Placed(t) \in WholeFile
<1>1. filetask[t] \in FileJob /\ JobStands(filetask[t])
  BY TaskIs
<1>2. filetask[t].data \in Seq(Nat) /\ Len(filetask[t].data) = 2 /\ filetask[t].data[1] = filetask[t].data[2]
  BY <1>1 DEF FileJob, JobStands, ReadsOne
<1>3. 1 \in 1..Len(filetask[t].data)
  BY <1>2
<1>4. filetask[t].data[1] \in Nat
  BY <1>2, <1>3, ElementOfSeq
<1>5. PICK v \in Nat : v = filetask[t].data[1]
  BY <1>4
<1>6. Placed(t) = Regular(v, v)
  BY <1>2, <1>5 DEF Placed
<1>7. QED
  BY <1>6 DEF WholeFile

LEMMA CommitStagedKeeps ==
    ASSUME FileInv, NEW t \in FileTask, Commit(t), filetask[t].staged PROVE FileInv'
<1>1. PICK i : i = filetask[t]
  OBVIOUS
<1>2. PICK new : new = <<Target(t), Placed(t)>>
  BY Zenon
<1>3. SUFFICES ASSUME Look(t, [i EXCEPT !.at = "entry", !.stage = @ \cup {new}]) PROVE FileInv'
  BY <1>1, <1>2, FailKeeps DEF Commit
<1>4. i \in FileJob /\ JobStands(i) /\ i.at = "commit" /\ i.op = Op(t) /\ i.op \in Operation /\ i.staged
  BY <1>1, TaskIs DEF Commit
<1>5. i.op.op = "tree" /\ i.entry \in Below(i.op.from) \ i.todo
  BY <1>4 DEF JobStands, DoesItsPart, CopiesAll
<1>6. /\ new[1] = Append(i.op.to, Last(i.entry)) /\ new[2] = Placed(t) /\ new[1] \in Path
      /\ new \in Path \X WholeFile
  <2>1. Target(t) = Append(i.op.to, Last(i.entry)) /\ Target(t) \in Path
    BY <1>1, <1>4, <1>5, OperationIs DEF Target
  <2>2. Placed(t) \in WholeFile
    BY <1>1, <1>4, PlacedIs
  <2>3. QED
    BY <1>2, <2>1, <2>2, Zenon
<1>7. PICK more : more = i.stage \cup {new}
  BY Zenon
<1>8. PICK j : j = [i EXCEPT !.at = "entry", !.stage = more]
  OBVIOUS
<1>9. Look(t, j)
  BY <1>3, <1>4, <1>7, <1>8 DEF FileJob
<1>10. /\ j \in FileJob /\ j.at = "entry" /\ j.op = i.op /\ j.todo = i.todo
       /\ j.staged = i.staged /\ j.stage = more /\ j.listed = i.listed
  <2>1. more \in SUBSET (Path \X WholeFile)
    BY <1>4, <1>6, <1>7 DEF FileJob
  <2>2. QED
    BY <1>4, <1>8, <2>1, Zenon DEF FileJob, FileAt
<1>11. DoesItsPart(j) /\ ReadsOne(j) /\ ReadsFrom(j, tree) /\ CopiesAll(j)
  BY <1>4, <1>5, <1>10 DEF JobStands, DoesItsPart, ReadsOne, ReadsFrom, CopiesAll
<1>12. Rest(i) = i.todo \cup {i.entry} /\ Rest(j) = i.todo
  BY <1>4, <1>10 DEF Rest
<1>13. /\ \A e \in i.stage : \E q \in Below(i.op.from) \ Rest(i) : e[1] = Append(i.op.to, Last(q))
       /\ \A e, f \in i.stage : e[1] = f[1] => e = f
       /\ \A q \in i.listed : q \in Rest(i) \/ \E e \in i.stage : e[1] = Append(i.op.to, Last(q))
  BY <1>4 DEF JobStands, CopiesStand
<1>14. \A e \in i.stage : e[1] # new[1]
  <2> SUFFICES ASSUME NEW e \in i.stage, e[1] = new[1] PROVE FALSE
    OBVIOUS
  <2>1. PICK q \in Below(i.op.from) \ Rest(i) : e[1] = Append(i.op.to, Last(q))
    BY <1>13
  <2>2. Last(Append(i.op.to, Last(q))) = Last(q) /\ Last(Append(i.op.to, Last(i.entry))) = Last(i.entry)
    BY <1>4, <1>5, OperationIs
  <2>3. Last(q) = Last(i.entry)
    BY <1>6, <2>1, <2>2
  <2>4. q \in Path /\ i.entry \in Path /\ i.op.from \in Path
    BY <1>4, <1>5, OperationIs
  <2>5. q = Append(i.op.from, Last(q)) /\ i.entry = Append(i.op.from, Last(i.entry))
    BY <1>5, <2>4, BelowIs
  <2>6. QED
    BY <1>12, <2>1, <2>3, <2>5, Zenon
<1>15. \A e \in more : \E q \in Below(i.op.from) \ Rest(j) : e[1] = Append(i.op.to, Last(q))
  BY <1>5, <1>6, <1>7, <1>12, <1>13
<1>16. \A e, f \in more : e[1] = f[1] => e = f
  BY <1>7, <1>13, <1>14
<1>17. \A q \in i.listed : q \in Rest(j) \/ \E e \in more : e[1] = Append(i.op.to, Last(q))
  BY <1>6, <1>7, <1>12, <1>13
<1>18. CopiesStand(j)
  BY <1>10, <1>15, <1>16, <1>17 DEF CopiesStand
<1>19. QED
  BY <1>9, <1>10, <1>11, <1>18, LookKeeps DEF JobStands

LEMMA LookAgainKeeps == ASSUME FileInv, NEW t \in FileTask, LookAgain(t) PROVE FileInv'
<1>1. PICK i : i = filetask[t]
  OBVIOUS
<1>2. SUFFICES ASSUME Look(t, [i EXCEPT !.at = "rename"]) PROVE FileInv'
  BY <1>1, FailKeeps DEF LookAgain
<1>3. i \in FileJob /\ JobStands(i) /\ i.at = "look"
  BY <1>1, TaskIs DEF LookAgain
<1>4. PICK j : j = [i EXCEPT !.at = "rename"]
  BY Zenon
<1>5. Look(t, j)
  BY <1>2, <1>4
<1>6. /\ j \in FileJob /\ j.at = "rename" /\ j.op = i.op /\ j.todo = i.todo
      /\ j.staged = i.staged /\ j.stage = i.stage /\ j.listed = i.listed
  BY <1>3, <1>4, Zenon DEF FileJob, FileAt
<1>7. DoesItsPart(j) /\ ReadsOne(j) /\ ReadsFrom(j, tree) /\ CopiesAll(j)
  BY <1>3, <1>6 DEF JobStands, DoesItsPart, ReadsOne, ReadsFrom, CopiesAll
<1>8. Rest(j) = Rest(i)
  BY <1>3, <1>6 DEF Rest
<1>9. CopiesStand(j)
  BY <1>3, <1>6, <1>8 DEF JobStands, CopiesStand
<1>10. QED
  BY <1>5, <1>6, <1>7, <1>9, LookKeeps DEF JobStands

LEMMA BeginMoveKeeps == ASSUME FileInv, NEW t \in FileTask, BeginMove(t) PROVE FileInv'
<1>1. PICK i : i = filetask[t]
  OBVIOUS
<1>2. SUFFICES ASSUME Look(t, [i EXCEPT !.at = "rename"]) PROVE FileInv'
  BY <1>1, FailKeeps DEF BeginMove
<1>3. i \in FileJob /\ JobStands(i) /\ i.op.op = "move"
  BY <1>1, TaskIs DEF BeginMove, Begins
<1>4. PICK j : j = [i EXCEPT !.at = "rename"]
  BY Zenon
<1>5. Look(t, j)
  BY <1>2, <1>4
<1>6. j \in FileJob /\ j.at = "rename" /\ j.op = i.op /\ j.staged = i.staged
  BY <1>3, <1>4 DEF FileJob, FileAt
<1>7. ~j.staged
  BY <1>3, <1>6 DEF JobStands, DoesItsPart
<1>8. DoesItsPart(j) /\ ReadsOne(j) /\ ReadsFrom(j, tree) /\ CopiesAll(j) /\ CopiesStand(j)
  BY <1>3, <1>6, <1>7 DEF DoesItsPart, ReadsOne, ReadsFrom, CopiesAll, CopiesStand
<1>9. QED
  BY <1>5, <1>6, <1>8, LookKeeps DEF JobStands

\* A directory is removed entry by entry.
LEMMA RemoveTodo ==
    ASSUME NEW i \in FileJob, JobStands(i), i.op.op = "remove", NEW S, S \subseteq Below(i.op.to)
    PROVE  /\ [i EXCEPT !.at = "remove", !.todo = S] \in FileJob
           /\ JobStands([i EXCEPT !.at = "remove", !.todo = S])
           /\ [i EXCEPT !.at = "remove", !.todo = S].at = "remove"
<1>1. PICK j : j = [i EXCEPT !.at = "remove", !.todo = S]
  OBVIOUS
<1>2. S \subseteq Path
  BY DEF Below
<1>3. j \in FileJob /\ j.at = "remove" /\ j.op = i.op /\ j.staged = i.staged /\ j.todo = S
  BY <1>1, <1>2, Zenon DEF FileJob, FileAt
<1>4. ~j.staged
  BY <1>3 DEF JobStands, DoesItsPart
<1>5. DoesItsPart(j) /\ ReadsOne(j) /\ CopiesAll(j) /\ CopiesStand(j)
  BY <1>3, <1>4 DEF DoesItsPart, ReadsOne, CopiesAll, CopiesStand
<1>6. QED
  BY <1>1, <1>3, <1>5 DEF JobStands

LEMMA RemoveLookKeeps ==
    ASSUME FileInv, NEW t \in FileTask, NEW S, Op(t).op = "remove", S \subseteq Below(Op(t).to),
           Look(t, [filetask[t] EXCEPT !.at = "remove", !.todo = S])
    PROVE  FileInv'
<1>1. PICK j : j = [filetask[t] EXCEPT !.at = "remove", !.todo = S]
  OBVIOUS
<1>2. j \in FileJob /\ JobStands(j) /\ j.at = "remove"
  BY <1>1, TaskIs, RemoveTodo, Zenon
<1>3. Look(t, j) /\ ReadsFrom(j, tree)
  BY <1>1, <1>2 DEF ReadsFrom
<1>4. QED
  BY <1>2, <1>3, LookKeeps

LEMMA CancelFileKeeps == ASSUME FileInv, NEW t \in FileTask, CancelFile(t) PROVE FileInv'
<1>1. PICK i : i = filetask[t]
  OBVIOUS
<1>2. i \in FileJob /\ JobStands(i) /\ ReadsFrom(i, tree)
  BY <1>1, TaskIs
<1>3. PICK j : j = [i EXCEPT !.cancelled = TRUE]
  BY Zenon
<1>4. Look(t, j)
  BY <1>1, <1>3 DEF CancelFile
<1>5. /\ j \in FileJob /\ j.at = i.at /\ j.data = i.data /\ j.op = i.op /\ j.todo = i.todo
      /\ j.entry = i.entry /\ j.open = i.open /\ j.changed = i.changed /\ j.staged = i.staged
      /\ j.stage = i.stage /\ j.listed = i.listed
  BY <1>2, <1>3, Zenon DEF FileJob
<1>6. JobStands(j) /\ ReadsFrom(j, tree)
  BY <1>2, <1>5, SameStands DEF ReadsFrom
<1>7. QED
  BY <1>4, <1>5, <1>6, LookKeeps

-----------------------------------------------------------------------------
(* FileTasks: the steps that change the directory. *)

\* Only a directory has something in it.
LEMMA NoChildren ==
    ASSUME TreeFine(tree), NEW path \in Path
    PROVE  /\ tree[path] # Directory => Children(path) = {}
           /\ Len(path) = 2 => Children(path) = {}
           /\ Len(path) = 2 /\ IsDir(Parent(path)) => tree[Parent(path)] = Directory
<1>1. \A q \in Children(path) : q \in Path /\ Len(q) = 2 /\ Parent(q) = path /\ tree[q] # Nothing /\ Len(path) = 1
  BY BelowIs DEF Children, Exists, Below
<1>2. \A q \in Children(path) : tree[path] = Directory
  BY <1>1 DEF TreeFine
<1>3. Len(path) = 2 => Parent(path) \in Path /\ Parent(path) # <<>>
  BY PathIs
<1>4. QED
  BY <1>1, <1>2, <1>3 DEF IsDir

LEMMA SetTree ==
    ASSUME TreeFine(tree), NEW path \in Path, NEW node \in WholeNode,
           node # Directory => Children(path) = {},
           Len(path) = 2 => node # Directory /\ (node # Nothing => IsDir(Parent(path)))
    PROVE  TreeFine([tree EXCEPT ![path] = node])
<1>1. PICK new : new = [tree EXCEPT ![path] = node]
  BY Zenon
<1>2. /\ tree \in [Path -> WholeNode]
      /\ \A q \in Path : Len(q) = 2 => tree[q] # Directory /\ (tree[q] # Nothing => tree[Parent(q)] = Directory)
  BY DEF TreeFine
<1>3. new \in [Path -> WholeNode] /\ \A q \in Path : new[q] = IF q = path THEN node ELSE tree[q]
  BY <1>1, <1>2
<1>4. ASSUME NEW q \in Path, Len(q) = 2
      PROVE  new[q] # Directory /\ (new[q] # Nothing => new[Parent(q)] = Directory)
  <2>1. Parent(q) \in Path /\ q \in Below(Parent(q)) /\ q # Parent(q)
    BY <1>4, PathIs, BelowIs
  <2>2. CASE q = path
    <3>1. node # Nothing => tree[Parent(q)] = Directory
      BY <1>4, <2>2, NoChildren
    <3>2. QED
      BY <1>3, <1>4, <2>1, <2>2, <3>1
  <2>3. CASE q # path /\ Parent(q) = path
    <3>1. tree[q] # Nothing => q \in Children(path)
      BY <2>1, <2>3 DEF Children, Exists
    <3>2. QED
      BY <1>2, <1>3, <1>4, <2>1, <2>3, <3>1
  <2>4. CASE q # path /\ Parent(q) # path
    BY <1>2, <1>3, <1>4, <2>1, <2>4
  <2>5. QED
    BY <2>2, <2>3, <2>4
<1>5. QED
  BY <1>1, <1>3, <1>4 DEF TreeFine

\* One path changes and the task goes on.
LEMMA SetKeeps ==
    ASSUME FileInv, NEW t \in FileTask, NEW path \in Path, NEW node \in WholeNode, NEW place,
           Set(t, path, node, place),
           node # Directory => Children(path) = {},
           Len(path) = 2 => node # Directory /\ (node # Nothing => IsDir(Parent(path))),
           place # "chunk", [filetask[t] EXCEPT !.at = place] \in FileJob, JobStands([filetask[t] EXCEPT !.at = place])
    PROVE  FileInv'
<1>1. PICK j : j = [filetask[t] EXCEPT !.at = place]
  OBVIOUS
<1>2. PICK new : new = [tree EXCEPT ![path] = node]
  BY Zenon
<1>3. Change(t, {path}, new, j)
  BY <1>1, <1>2 DEF Set
<1>4. TreeFine(tree)
  BY TaskIs
<1>5. TreeFine(new)
  BY <1>2, <1>4, SetTree, Zenon
<1>6. \A q \in Path : q \notin {path} => new[q] = tree[q]
  BY <1>2, <1>4 DEF TreeFine
<1>7. j \in FileJob /\ JobStands(j) /\ j.at # "chunk"
  BY <1>1, TaskIs, Zenon DEF FileJob
<1>8. QED
  BY <1>3, <1>5, <1>6, <1>7, ChangeKeeps

LEMMA SetDoneKeeps ==
    ASSUME FileInv, NEW t \in FileTask, NEW path \in Path, NEW node \in WholeNode,
           Set(t, path, node, "done"),
           node # Directory => Children(path) = {},
           Len(path) = 2 => node # Directory /\ (node # Nothing => IsDir(Parent(path)))
    PROVE  FileInv'
<1>1. [filetask[t] EXCEPT !.at = "done"] \in FileJob /\ JobStands([filetask[t] EXCEPT !.at = "done"])
  BY TaskIs, EndsWell, Zenon
<1>2. QED
  BY <1>1, SetKeeps

LEMMA CommitKeeps == ASSUME FileInv, NEW t \in FileTask, Commit(t), ~filetask[t].staged PROVE FileInv'
<1>1. PICK i : i = filetask[t]
  OBVIOUS
<1>2. PICK path : path = Target(t)
  OBVIOUS
<1>3. PICK place : place = IF Op(t).op = "tree" THEN "entry" ELSE "done"
  OBVIOUS
<1>4. SUFFICES ASSUME IsDir(Parent(path)), ~IsDir(path), Set(t, path, Placed(t), place) PROVE FileInv'
  BY <1>2, <1>3, FailKeeps DEF Commit, CommitAt
<1>5. i \in FileJob /\ JobStands(i) /\ i.at = "commit" /\ i.op = Op(t) /\ i.op \in Operation /\ ~i.staged
  BY <1>1, TaskIs DEF Commit
<1>6. path \in Path
  <2>1. CASE i.op.op = "tree"
    <3>1. i.entry \in Below(i.op.from)
      BY <1>5, <2>1 DEF JobStands, CopiesAll
    <3>2. QED
      BY <1>1, <1>2, <1>5, <2>1, <3>1, OperationIs DEF Target
  <2>2. CASE i.op.op # "tree"
    BY <1>2, <1>5, <2>2, OperationIs DEF Target
  <2>3. QED
    BY <2>1, <2>2
<1>7. Placed(t) \in WholeNode /\ Placed(t) # Directory
  BY <1>1, <1>5, PlacedIs, NodeIs
<1>8. TreeFine(tree)
  BY TaskIs
<1>9. Children(path) = {}
  BY <1>4, <1>6, <1>8, NoChildren DEF IsDir
<1>10. CASE i.op.op # "tree"
  BY <1>3, <1>4, <1>5, <1>6, <1>7, <1>9, <1>10, SetDoneKeeps
<1>11. CASE i.op.op = "tree"
  <2>1. PICK j : j = [i EXCEPT !.at = "entry"]
    BY Zenon
  <2>2. /\ j \in FileJob /\ j.at = "entry" /\ j.op = i.op /\ j.todo = i.todo /\ j.staged = i.staged
        /\ j.listed = i.listed
    BY <1>5, <2>1 DEF FileJob, FileAt
  <2>3. DoesItsPart(j) /\ ReadsOne(j) /\ CopiesAll(j) /\ CopiesStand(j)
    BY <1>5, <1>11, <2>2 DEF JobStands, DoesItsPart, ReadsOne, CopiesAll, CopiesStand
  <2>4. [filetask[t] EXCEPT !.at = "entry"] \in FileJob /\ JobStands([filetask[t] EXCEPT !.at = "entry"])
    BY <1>1, <2>1, <2>2, <2>3 DEF JobStands
  <2>5. Set(t, path, Placed(t), "entry")
    BY <1>3, <1>4, <1>5, <1>11
  <2>6. QED
    BY <1>4, <1>6, <1>7, <1>9, <2>4, <2>5, SetKeeps
<1>12. QED
  BY <1>10, <1>11

LEMMA BeginRemoveKeeps == ASSUME FileInv, NEW t \in FileTask, BeginRemove(t) PROVE FileInv'
<1>1. PICK path : path = Op(t).to
  OBVIOUS
<1>2. path \in Path /\ Op(t).op = "remove" /\ TreeFine(tree)
  BY <1>1, TaskIs, OperationIs DEF BeginRemove, Begins
<1>3. CASE ~Exists(path)
  BY <1>1, <1>3, FailKeeps, DoneKeeps DEF BeginRemove
<1>4. CASE Exists(path) /\ ~IsDir(path)
  <2>1. Set(t, path, Nothing, "done")
    BY <1>1, <1>4 DEF BeginRemove
  <2>2. Children(path) = {}
    BY <1>2, <1>4, NoChildren DEF IsDir
  <2>3. QED
    BY <1>2, <2>1, <2>2, NodeIs, SetDoneKeeps
<1>5. CASE Exists(path) /\ IsDir(path)
  <2>1. PICK S : S = IF Op(t).recursive THEN Children(path) ELSE {}
    BY Zenon
  <2>2. S \subseteq Below(Op(t).to)
    BY <1>1, <2>1 DEF Children
  <2>3. Look(t, [filetask[t] EXCEPT !.at = "remove", !.todo = S])
    BY <1>1, <1>5, <2>1 DEF BeginRemove
  <2>4. QED
    BY <1>2, <2>2, <2>3, RemoveLookKeeps, Zenon
<1>6. QED
  BY <1>3, <1>4, <1>5

LEMMA RemoveEntryKeeps == ASSUME FileInv, NEW t \in FileTask, RemoveEntry(t) PROVE FileInv'
<1>1. PICK i : i = filetask[t]
  OBVIOUS
<1>2. PICK path : path = First(i.todo)
  OBVIOUS
<1>3. SUFFICES ASSUME Change(t, {path}, [tree EXCEPT ![path] = Nothing], [i EXCEPT !.todo = i.todo \ {path}])
      PROVE  FileInv'
  BY <1>1, <1>2, FailKeeps DEF RemoveEntry
<1>4. i \in FileJob /\ JobStands(i) /\ i.at = "remove" /\ i.todo # {} /\ i.todo \subseteq Path /\ TreeFine(tree)
  BY <1>1, TaskIs DEF RemoveEntry
<1>5. i.op.op = "remove" /\ i.todo \subseteq Below(i.op.to)
  BY <1>4 DEF JobStands, DoesItsPart
<1>6. path \in i.todo /\ path \in Path /\ Len(path) = 2
  BY <1>2, <1>4, <1>5, FirstIs DEF Below
<1>7. PICK j : j = [i EXCEPT !.todo = i.todo \ {path}]
  BY Zenon
<1>8. /\ j \in FileJob /\ j.at = i.at /\ j.op = i.op /\ j.staged = i.staged /\ j.todo = i.todo \ {path}
  BY <1>4, <1>7 DEF FileJob
<1>9. ~j.staged
  BY <1>4, <1>5, <1>8 DEF JobStands, DoesItsPart
<1>10. DoesItsPart(j) /\ ReadsOne(j) /\ CopiesAll(j) /\ CopiesStand(j)
  BY <1>4, <1>5, <1>8, <1>9 DEF DoesItsPart, ReadsOne, CopiesAll, CopiesStand
<1>11. PICK new : new = [tree EXCEPT ![path] = Nothing]
  BY Zenon
<1>12. TreeFine(new)
  BY <1>4, <1>6, <1>11, NoChildren, NodeIs, SetTree, Zenon
<1>13. \A q \in Path : q \notin {path} => new[q] = tree[q]
  BY <1>4, <1>11 DEF TreeFine
<1>14. Change(t, {path}, new, j)
  BY <1>3, <1>7, <1>11
<1>15. QED
  BY <1>4, <1>8, <1>10, <1>12, <1>13, <1>14, ChangeKeeps DEF JobStands

LEMMA RemoveDirectoryKeeps == ASSUME FileInv, NEW t \in FileTask, RemoveDirectory(t) PROVE FileInv'
<1>1. Op(t).to \in Path
  BY TaskIs, OperationIs
<1>2. QED
  BY <1>1, FailKeeps, NodeIs, SetDoneKeeps DEF RemoveDirectory

LEMMA MakeKeeps == ASSUME FileInv, NEW t \in FileTask, Make(t) PROVE FileInv'
<1>1. PICK path : path = Op(t).to
  OBVIOUS
<1>2. /\ path \in Path /\ TreeFine(tree) /\ (Op(t).op = "mkdir" => Len(path) = 1)
      /\ Op(t).op \in {"mkdir", "symlink"}
  BY <1>1, TaskIs, OperationIs, FileAssumption DEF Make, Begins
<1>3. SUFFICES ASSUME ~Exists(path), IsDir(Parent(path)),
                      Set(t, path, IF Op(t).op = "mkdir" THEN Directory ELSE Link, "done")
               PROVE  FileInv'
  BY <1>1, FailKeeps, DoneKeeps DEF Make
<1>4. PICK node : node = IF Op(t).op = "mkdir" THEN Directory ELSE Link
  OBVIOUS
<1>5. node \in WholeNode /\ (Len(path) = 2 => node # Directory)
  <2>1. Directory \in WholeNode /\ Link \in WholeNode /\ Link # Directory
    BY NodeIs
  <2>2. Len(path) = 2 => Op(t).op # "mkdir"
    BY <1>2
  <2>3. QED
    BY <1>4, <2>1, <2>2
<1>6. tree[path] # Directory
  BY <1>3, NodeIs DEF Exists
<1>7. Children(path) = {}
  BY <1>2, <1>6, NoChildren
<1>8. QED
  BY <1>2, <1>3, <1>4, <1>5, <1>7, SetDoneKeeps

\* A staged tree appears: what the stage holds is what is there.
Arrived(j, tr) ==
    [q \in Path |-> IF q = j.op.to THEN Directory
                    ELSE IF \E e \in j.stage : e[1] = q THEN (CHOOSE e \in j.stage : e[1] = q)[2]
                    ELSE tr[q]]

LEMMA ArrivedIs ==
    ASSUME FileInv, NEW t \in FileTask, filetask[t].at = "rename", Op(t).op = "tree",
           Children(Op(t).to) = {},
           NEW new, new = Arrived(filetask[t], tree)
    PROVE  /\ TreeFine(new) /\ new[Op(t).to] = Directory
           /\ \A e \in filetask[t].stage : e[1] \in Path /\ new[e[1]] = e[2] /\ ~Exists(e[1])
           /\ \A q \in Path : q # Op(t).to /\ Exists(q) => new[q] = tree[q]
           /\ \A q \in filetask[t].listed : \E e \in filetask[t].stage : Last(e[1]) = Last(q)
<1>1. PICK i : i = filetask[t]
  OBVIOUS
<1>2. i \in FileJob /\ JobStands(i) /\ i.op = Op(t) /\ i.op \in Operation /\ TreeFine(tree)
  BY <1>1, TaskIs
<1>3. i.staged /\ i.todo = {} /\ Len(i.op.from) = 1 /\ i.listed \subseteq Below(i.op.from)
  BY <1>1, <1>2 DEF JobStands, CopiesAll
<1>4. Rest(i) = {}
  BY <1>1, <1>3 DEF Rest
<1>5. /\ \A e \in i.stage : \E q \in Below(i.op.from) : e[1] = Append(i.op.to, Last(q))
      /\ \A e, f \in i.stage : e[1] = f[1] => e = f
      /\ \A q \in i.listed : \E e \in i.stage : e[1] = Append(i.op.to, Last(q))
  BY <1>1, <1>2, <1>3, <1>4 DEF JobStands, CopiesStand
<1>6. i.op.to \in Path /\ Len(i.op.to) = 1
  BY <1>2, <1>3, OperationIs
<1>7. \A e \in i.stage : /\ e[1] \in Below(i.op.to) /\ e[1] \in Path /\ e[2] \in WholeFile
                         /\ e[1] # i.op.to /\ Parent(e[1]) = i.op.to /\ Len(e[1]) = 2
  <2> SUFFICES ASSUME NEW e \in i.stage
               PROVE  /\ e[1] \in Below(i.op.to) /\ e[1] \in Path /\ e[2] \in WholeFile
                      /\ e[1] # i.op.to /\ Parent(e[1]) = i.op.to /\ Len(e[1]) = 2
    OBVIOUS
  <2>1. PICK q \in Below(i.op.from) : e[1] = Append(i.op.to, Last(q))
    BY <1>5
  <2>2. e[1] \in Below(i.op.to) /\ e[1] \in Path
    BY <1>2, <2>1, OperationIs
  <2>3. e \in Path \X WholeFile
    BY <1>2 DEF FileJob
  <2>4. QED
    BY <1>6, <2>2, <2>3, BelowIs
<1>8. /\ new[i.op.to] = Directory
      /\ \A q \in Path : q # i.op.to /\ (\A e \in i.stage : e[1] # q) => new[q] = tree[q]
  BY <1>1, <1>6 DEF Arrived
<1>9. \A e \in i.stage : new[e[1]] = e[2]
  <2> SUFFICES ASSUME NEW e \in i.stage PROVE new[e[1]] = e[2]
    OBVIOUS
  <2>1. new[e[1]] = (CHOOSE f \in i.stage : f[1] = e[1])[2]
    BY <1>1, <1>7 DEF Arrived
  <2>2. (CHOOSE f \in i.stage : f[1] = e[1]) = e
    BY <1>5
  <2>3. QED
    BY <2>1, <2>2, Zenon
<1>10. \A q \in Below(i.op.to) : q \in Path /\ ~Exists(q) /\ tree[q] = Nothing
  BY <1>2 DEF Children, Exists, Below
<1>11. new \in [Path -> WholeNode]
  <2>1. \A q \in Path : new[q] \in WholeNode
    <3> SUFFICES ASSUME NEW q \in Path PROVE new[q] \in WholeNode
      OBVIOUS
    <3>1. CASE q = i.op.to
      BY <1>8, <3>1, NodeIs
    <3>2. CASE \E e \in i.stage : e[1] = q
      BY <1>7, <1>9, <3>2, NodeIs
    <3>3. CASE q # i.op.to /\ \A e \in i.stage : e[1] # q
      BY <1>2, <1>8, <3>3 DEF TreeFine
    <3>4. QED
      BY <3>1, <3>2, <3>3
  <2>2. new = [q \in Path |-> new[q]]
    BY DEF Arrived
  <2>3. QED
    BY <2>1, <2>2
<1>12. ASSUME NEW q \in Path, Len(q) = 2
       PROVE  new[q] # Directory /\ (new[q] # Nothing => new[Parent(q)] = Directory)
  <2>1. Parent(q) \in Path /\ q \in Below(Parent(q)) /\ Len(Parent(q)) = 1 /\ q # i.op.to
    BY <1>6, <1>12, PathIs, BelowIs
  <2>2. CASE \E e \in i.stage : e[1] = q
    BY <1>7, <1>8, <1>9, <2>2, NodeIs
  <2>3. CASE (\A e \in i.stage : e[1] # q) /\ Parent(q) = i.op.to
    BY <1>8, <1>10, <1>12, <2>1, <2>3, NodeIs
  <2>4. CASE (\A e \in i.stage : e[1] # q) /\ Parent(q) # i.op.to
    <3>1. new[q] = tree[q]
      BY <1>8, <2>1, <2>4
    <3>2. \A e \in i.stage : e[1] # Parent(q)
      BY <1>7, <2>1
    <3>3. new[Parent(q)] = tree[Parent(q)]
      BY <1>8, <2>1, <2>4, <3>2
    <3>4. QED
      BY <1>2, <1>12, <3>1, <3>3 DEF TreeFine
  <2>5. QED
    BY <2>2, <2>3, <2>4
<1>13. TreeFine(new)
  BY <1>11, <1>12 DEF TreeFine
<1>14. \A q \in Path : q # i.op.to /\ Exists(q) => new[q] = tree[q]
  BY <1>7, <1>8, <1>10
<1>15. \A q \in i.listed : \E e \in i.stage : Last(e[1]) = Last(q)
  <2> SUFFICES ASSUME NEW q \in i.listed PROVE \E e \in i.stage : Last(e[1]) = Last(q)
    OBVIOUS
  <2>1. PICK e \in i.stage : e[1] = Append(i.op.to, Last(q))
    BY <1>5
  <2>2. Last(Append(i.op.to, Last(q))) = Last(q)
    BY <1>2, <1>3, OperationIs
  <2>3. QED
    BY <2>1, <2>2, Zenon
<1>16. QED
  BY <1>1, <1>2, <1>7, <1>8, <1>9, <1>10, <1>13, <1>14, <1>15

\* When a staged tree appears nothing was where it goes.
LEMMA RenameTreeIs ==
    ASSUME FileInv, NEW t \in FileTask, RenameTree(t), ~FailFile(t)
    PROVE  /\ filetask[t].at = "rename" /\ Op(t).op = "tree" /\ Children(Op(t).to) = {}
           /\ tree[Op(t).to] \in {Nothing, Directory}
           /\ Change(t, {}, Arrived(filetask[t], tree), [filetask[t] EXCEPT !.at = "done"])
<1>1. Op(t).to \in Path /\ Op(t).to # <<>> /\ TreeFine(tree) /\ Op(t) = filetask[t].op
  BY TaskIs, OperationIs, PathIs
<1>2. filetask[t].at = "rename" /\ Op(t).op = "tree"
  BY DEF RenameTree
<1>3. ~Exists(Op(t).to) \/ (IsDir(Op(t).to) /\ Children(Op(t).to) = {})
  BY DEF RenameTree
<1>4. tree[Op(t).to] \in {Nothing, Directory}
  BY <1>1, <1>3 DEF Exists, IsDir
<1>5. Children(Op(t).to) = {}
  BY <1>1, <1>3, NoChildren, NodeIs DEF Exists
<1>6. Change(t, {}, Arrived(filetask[t], tree), [filetask[t] EXCEPT !.at = "done"])
  BY <1>1 DEF RenameTree, Arrived
<1>7. QED
  BY <1>2, <1>4, <1>5, <1>6

LEMMA RenameTreeKeeps == ASSUME FileInv, NEW t \in FileTask, RenameTree(t) PROVE FileInv'
<1>1. CASE FailFile(t)
  BY <1>1, FailKeeps
<1>2. CASE ~FailFile(t)
  <2>1. PICK new : new = Arrived(filetask[t], tree)
    OBVIOUS
  <2>2. PICK j : j = [filetask[t] EXCEPT !.at = "done"]
    BY Zenon
  <2>3. /\ Change(t, {}, new, j) /\ tree[Op(t).to] \in {Nothing, Directory}
        /\ filetask[t].at = "rename" /\ Op(t).op = "tree" /\ Children(Op(t).to) = {}
    BY <1>2, <2>1, <2>2, RenameTreeIs
  <2>4. j \in FileJob /\ JobStands(j) /\ j.at # "chunk"
    BY <2>2, TaskIs, EndsWell, Zenon
  <2>5. TreeFine(new) /\ \A q \in Path : q # Op(t).to /\ Exists(q) => new[q] = tree[q]
    BY <2>1, <2>3, ArrivedIs
  <2>6. \A q \in Path : tree[q].kind = "file" => q # Op(t).to /\ Exists(q)
    BY <2>3, NodeIs DEF Exists
  <2>7. QED
    BY <2>3, <2>4, <2>5, <2>6, ChangeKeeps
<1>3. QED
  BY <1>1, <1>2

-----------------------------------------------------------------------------
(* FileTasks: a move takes its entries and its open files along. *)

\* Where what is at a path was before the move.
CameFrom(from, to, q) == IF IsPrefix(to, q) THEN Moved(to, from, q) ELSE q
Relocated(from, to, tr) ==
    [q \in Path |-> IF IsPrefix(from, q) THEN Nothing
                    ELSE IF CameFrom(from, to, q) \in Path THEN tr[CameFrom(from, to, q)] ELSE Nothing]

\* A move, taken apart: what is at a path afterwards.
LEMMA RelocatedIs ==
    ASSUME FileInv, NEW t \in FileTask, Op(t).op = "move", Renames(Op(t).from, Op(t).to),
           NEW new, new = Relocated(Op(t).from, Op(t).to, tree)
    PROVE  /\ new[Op(t).from] = Nothing /\ new[Op(t).to] = tree[Op(t).from]
           /\ \A q \in Below(Op(t).from) : new[q] = Nothing
           /\ \A q \in Below(Op(t).from) : new[Append(Op(t).to, Last(q))] = tree[q]
           /\ \A q \in Below(Op(t).to) :
                 new[q] = Nothing \/ \E u \in Below(Op(t).from) : new[q] = tree[u]
           /\ \A q \in Path : q \notin {Op(t).from, Op(t).to} \cup Below(Op(t).from) \cup Below(Op(t).to)
                              => new[q] = tree[q]
           /\ Children(Op(t).to) = {}
<1>1. PICK from : from = Op(t).from
  OBVIOUS
<1>2. PICK to : to = Op(t).to
  OBVIOUS
<1>3. /\ from \in Path /\ to \in Path /\ from # to /\ to \notin Below(from) /\ from \notin Below(to)
      /\ Len(from) = Len(to) /\ TreeFine(tree)
      /\ \A q \in Below(from) : /\ q \in Path /\ Append(to, Last(q)) \in Below(to)
                                /\ Append(to, Last(q)) \in Path /\ Last(Append(to, Last(q))) = Last(q)
  BY <1>1, <1>2, TaskIs, OperationIs
<1>4. \A q \in Path : /\ IsPrefix(from, q) <=> q = from \/ q \in Below(from)
                      /\ IsPrefix(to, q) <=> q = to \/ q \in Below(to)
  BY <1>3, PrefixIs
<1>5. \A q \in Path : /\ q \in Below(from) => q # from /\ Parent(q) = from /\ Len(from) = 1 /\ q = Append(from, Last(q))
                      /\ q \in Below(to) => q # to /\ Parent(q) = to /\ Len(to) = 1 /\ q = Append(to, Last(q))
  BY <1>3, BelowIs
<1>6. \A q \in Path : new[q] = IF IsPrefix(from, q) THEN Nothing
                    ELSE IF CameFrom(from, to, q) \in Path THEN tree[CameFrom(from, to, q)] ELSE Nothing
  BY <1>1, <1>2 DEF Relocated
<1>7. new[from] = Nothing /\ \A q \in Below(from) : new[q] = Nothing
  BY <1>3, <1>4, <1>6
<1>8. CameFrom(from, to, to) = from
  BY <1>3, <1>4, MovedIs DEF CameFrom
<1>9. new[to] = tree[from]
  BY <1>3, <1>4, <1>6, <1>8
<1>10. \A q \in Path : q \in Below(to) => ~IsPrefix(from, q) /\ CameFrom(from, to, q) = Append(from, Last(q))
  <2> SUFFICES ASSUME NEW q \in Path, q \in Below(to)
               PROVE  ~IsPrefix(from, q) /\ CameFrom(from, to, q) = Append(from, Last(q))
    OBVIOUS
  <2>1. q # from /\ q \notin Below(from) /\ Len(from) = 1
    BY <1>3, <1>5
  <2>2. Moved(to, from, q) = Append(from, Last(q))
    BY <1>3, <2>1, MovedIs
  <2>3. QED
    BY <1>4, <2>1, <2>2 DEF CameFrom
<1>11. \A q \in Below(from) : new[Append(to, Last(q))] = tree[q]
  <2> SUFFICES ASSUME NEW q \in Below(from) PROVE new[Append(to, Last(q))] = tree[q]
    OBVIOUS
  <2>1. PICK u : u = Append(to, Last(q))
    BY Zenon
  <2>2. u \in Path /\ u \in Below(to) /\ Last(u) = Last(q) /\ q \in Path
    BY <1>3, <2>1
  <2>3. CameFrom(from, to, u) = q /\ ~IsPrefix(from, u)
    BY <1>5, <1>10, <2>2
  <2>4. QED
    BY <1>6, <2>1, <2>2, <2>3
<1>12. \A q \in Below(to) : new[q] = Nothing \/ \E u \in Below(from) : new[q] = tree[u]
  <2> SUFFICES ASSUME NEW q \in Below(to), new[q] # Nothing PROVE \E u \in Below(from) : new[q] = tree[u]
    OBVIOUS
  <2>1. q \in Path
    BY DEF Below
  <2>2. PICK u : u = Append(from, Last(q))
    BY Zenon
  <2>3. u \in Path /\ new[q] = tree[u]
    BY <1>6, <1>10, <2>1, <2>2, Zenon
  <2>4. Len(from) = 1
    BY <1>3, <1>5, <2>1
  <2>5. u \in Below(from)
    BY <1>3, <2>1, <2>2, <2>3, <2>4, ChildIs
  <2>6. QED
    BY <2>3, <2>5
<1>13. \A q \in Path : q \notin {from, to} \cup Below(from) \cup Below(to) => new[q] = tree[q]
  BY <1>4, <1>6 DEF CameFrom
<1>14. Children(to) = {}
  <2>1. ~Exists(to) \/ (IsDir(to) /\ Children(to) = {}) \/ ~IsDir(to)
    BY <1>1, <1>2 DEF Renames
  <2>2. tree[to] # Directory \/ Children(to) = {}
    BY <2>1, NodeIs DEF Exists, IsDir
  <2>3. QED
    BY <1>3, <2>2, NoChildren
<1>15. QED
  BY <1>1, <1>2, <1>7, <1>9, <1>11, <1>12, <1>13, <1>14

LEMMA RelocatedFine ==
    ASSUME FileInv, NEW t \in FileTask, Op(t).op = "move", Renames(Op(t).from, Op(t).to),
           NEW new, new = Relocated(Op(t).from, Op(t).to, tree)
    PROVE  TreeFine(new)
<1>1. PICK from : from = Op(t).from
  OBVIOUS
<1>2. PICK to : to = Op(t).to
  OBVIOUS
<1>3. /\ from \in Path /\ to \in Path /\ from # to /\ to \notin Below(from) /\ from \notin Below(to)
      /\ Len(from) = Len(to) /\ TreeFine(tree)
  BY <1>1, <1>2, TaskIs, OperationIs
<1>4. /\ new[from] = Nothing /\ new[to] = tree[from]
      /\ \A q \in Below(from) : new[q] = Nothing
      /\ \A q \in Below(to) : new[q] = Nothing \/ \E u \in Below(from) : new[q] = tree[u]
      /\ \A q \in Path : q \notin {from, to} \cup Below(from) \cup Below(to) => new[q] = tree[q]
  BY <1>1, <1>2, RelocatedIs
<1>5. Len(to) = 2 => tree[Parent(to)] = Directory
  BY <1>2, <1>3, NoChildren DEF Renames
<1>6. new = [q \in Path |-> new[q]]
  BY DEF Relocated
<1>7. \A u \in Below(from) : u \in Path /\ Len(u) = 2 /\ Parent(u) = from
  BY <1>3, BelowIs DEF Below
<1>8. \A q \in Path : new[q] \in WholeNode
  <2> SUFFICES ASSUME NEW q \in Path PROVE new[q] \in WholeNode
    OBVIOUS
  <2>1. \A u \in Path : tree[u] \in WholeNode
    BY <1>3 DEF TreeFine
  <2>2. QED
    BY <1>3, <1>4, <1>7, <2>1, NodeIs
<1>9. \A q \in Path : Len(q) = 2 => tree[q] # Directory /\ (tree[q] # Nothing => tree[Parent(q)] = Directory)
  BY <1>3 DEF TreeFine
<1>10. ASSUME NEW q \in Path, Len(q) = 2
       PROVE  new[q] # Directory /\ (new[q] # Nothing => new[Parent(q)] = Directory)
  <2>1. /\ Parent(q) \in Path /\ q \in Below(Parent(q)) /\ Len(Parent(q)) = 1
    BY <1>10, PathIs, BelowIs
  <2>2. CASE q = from \/ q \in Below(from)
    BY <1>4, <2>2, NodeIs
  <2>3. CASE q = to
    <3>1. tree[Parent(q)] = Directory /\ new[q] = tree[from] /\ Len(from) = 2
      BY <1>3, <1>4, <1>5, <1>10, <2>3
    <3>2. Parent(q) # from /\ Parent(q) # to
      <4>1. Len(from) = 2 /\ Len(to) = 2
        BY <1>3, <1>10, <2>3, Zenon
      <4>2. QED
        BY <2>1, <4>1
    <3>3. Parent(q) \notin Below(from) /\ Parent(q) \notin Below(to)
      BY <2>1 DEF Below
    <3>4. new[Parent(q)] = tree[Parent(q)]
      BY <1>4, <2>1, <3>2, <3>3
    <3>5. QED
      BY <1>3, <1>9, <3>1, <3>4
  <2>4. CASE q \in Below(to)
    <3>1. Parent(q) = to
      BY <1>3, <2>4, BelowIs
    <3>2. CASE new[q] = Nothing
      BY <3>2, NodeIs
    <3>3. CASE new[q] # Nothing
      <4>1. PICK u \in Below(from) : new[q] = tree[u]
        BY <1>4, <2>4, <3>3
      <4>2. tree[u] # Directory /\ tree[from] = Directory
        BY <1>7, <1>9, <3>3, <4>1
      <4>3. QED
        BY <1>4, <3>1, <4>1, <4>2
    <3>4. QED
      BY <3>2, <3>3
  <2>5. CASE q \notin {from, to} \cup Below(from) \cup Below(to)
    <3>1. new[q] = tree[q] /\ Parent(q) # from /\ Parent(q) # to
      BY <1>4, <2>1, <2>5
    <3>2. Parent(q) \notin Below(from) /\ Parent(q) \notin Below(to)
      BY <2>1 DEF Below
    <3>3. new[Parent(q)] = tree[Parent(q)]
      BY <1>4, <2>1, <3>1, <3>2
    <3>4. QED
      BY <1>9, <1>10, <3>1, <3>3
  <2>6. QED
    BY <2>2, <2>3, <2>4, <2>5
<1>11. QED
  BY <1>6, <1>8, <1>10 DEF TreeFine

LEMMA RenameIs ==
    ASSUME FileInv, NEW t \in FileTask, Rename(t), ~FailFile(t)
    PROVE  /\ Op(t).op = "move" /\ Renames(Op(t).from, Op(t).to) /\ edits' = edits
           /\ tree' = Relocated(Op(t).from, Op(t).to, tree)
           /\ filetask' = [u \in FileTask |->
                   IF u = t THEN [filetask[t] EXCEPT !.at = "done"]
                   ELSE [filetask[u] EXCEPT !.open = IF @ = Op(t).to THEN <<>> ELSE Moved(Op(t).from, Op(t).to, @)]]
  BY DEF Rename, Relocated, CameFrom

\* Where a file that is open is after the move.
Followed(from, to, q) == IF q = to THEN <<>> ELSE Moved(from, to, q)

LEMMA FollowedIs ==
    ASSUME FileInv, NEW t \in FileTask, Op(t).op = "move", Renames(Op(t).from, Op(t).to),
           NEW new, new = Relocated(Op(t).from, Op(t).to, tree)
    PROVE  /\ Followed(Op(t).from, Op(t).to, <<>>) = <<>>
           /\ \A q \in Path : LET p == Followed(Op(t).from, Op(t).to, q) IN
                 /\ p \in Path \cup {<<>>}
                 /\ tree[q].kind = "file" => p = <<>> \/ new[p] = tree[q]
<1>1. PICK from : from = Op(t).from
  OBVIOUS
<1>2. PICK to : to = Op(t).to
  OBVIOUS
<1>3. /\ from \in Path /\ to \in Path /\ from # to /\ to \notin Below(from)
      /\ Len(from) = Len(to) /\ TreeFine(tree)
      /\ \A q \in Below(from) : Append(to, Last(q)) \in Path
  BY <1>1, <1>2, TaskIs, OperationIs
<1>4. /\ new[to] = tree[from] /\ Children(to) = {}
      /\ \A q \in Below(from) : new[Append(to, Last(q))] = tree[q]
      /\ \A q \in Path : q \notin {from, to} \cup Below(from) \cup Below(to) => new[q] = tree[q]
  BY <1>1, <1>2, RelocatedIs
<1>5. Followed(from, to, <<>>) = <<>>
  <2>1. from # <<>> /\ to # <<>> /\ Len(from) \in {1, 2}
    BY <1>3, PathIs, Zenon
  <2>2. ~IsPrefix(from, <<>>)
    <3>1. Len(<<>>) = 0
      OBVIOUS
    <3>2. ~(Len(from) <= Len(<<>>))
      BY <2>1, <3>1
    <3>3. QED
      BY <3>2 DEF IsPrefix
  <2>3. QED
    BY <2>1, <2>2 DEF Followed, Moved
<1>6. ASSUME NEW q \in Path
      PROVE  /\ Followed(from, to, q) \in Path \cup {<<>>}
             /\ tree[q].kind = "file" => Followed(from, to, q) = <<>> \/ new[Followed(from, to, q)] = tree[q]
  <2>1. CASE q = to
    BY <2>1 DEF Followed
  <2>2. CASE q = from
    <3>1. Followed(from, to, q) = to
      BY <1>3, <2>2, MovedIs DEF Followed
    <3>2. QED
      BY <1>3, <1>4, <2>2, <3>1
  <2>3. CASE q \in Below(from)
    <3>1. q # to /\ Len(to) = 1
      BY <1>3, <2>3, BelowIs
    <3>2. Followed(from, to, q) = Append(to, Last(q))
      BY <1>3, <2>3, <3>1, MovedIs DEF Followed
    <3>3. QED
      BY <1>3, <1>4, <2>3, <3>2
  <2>4. CASE q \notin {from, to} \cup Below(from)
    <3>1. Followed(from, to, q) = q
      BY <1>3, <2>4, MovedIs DEF Followed
    <3>2. tree[q].kind = "file" => q \notin Below(to)
      BY <1>4, NodeIs DEF Children, Exists
    <3>3. QED
      BY <1>4, <2>4, <3>1, <3>2
  <2>5. QED
    BY <2>1, <2>2, <2>3, <2>4
<1>7. QED
  BY <1>1, <1>2, <1>5, <1>6

LEMMA RenameKeeps == ASSUME FileInv, NEW t \in FileTask, Rename(t) PROVE FileInv'
<1> SUFFICES ASSUME ~FailFile(t) PROVE FileInv'
  BY FailKeeps
<1>1. PICK from : from = Op(t).from
  OBVIOUS
<1>2. PICK to : to = Op(t).to
  OBVIOUS
<1>3. PICK new : new = Relocated(from, to, tree)
  OBVIOUS
<1>4. /\ Op(t).op = "move" /\ Renames(Op(t).from, Op(t).to) /\ edits' = edits /\ tree' = new
      /\ filetask' = [u \in FileTask |->
              IF u = t THEN [filetask[t] EXCEPT !.at = "done"]
              ELSE [filetask[u] EXCEPT !.open = IF @ = to THEN <<>> ELSE Moved(from, to, @)]]
  BY <1>1, <1>2, <1>3, RenameIs
<1>5. TreeFine(new)
  BY <1>1, <1>2, <1>3, <1>4, RelocatedFine
<1>6. /\ Followed(from, to, <<>>) = <<>>
      /\ \A q \in Path : /\ Followed(from, to, q) \in Path \cup {<<>>}
                         /\ tree[q].kind = "file" =>
                               Followed(from, to, q) = <<>> \/ new[Followed(from, to, q)] = tree[q]
  BY <1>1, <1>2, <1>3, <1>4, FollowedIs
<1>7. ASSUME NEW u \in FileTask
      PROVE  filetask'[u] \in FileJob /\ JobStands(filetask'[u]) /\ ReadsFrom(filetask'[u], new)
  <2>1. PICK i : i = filetask[u]
    OBVIOUS
  <2>2. i \in FileJob /\ JobStands(i) /\ ReadsFrom(i, tree) /\ i.open \in Path \cup {<<>>}
    BY <2>1, TaskIs DEF FileJob
  <2>3. CASE u = t
    <3>1. PICK j : j = [i EXCEPT !.at = "done"]
      BY Zenon
    <3>2. j \in FileJob /\ JobStands(j) /\ j.at = "done"
      BY <2>2, <3>1, EndsWell, Zenon
    <3>3. filetask'[u] = j
      BY <1>4, <2>1, <2>3, <3>1
    <3>4. QED
      BY <3>2, <3>3 DEF ReadsFrom
  <2>4. CASE u # t
    <3>1. PICK place : place = Followed(from, to, i.open)
      OBVIOUS
    <3>2. PICK j : j = [i EXCEPT !.open = place]
      BY Zenon
    <3>3. filetask'[u] = [i EXCEPT !.open = IF i.open = to THEN <<>> ELSE Moved(from, to, i.open)]
      BY <1>4, <2>1, <2>2, <2>4 DEF FileJob
    <3>4. filetask'[u] = j
      BY <3>1, <3>2, <3>3 DEF Followed
    <3>5. place \in Path \cup {<<>>}
      BY <1>6, <2>2, <3>1
    <3>6. /\ j \in FileJob /\ JobStands(j) /\ j.open = place /\ j.at = i.at
          /\ j.data = i.data /\ j.changed = i.changed
      BY <2>2, <3>2, <3>5, OpenElsewhere, Zenon
    <3>7. ReadsFrom(j, new)
      BY <1>6, <2>2, <3>1, <3>6 DEF ReadsFrom
    <3>8. QED
      BY <3>4, <3>6, <3>7
  <2>5. QED
    BY <2>3, <2>4
<1>8. filetask' \in [FileTask -> FileJob]
  BY <1>4, <1>7
<1>9. edits' \in Nat
  BY <1>4 DEF FileInv
<1>10. QED
  BY <1>4, <1>5, <1>7, <1>8, <1>9 DEF FileInv

LEMMA EditFileKeeps == ASSUME FileInv, NEW path \in Path, EditFile(path) PROVE FileInv'
<1>1. edits \in Nat /\ TreeFine(tree) /\ tree[path].kind = "file"
  BY DEF FileInv, EditFile, IsFile
<1>2. PICK node : node = Regular(edits + 1, edits + 1)
  OBVIOUS
<1>3. edits + 1 \in Nat
  BY <1>1
<1>4. node \in WholeFile
  BY <1>2, <1>3 DEF WholeFile
<1>5. node \in WholeNode /\ node.kind = "file" /\ node # Directory /\ tree[path] # Directory /\ tree[path] # Nothing
  BY <1>1, <1>4, NodeIs DEF TreeFine
<1>6. Children(path) = {} /\ (Len(path) = 2 => IsDir(Parent(path)))
  BY <1>1, <1>5, NoChildren DEF TreeFine, IsDir
<1>7. tree' = [tree EXCEPT ![path] = node] /\ edits' \in Nat
  BY <1>2, <1>3 DEF EditFile
<1>8. TreeFine(tree')
  <2>1. PICK new : new = [tree EXCEPT ![path] = node]
    BY Zenon
  <2>2. TreeFine(new)
    BY <1>1, <1>5, <1>6, <2>1, SetTree, Zenon
  <2>3. QED
    BY <1>7, <2>1, <2>2
<1>9. \A q \in Path : tree'[q] = IF q = path THEN node ELSE tree[q]
  BY <1>1, <1>7 DEF TreeFine
<1>10. ASSUME NEW u \in FileTask
       PROVE  filetask'[u] \in FileJob /\ JobStands(filetask'[u]) /\ ReadsFrom(filetask'[u], tree')
  <2>1. PICK i : i = filetask[u]
    OBVIOUS
  <2>2. i \in FileJob /\ JobStands(i) /\ ReadsFrom(i, tree) /\ i.open \in Path \cup {<<>>} /\ i.changed \in BOOLEAN
    BY <2>1, TaskIs DEF FileJob
  <2>3. PICK differs \in BOOLEAN : differs = (i.changed \/ i.open = path)
    BY Zenon
  <2>4. PICK j : j = [i EXCEPT !.changed = differs]
    BY Zenon
  <2>5. filetask'[u] = j
    BY <2>1, <2>2, <2>3, <2>4 DEF EditFile, FileJob
  <2>6. /\ j \in FileJob /\ j.at = i.at /\ j.data = i.data /\ j.op = i.op /\ j.todo = i.todo
        /\ j.entry = i.entry /\ j.open = i.open /\ j.changed = differs /\ j.staged = i.staged
        /\ j.stage = i.stage /\ j.listed = i.listed
    BY <2>2, <2>4 DEF FileJob
  <2>7. JobStands(j)
    BY <2>2, <2>3, <2>6, SameStands
  <2>8. ReadsFrom(j, tree')
    BY <1>5, <1>9, <2>2, <2>3, <2>6, Zenon DEF ReadsFrom
  <2>9. QED
    BY <2>5, <2>6, <2>7, <2>8
<1>11. filetask' \in [FileTask -> FileJob]
  BY <1>10 DEF EditFile
<1>12. QED
  BY <1>7, <1>8, <1>10, <1>11, Zenon DEF FileInv

-----------------------------------------------------------------------------
(* FileTasks: the specification. *)

LEMMA FileStepKeeps == ASSUME FileInv, NEW t \in FileTask, FileStep(t) PROVE FileInv'
<1>1. Declines(t) => FileInv'
  BY FailKeeps DEF Declines
<1>2. Commit(t) => FileInv'
  BY CommitKeeps, CommitStagedKeeps
<1>3. QED
  BY <1>1, <1>2, BeginWriteKeeps, BeginCopyKeeps, BeginTreeKeeps, ListKeeps, NextEntryKeeps, ReadChunkKeeps,
     CompareKeeps, LookAgainKeeps, RenameTreeKeeps, BeginMoveKeeps, RenameKeeps, BeginRemoveKeeps,
     RemoveEntryKeeps, RemoveDirectoryKeeps, MakeKeeps, CancelFileKeeps DEF FileStep

LEMMA FilesStep == ASSUME FileInv, FileNext \/ UNCHANGED fileVars PROVE FileInv'
<1>1. ASSUME UNCHANGED fileVars PROVE FileInv'
  <2>1. UNCHANGED <<tree, filetask, edits>>
    BY <1>1 DEF fileVars
  <2>2. QED
    BY <2>1 DEF FileInv, TreeFine
<1>2. QED
  BY <1>1, FileStepKeeps, EditFileKeeps DEF FileNext

LEMMA WholeFiles == ASSUME FileInv PROVE FilesAreWhole
<1>1. \A path \in Path : tree[path] \in WholeNode
  BY DEF FileInv, TreeFine
<1>2. QED
  BY <1>1, NodeIs DEF FilesAreWhole, IsFile

\* What a step of a task is to the directory: nothing, a file that is written, a
\* tree that appears, a move, a removal, or something new where nothing was.
Looks(t) == tree' = tree
WritesFile(t) == \E path \in Path : \E node : \E place :
    /\ ~filetask[t].staged /\ Set(t, path, node, place)
    /\ Op(t).op \in {"write", "copy", "tree"} /\ (Exists(path) => Op(t).overwrite)
Appears(t) == RenameTree(t) /\ ~FailFile(t)
Disposes(t) == Op(t).op \in {"move", "remove"}
Makes(t) == \E node :
    ~Exists(Op(t).to) /\ Op(t).op \in {"mkdir", "symlink"} /\ Set(t, Op(t).to, node, "done")

LEMMA CommitIs == ASSUME FileInv, NEW t \in FileTask, Commit(t) PROVE Looks(t) \/ WritesFile(t)
<1>1. filetask[t] \in FileJob /\ JobStands(filetask[t]) /\ Op(t) = filetask[t].op /\ filetask[t].at = "commit"
      /\ Op(t) \in Operation
  BY TaskIs DEF Commit
<1>2. Op(t).op \in {"write", "copy", "tree"}
  BY <1>1 DEF JobStands, DoesItsPart
<1>3. CASE filetask[t].staged
  BY <1>3 DEF Commit, FailFile, Look, Looks
<1>4. CASE ~filetask[t].staged
  <2>1. PICK place : CommitAt(t, Target(t), place)
    BY <1>4 DEF Commit
  <2>2. CASE FailFile(t)
    BY <2>2 DEF FailFile, Look, Looks
  <2>3. CASE ~FailFile(t)
    <3>1. Set(t, Target(t), Placed(t), place) /\ (Exists(Target(t)) => Op(t).overwrite)
      BY <2>1, <2>3 DEF CommitAt
    <3>2. Target(t) \in Path
      <4>1. CASE Op(t).op = "tree"
        <5>1. filetask[t].entry \in Below(Op(t).from)
          BY <1>1, <4>1 DEF JobStands, CopiesAll
        <5>2. QED
          BY <1>1, <4>1, <5>1, OperationIs DEF Target
      <4>2. CASE Op(t).op # "tree"
        BY <1>1, <4>2, OperationIs DEF Target
      <4>3. QED
        BY <4>1, <4>2
    <3>3. QED
      BY <1>2, <1>4, <3>1, <3>2 DEF WritesFile
  <2>4. QED
    BY <2>2, <2>3
<1>5. QED
  BY <1>3, <1>4

LEMMA StepIs ==
    ASSUME FileInv, NEW t \in FileTask, FileStep(t)
    PROVE  Looks(t) \/ WritesFile(t) \/ Appears(t) \/ Disposes(t) \/ Makes(t)
<1>1. ASSUME FailFile(t) PROVE Looks(t)
  BY <1>1 DEF FailFile, Look, Looks
<1>2. ASSUME NEW j, Look(t, j) PROVE Looks(t)
  BY <1>2 DEF Look, Looks
<1>3. Declines(t) \/ BeginWrite(t) \/ BeginCopy(t) \/ BeginTree(t) \/ ListEntries(t) => Looks(t)
  BY <1>1, <1>2 DEF Declines, BeginWrite, BeginCopy, BeginTree, ListEntries
<1>4. NextEntry(t) \/ ReadChunk(t) \/ Compare(t) \/ LookAgain(t) \/ CancelFile(t) => Looks(t)
  BY <1>1, <1>2 DEF NextEntry, ReadChunk, Compare, LookAgain, CancelFile
<1>5. BeginMove(t) \/ Rename(t) \/ BeginRemove(t) => Disposes(t)
  BY DEF BeginMove, Rename, BeginRemove, Begins, Disposes
<1>6. RemoveEntry(t) \/ RemoveDirectory(t) => Disposes(t)
  BY TaskIs DEF RemoveEntry, RemoveDirectory, JobStands, DoesItsPart, Disposes
<1>7. RenameTree(t) => Looks(t) \/ Appears(t)
  BY <1>1 DEF Appears
<1>8. Make(t) => Looks(t) \/ Makes(t)
  <2> SUFFICES ASSUME Make(t), ~Looks(t) PROVE Makes(t)
    OBVIOUS
  <2>1. Op(t).op \in {"mkdir", "symlink"}
    BY DEF Make, Begins
  <2>2. PICK node : node = IF Op(t).op = "mkdir" THEN Directory ELSE Link
    OBVIOUS
  <2>3. ~Exists(Op(t).to) /\ Set(t, Op(t).to, node, "done")
    BY <1>1, <1>2, <2>2 DEF Make
  <2>4. QED
    BY <2>1, <2>3 DEF Makes
<1>9. QED
  BY <1>3, <1>4, <1>5, <1>6, <1>7, <1>8, CommitIs DEF FileStep

\* The others stay where they are.
LEMMA OthersStayAt ==
    ASSUME FileInv, NEW t \in FileTask, NEW u \in FileTask, u # t, FileStep(t)
    PROVE  filetask'[u].at = filetask[u].at
<1>1. filetask \in [FileTask -> FileJob] /\ filetask[u] \in FileJob
  BY DEF FileInv
<1>2. ASSUME NEW j, Look(t, j) PROVE filetask'[u].at = filetask[u].at
  BY <1>1, <1>2 DEF Look
<1>3. ASSUME NEW paths, NEW new, NEW j, Change(t, paths, new, j) PROVE filetask'[u].at = filetask[u].at
  <2>1. filetask'[u] = IF filetask[u].open \in paths THEN [filetask[u] EXCEPT !.open = <<>>] ELSE filetask[u]
    BY <1>3 DEF Change
  <2>2. [filetask[u] EXCEPT !.open = <<>>].at = filetask[u].at
    BY <1>1 DEF FileJob
  <2>3. QED
    BY <2>1, <2>2
<1>4. FailFile(t) => filetask'[u].at = filetask[u].at
  BY <1>2 DEF FailFile
<1>5. ASSUME NEW path, NEW node, NEW place, Set(t, path, node, place) PROVE filetask'[u].at = filetask[u].at
  BY <1>3, <1>5 DEF Set
<1>6. Rename(t) => filetask'[u].at = filetask[u].at
  <2> SUFFICES ASSUME Rename(t), ~FailFile(t) PROVE filetask'[u].at = filetask[u].at
    BY <1>4
  <2>1. filetask'[u] = [filetask[u] EXCEPT !.open = IF @ = Op(t).to THEN <<>> ELSE Moved(Op(t).from, Op(t).to, @)]
    BY RenameIs
  <2>2. QED
    BY <1>1, <2>1 DEF FileJob
<1>7. Declines(t) \/ BeginWrite(t) \/ BeginCopy(t) \/ BeginTree(t) \/ ListEntries(t)
      => filetask'[u].at = filetask[u].at
  BY <1>2, <1>4 DEF Declines, BeginWrite, BeginCopy, BeginTree, ListEntries
<1>8. NextEntry(t) \/ ReadChunk(t) \/ Compare(t) \/ LookAgain(t) \/ CancelFile(t) \/ BeginMove(t)
      => filetask'[u].at = filetask[u].at
  BY <1>2, <1>4 DEF NextEntry, ReadChunk, Compare, LookAgain, CancelFile, BeginMove
<1>9. Commit(t) => filetask'[u].at = filetask[u].at
  BY <1>2, <1>4, <1>5 DEF Commit, CommitAt
<1>10. RenameTree(t) => filetask'[u].at = filetask[u].at
  BY <1>3, <1>4 DEF RenameTree
<1>11. BeginRemove(t) \/ RemoveEntry(t) \/ RemoveDirectory(t) \/ Make(t) => filetask'[u].at = filetask[u].at
  BY <1>2, <1>3, <1>4, <1>5 DEF BeginRemove, RemoveEntry, RemoveDirectory, Make
<1>12. QED
  BY <1>6, <1>7, <1>8, <1>9, <1>10, <1>11 DEF FileStep

\* One path changes, if it does.
LEMMA SetChanges ==
    ASSUME FileInv, NEW t \in FileTask, NEW path \in Path, NEW node, NEW place, Set(t, path, node, place)
    PROVE  \A q \in Path : tree'[q] # tree[q] => q = path
<1>1. tree' = [tree EXCEPT ![path] = node] /\ tree \in [Path -> WholeNode]
  BY DEF Set, Change, FileInv, TreeFine
<1>2. QED
  BY <1>1

LEMMA AppearsIs ==
    ASSUME FileInv, NEW t \in FileTask, Appears(t)
    PROVE  /\ filetask'[t].at = "done" /\ tree'[Op(t).to] = Directory /\ Op(t).op = "tree"
           /\ \A e \in filetask[t].stage : tree'[e[1]] = e[2]
           /\ \A q \in Path : Exists(q) => tree'[q] = tree[q]
           /\ \A q \in filetask[t].listed : \E e \in filetask[t].stage : Last(e[1]) = Last(q)
<1>1. /\ filetask[t].at = "rename" /\ Op(t).op = "tree" /\ Children(Op(t).to) = {}
      /\ tree[Op(t).to] \in {Nothing, Directory}
      /\ Change(t, {}, Arrived(filetask[t], tree), [filetask[t] EXCEPT !.at = "done"])
  BY RenameTreeIs DEF Appears
<1>2. tree' = Arrived(filetask[t], tree) /\ filetask'[t] = [filetask[t] EXCEPT !.at = "done"]
  BY <1>1 DEF Change
<1>3. filetask'[t].at = "done"
  BY <1>2, TaskIs, EndsWell
<1>4. PICK new : new = Arrived(filetask[t], tree)
  OBVIOUS
<1>5. /\ new[Op(t).to] = Directory
      /\ \A e \in filetask[t].stage : new[e[1]] = e[2]
      /\ \A q \in Path : q # Op(t).to /\ Exists(q) => new[q] = tree[q]
      /\ \A q \in filetask[t].listed : \E e \in filetask[t].stage : Last(e[1]) = Last(q)
  BY <1>1, <1>4, ArrivedIs
<1>6. \A q \in Path : Exists(q) => new[q] = tree[q]
  BY <1>1, <1>5 DEF Exists
<1>7. tree' = new
  BY <1>2, <1>4
<1>8. QED
  BY <1>1, <1>3, <1>5, <1>6, <1>7

\* An editor moves no task on.
LEMMA EditStays ==
    ASSUME FileInv, NEW path \in Path, EditFile(path), NEW u \in FileTask
    PROVE  filetask'[u].at = filetask[u].at
<1>1. filetask[u] \in FileJob
  BY DEF FileInv
<1>2. filetask'[u] = [filetask[u] EXCEPT !.changed = @ \/ filetask[u].open = path]
  BY DEF EditFile
<1>3. QED
  BY <1>1, <1>2 DEF FileJob

\* The step of a task that goes on is its own.
LEMMA OwnStep ==
    ASSUME FileInv, FileNext, NEW t \in FileTask, filetask'[t].at # filetask[t].at
    PROVE  Looks(t) \/ WritesFile(t) \/ Appears(t) \/ Disposes(t) \/ Makes(t)
<1>1. FileStep(t)
  BY EditStays, OthersStayAt DEF FileNext
<1>2. QED
  BY <1>1, StepIs

LEMMA NothingClobbered == ASSUME FileInv, FileNext PROVE ClobbersNothing
<1> SUFFICES ASSUME NEW t \in FileTask, NEW path \in Path,
                    Op(t).op \in {"write", "copy", "tree", "mkdir", "symlink"},
                    filetask'[t].at # filetask[t].at, Exists(path), tree'[path] # tree[path]
             PROVE  Op(t).op \in {"write", "copy", "tree"} /\ Op(t).overwrite
  BY DEF ClobbersNothing
<1>1. WritesFile(t) \/ Appears(t) \/ Makes(t)
  BY OwnStep DEF Looks, Disposes
<1>2. CASE WritesFile(t)
  BY <1>2, SetChanges DEF WritesFile
<1>3. ~Appears(t)
  BY AppearsIs
<1>4. ~Makes(t)
  <2> SUFFICES ASSUME Makes(t) PROVE FALSE
    OBVIOUS
  <2>1. PICK node : ~Exists(Op(t).to) /\ Set(t, Op(t).to, node, "done")
    BY DEF Makes
  <2>2. Op(t).to \in Path
    BY TaskIs, OperationIs
  <2>3. path = Op(t).to
    BY <2>1, <2>2, SetChanges
  <2>4. QED
    BY <2>1, <2>3
<1>5. QED
  BY <1>1, <1>2, <1>3, <1>4

LEMMA TreesAppear == ASSUME FileInv, FileNext PROVE TreeAppearsWhole
<1> SUFFICES ASSUME NEW t \in FileTask, Op(t).op = "tree", filetask[t].staged, tree' # tree,
                    filetask'[t].at # filetask[t].at
             PROVE  /\ filetask'[t].at = "done" /\ tree'[Op(t).to] = Directory
                    /\ \A q \in filetask[t].listed : \E e \in filetask[t].stage :
                           Last(e[1]) = Last(q) /\ tree'[e[1]] = e[2]
  BY DEF TreeAppearsWhole
<1>1. Appears(t)
  BY OwnStep DEF Looks, WritesFile, Disposes, Makes
<1>2. QED
  BY <1>1, AppearsIs

\* However tasks, an editor and cancellations interleave, every file that can be
\* seen is one version of it, nothing is overwritten that may not be, and a
\* copied tree appears with all that was listed (executor/src/files.rs: write,
\* copy, copy_tree, commit and the renames).
THEOREM FilesStayWhole == FileSpec => []FilesAreWhole /\ [][ClobbersNothing /\ TreeAppearsWhole]_fileVars
<1>1. FileInit => FileInv
  BY FileStart
<1>2. FileInv /\ [FileNext]_fileVars => FileInv'
  BY FilesStep
<1>3. FileInv => FilesAreWhole
  BY WholeFiles
<1>4. FileInv /\ [FileNext]_fileVars => [ClobbersNothing /\ TreeAppearsWhole]_fileVars
  BY NothingClobbered, TreesAppear
<1>5. QED
  BY <1>1, <1>2, <1>3, <1>4, PTL DEF FileSpec

\* So it is in the composition of MCEngine.
THEOREM FilesStayKept == PartsSpec => FilesKept
<1> DEFINE Holds == part = "files" => FileInv
           Safe == part = "files" => FilesAreWhole
           Acts == part = "files" => ClobbersNothing /\ TreeAppearsWhole
<1>1. PartsInit => Holds
  BY FileStart DEF PartsInit
<1>2. Holds /\ [PartsNext]_partsVars => Holds'
  <2> SUFFICES ASSUME Holds, [PartsNext]_partsVars, part' = "files" PROVE FileInv'
    OBVIOUS
  <2>1. part = "files" /\ (FileNext \/ UNCHANGED fileVars)
    BY DEF PartsNext, partsVars
  <2>2. QED
    BY <2>1, FilesStep
<1>3. Holds => Safe
  BY WholeFiles
<1>4. Holds /\ [PartsNext]_partsVars => [Acts]_fileVars
  <2> SUFFICES ASSUME Holds, [PartsNext]_partsVars, part = "files", ~UNCHANGED fileVars
               PROVE  ClobbersNothing /\ TreeAppearsWhole
    OBVIOUS
  <2>1. FileNext
    BY DEF PartsNext, partsVars
  <2>2. QED
    BY <2>1, NothingClobbered, TreesAppear
<1>5. PartsSpec => []Safe /\ [][Acts]_fileVars
  BY <1>1, <1>2, <1>3, <1>4, PTL DEF PartsSpec
<1>6. QED
  BY <1>5 DEF FilesKept

-----------------------------------------------------------------------------
(* LegacyGraph: the order of a chain. *)

VertexKind == {"root", "exec", "tool", "once", "cache", "cd", "asService"}
Vertex == [kind : VertexKind, needs : SUBSET Nat]

\* Every vertex needs earlier ones only.
ChainFine == chain \in Seq(Vertex) /\ \A i \in Legacy!Vertices : chain[i].needs \subseteq 1 .. (i - 1)

LEMMA VerticesAre == ASSUME ChainFine PROVE Len(chain) \in Nat /\ Legacy!Vertices = 1 .. Len(chain)
<1>1. PICK S : S = Vertex
  OBVIOUS
<1>2. Len(chain) \in Nat
  BY <1>1 DEF ChainFine
<1>3. QED
  BY <1>2 DEF Legacy!Vertices

LEMMA FirstGrow ==
    ASSUME NEW f, NEW k \in Nat, NEW l \in Nat, k <= l
    PROVE  /\ Legacy!First(f, k) \subseteq Legacy!First(f, l)
           /\ Legacy!Met(Legacy!First(f, k)) \subseteq Legacy!Met(Legacy!First(f, l))
<1>1. 1 .. k \subseteq 1 .. l
  OBVIOUS
<1>2. Legacy!First(f, k) \subseteq Legacy!First(f, l)
  BY <1>1 DEF Legacy!First
<1>3. QED
  BY <1>2, Zenon DEF Legacy!Met

\* As long as vertices are left, one of them may come next.
LEMMA SomeAreLeft ==
    ASSUME ChainFine, NEW m \in Nat, m < Len(chain), NEW f \in [Legacy!Vertices -> Legacy!Vertices]
    PROVE  \E i \in Legacy!Vertices : i \in Legacy!Met(Legacy!First(f, m)) \ Legacy!First(f, m)
<1> DEFINE V == Legacy!Vertices
           F == Legacy!First(f, m)
           g == [k \in 1 .. m |-> f[k]]
<1>1. V = 1 .. Len(chain) /\ Len(chain) \in Nat
  BY VerticesAre
<1>2. 1 .. m \subseteq V /\ F \subseteq V
  <2>1. 1 .. m \subseteq V
    BY <1>1
  <2>2. QED
    BY <2>1, Zenon DEF Legacy!First
<1>3. V \ F # {}
  <2> SUFFICES ASSUME V \subseteq F PROVE FALSE
    OBVIOUS
  <2>1. \A i \in V : \E k \in 1 .. m : g[k] = i
    BY DEF Legacy!First
  <2>2. g \in [1 .. m -> V]
    BY <1>2
  <2>3. g \in Surjection(1 .. m, V)
    BY <2>1, <2>2, Zenon DEF Surjection
  <2>4. IsFiniteSet(1 .. m) /\ Cardinality(1 .. m) = m
    BY UpToIs
  <2>5. Cardinality(V) <= Cardinality(1 .. m)
    BY <2>3, <2>4, FS_Surjection, Zenon
  <2>6. Cardinality(V) = Len(chain)
    BY <1>1, UpToIs
  <2>7. QED
    BY <1>1, <2>4, <2>5, <2>6
<1>4. V \ F \subseteq Nat
  BY <1>1
<1>5. PICK i \in V \ F : \A j \in V \ F : i <= j
  BY <1>3, <1>4, Least, Zenon
<1>6. \A j \in 1 .. (i - 1) : j \in V /\ ~(i <= j)
  BY <1>1
<1>7. 1 .. (i - 1) \subseteq F
  BY <1>5, <1>6
<1>8. chain[i].needs \subseteq F
  BY <1>7, Zenon DEF ChainFine
<1>9. QED
  BY <1>8 DEF Legacy!Met

LEMMA NextIs ==
    ASSUME ChainFine, NEW m \in Nat, m < Len(chain), NEW f \in [Legacy!Vertices -> Legacy!Vertices]
    PROVE  \E i \in Legacy!Vertices : Legacy!IsNext(f, m, i)
<1> DEFINE V == Legacy!Vertices
           F(k) == Legacy!First(f, k)
           M == Legacy!Met(F(m)) \ F(m)
           W == {k \in 0 .. m : \E j \in M : j \in Legacy!Met(F(k))}
<1>1. V = 1 .. Len(chain) /\ Len(chain) \in Nat
  BY VerticesAre
<1>2. M \subseteq V /\ M # {}
  BY SomeAreLeft DEF Legacy!Met
<1>3. m \in W
  BY <1>2
<1>4. PICK w \in W : \A k \in W : w <= k
  <2>1. W \subseteq Nat
    OBVIOUS
  <2>2. QED
    BY <1>3, <2>1, Least, Zenon
<1> DEFINE J == {j \in M : j \in Legacy!Met(F(w))}
<1>5. J # {} /\ J \subseteq Nat
  BY <1>1, <1>2, <1>4
<1>6. PICK i \in J : \A j \in J : i <= j
  BY <1>5, Least, Zenon
<1>7. ASSUME NEW j \in M
      PROVE  /\ Legacy!Waited(f, m, j) \subseteq Legacy!Waited(f, m, i)
             /\ Legacy!Waited(f, m, j) = Legacy!Waited(f, m, i) => i <= j
  <2>1. ASSUME NEW k \in 0 .. m, j \in Legacy!Met(F(k)) PROVE i \in Legacy!Met(F(k))
    <3>1. k \in W
      BY <1>7, <2>1
    <3>2. w <= k /\ w \in Nat /\ k \in Nat
      BY <3>1, <1>4
    <3>3. QED
      BY <3>2, <1>6, FirstGrow
  <2>2. Legacy!Waited(f, m, j) \subseteq Legacy!Waited(f, m, i)
    BY <2>1, Zenon DEF Legacy!Waited
  <2>3. w \in Legacy!Waited(f, m, i)
    BY <1>4, <1>6, Zenon DEF Legacy!Waited
  <2>4. w \in Legacy!Waited(f, m, j) => j \in J
    BY <1>7, Zenon DEF Legacy!Waited
  <2>5. QED
    BY <1>6, <2>2, <2>3, <2>4
<1>8. i \in M /\ i \in V
  BY <1>2, <1>6
<1>9. QED
  BY <1>7, <1>8, Zenon DEF Legacy!IsNext

\* What comes next depends on what came before only.
LEMMA SameFirst ==
    ASSUME NEW f, NEW g, NEW m \in Nat, \A k \in 1 .. m : f[k] = g[k]
    PROVE  \A i : Legacy!IsNext(f, m, i) <=> Legacy!IsNext(g, m, i)
<1>1. \A k \in 0 .. m : Legacy!First(f, k) = Legacy!First(g, k)
  <2> SUFFICES ASSUME NEW k \in 0 .. m PROVE Legacy!First(f, k) = Legacy!First(g, k)
    OBVIOUS
  <2>1. \A l \in 1 .. k : l \in 1 .. m
    OBVIOUS
  <2>2. QED
    BY <2>1, Zenon DEF Legacy!First
<1>2. \A i : Legacy!Waited(f, m, i) = Legacy!Waited(g, m, i)
  BY <1>1, Zenon DEF Legacy!Waited
<1>3. Legacy!First(f, m) = Legacy!First(g, m)
  BY <1>1
<1>4. QED
  BY <1>2, <1>3, Zenon DEF Legacy!IsNext

Follows(f, m) == \A k \in 1 .. m : Legacy!IsNext(f, k - 1, f[k])

LEMMA OrderStarts == \E f \in [Legacy!Vertices -> Legacy!Vertices] : Follows(f, 0)
<1>1. [i \in Legacy!Vertices |-> i] \in [Legacy!Vertices -> Legacy!Vertices]
  OBVIOUS
<1>2. \A f : Follows(f, 0)
  BY DEF Follows
<1>3. QED
  BY <1>1, <1>2, Zenon

LEMMA OrderGrows ==
    ASSUME ChainFine, NEW m \in Nat, m < Len(chain), NEW f \in [Legacy!Vertices -> Legacy!Vertices], Follows(f, m)
    PROVE  \E g \in [Legacy!Vertices -> Legacy!Vertices] : Follows(g, m + 1)
<1>1. Legacy!Vertices = 1 .. Len(chain) /\ Len(chain) \in Nat
  BY VerticesAre
<1>2. PICK i \in Legacy!Vertices : Legacy!IsNext(f, m, i)
  BY NextIs
<1>3. PICK g : g = [f EXCEPT ![m + 1] = i]
  BY Zenon
<1>4. g \in [Legacy!Vertices -> Legacy!Vertices] /\ g[m + 1] = i /\ \A k \in 1 .. m : g[k] = f[k]
  BY <1>1, <1>3
<1>5. ASSUME NEW k \in 1 .. (m + 1) PROVE Legacy!IsNext(g, k - 1, g[k])
  <2>1. k - 1 \in Nat /\ \A l \in 1 .. (k - 1) : l \in 1 .. m
    OBVIOUS
  <2>2. \A l \in 1 .. (k - 1) : f[l] = g[l]
    BY <1>4, <2>1
  <2>3. \A j : Legacy!IsNext(f, k - 1, j) <=> Legacy!IsNext(g, k - 1, j)
    BY <2>1, <2>2, SameFirst, Zenon
  <2>4. Legacy!IsNext(f, k - 1, g[k])
    <3>1. CASE k = m + 1
      BY <1>2, <1>4, <3>1
    <3>2. CASE k \in 1 .. m
      BY <1>4, <3>2 DEF Follows
    <3>3. QED
      BY <3>1, <3>2
  <2>5. QED
    BY <2>3, <2>4
<1>6. QED
  BY <1>4, <1>5, Zenon DEF Follows

\* The chain has an order: the function that Legacy!ExecutionOrder chooses exists.
LEMMA OrderExists ==
    ASSUME ChainFine
    PROVE  \E f \in [Legacy!Vertices -> Legacy!Vertices] : Follows(f, Len(chain))
<1> DEFINE To(m) == \E f \in [Legacy!Vertices -> Legacy!Vertices] : Follows(f, m)
           T == {m \in 0 .. Len(chain) : ~To(m)}
<1>1. Len(chain) \in Nat
  BY VerticesAre
<1> SUFFICES ASSUME ~To(Len(chain)) PROVE FALSE
  OBVIOUS
<1>2. T # {} /\ T \subseteq Nat
  BY <1>1
<1>3. PICK m \in T : \A k \in T : m <= k
  BY <1>2, Least, Zenon
<1>4. m # 0
  BY <1>3, OrderStarts
<1>5. m - 1 \in Nat /\ m - 1 < Len(chain) /\ m - 1 \in 0 .. Len(chain) /\ ~(m <= m - 1) /\ (m - 1) + 1 = m
  BY <1>1, <1>3, <1>4
<1>6. To(m - 1)
  BY <1>3, <1>5
<1>7. To((m - 1) + 1)
  BY <1>5, <1>6, OrderGrows
<1>8. QED
  BY <1>3, <1>5, <1>7

LEMMA OrderIs ==
    ASSUME ChainFine
    PROVE  /\ Legacy!ExecutionOrder \in [Legacy!Vertices -> Legacy!Vertices]
           /\ \A k \in Legacy!Vertices : Legacy!IsNext(Legacy!ExecutionOrder, k - 1, Legacy!ExecutionOrder[k])
<1>1. Legacy!Vertices = 1 .. Len(chain)
  BY VerticesAre
<1>2. \E f \in [Legacy!Vertices -> Legacy!Vertices] :
         \A k \in Legacy!Vertices : Legacy!IsNext(f, k - 1, f[k])
  BY <1>1, OrderExists DEF Follows
<1>3. QED
  BY <1>2, Zenon DEF Legacy!ExecutionOrder

\* No vertex comes twice.
LEMMA OrderOnce ==
    ASSUME ChainFine, NEW k \in Legacy!Vertices, NEW l \in Legacy!Vertices,
           Legacy!ExecutionOrder[k] = Legacy!ExecutionOrder[l]
    PROVE  k = l
<1>1. Legacy!Vertices = 1 .. Len(chain) /\ Len(chain) \in Nat
  BY VerticesAre
<1>2. ASSUME NEW p \in Legacy!Vertices, NEW q \in Legacy!Vertices, p < q
      PROVE  Legacy!ExecutionOrder[p] # Legacy!ExecutionOrder[q]
  <2>1. Legacy!ExecutionOrder[q] \notin Legacy!First(Legacy!ExecutionOrder, q - 1)
    BY OrderIs, Zenon DEF Legacy!IsNext
  <2>2. p \in 1 .. (q - 1)
    BY <1>1, <1>2
  <2>3. QED
    BY <2>1, <2>2, Zenon DEF Legacy!First
<1>3. k < l \/ l < k \/ k = l
  BY <1>1
<1>4. QED
  BY <1>2, <1>3

LEMMA NothingPrecedesItself == ASSUME ChainFine PROVE \A i : ~Legacy!Precedes(i, i)
<1> SUFFICES ASSUME NEW i, Legacy!Precedes(i, i) PROVE FALSE
  OBVIOUS
<1>1. PICK k, l \in Legacy!Vertices :
         k < l /\ Legacy!ExecutionOrder[k] = i /\ Legacy!ExecutionOrder[l] = i
  BY Zenon DEF Legacy!Precedes
<1>2. k = l
  BY <1>1, OrderOnce
<1>3. k \in Nat
  BY VerticesAre
<1>4. QED
  BY <1>1, <1>2, <1>3

\* Of the members of a set before a vertex one is the last.
LEMMA LastBefore ==
    ASSUME ChainFine, NEW C, NEW i \in C, NEW j, Legacy!Precedes(i, j)
    PROVE  \E c \in C : /\ Legacy!Precedes(c, j)
                        /\ \A d \in C : ~(Legacy!Precedes(c, d) /\ Legacy!Precedes(d, j))
                        /\ i = c \/ Legacy!Precedes(i, c)
<1> DEFINE o == Legacy!ExecutionOrder
           V == Legacy!Vertices
<1>1. V = 1 .. Len(chain) /\ Len(chain) \in Nat
  BY VerticesAre
<1>2. \A k, l \in V : o[k] = o[l] => k = l
  BY OrderOnce
<1>3. PICK k, l \in V : k < l /\ o[k] = i /\ o[l] = j
  BY Zenon DEF Legacy!Precedes
<1> DEFINE K == {p \in V : p < l /\ o[p] \in C}
           T == {n \in 0 .. Len(chain) : l - n \in K}
<1>4. T # {} /\ T \subseteq Nat
  <2>1. k \in K
    BY <1>3
  <2>2. l - k \in 0 .. Len(chain) /\ l - (l - k) = k
    BY <1>1, <1>3
  <2>3. l - k \in T
    BY <2>1, <2>2
  <2>4. QED
    BY <2>3
<1>5. PICK n \in T : \A m \in T : n <= m
  BY <1>4, Least, Zenon
<1>6. PICK p \in K : p = l - n
  BY <1>5
<1>7. p \in V /\ p < l /\ o[p] \in C
  BY <1>6
<1>8. \A q \in K : q <= p
  <2> SUFFICES ASSUME NEW q \in K PROVE q <= p
    OBVIOUS
  <2>1. q \in V /\ q < l
    OBVIOUS
  <2>2. l - q \in 0 .. Len(chain) /\ l - (l - q) = q
    BY <1>1, <2>1
  <2>3. l - q \in T
    BY <2>2
  <2>4. n <= l - q /\ n \in Nat
    BY <1>5, <2>3
  <2>5. QED
    BY <1>1, <1>6, <2>1, <2>4
<1> HIDE DEF o, V, K, T
<1>9. Legacy!Precedes(o[p], j)
  BY <1>3, <1>7, Zenon DEF Legacy!Precedes, o, V
<1>10. ASSUME NEW d \in C, Legacy!Precedes(o[p], d), Legacy!Precedes(d, j) PROVE FALSE
  <2>1. PICK a, b \in V : a < b /\ o[a] = o[p] /\ o[b] = d
    BY <1>10, Zenon DEF Legacy!Precedes, o, V
  <2>2. PICK e, f \in V : e < f /\ o[e] = d /\ o[f] = j
    BY <1>10, Zenon DEF Legacy!Precedes, o, V
  <2>3. a = p /\ b = e /\ f = l
    BY <1>2, <1>3, <1>7, <2>1, <2>2
  <2>4. e \in K
    BY <1>10, <2>2, <2>3 DEF K
  <2>5. e <= p
    BY <1>8, <2>4
  <2>6. QED
    BY <1>1, <2>1, <2>3, <2>5
<1>11. i = o[p] \/ Legacy!Precedes(i, o[p])
  <2>1. k \in K
    BY <1>3 DEF K
  <2>2. k = p \/ k < p
    BY <1>1, <1>7, <1>8, <2>1
  <2>3. QED
    BY <1>3, <1>7, <2>2, Zenon DEF Legacy!Precedes, o, V
<1>12. QED
  BY <1>7, <1>9, <1>10, <1>11

\* A vertex comes after all it depends on.
LEMMA NeedsPrecede ==
    ASSUME ChainFine, NEW a \in Range(Legacy!ExecutionOrder), NEW b \in Legacy!Closure(a), b # a
    PROVE  Legacy!Precedes(b, a)
<1> DEFINE o == Legacy!ExecutionOrder
           V == Legacy!Vertices
<1>1. V = 1 .. Len(chain) /\ Len(chain) \in Nat
  BY VerticesAre
<1>2. o \in [V -> V] /\ \A k \in V : Legacy!IsNext(o, k - 1, o[k])
  BY OrderIs
<1>3. PICK k \in V : o[k] = a
  BY <1>2 DEF Range
<1> DEFINE S == {o[l] : l \in 1 .. k}
<1>4. S \subseteq V /\ a \in S
  <2>1. k \in 1 .. k /\ \A l \in 1 .. k : l \in V
    BY <1>1
  <2>2. \A l \in V : o[l] \in V
    BY <1>2
  <2>3. S \subseteq V
    BY <2>1, <2>2
  <2>4. QED
    BY <1>3, <2>1, <2>3
<1>5. Legacy!Whole(S)
  <2> SUFFICES ASSUME NEW l \in 1 .. k PROVE chain[o[l]].needs \subseteq S
    BY DEF Legacy!Whole
  <2>1. l \in V /\ l - 1 \in Nat /\ \A m \in 1 .. (l - 1) : m \in 1 .. k
    BY <1>1
  <2>2. o[l] \in Legacy!Met(Legacy!First(o, l - 1))
    BY <1>2, <2>1, Zenon DEF Legacy!IsNext
  <2>3. chain[o[l]].needs \subseteq Legacy!First(o, l - 1)
    BY <2>2, Zenon DEF Legacy!Met
  <2>4. Legacy!First(o, l - 1) \subseteq S
    BY <2>1, Zenon DEF Legacy!First
  <2>5. QED
    BY <2>3, <2>4
<1>6. b \in S
  BY <1>4, <1>5, Zenon DEF Legacy!Closure
<1>7. PICK l \in 1 .. k : o[l] = b
  BY <1>6
<1>8. l # k
  BY <1>3, <1>7
<1>9. l \in V /\ l < k
  BY <1>1, <1>8
<1>10. QED
  BY <1>3, <1>7, <1>9, Zenon DEF Legacy!Precedes

\* The order is the chain's.
LEMMA SameChain ==
    ASSUME chain' = chain
    PROVE  /\ \A i, j : Legacy!Precedes(i, j)' <=> Legacy!Precedes(i, j)
           /\ Legacy!ExecutionOrder' = Legacy!ExecutionOrder
           /\ ChainFine => ChainFine'
<1>1. Legacy!Vertices' = Legacy!Vertices
  BY DEF Legacy!Vertices
<1>2. \A done : Legacy!Met(done)' = Legacy!Met(done)
  BY <1>1 DEF Legacy!Met
<1>3. \A f, k, i : Legacy!IsNext(f, k, i)' <=> Legacy!IsNext(f, k, i)
  <2>1. \A f, k : Legacy!First(f, k)' = Legacy!First(f, k)
    BY Zenon DEF Legacy!First
  <2>2. \A f, k : Legacy!Met(Legacy!First(f, k))' = Legacy!Met(Legacy!First(f, k))
    BY <1>1, <2>1 DEF Legacy!Met
  <2>3. \A f, k, i : Legacy!Waited(f, k, i)' = Legacy!Waited(f, k, i)
    BY <2>2, Zenon DEF Legacy!Waited
  <2>4. SUFFICES ASSUME NEW f, NEW k, NEW i PROVE Legacy!IsNext(f, k, i)' <=> Legacy!IsNext(f, k, i)
    OBVIOUS
  <2>5. QED
    BY <2>1, <2>2, <2>3 DEF Legacy!IsNext
<1>4. Legacy!ExecutionOrder' = Legacy!ExecutionOrder
  BY <1>1, <1>3, Zenon DEF Legacy!ExecutionOrder
<1>5. QED
  BY <1>1, <1>4, Zenon DEF Legacy!Precedes, ChainFine

-----------------------------------------------------------------------------
(* LegacyGraph: executions. *)

IsRun(r) == r = [only |-> r.only, code |-> r.code, daemons |-> r.daemons, commands |-> r.commands,
                 finals |-> r.finals, shown |-> r.shown, phase |-> r.phase, status |-> r.status]

\* What an execution is for does not change with what becomes of it.
SameRun(r, q) ==
    /\ IsRun(q) /\ q.only = r.only /\ q.daemons = r.daemons /\ q.commands = r.commands
    /\ q.finals = r.finals


\* The tasks of the two plans of an execution.
Mains == {t \in DOMAIN run.status : t[1] # "final"}
Finals == {t \in DOMAIN run.status : t[1] = "final"}
Every(T, S) == \A t \in T : run.status[t] \in S
Failure(T) == \E t \in T : run.status[t] = "failed"

LegacyTypes ==
    /\ ChainFine /\ services \in Seq(SUBSET Nat)
    /\ enabled \in Seq(Nat) /\ Range(enabled) \subseteq DOMAIN services
    /\ IsRun(run) /\ Range(run.daemons) \subseteq DOMAIN services
    /\ DOMAIN run.status = Legacy!Named("service", Range(run.daemons))
                              \cup Legacy!Named("command", run.commands) \cup Legacy!Named("final", run.finals)
    /\ run.phase \in {"compiled", "broken", "main", "executed", "finalizing", "finals", "finished", "replied"}
    /\ active = IF run.phase \in {"main", "finals"} THEN 1 ELSE 0
    /\ \A t \in DOMAIN run.status : run.status[t] = "ready" => t[1] = "service"

\* A task was given up because the session was cancelled or another one failed.
Excused(T, S) == \A t \in T : run.status[t] \in S => cancelled \/ Failure(T)

\* What the plan of the services and the commands has come to.
MainsFit ==
    /\ run.phase \in {"compiled", "broken"} => Every(Mains, {"pending"})
    /\ run.phase = "main" => Every(Mains, {"pending", "running", "ready", "ok", "failed", "cancelled"})
    /\ run.phase \in {"executed", "finalizing", "finals", "finished"} =>
          Every(Mains, {"ok", "failed", "cancelled", "skipped"})
    /\ run.phase = "replied" => Every(Mains, {"pending", "ok", "failed", "cancelled", "skipped"})
    /\ run.phase # "replied" => Excused(Mains, {"cancelled", "skipped"})

\* What that of the finalizers has come to, which run one at a time: of two that
\* were started, one has ended, and after a failure none is started.
FinalsFit ==
    /\ run.phase \in {"compiled", "broken", "main", "executed", "finalizing"} => Every(Finals, {"pending"})
    /\ run.phase = "finals" =>
          /\ Every(Finals, {"pending", "running", "ok", "failed", "cancelled"})
          /\ \A t, u \in Finals : run.status[t] = "running" /\ run.status[u] \in {"running", "failed"} => t = u
    /\ run.phase = "finished" =>
          \/ Every(Finals, {"pending"}) /\ (Finals = {} \/ cancelled)
          \/ Every(Finals, {"ok", "failed", "cancelled", "skipped"})
    /\ run.phase = "replied" => Every(Finals, {"pending", "ok", "failed", "cancelled", "skipped"})
    /\ run.phase # "replied" =>
          /\ Excused(Finals, {"skipped"})
          /\ \A t \in Finals : run.status[t] = "cancelled" => cancelled

\* A command waits for the services, and for the commands before it.
CommandsFit ==
    /\ run.commands \subseteq Range(Legacy!ExecutionOrder) \/ \E i : run.commands = {i}
    /\ \A i, j \in run.commands :
          Legacy!Precedes(i, j) /\ run.status[<<"command", j>>] \in Legacy!Attempted =>
             run.status[<<"command", i>>] = "ok"
    /\ \A j \in run.commands : \A k \in Range(run.daemons) :
          run.status[<<"command", j>>] \in Legacy!Attempted =>
             run.status[<<"service", k>>] \notin {"pending", "running", "skipped"}

\* Who has been cancelled, and why.
HostFits ==
    /\ host # "serving" \/ ~run.shown => cancelled
    /\ host = "gone" => Legacy!Live = {}

LegacyInv ==
    /\ LegacyTypes /\ MainsFit /\ FinalsFit /\ HostFits
    /\ run.phase # "replied" => CommandsFit
    /\ run.phase = "broken" => ~Legacy!Compiles(run.daemons)
    /\ Legacy!CompletionIsTrue /\ Legacy!CachesAreSaved


LEMMA TasksAre ==
    ASSUME LegacyTypes
    PROVE  /\ \A i \in run.commands : <<"command", i>> \in Mains
           /\ \A k \in Range(run.daemons) : <<"service", k>> \in Mains
           /\ Mains \cup Finals = DOMAIN run.status /\ Mains \cap Finals = {}
           /\ Finals = Legacy!Named("final", run.finals)
           /\ \A t \in Mains : t[1] \in {"command", "service"}
           /\ Legacy!Planned = IF run.phase = "main" THEN Mains ELSE Finals
           /\ run.finals = {} <=> Finals = {}
<1>1. /\ \A i \in run.commands : <<"command", i>> \in DOMAIN run.status /\ <<"command", i>>[1] = "command"
      /\ \A k \in Range(run.daemons) : <<"service", k>> \in DOMAIN run.status /\ <<"service", k>>[1] = "service"
      /\ \A i \in run.finals : <<"final", i>> \in DOMAIN run.status /\ <<"final", i>>[1] = "final"
      /\ \A t \in DOMAIN run.status : \/ t[1] = "service" \/ t[1] = "command"
                                      \/ t[1] = "final" /\ t \in Legacy!Named("final", run.finals)
  BY DEF LegacyTypes, Legacy!Named
<1>2. \A i \in run.commands : <<"command", i>> \in Mains
  BY <1>1, Zenon DEF Mains
<1>3. \A k \in Range(run.daemons) : <<"service", k>> \in Mains
  BY <1>1, Zenon DEF Mains
<1>4. Mains \cup Finals = DOMAIN run.status /\ Mains \cap Finals = {}
  BY DEF Mains, Finals
<1>5. Finals = Legacy!Named("final", run.finals)
  BY <1>1 DEF Finals, Legacy!Named
<1>6. \A t \in Mains : t[1] \in {"command", "service"}
  BY <1>1 DEF Mains
<1>7. Legacy!Planned = IF run.phase = "main" THEN Mains ELSE Finals
  BY DEF Mains, Finals, Legacy!Planned
<1>8. run.finals = {} <=> Finals = {}
  BY <1>5, Zenon DEF Legacy!Named
<1>9. QED
  BY <1>2, <1>3, <1>4, <1>5, <1>6, <1>7, <1>8

\* What only looks at tasks and phases stays as long as these do.
LEMMA SameTasks ==
    ASSUME LegacyTypes, chain' = chain, services' = services, enabled' \in {enabled, <<>>}, SameRun(run, run'),
           DOMAIN run'.status = DOMAIN run.status
    PROVE  /\ Mains' = Mains /\ Finals' = Finals
           /\ (Legacy!Compiles(run.daemons))' <=> Legacy!Compiles(run.daemons)
           /\ (/\ run'.phase \in {"compiled", "broken", "main", "executed", "finalizing", "finals", "finished",
                               "replied"}
               /\ active' = IF run'.phase \in {"main", "finals"} THEN 1 ELSE 0
               /\ \A t \in DOMAIN run.status : run'.status[t] = "ready" => t[1] = "service") => LegacyTypes'
<1>1. Mains' = Mains /\ Finals' = Finals
  BY DEF Mains, Finals
<1>2. (Legacy!Compiles(run.daemons))' <=> Legacy!Compiles(run.daemons)
  BY DEF SameRun, Legacy!Compiles
<1>3. ChainFine'
  BY SameChain DEF LegacyTypes
<1>4. IsRun(run') /\ run'.daemons = run.daemons /\ run'.commands = run.commands /\ run'.finals = run.finals
  BY DEF SameRun
<1>5. ASSUME run'.phase \in {"compiled", "broken", "main", "executed", "finalizing", "finals", "finished",
                              "replied"},
             active' = IF run'.phase \in {"main", "finals"} THEN 1 ELSE 0,
             \A t \in DOMAIN run.status : run'.status[t] = "ready" => t[1] = "service"
      PROVE  LegacyTypes'
  <2>1. Legacy!Named("service", Range(run.daemons))' = Legacy!Named("service", Range(run.daemons))
    BY <1>4 DEF Legacy!Named
  <2>2. Legacy!Named("command", run.commands)' = Legacy!Named("command", run.commands)
    BY <1>4 DEF Legacy!Named
  <2>3. Legacy!Named("final", run.finals)' = Legacy!Named("final", run.finals)
    BY <1>4 DEF Legacy!Named
  <2>4. enabled' \in Seq(Nat) /\ Range(enabled') \subseteq DOMAIN services
    <3>1. <<>> \in Seq(Nat) /\ Range(<<>>) = {}
      BY DEF Range
    <3>2. QED
      BY <3>1, Zenon DEF LegacyTypes
  <2>5. QED
    BY <1>3, <1>4, <1>5, <2>1, <2>2, <2>3, <2>4, Zenon DEF LegacyTypes
<1>6. QED
  BY <1>1, <1>2, <1>5

\* While an execution is under way nothing has been told about it.
LEMMA NotTold == ASSUME run.phase # "replied" PROVE Legacy!CompletionIsTrue /\ Legacy!CachesAreSaved
  BY Zenon DEF Legacy!CompletionIsTrue, Legacy!CachesAreSaved, Legacy!Ended

LEMMA MoveIs ==
    ASSUME LegacyTypes, NEW t \in DOMAIN run.status, NEW s, Legacy!Chained(t, s), Legacy!Executor
    PROVE  /\ SameRun(run, run') /\ run'.shown = run.shown /\ run'.phase = run.phase
           /\ DOMAIN run'.status = DOMAIN run.status /\ run'.status[t] = s
           /\ \A u \in DOMAIN run.status : u # t => run'.status[u] = run.status[u]
           /\ Mains' = Mains /\ Finals' = Finals
           /\ (s = "ready" => t[1] = "service") => LegacyTypes'
           /\ chain' = chain /\ services' = services /\ enabled' = enabled /\ active' = active
           /\ cancelled' = cancelled /\ host' = host
<1>1. /\ chain' = chain /\ services' = services /\ enabled' = enabled /\ active' = active
      /\ cancelled' = cancelled /\ host' = host
  BY DEF Legacy!Executor
<1>2. IsRun(run)
  BY DEF LegacyTypes
<1>3. /\ SameRun(run, run') /\ run'.shown = run.shown /\ run'.phase = run.phase
      /\ run'.status = [run.status EXCEPT ![t] = s]
  <2>1. PICK r : r = run
    OBVIOUS
  <2>2. PICK q : q = run'
    OBVIOUS
  <2>3. q = [r EXCEPT !.status[t] = s] /\ IsRun(r)
    BY <1>2, <2>1, <2>2 DEF Legacy!Chained
  <2>4. /\ SameRun(r, q) /\ q.shown = r.shown /\ q.phase = r.phase
        /\ q.status = [r.status EXCEPT ![t] = s]
    BY <2>3 DEF IsRun, SameRun
  <2>5. QED
    BY <2>1, <2>2, <2>4
<1>4. /\ DOMAIN run'.status = DOMAIN run.status /\ run'.status[t] = s
      /\ \A u \in DOMAIN run.status : u # t => run'.status[u] = run.status[u]
  BY <1>3
<1>5. ASSUME s = "ready" => t[1] = "service" PROVE LegacyTypes'
  <2>1. \A u \in DOMAIN run.status : run'.status[u] = "ready" => u[1] = "service"
    BY <1>4, <1>5 DEF LegacyTypes
  <2>2. /\ active' = IF run'.phase \in {"main", "finals"} THEN 1 ELSE 0
        /\ run'.phase \in {"compiled", "broken", "main", "executed", "finalizing", "finals", "finished", "replied"}
    BY <1>1, <1>3 DEF LegacyTypes
  <2>3. QED
    BY <1>1, <1>3, <1>4, <2>1, <2>2, SameTasks
<1>6. QED
  BY <1>1, <1>3, <1>4, <1>5, SameTasks


\* A task that starts, is ready or ends, in the plan that executes.
LEMMA MoveKeeps ==
    ASSUME LegacyInv, NEW t \in Legacy!Planned, NEW s \in Legacy!Attempted, Legacy!Chained(t, s), Legacy!Executor,
           run.phase \in {"main", "finals"},
           run.status[t] \in IF s = "running" THEN {"pending"} ELSE {"running", "ready"},
           s = "ready" => t[1] = "service",
           s = "cancelled" => cancelled \/ (run.phase = "main" /\ Failure(Mains)),
           s = "running" => ~cancelled,
           s = "running" /\ run.phase = "finals" => Every(Finals, {"pending", "ok", "cancelled"}),
           \A j \in run.commands : s = "running" /\ t = <<"command", j>> =>
              /\ \A i \in run.commands : Legacy!Precedes(i, j) => run.status[<<"command", i>>] = "ok"
              /\ \A k \in Range(run.daemons) : run.status[<<"service", k>>] \notin {"pending", "running", "skipped"}
    PROVE  LegacyInv'
<1>1. LegacyTypes
  BY DEF LegacyInv
<1>2. t \in DOMAIN run.status /\ (IF run.phase = "main" THEN t \in Mains ELSE t \in Finals)
  BY <1>1, TasksAre
<1>3. /\ SameRun(run, run') /\ run'.shown = run.shown /\ run'.phase = run.phase
      /\ DOMAIN run'.status = DOMAIN run.status /\ run'.status[t] = s
      /\ \A u \in DOMAIN run.status : u # t => run'.status[u] = run.status[u]
      /\ Mains' = Mains /\ Finals' = Finals /\ LegacyTypes'
      /\ chain' = chain /\ services' = services
      /\ cancelled' = cancelled /\ host' = host
  BY <1>1, <1>2, MoveIs
<1>4. Mains \subseteq DOMAIN run.status /\ Finals \subseteq DOMAIN run.status /\ Mains \cap Finals = {}
  BY <1>1, TasksAre
<1>5. s \in {"running", "ready", "ok", "failed", "cancelled"} /\ run.status[t] # "failed"
  BY DEF Legacy!Attempted
<1>6. MainsFit'
  <2>1. MainsFit
    BY DEF LegacyInv
  <2>2. CASE run.phase = "main"
    <3>1. Every(Mains, {"pending", "running", "ready", "ok", "failed", "cancelled"})'
      BY <1>3, <1>4, <1>5, <2>1, <2>2 DEF MainsFit, Every
    <3>2. Failure(Mains) => Failure(Mains)'
      BY <1>3, <1>4, <1>5 DEF Failure
    <3>3. Excused(Mains, {"cancelled", "skipped"})'
      BY <1>3, <1>4, <1>5, <2>1, <2>2, <3>2 DEF MainsFit, Excused
    <3>4. QED
      BY <1>3, <2>2, <3>1, <3>3 DEF MainsFit
  <2>3. CASE run.phase = "finals"
    <3>1. \A u \in Mains : run'.status[u] = run.status[u]
      BY <1>2, <1>3, <1>4, <2>3
    <3>2. Every(Mains, {"ok", "failed", "cancelled", "skipped"})'
      BY <1>3, <2>1, <2>3, <3>1 DEF MainsFit, Every
    <3>3. Excused(Mains, {"cancelled", "skipped"})'
      BY <1>3, <2>1, <2>3, <3>1 DEF MainsFit, Excused, Failure
    <3>4. QED
      BY <1>3, <2>3, <3>2, <3>3 DEF MainsFit
  <2>4. QED
    BY <2>2, <2>3
<1>7. FinalsFit'
  <2>1. FinalsFit
    BY DEF LegacyInv
  <2>2. CASE run.phase = "main"
    <3>1. \A u \in Finals : run'.status[u] = run.status[u]
      BY <1>2, <1>3, <1>4, <2>2
    <3>2. Every(Finals, {"pending"})' /\ \A u \in Finals : run'.status[u] = "pending"
      BY <1>3, <2>1, <2>2, <3>1 DEF FinalsFit, Every
    <3>3. QED
      BY <1>3, <2>2, <3>2 DEF FinalsFit, Excused
  <2>3. CASE run.phase = "finals"
    <3>1. s # "ready"
      BY <1>2, <2>3 DEF Finals
    <3>2. Every(Finals, {"pending", "running", "ok", "failed", "cancelled"})'
      BY <1>3, <1>4, <1>5, <2>1, <2>3, <3>1 DEF FinalsFit, Every
    <3>3. ASSUME NEW u \in Finals, NEW w \in Finals, run'.status[u] = "running",
                 run'.status[w] \in {"running", "failed"}
          PROVE  u = w
      <4>1. CASE s = "running"
        <5>1. \A v \in Finals : run.status[v] \notin {"running", "failed"}
          BY <2>3, <4>1 DEF Every
        <5>2. QED
          BY <1>3, <1>4, <3>3, <4>1, <5>1
      <4>2. CASE s # "running"
        <5>1. u # t /\ run.status[u] = "running"
          BY <1>3, <1>4, <3>3, <4>2
        <5>2. run.status[t] # "ready"
          BY <2>1, <2>3, <1>2 DEF FinalsFit, Every
        <5>3. run.status[t] = "running" /\ t \in Finals
          BY <1>2, <2>3, <4>2, <5>2
        <5>4. u = t
          BY <2>1, <2>3, <5>1, <5>3 DEF FinalsFit
        <5>5. QED
          BY <5>1, <5>4
      <4>3. QED
        BY <4>1, <4>2
    <3>4. \A u \in Finals : run'.status[u] = "cancelled" => cancelled
      BY <1>3, <1>4, <2>1, <2>3 DEF FinalsFit
    <3>5. \A u \in Finals : run'.status[u] # "skipped"
      BY <3>2, <1>3 DEF Every
    <3>6. QED
      BY <1>3, <2>3, <3>2, <3>3, <3>4, <3>5 DEF FinalsFit, Excused
  <2>4. QED
    BY <2>2, <2>3
<1>8. HostFits'
  <2>1. HostFits
    BY DEF LegacyInv
  <2>2. host # "gone"
    <3>1. CASE s = "running"
      BY <2>1, <3>1 DEF HostFits
    <3>2. CASE s # "running"
      <4>1. t \in Legacy!Live
        BY <1>2, <3>2 DEF Legacy!Live, Legacy!Status
      <4>2. QED
        BY <2>1, <4>1 DEF HostFits
    <3>3. QED
      BY <3>1, <3>2
  <2>3. QED
    BY <1>3, <2>1, <2>2 DEF HostFits
<1>9. CommandsFit'
  <2>1. CommandsFit
    BY DEF LegacyInv
  <2>2. run'.commands = run.commands /\ run'.daemons = run.daemons
    BY <1>3 DEF SameRun
  <2>3. /\ \A i, j : Legacy!Precedes(i, j)' <=> Legacy!Precedes(i, j)
        /\ Legacy!ExecutionOrder' = Legacy!ExecutionOrder
    BY <1>3, SameChain
  <2>4. /\ \A i \in run.commands : <<"command", i>> \in DOMAIN run.status
        /\ \A k \in Range(run.daemons) : <<"service", k>> \in DOMAIN run.status
    BY <1>1, <1>4, TasksAre
  <2>5. Legacy!Attempted = {"running", "ready", "ok", "failed", "cancelled"}
    BY DEF Legacy!Attempted
  <2>6. ASSUME NEW i \in run.commands, NEW j \in run.commands, Legacy!Precedes(i, j),
               run'.status[<<"command", j>>] \in Legacy!Attempted
        PROVE  run'.status[<<"command", i>>] = "ok"
    <3>1. run.status[<<"command", i>>] = "ok"
      <4>1. CASE s = "running" /\ t = <<"command", j>>
        BY <2>6, <4>1
      <4>2. CASE ~(s = "running" /\ t = <<"command", j>>)
        <5>1. run.status[<<"command", j>>] \in Legacy!Attempted
          BY <1>3, <2>4, <2>5, <2>6, <4>2
        <5>2. QED
          BY <2>1, <2>6, <5>1, Zenon DEF CommandsFit
      <4>3. QED
        BY <4>1, <4>2
    <3>2. t # <<"command", i>>
      BY <3>1
    <3>3. QED
      BY <1>3, <2>4, <3>1, <3>2
  <2>7. ASSUME NEW j \in run.commands, NEW k \in Range(run.daemons),
               run'.status[<<"command", j>>] \in Legacy!Attempted
        PROVE  run'.status[<<"service", k>>] \notin {"pending", "running", "skipped"}
    <3>1. run.status[<<"service", k>>] \notin {"pending", "running", "skipped"}
      <4>1. CASE s = "running" /\ t = <<"command", j>>
        BY <2>7, <4>1
      <4>2. CASE ~(s = "running" /\ t = <<"command", j>>)
        <5>1. run.status[<<"command", j>>] \in Legacy!Attempted
          BY <1>3, <2>4, <2>5, <2>7, <4>2
        <5>2. QED
          BY <2>1, <2>7, <5>1, Zenon DEF CommandsFit
      <4>3. QED
        BY <4>1, <4>2
    <3>2. t = <<"service", k>> => s # "running"
      BY <3>1
    <3>3. QED
      BY <1>3, <1>5, <2>4, <3>1, <3>2
  <2>8. QED
    BY <2>1, <2>2, <2>3, <2>6, <2>7, Zenon DEF CommandsFit
<1>10. Legacy!CompletionIsTrue' /\ Legacy!CachesAreSaved'
  <2>1. run'.phase # "replied"
    BY <1>3
  <2>2. QED
    BY <2>1, Zenon DEF Legacy!CompletionIsTrue, Legacy!CachesAreSaved, Legacy!Ended
<1>11. run'.phase # "broken"
  BY <1>3
<1>12. QED
  BY <1>3, <1>6, <1>7, <1>8, <1>9, <1>10, <1>11, Zenon DEF LegacyInv


LEMMA LiveIs ==
    ASSUME LegacyInv, NEW t \in Legacy!Live
    PROVE  /\ run.phase \in {"main", "finals"} /\ t \in Legacy!Planned /\ t \in DOMAIN run.status
           /\ run.status[t] \in {"running", "ready"}
<1>1. t \in DOMAIN run.status /\ run.status[t] \in {"running", "ready"}
  BY DEF Legacy!Live, Legacy!Status
<1>2. LegacyTypes /\ MainsFit /\ FinalsFit
  BY DEF LegacyInv
<1>3. \/ t \in Mains /\ run.phase = "main"
      \/ t \in Finals /\ run.phase = "finals"
  <2>1. t \in Mains \/ t \in Finals
    BY <1>1, <1>2, TasksAre
  <2>2. t \in Mains => run.phase = "main"
    BY <1>1, <1>2 DEF LegacyTypes, MainsFit, Every
  <2>3. t \in Finals => run.phase = "finals"
    BY <1>1, <1>2, Zenon DEF LegacyTypes, FinalsFit, Every
  <2>4. QED
    BY <2>1, <2>2, <2>3
<1>4. QED
  BY <1>1, <1>2, <1>3, TasksAre

LEMMA StartKeeps == ASSUME LegacyInv, NEW t, Legacy!Start(t) PROVE LegacyInv'
<1>1. LegacyTypes /\ FinalsFit
  BY DEF LegacyInv
<1>2. /\ run.phase \in {"main", "finals"} /\ t \in Legacy!Planned /\ run.status[t] = "pending"
      /\ ~cancelled /\ ~Legacy!Broken /\ Legacy!TaskNeeds(t) \subseteq Legacy!Status("ok") \cup Legacy!Status("ready")
      /\ t[1] # "service" => {u \in Legacy!Status("running") : u[1] # "service"} = {}
      /\ Legacy!Chained(t, "running") /\ Legacy!Executor
  BY DEF Legacy!Start, Legacy!Status, Legacy!Stopping
<1>3. ASSUME run.phase = "finals" PROVE Every(Finals, {"pending", "ok", "cancelled"})
  <2>1. Every(Finals, {"pending", "running", "ok", "failed", "cancelled"})
    BY <1>1, <1>3 DEF FinalsFit
  <2>2. Legacy!Planned = Finals
    BY <1>1, <1>3, TasksAre
  <2>3. \A u \in Finals : run.status[u] # "failed"
    BY <1>2, <2>2 DEF Legacy!Broken, Legacy!Status, Finals
  <2>4. \A u \in Finals : run.status[u] # "running"
    BY <1>2, <2>2 DEF Legacy!Status, Finals
  <2>5. QED
    BY <2>1, <2>3, <2>4 DEF Every
<1>4. ASSUME NEW j \in run.commands, t = <<"command", j>>
      PROVE  /\ \A i \in run.commands : Legacy!Precedes(i, j) => run.status[<<"command", i>>] = "ok"
             /\ \A k \in Range(run.daemons) : run.status[<<"service", k>>] \notin {"pending", "running", "skipped"}
  <2>1. t[1] = "command" /\ t[2] = j
    BY <1>4
  <2>2. Legacy!TaskNeeds(t) = Legacy!Named("service", Range(run.daemons))
                                 \cup Legacy!Named("command", Legacy!Previous(j))
    BY <2>1 DEF Legacy!TaskNeeds, Legacy!Range, Range
  <2>3. \A k \in Range(run.daemons) : run.status[<<"service", k>>] \in {"ok", "ready"}
    <3>1. \A k \in Range(run.daemons) : <<"service", k>> \in Legacy!TaskNeeds(t)
      BY <2>2 DEF Legacy!Named
    <3>2. QED
      BY <1>2, <3>1, Zenon DEF Legacy!Status
  <2>4. \A i \in Legacy!Previous(j) : run.status[<<"command", i>>] = "ok"
    <3>1. \A i \in Legacy!Previous(j) : <<"command", i>> \in Legacy!TaskNeeds(t)
      BY <2>2 DEF Legacy!Named
    <3>2. \A i \in Legacy!Previous(j) : <<"command", i>> \in DOMAIN run.status
                                        /\ run.status[<<"command", i>>] \in {"ok", "ready"}
      BY <1>2, <3>1, Zenon DEF Legacy!Status
    <3>3. \A i \in Legacy!Previous(j) : run.status[<<"command", i>>] # "ready"
      BY <1>1, <3>2, Zenon DEF LegacyTypes
    <3>4. QED
      BY <3>2, <3>3, Zenon
  <2>5. ASSUME NEW i \in run.commands, Legacy!Precedes(i, j) PROVE run.status[<<"command", i>>] = "ok"
    <3>1. ChainFine
      BY <1>1 DEF LegacyTypes
    <3>2. PICK c \in run.commands :
             /\ Legacy!Precedes(c, j)
             /\ \A d \in run.commands : ~(Legacy!Precedes(c, d) /\ Legacy!Precedes(d, j))
             /\ i = c \/ Legacy!Precedes(i, c)
      BY <2>5, <3>1, LastBefore, Zenon
    <3>3. c \in Legacy!Previous(j)
      BY <3>2, Zenon DEF Legacy!Previous
    <3>4. run.status[<<"command", c>>] = "ok"
      BY <2>4, <3>3
    <3>5. CASE i = c
      BY <3>4, <3>5
    <3>6. CASE Legacy!Precedes(i, c)
      <4>1. CommandsFit
        BY <1>2 DEF LegacyInv
      <4>2. run.status[<<"command", c>>] \in Legacy!Attempted
        BY <3>4 DEF Legacy!Attempted
      <4>3. QED
        BY <3>6, <4>1, <4>2, Zenon DEF CommandsFit
    <3>7. QED
      BY <3>2, <3>5, <3>6
  <2>6. QED
    BY <2>3, <2>5
<1>5. "running" \in Legacy!Attempted
  BY DEF Legacy!Attempted
<1>6. QED
  BY <1>2, <1>3, <1>4, <1>5, MoveKeeps

LEMMA ReadyKeeps == ASSUME LegacyInv, NEW t, Legacy!ServiceReady(t) PROVE LegacyInv'
<1>1. /\ t[1] = "service" /\ t \in Legacy!Live /\ Legacy!Chained(t, "ready") /\ Legacy!Executor
  BY DEF Legacy!ServiceReady, Legacy!Live
<1>2. "ready" \in Legacy!Attempted
  BY DEF Legacy!Attempted
<1>3. QED
  BY <1>1, <1>2, LiveIs, MoveKeeps

LEMMA EndOfTaskKeeps ==
    ASSUME LegacyInv, NEW t, NEW s \in {"ok", "failed"}, Legacy!End(t, s)
    PROVE  LegacyInv'
<1>1. t \in Legacy!Live /\ Legacy!Chained(t, s) /\ Legacy!Executor
  BY DEF Legacy!End
<1>2. s \in Legacy!Attempted
  BY DEF Legacy!Attempted
<1>3. QED
  BY <1>1, <1>2, LiveIs, MoveKeeps

LEMMA StopServiceKeeps == ASSUME LegacyInv, NEW t, Legacy!StopService(t) PROVE LegacyInv'
<1>1. t \in Legacy!Live /\ Legacy!Chained(t, "ok") /\ Legacy!Executor
  BY DEF Legacy!StopService
<1>2. "ok" \in Legacy!Attempted
  BY DEF Legacy!Attempted
<1>3. QED
  BY <1>1, <1>2, LiveIs, MoveKeeps

LEMMA KillKeeps == ASSUME LegacyInv, NEW t, Legacy!Kill(t) PROVE LegacyInv'
<1>1. t \in Legacy!Live /\ Legacy!Chained(t, "cancelled") /\ Legacy!Executor /\ (cancelled \/ Legacy!Broken)
  BY DEF Legacy!Kill, Legacy!Stopping
<1>2. "cancelled" \in Legacy!Attempted
  BY DEF Legacy!Attempted
<1>3. /\ run.phase \in {"main", "finals"} /\ t \in Legacy!Planned /\ run.status[t] \in {"running", "ready"}
  BY <1>1, LiveIs
<1>4. LegacyTypes /\ FinalsFit
  BY DEF LegacyInv
<1>5. cancelled \/ (run.phase = "main" /\ Failure(Mains))
  <2>1. CASE run.phase = "main"
    <3>1. Legacy!Planned = Mains
      BY <1>4, <2>1, TasksAre
    <3>2. QED
      BY <1>1, <2>1, <3>1 DEF Legacy!Broken, Legacy!Status, Failure
  <2>2. CASE run.phase = "finals"
    <3> SUFFICES ASSUME Legacy!Broken PROVE FALSE
      BY <1>1
    <3>1. Legacy!Planned = Finals
      BY <1>4, <2>2, TasksAre
    <3>2. PICK u \in Finals : run.status[u] = "failed"
      BY <3>1 DEF Legacy!Broken, Legacy!Status
    <3>3. run.status[t] = "running"
      BY <1>3, <1>4, <2>2, <3>1 DEF FinalsFit, Every
    <3>4. t = u
      BY <1>3, <1>4, <2>2, <3>1, <3>2, <3>3 DEF FinalsFit
    <3>5. QED
      BY <3>2, <3>3, <3>4
  <2>3. QED
    BY <1>3, <2>1, <2>2
<1>6. QED
  BY <1>1, <1>2, <1>3, <1>5, MoveKeeps


\* A step that leaves the status of every task alone.
LEMMA StatusStays ==
    ASSUME LegacyTypes, chain' = chain, services' = services, enabled' \in {enabled, <<>>}, SameRun(run, run'),
           run'.status = run.status, run'.phase \in {"compiled", "broken", "main", "executed", "finalizing",
                                                     "finals", "finished", "replied"},
           active' = IF run'.phase \in {"main", "finals"} THEN 1 ELSE 0
    PROVE  /\ LegacyTypes' /\ Mains' = Mains /\ Finals' = Finals
           /\ (Legacy!Compiles(run.daemons))' <=> Legacy!Compiles(run.daemons)
           /\ \A S : /\ Every(Mains, S)' <=> Every(Mains, S)
                     /\ Every(Finals, S)' <=> Every(Finals, S)
                     /\ (cancelled => cancelled') =>
                           /\ Excused(Mains, S) => Excused(Mains, S)'
                           /\ Excused(Finals, S) => Excused(Finals, S)'
           /\ CommandsFit => CommandsFit'
           /\ Legacy!Live' = Legacy!Live
<1>1. \A t \in DOMAIN run.status : run'.status[t] = "ready" => t[1] = "service"
  BY DEF LegacyTypes
<1>2. LegacyTypes' /\ Mains' = Mains /\ Finals' = Finals
      /\ ((Legacy!Compiles(run.daemons))' <=> Legacy!Compiles(run.daemons))
  BY <1>1, SameTasks
<1>3. \A S : /\ Every(Mains, S)' <=> Every(Mains, S)
             /\ Every(Finals, S)' <=> Every(Finals, S)
  BY <1>2 DEF Every
<1>4. CommandsFit => CommandsFit'
  <2>1. /\ \A i, j : Legacy!Precedes(i, j)' <=> Legacy!Precedes(i, j)
        /\ Legacy!ExecutionOrder' = Legacy!ExecutionOrder
    BY SameChain
  <2>2. run'.commands = run.commands /\ run'.daemons = run.daemons
    BY DEF SameRun
  <2>3. QED
    BY <2>1, <2>2, Zenon DEF CommandsFit, Legacy!Attempted
<1>5. Legacy!Live' = Legacy!Live
  BY DEF Legacy!Live, Legacy!Status
<1>6. \A S : (cancelled => cancelled') =>
                /\ Excused(Mains, S) => Excused(Mains, S)'
                /\ Excused(Finals, S) => Excused(Finals, S)'
  BY <1>2 DEF Excused, Failure
<1>7. QED
  BY <1>2, <1>3, <1>4, <1>5, <1>6


LEMMA EnterKeeps == ASSUME LegacyInv, Legacy!Enter PROVE LegacyInv'
<1>1. /\ run.phase \in {"compiled", "finalizing"} /\ active' = active + 1
      /\ chain' = chain /\ services' = services /\ enabled' = enabled /\ cancelled' = cancelled /\ host' = host
  BY DEF Legacy!Enter
<1>2. LegacyTypes /\ MainsFit /\ FinalsFit /\ HostFits
  BY DEF LegacyInv
<1>3. /\ SameRun(run, run') /\ run'.status = run.status /\ run'.shown = run.shown
      /\ run'.phase = IF run.phase = "compiled" THEN "main" ELSE "finals"
  BY <1>2 DEF Legacy!Enter, LegacyTypes, IsRun, SameRun
<1>4. active' = IF run'.phase \in {"main", "finals"} THEN 1 ELSE 0
  BY <1>1, <1>2, <1>3 DEF LegacyTypes
<1>5. /\ LegacyTypes' /\ Mains' = Mains /\ Finals' = Finals
      /\ \A S : /\ Every(Mains, S)' <=> Every(Mains, S)
                /\ Every(Finals, S)' <=> Every(Finals, S)
                /\ Excused(Mains, S) => Excused(Mains, S)'
                /\ Excused(Finals, S) => Excused(Finals, S)'
      /\ CommandsFit' /\ Legacy!Live' = Legacy!Live
  <2>1. CommandsFit
    BY <1>1 DEF LegacyInv
  <2>2. QED
    BY <1>1, <1>2, <1>3, <1>4, <2>1, StatusStays
<1>6. MainsFit'
  <2>1. Every(Mains, {"pending"}) => Every(Mains, {"pending", "running", "ready", "ok", "failed", "cancelled"})
    BY DEF Every
  <2>2. QED
    BY <1>1, <1>2, <1>3, <1>5, <2>1 DEF MainsFit
<1>7. FinalsFit'
  <2>1. Every(Finals, {"pending"})
    BY <1>1, <1>2 DEF FinalsFit
  <2>2. \A t \in Finals : run'.status[t] = "pending"
    BY <1>3, <2>1 DEF Every
  <2>3. Every(Finals, {"pending", "running", "ok", "failed", "cancelled"})
    BY <2>1 DEF Every
  <2>4. QED
    BY <1>3, <1>5, <2>1, <2>2, <2>3 DEF FinalsFit, Excused
<1>8. HostFits'
  BY <1>1, <1>2, <1>3, <1>5 DEF HostFits
<1>9. run'.phase # "replied" /\ run'.phase # "broken"
  BY <1>3
<1>10. Legacy!CompletionIsTrue' /\ Legacy!CachesAreSaved'
  BY <1>9, Zenon DEF Legacy!CompletionIsTrue, Legacy!CachesAreSaved, Legacy!Ended
<1>11. QED
  BY <1>5, <1>6, <1>7, <1>8, <1>9, <1>10, Zenon DEF LegacyInv

LEMMA FinalizeKeeps == ASSUME LegacyInv, Legacy!Finalize PROVE LegacyInv'
<1>1. /\ run.phase = "executed" /\ active' = active
      /\ chain' = chain /\ services' = services /\ enabled' = enabled /\ cancelled' = cancelled /\ host' = host
  BY DEF Legacy!Finalize, Legacy!Executor
<1>2. LegacyTypes /\ MainsFit /\ FinalsFit /\ HostFits
  BY DEF LegacyInv
<1>3. /\ SameRun(run, run') /\ run'.status = run.status /\ run'.shown = run.shown
      /\ run'.phase = IF run.finals # {} /\ ~cancelled THEN "finalizing" ELSE "finished"
  BY <1>2, Zenon DEF Legacy!Finalize, LegacyTypes, IsRun, SameRun
<1>4. active' = IF run'.phase \in {"main", "finals"} THEN 1 ELSE 0
  BY <1>1, <1>2, <1>3 DEF LegacyTypes
<1>5. /\ LegacyTypes' /\ Mains' = Mains /\ Finals' = Finals
      /\ \A S : /\ Every(Mains, S)' <=> Every(Mains, S)
                /\ Every(Finals, S)' <=> Every(Finals, S)
                /\ Excused(Mains, S) => Excused(Mains, S)'
                /\ Excused(Finals, S) => Excused(Finals, S)'
      /\ CommandsFit' /\ Legacy!Live' = Legacy!Live
  <2>1. CommandsFit
    BY <1>1 DEF LegacyInv
  <2>2. QED
    BY <1>1, <1>2, <1>3, <1>4, <2>1, StatusStays
<1>6. MainsFit'
  BY <1>1, <1>2, <1>3, <1>5 DEF MainsFit
<1>7. FinalsFit'
  <2>1. Every(Finals, {"pending"})
    BY <1>1, <1>2 DEF FinalsFit
  <2>2. \A t \in Finals : run'.status[t] = "pending"
    BY <1>3, <2>1 DEF Every
  <2>3. run'.phase = "finished" => Finals = {} \/ cancelled
    BY <1>2, <1>3, TasksAre
  <2>4. QED
    BY <1>1, <1>3, <1>5, <2>1, <2>2, <2>3 DEF FinalsFit, Excused
<1>8. HostFits'
  BY <1>1, <1>2, <1>3, <1>5 DEF HostFits
<1>9. run'.phase # "replied" /\ run'.phase # "broken"
  BY <1>3
<1>10. Legacy!CompletionIsTrue' /\ Legacy!CachesAreSaved'
  BY <1>9, Zenon DEF Legacy!CompletionIsTrue, Legacy!CachesAreSaved, Legacy!Ended
<1>11. QED
  BY <1>5, <1>6, <1>7, <1>8, <1>9, <1>10, Zenon DEF LegacyInv

LEMMA LeaveKeeps == ASSUME LegacyInv, Legacy!Leave PROVE LegacyInv'
<1>1. /\ run.phase \in {"main", "finals"} /\ Legacy!Planned \cap Legacy!Live = {}
      /\ cancelled \/ Legacy!Broken \/ Legacy!Planned \cap Legacy!Status("pending") = {}
      /\ active' = active - 1 /\ chain' = chain /\ services' = services /\ enabled' = enabled
      /\ cancelled' = cancelled /\ host' = host
  BY DEF Legacy!Leave, Legacy!Stopping
<1>2. LegacyTypes /\ MainsFit /\ FinalsFit /\ HostFits
  BY DEF LegacyInv
<1> DEFINE Skipped == [t \in DOMAIN run.status |->
                          IF t \in Legacy!Planned /\ run.status[t] = "pending" THEN "skipped" ELSE run.status[t]]
<1>3. /\ SameRun(run, run') /\ run'.shown = run.shown
      /\ run'.phase = IF run.phase = "main" THEN "executed" ELSE "finished"
      /\ run'.status = Skipped
  BY <1>2, Zenon DEF Legacy!Leave, LegacyTypes, IsRun, SameRun
<1>4. /\ DOMAIN run'.status = DOMAIN run.status
      /\ \A t \in DOMAIN run.status :
            run'.status[t] = IF t \in Legacy!Planned /\ run.status[t] = "pending" THEN "skipped" ELSE run.status[t]
  BY <1>3
<1> HIDE DEF Skipped
<1>5. /\ Mains \cup Finals = DOMAIN run.status /\ Mains \cap Finals = {}
      /\ Legacy!Planned = IF run.phase = "main" THEN Mains ELSE Finals
  BY <1>2, TasksAre
<1>6. LegacyTypes' /\ Mains' = Mains /\ Finals' = Finals
  <2>1. active' = IF run'.phase \in {"main", "finals"} THEN 1 ELSE 0
    BY <1>1, <1>2, <1>3 DEF LegacyTypes
  <2>2. \A t \in DOMAIN run.status : run'.status[t] = "ready" => t[1] = "service"
    BY <1>2, <1>4 DEF LegacyTypes
  <2>3. QED
    BY <1>1, <1>2, <1>3, <1>4, <2>1, <2>2, SameTasks, Zenon
<1>7. \A t \in Legacy!Planned : run.status[t] \notin {"running", "ready"}
  BY <1>1, <1>5 DEF Legacy!Live, Legacy!Status
<1>8. \A t \in Legacy!Planned : run.status[t] = "pending" => cancelled \/ Failure(Legacy!Planned)
  <2>1. Legacy!Broken => Failure(Legacy!Planned)
    BY DEF Legacy!Broken, Legacy!Status, Failure
  <2>2. \A t \in Legacy!Planned : run.status[t] = "pending" => t \in Legacy!Status("pending")
    BY <1>5 DEF Legacy!Status
  <2>3. QED
    BY <1>1, <2>1, <2>2
<1>9. MainsFit'
  <2>1. CASE run.phase = "main"
    <3>1. Every(Mains, {"ok", "failed", "cancelled", "skipped"})'
      BY <1>2, <1>4, <1>5, <1>6, <1>7, <2>1 DEF MainsFit, Every
    <3>2. Failure(Mains) => Failure(Mains)'
      BY <1>4, <1>5, <1>6 DEF Failure
    <3>3. Excused(Mains, {"cancelled", "skipped"})'
      BY <1>1, <1>2, <1>4, <1>5, <1>6, <1>8, <2>1, <3>2 DEF MainsFit, Excused
    <3>4. QED
      BY <1>3, <2>1, <3>1, <3>3 DEF MainsFit
  <2>2. CASE run.phase = "finals"
    <3>1. \A t \in Mains : run'.status[t] = run.status[t]
      BY <1>4, <1>5, <2>2
    <3>2. Every(Mains, {"ok", "failed", "cancelled", "skipped"})'
      BY <1>2, <1>6, <2>2, <3>1 DEF MainsFit, Every
    <3>3. Excused(Mains, {"cancelled", "skipped"})'
      BY <1>1, <1>2, <1>6, <2>2, <3>1 DEF MainsFit, Excused, Failure
    <3>4. QED
      BY <1>3, <2>2, <3>2, <3>3 DEF MainsFit
  <2>3. QED
    BY <1>1, <2>1, <2>2
<1>10. FinalsFit'
  <2>1. CASE run.phase = "main"
    <3>1. \A t \in Finals : run'.status[t] = "pending"
      BY <1>2, <1>4, <1>5, <2>1 DEF FinalsFit, Every
    <3>2. Every(Finals, {"pending"})'
      BY <1>6, <3>1 DEF Every
    <3>3. QED
      BY <1>3, <1>6, <2>1, <3>1, <3>2 DEF FinalsFit, Excused
  <2>2. CASE run.phase = "finals"
    <3>1. Every(Finals, {"ok", "failed", "cancelled", "skipped"})'
      BY <1>2, <1>4, <1>5, <1>6, <1>7, <2>2 DEF FinalsFit, Every
    <3>2. Failure(Finals) => Failure(Finals)'
      BY <1>4, <1>5, <1>6 DEF Failure
    <3>3. Excused(Finals, {"skipped"})'
      BY <1>1, <1>2, <1>4, <1>5, <1>6, <1>8, <2>2, <3>2 DEF FinalsFit, Excused
    <3>4. \A t \in Finals : run'.status[t] = "cancelled" => cancelled
      BY <1>2, <1>4, <1>5, <2>2 DEF FinalsFit
    <3>5. QED
      BY <1>1, <1>3, <1>6, <2>2, <3>1, <3>3, <3>4 DEF FinalsFit
  <2>3. QED
    BY <1>1, <2>1, <2>2
<1>11. HostFits'
  <2>1. Legacy!Live' \subseteq Legacy!Live
    BY <1>4 DEF Legacy!Live, Legacy!Status
  <2>2. QED
    BY <1>1, <1>2, <1>3, <2>1 DEF HostFits
<1>12. CommandsFit'
  <2>1. CommandsFit
    BY <1>1 DEF LegacyInv
  <2>2. run'.commands = run.commands /\ run'.daemons = run.daemons
    BY <1>3 DEF SameRun
  <2>3. /\ \A i, j : Legacy!Precedes(i, j)' <=> Legacy!Precedes(i, j)
        /\ Legacy!ExecutionOrder' = Legacy!ExecutionOrder
    BY <1>1, SameChain
  <2>4. /\ \A i \in run.commands : <<"command", i>> \in DOMAIN run.status
        /\ \A k \in Range(run.daemons) : <<"service", k>> \in DOMAIN run.status
    BY <1>2, <1>5, TasksAre
  <2>5. \A t \in DOMAIN run.status : /\ run'.status[t] \in Legacy!Attempted => run.status[t] \in Legacy!Attempted
                                     /\ run.status[t] # "pending" => run'.status[t] = run.status[t]
    BY <1>4 DEF Legacy!Attempted
  <2>6. ASSUME NEW i \in run.commands, NEW j \in run.commands, Legacy!Precedes(i, j),
               run'.status[<<"command", j>>] \in Legacy!Attempted
        PROVE  run'.status[<<"command", i>>] = "ok"
    <3>1. run.status[<<"command", j>>] \in Legacy!Attempted
      BY <2>4, <2>5, <2>6
    <3>2. run.status[<<"command", i>>] = "ok"
      BY <2>1, <2>6, <3>1, Zenon DEF CommandsFit
    <3>3. QED
      BY <2>4, <2>5, <3>2
  <2>7. ASSUME NEW j \in run.commands, NEW k \in Range(run.daemons),
               run'.status[<<"command", j>>] \in Legacy!Attempted
        PROVE  run'.status[<<"service", k>>] \notin {"pending", "running", "skipped"}
    <3>1. run.status[<<"command", j>>] \in Legacy!Attempted
      BY <2>4, <2>5, <2>7
    <3>2. run.status[<<"service", k>>] \notin {"pending", "running", "skipped"}
      BY <2>1, <2>7, <3>1, Zenon DEF CommandsFit
    <3>3. QED
      BY <2>4, <2>5, <3>2
  <2>8. QED
    BY <2>1, <2>2, <2>3, <2>6, <2>7, Zenon DEF CommandsFit
<1>13. run'.phase # "replied" /\ run'.phase # "broken"
  BY <1>3
<1>14. Legacy!CompletionIsTrue' /\ Legacy!CachesAreSaved'
  BY <1>13, Zenon DEF Legacy!CompletionIsTrue, Legacy!CachesAreSaved, Legacy!Ended
<1>15. QED
  BY <1>6, <1>9, <1>10, <1>11, <1>12, <1>13, <1>14, Zenon DEF LegacyInv


LEMMA OutcomeIs ==
    ASSUME LegacyTypes
    PROVE  /\ Legacy!Outcome({"command", "service"}) \subseteq {"ok"} <=> Every(Mains, {"ok"})
           /\ \A S : Legacy!Outcome({"final"}) \subseteq S <=> Every(Finals, S)
           /\ Legacy!Outcome({"command", "service", "final"}) \cap {"failed"} # {}
                 <=> Failure(Mains) \/ Failure(Finals)
           /\ "failed" \in Legacy!Outcome({"final"}) <=> Failure(Finals)
           /\ Every(Finals, {"pending"}) /\ Finals # {} => Legacy!Outcome({"final"}) = {"pending"}
<1>1. \A t \in DOMAIN run.status : /\ t[1] \in {"command", "service"} <=> t \in Mains
                                   /\ t[1] \in {"final"} <=> t \in Finals
                                   /\ t[1] \in {"command", "service", "final"}
                                   /\ t \in Mains \/ t \in Finals
  <2>1. \A t \in Mains : t[1] \in {"command", "service"}
    BY TasksAre
  <2>2. QED
    BY <2>1 DEF Mains, Finals
<1>2. Mains \subseteq DOMAIN run.status /\ Finals \subseteq DOMAIN run.status
  BY DEF Mains, Finals
<1>3. Legacy!Outcome({"command", "service"}) = {run.status[t] : t \in Mains}
  BY <1>1, <1>2 DEF Legacy!Outcome
<1>4. Legacy!Outcome({"final"}) = {run.status[t] : t \in Finals}
  BY <1>1, <1>2 DEF Legacy!Outcome
<1>5. Legacy!Outcome({"command", "service", "final"}) = {run.status[t] : t \in DOMAIN run.status}
  BY <1>1 DEF Legacy!Outcome
<1>6. Legacy!Outcome({"command", "service"}) \subseteq {"ok"} <=> Every(Mains, {"ok"})
  BY <1>3 DEF Every
<1>7. \A S : Legacy!Outcome({"final"}) \subseteq S <=> Every(Finals, S)
  BY <1>4 DEF Every
<1>8. Legacy!Outcome({"command", "service", "final"}) \cap {"failed"} # {} <=> Failure(Mains) \/ Failure(Finals)
  BY <1>1, <1>2, <1>5 DEF Failure
<1>9. "failed" \in Legacy!Outcome({"final"}) <=> Failure(Finals)
  BY <1>4 DEF Failure
<1>10. Every(Finals, {"pending"}) /\ Finals # {} => Legacy!Outcome({"final"}) = {"pending"}
  BY <1>4 DEF Every
<1>11. QED
  BY <1>6, <1>7, <1>8, <1>9, <1>10

LEMMA ReplyKeeps == ASSUME LegacyInv, Legacy!Reply PROVE LegacyInv'
<1>1. /\ run.phase \in {"finished", "broken"} /\ active' = active /\ enabled' \in {enabled, <<>>}
      /\ chain' = chain /\ services' = services /\ cancelled' = cancelled /\ host' = host
  BY DEF Legacy!Reply
<1>2. LegacyTypes /\ MainsFit /\ FinalsFit /\ HostFits
  BY DEF LegacyInv
<1>3. /\ SameRun(run, run') /\ run'.status = run.status /\ run'.shown = run.shown
      /\ run'.phase = "replied" /\ run'.code = Legacy!ExitCode
  BY <1>2, Zenon DEF Legacy!Reply, LegacyTypes, IsRun, SameRun
<1>4. active' = IF run'.phase \in {"main", "finals"} THEN 1 ELSE 0
  BY <1>1, <1>2, <1>3 DEF LegacyTypes
<1>5. /\ LegacyTypes' /\ Mains' = Mains /\ Finals' = Finals
      /\ \A S : /\ Every(Mains, S)' <=> Every(Mains, S)
                /\ Every(Finals, S)' <=> Every(Finals, S)
      /\ (Legacy!Compiles(run.daemons))' <=> Legacy!Compiles(run.daemons)
      /\ Legacy!Live' = Legacy!Live
  BY <1>1, <1>2, <1>3, <1>4, StatusStays
<1>6. /\ Every(Mains, {"pending", "ok", "failed", "cancelled", "skipped"})
      /\ Every(Finals, {"pending", "ok", "failed", "cancelled", "skipped"})
  BY <1>1, <1>2 DEF MainsFit, FinalsFit, Every
<1>7. MainsFit' /\ FinalsFit'
  BY <1>3, <1>5, <1>6 DEF MainsFit, FinalsFit
<1>8. HostFits'
  BY <1>1, <1>2, <1>3, <1>5 DEF HostFits
<1>9. run'.daemons = run.daemons /\ \A kinds : Legacy!Outcome(kinds)' = Legacy!Outcome(kinds)
  BY <1>3 DEF SameRun, Legacy!Outcome
<1>10. Legacy!CompletionIsTrue' /\ Legacy!CachesAreSaved'
  <2>1. CASE run.phase = "broken"
    <3>1. ~Legacy!Compiles(run.daemons)' /\ run'.code = 1
      BY <1>3, <1>5, <2>1 DEF LegacyInv, Legacy!ExitCode
    <3>2. Legacy!CompletionIsTrue'
      BY <3>1, Zenon DEF Legacy!CompletionIsTrue
    <3>3. Legacy!CachesAreSaved'
      BY <3>1, Zenon DEF Legacy!CachesAreSaved
    <3>4. QED
      BY <3>2, <3>3
  <2>2. CASE run.phase = "finished"
    <3>1. /\ Every(Mains, {"ok", "failed", "cancelled", "skipped"}) /\ Excused(Mains, {"cancelled", "skipped"})
          /\ \/ Every(Finals, {"pending"}) /\ (Finals = {} \/ cancelled)
             \/ Every(Finals, {"ok", "failed", "cancelled", "skipped"})
          /\ Excused(Finals, {"skipped"}) /\ \A t \in Finals : run.status[t] = "cancelled" => cancelled
      BY <1>2, <2>2 DEF MainsFit, FinalsFit
    <3>2. Legacy!CachesAreSaved'
      <4> SUFFICES ASSUME ~cancelled, NEW t \in Finals
                   PROVE  \/ run'.status[t] \in {"ok", "failed"}
                          \/ run'.status[t] = "skipped" /\ "failed" \in Legacy!Outcome({"final"})
        <5>1. \A t \in DOMAIN run'.status : t[1] = "final" => t \in Finals
          BY <1>3 DEF Finals
        <5>2. QED
          BY <1>1, <1>9, <5>1, Zenon DEF Legacy!CachesAreSaved
      <4>1. Every(Finals, {"ok", "failed", "cancelled", "skipped"})
        BY <3>1
      <4>2. run.status[t] \in {"ok", "failed", "skipped"}
        BY <3>1, <4>1 DEF Every
      <4>3. run.status[t] = "skipped" => Failure(Finals)
        BY <3>1 DEF Excused
      <4>4. QED
        BY <1>2, <1>3, <4>2, <4>3, OutcomeIs
    <3>3. CASE run'.code = 0
      <4>1. Every(Mains, {"ok"}) /\ Every(Finals, {"ok", "pending"})
        BY <1>2, <1>3, <3>3, OutcomeIs DEF Legacy!ExitCode
      <4>2. Every(Finals, {"ok"}) \/ (cancelled /\ Every(Finals, {"pending"}) /\ Finals # {})
        BY <3>1, <4>1 DEF Every
      <4>3. /\ Legacy!Outcome({"command", "service"}) \subseteq {"ok"}
            /\ \/ Legacy!Outcome({"final"}) \subseteq {"ok"}
               \/ cancelled /\ Legacy!Outcome({"final"}) = {"pending"}
        BY <1>2, <4>1, <4>2, OutcomeIs
      <4>4. Legacy!CompletionIsTrue'
        BY <1>1, <1>9, <3>3, <4>3, Zenon DEF Legacy!CompletionIsTrue
      <4>5. QED
        BY <3>2, <4>4
    <3>4. CASE run'.code = 1
      <4>1. ~run.shown => cancelled
        BY <1>2 DEF HostFits
      <4>2. ~Every(Mains, {"ok"}) => cancelled \/ Failure(Mains)
        BY <3>1 DEF Every, Excused, Failure
      <4>3. ~Every(Finals, {"ok", "pending"}) => cancelled \/ Failure(Finals)
        BY <3>1 DEF Every, Excused, Failure
      <4>4. ~run.shown \/ ~Every(Mains, {"ok"}) \/ ~Every(Finals, {"ok", "pending"})
        BY <1>2, <1>3, <2>2, <3>4, OutcomeIs DEF Legacy!ExitCode
      <4>5. ~cancelled => Legacy!Outcome({"command", "service", "final"}) \cap {"failed"} # {}
        BY <1>2, <4>1, <4>2, <4>3, <4>4, OutcomeIs
      <4>6. Legacy!CompletionIsTrue'
        BY <1>1, <1>9, <3>4, <4>5, Zenon DEF Legacy!CompletionIsTrue
      <4>7. QED
        BY <3>2, <4>6
    <3>5. run'.code \in {0, 1}
      BY <1>3 DEF Legacy!ExitCode
    <3>6. QED
      BY <3>3, <3>4, <3>5
  <2>3. QED
    BY <1>1, <2>1, <2>2
<1>11. QED
  BY <1>3, <1>5, <1>7, <1>8, <1>10, Zenon DEF LegacyInv

LEMMA DisplayFailsKeeps == ASSUME LegacyInv, Legacy!DisplayFails PROVE LegacyInv'
<1>1. /\ run.phase \in {"main", "finals"} /\ active' = active /\ enabled' = enabled
      /\ chain' = chain /\ services' = services /\ cancelled' = TRUE /\ host' = host
  BY DEF Legacy!DisplayFails
<1>2. LegacyTypes /\ MainsFit /\ FinalsFit /\ HostFits
  BY DEF LegacyInv
<1>3. /\ SameRun(run, run') /\ run'.status = run.status /\ run'.shown = FALSE
      /\ run'.phase = run.phase
  BY <1>2, Zenon DEF Legacy!DisplayFails, LegacyTypes, IsRun, SameRun
<1>4. active' = IF run'.phase \in {"main", "finals"} THEN 1 ELSE 0
  BY <1>1, <1>2, <1>3 DEF LegacyTypes
<1>5. /\ LegacyTypes' /\ Mains' = Mains /\ Finals' = Finals
      /\ \A S : /\ Every(Mains, S)' <=> Every(Mains, S)
                /\ Every(Finals, S)' <=> Every(Finals, S)
                /\ Excused(Mains, S) => Excused(Mains, S)'
                /\ Excused(Finals, S) => Excused(Finals, S)'
      /\ CommandsFit' /\ Legacy!Live' = Legacy!Live
  <2>1. CommandsFit /\ run.phase \in {"compiled", "broken", "main", "executed", "finalizing", "finals",
                                      "finished", "replied"}
    BY <1>1 DEF LegacyInv
  <2>2. QED
    BY <1>1, <1>2, <1>3, <1>4, <2>1, StatusStays
<1>6. MainsFit'
  BY <1>1, <1>2, <1>3, <1>5 DEF MainsFit
<1>7. FinalsFit'
  BY <1>1, <1>2, <1>3, <1>5 DEF FinalsFit
<1>8. HostFits'
  BY <1>1, <1>2, <1>3, <1>5 DEF HostFits
<1>9. run'.phase # "replied" /\ run'.phase # "broken"
  BY <1>1, <1>3
<1>10. Legacy!CompletionIsTrue' /\ Legacy!CachesAreSaved'
  BY <1>9, Zenon DEF Legacy!CompletionIsTrue, Legacy!CachesAreSaved, Legacy!Ended
<1>11. QED
  BY <1>5, <1>6, <1>7, <1>8, <1>9, <1>10, Zenon DEF LegacyInv


\* What was told stays true while no execution follows, services are registered
\* and the session is cancelled.
LEMMA RunStays ==
    ASSUME LegacyInv, run' = run, executions' = executions, active' = active, cancelled => cancelled',
           ChainFine', run.phase # "replied" => chain' = chain,
           services' \in Seq(SUBSET Nat), enabled' \in Seq(Nat), Range(enabled') \subseteq DOMAIN services',
           DOMAIN services \subseteq DOMAIN services', \A k \in DOMAIN services : services'[k] = services[k],
           HostFits'
    PROVE  LegacyInv'
<1>1. LegacyTypes /\ MainsFit /\ FinalsFit
  BY DEF LegacyInv
<1>2. Mains' = Mains /\ Finals' = Finals
  BY DEF Mains, Finals
<1>3. /\ Legacy!Named("service", Range(run.daemons))' = Legacy!Named("service", Range(run.daemons))
      /\ Legacy!Named("command", run.commands)' = Legacy!Named("command", run.commands)
      /\ Legacy!Named("final", run.finals)' = Legacy!Named("final", run.finals)
  BY DEF Legacy!Named
<1>4. LegacyTypes'
  <2>1. Range(run.daemons) \subseteq DOMAIN services'
    BY <1>1 DEF LegacyTypes
  <2>2. QED
    BY <1>1, <1>3, <2>1, Zenon DEF LegacyTypes
<1>5. MainsFit'
  BY <1>1, <1>2 DEF MainsFit, Every, Excused, Failure
<1>6. FinalsFit'
  BY <1>1, <1>2 DEF FinalsFit, Every, Excused, Failure
<1>7. run.phase # "replied" => CommandsFit'
  <2> SUFFICES ASSUME run.phase # "replied" PROVE CommandsFit'
    OBVIOUS
  <2>1. CommandsFit
    BY DEF LegacyInv
  <2>2. /\ \A i, j : Legacy!Precedes(i, j)' <=> Legacy!Precedes(i, j)
        /\ Legacy!ExecutionOrder' = Legacy!ExecutionOrder
    BY SameChain
  <2>3. QED
    BY <2>1, <2>2, Zenon DEF CommandsFit, Legacy!Attempted
<1>8. (Legacy!Compiles(run.daemons))' <=> Legacy!Compiles(run.daemons)
  <2>1. Range(run.daemons) \subseteq DOMAIN services /\ Legacy!Range(run.daemons) = Range(run.daemons)
    BY <1>1 DEF LegacyTypes, Legacy!Range, Range
  <2>2. \A k \in Legacy!Range(run.daemons) : services'[k] = services[k]
    BY <2>1
  <2>3. QED
    BY <2>2, Zenon DEF Legacy!Compiles
<1>9. \A kinds : Legacy!Outcome(kinds)' = Legacy!Outcome(kinds)
  BY DEF Legacy!Outcome
<1>10. Legacy!Ended' <=> Legacy!Ended
  BY DEF Legacy!Ended
<1>11. Legacy!CompletionIsTrue'
  <2>1. Legacy!CompletionIsTrue
    BY DEF LegacyInv
  <2>2. QED
    BY <1>8, <1>9, <1>10, <2>1, Zenon DEF Legacy!CompletionIsTrue
<1>12. Legacy!CachesAreSaved'
  <2>1. Legacy!CachesAreSaved
    BY DEF LegacyInv
  <2>2. QED
    BY <1>8, <1>9, <1>10, <2>1, Zenon DEF Legacy!CachesAreSaved
<1>13. run.phase = "broken" => ~Legacy!Compiles(run.daemons)'
  BY <1>8 DEF LegacyInv
<1>14. QED
  BY <1>4, <1>5, <1>6, <1>7, <1>11, <1>12, <1>13, Zenon DEF LegacyInv

LEMMA HostKeeps ==
    ASSUME LegacyInv,
           Legacy!Cancel \/ Legacy!ScriptEnds \/ Legacy!WaitIdle \/ UNCHANGED legacyVars
    PROVE  LegacyInv'
<1>1. /\ chain' = chain /\ services' = services /\ enabled' = enabled /\ run' = run
      /\ executions' = executions /\ active' = active
      /\ cancelled => cancelled'
      /\ host' # "serving" => cancelled' \/ host' = host \/ Legacy!WaitIdle
      /\ host' = "gone" => host = "gone" \/ (active = 0 /\ host = "draining")
  BY DEF Legacy!Cancel, Legacy!ScriptEnds, Legacy!WaitIdle, legacyVars
<1>2. LegacyTypes /\ HostFits
  BY DEF LegacyInv
<1>3. Legacy!Live' = Legacy!Live
  BY <1>1 DEF Legacy!Live, Legacy!Status
<1>4. active = 0 => Legacy!Live = {}
  <2>1. active = 0 => run.phase \notin {"main", "finals"}
    BY <1>2 DEF LegacyTypes
  <2>2. QED
    BY <2>1, LiveIs
<1>5. HostFits'
  <2>1. host = "draining" => cancelled
    BY <1>2 DEF HostFits
  <2>2. Legacy!WaitIdle => host = "draining"
    BY DEF Legacy!WaitIdle
  <2>3. host' # "serving" \/ ~run'.shown => cancelled'
    BY <1>1, <1>2, <2>1, <2>2, Zenon DEF HostFits
  <2>4. host' = "gone" => Legacy!Live' = {}
    BY <1>1, <1>2, <1>3, <1>4 DEF HostFits
  <2>5. QED
    BY <2>3, <2>4 DEF HostFits
<1>6. ChainFine'
  BY <1>1, <1>2, SameChain DEF LegacyTypes
<1>7. services \in Seq(SUBSET Nat) /\ enabled \in Seq(Nat) /\ Range(enabled) \subseteq DOMAIN services
  BY <1>2 DEF LegacyTypes
<1>8. /\ services' \in Seq(SUBSET Nat) /\ enabled' \in Seq(Nat) /\ Range(enabled') \subseteq DOMAIN services'
      /\ DOMAIN services \subseteq DOMAIN services' /\ \A k \in DOMAIN services : services'[k] = services[k]
  BY <1>1, <1>7, Zenon
<1>9. QED
  BY <1>1, <1>5, <1>6, <1>8, RunStays, Zenon

LEMMA ChainGrows ==
    ASSUME ChainFine, NEW kind \in VertexKind, NEW Need \in SUBSET (1 .. Len(chain)),
           chain' = Append(chain, [kind |-> kind, needs |-> Need])
    PROVE  ChainFine'
<1>1. PICK S : S = Vertex
  OBVIOUS
<1>2. PICK v : v = [kind |-> kind, needs |-> Need]
  OBVIOUS
<1>3. v \in S /\ v.needs = Need
  <2>1. Need \subseteq Nat
    BY VerticesAre
  <2>2. QED
    BY <1>1, <1>2, <2>1 DEF Vertex
<1>4. chain \in Seq(S) /\ \A i \in 1 .. Len(chain) : chain[i].needs \subseteq 1 .. (i - 1)
  BY <1>1, VerticesAre DEF ChainFine
<1>5. /\ Append(chain, v) \in Seq(S) /\ Len(Append(chain, v)) = Len(chain) + 1 /\ Len(chain) \in Nat
      /\ \A i \in 1 .. Len(chain) : Append(chain, v)[i] = chain[i]
      /\ Append(chain, v)[Len(chain) + 1] = v
  BY <1>3, <1>4
<1>6. PICK c : c = chain'
  OBVIOUS
<1>7. /\ c \in Seq(S) /\ Len(c) = Len(chain) + 1
      /\ \A i \in 1 .. Len(chain) : c[i] = chain[i]
      /\ c[Len(chain) + 1] = v
  BY <1>2, <1>5, <1>6
<1>8. \A i \in 1 .. Len(c) : c[i].needs \subseteq 1 .. (i - 1)
  <2> SUFFICES ASSUME NEW i \in 1 .. Len(c) PROVE c[i].needs \subseteq 1 .. (i - 1)
    OBVIOUS
  <2>1. CASE i \in 1 .. Len(chain)
    BY <1>4, <1>7, <2>1, Zenon
  <2>2. CASE i = Len(chain) + 1
    <3>1. i - 1 = Len(chain)
      BY <1>5, <2>2
    <3>2. QED
      BY <1>3, <1>7, <2>2, <3>1, Zenon
  <2>3. QED
    BY <1>5, <1>7, <2>1, <2>2
<1>9. Legacy!Vertices' = 1 .. Len(c)
  BY <1>6 DEF Legacy!Vertices
<1>10. QED
  BY <1>1, <1>6, <1>7, <1>8, <1>9, Zenon DEF ChainFine

\* The needs of a vertex that is linked to the chain.
LEMMA BeforeIs ==
    ASSUME ChainFine, chain # <<>>, NEW kind, NEW Need \in Legacy!Before(kind)
    PROVE  Need \in SUBSET (1 .. Len(chain))
<1>1. PICK S : S = Vertex
  OBVIOUS
<1>2. chain \in Seq(S)
  BY <1>1 DEF ChainFine
<1>3. Len(chain) \in Nat /\ Len(chain) # 0
  BY <1>2
<1>4. Need \in {{Len(chain)}, {}, {1}}
  BY DEF Legacy!Before
<1>5. QED
  BY <1>3, <1>4


\* A call that adds a vertex or starts the chain over, registers a service or
\* enables one, without an execution.
LEMMA GrowKeeps ==
    ASSUME LegacyInv, ChainFine', run' = run, executions' = executions, cancelled' = cancelled, active' = active,
           host' = host, Legacy!Begun,
           \/ services' = services
           \/ \E S \in SUBSET Nat : services' = Append(services, S),
           \/ enabled' = enabled
           \/ \E k \in DOMAIN services : enabled' = Append(enabled, k)
    PROVE  LegacyInv'
<1>1. LegacyTypes /\ HostFits /\ run.phase = "replied"
  BY DEF LegacyInv, Legacy!Begun, Legacy!Idle
<1>2. services \in Seq(SUBSET Nat) /\ enabled \in Seq(Nat) /\ Range(enabled) \subseteq DOMAIN services
  BY <1>1 DEF LegacyTypes
<1>3. /\ services' \in Seq(SUBSET Nat) /\ DOMAIN services \subseteq DOMAIN services'
      /\ \A k \in DOMAIN services : services'[k] = services[k]
  <2>1. PICK T : T = SUBSET Nat
    BY Zenon
  <2>2. services \in Seq(T)
    BY <1>2, <2>1
  <2>3. ASSUME NEW S \in T, services' = Append(services, S)
        PROVE  /\ services' \in Seq(T) /\ DOMAIN services \subseteq DOMAIN services'
               /\ \A k \in DOMAIN services : services'[k] = services[k]
    BY <2>2, <2>3
  <2>4. QED
    BY <2>1, <2>2, <2>3
<1>4. enabled' \in Seq(Nat) /\ Range(enabled') \subseteq DOMAIN services
  <2>1. ASSUME NEW k \in DOMAIN services, enabled' = Append(enabled, k)
        PROVE  enabled' \in Seq(Nat) /\ Range(enabled') \subseteq DOMAIN services
    <3>1. k \in Nat
      <4>1. PICK T : T = SUBSET Nat
        BY Zenon
      <4>2. services \in Seq(T)
        BY <1>2, <4>1
      <4>3. DOMAIN services = 1 .. Len(services) /\ Len(services) \in Nat
        BY <4>2
      <4>4. QED
        BY <4>3
    <3>2. PICK T : T = Nat
      BY Zenon
    <3>3. enabled \in Seq(T) /\ k \in T
      BY <1>2, <3>1, <3>2
    <3>4. /\ Append(enabled, k) \in Seq(T) /\ DOMAIN Append(enabled, k) = 1 .. Len(enabled) + 1
          /\ DOMAIN enabled = 1 .. Len(enabled) /\ Len(enabled) \in Nat
          /\ \A i \in 1 .. Len(enabled) : Append(enabled, k)[i] = enabled[i]
          /\ Append(enabled, k)[Len(enabled) + 1] = k
      BY <3>3
    <3>5. \A i \in DOMAIN Append(enabled, k) : Append(enabled, k)[i] \in DOMAIN services
      BY <1>2, <3>4 DEF Range
    <3>6. QED
      BY <2>1, <3>2, <3>4, <3>5, Zenon DEF Range
  <2>2. QED
    BY <1>2, <2>1
<1>5. HostFits'
  BY <1>1 DEF HostFits, Legacy!Live, Legacy!Status
<1>6. QED
  BY <1>1, <1>3, <1>4, <1>5, RunStays

\* A call that executes one vertex or the whole chain.
LEMMA ExecuteKeeps ==
    ASSUME LegacyInv, ChainFine', NEW only, NEW commands, NEW daemons, NEW finals,
           Legacy!Execute(only, commands, daemons, finals), Legacy!Begun,
           services' = services, enabled' = enabled, cancelled' = cancelled, active' = active, host' = host,
           Range(daemons) \subseteq DOMAIN services,
           (commands \subseteq Range(Legacy!ExecutionOrder)') \/ \E i : commands = {i}
    PROVE  LegacyInv'
<1>1. LegacyTypes /\ HostFits /\ run.phase = "replied" /\ host = "serving"
  BY DEF LegacyInv, Legacy!Begun, Legacy!Idle
<1> DEFINE T == Legacy!Named("service", Range(daemons)) \cup Legacy!Named("command", commands)
                   \cup Legacy!Named("final", finals)
<1>2. Legacy!Range(daemons) = Range(daemons)
  BY DEF Legacy!Range, Range
<1>3. run' = [only |-> only, code |-> -1, daemons |-> daemons, commands |-> commands,
              finals |-> finals, shown |-> TRUE,
              phase |-> IF Legacy!Compiles(daemons) THEN "compiled" ELSE "broken",
              status |-> [t \in T |-> "pending"]]
  BY <1>2, Zenon DEF Legacy!Execute
<1>4. /\ IsRun(run') /\ run'.daemons = daemons /\ run'.commands = commands /\ run'.finals = finals
      /\ run'.shown = TRUE /\ run'.phase = IF Legacy!Compiles(daemons) THEN "compiled" ELSE "broken"
      /\ run'.status = [t \in T |-> "pending"]
  BY <1>3 DEF IsRun
<1>5. DOMAIN run'.status = T /\ \A t \in T : run'.status[t] = "pending"
  BY <1>4
<1> HIDE DEF T
<1>6. LegacyTypes'
  <2>1. active' = IF run'.phase \in {"main", "finals"} THEN 1 ELSE 0
    BY <1>1, <1>4 DEF LegacyTypes
  <2>2. \A t \in DOMAIN run'.status : run'.status[t] = "ready" => t[1] = "service"
    BY <1>5
  <2>3. DOMAIN run'.status = (Legacy!Named("service", Range(run.daemons))
                              \cup Legacy!Named("command", run.commands) \cup Legacy!Named("final", run.finals))'
    BY <1>4, <1>5 DEF Legacy!Named, T
  <2>4. run'.phase \in {"compiled", "broken", "main", "executed", "finalizing", "finals", "finished", "replied"}
    BY <1>4
  <2>5. /\ services' \in Seq(SUBSET Nat) /\ enabled' \in Seq(Nat) /\ Range(enabled') \subseteq DOMAIN services'
        /\ Range(run'.daemons) \subseteq DOMAIN services'
    BY <1>1, <1>4, Zenon DEF LegacyTypes
  <2>6. QED
    BY <1>4, <2>1, <2>2, <2>3, <2>4, <2>5, Zenon DEF LegacyTypes
<1>7. Mains' \cup Finals' \subseteq DOMAIN run'.status
  BY DEF Mains, Finals
<1>8. MainsFit' /\ FinalsFit'
  <2>1. (\A t \in Mains : run.status[t] = "pending")' /\ (\A t \in Finals : run.status[t] = "pending")'
    BY <1>5, <1>7
  <2>2. Every(Mains, {"pending"})' /\ Every(Finals, {"pending"})'
    BY <2>1 DEF Every
  <2>3. Excused(Mains, {"cancelled", "skipped"})' /\ Excused(Finals, {"skipped"})'
    BY <2>1 DEF Excused
  <2>4. run'.phase \in {"compiled", "broken"}
    BY <1>4
  <2>5. QED
    BY <2>1, <2>2, <2>3, <2>4 DEF MainsFit, FinalsFit
<1>9. HostFits'
  BY <1>1, <1>4 DEF HostFits
<1>10. CommandsFit'
  <2>1. \A i \in commands : <<"command", i>> \in T
    BY DEF T, Legacy!Named
  <2>2. \A i \in commands : run'.status[<<"command", i>>] \notin Legacy!Attempted
    BY <1>5, <2>1, Zenon DEF Legacy!Attempted
  <2>3. Legacy!Attempted' = Legacy!Attempted
    BY DEF Legacy!Attempted
  <2>4. (run.commands \subseteq Range(Legacy!ExecutionOrder) \/ \E i : run.commands = {i})'
    BY <1>4
  <2>5. QED
    BY <1>4, <2>2, <2>3, <2>4, Zenon DEF CommandsFit
<1>11. run'.phase = "broken" => ~Legacy!Compiles(run.daemons)'
  <2>1. (Legacy!Compiles(run.daemons))' <=> Legacy!Compiles(daemons)
    BY <1>4, Zenon DEF Legacy!Compiles
  <2>2. QED
    BY <1>4, <2>1
<1>12. run'.phase # "replied"
  BY <1>4
<1>13. Legacy!CompletionIsTrue' /\ Legacy!CachesAreSaved'
  BY <1>12, Zenon DEF Legacy!CompletionIsTrue, Legacy!CachesAreSaved, Legacy!Ended
<1>14. QED
  BY <1>6, <1>8, <1>9, <1>10, <1>11, <1>13, Zenon DEF LegacyInv

LEMMA CallKeeps == ASSUME LegacyInv, NEW kind \in VertexKind, Legacy!Append1(kind) PROVE LegacyInv'
<1>1. PICK Need \in Legacy!Before(kind) : Legacy!Grow(kind, Need)
  BY Zenon DEF Legacy!Append1
<1>2. /\ Legacy!Begun /\ chain # <<>> /\ chain' = Append(chain, [kind |-> kind, needs |-> Need])
      /\ services' = services /\ enabled' = enabled /\ cancelled' = cancelled /\ active' = active /\ host' = host
  BY <1>1, Zenon DEF Legacy!Append1, Legacy!Grow
<1>3. LegacyTypes
  BY DEF LegacyInv
<1>4. ChainFine'
  BY <1>2, <1>3, BeforeIs, ChainGrows, Zenon DEF LegacyTypes
<1>5. CASE kind \in Legacy!AtOnce
  <2>1. PICK Own \in {{}, {Len(chain')}} : Legacy!Execute(Len(chain'), Own, <<>>, {})
    BY <1>5, Zenon DEF Legacy!Append1
  <2>2. Range(<<>>) = {}
    BY DEF Range
  <2>3. (Own \subseteq Range(Legacy!ExecutionOrder)') \/ \E i : Own = {i}
    BY Zenon
  <2>4. QED
    BY <1>2, <1>4, <2>1, <2>2, <2>3, ExecuteKeeps, Zenon
<1>6. CASE kind \notin Legacy!AtOnce
  <2>1. run' = run /\ executions' = executions
    BY <1>6, Zenon DEF Legacy!Append1
  <2>2. QED
    BY <1>2, <1>4, <2>1, GrowKeeps
<1>7. QED
  BY <1>5, <1>6


LEMMA ResetKeeps == ASSUME LegacyInv, Legacy!Reset PROVE LegacyInv'
<1>1. PICK v : v = [kind |-> "root", needs |-> {}]
  BY Zenon
<1>2. PICK S : S = Vertex
  OBVIOUS
<1>3. v \in S /\ v.needs = {}
  BY <1>1, <1>2 DEF Vertex, VertexKind
<1>4. PICK c : c = chain'
  OBVIOUS
<1>5. c = <<v>>
  BY <1>1, <1>4 DEF Legacy!Reset
<1>6. c \in Seq(S) /\ Len(c) = 1 /\ c[1] = v
  BY <1>3, <1>5
<1>7. Legacy!Vertices' = 1 .. 1
  BY <1>4, <1>6 DEF Legacy!Vertices
<1>8. \A i \in 1 .. 1 : c[i].needs \subseteq 1 .. (i - 1)
  BY <1>3, <1>6
<1>9. ChainFine'
  BY <1>2, <1>4, <1>6, <1>7, <1>8, Zenon DEF ChainFine
<1>10. QED
  BY <1>9, GrowKeeps DEF Legacy!Reset

LEMMA DetachKeeps == ASSUME LegacyInv, Legacy!Detach PROVE LegacyInv'
<1>1. /\ Legacy!Begun /\ chain' = Append(chain, [kind |-> "root", needs |-> {}])
      /\ services' = services /\ enabled' = enabled /\ cancelled' = cancelled /\ active' = active /\ host' = host
      /\ run' = run /\ executions' = executions
  BY Zenon DEF Legacy!Detach, Legacy!Grow
<1>2. ChainFine /\ {} \in SUBSET (1 .. Len(chain)) /\ "root" \in VertexKind
  BY DEF LegacyInv, LegacyTypes, VertexKind
<1>3. ChainFine'
  BY <1>1, <1>2, ChainGrows, Zenon
<1>4. QED
  BY <1>1, <1>3, GrowKeeps

LEMMA AsServiceKeeps == ASSUME LegacyInv, Legacy!AsService PROVE LegacyInv'
<1>1. PICK Need \in Legacy!Before("asService") : Legacy!Grow("asService", Need)
  BY Zenon DEF Legacy!AsService
<1>2. /\ Legacy!Begun /\ chain # <<>> /\ chain' = Append(chain, [kind |-> "asService", needs |-> Need])
      /\ enabled' = enabled /\ cancelled' = cancelled /\ active' = active /\ host' = host
      /\ run' = run /\ executions' = executions
  BY <1>1, Zenon DEF Legacy!AsService, Legacy!Grow
<1>3. ChainFine /\ "asService" \in VertexKind
  BY DEF LegacyInv, LegacyTypes, VertexKind
<1>4. ChainFine'
  BY <1>2, <1>3, BeforeIs, ChainGrows, Zenon
<1>5. \/ services' = services
      \/ \E S \in SUBSET Nat : services' = Append(services, S)
  <2> DEFINE S == {i \in Legacy!Closure(Len(chain)) : chain[i].kind \in Legacy!Runs}
  <2>1. S \subseteq Nat
    <3>1. Legacy!Closure(Len(chain)) \subseteq Legacy!Vertices
      BY Zenon DEF Legacy!Closure
    <3>2. Legacy!Vertices \subseteq Nat
      BY <1>3, VerticesAre
    <3>3. QED
      BY <3>1, <3>2, Zenon
  <2>2. services' = services \/ services' = Append(services, S)
    BY Zenon DEF Legacy!AsService
  <2>3. QED
    BY <2>1, <2>2, Zenon
<1>6. QED
  BY <1>2, <1>4, <1>5, GrowKeeps

LEMMA WithServiceKeeps ==
    ASSUME LegacyInv, NEW k \in DOMAIN services, Legacy!WithService(k)
    PROVE  LegacyInv'
<1>1. /\ Legacy!Begun /\ chain' = chain /\ services' = services /\ enabled' = Append(enabled, k)
      /\ cancelled' = cancelled /\ active' = active /\ host' = host /\ run' = run /\ executions' = executions
  BY DEF Legacy!WithService
<1>2. ChainFine'
  BY <1>1, SameChain DEF LegacyInv, LegacyTypes
<1>3. QED
  BY <1>1, <1>2, GrowKeeps

LEMMA StdoutKeeps == ASSUME LegacyInv, Legacy!Stdout PROVE LegacyInv'
<1>1. /\ Legacy!Begun /\ Legacy!Execute(0, Legacy!InOrder(Legacy!Runs), enabled, Legacy!InOrder({"cache"}))
      /\ chain' = chain /\ services' = services /\ enabled' = enabled
      /\ cancelled' = cancelled /\ active' = active /\ host' = host
  BY Zenon DEF Legacy!Stdout
<1>2. LegacyTypes
  BY DEF LegacyInv
<1>3. ChainFine' /\ Legacy!ExecutionOrder' = Legacy!ExecutionOrder
  BY <1>1, <1>2, SameChain DEF LegacyTypes
<1>4. Legacy!InOrder(Legacy!Runs) \subseteq Range(Legacy!ExecutionOrder)
  BY DEF Legacy!InOrder, Legacy!Range, Range
<1>5. Legacy!InOrder(Legacy!Runs) \subseteq Range(Legacy!ExecutionOrder)'
  BY <1>3, <1>4
<1>6. Range(enabled) \subseteq DOMAIN services
  BY <1>2 DEF LegacyTypes
<1>7. PICK commands, daemons, finals :
         commands = Legacy!InOrder(Legacy!Runs) /\ daemons = enabled /\ finals = Legacy!InOrder({"cache"})
  OBVIOUS
<1>8. Legacy!Execute(0, commands, daemons, finals)
  BY <1>1, <1>7, Zenon
<1>9. commands \subseteq Range(Legacy!ExecutionOrder)' /\ Range(daemons) \subseteq DOMAIN services
  BY <1>5, <1>6, <1>7, Zenon
<1>10. QED
  BY <1>1, <1>3, <1>8, <1>9, ExecuteKeeps, Zenon

LEMMA LegacyStart == ASSUME Legacy!Init PROVE LegacyInv
<1>1. /\ chain = <<>> /\ services = <<>> /\ enabled = <<>> /\ executions = 0
      /\ run = [only |-> 0, code |-> 0, daemons |-> <<>>, commands |-> {}, finals |-> {},
                shown |-> TRUE, phase |-> "replied", status |-> [t \in {} |-> "pending"]]
      /\ cancelled = FALSE /\ active = 0 /\ host = "serving"
  BY DEF Legacy!Init
<1>2. Range(<<>>) = {}
  BY DEF Range
<1>3. IsRun(run) /\ run.daemons = <<>> /\ run.commands = {} /\ run.finals = {} /\ run.shown = TRUE
      /\ run.phase = "replied" /\ run.status = [t \in {} |-> "pending"]
  BY <1>1 DEF IsRun
<1>4. DOMAIN run.status = {}
  BY <1>3
<1>5. ChainFine
  <2>1. PICK S : S = Vertex
    OBVIOUS
  <2>2. chain \in Seq(S) /\ Len(chain) = 0
    BY <1>1
  <2>3. Legacy!Vertices = {}
    BY <2>2 DEF Legacy!Vertices
  <2>4. QED
    BY <2>1, <2>2, <2>3 DEF ChainFine
<1>6. LegacyTypes
  <2>1. services \in Seq(SUBSET Nat) /\ enabled \in Seq(Nat)
    <3>1. \A S : <<>> \in Seq(S)
      OBVIOUS
    <3>2. QED
      BY <1>1, <3>1, Zenon
  <2>2. Legacy!Named("service", Range(run.daemons)) = {} /\ Legacy!Named("command", run.commands) = {}
        /\ Legacy!Named("final", run.finals) = {}
    BY <1>2, <1>3 DEF Legacy!Named
  <2>3. Range(enabled) \subseteq DOMAIN services /\ Range(run.daemons) \subseteq DOMAIN services
    BY <1>1, <1>2, <1>3
  <2>4. active = IF run.phase \in {"main", "finals"} THEN 1 ELSE 0
    BY <1>1, <1>3
  <2>5. run.phase \in {"compiled", "broken", "main", "executed", "finalizing", "finals", "finished", "replied"}
    BY <1>3
  <2>6. QED
    BY <1>3, <1>4, <1>5, <2>1, <2>2, <2>3, <2>4, <2>5 DEF LegacyTypes
<1>7. MainsFit /\ FinalsFit
  BY <1>3, <1>4 DEF MainsFit, FinalsFit, Mains, Finals, Every
<1>8. HostFits
  BY <1>1, <1>3 DEF HostFits
<1>9. ~Legacy!Ended
  BY <1>1 DEF Legacy!Ended
<1>10. Legacy!CompletionIsTrue /\ Legacy!CachesAreSaved
  BY <1>9, Zenon DEF Legacy!CompletionIsTrue, Legacy!CachesAreSaved
<1>11. QED
  BY <1>3, <1>6, <1>7, <1>8, <1>10 DEF LegacyInv

LEMMA LegacyStep == ASSUME LegacyInv, Legacy!Next \/ UNCHANGED legacyVars PROVE LegacyInv'
<1>1. ASSUME Legacy!OfEveryObject PROVE LegacyInv'
  <2>1. ASSUME Legacy!WithExec \/ Legacy!WaitOn \/ Legacy!WithWorkdir \/ Legacy!WithCache \/ Legacy!WithFile
        PROVE  \E kind \in VertexKind : Legacy!Append1(kind)
    BY <2>1 DEF VertexKind, Legacy!WithExec, Legacy!WaitOn, Legacy!WithWorkdir, Legacy!WithCache, Legacy!WithFile
  <2>2. QED
    BY <1>1, <2>1, CallKeeps, AsServiceKeeps, StdoutKeeps, WithServiceKeeps, Zenon DEF Legacy!OfEveryObject
<1>2. ASSUME \/ Legacy!Archive \/ Legacy!Digest \/ Legacy!Chmod \/ Legacy!Provider \/ Legacy!Toolchain
             \/ Legacy!Fetch \/ Legacy!Checkout
      PROVE  LegacyInv'
  <2>1. \E kind \in VertexKind : Legacy!Append1(kind)
    BY <1>2 DEF VertexKind, Legacy!Archive, Legacy!Digest, Legacy!Chmod, Legacy!Provider, Legacy!Toolchain,
                       Legacy!Fetch, Legacy!Checkout
  <2>2. QED
    BY <2>1, CallKeeps
<1>3. ASSUME Legacy!OfADirectory \/ Legacy!OfAFile PROVE LegacyInv'
  BY <1>1, <1>2, <1>3, DetachKeeps, Zenon DEF Legacy!OfADirectory, Legacy!OfAPlugin, Legacy!OfAFile
<1>4. ASSUME NEW t, \/ Legacy!Start(t) \/ Legacy!ServiceReady(t) \/ Legacy!Kill(t) \/ Legacy!StopService(t)
                    \/ \E s \in {"ok", "failed"} : Legacy!End(t, s)
      PROVE  LegacyInv'
  BY <1>4, StartKeeps, ReadyKeeps, KillKeeps, StopServiceKeeps, EndOfTaskKeeps, Zenon
<1>5. QED
  BY <1>2, <1>3, <1>4, ResetKeeps, EnterKeeps, LeaveKeeps, FinalizeKeeps, ReplyKeeps, DisplayFailsKeeps,
     HostKeeps, Zenon DEF Legacy!Next

\* What the invariant says of a plan in its order, of a completion and of a host
\* that has left.
LEMMA LegacySafe == ASSUME LegacyInv PROVE Legacy!LegacyRunsAreRight /\ Legacy!IdleIsFinal
<1>1. LegacyTypes
  BY DEF LegacyInv
<1>2. Legacy!StartsInOrder
  <2> SUFFICES ASSUME NEW a \in run.commands, run.phase # "replied",
                      run.status[<<"command", a>>] \in Legacy!Attempted
               PROVE  /\ \A k \in Range(run.daemons) :
                            run.status[<<"service", k>>] \notin {"pending", "running", "skipped"}
                      /\ \A b \in (Legacy!Closure(a) \ {a}) \cap run.commands :
                            run.status[<<"command", b>>] = "ok"
    BY Zenon DEF Legacy!StartsInOrder, Legacy!Idle, Legacy!Range, Range
  <2>1. CommandsFit
    BY DEF LegacyInv
  <2>2. ASSUME NEW b \in Legacy!Closure(a), b # a, b \in run.commands
        PROVE  run.status[<<"command", b>>] = "ok"
    <3>1. run.commands \subseteq Range(Legacy!ExecutionOrder)
      BY <2>1, <2>2 DEF CommandsFit
    <3>2. Legacy!Precedes(b, a)
      BY <1>1, <2>2, <3>1, NeedsPrecede DEF LegacyTypes
    <3>3. QED
      BY <2>1, <2>2, <3>2, Zenon DEF CommandsFit
  <2>3. QED
    BY <2>1, <2>2, Zenon DEF CommandsFit
<1>3. Legacy!IdleIsFinal
  BY Zenon DEF LegacyInv, HostFits, Legacy!IdleIsFinal
<1>4. QED
  BY <1>2, <1>3, Zenon DEF LegacyInv, Legacy!LegacyRunsAreRight

\* Whatever a session's chain is, however it grows, and whenever it is cancelled:
\* a command starts after all it depends on has succeeded and every service is up,
\* the completion of an execution says what became of its tasks, caches are saved
\* unless the session was cancelled, and nothing starts after the host has left
\* (core/src/legacy_plan.rs: compile, execute; core/src/deps.rs; executor/src/lib.rs:
\* Cancellation::wait_idle).
THEOREM LegacyRunsStayRight == Legacy!Spec => [](Legacy!LegacyRunsAreRight /\ Legacy!IdleIsFinal)
<1>1. Legacy!Init => LegacyInv
  BY LegacyStart
<1>2. LegacyInv /\ [Legacy!Next]_(Legacy!vars) => LegacyInv'
  BY LegacyStep DEF Legacy!vars, legacyVars
<1>3. LegacyInv => Legacy!LegacyRunsAreRight /\ Legacy!IdleIsFinal
  BY LegacySafe
<1>4. QED
  BY <1>1, <1>2, <1>3, PTL DEF Legacy!Spec

\* So it is in the composition of MCEngine.
THEOREM LegacyStaysRight == PartsSpec => []LegacyHolds
<1> DEFINE Holds == part = "legacy" => LegacyInv
<1>1. PartsInit => Holds
  BY LegacyStart DEF PartsInit
<1>2. Holds /\ [PartsNext]_partsVars => Holds'
  <2> SUFFICES ASSUME Holds, [PartsNext]_partsVars, part' = "legacy" PROVE LegacyInv'
    OBVIOUS
  <2>1. part = "legacy" /\ (Legacy!Next \/ UNCHANGED legacyVars)
    BY DEF PartsNext, partsVars
  <2>2. QED
    BY <2>1, LegacyStep
<1>3. Holds => LegacyHolds
  BY LegacySafe DEF LegacyHolds
<1>4. QED
  BY <1>1, <1>2, <1>3, PTL DEF PartsSpec

-----------------------------------------------------------------------------
(* Which plans of cached tasks are accepted (CacheRules). *)

\* A location is above another when it agrees with it as far as it goes.
LEMMA AboveIs ==
    ASSUME NEW p \in Location, NEW q \in Location
    PROVE  IsPrefix(p, q) <=> Len(p) <= Len(q) /\ \A i \in 1..Len(p) : p[i] = q[i]
<1> USE DEF Location
<1>1. ASSUME Len(p) <= Len(q) PROVE SubSeq(q, 1, Len(p)) \in Seq(STRING) /\ Len(SubSeq(q, 1, Len(p))) = Len(p)
                                    /\ \A i \in 1..Len(p) : SubSeq(q, 1, Len(p))[i] = q[i]
  BY <1>1
<1>2. SubSeq(p, 1, Len(p)) = p
  OBVIOUS
<1>3. ASSUME Len(p) <= Len(q), \A i \in 1..Len(p) : p[i] = q[i] PROVE SubSeq(q, 1, Len(p)) = p
  BY <1>1, <1>3, SeqEqual
<1>4. QED
  BY <1>1, <1>2, <1>3 DEF IsPrefix

\* Two locations below one are nested when what follows it is.
LEMMA NestedBelow ==
    ASSUME NEW c \in Location, NEW o \in Location, NEW p \in Location
    PROVE  Nested(c \o o, c \o p) <=> Nested(o, p)
<1> USE DEF Location
<1>1. ASSUME NEW r \in Location, NEW s \in Location
      PROVE  IsPrefix(c \o r, c \o s) <=> IsPrefix(r, s)
  <2> DEFINE u == c \o r
             v == c \o s
  <2>0. Len(c) \in Nat /\ Len(r) \in Nat /\ Len(s) \in Nat
    OBVIOUS
  <2>1. u \in Location /\ v \in Location
    BY DEF Location
  <2>2. Len(u) = Len(c) + Len(r) /\ Len(v) = Len(c) + Len(s)
    OBVIOUS
  <2>3. \A i \in 1..Len(c) : u[i] = c[i] /\ v[i] = c[i]
    OBVIOUS
  <2>4. /\ \A i \in 1..Len(r) : u[Len(c) + i] = r[i]
        /\ \A i \in 1..Len(s) : v[Len(c) + i] = s[i]
    BY SMTT(40)
  <2> HIDE DEF u, v
  <2>5. ASSUME IsPrefix(u, v) PROVE IsPrefix(r, s)
    <3>1. Len(c) + Len(r) <= Len(c) + Len(s) /\ \A i \in 1..(Len(c) + Len(r)) : u[i] = v[i]
      <4>1. Len(u) <= Len(v) /\ \A i \in 1..Len(u) : u[i] = v[i]
        BY <2>1, <2>5, AboveIs
      <4>2. QED
        BY <2>0, <2>2, <4>1
    <3>2. Len(r) <= Len(s)
      BY <3>1
    <3>3. ASSUME NEW i \in 1..Len(r) PROVE r[i] = s[i]
      <4>1. Len(c) + i \in 1..(Len(c) + Len(r)) /\ i \in 1..Len(s)
        BY <3>2
      <4>2. QED
        BY <2>4, <3>1, <4>1
    <3>4. QED
      BY <3>2, <3>3, AboveIs
  <2>6. ASSUME IsPrefix(r, s) PROVE IsPrefix(u, v)
    <3>1. Len(r) <= Len(s) /\ \A i \in 1..Len(r) : r[i] = s[i]
      BY <2>6, AboveIs
    <3>2. ASSUME NEW i \in 1..(Len(c) + Len(r)) PROVE u[i] = v[i]
      <4>1. CASE i <= Len(c)
        BY <2>3, <4>1
      <4>2. CASE i > Len(c)
        <5>1. i - Len(c) \in 1..Len(r) /\ i = Len(c) + (i - Len(c)) /\ i - Len(c) \in 1..Len(s)
          BY <2>0, <3>1, <4>2
        <5>2. QED
          BY <2>4, <3>1, <5>1, Zenon
      <4>3. QED
        BY <2>0, <4>1, <4>2
    <3>3. Len(u) <= Len(v) /\ \A i \in 1..Len(u) : u[i] = v[i]
      BY <2>0, <2>2, <3>1, <3>2
    <3>4. QED
      BY <2>1, <3>3, AboveIs
  <2>7. QED
    BY <2>5, <2>6 DEF u, v
<1>2. QED
  BY <1>1 DEF Nested, Location

\* What a plan is made of.
PlanTypes ==
    /\ plan.needs \in [Tasks -> SUBSET Tasks]
    /\ plan.cwd \in [Tasks -> Location]
    /\ plan.inputs \in [Tasks -> SUBSET Location]
    /\ plan.outputs \in [Tasks -> SUBSET Location]
    /\ plan.tools \in [Tasks -> SUBSET Location]
    /\ plan.storage \in Location
    /\ \A t \in Tasks, q \in DOMAIN Links : ~IsPrefix(q, plan.cwd[t])

\* Where links lead are locations.
LEMMA ResolvedIs == ASSUME NEW p \in Location PROVE Resolved(p) \in Location
<1> DEFINE on == {q \in DOMAIN Links : IsPrefix(q, p)}
           q == CHOOSE q \in on : TRUE
<1>1. CASE on = {}
  BY <1>1 DEF Resolved
<1>2. CASE on # {}
  <2>1. q \in on
    BY <1>2
  <2>2. q \in Location /\ Links[q] \in Location /\ Len(q) <= Len(p)
    BY <2>1, RulesAssumption DEF IsPrefix
  <2>3. SubSeq(p, Len(q) + 1, Len(p)) \in Location
    BY <2>2 DEF Location
  <2>4. Links[q] \o SubSeq(p, Len(q) + 1, Len(p)) \in Location
    BY <2>2, <2>3 DEF Location
  <2>5. Resolved(p) = Links[q] \o SubSeq(p, Len(q) + 1, Len(p))
    BY <1>2, Zenon DEF Resolved
  <2>6. QED
    BY <2>4, <2>5
<1>3. QED
  BY <1>1, <1>2

\* A declared path without a link on it is where it says.
LEMMA UnlinkedIs ==
    ASSUME PlanTypes, NEW t \in Tasks, NEW rel \in Location, ~Linked(t, rel)
    PROVE  At(t, rel) \in Location /\ Resolved(At(t, rel)) = At(t, rel)
<1> DEFINE c == plan.cwd[t]
           p == c \o rel
<1>1. c \in Location
  BY DEF PlanTypes
<1>2. p \in Location /\ Len(p) = Len(c) + Len(rel)
  BY <1>1 DEF Location
<1>3. ASSUME NEW q \in DOMAIN Links, IsPrefix(q, p) PROVE FALSE
  <2>1. q \in Location
    BY RulesAssumption
  <2>2. Len(q) <= Len(p) /\ \A i \in 1..Len(q) : q[i] = p[i]
    BY <1>2, <1>3, <2>1, AboveIs, Zenon
  <2>3. CASE Len(q) <= Len(c)
    <3>1. \A i \in 1..Len(q) : q[i] = c[i]
      BY <1>1, <2>1, <2>2, <2>3 DEF Location
    <3>2. IsPrefix(q, c)
      BY <1>1, <2>1, <2>3, <3>1, AboveIs
    <3>3. QED
      BY <3>2 DEF PlanTypes
  <2>4. CASE Len(q) > Len(c)
    <3> DEFINE n == Len(q) - Len(c)
               s == SubSeq(rel, 1, n)
    <3>1. n \in 1..Len(rel)
      BY <1>1, <1>2, <2>1, <2>2, <2>4 DEF Location
    <3>0. Len(c) \in Nat /\ Len(q) \in Nat /\ n \in Nat /\ n = Len(q) - Len(c)
      BY <1>1, <2>1, <2>4 DEF Location
    <3> HIDE DEF n
    <3>2. s \in Seq(STRING) /\ Len(s) = n /\ \A i \in 1..n : s[i] = rel[i]
      <4>0. \A i \in 1..n : rel[i] \in STRING
        BY <3>0, <3>1 DEF Location
      <4>01. 1 \in Int /\ n \in Int /\ 1 <= n /\ n - 1 + 1 = n
        BY <3>0, <3>1
      <4>1. s \in Seq(STRING) /\ Len(s) = n
        BY <4>0, <4>01, SubSeqProperties
      <4>2. ASSUME NEW i \in 1..n PROVE s[i] = rel[i]
        BY <3>0, <3>1 DEF Location
      <4>3. QED
        BY <4>1, <4>2, Zenon
    <3> HIDE DEF s
    <3>3. c \o s \in Seq(STRING) /\ Len(c \o s) = Len(q)
      BY <1>1, <3>0, <3>2 DEF Location
    <3>4. ASSUME NEW i \in 1..Len(q) PROVE (c \o s)[i] = q[i]
      <4>1. CASE i <= Len(c)
        <5>1. (c \o s)[i] = c[i]
          BY <1>1, <3>0, <3>2, <4>1 DEF Location
        <5>2. p[i] = c[i]
          BY <1>1, <4>1 DEF Location
        <5>3. QED
          BY <2>2, <5>1, <5>2
      <4>2. CASE i > Len(c)
        <5>1. i - Len(c) \in 1..n /\ i - Len(c) \in 1..Len(rel)
          BY <3>0, <3>1, <4>2
        <5>2. (c \o s)[i] = s[i - Len(c)]
          BY <1>1, <3>0, <3>2, <4>2, <5>1 DEF Location
        <5>3. p[i] = rel[i - Len(c)]
          BY <1>1, <4>2, <5>1 DEF Location
        <5>4. QED
          BY <2>2, <3>2, <5>1, <5>2, <5>3, Zenon
      <4>3. i <= Len(c) \/ i > Len(c)
        BY <3>0
      <4>4. QED
        BY <4>1, <4>2, <4>3, Zenon
    <3>5. c \o s = q
      BY <2>1, <3>3, <3>4, SeqEqual, Zenon DEF Location
    <3>6. QED
      BY <3>1, <3>5, Zenon DEF Linked, At, s
  <2>5. QED
    BY <1>1, <2>1, <2>3, <2>4 DEF Location
<1>4. {q \in DOMAIN Links : IsPrefix(q, p)} = {}
  BY <1>3
<1>5. QED
  BY <1>2, <1>4 DEF Resolved, At

\* What the walks find is the order: b is reached from a along needs when it
\* comes before a, along dependents when it comes after.
LEMMA RelatedIs ==
    ASSUME PlanTypes, NEW a \in Tasks, NEW b \in Tasks, a # b
    PROVE  b \in Related(a) <=> Precedes(a, b) \/ Precedes(b, a)
<1> DEFINE Shut(seen, edges) == \A s \in seen : edges[s] \subseteq seen
<1>1. \A t \in Tasks : plan.needs[t] \subseteq Tasks
  BY DEF PlanTypes
<1>2. \A s, t \in Tasks : t \in Dependents[s] <=> s \in plan.needs[t]
  BY DEF Dependents
<1>3. b \in Walk({a}, plan.needs) <=> Precedes(b, a)
  <2>1. ASSUME b \in Walk({a}, plan.needs), NEW done \in SUBSET Tasks,
               \A t \in done \union {a} : plan.needs[t] \subseteq done
        PROVE  b \in done
    <3>1. done \union {a} \in SUBSET Tasks /\ Shut(done \union {a}, plan.needs)
      BY <2>1
    <3>2. b \in done \union {a}
      BY <2>1, <3>1, Zenon DEF Walk
    <3>3. QED
      BY <3>2
  <2>2. ASSUME Precedes(b, a), NEW seen \in SUBSET Tasks, a \in seen, Shut(seen, plan.needs)
        PROVE  b \in seen
    BY <2>2 DEF Precedes
  <2>3. QED
    BY <2>1, <2>2 DEF Walk, Precedes
<1>4. b \in Walk({a}, Dependents) <=> Precedes(a, b)
  <2>1. ASSUME b \in Walk({a}, Dependents), NEW done \in SUBSET Tasks,
               \A t \in done \union {b} : plan.needs[t] \subseteq done, a \notin done
        PROVE  FALSE
    <3> DEFINE rest == Tasks \ (done \union {b})
    <3>1. a \in rest
      BY <2>1
    <3>2. ASSUME NEW s \in rest, NEW t \in Dependents[s] PROVE t \in rest
      <4>1. t \in Tasks /\ s \in plan.needs[t]
        BY <3>2 DEF Dependents
      <4>2. t \notin done \union {b}
        BY <2>1, <4>1
      <4>3. QED
        BY <4>1, <4>2
    <3>3. b \in rest
      <4>1. rest \in SUBSET Tasks /\ {a} \subseteq rest /\ \A s \in rest : Dependents[s] \subseteq rest
        BY <3>1, <3>2
      <4> HIDE DEF rest
      <4>2. QED
        BY <2>1, <4>1 DEF Walk
    <3>4. QED
      BY <3>3
  <2>2. ASSUME Precedes(a, b), NEW seen \in SUBSET Tasks, a \in seen, Shut(seen, Dependents),
               b \notin seen
        PROVE  FALSE
    <3> DEFINE done == Tasks \ seen
    <3>1. ASSUME NEW t \in done \union {b} PROVE plan.needs[t] \subseteq done
      <4>1. t \in Tasks /\ t \notin seen
        BY <2>2, <3>1
      <4>2. ASSUME NEW s \in plan.needs[t], s \in seen PROVE FALSE
        BY <1>2, <2>2, <4>1, <4>2
      <4>3. QED
        BY <1>1, <4>1, <4>2
    <3>2. a \in done
      <4>1. done \in SUBSET Tasks /\ \A t \in done \union {b} : plan.needs[t] \subseteq done
        BY <3>1
      <4> HIDE DEF done
      <4>2. QED
        BY <2>2, <4>1 DEF Precedes
    <3>3. QED
      BY <2>2, <3>2
  <2>3. Precedes(a, b) => b \in Walk({a}, Dependents)
    <3> SUFFICES ASSUME Precedes(a, b), NEW seen \in SUBSET Tasks, {a} \subseteq seen,
                        \A s \in seen : Dependents[s] \subseteq seen
                 PROVE  b \in seen
      BY DEF Walk
    <3>1. QED
      BY <2>2
  <2>4. QED
    BY <2>1, <2>3 DEF Precedes
<1>5. QED
  BY <1>3, <1>4 DEF Related

\* Comparing each access with those above it orders every two that are nested,
\* one of them a writer's.
LEMMA OrderedIs ==
    ASSUME PlanTypes, \A x \in Accesses : x[1] \in Location /\ x[2] \in Tasks
    PROVE  WorkspaceOrdered <=>
             \A x, y \in Accesses : x[2] # y[2] /\ (x[3] \/ y[3]) /\ Nested(x[1], y[1])
                                      => Precedes(x[2], y[2]) \/ Precedes(y[2], x[2])
<1>1. ASSUME WorkspaceOrdered, NEW x \in Accesses, NEW y \in Accesses, x[2] # y[2],
             x[3] \/ y[3], IsPrefix(y[1], x[1])
      PROVE  Precedes(x[2], y[2]) \/ Precedes(y[2], x[2])
  <2>1. y \in Compared(x)
    BY <1>1, Zenon DEF Compared
  <2>2. y[2] \in Related(x[2])
    BY <1>1, <2>1, Zenon DEF WorkspaceOrdered
  <2>3. QED
    BY <1>1, <2>2, RelatedIs
<1>2. ASSUME WorkspaceOrdered, NEW x \in Accesses, NEW y \in Accesses,
             x[2] # y[2] /\ (x[3] \/ y[3]) /\ Nested(x[1], y[1])
      PROVE  Precedes(x[2], y[2]) \/ Precedes(y[2], x[2])
  <2>1. x[2] # y[2] /\ y[2] # x[2] /\ (x[3] \/ y[3]) /\ (y[3] \/ x[3])
    BY <1>2, Zenon
  <2>2. IsPrefix(x[1], y[1]) \/ IsPrefix(y[1], x[1])
    BY <1>2, Zenon DEF Nested
  <2>3. QED
    BY <1>1, <1>2, <2>1, <2>2, Zenon
<1>3. ASSUME \A x, y \in Accesses : x[2] # y[2] /\ (x[3] \/ y[3]) /\ Nested(x[1], y[1])
                                      => Precedes(x[2], y[2]) \/ Precedes(y[2], x[2]),
             NEW x \in Accesses, NEW y \in Compared(x), x[2] # y[2]
      PROVE  y[2] \in Related(x[2])
  <2>1. y \in Accesses /\ IsPrefix(y[1], x[1]) /\ (x[3] \/ y[3])
    BY <1>3, Zenon DEF Compared
  <2>2. Precedes(x[2], y[2]) \/ Precedes(y[2], x[2])
    BY <1>3, <2>1, Zenon DEF Nested
  <2>3. QED
    BY <1>3, <2>1, <2>2, RelatedIs
<1>4. QED
  BY <1>2, <1>3, Zenon DEF WorkspaceOrdered

\* No link is on a declared path.
Unlinked == \A t \in Tasks : \A rel \in plan.inputs[t] \union plan.outputs[t] : ~Linked(t, rel)

LEMMA DeclaredIs ==
    ASSUME PlanTypes, Unlinked, NEW t \in Tasks
    PROVE  /\ \A rel \in plan.inputs[t] \union plan.outputs[t] :
                rel \in Location /\ At(t, rel) \in Location /\ Resolved(At(t, rel)) = At(t, rel)
           /\ \A f \in plan.tools[t] : f \in Location /\ Resolved(f) \in Location
<1>1. plan.inputs[t] \subseteq Location /\ plan.outputs[t] \subseteq Location /\ plan.tools[t] \subseteq Location
  BY DEF PlanTypes
<1>2. \A rel \in plan.inputs[t] \union plan.outputs[t] : ~Linked(t, rel)
  BY DEF Unlinked
<1>3. \A rel \in plan.inputs[t] \union plan.outputs[t] :
        rel \in Location /\ At(t, rel) \in Location /\ Resolved(At(t, rel)) = At(t, rel)
  BY <1>1, <1>2, UnlinkedIs
<1>4. \A f \in plan.tools[t] : f \in Location /\ Resolved(f) \in Location
  BY <1>1, ResolvedIs
<1>5. QED
  BY <1>3, <1>4

\* The map of accesses holds what each task reads and writes.
LEMMA AccessesAre ==
    ASSUME PlanTypes, Unlinked
    PROVE  /\ \A x \in Accesses : /\ x[1] \in Location /\ x[2] \in Tasks
                                  /\ x[3] => x[1] \in Writes(x[2])
                                  /\ ~x[3] => x[1] \in Reads(x[2])
           /\ \A t \in Tasks : \A p \in Reads(t) : <<p, t, FALSE>> \in Accesses
           /\ \A t \in Tasks : \A p \in Writes(t) : <<p, t, TRUE>> \in Accesses
<1> DEFINE Of(t) == {<<Resolved(f), t, FALSE>> : f \in plan.tools[t]}
                      \union {<<At(t, rel), t, FALSE>> : rel \in plan.inputs[t]}
                      \union {<<At(t, rel), t, TRUE>> : rel \in plan.outputs[t]}
<1>0. \A x : x \in Accesses <=> \E t \in Tasks : x \in Of(t)
  <2>1. Accesses = UNION {Of(t) : t \in Tasks}
    BY DEF Accesses
  <2> HIDE DEF Of
  <2>2. QED
    BY <2>1
<1>1. ASSUME NEW t \in Tasks
      PROVE  /\ \A rel \in plan.inputs[t] \union plan.outputs[t] :
                  At(t, rel) \in Location /\ Resolved(At(t, rel)) = At(t, rel)
             /\ \A f \in plan.tools[t] : Resolved(f) \in Location
  BY DeclaredIs
<1>2. ASSUME NEW t \in Tasks, NEW f \in plan.tools[t]
      PROVE  <<Resolved(f), t, FALSE>> \in Accesses /\ Resolved(f) \in Reads(t) /\ Resolved(f) \in Location
  <2>1. Resolved(f) \in Location /\ Resolved(f) \in Reads(t)
    BY <1>1, <1>2, Zenon DEF Reads
  <2>2. <<Resolved(f), t, FALSE>> \in Of(t)
    BY <1>2
  <2>3. QED
    <3> HIDE DEF Of
    <3>1. QED
      BY <1>0, <2>1, <2>2
<1>3. ASSUME NEW t \in Tasks, NEW rel \in plan.inputs[t]
      PROVE  <<At(t, rel), t, FALSE>> \in Accesses /\ At(t, rel) \in Reads(t) /\ At(t, rel) \in Location
  <2>1. At(t, rel) = Resolved(At(t, rel)) /\ At(t, rel) \in Location
    BY <1>1, <1>3
  <2>2. Resolved(At(t, rel)) \in Reads(t)
    BY <1>3, Zenon DEF Reads
  <2>3. <<At(t, rel), t, FALSE>> \in Accesses
    <3>1. <<At(t, rel), t, FALSE>> \in Of(t)
      BY <1>3
    <3> HIDE DEF Of
    <3>2. QED
      BY <1>0, <3>1
  <2>4. QED
    BY <2>1, <2>2, <2>3
<1>4. ASSUME NEW t \in Tasks, NEW rel \in plan.outputs[t]
      PROVE  <<At(t, rel), t, TRUE>> \in Accesses /\ At(t, rel) \in Writes(t) /\ At(t, rel) \in Location
  <2>1. At(t, rel) = Resolved(At(t, rel)) /\ At(t, rel) \in Location
    BY <1>1, <1>4
  <2>2. Resolved(At(t, rel)) \in Writes(t)
    BY <1>4, Zenon DEF Writes
  <2>3. <<At(t, rel), t, TRUE>> \in Accesses
    <3>1. <<At(t, rel), t, TRUE>> \in Of(t)
      BY <1>4
    <3> HIDE DEF Of
    <3>2. QED
      BY <1>0, <3>1
  <2>4. QED
    BY <2>1, <2>2, <2>3
<1>5. ASSUME NEW x \in Accesses
      PROVE  \E t \in Tasks : \/ \E f \in plan.tools[t] : x = <<Resolved(f), t, FALSE>>
                              \/ \E rel \in plan.inputs[t] : x = <<At(t, rel), t, FALSE>>
                              \/ \E rel \in plan.outputs[t] : x = <<At(t, rel), t, TRUE>>
  <2>1. PICK t \in Tasks : x \in Of(t)
    <3> HIDE DEF Of
    <3>1. QED
      BY <1>0, <1>5
  <2>2. QED
    BY <2>1, Zenon
<1> HIDE DEF Of
<1>6. ASSUME NEW x \in Accesses
      PROVE  /\ x[1] \in Location /\ x[2] \in Tasks
             /\ x[3] => x[1] \in Writes(x[2])
             /\ ~x[3] => x[1] \in Reads(x[2])
  <2>1. PICK t \in Tasks : \/ \E f \in plan.tools[t] : x = <<Resolved(f), t, FALSE>>
                           \/ \E rel \in plan.inputs[t] : x = <<At(t, rel), t, FALSE>>
                           \/ \E rel \in plan.outputs[t] : x = <<At(t, rel), t, TRUE>>
    BY <1>5, <1>6, Zenon
  <2>2. CASE \E f \in plan.tools[t] : x = <<Resolved(f), t, FALSE>>
    <3>1. PICK f \in plan.tools[t] : x = <<Resolved(f), t, FALSE>>
      BY <2>2
    <3>2. x[1] = Resolved(f) /\ x[2] = t /\ x[3] = FALSE
      BY <3>1
    <3>3. QED
      BY <1>2, <3>2, Zenon
  <2>3. CASE \E rel \in plan.inputs[t] : x = <<At(t, rel), t, FALSE>>
    <3>1. PICK rel \in plan.inputs[t] : x = <<At(t, rel), t, FALSE>>
      BY <2>3
    <3>2. x[1] = At(t, rel) /\ x[2] = t /\ x[3] = FALSE
      BY <3>1
    <3>3. QED
      BY <1>3, <3>2, Zenon
  <2>4. CASE \E rel \in plan.outputs[t] : x = <<At(t, rel), t, TRUE>>
    <3>1. PICK rel \in plan.outputs[t] : x = <<At(t, rel), t, TRUE>>
      BY <2>4
    <3>2. x[1] = At(t, rel) /\ x[2] = t /\ x[3] = TRUE
      BY <3>1
    <3>3. QED
      BY <1>4, <3>2, Zenon
  <2>5. QED
    BY <2>1, <2>2, <2>3, <2>4, Zenon
<1>7. ASSUME NEW t \in Tasks, NEW p \in Reads(t) PROVE <<p, t, FALSE>> \in Accesses
  <2>1. (\E rel \in plan.inputs[t] : p = Resolved(At(t, rel))) \/ \E f \in plan.tools[t] : p = Resolved(f)
    BY <1>7, Zenon DEF Reads
  <2>2. (\E rel \in plan.inputs[t] : p = At(t, rel)) \/ \E f \in plan.tools[t] : p = Resolved(f)
    BY <1>1, <2>1
  <2>3. QED
    BY <1>2, <1>3, <2>2, Zenon
<1>8. ASSUME NEW t \in Tasks, NEW p \in Writes(t) PROVE <<p, t, TRUE>> \in Accesses
  <2>1. \E rel \in plan.outputs[t] : p = Resolved(At(t, rel))
    BY <1>8, Zenon DEF Writes
  <2>2. \E rel \in plan.outputs[t] : p = At(t, rel)
    BY <1>1, <2>1
  <2>3. QED
    BY <1>4, <2>2, Zenon
<1>9. QED
  BY <1>6, <1>7, <1>8, Zenon

\* The check of a workspace says whether any two tasks that touch the same files,
\* one of them writing, are ordered.
LEMMA WorkspaceIs ==
    ASSUME PlanTypes, Unlinked
    PROVE  WorkspaceOrdered <=>
             \A a, b \in Tasks : a # b /\ Conflicting(a, b) => Precedes(a, b) \/ Precedes(b, a)
<1> DEFINE Known == \A x, y \in Accesses : x[2] # y[2] /\ (x[3] \/ y[3]) /\ Nested(x[1], y[1])
                                             => Precedes(x[2], y[2]) \/ Precedes(y[2], x[2])
<1>1. WorkspaceOrdered <=> Known
  <2>1. \A x \in Accesses : x[1] \in Location /\ x[2] \in Tasks
    BY AccessesAre, Zenon
  <2>2. QED
    BY <2>1, OrderedIs, Zenon
<1>2. ASSUME Known, NEW a \in Tasks, NEW b \in Tasks, a # b, Conflicting(a, b)
      PROVE  Precedes(a, b) \/ Precedes(b, a)
  <2>1. PICK p \in Writes(a), q \in Reads(b) \union Writes(b) : Nested(p, q)
    BY <1>2, Zenon DEF Conflicting, Touch
  <2>2. PICK w \in BOOLEAN : <<q, b, w>> \in Accesses
    BY <2>1, AccessesAre, Zenon
  <2>3. <<p, a, TRUE>> \in Accesses
    BY <2>1, AccessesAre, Zenon
  <2> DEFINE x == <<p, a, TRUE>>
             y == <<q, b, w>>
  <2>4. x[1] = p /\ x[2] = a /\ x[3] = TRUE /\ y[1] = q /\ y[2] = b
    OBVIOUS
  <2>5. x \in Accesses /\ y \in Accesses /\ x[2] # y[2] /\ Nested(x[1], y[1]) /\ (x[3] \/ y[3])
    BY <1>2, <2>1, <2>2, <2>3, <2>4
  <2>6. Precedes(x[2], y[2]) \/ Precedes(y[2], x[2])
    <3> HIDE DEF x, y
    <3>1. QED
      BY <1>2, <2>5, Zenon
  <2>7. QED
    <3> HIDE DEF x, y
    <3>1. QED
      BY <2>4, <2>6
<1>3. ASSUME \A a, b \in Tasks : a # b /\ Conflicting(a, b) => Precedes(a, b) \/ Precedes(b, a),
             NEW x \in Accesses, NEW y \in Accesses,
             x[2] # y[2] /\ (x[3] \/ y[3]) /\ Nested(x[1], y[1])
      PROVE  Precedes(x[2], y[2]) \/ Precedes(y[2], x[2])
  <2>1. /\ x[2] \in Tasks /\ y[2] \in Tasks
        /\ x[3] => x[1] \in Writes(x[2])
        /\ x[1] \in Reads(x[2]) \union Writes(x[2])
        /\ y[3] => y[1] \in Writes(y[2])
        /\ y[1] \in Reads(y[2]) \union Writes(y[2])
    BY AccessesAre, Zenon
  <2>2. Nested(y[1], x[1])
    BY <1>3, Zenon DEF Nested
  <2>3. Conflicting(x[2], y[2]) \/ Conflicting(y[2], x[2])
    BY <1>3, <2>1, <2>2, Zenon DEF Conflicting, Touch
  <2>4. y[2] # x[2]
    BY <1>3, Zenon
  <2>5. QED
    BY <1>3, <2>1, <2>3, <2>4, Zenon
<1>4. QED
  BY <1>1, <1>2, <1>3, Zenon

\* One step decides: the verdict is that of the check, of a plan of the families.
RulesInv ==
    /\ PlanTypes
    /\ verdict = "accepted" => Accepted
    /\ verdict = "refused" => ~Accepted

LEMMA RulesStart == RulesInit => RulesInv
<1> SUFFICES ASSUME RulesInit PROVE RulesInv
  OBVIOUS
<1>1. PICK f \in Families : plan \in [cwd : f.cwd, needs : f.needs, inputs : f.inputs,
                                      outputs : f.outputs, tools : f.tools, storage : f.storage]
  BY DEF RulesInit
<1>2. /\ plan.cwd \in f.cwd /\ plan.needs \in f.needs /\ plan.inputs \in f.inputs
      /\ plan.outputs \in f.outputs /\ plan.tools \in f.tools /\ plan.storage \in f.storage
  BY <1>1
<1>3. /\ f.storage \subseteq Location
      /\ plan.needs \in [Tasks -> SUBSET Tasks]
      /\ f.inputs \union f.outputs \union f.tools \subseteq [Tasks -> SUBSET Location]
      /\ plan.cwd \in [Tasks -> Location]
      /\ \A t \in Tasks, q \in DOMAIN Links : ~IsPrefix(q, plan.cwd[t])
  BY <1>2, RulesAssumption, Zenon DEF Tasks
<1>4. PlanTypes
  BY <1>2, <1>3 DEF PlanTypes
<1>5. QED
  BY <1>4 DEF RulesInit, RulesInv

LEMMA RulesStep == RulesInv /\ [RulesNext]_ruleVars => RulesInv'
<1> SUFFICES ASSUME RulesInv, [RulesNext]_ruleVars PROVE RulesInv'
  OBVIOUS
<1>1. plan' = plan
  BY DEF RulesNext, Judge, ruleVars
<1>2. Accepted' <=> Accepted
  BY <1>1 DEF Accepted, PolicyHolds, StorageApart, ToolsApart, Linked, WorkspaceOrdered, Compared,
              Accesses, Related, Walk, Dependents, Tasks, At, Resolved, Nested
<1>3. PlanTypes'
  BY <1>1 DEF RulesInv, PlanTypes, Tasks
<1>4. CASE Judge
  BY <1>2, <1>3, <1>4 DEF Judge, RulesInv
<1>5. CASE UNCHANGED ruleVars
  BY <1>2, <1>3, <1>5 DEF RulesInv, ruleVars
<1>6. QED
  BY <1>4, <1>5 DEF RulesNext

\* What a task reads and writes are declared paths and the files of its tools.
LEMMA TouchedIs ==
    ASSUME PlanTypes, Unlinked, NEW t \in Tasks
    PROVE  /\ Writes(t) = {At(t, rel) : rel \in plan.outputs[t]}
           /\ Reads(t) = {At(t, rel) : rel \in plan.inputs[t]} \union {Resolved(f) : f \in plan.tools[t]}
<1>1. \A rel \in plan.inputs[t] \union plan.outputs[t] : Resolved(At(t, rel)) = At(t, rel)
  BY DeclaredIs
<1>2. QED
  BY <1>1 DEF Writes, Reads

\* The policies and the tools say whether a task reads what it writes, but for
\* outputs that overlap one another.
LEMMA PoliciesAre ==
    ASSUME PlanTypes, Unlinked, NEW t \in Tasks
    PROVE  PolicyHolds(t) /\ ToolsApart(t) <=>
             /\ ~Touch(Writes(t), Reads(t))
             /\ \A o, p \in plan.outputs[t] : o # p => ~Nested(o, p)
<1>0. plan.cwd[t] \in Location
  BY DEF PlanTypes
<1>1. \A rel \in plan.inputs[t] \union plan.outputs[t] : rel \in Location /\ Resolved(At(t, rel)) = At(t, rel)
  BY DeclaredIs
<1>2. \A o, p \in plan.inputs[t] \union plan.outputs[t] : Nested(At(t, o), At(t, p)) <=> Nested(o, p)
  BY <1>0, <1>1, NestedBelow DEF At
<1>3. \A p, q : Nested(p, q) <=> Nested(q, p)
  BY Zenon DEF Nested
<1>4. Touch(Writes(t), Reads(t)) <=>
        \/ \E o \in plan.outputs[t], p \in plan.inputs[t] : Nested(At(t, o), At(t, p))
        \/ \E o \in plan.outputs[t], f \in plan.tools[t] : Nested(At(t, o), Resolved(f))
  <2>1. Touch(Writes(t), Reads(t)) <=>
          \E p \in {At(t, rel) : rel \in plan.outputs[t]} :
            \E q \in {At(t, rel) : rel \in plan.inputs[t]} \union {Resolved(f) : f \in plan.tools[t]} :
              Nested(p, q)
    BY TouchedIs DEF Touch
  <2>2. QED
    BY <2>1, Zenon
<1>5. ToolsApart(t) <=> ~\E o \in plan.outputs[t], f \in plan.tools[t] : Nested(At(t, o), Resolved(f))
  <2>1. \A f \in plan.tools[t], o \in plan.outputs[t] :
          Nested(Resolved(f), Resolved(At(t, o))) <=> Nested(At(t, o), Resolved(f))
    BY <1>1, <1>3
  <2>2. QED
    BY <2>1, Zenon DEF ToolsApart
<1>6. PolicyHolds(t) <=>
        /\ ~\E o \in plan.outputs[t], p \in plan.inputs[t] : Nested(At(t, o), At(t, p))
        /\ \A o, p \in plan.outputs[t] : o # p => ~Nested(o, p)
  BY <1>2, Zenon DEF PolicyHolds
<1>7. QED
  BY <1>4, <1>5, <1>6, Zenon

\* The cache is apart from what a task touches when its check says so.
LEMMA StorageIs ==
    ASSUME PlanTypes, Unlinked, NEW t \in Tasks
    PROVE  StorageApart(t) <=> ~Touch({Resolved(plan.storage)}, Reads(t) \union Writes(t))
<1> DEFINE s == Resolved(plan.storage)
<1>1. StorageApart(t) <=> /\ \A rel \in plan.inputs[t] \union plan.outputs[t] : ~Nested(s, At(t, rel))
                          /\ \A f \in plan.tools[t] : ~Nested(s, Resolved(f))
  BY Zenon DEF StorageApart
<1>2. Touch({s}, Reads(t) \union Writes(t)) <=>
        \E q \in {At(t, rel) : rel \in plan.inputs[t]} \union {Resolved(f) : f \in plan.tools[t]}
                   \union {At(t, rel) : rel \in plan.outputs[t]} : Nested(s, q)
  <2>1. Touch({s}, Reads(t) \union Writes(t)) <=> \E q \in Reads(t) \union Writes(t) : Nested(s, q)
    BY Zenon DEF Touch
  <2>2. QED
    BY <2>1, TouchedIs
<1> HIDE DEF s
<1>3. QED
  BY <1>1, <1>2, Zenon DEF s

LEMMA RulesSafe == RulesInv => RulesAgree
<1> SUFFICES ASSUME RulesInv PROVE RulesAgree
  OBVIOUS
<1>0. PlanTypes
  BY DEF RulesInv
<1>1. ASSUME Unlinked
      PROVE  /\ WorkspaceOrdered <=>
                  \A a, b \in Tasks : a # b /\ Conflicting(a, b) => Precedes(a, b) \/ Precedes(b, a)
             /\ \A t \in Tasks : PolicyHolds(t) /\ ToolsApart(t) <=>
                  /\ ~Touch(Writes(t), Reads(t))
                  /\ \A o, p \in plan.outputs[t] : o # p => ~Nested(o, p)
             /\ \A t \in Tasks : StorageApart(t) <=>
                  ~Touch({Resolved(plan.storage)}, Reads(t) \union Writes(t))
  BY <1>0, <1>1, WorkspaceIs, PoliciesAre, StorageIs, Zenon
<1>2. AcceptedAreSafe
  <2> SUFFICES ASSUME Accepted
               PROVE  /\ \A a, b \in Tasks : (a # b /\ Conflicting(a, b)) => Precedes(a, b) \/ Precedes(b, a)
                      /\ \A t \in Tasks : ~Touch(Writes(t), Reads(t))
                      /\ \A t \in Tasks : ~Touch({Resolved(plan.storage)}, Reads(t) \union Writes(t))
    BY Zenon DEF RulesInv, AcceptedAreSafe
  <2>1. Unlinked /\ WorkspaceOrdered
    BY Zenon DEF Accepted, Unlinked
  <2>2. \A t \in Tasks : PolicyHolds(t) /\ StorageApart(t) /\ ToolsApart(t)
    BY Zenon DEF Accepted
  <2>3. QED
    BY <1>1, <2>1, <2>2, Zenon
<1>3. RefusedAreNot
  <2> SUFFICES ASSUME ~Accepted
               PROVE  \/ \E a, b \in Tasks : /\ a # b /\ Conflicting(a, b)
                                             /\ ~Precedes(a, b) /\ ~Precedes(b, a)
                      \/ \E t \in Tasks :
                           \/ Touch(Writes(t), Reads(t))
                           \/ Touch({Resolved(plan.storage)}, Reads(t) \union Writes(t))
                           \/ \E rel \in plan.inputs[t] \union plan.outputs[t] : Linked(t, rel)
                           \/ \E o, p \in plan.outputs[t] : o # p /\ Nested(o, p)
    BY Zenon DEF RulesInv, RefusedAreNot
  <2>1. CASE ~Unlinked
    BY <2>1, Zenon DEF Unlinked
  <2>2. CASE Unlinked
    <3>1. \/ ~WorkspaceOrdered
          \/ \E t \in Tasks : ~(PolicyHolds(t) /\ ToolsApart(t)) \/ ~StorageApart(t)
      BY <2>2, Zenon DEF Accepted, Unlinked
    <3>2. QED
      BY <1>1, <2>2, <3>1, Zenon
  <2>3. QED
    BY <2>1, <2>2, Zenon
<1>4. QED
  BY <1>2, <1>3 DEF RulesAgree

\* Whatever the tasks, what they need and the paths they declare: the policies of a
\* plan's cached tasks are accepted only if every two tasks that touch the same files,
\* one of them writing, are ordered by what they need, no task reads what it writes
\* and the cache is apart from all of it; and refused only if that is not so, or for
\* a link or overlapping outputs of one task (executor/src/cache.rs: validate,
\* validate_storage, validate_workspace).
THEOREM CachedPlansAreSafe == RulesSpec => []RulesAgree
<1>1. RulesInit => RulesInv
  BY RulesStart
<1>2. RulesInv /\ [RulesNext]_ruleVars => RulesInv'
  BY RulesStep
<1>3. RulesInv => RulesAgree
  BY RulesSafe
<1>4. QED
  BY <1>1, <1>2, <1>3, PTL DEF RulesSpec

\* So it is in the composition of MCEngine.
THEOREM CachedPlansStaySafe == PartsSpec => []CachedPlansAgree
<1> DEFINE Holds == part = "rules" => RulesInv
<1>1. PartsInit => Holds
  BY RulesStart DEF PartsInit
<1>2. Holds /\ [PartsNext]_partsVars => Holds'
  <2> SUFFICES ASSUME Holds, [PartsNext]_partsVars, part' = "rules" PROVE RulesInv'
    OBVIOUS
  <2>1. part = "rules" /\ (RulesNext \/ UNCHANGED ruleVars)
    BY DEF PartsNext, partsVars
  <2>2. QED
    BY <2>1, RulesStep
<1>3. Holds => CachedPlansAgree
  BY RulesSafe DEF CachedPlansAgree
<1>4. QED
  BY <1>1, <1>2, <1>3, PTL DEF PartsSpec

-----------------------------------------------------------------------------
(* The keys of a matrix (Matrix). *)

\* FlattenSeq step by step: what it has made of the first i sequences.
Flattens(f, ss, X) ==
    /\ f \in [0..Len(ss) -> Seq(X)]
    /\ f[0] = <<>>
    /\ \A i \in 1..Len(ss) : f[i] = f[i - 1] \o ss[i]

LEMMA FlattenExists ==
    ASSUME NEW X, NEW ss \in Seq(Seq(X))
    PROVE  \E f : Flattens(f, ss, X)
<1> DEFINE m == Len(ss)
           Upto(f, k) == /\ f \in [0..k -> Seq(X)]
                         /\ f[0] = <<>>
                         /\ \A i \in 1..k : f[i] = f[i - 1] \o ss[i]
           Short == {k \in 0..m : ~\E f : Upto(f, k)}
<1>0. m \in Nat /\ \A i \in 1..m : ss[i] \in Seq(X)
  OBVIOUS
<1> HIDE DEF Upto
<1>1. ASSUME Short # {} PROVE FALSE
  <2>1. Short \subseteq Nat
    BY <1>0
  <2>2. PICK k \in Short : \A j \in Short : k <= j
    BY <1>1, <2>1, Least, Zenon
  <2>3. k # 0
    <3> DEFINE f == [i \in 0..0 |-> <<>>]
    <3>1. Upto(f, 0)
      <4>1. <<>> \in Seq(X)
        OBVIOUS
      <4>2. f \in [0..0 -> Seq(X)] /\ f[0] = <<>>
        BY <4>1
      <4>3. \A i \in 1..0 : f[i] = f[i - 1] \o ss[i]
        OBVIOUS
      <4>4. QED
        BY <4>2, <4>3 DEF Upto
    <3>2. QED
      <4> HIDE DEF f
      <4>1. \E h : Upto(h, 0)
        BY <3>1
      <4>2. QED
        BY <2>2, <4>1
  <2>4. k \in 1..m /\ k - 1 \in 0..m /\ k - 1 < k /\ k - 1 \in Nat /\ k \in Nat
    BY <1>0, <2>2, <2>3
  <2>5. k - 1 \notin Short
    <3> HIDE DEF Short
    <3>1. QED
      BY <2>2, <2>4
  <2>6. PICK f : Upto(f, k - 1)
    BY <2>4, <2>5
  <2> DEFINE g == [i \in 0..k |-> IF i = k THEN f[k - 1] \o ss[k] ELSE f[i]]
  <2>7. f[k - 1] \o ss[k] \in Seq(X)
    <3>1. f[k - 1] \in Seq(X) /\ ss[k] \in Seq(X)
      BY <1>0, <2>4, <2>6 DEF Upto
    <3>2. QED
      BY <3>1
  <2>8. \A i \in 0..k : i # k => i \in 0..(k - 1)
    BY <2>4
  <2>9. g \in [0..k -> Seq(X)]
    BY <2>6, <2>7, <2>8 DEF Upto
  <2>10. g[0] = <<>>
    BY <2>4, <2>6 DEF Upto
  <2>11. ASSUME NEW i \in 1..k PROVE g[i] = g[i - 1] \o ss[i]
    <3>1. i - 1 \in 0..k /\ i \in 0..k /\ i - 1 # k
      BY <2>4
    <3>2. g[i - 1] = f[i - 1]
      BY <3>1
    <3>3. CASE i = k
      BY <3>1, <3>2, <3>3, Zenon
    <3>4. CASE i # k
      <4>1. i \in 1..(k - 1)
        BY <2>4, <3>4
      <4>2. g[i] = f[i]
        BY <3>1, <3>4
      <4>3. f[i] = f[i - 1] \o ss[i]
        BY <2>6, <4>1, Zenon DEF Upto
      <4>4. QED
        BY <3>2, <4>2, <4>3, Zenon
    <3>5. QED
      BY <3>3, <3>4, Zenon
  <2>12. Upto(g, k)
    <3> HIDE DEF g
    <3>1. QED
      BY <2>9, <2>10, <2>11, Zenon DEF Upto
  <2>13. QED
    <3> HIDE DEF g
    <3>1. \E h : Upto(h, k)
      BY <2>12
    <3>2. QED
      BY <2>2, <3>1
<1>2. m \notin Short
  BY <1>1
<1>3. PICK f : Upto(f, m)
  BY <1>0, <1>2
<1>4. Flattens(f, ss, X)
  BY <1>3, Zenon DEF Flattens, Upto
<1>5. QED
  BY <1>4

\* There is one way to go through it, and it ends with the result.
LEMMA FlattenIs ==
    ASSUME NEW X, NEW ss \in Seq(Seq(X)), NEW f, Flattens(f, ss, X)
    PROVE  FlattenSeq(ss) = f[Len(ss)] /\ FlattenSeq(ss) \in Seq(X)
<1> DEFINE m == Len(ss)
<1>0. m \in Nat /\ f[m] \in Seq(X)
  <2>1. m \in Nat
    OBVIOUS
  <2>2. m \in 0..m
    BY <2>1
  <2>3. QED
    BY <2>1, <2>2, Zenon DEF Flattens
<1>1. CASE m = 0
  BY <1>0, <1>1 DEF Flattens, FlattenSeq
<1>2. CASE m # 0
  <2> DEFINE Folded(g) == g = [i \in 1..m |-> IF i = 1 THEN ss[i] ELSE g[i - 1] \o ss[i]]
             g == CHOOSE g : Folded(g)
             own == [i \in 1..m |-> f[i]]
  <2>1. Folded(own)
    <3>1. ASSUME NEW i \in 1..m PROVE f[i] = IF i = 1 THEN ss[i] ELSE own[i - 1] \o ss[i]
      <4>1. f[i] = f[i - 1] \o ss[i]
        BY <3>1, Zenon DEF Flattens
      <4>2. CASE i = 1
        <5>1. f[i - 1] = <<>> /\ ss[i] \in Seq(X)
          BY <1>0, <4>2 DEF Flattens
        <5>2. <<>> \o ss[i] = ss[i]
          BY <5>1
        <5>3. QED
          BY <4>1, <4>2, <5>1, <5>2
      <4>3. CASE i # 1
        <5>1. i - 1 \in 1..m
          BY <1>0, <4>3
        <5>2. QED
          BY <4>1, <4>3, <5>1, Zenon
      <4>4. QED
        BY <4>2, <4>3
    <3>2. QED
      BY <3>1, Zenon
  <2>2. Folded(g)
    <3> HIDE DEF own, Folded
    <3>1. \E h : Folded(h)
      BY <2>1
    <3>2. QED
      BY <3>1
  <2> HIDE DEF g
  <2> DEFINE Off == {i \in 1..m : g[i] # f[i]}
  <2>3. ASSUME Off # {} PROVE FALSE
    <3>1. Off \subseteq Nat
      BY <1>0
    <3>2. PICK i \in Off : \A j \in Off : i <= j
      BY <2>3, <3>1, Least, Zenon
    <3>3. i \in 1..m /\ g[i] # f[i] /\ i \in Nat
      BY <1>0, <3>2
    <3>4. g[i] = IF i = 1 THEN ss[i] ELSE g[i - 1] \o ss[i]
      BY <2>2, <3>3, Zenon
    <3>5. own[i] = IF i = 1 THEN ss[i] ELSE own[i - 1] \o ss[i]
      <4> HIDE DEF own
      <4>1. QED
        BY <2>1, <3>3, Zenon
    <3>6. own[i] = f[i]
      BY <3>3
    <3>7. i # 1
      BY <3>3, <3>4, <3>5, <3>6
    <3>8. i - 1 \in 1..m /\ i - 1 < i
      BY <1>0, <3>3, <3>7
    <3>9. g[i - 1] = f[i - 1]
      <4>1. i - 1 \notin Off
        BY <3>2, <3>3, <3>8
      <4>2. QED
        BY <3>8, <4>1
    <3>10. own[i - 1] = f[i - 1]
      BY <3>8
    <3>11. QED
      <4> HIDE DEF own
      <4>1. QED
        BY <3>3, <3>4, <3>5, <3>6, <3>7, <3>9, <3>10, Zenon
  <2>4. g[m] = f[m]
    BY <1>0, <1>2, <2>3
  <2>5. FlattenSeq(ss) = g[m]
    BY <1>2 DEF FlattenSeq, g
  <2>6. QED
    BY <1>0, <2>4, <2>5
<1>3. QED
  BY <1>1, <1>2

\* What a flattened sequence holds was in one of its parts.
LEMMA FlattenHolds == ASSUME NEW X, NEW ss \in Seq(Seq(X)) PROVE FlattenSeq(ss) \in Seq(X)
<1>1. PICK f : Flattens(f, ss, X)
  BY FlattenExists
<1>2. QED
  BY <1>1, FlattenIs

LEMMA JoinedIs ==
    ASSUME NEW X, NEW a \in Seq(X), NEW b \in Seq(X)
    PROVE  /\ a \o b \in Seq(X) /\ Len(a \o b) = Len(a) + Len(b) /\ Len(a) \in Nat /\ Len(b) \in Nat
           /\ \A i \in 1..Len(a) : (a \o b)[i] = a[i]
           /\ \A i \in 1..Len(b) : (a \o b)[Len(a) + i] = b[i]
<1>1. a \o b \in Seq(X) /\ Len(a \o b) = Len(a) + Len(b) /\ Len(a) \in Nat /\ Len(b) \in Nat
  OBVIOUS
<1>2. \A i \in 1..Len(a) : (a \o b)[i] = a[i]
  OBVIOUS
<1>3. \A i \in 1..Len(b) : (a \o b)[Len(a) + i] = b[i]
  OBVIOUS
<1>4. QED
  BY <1>1, <1>2, <1>3

LEMMA SeparatedIs ==
    ASSUME NEW X, NEW a \in Seq(X), NEW z \in X
    PROVE  /\ a \o <<z>> \in Seq(X) /\ Len(a \o <<z>>) = Len(a) + 1 /\ Len(a) \in Nat
           /\ \A i \in 1..Len(a) : (a \o <<z>>)[i] = a[i]
           /\ (a \o <<z>>)[Len(a) + 1] = z
  OBVIOUS

\* Two ways to cut one sequence at one place are one way.
LEMMA CutOnce ==
    ASSUME NEW X, NEW a \in Seq(X), NEW b \in Seq(X), NEW p \in Seq(X), NEW q \in Seq(X),
           a \o p = b \o q, Len(a) = Len(b)
    PROVE  a = b /\ p = q
<1> DEFINE w == a \o p
<1>1. Len(a) \in Nat /\ Len(b) \in Nat /\ Len(p) \in Nat /\ Len(q) \in Nat
  OBVIOUS
<1>2. Len(w) = Len(a) + Len(p) /\ Len(w) = Len(b) + Len(q)
  <2>1. Len(a \o p) = Len(a) + Len(p) /\ Len(b \o q) = Len(b) + Len(q)
    BY JoinedIs, Zenon
  <2>2. QED
    BY <2>1
<1>3. Len(p) = Len(q)
  BY <1>1, <1>2
<1>4. ASSUME NEW i \in 1..Len(a) PROVE a[i] = b[i]
  <2>1. w[i] = a[i]
    OBVIOUS
  <2>2. (b \o q)[i] = b[i]
    OBVIOUS
  <2>3. QED
    BY <2>1, <2>2
<1>5. ASSUME NEW i \in 1..Len(p) PROVE p[i] = q[i]
  <2>1. w[Len(a) + i] = p[i]
    OBVIOUS
  <2>2. (b \o q)[Len(b) + i] = q[i]
    BY <1>3
  <2>3. QED
    BY <2>1, <2>2
<1>6. a = b
  BY <1>4, SeqEqual
<1>7. p = q
  BY <1>3, <1>5, SeqEqual
<1>8. QED
  BY <1>6, <1>7

\* The symbols of what is written of a text, and those of keys.
Coded == Plain \cup {"%"}
KeySymbol == Coded \cup {"=", ","}

Separated(a, z, p) == (a \o <<z>>) \o p
Without(z, p) == \A i \in 1..Len(p) : p[i] # z

\* A sequence is cut at the last of its separators in one way.
LEMMA LastSeparator ==
    ASSUME NEW a \in Seq(KeySymbol), NEW b \in Seq(KeySymbol), NEW p \in Seq(KeySymbol), NEW q \in Seq(KeySymbol), NEW z \in KeySymbol,
           Without(z, p), Without(z, q),
           Separated(a, z, p) = Separated(b, z, q)
    PROVE  a = b /\ p = q
<1> DEFINE c == a \o <<z>>
           d == b \o <<z>>
<1>0. Len(a) \in Nat /\ Len(b) \in Nat /\ Len(p) \in Nat /\ Len(q) \in Nat
  OBVIOUS
<1>1. c \in Seq(KeySymbol) /\ Len(c) = Len(a) + 1 /\ c[Len(a) + 1] = z
  OBVIOUS
<1>2. d \in Seq(KeySymbol) /\ Len(d) = Len(b) + 1 /\ d[Len(b) + 1] = z
  OBVIOUS
<1>3. c \o p = d \o q
  BY Zenon DEF Separated
<1> HIDE DEF c, d
<1>30. (\A i \in 1..Len(p) : p[i] # z) /\ \A i \in 1..Len(q) : q[i] # z
  BY DEF Without
<1>4. Len(c) + Len(p) = Len(d) + Len(q)
  <2>1. Len(c \o p) = Len(c) + Len(p) /\ Len(d \o q) = Len(d) + Len(q)
    BY <1>1, <1>2, JoinedIs, Zenon
  <2>2. QED
    BY <1>3, <2>1
<1>5. ~(Len(c) < Len(d))
  <2> SUFFICES ASSUME Len(c) < Len(d) PROVE FALSE
    OBVIOUS
  <2> DEFINE i == Len(d) - Len(c)
  <2>1. i \in 1..Len(p) /\ Len(d) = Len(c) + i /\ Len(d) \in 1..Len(d)
    BY <1>0, <1>1, <1>2, <1>4
  <2> HIDE DEF i
  <2>2. (c \o p)[Len(c) + i] = p[i]
    BY <1>1, <2>1
  <2>3. (d \o q)[Len(d)] = d[Len(d)]
    BY <1>2, <2>1
  <2>4. p[i] = z
    BY <1>2, <1>3, <2>1, <2>2, <2>3, Zenon
  <2>5. QED
    BY <1>30, <2>1, <2>4
<1>6. ~(Len(d) < Len(c))
  <2> SUFFICES ASSUME Len(d) < Len(c) PROVE FALSE
    OBVIOUS
  <2> DEFINE i == Len(c) - Len(d)
  <2>1. i \in 1..Len(q) /\ Len(c) = Len(d) + i /\ Len(c) \in 1..Len(c)
    BY <1>0, <1>1, <1>2, <1>4
  <2> HIDE DEF i
  <2>2. (d \o q)[Len(d) + i] = q[i]
    BY <1>2, <2>1
  <2>3. (c \o p)[Len(c)] = c[Len(c)]
    BY <1>1, <2>1
  <2>4. q[i] = z
    BY <1>1, <1>3, <2>1, <2>2, <2>3, Zenon
  <2>5. QED
    BY <1>30, <2>1, <2>4
<1>7. Len(c) = Len(d)
  BY <1>0, <1>1, <1>2, <1>5, <1>6
<1>8. c = d /\ p = q
  BY <1>1, <1>2, <1>3, <1>7, CutOnce, Zenon
<1>9. a = b
  <2>1. Len(a) = Len(b)
    BY <1>0, <1>1, <1>2, <1>7
  <2>2. <<z>> \in Seq(KeySymbol)
    OBVIOUS
  <2>3. a \o <<z>> = b \o <<z>>
    BY <1>8, Zenon DEF c, d
  <2>4. QED
    BY <2>1, <2>2, <2>3, CutOnce, Zenon
<1>10. QED
  BY <1>8, <1>9

\* How one symbol is written.
Piece(s) == IF s \in Plain THEN <<s>> ELSE <<"%", Code[s]>>

LEMMA PieceIs ==
    ASSUME NEW s \in Symbol
    PROVE  /\ Piece(s) \in Seq(Coded)
           /\ s \in Plain => Len(Piece(s)) = 1 /\ Piece(s)[1] = s
           /\ s \notin Plain => /\ Len(Piece(s)) = 2 /\ Piece(s)[1] = "%" /\ Piece(s)[2] = Code[s]
                                /\ s \in DOMAIN Code /\ Code[s] \in Plain
           /\ Len(Piece(s)) \in {1, 2} /\ Piece(s)[Len(Piece(s))] \in Plain
<1>1. CASE s \in Plain
  <2>1. Piece(s) = <<s>> /\ s \in Coded
    BY <1>1 DEF Piece, Coded
  <2>2. QED
    BY <1>1, <2>1
<1>2. CASE s \notin Plain
  <2>1. s \in DOMAIN Code /\ Code[s] \in Plain
    BY <1>2, MatrixAssumption, Zenon DEF Symbol
  <2>2. Piece(s) = <<"%", Code[s]>> /\ "%" \in Coded /\ Code[s] \in Coded
    BY <1>2, <2>1 DEF Piece, Coded
  <2>3. QED
    BY <1>2, <2>1, <2>2
<1>3. QED
  BY <1>1, <1>2

LEMMA PieceEnds ==
    ASSUME NEW a \in Seq(Coded), NEW s \in Symbol
    PROVE  LET w == a \o Piece(s) IN w # <<>> /\ w[Len(w)] \in Plain
<1> DEFINE p == Piece(s)
<1>1. p \in Seq(Coded) /\ (Len(p) = 1 \/ Len(p) = 2) /\ p[Len(p)] \in Plain
  BY PieceIs
<1> HIDE DEF p
<1>2. Len(p) \in Nat /\ Len(p) # 0 /\ Len(p) \in 1..Len(p)
  BY <1>1
<1>3. Len(a \o p) = Len(a) + Len(p) /\ Len(a) \in Nat /\ (a \o p)[Len(a) + Len(p)] = p[Len(p)]
  BY <1>1, <1>2, JoinedIs
<1>4. a \o p # <<>>
  BY <1>2, <1>3
<1>5. QED
  BY <1>1, <1>3, <1>4 DEF p

\* Nothing, or the end of a symbol.
Closed(a) == a # <<>> => a[Len(a)] \in Plain

\* The last symbol can be read off what is written.
LEMMA LastPiece ==
    ASSUME NEW a \in Seq(Coded), NEW b \in Seq(Coded), Closed(a), Closed(b),
           NEW s \in Symbol, NEW r \in Symbol, a \o Piece(s) = b \o Piece(r)
    PROVE  a = b /\ s = r
<1> DEFINE p == Piece(s)
           q == Piece(r)
<1>1. p \in Seq(Coded) /\ q \in Seq(Coded) /\ Len(p) \in {1, 2} /\ Len(q) \in {1, 2}
  BY PieceIs
<1>2. Len(a) \in Nat /\ Len(b) \in Nat
  OBVIOUS
<1>3. a \o p = b \o q
  OBVIOUS
<1>4. /\ s \in Plain => Len(p) = 1 /\ p[1] = s
      /\ s \notin Plain => Len(p) = 2 /\ p[1] = "%" /\ p[2] = Code[s] /\ s \in DOMAIN Code
      /\ r \in Plain => Len(q) = 1 /\ q[1] = r
      /\ r \notin Plain => Len(q) = 2 /\ q[1] = "%" /\ q[2] = Code[r] /\ r \in DOMAIN Code
  BY PieceIs
<1>40. (s \in Plain <=> Len(p) = 1) /\ (r \in Plain <=> Len(q) = 1)
  BY PieceIs
<1> HIDE DEF p, q
<1>5. Len(a) + Len(p) = Len(b) + Len(q)
  <2>1. Len(a \o p) = Len(a) + Len(p) /\ Len(b \o q) = Len(b) + Len(q)
    BY <1>1
  <2>2. QED
    BY <1>3, <2>1
<1>6. ASSUME NEW c \in Seq(Coded), NEW d \in Seq(Coded), Closed(c), NEW u \in Seq(Coded), NEW v \in Seq(Coded),
             Len(u) = 1, Len(v) = 2, v[1] = "%", c \o u = d \o v
      PROVE  FALSE
  <2>1. Len(c) \in Nat /\ Len(d) \in Nat
    OBVIOUS
  <2>2. Len(c) = Len(d) + 1
    <3>1. Len(c \o u) = Len(c) + Len(u) /\ Len(d \o v) = Len(d) + Len(v)
      BY <1>6, JoinedIs, Zenon
    <3>2. QED
      BY <1>6, <2>1, <3>1
  <2>3. (c \o u)[Len(c)] = c[Len(c)]
    BY <2>1, <2>2
  <2>4. (d \o v)[Len(d) + 1] = v[1]
    <3>1. 1 \in 1..Len(v)
      BY <1>6
    <3>2. QED
      BY <3>1, JoinedIs
  <2>5. c[Len(c)] = "%"
    BY <1>6, <2>2, <2>3, <2>4, Zenon
  <2>6. c # <<>>
    BY <2>1, <2>2
  <2>7. QED
    BY <1>6, <2>5, <2>6, MatrixAssumption, Zenon DEF Closed
<1>7. Len(p) = Len(q)
  <2>1. ~(Len(p) = 1 /\ Len(q) = 2)
    <3> SUFFICES ASSUME Len(p) = 1, Len(q) = 2 PROVE FALSE
      OBVIOUS
    <3>1. q[1] = "%"
      BY <1>4
    <3>2. QED
      BY <1>1, <1>3, <1>6, <3>1, Zenon
  <2>2. ~(Len(p) = 2 /\ Len(q) = 1)
    <3> SUFFICES ASSUME Len(p) = 2, Len(q) = 1 PROVE FALSE
      OBVIOUS
    <3>1. p[1] = "%"
      BY <1>4
    <3>2. b \o q = a \o p
      BY <1>3
    <3>3. QED
      BY <1>1, <1>6, <3>1, <3>2, Zenon
  <2>3. QED
    BY <1>1, <2>1, <2>2
<1>8. Len(a) = Len(b)
  BY <1>1, <1>2, <1>5, <1>7
<1>9. a = b /\ p = q
  BY <1>1, <1>3, <1>8, CutOnce, Zenon
<1>10. s = r
  <2>1. CASE s \in Plain
    <3>1. r \in Plain
      BY <1>40, <1>7, <2>1
    <3>2. QED
      BY <1>4, <1>9, <2>1, <3>1
  <2>2. CASE s \notin Plain
    <3>1. r \notin Plain
      BY <1>40, <1>7, <2>2
    <3>2. Code[s] = Code[r] /\ s \in DOMAIN Code /\ r \in DOMAIN Code
      BY <1>4, <1>9, <2>2, <3>1
    <3>3. QED
      BY <3>2, MatrixAssumption, Zenon
  <2>3. QED
    BY <2>1, <2>2
<1>11. QED
  BY <1>9, <1>10

Pieces(text) == [i \in DOMAIN text |-> Piece(text[i])]

LEMMA ComponentIs ==
    ASSUME NEW text \in Seq(Symbol)
    PROVE  /\ Pieces(text) \in Seq(Seq(Coded)) /\ Len(Pieces(text)) = Len(text)
           /\ Component(text) = FlattenSeq(Pieces(text)) /\ Component(text) \in Seq(Coded)
<1>1. \A i \in 1..Len(text) : Piece(text[i]) \in Seq(Coded)
  <2>1. \A i \in 1..Len(text) : text[i] \in Symbol
    OBVIOUS
  <2>2. QED
    BY <2>1, PieceIs
<1>2. Pieces(text) \in Seq(Seq(Coded)) /\ Len(Pieces(text)) = Len(text)
  <2>1. Pieces(text) = [i \in 1..Len(text) |-> Piece(text[i])] /\ Len(text) \in Nat
    BY DEF Pieces
  <2>2. QED
    BY <1>1, <2>1
<1>3. Component(text) = FlattenSeq(Pieces(text))
  BY Zenon DEF Component, Pieces, Piece
<1>4. QED
  BY <1>2, <1>3, FlattenHolds

\* Different texts are written differently.
LEMMA ComponentTells ==
    ASSUME NEW t \in Seq(Symbol), NEW u \in Seq(Symbol), Component(t) = Component(u)
    PROVE  t = u
<1>1. PICK f : Flattens(f, Pieces(t), Coded)
  BY ComponentIs, FlattenExists
<1>2. PICK h : Flattens(h, Pieces(u), Coded)
  BY ComponentIs, FlattenExists
<1> DEFINE m == Len(t)
           k == Len(u)
<1>0. m \in Nat /\ k \in Nat /\ (\A i \in 1..m : t[i] \in Symbol) /\ \A j \in 1..k : u[j] \in Symbol
  OBVIOUS
<1>3. /\ f \in [0..m -> Seq(Coded)] /\ f[0] = <<>> /\ \A i \in 1..m : f[i] = f[i - 1] \o Piece(t[i])
      /\ h \in [0..k -> Seq(Coded)] /\ h[0] = <<>> /\ \A j \in 1..k : h[j] = h[j - 1] \o Piece(u[j])
  <2>1. Len(Pieces(t)) = m /\ Len(Pieces(u)) = k
    BY ComponentIs
  <2>2. (\A i \in 1..m : Pieces(t)[i] = Piece(t[i])) /\ \A j \in 1..k : Pieces(u)[j] = Piece(u[j])
    BY DEF Pieces
  <2>3. QED
    BY <1>1, <1>2, <2>1, <2>2 DEF Flattens
<1>4. Component(t) = f[m] /\ Component(u) = h[k]
  BY <1>1, <1>2, ComponentIs, FlattenIs
<1> HIDE DEF m, k
<1>5. ASSUME NEW n \in Nat, NEW s \in Seq(Symbol), NEW g \in [0..n -> Seq(Coded)], NEW i \in 1..n, s[i] \in Symbol,
             g[i] = g[i - 1] \o Piece(s[i])
      PROVE  g[i] # <<>> /\ g[i][Len(g[i])] \in Plain
  <2>1. i - 1 \in 0..n
    OBVIOUS
  <2>2. g[i - 1] \in Seq(Coded)
    BY <2>1
  <2>3. LET w == g[i - 1] \o Piece(s[i]) IN w # <<>> /\ w[Len(w)] \in Plain
    BY <1>5, <2>2, PieceEnds, Zenon
  <2>4. QED
    BY <1>5, <2>3, Zenon
<1>6. /\ \A i \in 1..m : f[i] # <<>> /\ f[i][Len(f[i])] \in Plain
      /\ \A j \in 1..k : h[j] # <<>> /\ h[j][Len(h[j])] \in Plain
  <2>1. \A i \in 1..m : f[i] # <<>> /\ f[i][Len(f[i])] \in Plain
    BY <1>0, <1>3, <1>5, Zenon
  <2>2. \A j \in 1..k : h[j] # <<>> /\ h[j][Len(h[j])] \in Plain
    BY <1>0, <1>3, <1>5, Zenon
  <2>3. QED
    BY <2>1, <2>2
<1>7. (\A i \in 0..m : f[i] \in Seq(Coded) /\ Closed(f[i])) /\ \A j \in 0..k : h[j] \in Seq(Coded) /\ Closed(h[j])
  <2>1. ASSUME NEW i \in 0..m PROVE f[i] \in Seq(Coded) /\ Closed(f[i])
    <3>1. i = 0 \/ i \in 1..m
      BY <1>0
    <3>2. QED
      BY <1>3, <1>6, <3>1, Zenon DEF Closed
  <2>2. ASSUME NEW j \in 0..k PROVE h[j] \in Seq(Coded) /\ Closed(h[j])
    <3>1. j = 0 \/ j \in 1..k
      BY <1>0
    <3>2. QED
      BY <1>3, <1>6, <3>1, Zenon DEF Closed
  <2>3. QED
    BY <2>1, <2>2
<1> DEFINE Same(i, j) == i = j /\ \A l \in 1..i : t[l] = u[l]
           Off == {i \in 0..m : \E j \in 0..k : f[i] = h[j] /\ ~Same(i, j)}
<1>8. ASSUME Off # {} PROVE FALSE
  <2>1. Off \subseteq Nat
    BY <1>0
  <2>2. PICK i \in Off : \A l \in Off : i <= l
    BY <1>8, <2>1, Least, Zenon
  <2>3. PICK j \in 0..k : f[i] = h[j] /\ ~Same(i, j)
    BY <2>2
  <2>4. i \in 0..m /\ i \in Nat /\ j \in Nat
    BY <1>0, <2>2
  <2>5. CASE i = 0
    <3>1. j = 0
      BY <1>0, <1>3, <1>6, <2>3, <2>5
    <3>2. Same(i, j)
      BY <2>5, <3>1
    <3>3. QED
      BY <2>3, <3>2
  <2>6. CASE j = 0
    <3>1. i = 0
      BY <1>0, <1>3, <1>6, <2>3, <2>4, <2>6
    <3>2. QED
      BY <2>5, <3>1
  <2>7. CASE i # 0 /\ j # 0
    <3>1. i \in 1..m /\ j \in 1..k /\ i - 1 \in 0..m /\ j - 1 \in 0..k /\ i - 1 < i
      BY <1>0, <2>4, <2>7
    <3>2. f[i - 1] \o Piece(t[i]) = h[j - 1] \o Piece(u[j])
      BY <1>3, <2>3, <3>1, Zenon
    <3>3. f[i - 1] = h[j - 1] /\ t[i] = u[j]
      <4>1. /\ f[i - 1] \in Seq(Coded) /\ Closed(f[i - 1]) /\ t[i] \in Symbol
            /\ h[j - 1] \in Seq(Coded) /\ Closed(h[j - 1]) /\ u[j] \in Symbol
        BY <1>0, <1>7, <3>1
      <4> DEFINE a == f[i - 1]
                 b == h[j - 1]
      <4>2. a \in Seq(Coded) /\ b \in Seq(Coded) /\ Closed(a) /\ Closed(b)
        BY <4>1
      <4>3. a \o Piece(t[i]) = b \o Piece(u[j])
        BY <3>2
      <4> HIDE DEF a, b
      <4>4. a = b /\ t[i] = u[j]
        <5>1. t[i] \in Symbol /\ u[j] \in Symbol
          BY <4>1
        <5>2. \A s, r \in Symbol : a \o Piece(s) = b \o Piece(r) => a = b /\ s = r
          BY <4>2, LastPiece, Zenon
        <5>3. QED
          BY <4>3, <5>1, <5>2, Zenon
      <4>5. QED
        BY <4>4 DEF a, b
    <3>4. i - 1 \notin Off
      <4> HIDE DEF Off
      <4>1. QED
        BY <2>2, <2>4, <3>1
    <3>5. Same(i - 1, j - 1)
      <4> HIDE DEF Same
      <4>1. QED
        BY <3>1, <3>3, <3>4
    <3>6. i = j
      BY <2>4, <3>5
    <3>7. ASSUME NEW l \in 1..i PROVE t[l] = u[l]
      <4>1. l = i \/ l \in 1..(i - 1)
        BY <2>4
      <4>2. QED
        BY <3>3, <3>5, <3>6, <4>1
    <3>8. QED
      BY <2>3, <3>6, <3>7
  <2>8. QED
    BY <2>5, <2>6, <2>7
<1>9. m \in 0..m /\ k \in 0..k
  BY <1>0
<1>10. Same(m, k)
  <2> HIDE DEF Same
  <2>1. f[m] = h[k]
    BY <1>4, Zenon
  <2>2. QED
    BY <1>8, <1>9, <2>1
<1>11. QED
  BY <1>10, SeqEqual DEF m, k

\* The cases of one choice.
Single(c) ==
    \/ \E s \in Seq(Symbol) : c = Named(s)
    \/ \E s, v \in Seq(Symbol) : c = AxisCase(s, v)

LEMMA Widened == ASSUME NEW X, NEW Y, X \subseteq Y, NEW w \in Seq(X) PROVE w \in Seq(Y)
<1>1. \A i \in 1..Len(w) : w[i] \in Y
  OBVIOUS
<1>2. QED
  BY <1>1

\* What is written of a text holds no separator.
LEMMA ComponentHolds ==
    ASSUME NEW s \in Seq(Symbol)
    PROVE  /\ Component(s) \in Seq(KeySymbol)
           /\ \A i \in 1..Len(Component(s)) : Component(s)[i] # "=" /\ Component(s)[i] # ","
<1> DEFINE w == Component(s)
<1>1. w \in Seq(Coded)
  BY ComponentIs
<1> HIDE DEF w
<1>2. "=" \notin Coded /\ "," \notin Coded /\ Coded \subseteq KeySymbol
  BY MatrixAssumption, Zenon DEF Coded, KeySymbol
<1>3. w \in Seq(KeySymbol)
  BY <1>1, <1>2, Widened, Zenon
<1>4. \A i \in 1..Len(w) : w[i] \in Coded
  BY <1>1
<1>5. \A i \in 1..Len(w) : w[i] # "=" /\ w[i] # ","
  BY <1>2, <1>4, Zenon
<1>6. QED
  BY <1>3, <1>5, Zenon DEF w

LEMMA AxisKeyIs ==
    ASSUME NEW s \in Seq(Symbol), NEW v \in Seq(Symbol)
    PROVE  LET c == AxisCase(s, v)
               n == Len(Component(s)) + 1
           IN  /\ c.key \in Seq(KeySymbol) /\ c.choices = <<<<s, v>>>>
               /\ c.key = (Component(s) \o <<"=">>) \o Component(v)
               /\ n \in 1..Len(c.key) /\ c.key[n] = "="
               /\ \A i \in 1..Len(c.key) : c.key[i] # ","
<1> DEFINE x == Component(s)
           y == Component(v)
           c == AxisCase(s, v)
           e == x \o <<"=">>
<1>1. c.key = e \o y /\ c.choices = <<<<s, v>>>>
  BY DEF AxisCase
<1>2. x \in Seq(KeySymbol) /\ \A i \in 1..Len(x) : x[i] # ","
  BY ComponentHolds, Zenon
<1>3. y \in Seq(KeySymbol) /\ \A i \in 1..Len(y) : y[i] # ","
  BY ComponentHolds, Zenon
<1> HIDE DEF x, y, c
<1>5. /\ e \in Seq(KeySymbol) /\ Len(e) = Len(x) + 1 /\ Len(x) \in Nat
      /\ \A i \in 1..Len(x) : e[i] = x[i]
      /\ e[Len(x) + 1] = "="
  <2>1. x \in Seq(KeySymbol) /\ "=" \in KeySymbol
    BY <1>2, Zenon DEF KeySymbol
  <2>2. QED
    BY <2>1, SeparatedIs, Zenon
<1> HIDE DEF e
<1>6. \A i \in 1..Len(e) : e[i] # ","
  <2> SUFFICES ASSUME NEW i \in 1..Len(e) PROVE e[i] # ","
    BY Zenon
  <2>1. i \in 1..Len(x) \/ i = Len(x) + 1
    BY <1>5
  <2>2. "=" # ","
    OBVIOUS
  <2>3. QED
    BY <1>2, <1>5, <2>1, <2>2, Zenon
<1>7. /\ e \o y \in Seq(KeySymbol) /\ Len(e \o y) = Len(e) + Len(y) /\ Len(e) \in Nat /\ Len(y) \in Nat
      /\ \A i \in 1..Len(e) : (e \o y)[i] = e[i]
      /\ \A i \in 1..Len(y) : (e \o y)[Len(e) + i] = y[i]
  <2>1. e \in Seq(KeySymbol) /\ y \in Seq(KeySymbol)
    BY <1>3, <1>5, Zenon
  <2>2. QED
    BY <2>1, JoinedIs
<1>8. ASSUME NEW i \in 1..Len(e \o y) PROVE (e \o y)[i] # ","
  <2>1. CASE i <= Len(e)
    <3>1. i \in 1..Len(e)
      BY <1>7, <2>1
    <3>2. QED
      BY <1>6, <1>7, <3>1, Zenon
  <2>2. CASE i > Len(e)
    <3>1. i - Len(e) \in 1..Len(y) /\ Len(e) + (i - Len(e)) = i
      BY <1>7, <2>2
    <3>2. QED
      BY <1>3, <1>7, <3>1, Zenon
  <2>3. i <= Len(e) \/ i > Len(e)
    BY <1>7
  <2>4. QED
    BY <2>1, <2>2, <2>3, Zenon
<1>9. Len(x) + 1 \in 1..Len(e \o y) /\ (e \o y)[Len(x) + 1] = "="
  <2>1. Len(x) + 1 \in 1..Len(e) /\ Len(x) + 1 \in 1..Len(e \o y)
    BY <1>5, <1>7
  <2>2. QED
    BY <1>5, <1>7, <2>1
<1>10. QED
  BY <1>1, <1>7, <1>8, <1>9, Zenon DEF x, y, c, e

LEMMA NamedKeyIs ==
    ASSUME NEW s \in Seq(Symbol)
    PROVE  Named(s).key = Component(s) /\ Named(s).choices = <<<<s>>>>
  BY DEF Named

LEMMA SingleIs ==
    ASSUME NEW c, Single(c)
    PROVE  c.key \in Seq(KeySymbol) /\ \A i \in 1..Len(c.key) : c.key[i] # ","
<1>1. CASE \E s \in Seq(Symbol) : c = Named(s)
  BY <1>1, NamedKeyIs, ComponentHolds, Zenon
<1>2. CASE \E s, v \in Seq(Symbol) : c = AxisCase(s, v)
  BY <1>2, AxisKeyIs, Zenon
<1>3. QED
  BY <1>1, <1>2, Zenon DEF Single

LEMMA AxesTell ==
    ASSUME NEW s \in Seq(Symbol), NEW v \in Seq(Symbol), NEW r \in Seq(Symbol), NEW w \in Seq(Symbol),
           AxisCase(s, v).key = AxisCase(r, w).key
    PROVE  s = r /\ v = w
<1> DEFINE a == Component(s)
           b == Component(r)
           p == Component(v)
           q == Component(w)
<1>1. Separated(a, "=", p) = Separated(b, "=", q)
  <2>1. /\ AxisCase(s, v).key = (a \o <<"=">>) \o p
        /\ AxisCase(r, w).key = (b \o <<"=">>) \o q
    BY AxisKeyIs, Zenon
  <2>2. QED
    BY <2>1, Zenon DEF Separated
<1>2. a \in Seq(KeySymbol) /\ b \in Seq(KeySymbol) /\ p \in Seq(KeySymbol) /\ q \in Seq(KeySymbol)
  BY ComponentHolds, Zenon
<1>3. Without("=", p) /\ Without("=", q) /\ "=" \in KeySymbol
  <2>1. (\A i \in 1..Len(p) : p[i] # "=") /\ \A i \in 1..Len(q) : q[i] # "="
    BY ComponentHolds, Zenon
  <2>2. QED
    BY <2>1, Zenon DEF Without, KeySymbol
<1> HIDE DEF a, b, p, q
<1>5. a = b /\ p = q
  BY <1>1, <1>2, <1>3, LastSeparator, Zenon
<1>6. s = r /\ v = w
  BY <1>5, ComponentTells DEF a, b, p, q
<1>7. QED
  BY <1>6

\* A name is not written like a choice on an axis, and neither like another one.
LEMMA SinglesTell ==
    ASSUME NEW c, NEW d, Single(c), Single(d), c.key = d.key
    PROVE  c.choices = d.choices
<1>1. ASSUME NEW s \in Seq(Symbol), NEW r \in Seq(Symbol), NEW v \in Seq(Symbol),
             Named(s).key = AxisCase(r, v).key
      PROVE  FALSE
  <2> DEFINE n == Len(Component(r)) + 1
  <2>1. n \in 1..Len(AxisCase(r, v).key) /\ AxisCase(r, v).key[n] = "="
    BY AxisKeyIs, Zenon
  <2>2. \A i \in 1..Len(Named(s).key) : Named(s).key[i] # "="
    BY NamedKeyIs, ComponentHolds, Zenon
  <2> HIDE DEF n
  <2>3. QED
    BY <1>1, <2>1, <2>2
<1>2. ASSUME NEW s \in Seq(Symbol), NEW r \in Seq(Symbol), Named(s).key = Named(r).key
      PROVE  Named(s).choices = Named(r).choices
  <2>1. s = r
    BY <1>2, NamedKeyIs, ComponentTells
  <2>2. QED
    BY <2>1
<1>3. ASSUME NEW s \in Seq(Symbol), NEW v \in Seq(Symbol), NEW r \in Seq(Symbol), NEW w \in Seq(Symbol),
             AxisCase(s, v).key = AxisCase(r, w).key
      PROVE  AxisCase(s, v).choices = AxisCase(r, w).choices
  <2>1. s = r /\ v = w
    BY <1>3, AxesTell
  <2>2. QED
    BY <2>1
<1>4. CASE \E s \in Seq(Symbol) : c = Named(s)
  <2>1. PICK s \in Seq(Symbol) : c = Named(s)
    BY <1>4
  <2>2. CASE \E r \in Seq(Symbol) : d = Named(r)
    BY <1>2, <2>1, <2>2
  <2>3. CASE \E r, v \in Seq(Symbol) : d = AxisCase(r, v)
    BY <1>1, <2>1, <2>3
  <2>4. QED
    BY <2>2, <2>3 DEF Single
<1>5. CASE \E s, v \in Seq(Symbol) : c = AxisCase(s, v)
  <2>1. PICK s \in Seq(Symbol), v \in Seq(Symbol) : c = AxisCase(s, v)
    BY <1>5
  <2>2. CASE \E r \in Seq(Symbol) : d = Named(r)
    <3>1. PICK r \in Seq(Symbol) : d = Named(r)
      BY <2>2
    <3>2. Named(r).key = AxisCase(s, v).key
      BY <2>1, <3>1
    <3>3. QED
      BY <1>1, <3>2
  <2>3. CASE \E r, w \in Seq(Symbol) : d = AxisCase(r, w)
    BY <1>3, <2>1, <2>3
  <2>4. QED
    BY <2>2, <2>3 DEF Single
<1>6. QED
  BY <1>4, <1>5 DEF Single

\* A case on top of others ends after their last comma.
LEMMA PairedIs ==
    ASSUME NEW a, NEW x, a.key \in Seq(KeySymbol), x.key \in Seq(KeySymbol)
    PROVE  LET c == Paired(a, x)
               n == Len(a.key) + 1
           IN  /\ c.key = Separated(a.key, ",", x.key) /\ c.choices = a.choices \o x.choices
               /\ c.key \in Seq(KeySymbol) /\ n \in 1..Len(c.key) /\ c.key[n] = ","
<1> DEFINE e == a.key \o <<",">>
<1>1. Paired(a, x).key = e \o x.key /\ Paired(a, x).choices = a.choices \o x.choices
  BY Zenon DEF Paired
<1>2. "," \in KeySymbol
  BY Zenon DEF KeySymbol
<1>3. e \in Seq(KeySymbol) /\ Len(e) = Len(a.key) + 1 /\ Len(a.key) \in Nat /\ e[Len(a.key) + 1] = ","
  <2> DEFINE k == a.key
  <2>1. k \in Seq(KeySymbol)
    OBVIOUS
  <2> HIDE DEF k
  <2>2. LET w == k \o <<",">> IN w \in Seq(KeySymbol) /\ Len(w) = Len(k) + 1 /\ Len(k) \in Nat /\ w[Len(k) + 1] = ","
    BY <1>2, <2>1, SeparatedIs, Zenon
  <2>3. QED
    BY <2>2, Zenon DEF k
<1> HIDE DEF e
<1>4. /\ e \o x.key \in Seq(KeySymbol) /\ Len(e \o x.key) = Len(e) + Len(x.key) /\ Len(e) \in Nat /\ Len(x.key) \in Nat
      /\ \A i \in 1..Len(e) : (e \o x.key)[i] = e[i]
  <2>1. e \in Seq(KeySymbol)
    BY <1>3, Zenon
  <2>2. QED
    BY <2>1, JoinedIs
<1>5. Len(a.key) + 1 \in 1..Len(e) /\ Len(a.key) + 1 \in 1..Len(e \o x.key)
  <2>1. Len(e) = Len(a.key) + 1 /\ Len(a.key) \in Nat
    BY <1>3, Zenon
  <2>2. Len(e \o x.key) = Len(e) + Len(x.key) /\ Len(x.key) \in Nat
    BY <1>4, Zenon
  <2> DEFINE k == Len(a.key)
             l == Len(x.key)
             j == Len(e)
             n == Len(e \o x.key)
  <2>3. j = k + 1 /\ n = j + l /\ k \in Nat /\ l \in Nat
    BY <2>1, <2>2, Zenon
  <2> HIDE DEF k, l, j, n
  <2>4. k + 1 \in 1..j /\ k + 1 \in 1..n
    BY <2>3
  <2>5. QED
    BY <2>4, Zenon DEF k, j, n
<1>6. (e \o x.key)[Len(a.key) + 1] = ","
  BY <1>3, <1>4, <1>5, Zenon
<1>7. e \o x.key = Separated(a.key, ",", x.key)
  BY Zenon DEF Separated, e
<1>8. QED
  BY <1>1, <1>4, <1>5, <1>6, <1>7, Zenon

LEMMA PairedTell ==
    ASSUME NEW a, NEW b, NEW x, NEW y, a.key \in Seq(KeySymbol), b.key \in Seq(KeySymbol),
           Single(x), Single(y), Paired(a, x).key = Paired(b, y).key
    PROVE  a.key = b.key /\ x.key = y.key
<1> DEFINE c == a.key
           d == b.key
           p == x.key
           q == y.key
<1>1. c \in Seq(KeySymbol) /\ d \in Seq(KeySymbol) /\ p \in Seq(KeySymbol) /\ q \in Seq(KeySymbol)
  BY SingleIs, Zenon
<1>2. Without(",", p) /\ Without(",", q) /\ "," \in KeySymbol
  <2>1. (\A i \in 1..Len(p) : p[i] # ",") /\ \A i \in 1..Len(q) : q[i] # ","
    BY SingleIs, Zenon
  <2>2. QED
    BY <2>1, Zenon DEF Without, KeySymbol
<1>3. Separated(c, ",", p) = Separated(d, ",", q)
  <2>1. Paired(a, x).key = Separated(a.key, ",", x.key)
    BY <1>1, PairedIs, Zenon
  <2>2. Paired(b, y).key = Separated(b.key, ",", y.key)
    BY <1>1, PairedIs, Zenon
  <2>3. QED
    BY <2>1, <2>2, Zenon
<1> HIDE DEF c, d, p, q
<1>5. c = d /\ p = q
  BY <1>1, <1>2, <1>3, LastSeparator, Zenon
<1>6. QED
  BY <1>5 DEF c, d, p, q

\* A case is single, or its key has a comma: the last one is where the product put it.
FitsCase(c) == c.key \in Seq(KeySymbol) /\ (Single(c) \/ \E i \in 1..Len(c.key) : c.key[i] = ",")
CasesFit(S) ==
    /\ \A c \in S : FitsCase(c)
    /\ \A c, d \in S : c.key = d.key => c.choices = d.choices

LEMMA SinglesFit == ASSUME NEW S, \A c \in S : Single(c) PROVE CasesFit(S)
<1>1. \A c \in S : FitsCase(c)
  BY SingleIs, Zenon DEF FitsCase
<1>2. \A c, d \in S : c.key = d.key => c.choices = d.choices
  BY SinglesTell
<1>3. QED
  BY <1>1, <1>2 DEF CasesFit

Multiplied(S, n, V) == {Paired(c, AxisCase(n, v)) : c \in S, v \in V}

LEMMA ProductFits ==
    ASSUME NEW S, CasesFit(S), NEW n \in Seq(Symbol), NEW V, V \subseteq Seq(Symbol)
    PROVE  CasesFit(Multiplied(S, n, V))
<1> DEFINE T == {Paired(c, AxisCase(n, v)) : c \in S, v \in V}
<1>1. \A v \in V : Single(AxisCase(n, v))
  BY Zenon DEF Single
<1>2. \A c \in S : c.key \in Seq(KeySymbol)
  BY Zenon DEF CasesFit, FitsCase
<1>3. ASSUME NEW c \in S, NEW v \in V PROVE FitsCase(Paired(c, AxisCase(n, v)))
  <2>1. AxisCase(n, v).key \in Seq(KeySymbol)
    BY <1>1, SingleIs, Zenon
  <2>2. QED
    BY <1>2, <2>1, PairedIs, Zenon DEF FitsCase
<1>4. ASSUME NEW c \in S, NEW v \in V, NEW d \in S, NEW w \in V,
             Paired(c, AxisCase(n, v)).key = Paired(d, AxisCase(n, w)).key
      PROVE  Paired(c, AxisCase(n, v)).choices = Paired(d, AxisCase(n, w)).choices
  <2>0. Single(AxisCase(n, v)) /\ Single(AxisCase(n, w)) /\ c.key \in Seq(KeySymbol) /\ d.key \in Seq(KeySymbol)
    BY <1>1, <1>2
  <2>1. c.key = d.key /\ AxisCase(n, v).key = AxisCase(n, w).key
    BY <1>4, <2>0, PairedTell
  <2>2. c.choices = d.choices
    BY <2>1 DEF CasesFit
  <2>3. AxisCase(n, v).choices = AxisCase(n, w).choices
    BY <2>0, <2>1, SinglesTell
  <2>4. QED
    BY <2>2, <2>3, Zenon DEF Paired
<1>5. \A t \in T : \E c \in S, v \in V : t = Paired(c, AxisCase(n, v))
  OBVIOUS
<1> HIDE DEF T
<1>6. \A t \in T : FitsCase(t)
  BY <1>3, <1>5, Zenon
<1>60. ASSUME NEW t \in T, NEW u \in T, t.key = u.key PROVE t.choices = u.choices
  <2>1. PICK c \in S, v \in V : t = Paired(c, AxisCase(n, v))
    BY <1>5
  <2>2. PICK d \in S, w \in V : u = Paired(d, AxisCase(n, w))
    BY <1>5
  <2>3. QED
    BY <1>4, <1>60, <2>1, <2>2, Zenon
<1>7. CasesFit(T)
  BY <1>6, <1>60 DEF CasesFit
<1>8. QED
  BY <1>7 DEF T, Multiplied

LEMMA IncludeFits ==
    ASSUME NEW S, CasesFit(S), NEW n \in Seq(Symbol)
    PROVE  CasesFit(S \cup {Named(n)})
<1>1. Single(Named(n))
  BY Zenon DEF Single
<1>2. ASSUME NEW c \in S, c.key = Named(n).key PROVE c.choices = Named(n).choices
  <2>1. \A i \in 1..Len(Named(n).key) : Named(n).key[i] # ","
    BY <1>1, SingleIs, Zenon
  <2>2. ~\E i \in 1..Len(c.key) : c.key[i] = ","
    BY <1>2, <2>1, Zenon
  <2>3. Single(c)
    BY <2>2, Zenon DEF CasesFit, FitsCase
  <2>4. QED
    BY <1>1, <1>2, <2>3, SinglesTell
<1>3. FitsCase(Named(n))
  BY <1>1, SingleIs, Zenon DEF FitsCase
<1>4. ASSUME NEW c \in S \cup {Named(n)}, NEW d \in S \cup {Named(n)}, c.key = d.key
      PROVE  c.choices = d.choices
  <2>1. CASE c \in S /\ d \in S
    BY <1>4, <2>1 DEF CasesFit
  <2>2. CASE c \in S /\ d = Named(n)
    BY <1>2, <1>4, <2>2
  <2>3. CASE c = Named(n) /\ d \in S
    BY <1>2, <1>4, <2>3
  <2>4. CASE c = Named(n) /\ d = Named(n)
    BY <2>4
  <2>5. QED
    BY <2>1, <2>2, <2>3, <2>4
<1>5. \A c \in S \cup {Named(n)} : FitsCase(c)
  BY <1>3 DEF CasesFit
<1>6. QED
  BY <1>4, <1>5, Zenon DEF CasesFit

\* A list of what fits fits.
LEMMA ListFits ==
    ASSUME NEW S, CasesFit(S), NEW s \in Seq(S)
    PROVE  CasesFit(ToSet(s)) /\ s \in Seq(ToSet(s))
<1>1. ToSet(s) \subseteq S
  BY DEF ToSet
<1>2. CasesFit(ToSet(s))
  BY <1>1, Zenon DEF CasesFit
<1>3. s \in Seq(ToSet(s))
  <2>1. \A i \in 1..Len(s) : s[i] \in ToSet(s)
    BY DEF ToSet
  <2>2. QED
    BY <2>1
<1>4. QED
  BY <1>2, <1>3

\* What every call keeps of the cases, and what a matrix that was expanded has passed.
MatrixInv ==
    /\ cases \in Seq(ToSet(cases)) /\ CasesFit(ToSet(cases))
    /\ expansion \in {"tasks", "joined"} => UniqueKeys
    /\ expansion = "joined" => joined = {c.key : c \in ToSet(cases)}

LEMMA AxisFits ==
    ASSUME NEW n \in Names, NEW vs \in Values
    PROVE  /\ n \in Seq(Symbol) /\ ToSet(vs) \subseteq Seq(Symbol)
           /\ vs \in Seq(Seq(Symbol)) /\ Axis(n, vs) \in Seq({AxisCase(n, v) : v \in ToSet(vs)})
           /\ CasesFit({AxisCase(n, v) : v \in ToSet(vs)})
<1>1. n \in Seq(Symbol) /\ vs \in Seq(Seq(Symbol))
  BY MatrixAssumption, Zenon
<1>2. ToSet(vs) \subseteq Seq(Symbol)
  BY <1>1 DEF ToSet
<1>3. \A i \in 1..Len(vs) : vs[i] \in ToSet(vs)
  BY <1>1 DEF ToSet
<1> DEFINE T == {AxisCase(n, v) : v \in ToSet(vs)}
<1>4. Axis(n, vs) \in Seq(T)
  <2>1. Axis(n, vs) = [i \in 1..Len(vs) |-> AxisCase(n, vs[i])] /\ Len(vs) \in Nat
    BY <1>1 DEF Axis
  <2>2. \A i \in 1..Len(vs) : AxisCase(n, vs[i]) \in T
    BY <1>3
  <2> HIDE DEF T
  <2>3. QED
    BY <2>1, <2>2
<1>5. \A c \in T : Single(c)
  BY <1>1, <1>2 DEF Single
<1>6. QED
  BY <1>1, <1>2, <1>4, <1>5, SinglesFit

LEMMA MatrixStart == MatrixInit => MatrixInv
<1> SUFFICES ASSUME MatrixInit PROVE MatrixInv
  OBVIOUS
<1>1. PICK n \in Names, vs \in Values : cases = Axis(n, vs)
  BY DEF MatrixInit
<1> DEFINE T == {AxisCase(n, v) : v \in ToSet(vs)}
<1>2. cases \in Seq(T) /\ CasesFit(T)
  BY <1>1, AxisFits
<1>3. CasesFit(ToSet(cases)) /\ cases \in Seq(ToSet(cases))
  BY <1>2, ListFits
<1>4. QED
  BY <1>3 DEF MatrixInit, MatrixInv

LEMMA MatrixStep == MatrixInv /\ [MatrixNext]_matrixVars => MatrixInv'
<1> SUFFICES ASSUME MatrixInv, [MatrixNext]_matrixVars PROVE MatrixInv'
  OBVIOUS
<1>0. cases \in Seq(ToSet(cases)) /\ CasesFit(ToSet(cases))
  BY DEF MatrixInv
<1>01. (\A i \in 1..Len(cases) : cases[i] \in ToSet(cases)) /\ Len(cases) \in Nat /\ DOMAIN cases = 1..Len(cases)
  <2>1. \A i \in DOMAIN cases : cases[i] \in ToSet(cases)
    BY DEF ToSet
  <2>2. Len(cases) \in Nat /\ DOMAIN cases = 1..Len(cases)
    BY <1>0
  <2>3. QED
    BY <2>1, <2>2
<1>1. ASSUME NEW T, CasesFit(T), cases' \in Seq(T)
      PROVE  (CasesFit(ToSet(cases)))' /\ (cases \in Seq(ToSet(cases)))'
  <2>1. CasesFit(ToSet(cases')) /\ cases' \in Seq(ToSet(cases'))
    BY <1>1, ListFits
  <2>2. QED
    BY <2>1, Zenon DEF CasesFit, FitsCase, Single, Named, AxisCase, ToSet
<1>10. ASSUME NEW T, CasesFit(T), cases' \in Seq(T), expansion' \in {"none", "refused"}
       PROVE  MatrixInv'
  BY <1>1, <1>10 DEF MatrixInv
<1>2. ASSUME cases' = cases, expansion' \in {"none", "refused"} PROVE MatrixInv'
  BY <1>0, <1>10, <1>2
<1>3. ASSUME NEW n \in Names, NEW vs \in Values, Product(n, vs) PROVE MatrixInv'
  <2>1. CASE Len(cases) * Len(vs) > MAX_CASES
    BY <1>2, <1>3, <2>1 DEF Product
  <2>2. CASE ~(Len(cases) * Len(vs) > MAX_CASES)
    <3> DEFINE T == Multiplied(ToSet(cases), n, ToSet(vs))
               row(i) == [j \in DOMAIN vs |-> Paired(cases[i], AxisCase(n, vs[j]))]
               ss == [i \in DOMAIN cases |-> row(i)]
    <3>1. n \in Seq(Symbol) /\ ToSet(vs) \subseteq Seq(Symbol) /\ vs \in Seq(Seq(Symbol))
      BY AxisFits, Zenon
    <3>2. CasesFit(T)
      BY <1>0, <3>1, ProductFits, Zenon
    <3>3. ASSUME NEW i \in 1..Len(cases) PROVE row(i) \in Seq(T)
      <4>1. DOMAIN vs = 1..Len(vs) /\ Len(vs) \in Nat /\ \A j \in 1..Len(vs) : vs[j] \in ToSet(vs)
        BY <3>1 DEF ToSet
      <4>2. \A j \in 1..Len(vs) : Paired(cases[i], AxisCase(n, vs[j])) \in T
        BY <1>01, <3>3, <4>1 DEF Multiplied
      <4> HIDE DEF T
      <4>3. QED
        BY <4>1, <4>2
    <3>4. ss \in Seq(Seq(T))
      <4> HIDE DEF T, row
      <4>1. QED
        BY <1>01, <3>3
    <3>5. cases' = FlattenSeq(ss) /\ expansion' = "none"
      BY <1>3, <2>2 DEF Product, Building
    <3> HIDE DEF T, ss
    <3>6. cases' \in Seq(T)
      BY <3>4, <3>5, FlattenHolds
    <3>7. QED
      BY <1>10, <3>2, <3>5, <3>6
  <2>3. QED
    BY <2>1, <2>2
<1>4. ASSUME NEW n, NEW v, Exclude(n, v) PROVE MatrixInv'
  <2> DEFINE kept(i) == IF <<n, v>> \in ToSet(cases[i].choices) THEN <<>> ELSE <<cases[i]>>
             ss == [i \in DOMAIN cases |-> kept(i)]
             T == ToSet(cases)
  <2>1. cases' = FlattenSeq(ss) /\ expansion' = "none"
    BY <1>4 DEF Exclude, Building
  <2>2. ASSUME NEW i \in 1..Len(cases) PROVE kept(i) \in Seq(T)
    <3>1. cases[i] \in T
      BY <1>01, <2>2
    <3> HIDE DEF T
    <3>2. <<cases[i]>> \in Seq(T) /\ <<>> \in Seq(T)
      BY <3>1
    <3>3. QED
      BY <3>2
  <2>3. ss \in Seq(Seq(T))
    <3> HIDE DEF T, kept
    <3>1. QED
      BY <1>01, <2>2
  <2> HIDE DEF ss
  <2>4. cases' \in Seq(T)
    BY <2>1, <2>3, FlattenHolds
  <2>5. QED
    BY <1>0, <1>10, <2>1, <2>4 DEF T
<1>5. ASSUME NEW n \in Names, Include(n) PROVE MatrixInv'
  <2> DEFINE T == ToSet(cases) \cup {Named(n)}
  <2>1. n \in Seq(Symbol)
    BY MatrixAssumption, Zenon
  <2>2. CasesFit(T)
    BY <1>0, <2>1, IncludeFits
  <2>3. cases \in Seq(T)
    BY <1>0, Widened
  <2>4. cases' = Append(cases, Named(n)) /\ expansion' = "none" /\ Named(n) \in T
    BY <1>5 DEF Include, Building
  <2> HIDE DEF T
  <2>5. cases' \in Seq(T)
    BY <2>3, <2>4
  <2>6. QED
    BY <1>10, <2>2, <2>4, <2>5
<1>6. CASE Expand
  <2>1. cases' = cases
    BY <1>6 DEF Expand
  <2>2. UniqueKeys' <=> UniqueKeys
    BY <2>1 DEF UniqueKeys, ToSet
  <2>3. CASE Expandable
    <3>1. UniqueKeys /\ expansion' = "tasks"
      BY <1>6, <2>3 DEF Expand, Expandable
    <3>2. (CasesFit(ToSet(cases)))' /\ (cases \in Seq(ToSet(cases)))'
      BY <1>0, <1>1, <2>1
    <3>3. QED
      BY <2>2, <3>1, <3>2 DEF MatrixInv
  <2>4. CASE ~Expandable
    BY <1>2, <1>6, <2>4 DEF Expand
  <2>5. QED
    BY <2>3, <2>4
<1>7. CASE Join \/ UNCHANGED matrixVars
  <2>1. cases' = cases
    BY <1>7 DEF Join, matrixVars
  <2>2. UniqueKeys' <=> UniqueKeys
    BY <2>1 DEF UniqueKeys, ToSet
  <2>3. (CasesFit(ToSet(cases)))' /\ (cases \in Seq(ToSet(cases)))'
    BY <1>0, <1>1, <2>1
  <2>4. expansion' \in {"tasks", "joined"} => UniqueKeys
    BY <1>7 DEF Join, matrixVars, MatrixInv
  <2>5. expansion' = "joined" => joined' = {c.key : c \in ToSet(cases')}
    BY <1>7 DEF Join, matrixVars, MatrixInv
  <2>6. QED
    BY <2>2, <2>3, <2>4, <2>5 DEF MatrixInv, ToSet
<1>8. QED
  BY <1>3, <1>4, <1>5, <1>6, <1>7, Zenon DEF MatrixNext

LEMMA MatrixSafe == MatrixInv => MatrixTells
<1> SUFFICES ASSUME MatrixInv PROVE MatrixTells
  OBVIOUS
<1>1. \A c, d \in ToSet(cases) : c.key = d.key => c.choices = d.choices
  BY Zenon DEF MatrixInv, CasesFit
<1>2. expansion = "joined" => Cardinality(joined) = Len(cases)
  BY Zenon DEF MatrixInv, UniqueKeys
<1>3. QED
  BY <1>1, <1>2, Zenon DEF MatrixTells

\* Whatever the names, values and symbols, and however cases are multiplied, filtered
\* and extended: cases of different choices have different keys, so that a task which
\* waits for an expanded matrix waits for every case of it (executor/src/matrix.rs:
\* component, product, matrix, after).
THEOREM MatrixAlwaysTells == MatrixSpec => []MatrixTells
<1>1. MatrixInit => MatrixInv
  BY MatrixStart
<1>2. MatrixInv /\ [MatrixNext]_matrixVars => MatrixInv'
  BY MatrixStep
<1>3. MatrixInv => MatrixTells
  BY MatrixSafe
<1>4. QED
  BY <1>1, <1>2, <1>3, PTL DEF MatrixSpec

\* So it is in the composition of MCEngine.
THEOREM CasesStayApart == PartsSpec => []CasesDiffer
<1> DEFINE Holds == part = "matrix" => MatrixInv
<1>1. PartsInit => Holds
  BY MatrixStart DEF PartsInit
<1>2. Holds /\ [PartsNext]_partsVars => Holds'
  <2> SUFFICES ASSUME Holds, [PartsNext]_partsVars, part' = "matrix" PROVE MatrixInv'
    OBVIOUS
  <2>1. part = "matrix" /\ (MatrixNext \/ UNCHANGED matrixVars)
    BY DEF PartsNext, partsVars
  <2>2. QED
    BY <2>1, MatrixStep
<1>3. Holds => CasesDiffer
  BY MatrixSafe DEF CasesDiffer
<1>4. QED
  BY <1>1, <1>2, <1>3, PTL DEF PartsSpec
=============================================================================
