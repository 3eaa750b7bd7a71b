-------------------------- MODULE DependencyGraph --------------------------
(***************************************************************************)
(* DependencyGraph::build of engine/crates/executor/src/graph.rs: the      *)
(* needs of every task are interned to indices and Kahn's algorithm orders *)
(* the tasks or finds that it cannot.  A step is an iteration of its loop. *)
(* Index 0 stands for a name that no task has.                             *)
(***************************************************************************)
EXTENDS Naturals, Sequences, FiniteSets

CONSTANTS N,       \* tasks
          Graphs   \* what they need: functions from tasks to sets of indices

Node == 1..N
Missing == 0

ASSUME NAssumption == N \in Nat
ASSUME GraphAssumption == Graphs \subseteq [Node -> SUBSET (Node \cup {Missing})]

VARIABLES phase,      \* "intern", "sort", or the verdict: "built", "missing", "cycle"
          needs,      \* dependencies
          remaining, queue, order

vars == <<phase, needs, remaining, queue, order>>

Successors(n) == {m \in Node : n \in needs[m]}

\* The elements of S in the order of their indices.
Ascending(S) ==
    CHOOSE s \in [1..Cardinality(S) -> S] :
       \A i, j \in 1..Cardinality(S) : i < j => s[i] < s[j]

Intern ==
    /\ phase = "intern"
    /\ \/ /\ \E n \in Node : Missing \in needs[n]
          /\ phase' = "missing"
          /\ UNCHANGED <<remaining, queue, order>>
       \/ /\ \A n \in Node : needs[n] \subseteq Node
          /\ phase' = "sort"
          /\ remaining' = [n \in Node |-> Cardinality(needs[n])]
          /\ queue' = Ascending({n \in Node : needs[n] = {}})
          /\ UNCHANGED order
    /\ UNCHANGED needs

\* Mutant: a successor is ready as soon as one of its needs is ordered.
FreedEarly(n) == Successors(n)
\* The successors for which n was the last need.
Freed(n) == {m \in Successors(n) : remaining[m] = 1}

Pop ==
    /\ phase = "sort" /\ queue # <<>>
    /\ LET n == Head(queue) IN
          /\ order' = Append(order, n)
          /\ remaining' = [m \in Node |-> IF m \in Successors(n) THEN remaining[m] - 1 ELSE remaining[m]]
          /\ queue' = Tail(queue) \o Ascending(Freed(n))
    /\ UNCHANGED <<phase, needs>>

Conclude ==
    /\ phase = "sort" /\ queue = <<>>
    /\ phase' = IF Len(order) = N THEN "built" ELSE "cycle"
    /\ UNCHANGED <<needs, remaining, queue, order>>

Concluded == phase \in {"built", "missing", "cycle"} /\ UNCHANGED vars

Init == /\ needs \in Graphs /\ phase = "intern"
        /\ remaining = [n \in Node |-> 0] /\ queue = <<>> /\ order = <<>>

Next == Intern \/ Pop \/ Conclude \/ Concluded

Spec == Init /\ [][Next]_vars

-----------------------------------------------------------------------------
(* Properties. *)

TypeOK == /\ phase \in {"intern", "sort", "built", "missing", "cycle"}
          /\ needs \in [Node -> SUBSET (Node \cup {Missing})]
          /\ remaining \in [Node -> Nat]
          /\ queue \in Seq(Node) /\ order \in Seq(Node)

\* Every task comes after all it needs, once: no order of graph.rs puts a task
\* before one of its dependencies.
Topological ==
    /\ \A i \in 1..Len(order) : \A p \in needs[order[i]] : \E j \in 1..i - 1 : order[j] = p
    /\ \A i, j \in 1..Len(order) : i # j => order[i] # order[j]

\* In a finite graph: some tasks each need another one of them.
Cyclic == \E S \in SUBSET Node : S # {} /\ \A n \in S : needs[n] \cap S # {}

\* The verdict is right: an order is complete and there is one, or there is none.
VerdictIsRight ==
    /\ phase = "built" => ~Cyclic /\ \A n \in Node : \E i \in 1..Len(order) : order[i] = n
    /\ phase = "cycle" => Cyclic
    /\ phase = "missing" => \E n \in Node : Missing \in needs[n]
=============================================================================
