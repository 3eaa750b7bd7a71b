-------------------------------- MODULE Matrix --------------------------------
(***************************************************************************)
(* Matrices of tasks (executor/src/matrix.rs): named cases and axes are    *)
(* multiplied, filtered and extended, and expand into one task per case,   *)
(* whose identity is made of the case's key; a later task may wait for all *)
(* of them.  Text is a sequence of symbols, of which Plain ones may stand  *)
(* in a key as they are.                                                   *)
(***************************************************************************)
EXTENDS Naturals, Sequences, FiniteSets, SequencesExt, Functions

CONSTANTS Names, Values, Plain, Code, MAX_CASES, MaxSteps

Symbol == Plain \union DOMAIN Code

ASSUME MatrixAssumption ==
  /\ MAX_CASES \in Nat /\ MaxSteps \in Nat
  /\ "%" \notin Plain /\ "=" \notin Plain /\ "," \notin Plain
  /\ \A s \in DOMAIN Code : s \notin Plain /\ Code[s] \in Plain
  /\ \A s, t \in DOMAIN Code : Code[s] = Code[t] => s = t
  /\ Names \subseteq Seq(Symbol) /\ Values \subseteq Seq(Seq(Symbol))

(* A case has a key and the choices it stands for, each a name and a value (a
   named case has no value). *)
VARIABLES cases, expansion, joined, steps

matrixVars == <<cases, expansion, joined, steps>>

-----------------------------------------------------------------------------
(* Keys. *)

\* Mutant: names and values are written as they are.
ComponentRaw(text) == text

\* component: every other byte is written % and its code.
Component(text) ==
  FlattenSeq([i \in DOMAIN text |->
    IF text[i] \in Plain THEN <<text[i]>> ELSE <<"%", Code[text[i]]>>])

Named(name) == [key |-> Component(name), choices |-> <<<<name>>>>]

AxisCase(name, value) ==
  [key |-> Component(name) \o <<"=">> \o Component(value),
   choices |-> <<<<name, value>>>>]

Axis(name, values) == [i \in DOMAIN values |-> AxisCase(name, values[i])]

Paired(a, b) ==
  [key |-> a.key \o <<",">> \o b.key, choices |-> a.choices \o b.choices]

-----------------------------------------------------------------------------
(* What a plan's author calls, in any order. *)

Building == expansion = "none" /\ steps < MaxSteps /\ steps' = steps + 1

MatrixInit ==
  /\ \E n \in Names, vs \in Values : cases = Axis(n, vs)
  /\ expansion = "none" /\ joined = {} /\ steps = 0

\* product: refused before anything is multiplied if it would be too large.
Product(name, values) ==
  /\ Building
  /\ IF Len(cases) * Len(values) > MAX_CASES
       THEN expansion' = "refused" /\ UNCHANGED cases
       ELSE /\ cases' = FlattenSeq([i \in DOMAIN cases |->
                 [j \in DOMAIN values |-> Paired(cases[i], AxisCase(name, values[j]))]])
            /\ UNCHANGED expansion
  /\ UNCHANGED joined

\* exclude, with a predicate that looks at one choice.
Exclude(name, value) ==
  /\ Building
  /\ cases' = FlattenSeq([i \in DOMAIN cases |->
       IF <<name, value>> \in ToSet(cases[i].choices) THEN <<>> ELSE <<cases[i]>>])
  /\ UNCHANGED <<expansion, joined>>

Include(name) ==
  /\ Building /\ cases' = Append(cases, Named(name))
  /\ UNCHANGED <<expansion, joined>>

UniqueKeys == Cardinality({c.key : c \in ToSet(cases)}) = Len(cases)

\* matrix: too many cases, an empty key or one given twice are refused before
\* any task is built.
Expandable ==
  Len(cases) <= MAX_CASES /\ UniqueKeys /\ \A c \in ToSet(cases) : c.key # <<>>

Expand ==
  /\ expansion = "none"
  /\ expansion' = IF Expandable THEN "tasks" ELSE "refused"
  /\ UNCHANGED <<cases, joined, steps>>

\* after: a task that waits for every member, once; needs are identities.
Join ==
  /\ expansion = "tasks" /\ expansion' = "joined"
  /\ joined' = {c.key : c \in ToSet(cases)}
  /\ UNCHANGED <<cases, steps>>

MatrixNext ==
  \/ \E n \in Names, vs \in Values : Product(n, vs)
  \/ \E n \in Names, vs \in Values : \E v \in ToSet(vs) : Exclude(n, v)
  \/ \E n \in Names : Include(n)
  \/ Expand \/ Join

MatrixSpec == MatrixInit /\ [][MatrixNext]_matrixVars

-----------------------------------------------------------------------------
(* Two cases with one key are one case: whatever symbols the names and values *)
(* hold, different choices never give one identity (component, product).  So  *)
(* an expansion is refused only for a case given twice, an empty name or too  *)
(* many cases, and a task that waits for the matrix waits for each member.    *)
MatrixTells ==
  /\ \A c, d \in ToSet(cases) : c.key = d.key => c.choices = d.choices
  /\ expansion = "joined" => Cardinality(joined) = Len(cases)
=============================================================================
