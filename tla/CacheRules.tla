------------------------------ MODULE CacheRules ------------------------------
(***************************************************************************)
(* Which plans of cached tasks are accepted: CachePolicy::validate,        *)
(* validate_storage and validate_workspace of executor/src/cache.rs, as    *)
(* Plan::compile_graph calls them.  A task declares the paths it reads and *)
(* writes, relative to its directory, and the files of its toolchain; the  *)
(* check groups the accesses by path and walks each path's ancestors, and  *)
(* is to find every pair of tasks that touch the same files in an order    *)
(* their dependencies leave open.                                          *)
(*                                                                         *)
(* A location is a sequence of names below the root.  Links maps the       *)
(* locations that are symbolic links to where they lead, once no link is   *)
(* left.  A task's directory is canonical: there is no link on it.         *)
(***************************************************************************)
EXTENDS Naturals, Sequences, FiniteSets, SequencesExt, Functions

CONSTANTS Families, Links

(* A plan is a record: cwd, inputs, outputs and tools give each task's, needs
   the tasks before it, storage the directory of the cache.  A family gives a
   set of values for each. *)
VARIABLES plan, verdict

Location == Seq(STRING)

ASSUME RulesAssumption ==
  /\ \A q \in DOMAIN Links : q \in Location /\ Links[q] \in Location
  /\ \A f \in Families :
       /\ f.storage \subseteq Location
       /\ \A before \in f.needs :
            /\ before \in [DOMAIN before -> SUBSET DOMAIN before]
            /\ f.inputs \union f.outputs \union f.tools
                 \subseteq [DOMAIN before -> SUBSET Location]
            /\ \A dir \in f.cwd :
                 /\ dir \in [DOMAIN before -> Location]
                 /\ \A t \in DOMAIN before, q \in DOMAIN Links : ~IsPrefix(q, dir[t])

ruleVars == <<plan, verdict>>

Tasks == DOMAIN plan.needs
Nested(p, q) == IsPrefix(p, q) \/ IsPrefix(q, p)
At(t, rel) == plan.cwd[t] \o rel

-----------------------------------------------------------------------------
(* What the check sees of a path. *)

\* resolved_location: the path with the links on it followed.
Resolved(p) ==
  LET on == {q \in DOMAIN Links : IsPrefix(q, p)}
  IN  IF on = {} THEN p
      ELSE LET q == CHOOSE q \in on : TRUE
           IN  Links[q] \o SubSeq(p, Len(q) + 1, Len(p))

\* checked_path refuses a link anywhere below the task's directory.
Linked(t, rel) ==
  \E n \in 1..Len(rel) : At(t, SubSeq(rel, 1, n)) \in DOMAIN Links

\* CachePolicy::validate: outputs overlap neither inputs nor other outputs.
PolicyHolds(t) ==
  \A o \in plan.outputs[t] :
    \A p \in plan.inputs[t] \union (plan.outputs[t] \ {o}) : ~Nested(o, p)

\* validate_storage.
StorageApart(t) ==
  LET s == Resolved(plan.storage) IN
  /\ \A rel \in plan.inputs[t] \union plan.outputs[t] : ~Nested(s, At(t, rel))
  /\ \A f \in plan.tools[t] : ~Nested(s, Resolved(f))

\* A tool is not below an output of its own task, nor above it.
ToolsApart(t) ==
  \A f \in plan.tools[t], o \in plan.outputs[t] :
    ~Nested(Resolved(f), Resolved(At(t, o)))

-----------------------------------------------------------------------------
(* validate_workspace. *)

\* The map from paths to the tasks that read or write there.
Accesses ==
  UNION {   {<<Resolved(f), t, FALSE>> : f \in plan.tools[t]}
     \union {<<At(t, rel), t, FALSE>> : rel \in plan.inputs[t]}
     \union {<<At(t, rel), t, TRUE>> : rel \in plan.outputs[t]} : t \in Tasks}

Dependents == [t \in Tasks |-> {s \in Tasks : t \in plan.needs[s]}]

\* The tasks a walk along one kind of edge reaches: the least set that holds
\* where it starts and is closed under the edges.
Walk(from, edges) ==
  {t \in Tasks : \A seen \in SUBSET Tasks :
     (from \subseteq seen /\ \A s \in seen : edges[s] \subseteq seen) => t \in seen}

\* Mutant: a common relative orders two tasks.
RelatedEitherWay(a) ==
  Walk({a}, [t \in Tasks |-> plan.needs[t] \union Dependents[t]])

\* Each direction is walked on its own: siblings are not related.
Related(a) == Walk({a}, plan.needs) \union Walk({a}, Dependents)

\* What an access is compared with: accesses of the same path or of one above,
\* a reader's only with writers.
Compared(x) == {y \in Accesses : IsPrefix(y[1], x[1]) /\ (x[3] \/ y[3])}

WorkspaceOrdered ==
  \A x \in Accesses : \A y \in Compared(x) :
    x[2] # y[2] => y[2] \in Related(x[2])

Accepted ==
  /\ \A t \in Tasks : PolicyHolds(t) /\ StorageApart(t) /\ ToolsApart(t)
  /\ \A t \in Tasks : \A rel \in plan.inputs[t] \union plan.outputs[t] :
       ~Linked(t, rel)
  /\ WorkspaceOrdered

-----------------------------------------------------------------------------
RulesInit ==
  /\ verdict = "none"
  /\ \E f \in Families :
       plan \in [cwd : f.cwd, needs : f.needs, inputs : f.inputs,
                outputs : f.outputs, tools : f.tools, storage : f.storage]

Judge ==
  /\ verdict = "none"
  /\ verdict' = IF Accepted THEN "accepted" ELSE "refused"
  /\ UNCHANGED plan

RulesNext == Judge
RulesSpec == RulesInit /\ [][RulesNext]_ruleVars

-----------------------------------------------------------------------------
(* What the check is for, stated on the files themselves. *)

Reads(t) == {Resolved(At(t, rel)) : rel \in plan.inputs[t]}
              \union {Resolved(f) : f \in plan.tools[t]}
Writes(t) == {Resolved(At(t, rel)) : rel \in plan.outputs[t]}
Touch(P, Q) == \E p \in P, q \in Q : Nested(p, q)

\* Task a ends before b starts: whatever has been done, each after what it
\* needs, a is among it by the time all that b needs is.
Precedes(a, b) ==
  \A done \in SUBSET Tasks :
    (\A t \in done \union {b} : plan.needs[t] \subseteq done) => a \in done

Conflicting(a, b) ==
  Touch(Writes(a), Reads(b) \union Writes(b))

(* An accepted plan leaves no two tasks that touch the same files, one of     *)
(* them writing, to run in either order; no task reads what it writes, and    *)
(* the cache is apart from all of it, links included.                         *)
AcceptedAreSafe ==
  verdict = "accepted" =>
    /\ \A a, b \in Tasks : (a # b /\ Conflicting(a, b)) =>
                              Precedes(a, b) \/ Precedes(b, a)
    /\ \A t \in Tasks : ~Touch(Writes(t), Reads(t))
    /\ \A t \in Tasks : ~Touch({Resolved(plan.storage)}, Reads(t) \union Writes(t))

(* A plan is refused for one of these reasons, or because a link or a pair of *)
(* outputs of one task is in it: readers of a shared tree need no order.      *)
RefusedAreNot ==
  verdict = "refused" =>
    \/ \E a, b \in Tasks : /\ a # b /\ Conflicting(a, b)
                           /\ ~Precedes(a, b) /\ ~Precedes(b, a)
    \/ \E t \in Tasks :
         \/ Touch(Writes(t), Reads(t))
         \/ Touch({Resolved(plan.storage)}, Reads(t) \union Writes(t))
         \/ \E rel \in plan.inputs[t] \union plan.outputs[t] : Linked(t, rel)
         \/ \E o, p \in plan.outputs[t] : o # p /\ Nested(o, p)

(* Both (validate_workspace): the walk over ancestors and the closures kept    *)
(* per task decide the same as comparing every two declared paths.             *)
RulesAgree == AcceptedAreSafe /\ RefusedAreNot
=============================================================================
