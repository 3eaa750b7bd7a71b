----------------------------- MODULE MCFrontier -----------------------------
(***************************************************************************)
(* Small instances of Frontier: every plan of four tasks in the order of   *)
(* their indices, the second of which may be allowed to fail.                     *)
(***************************************************************************)
EXTENDS Frontier

CONSTANTS N

Tasks == 1..N
Needed == {g \in [Tasks -> SUBSET Tasks] : \A t \in Tasks : g[t] \subseteq 1..t - 1}
AllPlans == {[needs |-> g, rank |-> [t \in Tasks |-> t], failFast |-> f, allowed |-> a] :
                g \in Needed, f \in BOOLEAN, a \in {{}, {2}}}
=============================================================================
