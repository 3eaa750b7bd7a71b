---------------------------- MODULE PackageIndex ----------------------------
(***************************************************************************)
(* What the indexer of the registry promises (apps/api/README.md,          *)
(* "Redundant Jetstream indexing"): whatever is delivered twice, late or   *)
(* by several sources, a subject shows the newest of its revisions that    *)
(* are known, and what is known is never forgotten.                        *)
(***************************************************************************)
EXTENDS Naturals

CONSTANTS Subject

VARIABLES known,    \* per subject, the revisions that were indexed
          current   \* per subject, the revision that is shown, 0 for none

Learn(u, i) ==
    /\ i \notin known[u]
    /\ known' = [known EXCEPT ![u] = @ \cup {i}]
    /\ current' = [current EXCEPT ![u] = IF i > @ THEN i ELSE @]

Init == /\ known = [u \in Subject |-> {}]
        /\ current = [u \in Subject |-> 0]

Next == \E u \in Subject : \E i \in known'[u] : Learn(u, i)

Spec == Init /\ [][Next]_<<known, current>>
=============================================================================
