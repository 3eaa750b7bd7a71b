----------------------------- MODULE MCJournal -----------------------------
(***************************************************************************)
(* Small instances of Journal: a run that nobody watches has all the tasks *)
(* and outputs, one that is watched has few.                               *)
(***************************************************************************)
EXTENDS Journal, FiniteSets

CONSTANT Watched  \* bound: tasks, and output and attempts of each, of a run that is watched

Active == {t \in JTask : said[t] # <<>> \/ log[t] # <<>> \/ tries[t] > 0 \/ tstate[t] \notin {"pending", "cancelled"}}
MCJNext ==
    /\ JNext
    /\ watch.verdict # "nobody" =>
         /\ Cardinality(Active') <= Watched
         /\ \A t \in JTask : Len(said'[t]) <= Watched /\ tries'[t] <= Watched
MCJInit == JInit /\ (watch.verdict = "nobody" => ~watch.remote /\ ~watch.follow)
MCJSpec == MCJInit /\ [][MCJNext]_jVars
=============================================================================
