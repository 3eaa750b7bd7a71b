----------------------------- MODULE MCPackages -----------------------------
(* Two processes that share a workspace, two versions and two contents. *)
EXTENDS Packages, TLC
Same == Permutations(Process)
\* Nothing is declared when the first command starts: an alias that is lost was
\* recorded by another command than the one that drops it.
AliasSpec == (PackagesInit /\ declared = {}) /\ [][PackagesNext]_packageVars
=============================================================================
