------------------------------ MODULE MCEngine ------------------------------
(***************************************************************************)
(* What a run works with: the action cache, the tasks on files, the old    *)
(* graph engine, the order of a plan's tasks, the rules its cached tasks   *)
(* follow and the expansion of a matrix.  One behaviour is a behaviour of  *)
(* one of these parts, which `part' names; the variables of the others     *)
(* stay zero.                                                              *)
(***************************************************************************)
EXTENDS ActionCache, FileTasks, DependencyGraph, CacheRules, Matrix, TLC

CONSTANTS MaxVertices, MaxServices, MaxExecutions   \* of LegacyGraph

VARIABLES part, chain, services, enabled, run, executions, cancelled, active, host

Legacy == INSTANCE LegacyGraph

-----------------------------------------------------------------------------
(* The constants. *)

TwoOutputs == <<"a", "b">>
Interchangeable == Permutations(Proc) \cup Permutations(Workspace)

src == <<"src">>
dst == <<"dst">>
In(dir, name) == Append(dir, name)
MCPaths == <<dst, In(dst, "x"), In(dst, "y"), src, In(src, "x"), In(src, "y")>>

\* A source directory and what may be at the destination.
Plainfile == Regular(0, 0)
MCTree(s, d) ==
    dst :> d[1] @@ In(dst, "x") :> d[2] @@ In(dst, "y") :> Nothing @@
    src :> s[1] @@ In(src, "x") :> s[2] @@ In(src, "y") :> s[3]
MCTrees ==
    {MCTree(s, d) : s \in {<<Directory, Plainfile, Plainfile>>, <<Directory, Plainfile, Link>>,
                           <<Plainfile, Nothing, Nothing>>},
                    d \in {<<Nothing, Nothing>>, <<Directory, Nothing>>, <<Directory, Plainfile>>,
                           <<Link, Nothing>>}}
MCOperation ==
    {[op |-> "copy", from |-> In(src, "x"), to |-> In(dst, "x"), overwrite |-> b] : b \in BOOLEAN} \cup
    {[op |-> "tree", from |-> src, to |-> dst, overwrite |-> b] : b \in BOOLEAN} \cup
    {[op |-> "move", from |-> src, to |-> dst, overwrite |-> FALSE],
     [op |-> "move", from |-> In(dst, "x"), to |-> In(src, "y"), overwrite |-> TRUE],
     [op |-> "write", to |-> In(src, "x"), text |-> 9, overwrite |-> TRUE],
     [op |-> "write", to |-> In(dst, "x"), text |-> 9, overwrite |-> FALSE],
     [op |-> "remove", to |-> src, recursive |-> TRUE, missing_ok |-> TRUE],
     [op |-> "remove", to |-> In(src, "x"), recursive |-> FALSE, missing_ok |-> FALSE],
     [op |-> "mkdir", to |-> dst, parents |-> TRUE],
     [op |-> "mkdir", to |-> dst, parents |-> FALSE],
     [op |-> "symlink", to |-> In(dst, "y")]}

\* Every graph of N tasks, and those in which the first needs a name that is unknown.
AllGraphs == {g \in [Node -> SUBSET (0..N)] : \A n \in 2..N : Missing \notin g[n]}

\* A link "l" to the directory "a", which holds "b".
AllLinks == <<"l">> :> <<"a">>
Rel == {<<"a">>, <<"a", "b">>, <<"b">>}
Three == 1..3
AtMostOne(S) == {{}} \cup {{x} : x \in S}
Two(F, G) == {<<f, g>> : f \in F, g \in G}
\* Three tasks without links, whatever they need of one another; and two with a
\* working directory, tools, links, two outputs and three places for the cache.
AllFamilies ==
    {[cwd |-> {[t \in Three |-> <<>>]},
      needs |-> {f \in [Three -> SUBSET Three] : \A t \in Three : \A u \in f[t] : u < t},
      inputs |-> [Three -> AtMostOne(Rel)], outputs |-> [Three -> AtMostOne(Rel)],
      tools |-> {[t \in Three |-> {}]}, storage |-> {<<"s">>}],
     [cwd |-> Two({<<>>, <<"a">>}, {<<>>}), needs |-> Two({{}}, {{}, {1}}),
      inputs |-> Two(AtMostOne(Rel \cup {<<"l">>}), AtMostOne(Rel)),
      outputs |-> Two(AtMostOne(Rel \cup {<<"l", "b">>}) \cup {{<<"a">>, <<"a", "b">>}}, AtMostOne(Rel)),
      tools |-> Two(AtMostOne({<<"l", "b">>, <<"a">>}), {{}}),
      storage |-> {<<"s">>, <<"l", "b", "c">>, <<"b">>}]}

\* Names and values with the separators, and a sign that escapes another.
AllNames == {<<>>, <<"x">>, <<",">>, <<"x", "=", "y">>, <<"%", "y">>}
AllValues == {<<<<"y">>, <<>>>>, <<<<",", "x">>>>, <<<<"x">>, <<"x", ",", "x", "=">>>>, <<<<"y">>, <<"y">>>>}
AllCode == "," :> "y" @@ "=" :> "x" @@ "%" :> "z"

-----------------------------------------------------------------------------
NoCache == /\ workspace = 0 /\ input = 0 /\ output = 0 /\ blobs = 0 /\ actions = 0
           /\ owner = 0 /\ job = 0 /\ cacheFaults = 0
NoFiles == tree = 0 /\ filetask = 0 /\ edits = 0
NoLegacy == /\ chain = 0 /\ services = 0 /\ enabled = 0 /\ run = 0 /\ executions = 0
            /\ cancelled = 0 /\ active = 0 /\ host = 0
NoGraph == phase = 0 /\ needs = 0 /\ remaining = 0 /\ queue = 0 /\ order = 0
NoRules == plan = 0 /\ verdict = 0
NoMatrix == cases = 0 /\ expansion = 0 /\ joined = 0 /\ steps = 0

legacyVars == <<chain, services, enabled, run, executions, cancelled, active, host>>
partsVars == <<part, cacheVars, fileVars, legacyVars, vars, ruleVars, matrixVars>>

PartsInit ==
    /\ part \in {"cache", "files", "legacy", "graph", "rules", "matrix"}
    /\ IF part = "cache" THEN CacheInit ELSE NoCache
    /\ IF part = "files" THEN FileInit ELSE NoFiles
    /\ IF part = "legacy" THEN Legacy!Init ELSE NoLegacy
    /\ IF part = "graph" THEN Init ELSE NoGraph
    /\ IF part = "rules" THEN RulesInit ELSE NoRules
    /\ IF part = "matrix" THEN MatrixInit ELSE NoMatrix

PartsNext ==
    /\ \/ part = "cache" /\ CacheNext
          /\ UNCHANGED <<fileVars, legacyVars, vars, ruleVars, matrixVars>>
       \/ part = "files" /\ FileNext
          /\ UNCHANGED <<cacheVars, legacyVars, vars, ruleVars, matrixVars>>
       \/ part = "legacy" /\ Legacy!Next
          /\ UNCHANGED <<cacheVars, fileVars, vars, ruleVars, matrixVars>>
       \/ part = "graph" /\ Next
          /\ UNCHANGED <<cacheVars, fileVars, legacyVars, ruleVars, matrixVars>>
       \/ part = "rules" /\ RulesNext
          /\ UNCHANGED <<cacheVars, fileVars, legacyVars, vars, matrixVars>>
       \/ part = "matrix" /\ MatrixNext
          /\ UNCHANGED <<cacheVars, fileVars, legacyVars, vars, ruleVars>>
       \* They come to an end; the order of a plan's tasks never stops without a verdict.
       \/ part # "graph"
          /\ UNCHANGED <<cacheVars, fileVars, legacyVars, vars, ruleVars, matrixVars>>
    /\ UNCHANGED part

PartsSpec == PartsInit /\ [][PartsNext]_partsVars

-----------------------------------------------------------------------------
\* Manifests are true and name stored blobs, and a restore is whole or leaves
\* the outputs as they were, over crashes, edits and damage.
CacheHolds == part = "cache" => CacheTypeOK /\ ManifestsHold /\ RestoreIsAtomic

\* No file is seen half written, nothing is overwritten that may not be, and a
\* copied tree appears with all that was listed.
FilesKept ==
    /\ [](part = "files" => FilesAreWhole)
    /\ [][part = "files" => ClobbersNothing /\ TreeAppearsWhole]_fileVars

\* The old engine runs what the chain says, saves its caches, tells the truth
\* about it and leaves nothing behind.
LegacyHolds == part = "legacy" => Legacy!LegacyRunsAreRight /\ Legacy!IdleIsFinal

\* An order of tasks respects their needs, and is found when there is one.
GraphIsRight == part = "graph" => TypeOK /\ Topological /\ VerdictIsRight

\* Plans with cached tasks are accepted exactly when these cannot disturb one another.
CachedPlansAgree == part = "rules" => RulesAgree

\* Different cases of a matrix never have one identity.
CasesDiffer == part = "matrix" => MatrixTells
=============================================================================
