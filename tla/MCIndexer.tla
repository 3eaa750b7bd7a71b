----------------------------- MODULE MCIndexer -----------------------------
(***************************************************************************)
(* Small instances of Indexer: two sources and the histories in which      *)
(* revisions of one record meet a deletion, another subject, events        *)
(* without a revision and messages that are not indexed.                   *)
(***************************************************************************)
EXTENDS Indexer

CONSTANTS east, west, pkg, author

Made(kind, u) == [kind |-> kind, subject |-> u, rev |-> TRUE]
Untraced(kind, u) == [kind |-> kind, subject |-> u, rev |-> FALSE]

Other == Made("other", pkg)
Editing == <<Other, Made("upsert", pkg), Made("upsert", pkg), Made("delete", pkg)>>
Recreating == <<Other, Made("upsert", pkg), Made("delete", pkg), Made("upsert", pkg)>>
Accounting == <<Other, Made("account", author), Made("invalid", pkg), Untraced("account", author)>>
Unrevised == <<Other, Untraced("upsert", pkg), Made("upsert", pkg), Other>>

AllHistories == {Editing, Recreating, Accounting, Unrevised}
EditHistories == {Editing}

\* Each source stamps an event before another source stamps the next one.
Agreeing == {[s \in Source |-> [i \in 1..4 |-> 2 * i + (IF s = east THEN 0 ELSE d)]] : d \in {0, 1}}
\* The clock of one source is ahead by more than a revision.
Skewed == {[s \in Source |-> [i \in 1..4 |-> 2 * i + (IF s = east THEN 3 ELSE 0)]]}
=============================================================================
