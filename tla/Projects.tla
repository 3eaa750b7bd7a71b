------------------------------ MODULE Projects ------------------------------
(***************************************************************************)
(* The projects of the studio: the requests of src/server.rs about them    *)
(* and their rows in src/db.rs.  A request reads a row, works on its copy  *)
(* and writes the whole of it back, a statement later; only a renaming is  *)
(* a conditional update, and only the statistics of a finished run are     *)
(* written field by field.  Listings are cut into pages by offset.         *)
(* A name is what it is compared by, and whether it is spelled that way.   *)
(***************************************************************************)
EXTENDS Naturals, Sequences, FiniteSets

CONSTANTS Project, Requester, NoRow,
          UserNames,   \* what names users choose are compared by
          Values,      \* versions of a description, a display name, the tags
          MaxRequests, MaxStats, MaxReads, \* bounds
          PageSize

ASSUME PageAssumption == PageSize \in Nat \ {0}

Row == [name : (UserNames \cup Project) \X BOOLEAN, details : Values \cup {0},
        archived : BOOLEAN, stats : Nat]
Progress == [due : SUBSET Project, seen : Seq(Project), cursor : Nat, more : BOOLEAN]

\* Nobody chooses the name that is made of an id; NoRow is no row, and nothing
\* else that a request or a client remembers.
ASSUME RowAssumption ==
    /\ UserNames \cap Project = {}
    /\ NoRow \notin Row \cup Progress \cup [project : Project, read : Row]
    /\ NoRow \notin [project : Project, kind : {"edit", "rename", "archive", "unarchive"}, read : Row]
    /\ NoRow \notin [name : (UserNames \cup Project) \X BOOLEAN, details : Values \cup {0}, archived : BOOLEAN]

VARIABLES
    table,     \* projects: name, details, archived, stats; NoRow without one
    saved,     \* the projects whose detected actions were saved
    order,     \* the projects by created_at
    request,   \* what a request has read and not yet written, or NoRow
    runEnd,    \* the copies with which an executor computes statistics
    listing,   \* a client that follows the cursors of the list of projects
    held,      \* history: the metadata the last answered request gave a project
    torn,      \* history: projects whose row a stale copy was written to
    requests, statistics, reads

projectVars == <<table, saved, order, request, runEnd, listing, held, torn, requests, statistics, reads>>
counters == <<requests, statistics, reads>>

Count == requests < MaxRequests /\ requests' = requests + 1
Metadata(row) == IF row = NoRow THEN NoRow ELSE [name |-> row.name, details |-> row.details, archived |-> row.archived]
Range1(s) == {s[i] : i \in DOMAIN s}

\* The unique index of the column: the same spelling.
Taken(p, name) == \E q \in Project \ {p} : table[q] # NoRow /\ table[q].name = name
\* conflicting_name: trimmed, in lower case.
Conflicts(p, name) == \E q \in Project \ {p} : table[q] # NoRow /\ table[q].name[1] = name[1]

\* A write that answered its request: what p is now held to be.  It tears p if
\* the copy it was made from is no longer what the row says.
Wrote(p, read, row) ==
    /\ held' = [held EXCEPT ![p] = Metadata(row)]
    /\ torn' = IF Metadata(read) # Metadata(table[p]) THEN torn \cup {p} ELSE torn

ProjectsInit ==
    /\ table = [p \in Project |-> NoRow] /\ saved = {} /\ order = <<>>
    /\ request = [c \in Requester |-> NoRow] /\ runEnd = NoRow
    /\ listing = NoRow
    /\ held = [p \in Project |-> NoRow] /\ torn = {}
    /\ requests = 0 /\ statistics = 0 /\ reads = 0

-----------------------------------------------------------------------------
(* Requests. *)

\* create_project: the row, under a name made of the new id ...
CreateProject(p) ==
    /\ p \notin Range1(order) /\ order' = Append(order, p)
    /\ LET row == [name |-> <<p, TRUE>>, details |-> 0, archived |-> FALSE, stats |-> 0] IN
       table' = [table EXCEPT ![p] = row] /\ Wrote(p, NoRow, row)
    /\ UNCHANGED <<saved, request, runEnd, listing, counters>>

\* ... then the detected actions, which need the row.
SaveDetected(p) ==
    /\ table[p] # NoRow /\ p \notin saved /\ saved' = saved \cup {p}
    /\ UNCHANGED <<table, order, request, runEnd, listing, held, torn, counters>>

\* update_project, archive_project and unarchive_project read the row.
ReadProject(c, p, kind) ==
    /\ request[c] = NoRow /\ table[p] # NoRow /\ Count
    /\ request' = [request EXCEPT ![c] = [project |-> p, kind |-> kind, read |-> table[p]]]
    /\ UNCHANGED <<table, saved, order, runEnd, listing, held, torn, statistics, reads>>

Answer(c) == request' = [request EXCEPT ![c] = NoRow]

\* save_project inserts the row or replaces it.
SaveProject(p, read, row) ==
    IF Taken(p, row.name) THEN UNCHANGED <<table, held, torn>>
    ELSE table' = [table EXCEPT ![p] = row] /\ Wrote(p, read, row)

\* save_project_with_unique_name: only an existing row, only without a conflict.
SaveUnique(p, read, row) ==
    IF table[p] = NoRow \/ Conflicts(p, row.name) THEN UNCHANGED <<table, held, torn>>
    ELSE table' = [table EXCEPT ![p] = row] /\ Wrote(p, read, row)

UpdateProject(c) ==
    LET r == request[c] IN
    /\ r # NoRow /\ Answer(c)
    /\ \/ r.kind = "edit" /\ \E d \in Values : SaveProject(r.project, r.read, [r.read EXCEPT !.details = d])
       \/ r.kind = "rename" /\ \E n \in UserNames \X BOOLEAN, d \in {r.read.details} \cup Values :
             SaveUnique(r.project, r.read, [r.read EXCEPT !.name = n, !.details = d])
    /\ UNCHANGED <<saved, order, runEnd, listing, counters>>

Archive(c) ==
    LET r == request[c] IN
    /\ r # NoRow /\ r.kind \in {"archive", "unarchive"} /\ Answer(c)
    /\ SaveProject(r.project, r.read, [r.read EXCEPT !.archived = r.kind = "archive"])
    /\ UNCHANGED <<saved, order, runEnd, listing, counters>>

\* delete_project: the row, and with it what refers to it.
DeleteProject(p) ==
    /\ table[p] # NoRow /\ Count
    /\ table' = [table EXCEPT ![p] = NoRow] /\ saved' = saved \ {p}
    /\ Wrote(p, table[p], NoRow)
    /\ UNCHANGED <<order, request, runEnd, listing, statistics, reads>>

-----------------------------------------------------------------------------
(* The statistics at the end of a run. *)

\* The executor was given the project when its run was requested.
BeginRun(p) ==
    /\ runEnd = NoRow /\ table[p] # NoRow /\ ~table[p].archived
    /\ statistics < MaxStats /\ statistics' = statistics + 1
    /\ runEnd' = [project |-> p, read |-> table[p]]
    /\ UNCHANGED <<table, saved, order, request, listing, held, torn, requests, reads>>

\* Mutant: the executor saves its copy of the project.
SaveStatsWhole ==
    /\ runEnd # NoRow /\ runEnd' = NoRow
    /\ table' = [table EXCEPT ![runEnd.project] = [runEnd.read EXCEPT !.stats = statistics]]
    /\ UNCHANGED <<saved, order, request, listing, held, torn, counters>>
\* save_project_stats: json_set on the row there is, if there is one.
SaveStats ==
    /\ runEnd # NoRow /\ runEnd' = NoRow
    /\ table' = IF table[runEnd.project] = NoRow THEN table
                ELSE [table EXCEPT ![runEnd.project].stats = statistics]
    /\ UNCHANGED <<saved, order, request, listing, held, torn, counters>>

-----------------------------------------------------------------------------
(* A client that reads the list of projects page by page. *)

\* The n-th row is the one with n rows up to it.
RowsUpTo(k) == {i \in 1..k : table[order[i]] # NoRow}
Rows == [n \in 1..Cardinality(RowsUpTo(Len(order))) |->
            order[CHOOSE k \in DOMAIN order : k \in RowsUpTo(k) /\ Cardinality(RowsUpTo(k)) = n]]
\* page: skip the cursor, take the limit.
Page(rows, offset) == SubSeq(rows, offset + 1, IF offset + PageSize < Len(rows) THEN offset + PageSize ELSE Len(rows))

OpenListing ==
    /\ listing = NoRow /\ reads < MaxReads /\ reads' = reads + 1
    /\ listing' = [due |-> Range1(Rows), seen |-> <<>>, cursor |-> 0, more |-> TRUE]
    /\ UNCHANGED <<table, saved, order, request, runEnd, held, torn, requests, statistics>>

\* The cursor of an answer: where the page that was read ends.
Cursor(offset, rows) == offset + Len(rows)

NextPage ==
    /\ listing # NoRow /\ listing.more
    /\ LET rows == Page(Rows, listing.cursor) IN
       listing' = [listing EXCEPT !.seen = @ \o rows, !.cursor = Cursor(@, rows), !.more = rows # <<>>]
    /\ UNCHANGED <<table, saved, order, request, runEnd, held, torn, counters>>

CloseListing ==
    /\ listing # NoRow /\ ~listing.more /\ listing' = NoRow
    /\ UNCHANGED <<table, saved, order, request, runEnd, held, torn, counters>>

-----------------------------------------------------------------------------
ProjectsNext ==
    \/ \E p \in Project :
          \/ CreateProject(p) \/ SaveDetected(p) \/ DeleteProject(p) \/ BeginRun(p)
          \/ \E c \in Requester, k \in {"edit", "rename", "archive", "unarchive"} : ReadProject(c, p, k)
    \/ \E c \in Requester : UpdateProject(c) \/ Archive(c)
    \/ SaveStats \/ OpenListing \/ NextPage \/ CloseListing

ProjectsSpec == ProjectsInit /\ [][ProjectsNext]_projectVars

-----------------------------------------------------------------------------
(* Properties. *)

\* An edit, a renaming, an archiving or a deletion that was answered holds, however
\* many runs of the project end: statistics change nothing else and bring no
\* deleted project back.  Excepted are rows written from a stale copy.
EditsSurvive == \A p \in Project \ torn : Metadata(table[p]) = held[p]

\* Renamings leave no two projects with one name, whatever its case; excepted
\* are histories with a stale copy, which brings an old name back.
NamesDiffer ==
    torn = {} => \A p, q \in Project :
       p # q /\ table[p] # NoRow /\ table[q] # NoRow => table[p].name[1] # table[q].name[1]

\* A client that follows the cursors sees every project that is there from the
\* beginning to the end of its listing, and sees it once, if none is deleted
\* (or deleted and brought back by a stale copy).
PagesAreComplete ==
    listing # NoRow /\ torn = {} /\ (\A i \in DOMAIN order : table[order[i]] # NoRow) =>
       /\ \A i, j \in DOMAIN listing.seen : i # j => listing.seen[i] # listing.seen[j]
       /\ ~listing.more => listing.due \subseteq Range1(listing.seen)

ProjectsHold == EditsSurvive /\ NamesDiffer /\ PagesAreComplete
=============================================================================
