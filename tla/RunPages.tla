------------------------------- MODULE RunPages -------------------------------
(***************************************************************************)
(* The run server's history as a client reads it (history_page and history *)
(* of server/src/runs.rs): pages of at most Limit runs, newest first, each *)
(* continued from the last run of the page before, while runs are admitted *)
(* and the server is restarted.  Runs are keyed by the millisecond of      *)
(* their admission and their identity; the wall clock may stand still or   *)
(* be set back.                                                            *)
(***************************************************************************)
EXTENDS Naturals, Sequences, FiniteSets, FiniteSetsExt, SequencesExt

CONSTANTS RunIds, Times, Limits

ASSUME PagesAssumption ==
  RunIds \subseteq Nat /\ Times \subseteq Nat /\ Limits \subseteq Nat \ {0}

VARIABLES
  kept,       \* the key in each run's state.json, for the runs that have one
  indexed,   \* history_index: the keys a page is made of
  halfway,   \* the run whose admission has saved its state but not its key
  limit,     \* the page size the client asks for
  cursor,    \* none yet, a key, or the end
  listed,    \* the keys the client was shown, in order
  present    \* the index when it asked for its first page

pageVars == <<kept, indexed, halfway, limit, cursor, listed, present>>

NoCursor == <<>>
TheEnd == <<"end">>
RunKey == Times \X RunIds

\* The order of (created_at_ms, id).
Before(k, l) == k[1] < l[1] \/ (k[1] = l[1] /\ k[2] < l[2])

PagesInit ==
  /\ kept = {} /\ indexed = {} /\ halfway = {}
  /\ limit \in Limits /\ cursor = NoCursor /\ listed = <<>> /\ present = {}

-----------------------------------------------------------------------------
(* admit saves the state and then inserts the key, one admission at a time.  *)

SavesState ==
  /\ halfway = {}
  /\ \E k \in RunKey :
       /\ \A l \in kept : l[2] # k[2]
       /\ kept' = kept \union {k} /\ halfway' = {k}
  /\ UNCHANGED <<indexed, limit, cursor, listed, present>>

InsertsKey ==
  /\ halfway # {} /\ indexed' = indexed \union halfway /\ halfway' = {}
  /\ UNCHANGED <<kept, limit, cursor, listed, present>>

\* with_recovery indexes every state it finds.
RestartsServer ==
  /\ indexed' = kept /\ halfway' = {}
  /\ UNCHANGED <<kept, limit, cursor, listed, present>>

-----------------------------------------------------------------------------
(* A page: the keys below the cursor are copied under the index's lock, one  *)
(* more than the page holds, to know whether another page follows.           *)

Below == IF cursor = NoCursor THEN indexed
         ELSE {k \in indexed : Before(k, cursor)}

\* The place of a key among those of S, newest first.
Rank(S, k) == Cardinality({l \in S : l = k \/ Before(k, l)})
NewestFirst(S, n) == [i \in 1..Min({n, Cardinality(S)}) |-> CHOOSE k \in S : Rank(S, k) = i]

\* Mutant: the cursor names the extra key, which is then left out.
NextCursorExtra(page) ==
  IF Len(page) > limit THEN page[limit + 1] ELSE TheEnd
\* The cursor names the last run shown.
NextCursor(page) ==
  IF Len(page) > limit THEN page[limit] ELSE TheEnd

AsksPage ==
  /\ cursor # TheEnd
  /\ LET page == NewestFirst(Below, limit + 1) IN
       /\ listed' = listed \o SubSeq(page, 1, Min({limit, Len(page)}))
       /\ cursor' = NextCursor(page)
  /\ present' = IF cursor = NoCursor THEN indexed ELSE present
  /\ UNCHANGED <<kept, indexed, halfway, limit>>

PagesNext == SavesState \/ InsertsKey \/ RestartsServer \/ AsksPage

PagesSpec == PagesInit /\ [][PagesNext]_pageVars

-----------------------------------------------------------------------------
(* A client that follows the cursors is shown every run that was there when   *)
(* it began, newest first and none twice, whatever is admitted meanwhile and  *)
(* however many runs share a millisecond (history_page).                      *)
HistoryIsWhole ==
  /\ \A i, j \in DOMAIN listed : i < j => Before(listed[j], listed[i])
  /\ cursor = TheEnd => present \subseteq ToSet(listed)
  /\ ToSet(listed) \subseteq kept
=============================================================================
