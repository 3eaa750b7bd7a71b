----------------------------- MODULE FileTasks -----------------------------
(***************************************************************************)
(* Native file tasks: engine/crates/executor/src/files.rs.                 *)
(*                                                                         *)
(* Tasks of one or several runs work on the same directory, and so does    *)
(* an editor.  A step is one look at the directory or one change of it.    *)
(* A file has two chunks, because a copy reads it piece by piece.  Paths   *)
(* have one or two parts.  Queries (read, list, stat, exists, glob, hash)  *)
(* and modes change nothing that is modelled.                              *)
(***************************************************************************)
EXTENDS Integers, FiniteSets, Sequences, SequencesExt

CONSTANTS FileTask,   \* tasks
          PathOrder,  \* the paths, of one or two parts, in order
          Operation,  \* the operations tasks may have
          Trees,      \* what the directory may look like at first
          MaxEdits    \* bound: in-place edits of files

Path == ToSet(PathOrder)
Parent(path) == Front(path)
Below(path) == {q \in Path : Len(q) = 2 /\ Front(q) = path}

\* Operation::validate: what is copied or moved and where to do not overlap.
ValidOperation(o) ==
    o.op \in {"copy", "tree", "move"} => ~IsPrefix(o.from, o.to) /\ ~IsPrefix(o.to, o.from)

\* What is copied or moved with its entries has room for them where it goes.
Roomy(o) ==
    Len(o.from) = Len(o.to) /\ \A q \in Below(o.from) : Append(o.to, Last(q)) \in Path

ASSUME FileAssumption ==
    /\ PathOrder \in Seq(Seq(STRING)) /\ MaxEdits \in Nat
    /\ \A path \in Path : Len(path) \in {1, 2} /\ (Len(path) = 2 => Front(path) \in Path)
    /\ \A o \in Operation :
          /\ o.op \in {"write", "copy", "tree", "move", "remove", "mkdir", "symlink"}
          /\ o.to \in Path /\ (o.op \in {"copy", "tree", "move"} => o.from \in Path)
          /\ ValidOperation(o)
          /\ o.op \in {"tree", "move"} => Roomy(o)
          /\ o.op = "mkdir" => Len(o.to) = 1
          /\ o.op = "write" => o.text \in Nat

VARIABLES tree,   \* what is at each path
          filetask, \* each task
          edits

fileVars == <<tree, filetask, edits>>

Nothing == [kind |-> "none", data |-> <<>>]
Directory == [kind |-> "dir", data |-> <<>>]
Link == [kind |-> "link", data |-> <<>>]
Regular(v, w) == [kind |-> "file", data |-> <<v, w>>]

Whole(node) ==
    \/ node \in {Nothing, Directory, Link}
    \/ node.data[1] \in Nat /\ node = Regular(node.data[1], node.data[1])
\* Nothing is half written at first, and what is in a directory has one.
ASSUME TreesAssumption ==
    \A t \in Trees :
       /\ t = [path \in Path |-> t[path]] /\ \A path \in Path : Whole(t[path])
       /\ \A path \in Path : Len(path) = 2 =>
             t[path] # Directory /\ (t[path] # Nothing => t[Parent(path)] = Directory)

Exists(path) == tree[path] # Nothing
IsDir(path) == path = <<>> \/ tree[path] = Directory
IsFile(path) == tree[path].kind = "file"
Children(path) == {q \in Below(path) : Exists(q)}
\* path(): no parent is a symbolic link.
NoLink(path) == Len(path) = 2 => tree[Parent(path)] # Link

\* A task: the entries still to be dealt with, the one that is, where the file
\* it opened is now (<<>> when it has been replaced or removed), what it read,
\* whether it changed, the entries copied next to the destination, and (history) those listed.
NewTask(o) == [op |-> o, at |-> "start", todo |-> {}, entry |-> <<>>, open |-> <<>>,
               data |-> <<>>, changed |-> FALSE, staged |-> FALSE, stage |-> {},
               listed |-> {},
               cancelled |-> FALSE]

FileInit ==
    /\ tree \in Trees
    /\ filetask \in [FileTask -> {NewTask(o) : o \in Operation}]
    /\ edits = 0

-----------------------------------------------------------------------------
(* Steps of a task. *)

Op(t) == filetask[t].op
\* A step that leaves the directory alone.
Look(t, job) == filetask' = [filetask EXCEPT ![t] = job] /\ UNCHANGED <<tree, edits>>
FailFile(t) == Look(t, [filetask[t] EXCEPT !.at = "failed"])
\* A step that changes it: a file that is replaced or removed stays open as it was.
Change(t, paths, new, job) ==
    /\ tree' = new
    /\ filetask' = [u \in FileTask |->
                       IF u = t THEN job
                       ELSE IF filetask[u].open \in paths THEN [filetask[u] EXCEPT !.open = <<>>]
                       ELSE filetask[u]]
    /\ UNCHANGED edits
Set(t, path, node, place) ==
    Change(t, {path}, [tree EXCEPT ![path] = node], [filetask[t] EXCEPT !.at = place])

\* perform looks whether the task was cancelled; path() rejects links.
Refused(t) ==
    LET rejects(path) == ~NoLink(path) \/ (tree[path] = Link /\ Op(t).op \notin {"move", "remove"}) IN
    \/ filetask[t].cancelled \/ rejects(Op(t).to)
    \/ Op(t).op \in {"copy", "tree", "move"} /\ rejects(Op(t).from)
Declines(t) == filetask[t].at = "start" /\ Refused(t) /\ FailFile(t)
Begins(t, op) == filetask[t].at = "start" /\ Op(t).op = op /\ ~Refused(t)

-----------------------------------------------------------------------------
(* write, copy, copy_tree *)

\* A temporary file in the directory of the destination.
BeginWrite(t) ==
    /\ Begins(t, "write")
    /\ IF IsDir(Parent(Op(t).to))
       THEN Look(t, [filetask[t] EXCEPT !.at = "commit", !.data = <<Op(t).text, Op(t).text>>])
       ELSE FailFile(t)

Opened(t, path) ==
    [filetask[t] EXCEPT !.at = "chunk", !.open = path, !.entry = path, !.changed = FALSE,
                        !.data = <<tree[path].data[1]>>]
BeginCopy(t) ==
    /\ Begins(t, "copy")
    /\ IF IsFile(Op(t).from) /\ IsDir(Parent(Op(t).to))
       THEN Look(t, Opened(t, Op(t).from))
       ELSE FailFile(t)

\* A destination that exists is merged into when that is allowed; otherwise the
\* tree is copied next to where it will be.
BeginTree(t) ==
    LET to == Op(t).to IN
    /\ Begins(t, "tree")
    /\ IF IF Exists(to) THEN Op(t).overwrite /\ IsDir(to) ELSE IsDir(Parent(to))
       THEN Look(t, [filetask[t] EXCEPT !.at = "list", !.staged = ~Exists(to)])
       ELSE FailFile(t)

\* entries: the directory is listed once, and worked off in order.
Position(path) == CHOOSE i \in DOMAIN PathOrder : PathOrder[i] = path
First(S) == CHOOSE path \in S : \A q \in S : Position(path) <= Position(q)
ListEntries(t) ==
    /\ filetask[t].at = "list"
    /\ IF IsDir(Op(t).from) /\ ~filetask[t].cancelled
       THEN Look(t, [filetask[t] EXCEPT !.at = "entry", !.todo = Children(Op(t).from),
                                        !.listed = Children(Op(t).from)])
       ELSE FailFile(t)

NextEntry(t) ==
    LET todo == filetask[t].todo IN
    /\ filetask[t].at = "entry"
    /\ IF todo = {} THEN Look(t, [filetask[t] EXCEPT !.at = IF filetask[t].staged THEN "look" ELSE "done"])
       ELSE IF ~filetask[t].cancelled /\ IsFile(First(todo))
       THEN Look(t, [Opened(t, First(todo)) EXCEPT !.todo = todo \ {First(todo)}])
       ELSE FailFile(t)

\* The second chunk comes from the file that was opened, wherever it is now.
ReadChunk(t) ==
    LET job == filetask[t]
        chunk == IF job.open = <<>> THEN job.data[1] ELSE tree[job.open].data[2] IN
    /\ job.at = "chunk"
    /\ IF job.cancelled THEN FailFile(t)
       ELSE Look(t, [job EXCEPT !.at = "compare", !.data = Append(@, chunk)])

\* Mutant: a source that changed during the copy is not noticed.
CompareNothing(t) ==
    /\ filetask[t].at = "compare"
    /\ Look(t, [filetask[t] EXCEPT !.at = "commit", !.open = <<>>])

\* The source's size and time are compared with what they were.
Compare(t) ==
    /\ filetask[t].at = "compare"
    /\ IF filetask[t].changed THEN FailFile(t)
       ELSE Look(t, [filetask[t] EXCEPT !.at = "commit", !.open = <<>>])

Placed(t) == Regular(filetask[t].data[1], filetask[t].data[2])
Target(t) == IF Op(t).op = "tree" THEN Append(Op(t).to, Last(filetask[t].entry)) ELSE Op(t).to

\* commit: persist replaces a file or a link, persist_noclobber nothing.
CommitAt(t, path, place) ==
    IF \/ filetask[t].cancelled \/ ~IsDir(Parent(path)) \/ IsDir(path)
       \/ ~Op(t).overwrite /\ Exists(path)
    THEN FailFile(t)
    ELSE Set(t, path, Placed(t), place)

Commit(t) ==
    /\ filetask[t].at = "commit"
    /\ IF filetask[t].staged
       THEN IF filetask[t].cancelled THEN FailFile(t)
            ELSE Look(t, [filetask[t] EXCEPT !.at = "entry",
                                             !.stage = @ \cup {<<Target(t), Placed(t)>>}])
       ELSE CommitAt(t, Target(t), IF Op(t).op = "tree" THEN "entry" ELSE "done")

\* Before the staged tree is renamed the destination is looked at once more.
LookAgain(t) ==
    /\ filetask[t].at = "look"
    /\ IF filetask[t].cancelled \/ Exists(Op(t).to) THEN FailFile(t)
       ELSE Look(t, [filetask[t] EXCEPT !.at = "rename"])

\* rename replaces an empty directory by a directory.
RenameTree(t) ==
    LET to == Op(t).to
        arrived == [q \in Path |->
                       IF q = to THEN Directory
                       ELSE IF \E e \in filetask[t].stage : e[1] = q
                       THEN (CHOOSE e \in filetask[t].stage : e[1] = q)[2] ELSE tree[q]] IN
    /\ filetask[t].at = "rename" /\ Op(t).op = "tree"
    /\ IF ~IsDir(Parent(to)) \/ (Exists(to) /\ ~(IsDir(to) /\ Children(to) = {}))
       THEN FailFile(t)
       ELSE Change(t, {}, arrived, [filetask[t] EXCEPT !.at = "done"])

-----------------------------------------------------------------------------
(* move, remove, mkdir, symlink *)

BeginMove(t) ==
    /\ Begins(t, "move")
    /\ IF ~Op(t).overwrite /\ Exists(Op(t).to) THEN FailFile(t)
       ELSE Look(t, [filetask[t] EXCEPT !.at = "rename"])

\* What rename does to source and destination, and to a file that is open.
Renames(from, to) ==
    /\ Exists(from) /\ IsDir(Parent(to))
    /\ IF IsDir(from) THEN ~Exists(to) \/ (IsDir(to) /\ Children(to) = {}) ELSE ~IsDir(to)
Moved(from, to, q) == IF IsPrefix(from, q) THEN to \o SubSeq(q, Len(from) + 1, Len(q)) ELSE q
Rename(t) ==
    LET from == Op(t).from
        to == Op(t).to
        source(q) == IF IsPrefix(to, q) THEN Moved(to, from, q) ELSE q IN
    /\ filetask[t].at = "rename" /\ Op(t).op = "move"
    /\ IF ~Renames(from, to) THEN FailFile(t)
       ELSE /\ tree' = [q \in Path |-> IF IsPrefix(from, q) THEN Nothing
                                       ELSE IF source(q) \in Path THEN tree[source(q)] ELSE Nothing]
            /\ filetask' = [u \in FileTask |->
                   IF u = t THEN [filetask[t] EXCEPT !.at = "done"]
                   ELSE [filetask[u] EXCEPT !.open = IF @ = to THEN <<>> ELSE Moved(from, to, @)]]
            /\ UNCHANGED edits

\* Recursive: the entries first, each on its own.
BeginRemove(t) ==
    LET path == Op(t).to IN
    /\ Begins(t, "remove")
    /\ IF ~Exists(path)
       THEN IF Op(t).missing_ok THEN Look(t, [filetask[t] EXCEPT !.at = "done"]) ELSE FailFile(t)
       ELSE IF ~IsDir(path) THEN Set(t, path, Nothing, "done")
       ELSE Look(t, [filetask[t] EXCEPT !.at = "remove",
                                        !.todo = IF Op(t).recursive THEN Children(path) ELSE {}])
RemoveEntry(t) ==
    LET todo == filetask[t].todo IN
    /\ filetask[t].at = "remove" /\ todo # {}
    /\ IF filetask[t].cancelled \/ ~Exists(First(todo)) THEN FailFile(t)
       ELSE Change(t, {First(todo)}, [tree EXCEPT ![First(todo)] = Nothing],
                   [filetask[t] EXCEPT !.todo = todo \ {First(todo)}])
RemoveDirectory(t) ==
    LET path == Op(t).to IN
    /\ filetask[t].at = "remove" /\ filetask[t].todo = {}
    /\ IF IsDir(path) /\ Children(path) = {} THEN Set(t, path, Nothing, "done") ELSE FailFile(t)

\* create_dir and symlink fail on what is there, create_dir_all does not on a
\* directory.
Make(t) ==
    LET to == Op(t).to IN
    /\ Begins(t, "mkdir") \/ Begins(t, "symlink")
    /\ IF ~Exists(to) /\ IsDir(Parent(to))
       THEN Set(t, to, IF Op(t).op = "mkdir" THEN Directory ELSE Link, "done")
       ELSE IF Op(t).op = "mkdir" /\ Op(t).parents /\ IsDir(to)
       THEN Look(t, [filetask[t] EXCEPT !.at = "done"])
       ELSE FailFile(t)

-----------------------------------------------------------------------------
(* The environment: an editor writes a file in place; tasks are cancelled. *)

EditFile(path) ==
    /\ IsFile(path) /\ edits < MaxEdits
    /\ edits' = edits + 1
    /\ tree' = [tree EXCEPT ![path] = Regular(edits + 1, edits + 1)]
    /\ filetask' = [t \in FileTask |-> [filetask[t] EXCEPT !.changed = @ \/ filetask[t].open = path]]

CancelFile(t) ==
    /\ filetask[t].at \notin {"done", "failed"} /\ ~filetask[t].cancelled
    /\ Look(t, [filetask[t] EXCEPT !.cancelled = TRUE])

FileStep(t) ==
    \/ Declines(t) \/ BeginWrite(t) \/ BeginCopy(t) \/ BeginTree(t) \/ ListEntries(t)
    \/ NextEntry(t) \/ ReadChunk(t) \/ Compare(t) \/ Commit(t) \/ LookAgain(t)
    \/ RenameTree(t) \/ BeginMove(t) \/ Rename(t) \/ BeginRemove(t) \/ RemoveEntry(t)
    \/ RemoveDirectory(t) \/ Make(t) \/ CancelFile(t)

FileNext == (\E t \in FileTask : FileStep(t)) \/ \E path \in Path : EditFile(path)

FileSpec == FileInit /\ [][FileNext]_fileVars

-----------------------------------------------------------------------------
(* Properties. *)

\* Nobody sees a file that is partly old and partly new, wherever a source was
\* edited, replaced, moved or removed while it was copied.
FilesAreWhole ==
    \A path \in Path : IsFile(path) => tree[path].data[1] = tree[path].data[2]

\* A task that may not overwrite leaves what it finds alone, up to the moment
\* of its last step, except that a move looks before it renames and a staged
\* tree takes the place of an empty directory.
ClobbersNothing ==
    \A t \in FileTask : \A path \in Path :
       /\ Op(t).op \in {"write", "copy", "tree", "mkdir", "symlink"}
       /\ filetask'[t].at # filetask[t].at /\ Exists(path) /\ tree'[path] # tree[path]
       => Op(t).op \in {"write", "copy", "tree"} /\ Op(t).overwrite

\* A tree that is copied to a new place appears there with everything that was
\* listed, or not at all.
TreeAppearsWhole ==
    \A t \in FileTask :
       Op(t).op = "tree" /\ filetask[t].staged /\ tree' # tree /\ filetask'[t].at # filetask[t].at
       => /\ filetask'[t].at = "done" /\ tree'[Op(t).to] = Directory
          /\ \A q \in filetask[t].listed : \E e \in filetask[t].stage :
                 Last(e[1]) = Last(q) /\ tree'[e[1]] = e[2]
=============================================================================
