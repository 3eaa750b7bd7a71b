---------------------------- MODULE WorkflowFiles ----------------------------
(***************************************************************************)
(* The workflow files of a project: src/workflows/mod.rs and storage.rs,   *)
(* the mutations of src/server.rs that call them and src/project_git.rs.   *)
(* A writer reads the definition, takes the lock of the directory, reads   *)
(* all of it again, checks the revision its client expects, and puts a     *)
(* whole file in place.  An editor and git change the same files without   *)
(* the lock.  A definition is its id, its metadata and its steps; the      *)
(* revision of a file is its name and contents.                            *)
(***************************************************************************)
EXTENDS Naturals, FiniteSets

CONSTANTS Id, Default, Stray, Peer, Absent,
          Committed,  \* [Branch -> files]: what the branches of the repository hold
          MaxSaves, MaxEdits \* bounds: requests, changes by an editor or git

Branch == DOMAIN Committed
Path == Id \cup {Stray}     \* "<id>.toml", and a file named otherwise
Field == {"meta", "steps"}
Value == {0, 1, 2, 3}       \* of a field; 3 is one that validate refuses
Definition == [id : Id, meta : Value, steps : Value]
Files == [Path -> Definition \cup {Absent}]
Shown == [path : Path, contents : Definition]
Writer == [id : Id, kind : Field \cup {"create", "delete"}, expects : BOOLEAN,
            phase : {"waiting", "locked"}, base : Shown \cup {Absent}, loaded : Shown]

ASSUME WorkflowAssumption ==
    /\ IsFiniteSet(Id) /\ Default \in Id /\ Stray \notin Id /\ Branch # {}
    /\ \A b \in Branch : Committed[b] \in Files
    /\ Absent \notin Peer \cup Definition \cup Shown \cup Writer

VARIABLES
    files,    \* .fluentci/workflows
    branch, mutating,  \* git: HEAD, and whether a switch holds the mutex
    opened,   \* the file a client has open in the studio: its path and contents
    save,     \* the request of a client
    lock,     \* whose request holds .lock
    kept,     \* history: what the answered writes and the edits made of each id
    crossed,  \* history: ids that an edit changed under a writer that had read them
    saves, edits

workflowVars == <<files, branch, mutating, opened, save, lock, kept, crossed, saves, edits>>

-----------------------------------------------------------------------------
At(fs, id) == {p \in Path : fs[p] # Absent /\ fs[p].id = id}
\* Definition::validate: the id, the name, the environments and the actions.
Valid(d) == \A f \in Field : d[f] # 3
\* entries fails on a file that is not valid, and on two files with one id.
Readable(fs) ==
    /\ \A p \in Path : fs[p] # Absent => Valid(fs[p])
    /\ \A id \in Id : Cardinality(At(fs, id)) <= 1
Where(fs, id) == CHOOSE p \in At(fs, id) : TRUE
Entry(fs, id) == IF At(fs, id) = {} THEN Absent
                 ELSE [path |-> Where(fs, id), contents |-> fs[Where(fs, id)]]

Contents(fs, id) == {fs[p] : p \in At(fs, id)}

\* The definition the actions of the database or the detection stand for.
Legacy == [id |-> Default, meta |-> 0, steps |-> 0]

SaveEnds(c) ==
    /\ save' = [save EXCEPT ![c] = Absent]
    /\ lock' = IF lock = c THEN Absent ELSE lock

WorkflowInit ==
    /\ branch \in Branch /\ files = Committed[branch] /\ mutating = FALSE
    /\ opened = [c \in Peer |-> Absent] /\ save = [c \in Peer |-> Absent]
    /\ lock = Absent /\ kept = [id \in Id |-> Contents(files, id)] /\ crossed = {}
    /\ saves = 0 /\ edits = 0

\* The ids whose files become others.
Changed(fs) == {id \in Id : {<<p, fs[p]>> : p \in At(fs, id)} # {<<p, files[p]>> : p \in At(files, id)}}

-----------------------------------------------------------------------------
(* Clients of the studio. *)

\* Query::workflows and actions: the client keeps the revision it is shown.
OpenWorkflow(c, id) ==
    /\ save[c] = Absent /\ Readable(files)
    /\ opened' = [opened EXCEPT ![c] = Entry(files, id)]
    /\ opened' # opened
    /\ UNCHANGED <<files, branch, mutating, save, lock, kept, crossed, saves, edits>>

\* create_workflow, update_workflow, save_actions and delete_workflow, up to the
\* definition that workflows::update reads before it takes the lock.
SaveRequest(c, id, kind, expects) ==
    /\ save[c] = Absent /\ saves < MaxSaves /\ saves' = saves + 1
    /\ kind \in {"create", "delete"} => id # Default
    /\ kind = "create" => ~expects
    /\ LET entry == Entry(files, id) IN
       /\ kind \in Field => Readable(files) /\ (entry # Absent \/ id = Default)
       /\ save' = [save EXCEPT ![c] =
             [id |-> id, kind |-> kind, expects |-> expects, phase |-> "waiting", base |-> Absent,
              loaded |-> IF entry = Absent THEN [path |-> id, contents |-> Legacy] ELSE entry]]
    /\ UNCHANGED <<files, branch, mutating, opened, lock, kept, crossed, edits>>

\* check_revision, of the entry that is read under the lock; a client that saw
\* no file expects none.
CheckRevision(c, entry) == save[c].expects => opened[c] = entry

\* write, update, delete: lock, read everything, check.
Lock(c) ==
    LET entry == Entry(files, save[c].id) IN
    /\ save[c] # Absent /\ save[c].phase = "waiting" /\ lock = Absent
    /\ IF /\ Readable(files) /\ CheckRevision(c, entry)
          /\ save[c].kind = "create" => entry = Absent
          /\ save[c].kind = "delete" => entry # Absent
          /\ save[c].kind \in Field => entry # Absent \/ save[c].id = Default
       THEN /\ lock' = c
            /\ save' = [save EXCEPT ![c] = [@ EXCEPT !.phase = "locked", !.base = entry]]
       ELSE SaveEnds(c)
    /\ UNCHANGED <<files, branch, mutating, opened, kept, crossed, saves, edits>>

\* Mutant: the definition that was read before the lock is edited.
ReviseLoaded(s, value) ==
    IF s.kind = "create" THEN [id |-> s.id, meta |-> value, steps |-> 0]
    ELSE [s.loaded.contents EXCEPT ![s.kind] = value]
\* What is put in place: the fields that the request does not name stay.
Revise(s, value) ==
    IF s.kind = "create" THEN [id |-> s.id, meta |-> value, steps |-> 0]
    ELSE [IF s.base = Absent THEN Legacy ELSE s.base.contents EXCEPT ![s.kind] = value]

\* persist_noclobber
Creatable(p) == files[p] = Absent

\* persist: a temporary file is renamed over the path.
Persist(c, value) ==
    LET s == save[c]
        p == IF s.base = Absent THEN s.id ELSE s.base.path
        d == Revise(s, value) IN
    /\ s # Absent /\ s.phase = "locked" /\ s.kind # "delete" /\ SaveEnds(c)
    /\ IF Valid(d) /\ (s.base = Absent => Creatable(p))
       THEN /\ files' = [files EXCEPT ![p] = d]
            /\ kept' = [kept EXCEPT ![s.id] =
                  IF s.kind = "create" \/ @ = {} THEN {d} ELSE {[x EXCEPT ![s.kind] = value] : x \in @}]
       ELSE UNCHANGED <<files, kept>>
    /\ UNCHANGED <<branch, mutating, opened, crossed, saves, edits>>

Delete(c) ==
    LET s == save[c] IN
    /\ s # Absent /\ s.phase = "locked" /\ s.kind = "delete" /\ SaveEnds(c)
    /\ files' = [files EXCEPT ![s.base.path] = Absent]
    /\ kept' = [kept EXCEPT ![s.id] = {}]
    /\ UNCHANGED <<branch, mutating, opened, crossed, saves, edits>>

\* The server ends: requests are dropped, the operating system unlocks.
StudioEnds ==
    /\ \E c \in Peer : save[c] # Absent
    /\ save' = [c \in Peer |-> Absent] /\ lock' = Absent /\ mutating' = FALSE
    /\ UNCHANGED <<files, branch, opened, kept, crossed, saves, edits>>

-----------------------------------------------------------------------------
(* Those who do not take the lock. *)

Rewrite(fs) ==
    /\ edits < MaxEdits /\ edits' = edits + 1
    /\ fs # files /\ files' = fs
    /\ kept' = [id \in Id |-> Contents(fs, id)]
    /\ crossed' = IF lock = Absent THEN crossed ELSE crossed \cup Changed(fs)
    /\ UNCHANGED <<opened, save, lock, saves>>

\* A text editor: a field of a file, a copy of it under another name, its end.
EditFile(p) ==
    /\ files[p] # Absent
    /\ \/ \E f \in Field : \E v \in {2, 3} : Rewrite([files EXCEPT ![p][f] = v])
       \/ \E q \in Path : Rewrite([files EXCEPT ![q] = files[p]])
       \/ Rewrite([files EXCEPT ![p] = Absent])
    /\ UNCHANGED <<branch, mutating>>

\* project_git::update takes the mutex, looks at the branches, ...
BeginSwitch ==
    /\ ~mutating /\ mutating' = TRUE
    /\ UNCHANGED <<files, branch, opened, save, lock, kept, crossed, saves, edits>>

\* ... and git replaces what differs between them, or refuses because a file
\* it would replace is not as it was committed.
Switch(b) ==
    LET differs == {p \in Path : Committed[b][p] # Committed[branch][p]} IN
    /\ mutating /\ mutating' = FALSE
    /\ IF \A p \in differs : files[p] = Committed[branch][p]
       THEN /\ branch' = b
            /\ Rewrite([p \in Path |-> IF p \in differs THEN Committed[b][p] ELSE files[p]])
       ELSE UNCHANGED <<files, branch, opened, save, lock, kept, crossed, saves, edits>>

WorkflowNext ==
    \/ \E c \in Peer :
          \/ \E id \in Id : OpenWorkflow(c, id)
          \/ \E id \in Id, k \in Field \cup {"create", "delete"}, x \in BOOLEAN : SaveRequest(c, id, k, x)
          \/ Lock(c) \/ Delete(c) \/ \E v \in {1, 3} : Persist(c, v)
    \/ StudioEnds \/ \E p \in Path : EditFile(p)
    \/ BeginSwitch \/ \E b \in Branch : Switch(b)

WorkflowSpec == WorkflowInit /\ [][WorkflowNext]_workflowVars

-----------------------------------------------------------------------------
(* Properties. *)

\* Requests that were answered keep what they wrote: a request for another field
\* of the same definition, however it overlapped, preserves it.  Excepted are ids
\* that an edit without the lock changed between a writer's reading and writing.
FieldsMerge == \A id \in Id \ crossed : Contents(files, id) = kept[id]

\* What nobody but the studio writes, the studio can always read back.
StaysReadable == edits = 0 => Readable(files)

SavesMerge == FieldsMerge /\ StaysReadable

\* A writer replaces the version it was meant to: a new file replaces none, not even an
\* editor's, and a save with a revision replaces the file its client was shown.
WritesInformed ==
    \A c \in Peer :
       save[c] # Absent /\ save[c].phase = "locked" /\ files' # files /\ save'[c] = Absent =>
          /\ save[c].base = Absent => files[save[c].id] = Absent
          /\ save[c].expects /\ save[c].id \notin crossed => opened[c] = Entry(files, save[c].id)
=============================================================================
