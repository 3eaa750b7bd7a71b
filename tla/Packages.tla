------------------------------ MODULE Packages ------------------------------
(***************************************************************************)
(* Releases, fluentci.lock and what a command runs: src/publishing.rs,     *)
(* lockfile.rs, registry.rs, git_source.rs, modules.rs and the upload      *)
(* handler of the registry (apps/api, runtime_ffi.mjs).                    *)
(*                                                                         *)
(* Several processes publish, install, update, add and run modules of one  *)
(* workspace.  A step is one read, one request or one atomic replacement   *)
(* of a file.  fluentci.toml is edited, releases are indexed and records   *)
(* deleted, URLs change what they serve, caches are damaged, and processes *)
(* are killed between any two steps.                                       *)
(***************************************************************************)
EXTENDS Integers, FiniteSets, FiniteSetsExt

CONSTANTS Process,  \* processes of the command line
          Versions, \* versions of the one registry package, 1..n
          Builds,   \* contents a Wasm artifact can have, 1..n
          Commands, \* bound: commands started
          Events    \* bound: edits, damages, deletions, kills, commits

\* References: a version of the package (0 is `latest`), the HEAD of a Git
\* repository, a URL and a local source.
Registered == {<<"package", v>> : v \in 0..Versions}
Git == <<"git", 0>>
Url == <<"url", 0>>
Local == <<"path", 0>>
References == Registered \cup {Git, Url, Local}
Lockable == Registered \cup {Git}

None == [version |-> 0, digest |-> 0, at |-> "none"]
Releases == [version : 1..Versions, digest : 1..Builds, at : {"store", "mirror"}]

VARIABLES
    declared, \* the modules of fluentci.toml
    lock,     \* fluentci.lock
    guard,    \* who holds fluentci.lock.guard
    store,    \* the registry's object of each version; 0 is none
    records,  \* the publisher's record of each version
    index,    \* what the registry indexed of each version
    mirror,   \* what the URL outside the registry serves
    head,     \* the commit at the HEAD of the Git repository
    cache,    \* the cached file of each digest, intact or not; 0 is none
    fetched,  \* the cached download of the URL module; 0 is none
    cmd,      \* each process
    commands, events

outside == <<store, records, index, mirror, head>>
caches == <<cache, fetched>>
workspaceVars == <<declared, lock, guard>>
packageVars == <<workspaceVars, outside, caches, cmd, commands, events>>

Nobody == "nobody"
EmptyLock == [exists |-> FALSE, modules |-> {}, entry |-> [r \in Registered |-> None], commit |-> 0]
Ready == [at |-> "idle", kind |-> "none", frozen |-> FALSE, seen |-> {}, done |-> {},
          reference |-> Local, work |-> EmptyLock, entry |-> None, build |-> 0, ran |-> 0]
Phases == {"idle", "upload", "record", "git", "gitlocked", "wait", "locked", "resolve",
           "resolved", "prepare", "fetch", "build", "ran", "check", "persist"}

PackagesTypeOK ==
    /\ declared \subseteq References /\ lock.modules \subseteq Lockable
    /\ \A r \in Registered : lock.entry[r] \in Releases \cup {None}
    /\ guard \in Process \cup {Nobody} /\ mirror \in 1..Builds
    /\ store \in [1..Versions -> 0..Builds]
    /\ \A v \in 1..Versions : {records[v], index[v]} \subseteq Releases \cup {None}
    /\ cache \in [1..Builds -> 0..Builds] /\ fetched \in 0..Builds
    /\ \A p \in Process : cmd[p].at \in Phases /\ cmd[p].done \subseteq Registered

PackagesInit ==
    /\ declared \in SUBSET {<<"package", 0>>, Git} /\ lock = EmptyLock /\ guard = Nobody
    /\ store = [v \in 1..Versions |-> 0] /\ mirror = 1 /\ head = 1
    /\ records = [v \in 1..Versions |-> None] /\ index = records
    /\ cache = [d \in 1..Builds |-> 0] /\ fetched = 0
    /\ cmd = [p \in Process |-> Ready] /\ commands = 0 /\ events = 0

Goto(p, phase) == cmd' = [cmd EXCEPT ![p].at = phase]
\* A command ends, with a result or an error; dropping the file releases flock.
Finish(p) == cmd' = [cmd EXCEPT ![p] = Ready]
Drop(p) == guard' = IF guard = p THEN Nobody ELSE guard
End(p) == Finish(p) /\ Drop(p)
Begin(p) == cmd[p].at = "idle" /\ commands < Commands /\ commands' = commands + 1
Outside == events < Events /\ events' = events + 1

-----------------------------------------------------------------------------
(* Publishing. *)

\* What the options, the configuration, Cargo.toml or the prompts name, if it is valid.
Named == 1..Versions

\* The bytes are a build of the workspace or a file, or what a URL served when it
\* was downloaded.
Publish(p) ==
    /\ Begin(p)
    /\ \E v \in Named :
          \/ \E b \in 1..Builds : cmd' = [cmd EXCEPT ![p].at = "upload", ![p].kind = "publish",
                 ![p].build = b, ![p].entry = [version |-> v, digest |-> b, at |-> "store"]]
          \/ cmd' = [cmd EXCEPT ![p].at = "record", ![p].kind = "publish",
                 ![p].entry = [version |-> v, digest |-> mirror, at |-> "mirror"]]
    /\ UNCHANGED <<workspaceVars, outside, caches, events>>

\* A versioned object is created only if there is none.
Taken(v) == store[v] # 0
Upload(p) ==
    LET v == cmd[p].entry.version IN
    /\ cmd[p].at = "upload"
    /\ IF Taken(v) THEN Finish(p) /\ UNCHANGED store
       ELSE store' = [store EXCEPT ![v] = cmd[p].build] /\ Goto(p, "record")
    /\ UNCHANGED <<workspaceVars, records, index, mirror, head, caches, commands, events>>

\* The record key is name-version, and createRecord replaces no record.
CreateRecord(p) ==
    LET v == cmd[p].entry.version IN
    /\ cmd[p].at = "record" /\ End(p)
    /\ records' = IF records[v] = None THEN [records EXCEPT ![v] = cmd[p].entry] ELSE records
    /\ UNCHANGED <<declared, lock, store, index, mirror, head, caches, commands, events>>

\* The registry indexes a record; the URL, checksum and version of an indexed
\* publication stay, whatever record comes later.
Index(v) ==
    /\ records[v] # None /\ index[v] = None
    /\ index' = [index EXCEPT ![v] = records[v]]
    /\ UNCHANGED <<workspaceVars, store, records, mirror, head, caches, cmd, commands, events>>

DeleteRecord(v) ==
    /\ records[v] # None /\ Outside
    /\ records' = [records EXCEPT ![v] = None]
    /\ UNCHANGED <<workspaceVars, store, index, mirror, head, caches, cmd, commands>>

-----------------------------------------------------------------------------
(* The lock file. *)

Published == {v \in 1..Versions : index[v] # None}
\* What getPackage answers for a reference: an exact version or the newest.
Resolvable(r) == IF r[2] = 0 THEN Published # {} ELSE r[2] \in Published
Resolved(r) == index[IF r[2] = 0 THEN Max(Published) ELSE r[2]]

Declarations == declared \cap Lockable
OutOfDate(p, modules) == cmd[p].frozen /\ (~lock.exists \/ lock.modules # modules)
\* A command that takes the guard and finds it must not go on ends at once.
Unguarded == guard = Nobody
Enter(p, refused, phase, work) ==
    /\ Unguarded
    /\ IF refused THEN Finish(p) /\ UNCHANGED guard
       ELSE guard' = p /\ cmd' = [cmd EXCEPT ![p].at = phase, ![p].work = work]
Written(work, modules) == [work EXCEPT !.exists = TRUE, !.modules = modules]

\* install and update read the declarations before they take the guard.
Install(p, kind, frozen) ==
    /\ Begin(p)
    /\ cmd' = [cmd EXCEPT ![p].at = IF Git \in declared THEN "git" ELSE "wait",
                          ![p].kind = kind, ![p].frozen = frozen, ![p].seen = Declarations]
    /\ UNCHANGED <<workspaceVars, outside, caches, events>>

\* git_source: guard, lock, declarations and the checks of a frozen command.
LockGit(p) ==
    /\ cmd[p].at = "git"
    /\ Enter(p, OutOfDate(p, Declarations) \/ (cmd[p].frozen /\ lock.commit = 0),
             "gitlocked", Written(lock, Declarations))
    /\ UNCHANGED <<declared, lock, outside, caches, commands, events>>

\* The locked commit, or HEAD when there is none or it is updated.
Commit(p) == IF lock.commit = 0 \/ cmd[p].kind = "update" THEN head ELSE lock.commit
Checkout(p) ==
    /\ cmd[p].at = "gitlocked" /\ guard' = Nobody
    /\ lock' = IF cmd[p].frozen THEN lock ELSE [cmd[p].work EXCEPT !.commit = Commit(p)]
    /\ cmd' = [cmd EXCEPT ![p].at = IF cmd[p].kind = "run" THEN "ran" ELSE "wait",
                          ![p].work = EmptyLock, ![p].ran = Commit(p)]
    /\ UNCHANGED <<declared, outside, caches, commands, events>>

\* The references that were declared, and all that are locked in an update.
Wanted(p) == (cmd[p].seen \cap Registered)
             \cup {r \in Registered : cmd[p].kind = "update" /\ lock.entry[r] # None}
LockPackages(p) ==
    /\ cmd[p].at = "wait"
    /\ Enter(p, OutOfDate(p, cmd[p].seen), "locked", lock)
    /\ UNCHANGED <<declared, lock, outside, caches, commands, events>>

Served(entry) == IF entry.at = "store" THEN store[entry.version] ELSE mirror
Bytes(entry) == IF cache[entry.digest] = entry.digest THEN entry.digest ELSE Served(entry)
\* Mutant: whatever is downloaded is taken.
VerifiedByNobody(entry) == Bytes(entry) # 0
\* wasm_artifact: the cached artifact if it has the digest of its name, or a
\* download, which must have it too.
Verified(entry) == Bytes(entry) = entry.digest
KeepArtifact(entry) == cache' = [cache EXCEPT ![entry.digest] = Bytes(entry)]

\* The references of an installation: the pinned entry, or what the registry
\* answers now.  An error ends the command and nothing is written.
Pinned(p, r) == cmd[p].kind # "update" /\ cmd[p].work.entry[r] # None
InstallOne(p, r) ==
    LET entry == IF Pinned(p, r) THEN cmd[p].work.entry[r] ELSE Resolved(r) IN
    /\ cmd[p].at = "locked" /\ r \in Wanted(p) \ cmd[p].done
    /\ IF (Pinned(p, r) \/ (~cmd[p].frozen /\ Resolvable(r))) /\ Verified(entry)
       THEN /\ KeepArtifact(entry) /\ UNCHANGED guard
            /\ cmd' = [cmd EXCEPT ![p].done = @ \cup {r}, ![p].work.entry[r] = entry]
       ELSE End(p) /\ UNCHANGED cache
    /\ UNCHANGED <<declared, lock, outside, fetched, commands, events>>

\* The lock file gets the declarations that were read before the guard was taken.
WriteLock(p) ==
    /\ cmd[p].at = "locked" /\ Wanted(p) \subseteq cmd[p].done /\ End(p)
    /\ lock' = IF cmd[p].frozen THEN lock ELSE Written(cmd[p].work, cmd[p].seen)
    /\ UNCHANGED <<declared, outside, caches, commands, events>>

-----------------------------------------------------------------------------
(* Running a module. *)

\* A declared module, a package that is named directly, or a source.
Run(p, r, frozen) ==
    /\ Begin(p) /\ (r \in declared \cup Registered \cup {Url, Local})
    /\ cmd' = [cmd EXCEPT ![p].kind = "run", ![p].frozen = frozen, ![p].reference = r,
           ![p].at = CASE r = Git -> "git" [] r = Url -> "fetch" [] r = Local -> "build"
                       [] OTHER -> "resolve"]
    /\ UNCHANGED <<workspaceVars, outside, caches, events>>

\* resolve: the guard, the lock, the declarations, and the entry if there is one.
Resolve(p) ==
    LET r == cmd[p].reference IN
    /\ cmd[p].at = "resolve"
    /\ Enter(p, \/ OutOfDate(p, Declarations)
                \/ lock.entry[r] = None /\ (cmd[p].frozen \/ ~Resolvable(r)),
             "resolved", Written(lock, Declarations))
    /\ UNCHANGED <<declared, lock, outside, caches, commands, events>>

Entry(p) == LET r == cmd[p].reference IN
            IF cmd[p].work.entry[r] = None THEN Resolved(r) ELSE cmd[p].work.entry[r]

\* The entry is written and the guard is dropped before the artifact is fetched.
Lock(p) ==
    /\ cmd[p].at = "resolved" /\ guard' = Nobody
    /\ lock' = IF cmd[p].frozen THEN lock
               ELSE [cmd[p].work EXCEPT !.entry[cmd[p].reference] = Entry(p)]
    /\ cmd' = [cmd EXCEPT ![p].at = "prepare", ![p].work = EmptyLock, ![p].entry = Entry(p)]
    /\ UNCHANGED <<declared, outside, caches, commands, events>>

PreparePackage(p) ==
    /\ cmd[p].at = "prepare"
    /\ IF Verified(cmd[p].entry)
       THEN /\ KeepArtifact(cmd[p].entry)
            /\ cmd' = [cmd EXCEPT ![p].at = "ran", ![p].ran = Bytes(cmd[p].entry)]
       ELSE Finish(p) /\ UNCHANGED cache
    /\ UNCHANGED <<workspaceVars, outside, fetched, commands, events>>

\* A URL is downloaded once.
Download(p) ==
    /\ cmd[p].at = "fetch"
    /\ fetched' = IF fetched = 0 THEN mirror ELSE fetched
    /\ cmd' = [cmd EXCEPT ![p].at = "ran", ![p].ran = fetched']
    /\ UNCHANGED <<workspaceVars, outside, cache, commands, events>>

\* A local source is built by its SDK or by Cargo, which may fail.
Build(p) ==
    /\ cmd[p].at = "build" /\ (Goto(p, "ran") \/ Finish(p))
    /\ UNCHANGED <<workspaceVars, outside, caches, commands, events>>

Ran(p) ==
    /\ cmd[p].at = "ran" /\ End(p)
    /\ UNCHANGED <<declared, lock, outside, caches, commands, events>>

-----------------------------------------------------------------------------
(* fluentci.toml. *)

\* modules add reads the file, makes the module, compares and replaces.
Add(p) ==
    /\ Begin(p) /\ Local \notin declared
    /\ cmd' = [cmd EXCEPT ![p].at = "check", ![p].kind = "add", ![p].seen = declared]
    /\ UNCHANGED <<workspaceVars, outside, caches, events>>

CheckConfig(p) ==
    /\ cmd[p].at = "check"
    /\ IF declared = cmd[p].seen THEN Goto(p, "persist") ELSE Finish(p)
    /\ UNCHANGED <<workspaceVars, outside, caches, commands, events>>

PersistConfig(p) ==
    /\ cmd[p].at = "persist" /\ End(p) /\ declared' = cmd[p].seen \cup {Local}
    /\ UNCHANGED <<lock, outside, caches, commands, events>>

Edit ==
    /\ Outside
    /\ \E r \in {<<"package", 0>>, <<"package", 1>>, Git} :
          declared' = IF r \in declared THEN declared \ {r} ELSE declared \cup {r}
    /\ UNCHANGED <<lock, guard, outside, caches, cmd, commands>>

-----------------------------------------------------------------------------
(* The world. *)

Serve == /\ Outside /\ \E b \in 1..Builds \ {mirror} : mirror' = b
         /\ UNCHANGED <<workspaceVars, store, records, index, head, caches, cmd, commands>>
Push == /\ Outside /\ head' = head + 1
        /\ UNCHANGED <<workspaceVars, store, records, index, mirror, caches, cmd, commands>>
Damage == /\ Outside
          /\ \E d \in 1..Builds, b \in 0..Builds : b # cache[d] /\ cache' = [cache EXCEPT ![d] = b]
          /\ UNCHANGED <<workspaceVars, outside, fetched, cmd, commands>>
\* A killed process leaves what it wrote; its lock goes with it.
Kill(p) == /\ cmd[p].at # "idle" /\ Outside /\ End(p)
           /\ UNCHANGED <<declared, lock, outside, caches, commands>>

Command(p) ==
    \/ Publish(p) \/ Upload(p) \/ CreateRecord(p)
    \/ \E frozen \in BOOLEAN : Install(p, "install", frozen)
    \/ Install(p, "update", FALSE)
    \/ LockGit(p) \/ Checkout(p) \/ LockPackages(p) \/ WriteLock(p)
    \/ \E r \in Registered : InstallOne(p, r)
    \/ \E r \in References, frozen \in BOOLEAN : Run(p, r, frozen)
    \/ Resolve(p) \/ Lock(p) \/ PreparePackage(p) \/ Download(p) \/ Build(p) \/ Ran(p)
    \/ Add(p) \/ CheckConfig(p) \/ PersistConfig(p)

PackagesNext ==
    \/ \E p \in Process : Command(p) \/ Kill(p)
    \/ \E v \in 1..Versions : Index(v) \/ DeleteRecord(v)
    \/ Edit \/ Serve \/ Push \/ Damage

-----------------------------------------------------------------------------
(* Properties. *)

\* A locked dependency stays what it is (docs/site/reference/lockfile.md:25)
\* until an update replaces it, and an exact version stays for ever, whatever
\* two commands that share the file do, and although releases are published,
\* deleted and published again: no command writes what it read before another
\* one wrote, and the registry answers one artifact for a version.
UpdateWrites == \E p \in Process :
    cmd[p].kind = "update" /\ cmd[p].at \in {"locked", "gitlocked"} /\ guard = p /\ guard' # p
KeepsPins ==
    /\ \A r \in Registered : lock.entry[r] = None \/ lock'.entry[r] = lock.entry[r]
                              \/ (r[2] = 0 /\ lock'.entry[r] # None /\ UpdateWrites)
    /\ lock.commit = 0 \/ lock'.commit = lock.commit \/ (lock'.commit # 0 /\ UpdateWrites)

\* What a registry module runs is what was published first under its version,
\* although its URL may serve something else by now, the cache may be damaged,
\* another command may update the lock after it was read, and the record may be
\* gone or replaced.
RunsThePublished == \A p \in Process :
    (cmd[p].at = "ran" /\ cmd[p].reference \in Registered) =>
        /\ index[cmd[p].entry.version] = cmd[p].entry
        /\ cmd[p].ran = cmd[p].entry.digest
        /\ cmd[p].reference[2] \in {0, cmd[p].entry.version}

\* An indexed release whose artifact the registry stores has the checksum of
\* that artifact: two publishers of one version, a retry after a failure between
\* the upload and the record, and a record that was deleted never leave a
\* record of one with the artifact of another.
ReleasesAreTrue == \A v \in 1..Versions :
    index[v].at = "store" => store[v] = index[v].digest

\* Concurrent commands do not overwrite one another's additions
\* (docs/site/reference/lockfile.md:70-72): a module that is recorded in the
\* lock file and still declared stays recorded.
AdditionsKept == [][lock.modules \cap declared \subseteq lock'.modules]_packageVars

PackagesSpec == PackagesInit /\ [][PackagesNext]_packageVars
=============================================================================
