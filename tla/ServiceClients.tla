---------------------------- MODULE ServiceClients ----------------------------
(***************************************************************************)
(* The manager of workspace services as its clients meet it                *)
(* (src/src/services.rs and run of supervisor.rs): clients that look for a *)
(* manager, start one, wait until it answers and send it their request;    *)
(* managers that compete for a lock and bind one socket path, serve one    *)
(* request after the other, and end when nobody needs them, when they are  *)
(* told to or when they are killed.  What a request does to the services   *)
(* is in Supervisor.                                                       *)
(***************************************************************************)
EXTENDS Naturals, FiniteSets

CONSTANTS Client, Roles, Manager, Free, Tries

ASSUME ClientAssumption ==
  /\ Roles \subseteq {"up", "scoped", "down", "status"}
  /\ Free \notin Manager /\ Tries \in Nat

VARIABLES
  managerIs,    \* of each process: none, starting, locked, serving, closing,
                \* unlinked, ended or refused
  managerLock,  \* who holds manager.lock
  socket,       \* whose listener manager.sock names
  ending,       \* the flag of each manager, and why it was set
  tokens,       \* the lease tokens it has recorded
  wanted,       \* it was asked to start services by hand
  role,         \* what each client is called for
  stage,        \* what each client is about
  conn,         \* the manager its request is sent to
  answer,       \* none, ok or error
  child,        \* the manager it has spawned
  tries,        \* the polls it has left
  home          \* the manager that granted its lease

clientVars == <<stage, conn, answer, child, tries, home>>
managerVars == <<managerIs, managerLock, socket, ending, tokens, wanted>>
allVars == <<role, managerVars, clientVars>>

Listening(m) == managerIs[m] \in {"serving", "closing", "unlinked"}
Gone(m) == managerIs[m] \in {"ended", "refused"}

-----------------------------------------------------------------------------
(* Clients. *)

Asking == {"ensure", "poll", "ask", "release", "check"}

\* request: connect, send one line and wait for one.
Connect(c) ==
  /\ stage[c] \in Asking /\ conn[c] = Free /\ answer[c] = "none"
  /\ IF socket # Free /\ Listening(socket)
       THEN conn' = [conn EXCEPT ![c] = socket] /\ UNCHANGED answer
       ELSE answer' = [answer EXCEPT ![c] = "error"] /\ UNCHANGED conn
  /\ UNCHANGED <<stage, child, tries, home>> /\ UNCHANGED managerVars

\* What a client does first: down and status ask whoever is there.
FirstStage(c) == IF role[c] \in {"up", "scoped"} THEN "ensure" ELSE "ask"

Onward(c, s) ==
  /\ stage' = [stage EXCEPT ![c] = s]
  /\ answer' = [answer EXCEPT ![c] = "none"]

\* ensure: a manager that answers is used, one that does not is started.
Ensure(c) ==
  /\ stage[c] = "ensure" /\ answer[c] # "none"
  /\ Onward(c, IF answer[c] = "ok" THEN "ask" ELSE "spawn")
  /\ UNCHANGED <<conn, child, tries, home>> /\ UNCHANGED managerVars

SpawnManager(c) ==
  /\ stage[c] = "spawn"
  /\ \E m \in Manager :
       /\ managerIs[m] = "none"
       /\ managerIs' = [managerIs EXCEPT ![m] = "starting"]
       /\ child' = [child EXCEPT ![c] = m]
  /\ tries' = [tries EXCEPT ![c] = Tries]
  /\ Onward(c, "poll")
  /\ UNCHANGED <<conn, home, managerLock, socket, ending, tokens, wanted>>

\* It polls until some manager answers, its own has exited or time is up.
PollManager(c) ==
  /\ stage[c] = "poll" /\ answer[c] # "none"
  /\ IF answer[c] = "ok" THEN Onward(c, "ask") /\ UNCHANGED tries
     ELSE IF Gone(child[c]) \/ tries[c] = 0 THEN Onward(c, "failed") /\ UNCHANGED tries
     ELSE Onward(c, "poll") /\ tries' = [tries EXCEPT ![c] = @ - 1]
  /\ UNCHANGED <<conn, child, home>> /\ UNCHANGED managerVars

\* The answer to the request itself; a down that is not answered is fine when
\* nobody answers at all, and status has the definitions to fall back on.
Answered(c) ==
  /\ stage[c] = "ask" /\ answer[c] # "none"
  /\ Onward(c, IF answer[c] = "ok" THEN IF role[c] = "scoped" THEN "command" ELSE "done"
               ELSE CASE role[c] = "down" -> "check"
                      [] role[c] = "status" -> "done"
                      [] OTHER -> "failed")
  /\ UNCHANGED <<conn, child, tries, home>> /\ UNCHANGED managerVars

Checked(c) ==
  /\ stage[c] = "check" /\ answer[c] # "none"
  /\ Onward(c, IF answer[c] = "ok" THEN "failed" ELSE "done")
  /\ UNCHANGED <<conn, child, tries, home>> /\ UNCHANGED managerVars

\* A scoped command ends, or is ended by Ctrl-C; its lease is released anyway.
CommandEnds(c) ==
  /\ stage[c] = "command"
  /\ Onward(c, "release")
  /\ UNCHANGED <<conn, child, tries, home>> /\ UNCHANGED managerVars

LeaseReturned(c) ==
  /\ stage[c] = "release" /\ answer[c] # "none"
  /\ Onward(c, IF answer[c] = "ok" THEN "done" ELSE "failed")
  /\ UNCHANGED <<conn, child, tries, home>> /\ UNCHANGED managerVars

-----------------------------------------------------------------------------
(* Managers. *)

Frame == UNCHANGED <<ending, tokens, wanted>> /\ UNCHANGED clientVars

\* Mutant: a lock that is taken does not stop a manager.
LockableAnyway(m) == TRUE
Lockable(m) == managerLock = Free

TakeLock(m) ==
  /\ managerIs[m] = "starting"
  /\ IF Lockable(m)
       THEN managerLock' = m /\ managerIs' = [managerIs EXCEPT ![m] = "locked"]
       ELSE managerIs' = [managerIs EXCEPT ![m] = "refused"] /\ UNCHANGED managerLock
  /\ UNCHANGED socket /\ Frame

\* The socket of an earlier manager is removed, and a new one bound; then the
\* definitions are read, which may fail.
Bind(m) ==
  /\ managerIs[m] = "locked"
  /\ socket' = m
  /\ managerIs' = [managerIs EXCEPT ![m] = "serving"]
  /\ UNCHANGED managerLock /\ Frame

\* The flag is looked at before every request; a signal that comes while the
\* manager waits lets one more of them pass.
Accepts(m) == managerIs[m] = "serving" /\ ending[m] \in {"no", "signal"}

Flag(m, reason) == ending' = [ending EXCEPT ![m] = reason]
Served(m) == Flag(m, IF ending[m] = "signal" THEN "seen" ELSE ending[m])

Unneeded(m) == ~wanted'[m] /\ tokens'[m] = {}

\* What a request leaves behind, if it succeeds.
Grant(c, m) ==
  /\ tokens' = [tokens EXCEPT ![m] = @ \cup {c}]
  /\ home' = [home EXCEPT ![c] = m]
  /\ Served(m) /\ UNCHANGED wanted

WantedBy(m) ==
  wanted' = [wanted EXCEPT ![m] = TRUE] /\ Served(m) /\ UNCHANGED <<tokens, home>>

Returned(c, m) ==
  /\ tokens' = [tokens EXCEPT ![m] = @ \ {c}]
  /\ IF Unneeded(m) THEN Flag(m, "unused") ELSE Served(m)
  /\ UNCHANGED home

DownAll(m) ==
  /\ wanted' = [wanted EXCEPT ![m] = FALSE]
  /\ Flag(m, "told")
  /\ UNCHANGED <<tokens, home>>

Done(c, m) ==
  IF stage[c] = "release" THEN UNCHANGED wanted /\ Returned(c, m)
  ELSE CASE stage[c] = "ask" /\ role[c] = "scoped" -> Grant(c, m)
         [] stage[c] = "ask" /\ role[c] = "up" -> WantedBy(m)
         [] stage[c] = "ask" /\ role[c] = "down" -> DownAll(m)
         [] OTHER -> Served(m) /\ UNCHANGED <<tokens, wanted, home>>

Serve(m, c) ==
  /\ Accepts(m) /\ conn[c] = m
  /\ conn' = [conn EXCEPT ![c] = Free]
  /\ \/ answer' = [answer EXCEPT ![c] = "ok"] /\ Done(c, m)
     \/ /\ stage[c] = "ask" /\ role[c] # "status"
        /\ answer' = [answer EXCEPT ![c] = "error"]       \* a service does not start or stop
        /\ Served(m) /\ UNCHANGED <<tokens, wanted, home>>
  /\ UNCHANGED <<managerIs, managerLock, socket, stage, child, tries>>

\* SIGTERM, or Ctrl-C where the manager runs.
Signal(m) ==
  /\ managerIs[m] = "serving" /\ ending[m] = "no"
  /\ Flag(m, "signal")
  /\ UNCHANGED <<managerIs, managerLock, socket, tokens, wanted>> /\ UNCHANGED clientVars

\* The end of the loop: services are stopped, the path is removed, and with the
\* process go its listener, the requests that wait for it and its lock.
Close(m) ==
  /\ managerIs[m] = "serving" /\ ending[m] # "no"
  /\ managerIs' = [managerIs EXCEPT ![m] = "closing"]
  /\ UNCHANGED <<managerLock, socket>> /\ Frame

Unlink(m) ==
  /\ managerIs[m] = "closing"
  /\ socket' = Free
  /\ managerIs' = [managerIs EXCEPT ![m] = "unlinked"]
  /\ UNCHANGED managerLock /\ Frame

Hung(m) == {c \in Client : conn[c] = m}

Vanish(m) ==
  /\ managerIs' = [managerIs EXCEPT ![m] = "ended"]
  /\ managerLock' = IF managerLock = m THEN Free ELSE managerLock
  /\ conn' = [c \in Client |-> IF c \in Hung(m) THEN Free ELSE conn[c]]
  /\ answer' = [c \in Client |-> IF c \in Hung(m) THEN "error" ELSE answer[c]]
  /\ UNCHANGED <<socket, tokens, wanted, stage, child, tries, home>>

ManagerEnds(m) == managerIs[m] = "unlinked" /\ Vanish(m) /\ UNCHANGED ending

\* It is killed, or its definitions cannot be read: its socket stays behind.
Crash(m) ==
  /\ managerIs[m] \in {"locked", "serving", "closing"}
  /\ Vanish(m)
  /\ Flag(m, "crash")

-----------------------------------------------------------------------------
ClientsInit ==
  /\ managerIs = [m \in Manager |-> "none"]
  /\ managerLock = Free /\ socket = Free
  /\ ending = [m \in Manager |-> "no"]
  /\ tokens = [m \in Manager |-> {}]
  /\ wanted = [m \in Manager |-> FALSE]
  /\ role \in [Client -> Roles]
  /\ stage = [c \in Client |-> FirstStage(c)]
  /\ conn = [c \in Client |-> Free]
  /\ answer = [c \in Client |-> "none"]
  /\ child = [c \in Client |-> Free]
  /\ tries = [c \in Client |-> 0]
  /\ home = [c \in Client |-> Free]

ClientStep(c) ==
  \/ Connect(c) \/ Ensure(c) \/ SpawnManager(c) \/ PollManager(c) \/ Answered(c)
  \/ Checked(c) \/ CommandEnds(c) \/ LeaseReturned(c)

ManagerStep(m) ==
  \/ TakeLock(m) \/ Bind(m) \/ Close(m) \/ Unlink(m) \/ ManagerEnds(m)
  \/ \E c \in Client : Serve(m, c)

ClientsNext ==
  /\ \/ \E c \in Client : ClientStep(c)
     \/ \E m \in Manager : ManagerStep(m) \/ Signal(m) \/ Crash(m)
  /\ UNCHANGED role

-----------------------------------------------------------------------------
(* Properties. *)

\* A manager that serves is the one its clients reach: nobody binds the path or
\* removes it while it does, however managers start, end and are killed around
\* it (supervisor.rs:737-748, supervisor.rs:787).
SocketIsTheServers ==
  \A m \in Manager : managerIs[m] = "serving" => socket = m /\ managerLock = m

\* The manager that has granted a command its services stays while the command
\* runs, unless it was told to end, signalled or killed: the release of another
\* command does not end it (supervisor.rs:712-717, supervisor.rs:763).
ScopedIsServed ==
  \A c \in Client :
    stage[c] = "command" =>
      \/ managerIs[home[c]] = "serving" /\ c \in tokens[home[c]] /\ ending[home[c]] # "unused"
      \/ ending[home[c]] \in {"told", "signal", "seen", "crash"}

ManagersHold == SocketIsTheServers /\ ScopedIsServed
=============================================================================
