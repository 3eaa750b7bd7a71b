--------------------------- MODULE ServicesProofs ---------------------------
(***************************************************************************)
(* What holds of the parts of MCServices for every value of their          *)
(* constants, each on its own and in their composition.                    *)
(***************************************************************************)
EXTENDS MCServices, FiniteSetTheorems, SequenceTheorems, TLAPS

-----------------------------------------------------------------------------
(* ServiceProbe. *)

ProbeTypeOK ==
    /\ threshold \in Nat /\ threshold > 0
    /\ service \in {"up", "exited"}
    /\ standing \in {"starting", "ready", "stopping", "ended"}
    /\ probe \in {"none", "up", "good", "bad"}
    /\ failures \in Nat /\ streak \in Nat

\* What the supervisor counts is the streak, once the service is ready, and a
\* service that is watched has not been given up.
Counting ==
    /\ standing = "ready" => failures = streak
    /\ Watched => cause = "none"

ProbeInv == ProbeTypeOK /\ Counting /\ ProbesAreJudged

LEMMA ProbeStart == ProbeInit => ProbeInv
  BY ProbeAssumption
  DEF ProbeInit, ProbeInv, ProbeTypeOK, Counting, ProbesAreJudged, VerdictsAreEarned, NoStrayProbe,
      Watched, ValidThreshold

LEMMA ProbeStep == ProbeInv /\ [ProbeNext]_probeVars => ProbeInv'
<1> SUFFICES ASSUME ProbeInv, [ProbeNext]_probeVars PROVE ProbeInv'
  OBVIOUS
<1> USE DEF ProbeInv, ProbeTypeOK, Counting, ProbesAreJudged, VerdictsAreEarned, NoStrayProbe, Watched
<1>1. CASE UNCHANGED probeVars
  BY <1>1 DEF probeVars
<1>2. CASE Look
  <2>1. /\ standing \in {"starting", "ready"} /\ cause = "none"
        /\ UNCHANGED <<threshold, service>>
    BY <1>2 DEF Look
  <2>2. CASE Passes
    BY <2>1, <2>2 DEF Passes
  <2>3. CASE Fails
    <3>1. ProbeCount(failures) \in Nat /\ ProbeCount(streak) \in Nat
      BY DEF ProbeCount
    <3>2. /\ failures' = ProbeCount(failures) /\ UNCHANGED passed
          /\ streak' = IF standing = "ready" THEN ProbeCount(streak) ELSE 0
      BY <2>3 DEF Fails
    <3>3. CASE standing = "ready" /\ GivenUp
      <4>1. standing' = "stopping" /\ cause' = "health" /\ probe' = "none"
        BY <2>3, <3>3 DEF Fails, ProbeStop, ProbeStopped
      <4>2. passed /\ streak' >= threshold
        BY <3>2, <3>3 DEF GivenUp
      <4>3. QED
        BY <2>1, <3>1, <3>2, <4>1, <4>2
    <3>4. CASE ~(standing = "ready" /\ GivenUp)
      <4>1. probe' = "none" /\ UNCHANGED <<standing, cause>>
        BY <2>3, <3>4 DEF Fails
      <4>2. QED
        BY <2>1, <3>1, <3>2, <4>1
    <3>5. QED
      BY <3>3, <3>4
  <2>4. CASE Spawn
    BY <2>1, <2>4 DEF Spawn, ProbeStop, ProbeStopped
  <2>5. QED
    BY <1>2, <2>2, <2>3, <2>4 DEF Look
<1>3. CASE StopService
  BY <1>3 DEF StopService, ProbeStop, ProbeStopped
<1>4. CASE ProbeReaped
  BY <1>4 DEF ProbeReaped, ProbeStopped
<1>5. CASE ServiceExits \/ ProbeExits \/ TimePasses
  BY <1>5 DEF ServiceExits, ProbeExits, TimePasses
<1>6. QED
  BY <1>1, <1>2, <1>3, <1>4, <1>5 DEF ProbeNext

\* Readiness and ill health are what the probes said, for every threshold.
THEOREM ProbesStayJudges == PartsSpec => []ProbesJudge
<1> DEFINE Holds == part = "probe" => ProbeInv
<1>1. PartsInit => Holds
  BY ProbeStart DEF PartsInit
<1>2. Holds /\ [PartsNext]_partsVars => Holds'
  <2> SUFFICES ASSUME Holds, [PartsNext]_partsVars, part' = "probe" PROVE ProbeInv'
    OBVIOUS
  <2>1. part = "probe" /\ [ProbeNext]_probeVars
    BY DEF PartsNext, partsVars
  <2>2. QED
    BY <2>1, ProbeStep
<1>3. Holds => ProbesJudge
  BY DEF ProbesJudge, ProbeInv
<1>4. QED
  BY <1>1, <1>2, <1>3, PTL DEF PartsSpec

-----------------------------------------------------------------------------
(* ServiceClients. *)

States == {"none", "starting", "locked", "serving", "closing", "unlinked", "ended", "refused"}
Ending == {"told", "signal", "seen", "crash"}
Reasons == Ending \cup {"no", "unused"}

ClientsTypeOK ==
    /\ managerIs \in [Manager -> States]
    /\ managerLock \in Manager \cup {Free}
    /\ socket \in Manager \cup {Free}
    /\ ending \in [Manager -> Reasons]
    /\ tokens \in [Manager -> SUBSET Client]
    /\ role \in [Client -> Roles]
    /\ stage \in [Client -> {"ensure", "spawn", "poll", "ask", "check", "command", "release", "done", "failed"}]
    /\ conn \in [Client -> Manager \cup {Free}]
    /\ answer \in [Client -> {"none", "ok", "error"}]
    /\ child \in [Client -> Manager \cup {Free}]
    /\ home \in [Client -> Manager \cup {Free}]

\* The lock is held from the moment it is taken to the end of the process, and
\* the path names the listener until it is removed.
Locks ==
    \A m \in Manager :
       /\ managerIs[m] \in {"locked", "serving", "closing", "unlinked"} => managerLock = m
       /\ managerIs[m] \in {"serving", "closing"} => socket = m

\* A manager begins to end for a reason.
Reasoned == \A m \in Manager : managerIs[m] \in {"closing", "unlinked"} => ending[m] # "no"

\* A client that waits has no answer.
Waits == \A c \in Client : conn[c] # Free => answer[c] = "none" /\ stage[c] \in Asking

\* The manager that has granted a lease, from its answer to the end of the command.
Granted(c) ==
    /\ home[c] \in Manager /\ c \in tokens[home[c]] /\ ending[home[c]] # "unused"
    /\ managerIs[home[c]] = "serving" \/ ending[home[c]] \in Ending
Leased ==
    \A c \in Client :
       (stage[c] = "command" \/ (stage[c] = "ask" /\ role[c] = "scoped" /\ answer[c] = "ok"))
          => Granted(c)

ClientsInv == ClientsTypeOK /\ Locks /\ Reasoned /\ Waits /\ Leased

LEMMA ClientsStart == ClientsInit => ClientsInv
  BY DEF ClientsInit, ClientsInv, ClientsTypeOK, States, Reasons, Locks, Reasoned, Waits, Leased, FirstStage

LEMMA ClientsSafe == ClientsInv => ManagersHold
  BY DEF ClientsInv, Locks, Leased, Granted, ManagersHold, SocketIsTheServers, ScopedIsServed, Ending

\* What only a client changes.
LEMMA ClientKeeps ==
    ASSUME ClientsInv, NEW c \in Client, ClientStep(c), UNCHANGED role
    PROVE  ClientsInv'
<1> USE DEF ClientsInv, clientVars, managerVars
<1>1. CASE Connect(c)
  <2>1. /\ stage[c] \in Asking /\ conn[c] = Free /\ answer[c] = "none"
        /\ UNCHANGED <<stage, child, tries, home>> /\ UNCHANGED managerVars
        /\ \/ conn' = [conn EXCEPT ![c] = socket] /\ UNCHANGED answer
           \/ answer' = [answer EXCEPT ![c] = "error"] /\ UNCHANGED conn
    BY <1>1 DEF Connect
  <2>2. ClientsTypeOK'
    BY <2>1 DEF ClientsTypeOK
  <2>3. Locks' /\ Reasoned'
    BY <2>1 DEF Locks, Reasoned
  <2>4. Waits'
    BY <2>1 DEF Waits, ClientsTypeOK
  <2>5. Leased'
    BY <2>1 DEF Leased, Granted, ClientsTypeOK
  <2>6. QED
    BY <2>2, <2>3, <2>4, <2>5
<1>2. ASSUME NEW s \in {"ensure", "spawn", "poll", "ask", "check", "command", "release", "done", "failed"},
             Onward(c, s), answer[c] # "none" \/ stage[c] \notin Asking,
             s = "command" => stage[c] = "ask" /\ role[c] = "scoped" /\ answer[c] = "ok",
             managerIs' = managerIs \/ \E m \in Manager : /\ managerIs[m] = "none"
                                                          /\ managerIs' = [managerIs EXCEPT ![m] = "starting"],
             child' \in [Client -> Manager \cup {Free}],
             UNCHANGED <<conn, home, managerLock, socket, ending, tokens, wanted>>
      PROVE  ClientsInv'
  <2>1. /\ stage' = [stage EXCEPT ![c] = s] /\ answer' = [answer EXCEPT ![c] = "none"]
        /\ UNCHANGED <<conn, home, managerLock, socket, ending, tokens, wanted>>
    BY <1>2 DEF Onward
  <2>2. /\ managerIs' \in [Manager -> States]
        /\ \A m \in Manager : managerIs'[m] = managerIs[m] \/ (managerIs[m] = "none" /\ managerIs'[m] = "starting")
    BY <1>2 DEF ClientsTypeOK, States
  <2>3. ClientsTypeOK'
    BY <1>2, <2>1, <2>2 DEF ClientsTypeOK
  <2>4. Locks' /\ Reasoned'
    BY <2>1, <2>2 DEF Locks, Reasoned
  <2>5. conn[c] = Free
    BY <1>2 DEF Waits
  <2>6. Waits'
    BY <2>1, <2>5 DEF Waits, ClientsTypeOK
  <2>7. \A d \in Client : Granted(d) => Granted(d)'
    BY <2>1, <2>2 DEF Granted
  <2>8. ASSUME NEW d \in Client,
               stage'[d] = "command" \/ (stage'[d] = "ask" /\ role'[d] = "scoped" /\ answer'[d] = "ok")
        PROVE  Granted(d)
    BY <1>2, <2>1, <2>8 DEF Leased, ClientsTypeOK
  <2>9. QED
    BY <2>3, <2>4, <2>6, <2>7, <2>8 DEF Leased
<1> DEFINE Stages == {"ensure", "spawn", "poll", "ask", "check", "command", "release", "done", "failed"}
<1>3. CASE Ensure(c) \/ PollManager(c) \/ Answered(c) \/ Checked(c) \/ CommandEnds(c) \/ LeaseReturned(c)
  <2>1. PICK s \in Stages : /\ Onward(c, s) /\ (answer[c] # "none" \/ stage[c] \notin Asking)
                            /\ s = "command" => stage[c] = "ask" /\ role[c] = "scoped" /\ answer[c] = "ok"
    BY <1>3 DEF Ensure, PollManager, Answered, Checked, CommandEnds, LeaseReturned, Asking
  <2>2. UNCHANGED <<conn, child, home>> /\ UNCHANGED managerVars
    BY <1>3 DEF Ensure, PollManager, Answered, Checked, CommandEnds, LeaseReturned
  <2>3. QED
    BY <1>2, <2>1, <2>2 DEF ClientsTypeOK
<1>4. CASE SpawnManager(c)
  <2>1. PICK m \in Manager : /\ managerIs[m] = "none" /\ managerIs' = [managerIs EXCEPT ![m] = "starting"]
                             /\ child' = [child EXCEPT ![c] = m]
    BY <1>4 DEF SpawnManager
  <2>2. child' \in [Client -> Manager \cup {Free}]
    BY <2>1 DEF ClientsTypeOK
  <2>3. /\ stage[c] \notin Asking /\ Onward(c, "poll")
        /\ UNCHANGED <<conn, home, managerLock, socket, ending, tokens, wanted>>
    BY <1>4 DEF SpawnManager, Asking
  <2>4. QED
    BY <1>2, <2>1, <2>2, <2>3
<1>5. QED
  BY <1>1, <1>3, <1>4 DEF ClientStep

\* What only managers change: how far one has come, its lock and its path.
LEMMA ManagerKeeps ==
    ASSUME ClientsInv, NEW m \in Manager, UNCHANGED role, NEW s \in States,
           UNCHANGED <<ending, tokens, wanted>>, UNCHANGED clientVars,
           managerIs' = [managerIs EXCEPT ![m] = s],
           managerLock' \in Manager \cup {Free}, socket' \in Manager \cup {Free},
           managerIs[m] = "serving" => ending[m] \in Ending \cup {"unused"},
           s \in {"closing", "unlinked"} => ending[m] # "no",
           Locks'
    PROVE  ClientsInv'
<1> USE DEF ClientsInv, clientVars
<1>1. ClientsTypeOK'
  BY DEF ClientsTypeOK
<1>2. Reasoned' /\ Waits'
  BY DEF ClientsTypeOK, Reasoned, Waits
<1>3. ASSUME NEW c \in Client, Granted(c) PROVE Granted(c)'
  <2>1. managerIs'[home[c]] = IF home[c] = m THEN s ELSE managerIs[home[c]]
    BY <1>3 DEF Granted, ClientsTypeOK
  <2>2. QED
    BY <1>3, <2>1 DEF Granted, Ending
<1>4. Leased'
  BY <1>3 DEF Leased
<1>5. QED
  BY <1>1, <1>2, <1>4

\* A process ends, and with it its lock and the requests that wait for it.
LEMMA ManagerVanishes ==
    ASSUME ClientsInv, NEW m \in Manager, Vanish(m), UNCHANGED role,
           ending' = ending \/ (ending' = [ending EXCEPT ![m] = "crash"]),
           managerIs[m] = "serving" => ending'[m] = "crash"
    PROVE  ClientsInv'
<1> USE DEF ClientsInv, Vanish
<1>1. ClientsTypeOK'
  BY DEF ClientsTypeOK, States, Reasons, Ending
<1>2. Locks'
  BY DEF ClientsTypeOK, Locks
<1>3. Reasoned'
  BY DEF ClientsTypeOK, Reasoned
<1>4. Waits'
  BY DEF ClientsTypeOK, Waits, Hung
<1>5. ASSUME NEW c \in Client, Granted(c) PROVE Granted(c)'
  <2>1. /\ managerIs'[home[c]] = IF home[c] = m THEN "ended" ELSE managerIs[home[c]]
        /\ ending'[home[c]] = ending[home[c]] \/ (home[c] = m /\ ending'[home[c]] = "crash")
        /\ UNCHANGED <<home, tokens>>
    BY <1>5 DEF Granted, ClientsTypeOK
  <2>2. QED
    BY <1>5, <2>1 DEF Granted, Ending
<1>6. Leased'
  BY <1>5 DEF Leased, ClientsTypeOK
<1>7. QED
  BY <1>1, <1>2, <1>3, <1>4, <1>6

\* A request is served: its answer, and the tokens and the flag it leaves behind.
HasServed(m, c) ==
    /\ managerIs[m] = "serving" /\ conn[c] = m /\ conn' = [conn EXCEPT ![c] = Free]
    /\ ending' \in [Manager -> Reasons] /\ tokens' \in [Manager -> SUBSET Client]
    /\ home' \in [Client -> Manager \cup {Free}] /\ answer' \in [Client -> {"none", "ok", "error"}]
    /\ \A n \in Manager : n # m => ending'[n] = ending[n] /\ tokens'[n] = tokens[n]
    /\ \A d \in Client : d # c => home'[d] = home[d] /\ answer'[d] = answer[d]
    /\ tokens[m] \ {c} \subseteq tokens'[m] /\ (ending'[m] = "unused" => tokens'[m] = {})
    /\ stage[c] = "ask" /\ role[c] = "scoped" /\ answer'[c] = "ok"
          => home'[c] = m /\ c \in tokens'[m] /\ ending'[m] # "unused"
    /\ UNCHANGED <<managerIs, managerLock, socket, stage, child, tries, role>>

LEMMA Serving ==
    ASSUME ClientsInv, NEW m \in Manager, NEW c \in Client, HasServed(m, c)
    PROVE  ClientsInv'
<1> USE DEF ClientsInv, HasServed
<1>0. stage[c] \in Asking
  BY ClientAssumption DEF Waits
<1>1. ClientsTypeOK'
  BY DEF ClientsTypeOK
<1>2. Locks' /\ Reasoned'
  BY DEF Locks, Reasoned, ClientsTypeOK
<1>3. Waits'
  BY DEF Waits, ClientsTypeOK
<1>4. ASSUME NEW d \in Client, d # c, Granted(d) PROVE Granted(d)'
  <2>1. home'[d] = home[d]
    BY <1>4
  <2>2. CASE home[d] = m
    <3>1. d \in tokens'[m] /\ ending'[m] # "unused"
      BY <1>4, <2>2 DEF Granted
    <3>2. QED
      BY <1>4, <2>1, <2>2, <3>1 DEF Granted
  <2>3. CASE home[d] # m
    BY <1>4, <2>1, <2>3 DEF Granted
  <2>4. QED
    BY <2>2, <2>3
<1>5. ASSUME stage[c] = "ask", role[c] = "scoped", answer'[c] = "ok" PROVE Granted(c)'
  BY <1>5 DEF Granted
<1>6. Leased'
  <2> SUFFICES ASSUME NEW d \in Client,
                      stage[d] = "command" \/ (stage[d] = "ask" /\ role[d] = "scoped" /\ answer'[d] = "ok")
               PROVE  Granted(d)'
    BY DEF Leased
  <2>1. CASE d = c
    BY <1>0, <1>5, <2>1 DEF Asking
  <2>2. CASE d # c
    BY <1>4, <2>2 DEF Leased
  <2>3. QED
    BY <2>1, <2>2
<1>7. QED
  BY <1>1, <1>2, <1>3, <1>6

LEMMA ServeKeeps ==
    ASSUME ClientsInv, NEW m \in Manager, NEW c \in Client, Serve(m, c), UNCHANGED role
    PROVE  ClientsInv'
<1>1. /\ managerIs[m] = "serving" /\ ending[m] \in {"no", "signal"} /\ conn[c] = m
      /\ conn' = [conn EXCEPT ![c] = Free]
      /\ UNCHANGED <<managerIs, managerLock, socket, stage, child, tries, role>>
  BY DEF Serve, Accepts
<1>2. /\ ending \in [Manager -> Reasons] /\ tokens \in [Manager -> SUBSET Client]
      /\ home \in [Client -> Manager \cup {Free}] /\ answer \in [Client -> {"none", "ok", "error"}]
  BY DEF ClientsInv, ClientsTypeOK
\* The flag is set for another reason only as the last token is returned.
<1>3. ASSUME NEW r \in Reasons, Flag(m, r)
      PROVE  /\ ending' \in [Manager -> Reasons] /\ ending'[m] = r
             /\ \A n \in Manager : n # m => ending'[n] = ending[n]
  BY <1>2, <1>3 DEF Flag
<1>4. ASSUME Served(m)
      PROVE  /\ ending' \in [Manager -> Reasons] /\ ending'[m] # "unused"
             /\ \A n \in Manager : n # m => ending'[n] = ending[n]
  BY <1>1, <1>2, <1>4 DEF Served, Flag, Reasons, Ending
<1>5. ASSUME answer' = [answer EXCEPT ![c] = "error"], Served(m), UNCHANGED <<tokens, wanted, home>>
      PROVE  HasServed(m, c)
  <2>1. /\ answer' \in [Client -> {"none", "ok", "error"}] /\ answer'[c] = "error"
        /\ \A d \in Client : d # c => answer'[d] = answer[d]
    BY <1>2, <1>5
  <2>2. QED
    BY <1>1, <1>2, <1>4, <1>5, <2>1 DEF HasServed
<1>6. ASSUME answer' = [answer EXCEPT ![c] = "ok"], Done(c, m)
      PROVE  HasServed(m, c)
  <2>a. /\ answer' \in [Client -> {"none", "ok", "error"}] /\ answer'[c] = "ok"
        /\ \A d \in Client : d # c => answer'[d] = answer[d]
    BY <1>2, <1>6
  <2>1. CASE stage[c] = "release"
    <3>1. /\ tokens' = [tokens EXCEPT ![m] = tokens[m] \ {c}] /\ home' = home
          /\ (IF Unneeded(m) THEN Flag(m, "unused") ELSE Served(m))
      BY <1>6, <2>1 DEF Done, Returned
    <3>2. /\ tokens' \in [Manager -> SUBSET Client] /\ tokens'[m] = tokens[m] \ {c}
          /\ \A n \in Manager : n # m => tokens'[n] = tokens[n]
      BY <1>2, <3>1
    <3>h. /\ home' \in [Client -> Manager \cup {Free}] /\ \A d \in Client : d # c => home'[d] = home[d]
          /\ tokens[m] \ {c} \subseteq tokens'[m]
      BY <1>2, <3>1, <3>2
    <3>3. CASE Unneeded(m)
      <4>1. tokens'[m] = {} /\ "unused" \in Reasons
        BY <3>3 DEF Unneeded, Reasons
      <4>2. /\ ending' \in [Manager -> Reasons]
            /\ \A n \in Manager : n # m => ending'[n] = ending[n]
        BY <1>3, <3>1, <3>3, <4>1
      <4>3. QED
        BY <1>1, <2>a, <2>1, <3>h, <3>2, <4>1, <4>2 DEF HasServed
    <3>4. CASE ~Unneeded(m)
      <4>1. /\ ending' \in [Manager -> Reasons] /\ ending'[m] # "unused"
            /\ \A n \in Manager : n # m => ending'[n] = ending[n]
        BY <1>4, <3>1, <3>4
      <4>2. QED
        BY <1>1, <2>a, <2>1, <3>h, <3>2, <4>1 DEF HasServed
    <3>5. QED
      BY <3>3, <3>4
  <2>2. CASE stage[c] = "ask" /\ role[c] = "scoped"
    <3>1. Grant(c, m)
      BY <1>6, <2>2 DEF Done
    <3>2. /\ tokens' \in [Manager -> SUBSET Client] /\ tokens'[m] = tokens[m] \cup {c}
          /\ \A n \in Manager : n # m => tokens'[n] = tokens[n]
          /\ home' \in [Client -> Manager \cup {Free}] /\ home'[c] = m
          /\ \A d \in Client : d # c => home'[d] = home[d]
          /\ Served(m)
      BY <1>2, <3>1 DEF Grant
    <3>3. QED
      <4>1. /\ ending' \in [Manager -> Reasons] /\ ending'[m] # "unused"
            /\ \A n \in Manager : n # m => ending'[n] = ending[n]
        BY <1>4, <3>2
      <4>2. tokens[m] \ {c} \subseteq tokens'[m] /\ c \in tokens'[m]
        BY <3>2
      <4>3. /\ tokens' \in [Manager -> SUBSET Client]
            /\ \A n \in Manager : n # m => ending'[n] = ending[n] /\ tokens'[n] = tokens[n]
        BY <3>2, <4>1
      <4>4. /\ home' \in [Client -> Manager \cup {Free}] /\ home'[c] = m
            /\ \A d \in Client : d # c => home'[d] = home[d] /\ answer'[d] = answer[d]
        BY <2>a, <3>2
      <4>5. QED
        BY <1>1, <2>a, <4>1, <4>2, <4>3, <4>4 DEF HasServed
  <2>3. CASE stage[c] # "release" /\ ~(stage[c] = "ask" /\ role[c] = "scoped")
    <3>1. UNCHANGED <<tokens, home>> /\ (Served(m) \/ Flag(m, "told"))
      <4>1. CASE stage[c] = "ask" /\ role[c] = "up"
        BY <1>6, <4>1 DEF Done, WantedBy
      <4>2. CASE stage[c] = "ask" /\ role[c] = "down"
        BY <1>6, <4>2 DEF Done, DownAll
      <4>3. CASE ~(stage[c] = "ask" /\ role[c] \in {"up", "down"})
        BY <1>6, <2>3, <4>3 DEF Done
      <4>4. QED
        BY <4>1, <4>2, <4>3
    <3>2. CASE Served(m)
      BY <1>1, <1>2, <1>4, <2>a, <2>3, <3>1, <3>2 DEF HasServed
    <3>3. CASE Flag(m, "told")
      <4>1. "told" \in Reasons
        BY DEF Reasons, Ending
      <4>2. QED
        BY <1>1, <1>2, <1>3, <2>a, <2>3, <3>1, <3>3, <4>1 DEF HasServed
    <3>4. QED
      BY <3>1, <3>2, <3>3
  <2>4. QED
    BY <2>1, <2>2, <2>3
<1>7. QED
  BY <1>5, <1>6, Serving DEF Serve

LEMMA ClientsStep == ClientsInv /\ [ClientsNext]_allVars => ClientsInv'
<1> SUFFICES ASSUME ClientsInv, [ClientsNext]_allVars PROVE ClientsInv'
  OBVIOUS
<1> USE DEF ClientsInv
<1>1. CASE UNCHANGED allVars
  BY <1>1 DEF allVars, clientVars, managerVars, ClientsTypeOK, Locks, Reasoned, Waits, Leased, Granted
<1>2. ASSUME NEW c \in Client, ClientStep(c), UNCHANGED role PROVE ClientsInv'
  BY <1>2, ClientKeeps
<1>3. ASSUME NEW m \in Manager, UNCHANGED role, TakeLock(m) PROVE ClientsInv'
  <2>1. UNCHANGED <<ending, tokens, wanted>> /\ UNCHANGED clientVars /\ socket' = socket /\ managerIs[m] = "starting"
    BY <1>3 DEF TakeLock, Frame
  <2>2. CASE Lockable(m)
    <3>1. managerLock = Free /\ managerLock' = m /\ managerIs' = [managerIs EXCEPT ![m] = "locked"]
      BY <1>3, <2>2 DEF TakeLock, Lockable
    <3>2. Locks'
      BY <2>1, <3>1, ClientAssumption DEF Locks, ClientsTypeOK
    <3>3. socket \in Manager \cup {Free}
      BY DEF ClientsTypeOK
    <3>4. QED
      BY <1>3, <2>1, <3>1, <3>2, <3>3, ManagerKeeps DEF States
  <2>3. CASE ~Lockable(m)
    <3>1. managerLock' = managerLock /\ managerIs' = [managerIs EXCEPT ![m] = "refused"]
      BY <1>3, <2>3 DEF TakeLock
    <3>2. Locks'
      BY <2>1, <3>1 DEF Locks, ClientsTypeOK
    <3>3. socket \in Manager \cup {Free} /\ managerLock \in Manager \cup {Free}
      BY DEF ClientsTypeOK
    <3>4. QED
      BY <1>3, <2>1, <3>1, <3>2, <3>3, ManagerKeeps DEF States
  <2>4. QED
    BY <2>2, <2>3
<1>4. ASSUME NEW m \in Manager, UNCHANGED role, Bind(m) PROVE ClientsInv'
  <2>1. /\ UNCHANGED <<ending, tokens, wanted>> /\ UNCHANGED clientVars /\ managerLock' = managerLock
        /\ managerIs[m] = "locked" /\ socket' = m /\ managerIs' = [managerIs EXCEPT ![m] = "serving"]
    BY <1>4 DEF Bind, Frame
  <2>2. managerLock = m
    BY <2>1 DEF Locks
  <2>3. Locks'
    BY <2>1, <2>2 DEF Locks, ClientsTypeOK
  <2>4. QED
    BY <1>4, <2>1, <2>2, <2>3, ManagerKeeps DEF States
<1>5. ASSUME NEW m \in Manager, UNCHANGED role, Close(m) PROVE ClientsInv'
  <2>1. /\ UNCHANGED <<ending, tokens, wanted>> /\ UNCHANGED clientVars /\ managerLock' = managerLock
        /\ managerIs[m] = "serving" /\ socket' = socket /\ managerIs' = [managerIs EXCEPT ![m] = "closing"]
        /\ ending[m] # "no"
    BY <1>5 DEF Close, Frame
  <2>2. Locks' /\ managerLock = m /\ socket = m
    BY <2>1 DEF Locks, ClientsTypeOK
  <2>3. ending[m] \in Ending \cup {"unused"}
    BY <2>1 DEF ClientsTypeOK, Reasons
  <2>4. QED
    BY <1>5, <2>1, <2>2, <2>3, ManagerKeeps DEF States
<1>6. ASSUME NEW m \in Manager, UNCHANGED role, Unlink(m) PROVE ClientsInv'
  <2>1. /\ UNCHANGED <<ending, tokens, wanted>> /\ UNCHANGED clientVars /\ managerLock' = managerLock
        /\ managerIs[m] = "closing" /\ socket' = Free /\ managerIs' = [managerIs EXCEPT ![m] = "unlinked"]
    BY <1>6 DEF Unlink, Frame
  <2>2. managerLock = m /\ ending[m] # "no"
    BY <2>1 DEF Locks, Reasoned
  <2>3. Locks'
    BY <2>1, <2>2 DEF Locks, ClientsTypeOK
  <2>4. QED
    BY <1>6, <2>1, <2>2, <2>3, ManagerKeeps DEF States
<1>7. ASSUME NEW m \in Manager, UNCHANGED role, ManagerEnds(m) PROVE ClientsInv'
  BY <1>7, ManagerVanishes DEF ManagerEnds
<1>8. ASSUME NEW m \in Manager, UNCHANGED role, Crash(m) PROVE ClientsInv'
  <2>1. Vanish(m) /\ ending' = [ending EXCEPT ![m] = "crash"]
    BY <1>8 DEF Crash, Flag
  <2>2. ending'[m] = "crash"
    BY <2>1 DEF ClientsTypeOK
  <2>3. QED
    BY <1>8, <2>1, <2>2, ManagerVanishes
<1>9. ASSUME NEW m \in Manager, UNCHANGED role, Signal(m) PROVE ClientsInv'
  <2>1. /\ managerIs[m] = "serving" /\ ending' = [ending EXCEPT ![m] = "signal"]
        /\ UNCHANGED <<managerIs, managerLock, socket, tokens, wanted>> /\ UNCHANGED clientVars
    BY <1>9 DEF Signal, Flag
  <2>2. ClientsTypeOK' /\ Locks' /\ Reasoned' /\ Waits'
    BY <1>9, <2>1 DEF ClientsTypeOK, Reasons, Ending, Locks, Reasoned, Waits, clientVars
  <2>3. \A c \in Client : Granted(c) => Granted(c)'
    BY <2>1 DEF Granted, ClientsTypeOK, clientVars, Ending
  <2>4. Leased'
    BY <1>9, <2>1, <2>3 DEF Leased, clientVars
  <2>5. QED
    BY <2>2, <2>4
<1>10. ASSUME NEW m \in Manager, NEW c \in Client, UNCHANGED role, Serve(m, c) PROVE ClientsInv'
  BY <1>10, ServeKeeps
<1>11. QED
  BY <1>1, <1>2, <1>3, <1>4, <1>5, <1>6, <1>7, <1>8, <1>9, <1>10 DEF ClientsNext, ManagerStep

\* Clients reach the manager that serves, and it stays while it is leased, for
\* any number of clients and managers, wherever one is killed.
THEOREM ManagersStayReached == PartsSpec => []ManagersServe
<1> DEFINE Holds == part = "clients" => ClientsInv
<1>1. PartsInit => Holds
  BY ClientsStart DEF PartsInit
<1>2. Holds /\ [PartsNext]_partsVars => Holds'
  <2> SUFFICES ASSUME Holds, [PartsNext]_partsVars, part' = "clients" PROVE ClientsInv'
    OBVIOUS
  <2>1. part = "clients" /\ [ClientsNext]_allVars
    BY DEF PartsNext, partsVars
  <2>2. QED
    BY <2>1, ClientsStep
<1>3. Holds => ManagersServe
  BY ClientsSafe DEF ManagersServe
<1>4. QED
  BY <1>1, <1>2, <1>3, PTL DEF PartsSpec

-----------------------------------------------------------------------------
(* Projects. *)

\* What a request remembers of the row it read.
Copies == [project : Project, kind : {"edit", "rename", "archive", "unarchive"}, read : Row]

\* The inductive invariant.  A name is a user's or made of the project's own
\* id, also the name that a copy bears; a project with a row, or with a request,
\* was created, once; and as long as every project that was created is there, a
\* listing has seen exactly what its cursor has passed.
ProjectsTypeOK ==
    /\ table \in [Project -> Row \cup {NoRow}]
    /\ order \in Seq(Project)
    /\ request \in [Requester -> Copies \cup {NoRow}]
    /\ runEnd \in [project : Project, read : Row] \cup {NoRow}
    /\ torn \in SUBSET Project
    /\ held \in [Project -> [name : (UserNames \cup Project) \X BOOLEAN, details : Values \cup {0},
                             archived : BOOLEAN] \cup {NoRow}]
    /\ statistics \in Nat
OwnNames ==
    /\ \A p \in Project : table[p] # NoRow => table[p].name[1] \in UserNames \cup {p}
    /\ \A c \in Requester : request[c] # NoRow => request[c].read.name[1] \in UserNames \cup {request[c].project}
Created ==
    /\ \A i, j \in DOMAIN order : i # j => order[i] # order[j]
    /\ \A p \in Project : table[p] # NoRow => p \in Range1(order)
    /\ \A c \in Requester : request[c] # NoRow => request[c].project \in Range1(order)
AllThere == \A i \in DOMAIN order : table[order[i]] # NoRow
Walked ==
    /\ listing \in Progress
    /\ listing.due \subseteq Range1(order)
    /\ listing.cursor <= Len(order) /\ Len(listing.seen) = listing.cursor
    /\ \A i \in 1..listing.cursor : listing.seen[i] = order[i]
    /\ ~listing.more => listing.due \subseteq Range1(listing.seen)
Listings == listing # NoRow /\ torn = {} /\ AllThere => Walked
ProjectsInv == ProjectsTypeOK /\ EditsSurvive /\ NamesDiffer /\ OwnNames /\ Created /\ Listings

\* The initial rows, and that the invariant says what the run checks.
LEMMA ProjectsStart == ProjectsInit => ProjectsInv
  BY DEF ProjectsInit, ProjectsInv, ProjectsTypeOK, EditsSurvive, Metadata, NamesDiffer, OwnNames,
         Created, Listings, Range1

LEMMA ProjectsSafe == ProjectsInv => ProjectsHold
<1> SUFFICES ASSUME ProjectsInv PROVE PagesAreComplete
  BY DEF ProjectsInv, ProjectsHold
<1> SUFFICES ASSUME listing # NoRow, torn = {}, AllThere
             PROVE /\ \A i, j \in DOMAIN listing.seen : i # j => listing.seen[i] # listing.seen[j]
                   /\ ~listing.more => listing.due \subseteq Range1(listing.seen)
  BY DEF PagesAreComplete, AllThere
<1>1. Walked
  BY DEF ProjectsInv, Listings
<1>2. DOMAIN listing.seen = 1..listing.cursor
  BY <1>1 DEF Walked, Progress
<1>3. 1..listing.cursor \subseteq DOMAIN order
  BY <1>1 DEF Walked, Progress, ProjectsInv, ProjectsTypeOK
<1>4. QED
  BY <1>1, <1>2, <1>3 DEF Walked, ProjectsInv, Created

\* Where every project has its row, the rows are the projects in their order.
LEMMA RowsAreAll == ProjectsTypeOK /\ AllThere => Rows = order
<1> SUFFICES ASSUME ProjectsTypeOK, AllThere PROVE Rows = order
  OBVIOUS
<1>1. Len(order) \in Nat /\ DOMAIN order = 1..Len(order)
  BY DEF ProjectsTypeOK
<1>2. \A k \in 0..Len(order) : RowsUpTo(k) = 1..k
  BY <1>1 DEF RowsUpTo, AllThere
<1>3. \A k \in 0..Len(order) : Cardinality(RowsUpTo(k)) = k
  <2>1. \A k \in 0..Len(order) : Cardinality(1..k) = k
    BY <1>1, FS_Interval
  <2>2. QED
    BY <2>1, <1>2
<1> DEFINE Nth(n) == CHOOSE k \in DOMAIN order : k \in RowsUpTo(k) /\ Cardinality(RowsUpTo(k)) = n
<1>4. \A n \in 1..Len(order) : Nth(n) = n
  <2> SUFFICES ASSUME NEW n \in 1..Len(order) PROVE Nth(n) = n
    OBVIOUS
  <2>1. n \in DOMAIN order /\ n \in RowsUpTo(n) /\ Cardinality(RowsUpTo(n)) = n
    BY <1>1, <1>2, <1>3
  <2>2. \A k \in DOMAIN order : Cardinality(RowsUpTo(k)) = n => k = n
    BY <1>1, <1>3
  <2>3. QED
    BY <2>1, <2>2
<1>5. Rows = [n \in 1..Len(order) |-> order[n]]
  <2>1. Cardinality(RowsUpTo(Len(order))) = Len(order)
    BY <1>1, <1>3
  <2>2. Rows = [n \in 1..Cardinality(RowsUpTo(Len(order))) |-> order[Nth(n)]]
    BY DEF Rows
  <2> HIDE DEF Nth
  <2>3. QED
    BY <2>1, <2>2, <1>4
<1>6. order = [n \in 1..Len(order) |-> order[n]]
  BY DEF ProjectsTypeOK
<1>7. QED
  BY <1>5, <1>6

\* What a write of a project's copy keeps: a copy that the row still agrees with
\* changes the name only where no other project has it, and another one tears.
LEMMA PutKeeps ==
    ASSUME ProjectsInv, NEW c \in Requester, request[c] # NoRow, Answer(c),
           NEW row \in Row, row.name[1] \in UserNames \cup {request[c].project},
           table' = [table EXCEPT ![request[c].project] = row],
           Wrote(request[c].project, request[c].read, row),
           row.name = request[c].read.name \/ ~Conflicts(request[c].project, row.name),
           UNCHANGED <<order, runEnd, listing, statistics>>
    PROVE  ProjectsInv'
<1> USE DEF ProjectsInv
<1>0. PICK p \in Project : p = request[c].project
  BY DEF ProjectsTypeOK, Copies
<1>1. PICK read \in Row : read = request[c].read
  BY DEF ProjectsTypeOK, Copies
<1>2. row # NoRow /\ read # NoRow
  BY RowAssumption
<1>3. /\ held' = [held EXCEPT ![p] = Metadata(row)]
      /\ torn' = IF Metadata(read) # Metadata(table[p]) THEN torn \cup {p} ELSE torn
  BY <1>0, <1>1 DEF Wrote
<1>4. Metadata(row) = [name |-> row.name, details |-> row.details, archived |-> row.archived]
  BY <1>2 DEF Metadata
<1>5. ASSUME torn' = {}
      PROVE torn = {} /\ table[p] # NoRow /\ read.name = table[p].name
  <2>1. torn = {} /\ Metadata(read) = Metadata(table[p])
    BY <1>3, <1>5
  <2>2. Metadata(read) = [name |-> read.name, details |-> read.details, archived |-> read.archived]
    BY <1>2 DEF Metadata
  <2>3. Metadata(read) # NoRow
    BY <2>2, RowAssumption DEF Row
  <2>4. table[p] # NoRow
    BY <2>1, <2>3 DEF Metadata
  <2>5. Metadata(table[p]) = [name |-> table[p].name, details |-> table[p].details, archived |-> table[p].archived]
    BY <2>4 DEF Metadata
  <2>6. Metadata(read).name = read.name /\ Metadata(table[p]).name = table[p].name
    BY ONLY <2>2, <2>5
  <2>7. QED
    BY <2>1, <2>4, <2>6
<1>6. /\ table' = [table EXCEPT ![p] = row]
      /\ request' = [request EXCEPT ![c] = NoRow]
      /\ p \in Range1(order)
      /\ row.name[1] \in UserNames \cup {p}
  BY <1>0 DEF Answer, Created
<1>7. ProjectsTypeOK'
  <2>1. Metadata(row) \in [name : (UserNames \cup Project) \X BOOLEAN, details : Values \cup {0}, archived : BOOLEAN]
    BY <1>4 DEF Row
  <2>2. QED
    BY <1>3, <1>6, <2>1 DEF ProjectsTypeOK
<1>8. EditsSurvive'
  <2> SUFFICES ASSUME NEW q \in Project \ torn' PROVE Metadata(table[q])' = held'[q]
    BY DEF EditsSurvive
  <2>1. CASE q = p
    <3>1. table'[q] = row /\ held'[q] = Metadata(row)
      BY <1>3, <1>6, <2>1 DEF ProjectsTypeOK
    <3>2. QED
      BY <3>1 DEF Metadata
  <2>2. CASE q # p
    <3>1. table'[q] = table[q] /\ held'[q] = held[q] /\ q \notin torn
      BY <1>3, <1>6, <2>2 DEF ProjectsTypeOK
    <3>2. Metadata(table[q]) = held[q]
      BY <3>1 DEF EditsSurvive
    <3>3. QED
      BY <3>1, <3>2 DEF Metadata
  <2>3. QED
    BY <2>1, <2>2
<1>9. NamesDiffer'
  <2> SUFFICES ASSUME torn' = {}, NEW q \in Project, NEW r \in Project, q # r,
                      table'[q] # NoRow, table'[r] # NoRow
               PROVE table'[q].name[1] # table'[r].name[1]
    BY DEF NamesDiffer
  <2>1. \A s \in Project \ {p} : table'[s] = table[s]
    BY <1>6 DEF ProjectsTypeOK
  <2>2. table'[p] = row
    BY <1>6 DEF ProjectsTypeOK
  <2>3. \A s \in Project \ {p} : table[s] # NoRow => table[s].name[1] # row.name[1]
    <3>1. CASE row.name = request[c].read.name
      BY <3>1, <1>0, <1>1, <1>5 DEF NamesDiffer
    <3>2. CASE ~Conflicts(request[c].project, row.name)
      BY <3>2, <1>0 DEF Conflicts
    <3>3. QED
      BY <3>1, <3>2
  <2>4. CASE q = p
    BY <2>1, <2>2, <2>3, <2>4
  <2>5. CASE r = p
    BY <2>1, <2>2, <2>3, <2>5
  <2>6. CASE q # p /\ r # p
    BY <2>1, <2>6, <1>5 DEF NamesDiffer
  <2>7. QED
    BY <2>4, <2>5, <2>6
<1>10. OwnNames'
  <2>1. \A q \in Project : table'[q] # NoRow => table'[q].name[1] \in UserNames \cup {q}
    BY <1>6 DEF OwnNames, ProjectsTypeOK
  <2>2. \A d \in Requester : request'[d] # NoRow => request'[d] = request[d]
    BY <1>6 DEF ProjectsTypeOK
  <2>3. QED
    BY <2>1, <2>2 DEF OwnNames
<1>11. Created'
  <2>1. \A q \in Project : table'[q] # NoRow => q \in Range1(order)
    BY <1>6 DEF Created, ProjectsTypeOK
  <2>2. \A d \in Requester : request'[d] # NoRow => request'[d] = request[d]
    BY <1>6 DEF ProjectsTypeOK
  <2>3. QED
    BY <2>1, <2>2 DEF Created, Range1
<1>12. Listings'
  <2> SUFFICES ASSUME listing' # NoRow, torn' = {}, AllThere' PROVE Walked'
    BY DEF Listings
  <2>1. \A i \in DOMAIN order : table[order[i]] # NoRow
    <3> SUFFICES ASSUME NEW i \in DOMAIN order PROVE table[order[i]] # NoRow
      OBVIOUS
    <3>1. order[i] \in Project
      BY DEF ProjectsTypeOK
    <3>2. table'[order[i]] # NoRow
      BY DEF AllThere
    <3>3. QED
      BY <3>1, <3>2, <1>5, <1>6 DEF ProjectsTypeOK
  <2>2. Walked
    BY <2>1, <1>5 DEF AllThere, Listings
  <2>3. QED
    BY <2>2 DEF Walked, Range1
<1>13. QED
  BY <1>7, <1>8, <1>9, <1>10, <1>11, <1>12

\* A request that is answered without a write.
LEMMA AnswerKeeps ==
    ASSUME ProjectsInv, NEW c \in Requester, Answer(c),
           UNCHANGED <<table, order, runEnd, listing, held, torn, statistics>>
    PROVE  ProjectsInv'
<1> USE DEF ProjectsInv
<1>1. request' = [request EXCEPT ![c] = NoRow]
  BY DEF Answer
<1>2. ProjectsTypeOK'
  BY <1>1 DEF ProjectsTypeOK
<1>3. \A d \in Requester : request'[d] # NoRow => request'[d] = request[d]
  BY <1>1 DEF ProjectsTypeOK
<1>4. OwnNames' /\ Created'
  BY <1>3 DEF OwnNames, Created, Range1
<1>5. EditsSurvive' /\ NamesDiffer' /\ Listings'
  BY DEF EditsSurvive, Metadata, NamesDiffer, Listings, AllThere, Walked, Range1
<1>6. QED
  BY <1>2, <1>4, <1>5

LEMMA CreateKeeps == ASSUME ProjectsInv, NEW p \in Project, CreateProject(p) PROVE ProjectsInv'
<1> USE DEF ProjectsInv
<1> DEFINE row == [name |-> <<p, TRUE>>, details |-> 0, archived |-> FALSE, stats |-> 0]
<1>1. /\ order' = Append(order, p) /\ p \notin Range1(order) /\ table' = [table EXCEPT ![p] = row]
      /\ held' = [held EXCEPT ![p] = Metadata(row)]
      /\ torn' = IF Metadata(NoRow) # Metadata(table[p]) THEN torn \cup {p} ELSE torn
      /\ UNCHANGED <<request, runEnd, listing, statistics>>
  BY DEF CreateProject, Wrote, counters
<1>2. row \in Row /\ row # NoRow /\ row.name[1] = p
  <2>1. row.name = <<p, TRUE>> /\ <<p, TRUE>> \in (UserNames \cup Project) \X BOOLEAN /\ <<p, TRUE>>[1] = p
    OBVIOUS
  <2>2. row \in Row
    BY <2>1 DEF Row
  <2>3. QED
    BY <2>1, <2>2, RowAssumption
<1>3. table[p] = NoRow /\ torn' = torn
  <2>1. table[p] = NoRow
    BY <1>1 DEF Created
  <2>2. QED
    BY <1>1, <2>1
<1>4. /\ order' \in Seq(Project) /\ Len(order') = Len(order) + 1 /\ DOMAIN order = 1..Len(order)
      /\ DOMAIN order' = 1..(Len(order) + 1)
      /\ order'[Len(order) + 1] = p /\ \A i \in DOMAIN order : order'[i] = order[i]
      /\ Len(order) \in Nat
  BY <1>1 DEF ProjectsTypeOK
<1>5. Range1(order) \cup {p} \subseteq Range1(order)'
  BY <1>4 DEF Range1
<1>6. ProjectsTypeOK'
  <2>1. Metadata(row) = [name |-> row.name, details |-> row.details, archived |-> row.archived]
    BY <1>2 DEF Metadata
  <2>2. Metadata(row) \in [name : (UserNames \cup Project) \X BOOLEAN, details : Values \cup {0}, archived : BOOLEAN]
    <3>1. row.name \in (UserNames \cup Project) \X BOOLEAN /\ row.details \in Values \cup {0} /\ row.archived \in BOOLEAN
      OBVIOUS
    <3> HIDE DEF row
    <3>2. QED
      BY <2>1, <3>1
  <2>3. QED
    BY <1>1, <1>2, <1>3, <1>4, <2>2 DEF ProjectsTypeOK
<1>7. table'[p] = row /\ \A q \in Project \ {p} : table'[q] = table[q]
  BY <1>1 DEF ProjectsTypeOK
<1> HIDE DEF row
<1>8. EditsSurvive'
  <2>1. held'[p] = Metadata(row) /\ \A q \in Project \ {p} : held'[q] = held[q]
    BY <1>1 DEF ProjectsTypeOK
  <2>2. \A q \in Project \ torn : Metadata(table'[q]) = held'[q]
    BY <1>7, <2>1 DEF EditsSurvive
  <2>3. QED
    BY <1>3, <2>2 DEF EditsSurvive, Metadata
<1>9. OwnNames'
  BY <1>1, <1>2, <1>7 DEF OwnNames
<1>10. NamesDiffer'
  <2>1. \A q \in Project \ {p} : table[q] # NoRow => table[q].name[1] # p
    BY RowAssumption DEF OwnNames
  <2>2. QED
    BY <1>2, <1>3, <1>7, <2>1 DEF NamesDiffer
<1>11. Created'
  <2>1. \A i, j \in DOMAIN order' : i # j => order'[i] # order'[j]
    <3>1. \A i \in DOMAIN order : order[i] # p
      BY <1>1 DEF Range1
    <3>2. \A i \in DOMAIN order' : i = Len(order) + 1 \/ i \in DOMAIN order
      BY <1>4
    <3>3. QED
      BY <1>4, <3>1, <3>2 DEF Created
  <2>2. QED
    BY <1>1, <1>5, <1>7, <2>1 DEF Created
<1>12. Listings'
  <2> SUFFICES ASSUME listing' # NoRow, torn' = {}, AllThere' PROVE Walked'
    BY DEF Listings
  <2>1. AllThere
    <3>1. \A i \in DOMAIN order : order[i] # p /\ order[i] \in Project
      BY <1>1 DEF Range1, ProjectsTypeOK
    <3>2. \A i \in DOMAIN order : table'[order'[i]] # NoRow
      BY <1>4 DEF AllThere
    <3>3. QED
      BY <1>4, <1>7, <3>1, <3>2 DEF AllThere
  <2>2. Walked
    BY <2>1, <1>1, <1>3 DEF Listings
  <2>3. 1..listing.cursor \subseteq DOMAIN order
    BY <1>4, <2>2 DEF Walked, Progress
  <2>4. listing.cursor <= Len(order) + 1
    BY <1>4, <2>2 DEF Walked, Progress
  <2>5. \A i \in 1..listing.cursor : listing.seen[i] = order'[i]
    BY <1>4, <2>2, <2>3 DEF Walked
  <2>6. QED
    BY <1>1, <1>4, <1>5, <2>2, <2>4, <2>5 DEF Walked, Range1
<1>13. QED
  BY <1>6, <1>8, <1>9, <1>10, <1>11, <1>12

LEMMA DeleteKeeps == ASSUME ProjectsInv, NEW p \in Project, DeleteProject(p) PROVE ProjectsInv'
<1> USE DEF ProjectsInv
<1>1. /\ table[p] # NoRow /\ table' = [table EXCEPT ![p] = NoRow]
      /\ held' = [held EXCEPT ![p] = NoRow] /\ torn' = torn
      /\ UNCHANGED <<order, request, runEnd, listing, statistics>>
  BY DEF DeleteProject, Wrote, Metadata
<1>2. /\ table'[p] = NoRow /\ \A q \in Project \ {p} : table'[q] = table[q]
      /\ held'[p] = NoRow /\ \A q \in Project \ {p} : held'[q] = held[q]
  BY <1>1 DEF ProjectsTypeOK
<1>3. ProjectsTypeOK'
  BY <1>1 DEF ProjectsTypeOK
<1>4. EditsSurvive'
  <2>1. \A q \in Project \ torn : Metadata(table'[q]) = held'[q]
    <3>1. Metadata(NoRow) = NoRow
      BY DEF Metadata
    <3>2. QED
      BY <1>2, <3>1 DEF EditsSurvive
  <2>2. QED
    BY <1>1, <2>1 DEF EditsSurvive, Metadata
<1>5. NamesDiffer' /\ OwnNames' /\ Created'
  BY <1>1, <1>2 DEF NamesDiffer, OwnNames, Created, Range1
<1>6. ~AllThere'
  BY <1>1, <1>2 DEF AllThere, Created, Range1
<1>7. QED
  BY <1>3, <1>4, <1>5, <1>6 DEF Listings

LEMMA StatsKeep == ASSUME ProjectsInv, SaveStats PROVE ProjectsInv'
<1> USE DEF ProjectsInv
<1>1. /\ runEnd # NoRow /\ runEnd' = NoRow
      /\ table' = IF table[runEnd.project] = NoRow THEN table
                  ELSE [table EXCEPT ![runEnd.project].stats = statistics]
      /\ UNCHANGED <<order, request, listing, held, torn, statistics>>
  BY DEF SaveStats, counters
<1>2. PICK p \in Project : p = runEnd.project
  BY <1>1 DEF ProjectsTypeOK
<1>3. CASE table[p] = NoRow
  <2>1. table' = table
    BY <1>1, <1>2, <1>3
  <2>2. QED
    BY <1>1, <2>1 DEF ProjectsTypeOK, EditsSurvive, Metadata, NamesDiffer, OwnNames, Created, Range1,
                      Listings, AllThere, Walked
<1>4. CASE table[p] # NoRow
  <2>1. PICK old \in Row : old = table[p]
    BY <1>4 DEF ProjectsTypeOK
  <2>2. PICK new \in Row : /\ new = [old EXCEPT !.stats = statistics] /\ new.name = old.name
                           /\ new.details = old.details /\ new.archived = old.archived
    <3>1. \A r \in Row, n \in Nat :
             /\ [r EXCEPT !.stats = n] \in Row /\ [r EXCEPT !.stats = n].name = r.name
             /\ [r EXCEPT !.stats = n].details = r.details /\ [r EXCEPT !.stats = n].archived = r.archived
      BY DEF Row
    <3>2. QED
      BY <3>1 DEF ProjectsTypeOK
  <2>3. table' = [table EXCEPT ![p] = new]
    BY <1>1, <1>2, <1>4, <2>1, <2>2 DEF ProjectsTypeOK
  <2>4. table'[p] = new /\ new # NoRow /\ \A q \in Project \ {p} : table'[q] = table[q]
    BY <2>3, RowAssumption DEF ProjectsTypeOK
  <2>5. ProjectsTypeOK'
    BY <1>1, <2>3 DEF ProjectsTypeOK
  <2>6. Metadata(new) = Metadata(table[p])
    BY <1>4, <2>1, <2>2, <2>4 DEF Metadata
  <2>7. EditsSurvive'
    <3>1. \A q \in Project : Metadata(table'[q]) = Metadata(table[q])
      BY <2>4, <2>6
    <3>2. \A q \in Project \ torn : Metadata(table'[q]) = held'[q]
      BY <1>1, <3>1 DEF EditsSurvive
    <3>3. QED
      BY <1>1, <3>2 DEF EditsSurvive, Metadata
  <2>8. NamesDiffer' /\ OwnNames'
    BY <1>1, <1>4, <2>1, <2>2, <2>4 DEF NamesDiffer, OwnNames
  <2>9. \A q \in Project : table'[q] # NoRow <=> table[q] # NoRow
    BY <1>4, <2>4
  <2>10. Created' /\ Listings'
    <3>1. \A i \in DOMAIN order : order[i] \in Project
      BY DEF ProjectsTypeOK
    <3>2. AllThere' => AllThere
      BY <1>1, <2>9, <3>1 DEF AllThere
    <3>3. QED
      BY <1>1, <2>9, <3>2 DEF Created, Range1, Listings, Walked
  <2>11. QED
    BY <2>5, <2>7, <2>8, <2>10
<1>5. QED
  BY <1>3, <1>4

\* Where the rows, the order and what is torn stay, a listing is all that matters.
LEMMA ListingKeeps ==
    ASSUME ProjectsInv, UNCHANGED <<table, order, request, runEnd, held, torn, statistics>>,
           torn = {} /\ AllThere /\ listing' # NoRow => Walked'
    PROVE  ProjectsInv'
<1> USE DEF ProjectsInv
<1>1. ProjectsTypeOK' /\ EditsSurvive' /\ NamesDiffer' /\ OwnNames' /\ Created'
  BY DEF ProjectsTypeOK, EditsSurvive, Metadata, NamesDiffer, OwnNames, Created, Range1
<1>2. AllThere' => AllThere
  BY DEF AllThere
<1>3. QED
  BY <1>1, <1>2 DEF Listings

LEMMA OpenKeeps == ASSUME ProjectsInv, OpenListing PROVE ProjectsInv'
<1> USE DEF ProjectsInv
<1>1. /\ listing' = [due |-> Range1(Rows), seen |-> <<>>, cursor |-> 0, more |-> TRUE]
      /\ UNCHANGED <<table, order, request, runEnd, held, torn, statistics>>
  BY DEF OpenListing
<1>2. ASSUME AllThere PROVE Walked'
  <2>1. Rows = order
    BY <1>2, RowsAreAll
  <2>2. Range1(order) \in SUBSET Project /\ Range1(order)' = Range1(order) /\ Len(order) \in Nat
    BY <1>1 DEF Range1, ProjectsTypeOK
  <2>3. /\ listing' \in Progress /\ listing'.due = Range1(order) /\ listing'.cursor = 0
        /\ listing'.seen = <<>> /\ listing'.more = TRUE
    BY <1>1, <2>1, <2>2 DEF Progress
  <2>4. QED
    BY <1>1, <2>2, <2>3 DEF Walked
<1>3. QED
  BY <1>1, <1>2, ListingKeeps

\* A page takes up where the last one ended; an empty one has nothing left.
LEMMA PageKeeps == ASSUME ProjectsInv, NextPage PROVE ProjectsInv'
<1> USE DEF ProjectsInv
<1> DEFINE rows == Page(Rows, listing.cursor)
<1>1. /\ listing' = [listing EXCEPT !.seen = @ \o rows, !.cursor = Cursor(@, rows), !.more = rows # <<>>]
      /\ listing # NoRow
      /\ UNCHANGED <<table, order, request, runEnd, held, torn, statistics>>
  BY DEF NextPage, counters
<1>2. ASSUME torn = {}, AllThere PROVE Walked'
  <2>1. Rows = order
    BY <1>2, RowsAreAll
  <2>2. PICK l \in Progress : l = listing
    BY <1>1, <1>2 DEF Listings, Walked
  <2>3. PICK from \in Nat, n \in Nat : from = l.cursor /\ n = Len(order)
    BY <2>2 DEF Progress, ProjectsTypeOK
  <2>4. from <= n
    BY <1>1, <1>2, <2>2, <2>3 DEF Listings, Walked
  <2>5. PICK to \in Nat : to = IF from + PageSize < n THEN from + PageSize ELSE n
    BY <2>3, PageAssumption
  <2>6. from <= to /\ to <= n /\ (from < n => from < to)
    BY <2>3, <2>4, <2>5, PageAssumption
  <2>7. rows = SubSeq(order, from + 1, to)
    BY <2>1, <2>2, <2>3, <2>5 DEF Page
  <2> HIDE DEF rows
  <2>8. /\ rows \in Seq(Project) /\ Len(rows) = to - from
        /\ \A i \in 1..(to - from) : rows[i] = order[from + i]
    <3>1. \A i \in (from + 1)..to : order[i] \in Project
      BY <2>3, <2>6 DEF ProjectsTypeOK
    <3>2. from + 1 \in Int /\ to \in Int
      OBVIOUS
    <3>3. /\ rows \in Seq(Project) /\ Len(rows) = IF from + 1 <= to THEN to - (from + 1) + 1 ELSE 0
          /\ \A i \in 1..(to - (from + 1) + 1) : rows[i] = order[(from + 1) + i - 1]
      BY <2>7, <3>1, <3>2, SubSeqProperties
    <3>4. to - (from + 1) + 1 = to - from /\ \A i \in Int : (from + 1) + i - 1 = from + i
      OBVIOUS
    <3>5. QED
      BY <2>6, <3>3, <3>4
  <2>9. /\ l.seen \in Seq(Project) /\ l.due \in SUBSET Project /\ l.more \in BOOLEAN /\ Len(l.seen) = from
        /\ \A i \in 1..from : l.seen[i] = order[i]
        /\ l.due \subseteq Range1(order)
    BY <1>1, <1>2, <2>2, <2>3 DEF Progress, Listings, Walked
  <2>a. /\ l.seen \o rows \in Seq(Project) /\ Len(l.seen \o rows) = from + (to - from)
        /\ \A i \in 1..from + (to - from) : (l.seen \o rows)[i] = IF i <= from THEN l.seen[i] ELSE rows[i - from]
    BY <2>8, <2>9, ConcatProperties
  <2>10. PICK seen \in Seq(Project) : seen = l.seen \o rows
    BY <2>a
  <2>11. Len(seen) = to /\ \A i \in 1..to : seen[i] = order[i]
    <3>1. from + (to - from) = to
      OBVIOUS
    <3>2. \A i \in 1..to : i > from => i - from \in 1..(to - from) /\ from + (i - from) = i
      OBVIOUS
    <3>3. Len(seen) = to
      BY <2>a, <2>10, <3>1
    <3>4. ASSUME NEW i \in 1..to PROVE seen[i] = order[i]
      <4>1. seen[i] = IF i <= from THEN l.seen[i] ELSE rows[i - from]
        BY <2>a, <2>10, <3>1
      <4>2. CASE i <= from
        BY <4>1, <4>2, <2>9
      <4>3. CASE ~(i <= from)
        <5>1. i - from \in 1..(to - from) /\ from + (i - from) = i
          BY <3>2, <4>3
        <5>2. QED
          BY <4>1, <4>3, <5>1, <2>8
      <4>4. QED
        BY <4>2, <4>3
    <3>5. QED
      BY <3>3, <3>4
  <2>12. Cursor(from, rows) = to
    BY <2>3, <2>5, <2>8 DEF Cursor
  <2>13. /\ listing' = [l EXCEPT !.seen = l.seen \o rows, !.cursor = Cursor(l.cursor, rows), !.more = rows # <<>>]
    BY <1>1, <2>2
  <2>14. /\ listing'.due = l.due /\ listing'.seen = seen /\ listing'.cursor = to /\ (listing'.more <=> rows # <<>>)
         /\ listing' \in Progress
    BY <2>3, <2>5, <2>10, <2>12, <2>13 DEF Progress
  <2>15. ~listing'.more => l.due \subseteq Range1(seen)
    <3> SUFFICES ASSUME rows = <<>> PROVE Range1(order) \subseteq Range1(seen)
      BY <2>9, <2>14
    <3>1. to = from
      BY <2>3, <2>5, <2>8
    <3>2. to = n
      BY <3>1, <2>3, <2>5, <2>6
    <3>3. QED
      BY <3>2, <2>3, <2>10, <2>11 DEF Range1, ProjectsTypeOK
  <2>16. order' = order
    BY <1>1
  <2>17. QED
    BY <2>3, <2>6, <2>9, <2>11, <2>14, <2>15, <2>16 DEF Walked, Range1
<1>3. QED
  BY <1>1, <1>2, ListingKeeps

LEMMA SaveKeeps ==
    ASSUME ProjectsInv, NEW c \in Requester, request[c] # NoRow, Answer(c),
           NEW row \in Row, row.name[1] \in UserNames \cup {request[c].project},
           \/ SaveProject(request[c].project, request[c].read, row) /\ row.name = request[c].read.name
           \/ SaveUnique(request[c].project, request[c].read, row),
           UNCHANGED <<order, runEnd, listing, statistics>>
    PROVE  ProjectsInv'
<1>1. CASE UNCHANGED <<table, held, torn>>
  BY <1>1, AnswerKeeps
<1>2. CASE /\ table' = [table EXCEPT ![request[c].project] = row]
           /\ Wrote(request[c].project, request[c].read, row)
           /\ row.name = request[c].read.name \/ ~Conflicts(request[c].project, row.name)
  BY <1>2, PutKeeps
<1>3. QED
  BY <1>1, <1>2 DEF SaveProject, SaveUnique

LEMMA ProjectsStep == ProjectsInv /\ [ProjectsNext]_projectVars => ProjectsInv'
<1> SUFFICES ASSUME ProjectsInv, [ProjectsNext]_projectVars PROVE ProjectsInv'
  OBVIOUS
<1> USE DEF ProjectsInv
<1>1. CASE UNCHANGED projectVars
  BY <1>1 DEF projectVars, ProjectsTypeOK, EditsSurvive, Metadata, NamesDiffer, OwnNames, Created, Range1,
             Listings, AllThere, Walked
<1>2. ASSUME NEW p \in Project, SaveDetected(p) PROVE ProjectsInv'
  BY <1>2 DEF SaveDetected, counters, ProjectsTypeOK, EditsSurvive, Metadata, NamesDiffer, OwnNames, Created,
             Range1, Listings, AllThere, Walked
<1>3. ASSUME NEW p \in Project, BeginRun(p) PROVE ProjectsInv'
  <2>1. /\ runEnd' = [project |-> p, read |-> table[p]] /\ statistics' = statistics + 1 /\ table[p] # NoRow
        /\ UNCHANGED <<table, order, request, listing, held, torn>>
    BY <1>3 DEF BeginRun
  <2>2. runEnd' \in [project : Project, read : Row]
    BY <2>1 DEF ProjectsTypeOK
  <2>3. QED
    BY <2>1, <2>2 DEF ProjectsTypeOK, EditsSurvive, Metadata, NamesDiffer, OwnNames, Created,
                      Range1, Listings, AllThere, Walked
<1>4. ASSUME NEW p \in Project, NEW c \in Requester, NEW k \in {"edit", "rename", "archive", "unarchive"},
             ReadProject(c, p, k)
      PROVE  ProjectsInv'
  <2>1. /\ request' = [request EXCEPT ![c] = [project |-> p, kind |-> k, read |-> table[p]]]
        /\ table[p] # NoRow /\ UNCHANGED <<table, order, runEnd, listing, held, torn, statistics>>
    BY <1>4 DEF ReadProject
  <2>2. [project |-> p, kind |-> k, read |-> table[p]] \in Copies
    BY <2>1 DEF ProjectsTypeOK, Copies
  <2>3. ProjectsTypeOK'
    BY <2>1, <2>2 DEF ProjectsTypeOK
  <2>4. /\ request'[c].project = p /\ request'[c].read = table[p]
        /\ \A d \in Requester \ {c} : request'[d] = request[d]
    BY <2>1 DEF ProjectsTypeOK
  <2>5. OwnNames' /\ Created'
    BY <2>1, <2>4 DEF OwnNames, Created, Range1
  <2>6. QED
    BY <2>1, <2>3, <2>5 DEF EditsSurvive, Metadata, NamesDiffer, Listings, AllThere, Walked, Range1
<1>5. ASSUME NEW c \in Requester, UpdateProject(c) PROVE ProjectsInv'
  <2>1. /\ request[c] # NoRow /\ Answer(c) /\ UNCHANGED <<order, runEnd, listing, statistics>>
        /\ \/ \E d \in Values : SaveProject(request[c].project, request[c].read, [request[c].read EXCEPT !.details = d])
           \/ \E n \in UserNames \X BOOLEAN, d \in {request[c].read.details} \cup Values :
                 SaveUnique(request[c].project, request[c].read, [request[c].read EXCEPT !.name = n, !.details = d])
    BY <1>5 DEF UpdateProject, counters
  <2>2. PICK r \in Row : r = request[c].read
    BY <2>1 DEF ProjectsTypeOK, Copies
  <2>3. r.name[1] \in UserNames \cup {request[c].project}
    BY <2>1, <2>2 DEF OwnNames
  <2>4. ASSUME NEW d \in Values, SaveProject(request[c].project, request[c].read, [request[c].read EXCEPT !.details = d])
        PROVE  ProjectsInv'
    <3>1. \A e \in Values \cup {0} : [r EXCEPT !.details = e] \in Row /\ [r EXCEPT !.details = e].name = r.name
      BY DEF Row
    <3>2. PICK row \in Row : row = [r EXCEPT !.details = d] /\ row.name = r.name
      BY <3>1
    <3>3. SaveProject(request[c].project, request[c].read, row)
      BY <2>2, <2>4, <3>2
    <3>4. QED
      BY <2>1, <2>2, <2>3, <3>2, <3>3, SaveKeeps
  <2>5. ASSUME NEW n \in UserNames \X BOOLEAN, NEW d \in {request[c].read.details} \cup Values,
               SaveUnique(request[c].project, request[c].read, [request[c].read EXCEPT !.name = n, !.details = d])
        PROVE  ProjectsInv'
    <3>1. n \in (UserNames \cup Project) \X BOOLEAN /\ n[1] \in UserNames
      OBVIOUS
    <3>2. d \in Values \cup {0}
      BY <2>2 DEF Row
    <3>3. \A m \in (UserNames \cup Project) \X BOOLEAN : [r EXCEPT !.name = m] \in Row /\ [r EXCEPT !.name = m].name = m
      BY DEF Row
    <3>4. \A q \in Row, e \in Values \cup {0} : [q EXCEPT !.details = e] \in Row /\ [q EXCEPT !.details = e].name = q.name
      BY DEF Row
    <3>5. PICK named \in Row : named = [r EXCEPT !.name = n] /\ named.name = n
      BY <3>1, <3>3
    <3>6. PICK row \in Row : row = [named EXCEPT !.details = d] /\ row.name = n
      BY <3>2, <3>4, <3>5
    <3>7. row = [r EXCEPT !.name = n, !.details = d]
      BY <3>5, <3>6
    <3>8. SaveUnique(request[c].project, request[c].read, row)
      BY <2>2, <2>5, <3>7
    <3>9. QED
      BY <2>1, <3>1, <3>6, <3>8, SaveKeeps
  <2>6. QED
    BY <2>1, <2>4, <2>5
<1>6. ASSUME NEW c \in Requester, Archive(c) PROVE ProjectsInv'
  <2>1. /\ request[c] # NoRow /\ Answer(c) /\ UNCHANGED <<order, runEnd, listing, statistics>>
        /\ SaveProject(request[c].project, request[c].read,
                       [request[c].read EXCEPT !.archived = request[c].kind = "archive"])
    BY <1>6 DEF Archive, counters
  <2>2. PICK r \in Row : r = request[c].read
    BY <2>1 DEF ProjectsTypeOK, Copies
  <2>3. r.name[1] \in UserNames \cup {request[c].project}
    BY <2>1, <2>2 DEF OwnNames
  <2>4. \A b \in BOOLEAN : [r EXCEPT !.archived = b] \in Row /\ [r EXCEPT !.archived = b].name = r.name
    BY DEF Row
  <2>5. PICK row \in Row : row = [r EXCEPT !.archived = request[c].kind = "archive"] /\ row.name = r.name
    BY <2>4
  <2>6. SaveProject(request[c].project, request[c].read, row) /\ row.name = request[c].read.name
    BY <2>1, <2>2, <2>5
  <2>7. row.name[1] \in UserNames \cup {request[c].project}
    BY <2>3, <2>5
  <2>8. QED
    BY <2>1, <2>6, <2>7, SaveKeeps, Zenon
<1>7. QED
  BY <1>1, <1>2, <1>3, <1>4, <1>5, <1>6, CreateKeeps, DeleteKeeps, StatsKeep, OpenKeeps, PageKeeps,
     ListingKeeps DEF ProjectsNext, CloseListing, counters

\* Answered changes hold, names differ and a listing shows every project once,
\* for any number of projects and requests and any size of a page.
THEOREM ProjectsStayKept == PartsSpec => []ProjectsKeep
<1> DEFINE Holds == part = "projects" => ProjectsInv
<1>1. PartsInit => Holds
  BY ProjectsStart DEF PartsInit
<1>2. Holds /\ [PartsNext]_partsVars => Holds'
  <2> SUFFICES ASSUME Holds, [PartsNext]_partsVars, part' = "projects" PROVE ProjectsInv'
    OBVIOUS
  <2>1. part = "projects" /\ [ProjectsNext]_projectVars
    BY DEF PartsNext, partsVars
  <2>2. QED
    BY <2>1, ProjectsStep
<1>3. Holds => ProjectsKeep
  BY ProjectsSafe DEF ProjectsKeep
<1>4. QED
  BY <1>1, <1>2, <1>3, PTL DEF PartsSpec


-----------------------------------------------------------------------------
(* WorkflowFiles. *)

WorkflowTypes ==
    /\ files \in Files /\ branch \in Branch /\ crossed \subseteq Id
    /\ opened \in [Peer -> Shown \cup {Absent}] /\ save \in [Peer -> Writer \cup {Absent}]
    /\ lock \in Peer \cup {Absent} /\ kept \in [Id -> SUBSET Definition]
    /\ edits \in Nat /\ (edits = 0 => crossed = {})

Sole(S) == \A p, q \in S : p = q
Writes(c) == save[c] # Absent /\ save[c].phase = "locked"

\* What a writer has read under the lock is what is there, unless an edit crossed
\* its id; and then whatever it may replace belongs to an id that was crossed.
AsRead(s) ==
    /\ s.base = Absent => s.kind = "create" \/ (s.kind \in Field /\ s.id = Default)
    /\ s.base # Absent => s.kind # "create" /\ s.base.contents.id = s.id
    /\ s.id \notin crossed => s.base = Entry(files, s.id) /\ Sole(At(files, s.id))
    /\ s.base # Absent =>
         \/ files[s.base.path] = s.base.contents
         \/ s.id \in crossed /\ (files[s.base.path] = Absent \/ files[s.base.path].id \in crossed)
Writing == \A c \in Peer : Writes(c) =>
    /\ lock = c /\ AsRead(save[c])
    /\ save[c].expects => opened[c] = save[c].base

WorkflowInv == WorkflowTypes /\ Writing /\ FieldsMerge

LEMMA PathsAreFinite == \A S \in SUBSET Path : IsFiniteSet(S) /\ (Cardinality(S) <= 1 <=> Sole(S))
<1> SUFFICES ASSUME NEW S \in SUBSET Path PROVE IsFiniteSet(S) /\ (Cardinality(S) <= 1 <=> Sole(S))
  OBVIOUS
<1>1. IsFiniteSet(Path)
  BY WorkflowAssumption, FS_AddElement DEF Path
<1>2. IsFiniteSet(S) /\ Cardinality(S) \in Nat
  BY <1>1, FS_Subset, FS_CardinalityType
<1>3. Cardinality(S) <= 1 => Sole(S)
  <2>1. CASE Cardinality(S) = 0
    BY <1>2, <2>1, FS_EmptySet DEF Sole
  <2>2. CASE Cardinality(S) = 1
    BY <1>2, <2>2, FS_Singleton DEF Sole
  <2>3. QED
    BY <1>2, <2>1, <2>2
<1>4. Sole(S) => Cardinality(S) <= 1
  <2> SUFFICES ASSUME Sole(S) PROVE Cardinality(S) <= 1
    OBVIOUS
  <2>1. CASE S = {}
    BY <1>2, <2>1, FS_EmptySet
  <2>2. CASE S # {}
    <3>1. PICK p \in S : S = {p}
      BY <2>2 DEF Sole
    <3>2. Cardinality(S) = 1
      BY <3>1, FS_Singleton
    <3>3. QED
      BY <3>2
  <2>3. QED
    BY <2>1, <2>2
<1>5. QED
  BY <1>2, <1>3, <1>4

\* The entry of an id is the file that is found for it.
LEMMA EntryIs ==
    ASSUME NEW fs \in Files, NEW i \in Id
    PROVE  /\ At(fs, i) \subseteq Path /\ Entry(fs, i) \in Shown \cup {Absent}
           /\ Entry(fs, i) = Absent => At(fs, i) = {}
           /\ Entry(fs, i) # Absent => /\ Entry(fs, i).path \in At(fs, i)
                                       /\ Entry(fs, i).contents = fs[Entry(fs, i).path]
                                       /\ Entry(fs, i).contents.id = i
<1>1. At(fs, i) \subseteq Path /\ \A p \in At(fs, i) : fs[p] \in Definition /\ fs[p].id = i
  BY DEF At, Files
<1>2. CASE At(fs, i) = {}
  BY <1>1, <1>2 DEF Entry
<1>3. CASE At(fs, i) # {}
  <2>1. PICK p \in At(fs, i) : p = Where(fs, i)
    BY <1>3 DEF Where
  <2>2. Entry(fs, i) = [path |-> p, contents |-> fs[p]]
    BY <1>3, <2>1 DEF Entry
  <2>3. [path |-> p, contents |-> fs[p]] \in Shown
    BY <1>1 DEF Shown
  <2>4. Entry(fs, i) # Absent
    BY <2>2, <2>3, WorkflowAssumption
  <2>5. QED
    BY <1>1, <2>2, <2>3, <2>4
<1>4. QED
  BY <1>2, <1>3

\* One field of a definition is replaced.
LEMMA FieldIs ==
    ASSUME NEW x \in Definition, NEW f \in Field, NEW v \in Value
    PROVE  [x EXCEPT ![f] = v] \in Definition /\ [x EXCEPT ![f] = v].id = x.id
<1>1. CASE f = "meta"
  BY <1>1 DEF Definition
<1>2. CASE f = "steps"
  BY <1>2 DEF Definition
<1>3. QED
  BY <1>1, <1>2 DEF Field

LEMMA WorkflowsStart == WorkflowInit => WorkflowInv
<1> SUFFICES ASSUME WorkflowInit PROVE WorkflowInv
  OBVIOUS
<1>1. files \in Files
  BY WorkflowAssumption DEF WorkflowInit
<1>2. \A i \in Id : Contents(files, i) \subseteq Definition
  BY <1>1 DEF Contents, At, Files
<1>3. WorkflowTypes
  BY <1>1, <1>2 DEF WorkflowInit, WorkflowTypes
<1>4. \A c \in Peer : ~Writes(c)
  BY DEF WorkflowInit, Writes
<1>5. FieldsMerge
  BY DEF WorkflowInit, FieldsMerge
<1>6. QED
  BY <1>3, <1>4, <1>5 DEF WorkflowInv, Writing

\* Who does not take the lock marks what it changes under a writer.
LEMMA RewriteKeeps ==
    ASSUME WorkflowInv, NEW fs \in Files, Rewrite(fs), branch' \in Branch
    PROVE  WorkflowInv'
<1>1. /\ files' = fs /\ kept' = [i \in Id |-> Contents(fs, i)] /\ edits' = edits + 1
      /\ crossed' = IF lock = Absent THEN crossed ELSE crossed \cup Changed(fs)
      /\ UNCHANGED <<opened, save, lock>>
  BY DEF Rewrite
<1>2. \A i \in Id : Contents(fs, i) \subseteq Definition
  BY DEF Contents, At, Files
<1>3. WorkflowTypes'
  BY <1>1, <1>2 DEF WorkflowInv, WorkflowTypes, Changed
<1>4. ASSUME NEW c \in Peer, Writes(c)
      PROVE  lock = c /\ AsRead(save[c])' /\ (save[c].expects => opened[c] = save[c].base)
  <2>1. lock = c /\ AsRead(save[c]) /\ (save[c].expects => opened[c] = save[c].base)
    BY <1>4 DEF WorkflowInv, Writing
  <2>2. crossed' = crossed \cup Changed(fs)
    BY <1>1, <2>1, WorkflowAssumption
  <2>3. PICK s \in Writer : s = save[c]
    BY <1>4 DEF WorkflowInv, WorkflowTypes, Writes
  <2>4. ASSUME NEW i \in Id, i \notin Changed(fs)
        PROVE  At(fs, i) = At(files, i) /\ \A p \in At(fs, i) : fs[p] = files[p]
    <3>1. {<<p, fs[p]>> : p \in At(fs, i)} = {<<p, files[p]>> : p \in At(files, i)}
      BY <2>4 DEF Changed
    <3>2. ASSUME NEW p \in At(fs, i) PROVE p \in At(files, i) /\ fs[p] = files[p]
      <4>1. <<p, fs[p]>> \in {<<q, files[q]>> : q \in At(files, i)}
        BY <3>1
      <4>2. PICK q \in At(files, i) : <<p, fs[p]>> = <<q, files[q]>>
        BY <4>1
      <4>3. QED
        BY <4>2
    <3>3. ASSUME NEW p \in At(files, i) PROVE p \in At(fs, i)
      <4>1. <<p, files[p]>> \in {<<q, fs[q]>> : q \in At(fs, i)}
        BY <3>1
      <4>2. PICK q \in At(fs, i) : <<p, files[p]>> = <<q, fs[q]>>
        BY <4>1
      <4>3. QED
        BY <4>2
    <3>4. QED
      BY <3>2, <3>3
  <2>5. \A i \in Id : i \notin Changed(fs) => Entry(fs, i) = Entry(files, i)
    <3>1. ASSUME NEW i \in Id, i \notin Changed(fs) PROVE Entry(fs, i) = Entry(files, i)
      <4>1. CASE At(files, i) = {}
        BY <2>4, <3>1, <4>1 DEF Entry
      <4>2. CASE At(files, i) # {}
        <5>1. Where(fs, i) = Where(files, i) /\ Where(files, i) \in At(files, i)
          BY <2>4, <3>1, <4>2 DEF Where
        <5>2. QED
          BY <2>4, <3>1, <4>2, <5>1 DEF Entry
      <4>3. QED
        BY <4>1, <4>2
    <3>2. QED
      BY <3>1
  <2>6. s.id \in Id /\ s.id \notin crossed' => s.base = Entry(fs, s.id) /\ Sole(At(fs, s.id))
    BY <2>1, <2>2, <2>3, <2>4, <2>5 DEF AsRead
  <2>7. ASSUME s.base # Absent
        PROVE  \/ fs[s.base.path] = s.base.contents
               \/ s.id \in crossed' /\ (fs[s.base.path] = Absent \/ fs[s.base.path].id \in crossed')
    <3>1. PICK q \in Path : q = s.base.path
      BY <2>3, <2>7 DEF Writer, Shown
    <3>2. s.base.contents \in Definition /\ s.base.contents.id = s.id /\ s.id \in Id
      BY <2>1, <2>3, <2>7 DEF Writer, Shown, AsRead, Definition
    <3>3. CASE fs[q] = files[q]
      BY <2>1, <2>2, <2>3, <2>7, <3>1, <3>3 DEF AsRead
    <3>4. CASE fs[q] # files[q]
      <4>1. ASSUME fs[q] # Absent PROVE fs[q].id \in Changed(fs)
        <5>1. fs[q] \in Definition
          BY <4>1 DEF Files
        <5>2. fs[q].id \in Id /\ q \in At(fs, fs[q].id)
          BY <4>1, <5>1 DEF At, Definition
        <5>3. QED
          BY <2>4, <3>4, <5>2
      <4>2. ASSUME files[q] = s.base.contents PROVE s.id \in Changed(fs)
        <5>1. q \in At(files, s.id)
          BY <3>2, <4>2, WorkflowAssumption DEF At
        <5>2. QED
          BY <2>4, <3>2, <3>4, <5>1
      <4>3. QED
        BY <2>1, <2>2, <2>3, <2>7, <3>1, <4>1, <4>2 DEF AsRead
    <3>5. QED
      BY <3>3, <3>4
  <2>8. AsRead(s)'
    BY <1>1, <2>1, <2>3, <2>6, <2>7 DEF AsRead, Writer
  <2>9. QED
    BY <1>1, <2>1, <2>3, <2>8
<1>5. Writing'
  BY <1>1, <1>4 DEF Writing, Writes
<1>6. FieldsMerge'
  BY <1>1 DEF FieldsMerge, Contents, At
<1>7. QED
  BY <1>3, <1>5, <1>6 DEF WorkflowInv


\* A client opens, asks, and takes the lock.
LEMMA OpenWorkflowKeeps ==
    ASSUME WorkflowInv, NEW c \in Peer, NEW i \in Id, OpenWorkflow(c, i) PROVE WorkflowInv'
<1>1. /\ save[c] = Absent /\ opened' = [opened EXCEPT ![c] = Entry(files, i)]
      /\ UNCHANGED <<files, branch, save, lock, kept, crossed, edits>>
  BY DEF OpenWorkflow
<1>2. Entry(files, i) \in Shown \cup {Absent}
  BY EntryIs DEF WorkflowInv, WorkflowTypes
<1>3. WorkflowTypes'
  BY <1>1, <1>2 DEF WorkflowInv, WorkflowTypes
<1>4. Writing'
  <2> SUFFICES ASSUME NEW d \in Peer, Writes(d)'
               PROVE  (lock = d /\ AsRead(save[d]) /\ (save[d].expects => opened[d] = save[d].base))'
    BY DEF Writing
  <2>1. Writes(d) /\ d # c /\ opened'[d] = opened[d] /\ save'[d] = save[d]
    BY <1>1 DEF Writes, WorkflowInv, WorkflowTypes
  <2>2. lock = d /\ AsRead(save[d]) /\ (save[d].expects => opened[d] = save[d].base)
    BY <2>1 DEF WorkflowInv, Writing
  <2>3. AsRead(save[d])'
    BY <1>1, <2>1, <2>2 DEF AsRead
  <2>4. QED
    BY <1>1, <2>1, <2>2, <2>3
<1>5. FieldsMerge'
  BY <1>1 DEF WorkflowInv, FieldsMerge
<1>6. QED
  BY <1>3, <1>4, <1>5 DEF WorkflowInv

\* The request of one client becomes another one, or ends, while the files stay.
LEMMA WriterKeeps ==
    ASSUME WorkflowInv, NEW c \in Peer, NEW w \in Writer \cup {Absent}, save' = [save EXCEPT ![c] = w],
           UNCHANGED <<files, branch, opened, kept, crossed, edits>>,
           lock' \in Peer \cup {Absent}, \A d \in Peer \ {c} : lock = d => lock' = d,
           w # Absent /\ w.phase = "locked" => /\ lock' = c /\ AsRead(w)
                                               /\ w.expects => opened[c] = w.base
    PROVE  WorkflowInv'
<1>1. WorkflowTypes'
  BY DEF WorkflowInv, WorkflowTypes
<1>2. Writing'
  <2> SUFFICES ASSUME NEW d \in Peer, Writes(d)'
               PROVE  (lock = d /\ AsRead(save[d]) /\ (save[d].expects => opened[d] = save[d].base))'
    BY DEF Writing
  <2>1. CASE d = c
    <3>1. save'[d] = w /\ w # Absent /\ w.phase = "locked"
      BY <2>1 DEF Writes, WorkflowInv, WorkflowTypes
    <3>2. lock' = d /\ AsRead(w) /\ (w.expects => opened[d] = w.base)
      BY <2>1, <3>1
    <3>3. AsRead(save[d])'
      BY <3>1, <3>2 DEF AsRead
    <3>4. QED
      BY <3>1, <3>2, <3>3
  <2>2. CASE d # c
    <3>1. Writes(d) /\ save'[d] = save[d]
      BY <2>2 DEF Writes, WorkflowInv, WorkflowTypes
    <3>2. lock = d /\ AsRead(save[d]) /\ (save[d].expects => opened[d] = save[d].base)
      BY <3>1 DEF WorkflowInv, Writing
    <3>3. AsRead(save[d])'
      BY <3>1, <3>2 DEF AsRead
    <3>4. QED
      BY <2>2, <3>1, <3>2, <3>3
  <2>3. QED
    BY <2>1, <2>2
<1>3. FieldsMerge'
  BY DEF WorkflowInv, FieldsMerge
<1>4. QED
  BY <1>1, <1>2, <1>3 DEF WorkflowInv

LEMMA SaveRequestKeeps ==
    ASSUME WorkflowInv, NEW c \in Peer, NEW i \in Id, NEW k \in Field \cup {"create", "delete"},
           NEW x \in BOOLEAN, SaveRequest(c, i, k, x)
    PROVE  WorkflowInv'
<1> DEFINE l == IF Entry(files, i) = Absent THEN [path |-> i, contents |-> Legacy] ELSE Entry(files, i)
           w == [id |-> i, kind |-> k, expects |-> x, phase |-> "waiting", base |-> Absent, loaded |-> l]
<1>1. /\ save' = [save EXCEPT ![c] = w]
      /\ UNCHANGED <<files, branch, opened, lock, kept, crossed, edits>>
  BY DEF SaveRequest
<1>2. l \in Shown
  <2>1. Legacy \in Definition
    BY WorkflowAssumption DEF Legacy, Definition, Value
  <2>2. Entry(files, i) \in Shown \cup {Absent}
    BY EntryIs DEF WorkflowInv, WorkflowTypes
  <2>3. QED
    BY <2>1, <2>2 DEF Shown, Path
<1>3. w \in Writer /\ w.phase = "waiting"
  BY <1>2 DEF Writer
<1>4. lock \in Peer \cup {Absent}
  BY DEF WorkflowInv, WorkflowTypes
<1> HIDE DEF w
<1>5. QED
  BY <1>1, <1>3, <1>4, WriterKeeps

LEMMA LockKeeps == ASSUME WorkflowInv, NEW c \in Peer, Lock(c) PROVE WorkflowInv'
<1>1. /\ save[c] # Absent /\ save[c].phase = "waiting" /\ lock = Absent
      /\ UNCHANGED <<files, branch, opened, kept, crossed, edits>>
  BY DEF Lock
<1>2. CASE SaveEnds(c)
  <2>1. save' = [save EXCEPT ![c] = Absent] /\ lock' = lock
    BY <1>1, <1>2, WorkflowAssumption DEF SaveEnds
  <2>2. QED
    BY <1>1, <2>1, WriterKeeps
<1>3. CASE ~SaveEnds(c)
  <2>1. PICK s \in Writer : s = save[c]
    BY <1>1 DEF WorkflowInv, WorkflowTypes
  <2>2. files \in Files /\ s.id \in Id
    BY <2>1 DEF WorkflowInv, WorkflowTypes, Writer
  <2>3. PICK e \in Shown \cup {Absent} : e = Entry(files, s.id)
    BY <2>2, EntryIs
  <2>4. /\ Readable(files) /\ (s.expects => opened[c] = e)
        /\ s.kind = "create" => e = Absent
        /\ s.kind = "delete" => e # Absent
        /\ s.kind \in Field => e # Absent \/ s.id = Default
        /\ lock' = c
        /\ save' = [save EXCEPT ![c] = [@ EXCEPT !.phase = "locked", !.base = e]]
    BY <1>3, <2>1, <2>3 DEF Lock, CheckRevision
  <2>5. PICK w : w = [s EXCEPT !.phase = "locked", !.base = e]
    OBVIOUS
  <2>6. save' = [save EXCEPT ![c] = w]
    BY <2>1, <2>4, <2>5 DEF WorkflowInv, WorkflowTypes
  <2>7. /\ w \in Writer /\ w.phase = "locked" /\ w.base = e /\ w.id = s.id /\ w.kind = s.kind
        /\ w.expects = s.expects
    BY <2>5 DEF Writer
  <2>8. Sole(At(files, s.id))
    BY <2>2, <2>4, EntryIs, PathsAreFinite DEF Readable
  <2>9. AsRead(w)
    <3>1. e = Absent => w.kind = "create" \/ (w.kind \in Field /\ w.id = Default)
      BY <2>1, <2>4, <2>7 DEF Writer
    <3>2. e # Absent => /\ w.kind # "create" /\ e.contents.id = s.id
                        /\ files[e.path] = e.contents
      BY <2>2, <2>3, <2>4, <2>7, EntryIs
    <3>3. QED
      BY <2>3, <2>7, <2>8, <3>1, <3>2 DEF AsRead
  <2>10. /\ w \in Writer \cup {Absent} /\ lock' \in Peer \cup {Absent}
         /\ \A d \in Peer \ {c} : lock = d => lock' = d
         /\ w.expects => opened[c] = w.base
    BY <1>1, <2>4, <2>7, WorkflowAssumption
  <2>11. QED
    BY <1>1, <2>4, <2>6, <2>9, <2>10, WriterKeeps, Zenon
<1>4. QED
  BY <1>2, <1>3

\* A writer puts a file in place or removes one: it replaces what belongs to its
\* id, or to one that was crossed.
LEMMA PutsKeep ==
    ASSUME WorkflowInv, NEW c \in Peer, Writes(c), SaveEnds(c),
           NEW q \in Path, NEW x \in Definition \cup {Absent}, NEW K \in SUBSET Definition,
           files' = [files EXCEPT ![q] = x], kept' = [kept EXCEPT ![save[c].id] = K],
           UNCHANGED <<branch, opened, crossed, edits>>,
           x # Absent => x.id = save[c].id,
           files[q] # Absent => files[q].id \in crossed \cup {save[c].id},
           x # Absent => Valid(x),
           save[c].id \notin crossed => Contents(files', save[c].id) = K /\ Sole(At(files', save[c].id))
    PROVE  WorkflowInv' /\ (StaysReadable => StaysReadable')
<1>1. PICK s \in Writer : s = save[c]
  BY DEF WorkflowInv, WorkflowTypes, Writes
<1>2. s.id \in Id /\ lock = c
  BY <1>1 DEF Writer, WorkflowInv, Writing
<1>3. save' = [save EXCEPT ![c] = Absent] /\ lock' = Absent
  BY <1>2 DEF SaveEnds
<1>4. WorkflowTypes'
  BY <1>1, <1>2, <1>3 DEF WorkflowInv, WorkflowTypes, Files
<1>5. Writing'
  <2>1. \A d \in Peer : ~Writes(d)'
    <3> SUFFICES ASSUME NEW d \in Peer, Writes(d)' PROVE FALSE
      OBVIOUS
    <3>1. d # c
      BY <1>3 DEF Writes, WorkflowInv, WorkflowTypes
    <3>2. Writes(d)
      BY <1>3, <3>1 DEF Writes, WorkflowInv, WorkflowTypes
    <3>3. QED
      BY <1>2, <3>1, <3>2 DEF WorkflowInv, Writing
  <2>2. QED
    BY <2>1 DEF Writing
<1>6. ASSUME NEW i \in Id, i \notin crossed PROVE Contents(files', i) = kept'[i]
  <2>1. CASE i = s.id
    BY <1>1, <1>2, <1>6, <2>1 DEF WorkflowInv, WorkflowTypes
  <2>2. CASE i # s.id
    <3>1. kept'[i] = kept[i]
      BY <1>1, <2>2 DEF WorkflowInv, WorkflowTypes
    <3>2. At(files', i) = At(files, i)
      BY <1>1, <1>6, <2>2 DEF At, WorkflowInv, WorkflowTypes, Files
    <3>3. \A p \in At(files, i) : files'[p] = files[p]
      BY <1>1, <1>6, <2>2 DEF At, WorkflowInv, WorkflowTypes, Files
    <3>4. Contents(files', i) = Contents(files, i)
      BY <3>2, <3>3 DEF Contents
    <3>5. QED
      BY <1>6, <3>1, <3>4 DEF WorkflowInv, FieldsMerge
  <2>3. QED
    BY <2>1, <2>2
<1>7. FieldsMerge'
  BY <1>6 DEF FieldsMerge
<1>8. ASSUME StaysReadable, edits' = 0 PROVE Readable(files')
  <2>1. edits = 0 /\ crossed = {} /\ Readable(files) /\ files \in Files
    BY <1>8 DEF StaysReadable, WorkflowInv, WorkflowTypes
  <2>2. \A p \in Path : files'[p] = IF p = q THEN x ELSE files[p]
    BY <2>1 DEF Files
  <2>3. \A p \in Path : files'[p] # Absent => Valid(files'[p])
    BY <2>1, <2>2 DEF Readable
  <2>4. ASSUME NEW i \in Id PROVE At(files', i) \in SUBSET Path /\ Sole(At(files', i))
    <3>1. CASE i = s.id
      BY <1>1, <2>1, <3>1 DEF At
    <3>2. CASE i # s.id
      <4>1. At(files', i) \subseteq At(files, i)
        BY <1>1, <2>2, <3>2 DEF At
      <4>2. At(files, i) \in SUBSET Path /\ Cardinality(At(files, i)) <= 1
        BY <2>1 DEF At, Readable
      <4>3. Sole(At(files, i))
        BY <4>2, PathsAreFinite
      <4>4. QED
        BY <4>1, <4>2, <4>3 DEF Sole
    <3>3. QED
      BY <3>1, <3>2
  <2>5. \A i \in Id : Cardinality(At(files', i)) <= 1
    BY <2>4, PathsAreFinite
  <2>6. QED
    BY <2>3, <2>5 DEF Readable
<1>9. StaysReadable => StaysReadable'
  BY <1>8 DEF StaysReadable
<1>10. QED
  BY <1>4, <1>5, <1>7, <1>9 DEF WorkflowInv


LEMMA PersistKeeps ==
    ASSUME WorkflowInv, NEW c \in Peer, NEW v \in {1, 3}, Persist(c, v)
    PROVE  WorkflowInv' /\ (StaysReadable => StaysReadable')
<1>1. /\ save[c] # Absent /\ save[c].phase = "locked" /\ save[c].kind # "delete" /\ SaveEnds(c)
      /\ UNCHANGED <<branch, opened, crossed, edits>>
  BY DEF Persist
<1>2. PICK s \in Writer : s = save[c]
  BY <1>1 DEF WorkflowInv, WorkflowTypes
<1>3. /\ Writes(c) /\ lock = c /\ AsRead(s) /\ s.id \in Id /\ s.kind \in Field \cup {"create"}
      /\ files \in Files
  BY <1>1, <1>2 DEF WorkflowInv, WorkflowTypes, Writing, Writes, Writer
<1> DEFINE q == IF s.base = Absent THEN s.id ELSE s.base.path
           d == Revise(s, v)
<1>4. CASE UNCHANGED <<files, kept>>
  <2>1. save' = [save EXCEPT ![c] = Absent] /\ lock' = Absent
    BY <1>1, <1>3 DEF SaveEnds
  <2>2. \A e \in Peer \ {c} : lock = e => lock' = e
    BY <1>3
  <2>3. QED
    BY <1>1, <1>4, <2>1, <2>2, WriterKeeps DEF StaysReadable
<1>5. CASE ~UNCHANGED <<files, kept>>
  <2>1. /\ s.base = Absent => files[q] = Absent
        /\ Valid(d) /\ files' = [files EXCEPT ![q] = d]
        /\ kept' = [kept EXCEPT ![s.id] = IF s.kind = "create" \/ @ = {} THEN {d}
                                          ELSE {[x EXCEPT ![s.kind] = v] : x \in @}]
    BY <1>2, <1>5 DEF Persist, Creatable
  <2>2. s.base # Absent => s.base \in Shown /\ s.base.path \in Path /\ s.base.contents \in Definition
    BY <1>2 DEF Writer, Shown
  <2>3. q \in Path
    BY <1>3, <2>2 DEF Path
  <2>4. v \in Value /\ 0 \in Value /\ Legacy \in Definition /\ Legacy.id = Default
    BY WorkflowAssumption DEF Value, Legacy, Definition
  <2>5. d \in Definition /\ d.id = s.id
    <3>1. CASE s.kind = "create"
      BY <1>3, <2>4, <3>1 DEF Revise, Definition
    <3>2. CASE s.kind # "create"
      <4>1. s.kind \in Field
        BY <1>3, <3>2
      <4>2. PICK x \in Definition : x = (IF s.base = Absent THEN Legacy ELSE s.base.contents) /\ x.id = s.id
        BY <1>3, <2>2, <2>4, <3>2 DEF AsRead
      <4>3. d = [x EXCEPT ![s.kind] = v]
        BY <3>2, <4>2 DEF Revise
      <4>4. QED
        BY <2>4, <4>1, <4>2, <4>3, FieldIs
    <3>3. QED
      BY <3>1, <3>2
  <2>6. PICK K : K = IF s.kind = "create" \/ kept[s.id] = {} THEN {d}
                     ELSE {[x EXCEPT ![s.kind] = v] : x \in kept[s.id]}
    OBVIOUS
  <2>7. kept' = [kept EXCEPT ![s.id] = K]
    BY <1>3, <2>1, <2>6 DEF WorkflowInv, WorkflowTypes
  <2>8. K \subseteq Definition
    <3>1. CASE s.kind = "create" \/ kept[s.id] = {}
      BY <2>5, <2>6, <3>1
    <3>2. CASE ~(s.kind = "create" \/ kept[s.id] = {})
      <4>1. s.kind \in Field /\ kept[s.id] \subseteq Definition
        BY <1>3, <3>2 DEF WorkflowInv, WorkflowTypes
      <4>2. \A x \in kept[s.id] : [x EXCEPT ![s.kind] = v] \in Definition
        BY <2>4, <4>1, FieldIs
      <4>3. K = {[x EXCEPT ![s.kind] = v] : x \in kept[s.id]}
        BY <2>6, <3>2
      <4>4. QED
        BY <4>2, <4>3
    <3>3. QED
      BY <3>1, <3>2
  <2>9. files[q] # Absent => files[q].id \in crossed \cup {s.id}
    BY <1>3, <2>1 DEF AsRead
  <2>10. ASSUME s.id \notin crossed PROVE Contents(files', s.id) = K /\ Sole(At(files', s.id))
    <3>1. /\ s.base = Entry(files, s.id) /\ Sole(At(files, s.id)) /\ Contents(files, s.id) = kept[s.id]
          /\ s.base # Absent => files[q] = s.base.contents /\ s.base.contents.id = s.id
      BY <1>3, <2>10 DEF AsRead, WorkflowInv, FieldsMerge
    <3>2. At(files', s.id) = {q}
      <4>1. At(files, s.id) \subseteq {q}
        BY <1>3, <3>1, EntryIs DEF Sole
      <4>2. d # Absent
        BY <2>5, WorkflowAssumption
      <4>3. \A p \in Path : files'[p] = IF p = q THEN d ELSE files[p]
        BY <1>3, <2>1, <2>3 DEF Files
      <4>4. q \in At(files', s.id)
        BY <2>3, <2>5, <4>2, <4>3 DEF At
      <4>5. \A p \in At(files', s.id) : p # q => p \in At(files, s.id)
        BY <4>3 DEF At
      <4>6. QED
        BY <4>1, <4>4, <4>5
    <3>3. Contents(files', s.id) = {d}
      <4>1. files'[q] = d
        BY <1>3, <2>1, <2>3 DEF Files
      <4>2. QED
        BY <3>2, <4>1 DEF Contents
    <3>4. CASE s.base = Absent
      <4>1. kept[s.id] = {}
        BY <1>3, <3>1, <3>4, EntryIs DEF Contents
      <4>2. QED
        BY <2>6, <3>2, <3>3, <4>1 DEF Sole
    <3>5. CASE s.base # Absent
      <4>1. s.kind # "create" /\ q = s.base.path /\ q \in At(files, s.id)
        BY <1>3, <3>1, <3>5, EntryIs DEF AsRead
      <4>2. At(files, s.id) = {q}
        BY <3>1, <4>1 DEF Sole
      <4>3. kept[s.id] = {s.base.contents}
        BY <3>1, <3>5, <4>2 DEF Contents
      <4>4. d = [s.base.contents EXCEPT ![s.kind] = v]
        BY <3>5, <4>1 DEF Revise
      <4>5. K = {[x EXCEPT ![s.kind] = v] : x \in kept[s.id]}
        BY <2>6, <4>1, <4>3
      <4>6. K = {d}
        BY <4>3, <4>4, <4>5
      <4>7. QED
        BY <3>2, <3>3, <4>6 DEF Sole
    <3>6. QED
      BY <3>4, <3>5
  <2> HIDE DEF q, d
  <2>11. QED
    BY <1>1, <1>2, <1>3, <2>1, <2>3, <2>5, <2>7, <2>8, <2>9, <2>10, PutsKeep
<1>6. QED
  BY <1>4, <1>5

LEMMA DeleteKeepsOthers ==
    ASSUME WorkflowInv, NEW c \in Peer, Delete(c)
    PROVE  WorkflowInv' /\ (StaysReadable => StaysReadable')
<1>1. /\ save[c] # Absent /\ save[c].phase = "locked" /\ save[c].kind = "delete" /\ SaveEnds(c)
      /\ files' = [files EXCEPT ![save[c].base.path] = Absent]
      /\ kept' = [kept EXCEPT ![save[c].id] = {}]
      /\ UNCHANGED <<branch, opened, crossed, edits>>
  BY DEF Delete
<1>2. PICK s \in Writer : s = save[c]
  BY <1>1 DEF WorkflowInv, WorkflowTypes
<1>3. Writes(c) /\ lock = c /\ AsRead(s) /\ s.id \in Id /\ files \in Files
  BY <1>1, <1>2 DEF WorkflowInv, WorkflowTypes, Writing, Writes, Writer
<1>4. s.base # Absent
  BY <1>1, <1>2, <1>3 DEF AsRead, Field
<1>5. PICK q \in Path : q = s.base.path
  BY <1>2, <1>4 DEF Writer, Shown
<1>6. files[q] # Absent => files[q].id \in crossed \cup {s.id}
  BY <1>3, <1>4, <1>5 DEF AsRead
<1>7. ASSUME s.id \notin crossed PROVE Contents(files', s.id) = {} /\ Sole(At(files', s.id))
  <2>1. s.base = Entry(files, s.id) /\ Sole(At(files, s.id))
    BY <1>3, <1>7 DEF AsRead
  <2>2. At(files, s.id) \subseteq {q}
    BY <1>3, <1>4, <1>5, <2>1, EntryIs DEF Sole
  <2>3. At(files', s.id) = {}
    BY <1>1, <1>2, <1>3, <1>5, <2>2 DEF At, Files
  <2>4. QED
    BY <2>3 DEF Contents, Sole
<1>8. PICK x \in Definition \cup {Absent} : x = Absent
  OBVIOUS
<1>9. PICK K \in SUBSET Definition : K = {}
  OBVIOUS
<1>10. QED
  BY <1>1, <1>2, <1>3, <1>5, <1>6, <1>7, <1>8, <1>9, PutsKeep

\* The invariant, whatever clients, editors and git do.
LEMMA WorkflowsStep == WorkflowInv /\ [WorkflowNext]_workflowVars => WorkflowInv'
<1> SUFFICES ASSUME WorkflowInv, [WorkflowNext]_workflowVars PROVE WorkflowInv'
  OBVIOUS
<1>1. CASE UNCHANGED <<files, branch, opened, save, lock, kept, crossed, edits>>
  <2>1. \A i \in Id : Contents(files, i)' = Contents(files, i)
    BY <1>1
  <2>2. ASSUME NEW d \in Peer, Writes(d)'
        PROVE  (lock = d /\ AsRead(save[d]) /\ (save[d].expects => opened[d] = save[d].base))'
    <3>1. Writes(d)
      BY <1>1, <2>2 DEF Writes
    <3>2. lock = d /\ AsRead(save[d]) /\ (save[d].expects => opened[d] = save[d].base)
      BY <3>1 DEF WorkflowInv, Writing
    <3>3. AsRead(save[d])'
      BY <1>1, <3>2 DEF AsRead
    <3>4. QED
      BY <1>1, <3>2, <3>3
  <2>3. Writing'
    BY <2>2 DEF Writing
  <2>4. WorkflowTypes' /\ FieldsMerge'
    BY <1>1 DEF WorkflowInv, WorkflowTypes, FieldsMerge
  <2>5. QED
    BY <2>3, <2>4 DEF WorkflowInv
<1>2. CASE StudioEnds
  <2>1. /\ save' = [c \in Peer |-> Absent] /\ lock' = Absent
        /\ UNCHANGED <<files, branch, opened, kept, crossed, edits>>
    BY <1>2 DEF StudioEnds
  <2>2. WorkflowTypes' /\ FieldsMerge' /\ \A c \in Peer : ~Writes(c)'
    BY <2>1 DEF WorkflowInv, WorkflowTypes, FieldsMerge, Writes
  <2>3. QED
    BY <2>2 DEF WorkflowInv, Writing
<1>3. ASSUME NEW p \in Path, EditFile(p) PROVE WorkflowInv'
  <2>1. files \in Files /\ files[p] \in Definition /\ branch' \in Branch
    BY <1>3 DEF EditFile, WorkflowInv, WorkflowTypes, Files
  <2>2. ASSUME NEW f \in Field, NEW v \in {2, 3}, Rewrite([files EXCEPT ![p][f] = v]) PROVE WorkflowInv'
    <3>1. v \in Value
      BY DEF Value
    <3>2. [files[p] EXCEPT ![f] = v] \in Definition
      BY <2>1, <3>1, FieldIs
    <3>3. [files EXCEPT ![p][f] = v] \in Files
      BY <2>1, <3>2 DEF Files
    <3>4. QED
      BY <2>1, <2>2, <3>3, RewriteKeeps
  <2>3. ASSUME NEW q \in Path, Rewrite([files EXCEPT ![q] = files[p]]) PROVE WorkflowInv'
    <3>1. [files EXCEPT ![q] = files[p]] \in Files
      BY <2>1 DEF Files
    <3>2. QED
      BY <2>1, <2>3, <3>1, RewriteKeeps
  <2>4. ASSUME Rewrite([files EXCEPT ![p] = Absent]) PROVE WorkflowInv'
    <3>1. [files EXCEPT ![p] = Absent] \in Files
      BY <2>1 DEF Files
    <3>2. QED
      BY <2>1, <2>4, <3>1, RewriteKeeps
  <2>5. QED
    BY <1>3, <2>2, <2>3, <2>4 DEF EditFile
<1>4. ASSUME NEW b \in Branch, Switch(b) PROVE WorkflowInv'
  <2> DEFINE differs == {p \in Path : Committed[b][p] # Committed[branch][p]}
             fs == [p \in Path |-> IF p \in differs THEN Committed[b][p] ELSE files[p]]
  <2>1. CASE UNCHANGED <<files, branch, opened, save, lock, kept, crossed, saves, edits>>
    BY <1>1, <2>1
  <2>2. CASE branch' = b /\ Rewrite(fs)
    <3>1. files \in Files /\ Committed[b] \in Files
      BY WorkflowAssumption DEF WorkflowInv, WorkflowTypes
    <3>2. fs \in Files
      BY <3>1 DEF Files
    <3> HIDE DEF fs
    <3>3. QED
      BY <2>2, <3>2, RewriteKeeps
  <2>3. QED
    BY <1>4, <2>1, <2>2 DEF Switch
<1>5. CASE BeginSwitch \/ UNCHANGED workflowVars
  BY <1>1, <1>5 DEF BeginSwitch, workflowVars
<1>6. QED
  BY <1>2, <1>3, <1>4, <1>5, OpenWorkflowKeeps, SaveRequestKeeps, LockKeeps, DeleteKeepsOthers, PersistKeeps
  DEF WorkflowNext

LEMMA ReadableStep == ASSUME WorkflowInv, StaysReadable, [WorkflowNext]_workflowVars PROVE StaysReadable'
<1>1. CASE UNCHANGED <<files, edits>>
  BY <1>1 DEF StaysReadable
<1>2. ASSUME NEW fs, Rewrite(fs) PROVE StaysReadable'
  BY <1>2 DEF Rewrite, StaysReadable, WorkflowInv, WorkflowTypes
<1>3. ASSUME NEW p \in Path, EditFile(p) PROVE StaysReadable'
  BY <1>2, <1>3 DEF EditFile
<1>4. ASSUME NEW b \in Branch, Switch(b) PROVE StaysReadable'
  BY <1>1, <1>2, <1>4 DEF Switch
<1>5. ASSUME NEW c \in Peer, NEW i \in Id, OpenWorkflow(c, i) PROVE UNCHANGED <<files, edits>>
  BY <1>5 DEF OpenWorkflow
<1>6. ASSUME NEW c \in Peer, NEW i \in Id, NEW k, NEW x, SaveRequest(c, i, k, x) PROVE UNCHANGED <<files, edits>>
  BY <1>6 DEF SaveRequest
<1>7. ASSUME NEW c \in Peer, Lock(c) PROVE UNCHANGED <<files, edits>>
  BY <1>7 DEF Lock
<1>8. CASE StudioEnds \/ BeginSwitch \/ UNCHANGED workflowVars
  BY <1>1, <1>8 DEF StudioEnds, BeginSwitch, workflowVars
<1>9. QED
  BY <1>1, <1>3, <1>4, <1>5, <1>6, <1>7, <1>8, PersistKeeps, DeleteKeepsOthers DEF WorkflowNext

LEMMA InformedStep == ASSUME WorkflowInv, [WorkflowNext]_workflowVars PROVE WritesInformed
<1> SUFFICES ASSUME NEW c \in Peer, Writes(c), files' # files, save'[c] = Absent
             PROVE  /\ save[c].base = Absent => files[save[c].id] = Absent
                    /\ save[c].expects /\ save[c].id \notin crossed => opened[c] = Entry(files, save[c].id)
  BY DEF WritesInformed, Writes
<1>1. AsRead(save[c]) /\ (save[c].expects => opened[c] = save[c].base) /\ save[c] # Absent
  BY DEF WorkflowInv, Writing, Writes
<1>2. save[c].expects /\ save[c].id \notin crossed => opened[c] = Entry(files, save[c].id)
  BY <1>1 DEF AsRead
<1>3. ASSUME NEW d \in Peer, SaveEnds(d) PROVE d = c
  BY <1>1, <1>3 DEF SaveEnds, WorkflowInv, WorkflowTypes
<1>4. ASSUME NEW d \in Peer, NEW v \in {1, 3}, Persist(d, v)
      PROVE  save[c].base = Absent => files[save[c].id] = Absent
  BY <1>3, <1>4 DEF Persist, Creatable
<1>5. ASSUME NEW d \in Peer, Delete(d) PROVE save[c].base # Absent
  BY <1>1, <1>3, <1>5 DEF Delete, AsRead, Field
<1>6. ASSUME NEW fs, Rewrite(fs) PROVE FALSE
  BY <1>1, <1>6 DEF Rewrite
<1>7. ASSUME NEW p \in Path, EditFile(p) PROVE FALSE
  BY <1>6, <1>7 DEF EditFile
<1>8. ASSUME NEW b \in Branch, Switch(b) PROVE FALSE
  BY <1>6, <1>8 DEF Switch
<1>9. ASSUME NEW d \in Peer, NEW i \in Id, OpenWorkflow(d, i) PROVE FALSE
  BY <1>9 DEF OpenWorkflow
<1>10. ASSUME NEW d \in Peer, NEW i \in Id, NEW k, NEW x, SaveRequest(d, i, k, x) PROVE FALSE
  BY <1>10 DEF SaveRequest
<1>11. ASSUME NEW d \in Peer, Lock(d) PROVE FALSE
  BY <1>11 DEF Lock
<1>12. CASE StudioEnds \/ BeginSwitch \/ UNCHANGED workflowVars
  BY <1>12 DEF StudioEnds, BeginSwitch, workflowVars
<1>13. QED
  BY <1>2, <1>4, <1>5, <1>7, <1>8, <1>9, <1>10, <1>11, <1>12 DEF WorkflowNext

\* The branches as they were committed can be read.
ReadableBranches == \A b \in Branch : Readable(Committed[b])

\* An answered save or deletion stays until the next one or an edit, and saves of
\* different fields add up; a save replaces the version that its client was shown,
\* or nothing.  For any workflows, clients, editors, branches and requests, in
\* any order (workflows::update and write, project_git::update).
THEOREM SavesStayMerged == WorkflowSpec => [](FieldsMerge) /\ [][WritesInformed]_workflowVars
<1>1. WorkflowInv => FieldsMerge
  BY DEF WorkflowInv
<1>2. QED
  BY <1>1, WorkflowsStart, WorkflowsStep, InformedStep, PTL DEF WorkflowSpec

\* The same of the part of the run that explores it; there the branches can be
\* read, and then what only the studio writes stays readable for it.
THEOREM WorkflowsStayMerged == ASSUME ReadableBranches PROVE PartsSpec => WorkflowsMerge
<1> DEFINE Holds == part = "workflows" => WorkflowInv /\ StaysReadable
           Informed == part = "workflows" => WritesInformed
<1>1. PartsInit => Holds
  BY WorkflowsStart DEF PartsInit, WorkflowInit, StaysReadable, ReadableBranches
<1>2. Holds /\ [PartsNext]_partsVars => Holds' /\ [Informed]_workflowVars
  <2> SUFFICES ASSUME Holds, [PartsNext]_partsVars PROVE Holds' /\ [Informed]_workflowVars
    OBVIOUS
  <2>1. part' = part
    BY DEF PartsNext, partsVars
  <2>2. CASE part # "workflows"
    BY <2>1, <2>2
  <2>3. CASE part = "workflows"
    <3>1. [WorkflowNext]_workflowVars
      BY <2>3 DEF PartsNext, partsVars
    <3>2. WorkflowInv' /\ StaysReadable' /\ WritesInformed
      BY <2>3, <3>1, WorkflowsStep, ReadableStep, InformedStep
    <3>3. QED
      BY <3>2
  <2>4. QED
    BY <2>2, <2>3
<1>3. Holds => (part = "workflows" => SavesMerge)
  BY DEF SavesMerge, WorkflowInv
<1>4. QED
  BY <1>1, <1>2, <1>3, PTL DEF PartsSpec, WorkflowsMerge


-----------------------------------------------------------------------------
(* Packages: the invariant. *)

LEMMA LessIsLess == \A x, y \in Nat : x < y => <<x, y>> \in OpToRel(<, Nat)
  BY DEF OpToRel

LEMMA LeastOf ==
    ASSUME NEW R, NEW S, IsWellFoundedOn(R, S), \A x, y \in S : x < y => <<x, y>> \in R,
           NEW T, T \subseteq S, T # {}
    PROVE  \E x \in T : \A y \in T : ~(y < x)
<1>1. PICK x \in T : \A y \in T : ~ (<<y, x>> \in R)
  BY WFMin
<1>2. QED
  BY <1>1

LEMMA NewestIs == ASSUME NEW n \in Nat, NEW S \in SUBSET (1..n), S # {} PROVE Pack!Max(S) \in S
<1> DEFINE T == {n - x : x \in S}
<1>1. T \subseteq Nat /\ T # {}
  <2>1. \A x \in S : n - x \in Nat
    OBVIOUS
  <2>2. QED
    BY <2>1
<1>2. \E y \in T : \A z \in T : ~(z < y)
  <2> HIDE DEF T
  <2>1. QED
    BY <1>1, NatLessThanWellFounded, LessIsLess, LeastOf, Zenon
<1>3. PICK x \in S : \A z \in S : ~(n - z < n - x)
  BY <1>2
<1>4. \A z \in S : x >= z
  BY <1>3
<1>5. QED
  BY <1>3, <1>4 DEF Pack!Max

Releases == Pack!Releases
NoRelease == Pack!None
LockSet == [exists : BOOLEAN, modules : SUBSET Pack!Lockable,
            entry : [Pack!Registered -> Releases \cup {NoRelease}], commit : Nat]
CommandSet == [at : Pack!Phases, kind : {"none", "publish", "install", "update", "run", "add"},
               frozen : BOOLEAN, seen : SUBSET Pack!References, done : SUBSET Pack!Registered,
               reference : Pack!References, work : LockSet, entry : Releases \cup {NoRelease},
               build : 0..Builds, ran : Nat]

PackTypes ==
    /\ declared \subseteq Pack!References /\ lockfile \in LockSet /\ guard \in Shell \cup {Pack!Nobody}
    /\ store \in [1..Versions -> 0..Builds] /\ mirror \in 1..Builds /\ head \in Nat \ {0}
    /\ records \in [1..Versions -> Releases \cup {NoRelease}]
    /\ index \in [1..Versions -> Releases \cup {NoRelease}]
    /\ cache \in [1..Builds -> 0..Builds] /\ fetched \in 0..Builds
    /\ cmd \in [Shell -> CommandSet]

\* A release of a version names it, and has the checksum of what is stored.
Backed(e) == e.at = "store" => store[e.version] = e.digest
Told(list) == \A v \in 1..Versions : list[v] # NoRelease => list[v].version = v /\ Backed(list[v])

\* An entry answers a reference as the registry does and always will.
Answers(r, e) == e # NoRelease /\ index[e.version] = e /\ r[2] \in {0, e.version}
Pinning(entries) == \A r \in Pack!Registered : entries[r] # NoRelease => Answers(r, entries[r])

\* What a command that holds the guard makes of the lock file: it keeps the pins,
\* but for those of moving references in an update.
Follows(c) ==
    /\ c.work.commit = lockfile.commit
    /\ \A r \in Pack!Registered : lockfile.entry[r] # NoRelease =>
         \/ c.work.entry[r] = lockfile.entry[r]
         \/ c.at = "locked" /\ c.kind = "update" /\ r[2] = 0 /\ c.work.entry[r] # NoRelease

Publishes(c) ==
    /\ c.at \in {"upload", "record"} => c.entry \in Releases
    /\ c.at = "upload" => c.entry.at = "store" /\ c.build = c.entry.digest
    /\ c.at = "record" => Backed(c.entry)
Refers(c) ==
    /\ c.at \in {"git", "gitlocked"} /\ c.kind = "run" => c.reference = Pack!Git
    /\ c.at = "fetch" => c.reference = Pack!Url
    /\ c.at = "build" => c.reference = Pack!Local
    /\ c.at \in {"resolve", "resolved", "prepare"} => c.reference \in Pack!Registered
    /\ c.at \notin {"check", "persist"} => c.seen \subseteq Pack!Lockable
Guards(p, c) == c.at \in {"gitlocked", "locked", "resolved"} => guard = p /\ Follows(c)
Obtains(c) ==
    /\ c.at = "resolved" => c.work.entry[c.reference] # NoRelease \/ Pack!Resolvable(c.reference)
    /\ c.at = "prepare" => Answers(c.reference, c.entry)
    /\ c.at = "ran" /\ c.reference \in Pack!Registered =>
          Answers(c.reference, c.entry) /\ c.ran = c.entry.digest

Fits(p, c) ==
    /\ c.at = "idle" => c = Pack!Ready
    /\ Publishes(c) /\ Refers(c) /\ Guards(p, c) /\ Obtains(c) /\ Pinning(c.work.entry)

PackInv ==
    /\ PackTypes /\ Told(records) /\ Told(index) /\ Pinning(lockfile.entry)
    /\ \A p \in Shell, c \in CommandSet : cmd[p] = c => Fits(p, c)

-----------------------------------------------------------------------------
(* Packages: what a step leaves to the others. *)

LEMMA ReleasesAre ==
    /\ NoRelease \notin Releases
    /\ \A e \in Releases : e.version \in 1..Versions /\ e.digest \in 1..Builds /\ e.at \in {"store", "mirror"}
  BY DEF Releases, NoRelease, Pack!Releases, Pack!None

\* Nothing that is indexed is replaced and nothing stored is.
Grows ==
    /\ \A v \in 1..Versions : index[v] # NoRelease => index'[v] = index[v]
    /\ \A v \in 1..Versions : store[v] # 0 => store'[v] = store[v]

LEMMA AnswersStay ==
    ASSUME PackTypes, Grows, NEW r \in Pack!Registered, NEW e \in Releases \cup {NoRelease}, Answers(r, e)
    PROVE  Answers(r, e)'
<1>1. e \in Releases /\ e.version \in 1..Versions
  BY ReleasesAre DEF Answers
<1>2. index'[e.version] = e
  BY <1>1 DEF Grows, Answers
<1>3. QED
  BY <1>2 DEF Answers

LEMMA PinsStay ==
    ASSUME PackTypes, Grows, NEW entries \in [Pack!Registered -> Releases \cup {NoRelease}], Pinning(entries)
    PROVE  Pinning(entries)'
<1> SUFFICES ASSUME NEW r \in Pack!Registered, entries[r] # NoRelease PROVE Answers(r, entries[r])'
  BY DEF Pinning
<1>1. Answers(r, entries[r]) /\ entries[r] \in Releases \cup {NoRelease}
  BY DEF Pinning
<1>2. QED
  BY <1>1, AnswersStay

LEMMA BackedStays ==
    ASSUME PackTypes, Grows, NEW e \in Releases, Backed(e)
    PROVE  Backed(e)'
<1>1. e.version \in 1..Versions /\ e.digest \in 1..Builds
  BY ReleasesAre
<1>2. ASSUME e.at = "store" PROVE store'[e.version] = e.digest
  <2>1. store[e.version] = e.digest /\ store[e.version] # 0
    BY <1>1, <1>2 DEF Backed
  <2>2. QED
    BY <1>1, <2>1 DEF Grows
<1>3. QED
  BY <1>2 DEF Backed

LEMMA ResolvableStays ==
    ASSUME PackTypes, Grows, NEW r \in Pack!Registered, Pack!Resolvable(r)
    PROVE  Pack!Resolvable(r)'
<1>1. \A v \in 1..Versions : index[v] # NoRelease => index'[v] # NoRelease
  BY DEF Grows
<1>2. Pack!Published \subseteq Pack!Published'
  BY <1>1 DEF Pack!Published, NoRelease
<1>3. QED
  BY <1>2 DEF Pack!Resolvable

\* What is at hand of a command remains so, if it keeps the guard and the lock
\* file while it has the guard.
LEMMA FitsStays ==
    ASSUME PackTypes, Grows, NEW p \in Shell, NEW c \in CommandSet, Fits(p, c),
           guard = p => guard' = p /\ lockfile' = lockfile
    PROVE  Fits(p, c)'
<1>1. /\ c.entry \in Releases \cup {NoRelease} /\ c.work.entry \in [Pack!Registered -> Releases \cup {NoRelease}]
      /\ c.reference \in Pack!References
  BY DEF CommandSet, LockSet
<1>2. Publishes(c)'
  BY <1>1, BackedStays DEF Fits, Publishes
<1>3. Refers(c)' /\ (c.at = "idle" => c = Pack!Ready)
  BY DEF Fits, Refers
<1>4. Guards(p, c)'
  BY DEF Fits, Guards, Follows
<1>5. Obtains(c)'
  <2>1. Obtains(c) /\ Refers(c)
    BY DEF Fits
  <2>2. c.at = "resolved" => c.work.entry[c.reference] # NoRelease \/ Pack!Resolvable(c.reference)'
    BY <2>1, ResolvableStays DEF Obtains, Refers
  <2>3. c.at = "prepare" => Answers(c.reference, c.entry)'
    BY <1>1, <2>1, AnswersStay DEF Obtains, Refers
  <2>4. c.at = "ran" /\ c.reference \in Pack!Registered =>
          Answers(c.reference, c.entry)' /\ c.ran = c.entry.digest
    BY <1>1, <2>1, AnswersStay DEF Obtains
  <2>5. QED
    BY <2>2, <2>3, <2>4 DEF Obtains
<1>6. Pinning(c.work.entry)'
  <2>1. Pinning(c.work.entry)
    BY DEF Fits
  <2>2. QED
    BY <1>1, <2>1, PinsStay
<1>7. QED
  BY <1>2, <1>3, <1>4, <1>5, <1>6 DEF Fits

\* A step of one command, or of none.
LEMMA CommandKeeps ==
    ASSUME PackInv, NEW p \in Shell, NEW c \in CommandSet, cmd' = [cmd EXCEPT ![p] = c],
           PackTypes', Grows, Told(records)', Told(index)', Pinning(lockfile.entry)',
           \A q \in Shell \ {p} : guard = q => guard' = q /\ lockfile' = lockfile,
           Fits(p, c)'
    PROVE  PackInv'
<1>1. ASSUME NEW q \in Shell, NEW d \in CommandSet, cmd'[q] = d PROVE Fits(q, d)'
  <2>1. CASE q = p
    <3>1. d = c
      BY <1>1, <2>1 DEF PackInv, PackTypes
    <3>2. QED
      BY <2>1, <3>1
  <2>2. CASE q # p
    <3>1. cmd[q] = d
      BY <1>1, <2>2 DEF PackInv, PackTypes
    <3>2. Fits(q, d)
      BY <3>1 DEF PackInv
    <3>3. QED
      BY <2>2, <3>2, FitsStays DEF PackInv
  <2>3. QED
    BY <2>1, <2>2
<1>2. QED
  BY <1>1 DEF PackInv


LEMMA StoreStays ==
    ASSUME PackInv, UNCHANGED <<store, records, index>>
    PROVE  Grows /\ Told(records)' /\ Told(index)'
  BY DEF PackInv, Grows, Told, Backed

LEMMA ReadyFits ==
    /\ Pack!Ready \in CommandSet /\ Pack!EmptyLock \in LockSet
    /\ \A r \in Pack!Registered : Pack!EmptyLock.entry[r] = NoRelease
    /\ Pack!Ready.work = Pack!EmptyLock /\ Pack!Ready.at = "idle" /\ Pack!Ready.reference = Pack!Local
    /\ Pack!Ready.seen = {}
<1>1. Pack!EmptyLock \in LockSet /\ \A r \in Pack!Registered : Pack!EmptyLock.entry[r] = NoRelease
  BY DEF Pack!EmptyLock, LockSet, NoRelease
<1>2. Pack!Local \in Pack!References /\ "idle" \in Pack!Phases /\ 0 \in 0..Builds
  BY PackagesAssumption DEF Pack!References, Pack!Phases
<1>3. QED
  BY <1>1, <1>2 DEF Pack!Ready, CommandSet, NoRelease

LEMMA ReadyIsFit == ASSUME NEW p \in Shell PROVE Fits(p, Pack!Ready) /\ Fits(p, Pack!Ready)'
<1> DEFINE c == Pack!Ready
<1>1. c.at = "idle" /\ c.seen = {} /\ \A r \in Pack!Registered : c.work.entry[r] = NoRelease
  BY ReadyFits
<1>2. c.reference \notin Pack!Registered
  BY ReadyFits DEF Pack!Local, Pack!Registered
<1> HIDE DEF c
<1>3. c.at = "idle" => c = Pack!Ready
  BY DEF c
<1>4. Pinning(c.work.entry) /\ Pinning(c.work.entry)'
  BY <1>1 DEF Pinning
<1>5. Publishes(c) /\ Refers(c) /\ Guards(p, c) /\ Obtains(c)
  BY <1>1 DEF Publishes, Refers, Guards, Obtains
<1>6. Publishes(c)' /\ Refers(c)' /\ Guards(p, c)' /\ Obtains(c)'
  BY <1>1 DEF Publishes, Refers, Guards, Obtains
<1>7. QED
  BY <1>3, <1>4, <1>5, <1>6 DEF Fits, c

\* A command goes on and touches neither the guard nor the lock file.
LEMMA GoesOn ==
    ASSUME PackInv, NEW p \in Shell, NEW c \in CommandSet, cmd' = [cmd EXCEPT ![p] = c], Fits(p, c),
           UNCHANGED <<lockfile, guard, store, records, index, mirror, head>>,
           declared' \subseteq Pack!References, cache' \in [1..Builds -> 0..Builds], fetched' \in 0..Builds
    PROVE  PackInv'
<1>1. PackTypes'
  BY DEF PackInv, PackTypes
<1>2. Grows /\ Told(records)' /\ Told(index)'
  BY StoreStays
<1>3. Pinning(lockfile.entry)'
  BY DEF PackInv, Pinning, Answers
<1>4. Fits(p, c)'
  BY <1>2, FitsStays DEF PackInv
<1>5. QED
  BY <1>1, <1>2, <1>3, <1>4, CommandKeeps

\* A command ends and leaves the guard.
LEMMA Ends ==
    ASSUME PackInv, NEW p \in Shell, Pack!End(p), UNCHANGED <<store, index, mirror, head>>,
           records' \in [1..Versions -> Releases \cup {NoRelease}], Told(records)',
           declared' \subseteq Pack!References, cache' \in [1..Builds -> 0..Builds], fetched' \in 0..Builds,
           lockfile' \in LockSet, Pinning(lockfile'.entry), lockfile' = lockfile \/ guard = p
    PROVE  PackInv'
<1>1. cmd' = [cmd EXCEPT ![p] = Pack!Ready] /\ guard' = IF guard = p THEN Pack!Nobody ELSE guard
  BY DEF Pack!End, Pack!Finish, Pack!Drop
<1>2. PackTypes'
  BY <1>1, ReadyFits DEF PackInv, PackTypes
<1>3. Grows /\ Told(index)'
  BY DEF PackInv, Grows, Told, Backed
<1>4. Pinning(lockfile.entry)'
  BY DEF Pinning, Answers
<1>5. \A q \in Shell \ {p} : guard = q => guard' = q /\ lockfile' = lockfile
  BY <1>1
<1>6. QED
  BY <1>1, <1>2, <1>3, <1>4, <1>5, ReadyFits, ReadyIsFit, CommandKeeps

\* A command ends that has no guard.
LEMMA Finishes ==
    ASSUME PackInv, NEW p \in Shell, Pack!Finish(p),
           UNCHANGED <<declared, lockfile, guard, store, records, index, mirror, head, cache, fetched>>
    PROVE  PackInv'
<1>1. cmd' = [cmd EXCEPT ![p] = Pack!Ready]
  BY DEF Pack!Finish
<1>2. QED
  BY <1>1, ReadyFits, ReadyIsFit, GoesOn DEF PackInv, PackTypes

LEMMA CommandIs == ASSUME PackInv, NEW p \in Shell PROVE cmd[p] \in CommandSet /\ Fits(p, cmd[p])
  BY DEF PackInv, PackTypes

-----------------------------------------------------------------------------
(* Packages: publishing. *)

LEMMA PublishKeeps == ASSUME PackInv, NEW p \in Shell, Pack!Publish(p) PROVE PackInv'
<1>1. /\ cmd[p].at = "idle"
      /\ UNCHANGED <<declared, lockfile, guard, store, records, index, mirror, head, cache, fetched>>
  BY DEF Pack!Publish, Pack!Begin, Pack!workspaceVars, Pack!outside, Pack!caches
<1>2. PICK s \in CommandSet : s = cmd[p] /\ Fits(p, s) /\ s = Pack!Ready
  BY <1>1, CommandIs DEF Fits
<1>3. PICK v \in 1..Versions :
         \/ \E b \in 1..Builds : cmd' = [cmd EXCEPT ![p].at = "upload", ![p].kind = "publish",
                 ![p].build = b, ![p].entry = [version |-> v, digest |-> b, at |-> "store"]]
         \/ cmd' = [cmd EXCEPT ![p].at = "record", ![p].kind = "publish",
                 ![p].entry = [version |-> v, digest |-> mirror, at |-> "mirror"]]
  BY DEF Pack!Publish, Pack!Named
<1>4. Pinning(s.work.entry) /\ s.reference \notin Pack!Registered /\ s.seen = {} /\ "upload" \in Pack!Phases /\ "record" \in Pack!Phases
  BY <1>2, ReadyFits DEF Fits, Pack!Local, Pack!Registered, Pack!Phases
<1>5. ASSUME NEW b \in 1..Builds,
             cmd' = [cmd EXCEPT ![p].at = "upload", ![p].kind = "publish",
                 ![p].build = b, ![p].entry = [version |-> v, digest |-> b, at |-> "store"]]
      PROVE  PackInv'
  <2>1. PICK e \in Releases : e = [version |-> v, digest |-> b, at |-> "store"]
    BY DEF Releases, Pack!Releases
  <2>2. PICK c : c = [s EXCEPT !.at = "upload", !.kind = "publish", !.build = b, !.entry = e]
    OBVIOUS
  <2>3. cmd' = [cmd EXCEPT ![p] = c]
    BY <1>2, <1>5, <2>1, <2>2 DEF PackInv, PackTypes
  <2>4. /\ c \in CommandSet /\ c.at = "upload" /\ c.kind = "publish" /\ c.build = b /\ c.entry = e
        /\ c.work = s.work /\ c.reference = s.reference /\ c.seen = s.seen
    <3>1. b \in 0..Builds
      OBVIOUS
    <3>2. QED
      BY <1>4, <2>2, <3>1 DEF CommandSet
  <2>5. Fits(p, c)
    BY <1>4, <2>1, <2>4 DEF Fits, Publishes, Refers, Guards, Obtains
  <2>6. QED
    BY <1>1, <2>3, <2>4, <2>5, GoesOn DEF PackInv, PackTypes
<1>6. ASSUME cmd' = [cmd EXCEPT ![p].at = "record", ![p].kind = "publish",
                 ![p].entry = [version |-> v, digest |-> mirror, at |-> "mirror"]]
      PROVE  PackInv'
  <2>1. PICK e \in Releases : e = [version |-> v, digest |-> mirror, at |-> "mirror"]
    BY DEF Releases, Pack!Releases, PackInv, PackTypes
  <2>2. PICK c : c = [s EXCEPT !.at = "record", !.kind = "publish", !.entry = e]
    OBVIOUS
  <2>3. cmd' = [cmd EXCEPT ![p] = c]
    BY <1>2, <1>6, <2>1, <2>2 DEF PackInv, PackTypes
  <2>4. /\ c \in CommandSet /\ c.at = "record" /\ c.kind = "publish" /\ c.entry = e
        /\ c.work = s.work /\ c.reference = s.reference /\ c.seen = s.seen
    BY <1>4, <2>2 DEF CommandSet
  <2>5. Fits(p, c)
    BY <1>4, <2>1, <2>4 DEF Fits, Publishes, Refers, Guards, Obtains, Backed
  <2>6. QED
    BY <1>1, <2>3, <2>4, <2>5, GoesOn DEF PackInv, PackTypes
<1>7. QED
  BY <1>3, <1>5, <1>6

LEMMA UploadKeeps == ASSUME PackInv, NEW p \in Shell, Pack!Upload(p) PROVE PackInv'
<1>1. /\ cmd[p].at = "upload"
      /\ UNCHANGED <<declared, lockfile, guard, records, index, mirror, head, cache, fetched>>
  BY DEF Pack!Upload, Pack!workspaceVars, Pack!caches
<1>2. PICK s \in CommandSet : s = cmd[p] /\ Fits(p, s) /\ s.at = "upload"
  BY <1>1, CommandIs
<1>3. PICK e \in Releases : e = s.entry /\ e.at = "store" /\ s.build = e.digest
  BY <1>2 DEF Fits, Publishes
<1>4. CASE Pack!Taken(e.version)
  BY <1>1, <1>2, <1>3, <1>4, Finishes DEF Pack!Upload
<1>5. CASE ~Pack!Taken(e.version)
  <2>1. /\ store[e.version] = 0 /\ store' = [store EXCEPT ![e.version] = e.digest]
        /\ cmd' = [cmd EXCEPT ![p].at = "record"]
    BY <1>2, <1>3, <1>5 DEF Pack!Upload, Pack!Taken, Pack!Goto
  <2>2. e.version \in 1..Versions /\ e.digest \in 1..Builds
    BY ReleasesAre
  <2>3. PICK c : c = [s EXCEPT !.at = "record"]
    OBVIOUS
  <2>4. cmd' = [cmd EXCEPT ![p] = c]
    BY <1>2, <2>1, <2>3 DEF PackInv, PackTypes
  <2>5. c \in CommandSet /\ c.at = "record" /\ c.entry = e /\ c.work = s.work /\ c.reference = s.reference /\ c.seen = s.seen
    BY <1>3, <2>3 DEF CommandSet, Pack!Phases
  <2>6. PackTypes'
    BY <1>1, <2>1, <2>2, <2>4, <2>5 DEF PackInv, PackTypes
  <2>7. Grows
    BY <1>1, <2>1, <2>2 DEF Grows, PackInv, PackTypes
  <2>8. ASSUME NEW list \in [1..Versions -> Releases \cup {NoRelease}], Told(list) PROVE Told(list)'
    <3> SUFFICES ASSUME NEW v \in 1..Versions, list[v] # NoRelease
                 PROVE  list[v].version = v /\ Backed(list[v])'
      BY DEF Told
    <3>1. list[v] \in Releases /\ list[v].version = v /\ Backed(list[v])
      BY <2>8 DEF Told
    <3>2. QED
      BY <2>7, <3>1, BackedStays DEF PackInv
  <2>9. Told(records)' /\ Told(index)'
    <3>1. PICK a, b \in [1..Versions -> Releases \cup {NoRelease}] : a = records /\ b = index
      BY DEF PackInv, PackTypes
    <3>2. Told(a)' /\ Told(b)'
      BY <2>8, <3>1 DEF PackInv
    <3>3. QED
      BY <1>1, <3>1, <3>2 DEF Told
  <2>10. Fits(p, c)'
    <3>1. Backed(e)'
      BY <1>3, <2>1, <2>2 DEF Backed, PackInv, PackTypes
    <3>2. Pinning(c.work.entry)'
      BY <1>1, <1>2, <2>5 DEF Fits, Pinning, Answers
    <3>3. c.seen \subseteq Pack!Lockable
      BY <1>2, <2>5 DEF Fits, Refers
    <3>4. QED
      BY <2>5, <3>1, <3>2, <3>3 DEF Fits, Publishes, Refers, Guards, Obtains
  <2>11. Pinning(lockfile.entry)'
    BY <1>1 DEF PackInv, Pinning, Answers
  <2>12. QED
    BY <1>1, <2>4, <2>5, <2>6, <2>7, <2>9, <2>10, <2>11, CommandKeeps
<1>6. QED
  BY <1>4, <1>5

LEMMA CreateRecordKeeps == ASSUME PackInv, NEW p \in Shell, Pack!CreateRecord(p) PROVE PackInv'
<1>1. /\ cmd[p].at = "record" /\ Pack!End(p)
      /\ UNCHANGED <<declared, lockfile, store, index, mirror, head, cache, fetched>>
  BY DEF Pack!CreateRecord, Pack!caches
<1>2. PICK s \in CommandSet : s = cmd[p] /\ Fits(p, s) /\ s.at = "record"
  BY <1>1, CommandIs
<1>3. PICK e \in Releases : e = s.entry /\ Backed(e)
  BY <1>2 DEF Fits, Publishes
<1>4. records' = IF records[e.version] = NoRelease THEN [records EXCEPT ![e.version] = e] ELSE records
  BY <1>2, <1>3 DEF Pack!CreateRecord, NoRelease
<1>5. records' \in [1..Versions -> Releases \cup {NoRelease}] /\ Told(records)'
  BY <1>1, <1>3, <1>4, ReleasesAre DEF PackInv, PackTypes, Told, Backed
<1>6. QED
  BY <1>1, <1>5, Ends DEF PackInv, PackTypes


-----------------------------------------------------------------------------
(* Packages: the world. *)

LEMMA WorldKeeps ==
    ASSUME PackInv, UNCHANGED <<lockfile, guard, cmd, store>>, PackTypes', Grows, Told(records)', Told(index)'
    PROVE  PackInv'
<1>1. Pinning(lockfile.entry)'
  <2>1. PICK entries \in [Pack!Registered -> Releases \cup {NoRelease}] : entries = lockfile.entry
    BY DEF PackInv, PackTypes, LockSet
  <2>2. Pinning(entries)'
    BY <2>1, PinsStay DEF PackInv
  <2>3. QED
    BY <2>1, <2>2 DEF Pinning
<1>2. ASSUME NEW p \in Shell, NEW c \in CommandSet, cmd'[p] = c PROVE Fits(p, c)'
  <2>1. cmd[p] = c /\ Fits(p, c)
    BY <1>2 DEF PackInv
  <2>2. QED
    BY <2>1, FitsStays DEF PackInv
<1>3. QED
  BY <1>1, <1>2 DEF PackInv

LEMMA IndexKeeps == ASSUME PackInv, NEW v \in 1..Versions, Pack!Index(v) PROVE PackInv'
<1>1. /\ records[v] # NoRelease /\ index[v] = NoRelease /\ index' = [index EXCEPT ![v] = records[v]]
      /\ UNCHANGED <<declared, lockfile, guard, store, records, mirror, head, cache, fetched, cmd>>
  BY DEF Pack!Index, Pack!workspaceVars, Pack!caches, NoRelease
<1>2. PackTypes'
  BY <1>1 DEF PackInv, PackTypes
<1>3. Grows
  BY <1>1 DEF Grows, PackInv, PackTypes
<1>4. Told(records)' /\ Told(index)'
  BY <1>1 DEF PackInv, PackTypes, Told, Backed
<1>5. QED
  BY <1>1, <1>2, <1>3, <1>4, WorldKeeps

LEMMA DeleteRecordKeeps == ASSUME PackInv, NEW v \in 1..Versions, Pack!DeleteRecord(v) PROVE PackInv'
<1>1. /\ records' = [records EXCEPT ![v] = NoRelease]
      /\ UNCHANGED <<declared, lockfile, guard, store, index, mirror, head, cache, fetched, cmd>>
  BY DEF Pack!DeleteRecord, Pack!workspaceVars, Pack!caches, NoRelease
<1>2. PackTypes'
  BY <1>1 DEF PackInv, PackTypes
<1>3. Grows
  BY <1>1 DEF Grows
<1>4. Told(records)' /\ Told(index)'
  BY <1>1 DEF PackInv, PackTypes, Told, Backed
<1>5. QED
  BY <1>1, <1>2, <1>3, <1>4, WorldKeeps

LEMMA OutsideKeeps ==
    ASSUME PackInv, Pack!Edit \/ Pack!Serve \/ Pack!Push \/ Pack!Damage \/ UNCHANGED packs PROVE PackInv'
<1>1. UNCHANGED <<lockfile, guard, cmd, store, records, index>>
  BY DEF Pack!Edit, Pack!Serve, Pack!Push, Pack!Damage, Pack!workspaceVars, Pack!outside, Pack!caches, packs
<1>2. PackTypes'
  <2>1. CASE Pack!Edit
    <3>1. UNCHANGED <<mirror, head, cache, fetched>> /\ declared' \subseteq Pack!References
      <4>1. {<<"package", 0>>, <<"package", 1>>, Pack!Git} \subseteq Pack!References
        BY PackagesAssumption DEF Pack!References, Pack!Registered
      <4>2. PICK r \in Pack!References : declared' = IF r \in declared THEN declared \ {r} ELSE declared \cup {r}
        BY <2>1, <4>1 DEF Pack!Edit
      <4>3. declared' \subseteq Pack!References
        BY <4>2 DEF PackInv, PackTypes
      <4>4. QED
        BY <2>1, <4>3 DEF Pack!Edit, Pack!outside, Pack!caches
    <3>2. QED
      BY <1>1, <3>1 DEF PackInv, PackTypes
  <2>2. CASE Pack!Serve
    BY <1>1, <2>2 DEF Pack!Serve, Pack!workspaceVars, Pack!caches, PackInv, PackTypes
  <2>3. CASE Pack!Push
    BY <1>1, <2>3 DEF Pack!Push, Pack!workspaceVars, Pack!caches, PackInv, PackTypes
  <2>4. CASE Pack!Damage
    BY <1>1, <2>4 DEF Pack!Damage, Pack!workspaceVars, Pack!outside, PackInv, PackTypes
  <2>5. CASE UNCHANGED packs
    BY <2>5 DEF packs, PackInv, PackTypes
  <2>6. QED
    BY <2>1, <2>2, <2>3, <2>4, <2>5
<1>3. QED
  BY <1>1, <1>2, StoreStays, WorldKeeps


-----------------------------------------------------------------------------
(* Packages: the guard. *)

\* A command takes the guard, or finds that it must not go on.
LEMMA EnterKeeps ==
    ASSUME PackInv, NEW p \in Shell, NEW refused, NEW phase, NEW work \in LockSet,
           phase \in {"gitlocked", "locked", "resolved"}, Pack!Enter(p, refused, phase, work),
           UNCHANGED <<declared, lockfile, store, records, index, mirror, head, cache, fetched>>,
           cmd[p].at \in {"git", "wait", "resolve"},
           \A r \in Pack!Registered : work.entry[r] = lockfile.entry[r], work.commit = lockfile.commit,
           phase = "gitlocked" => cmd[p].at = "git",
           phase = "resolved" /\ ~refused => /\ cmd[p].reference \in Pack!Registered
                                             /\ work.entry[cmd[p].reference] # NoRelease \/ Pack!Resolvable(cmd[p].reference)
    PROVE  PackInv'
<1>1. PICK s \in CommandSet : s = cmd[p] /\ Fits(p, s)
  BY CommandIs
<1>2. CASE refused
  BY <1>2, Finishes DEF Pack!Enter
<1>3. CASE ~refused
  <2>1. guard = Pack!Nobody /\ guard' = p /\ cmd' = [cmd EXCEPT ![p].at = phase, ![p].work = work]
    BY <1>3 DEF Pack!Enter, Pack!Unguarded
  <2>2. PICK c : c = [s EXCEPT !.at = phase, !.work = work]
    OBVIOUS
  <2>3. cmd' = [cmd EXCEPT ![p] = c]
    BY <1>1, <2>1, <2>2 DEF PackInv, PackTypes
  <2>4. /\ c \in CommandSet /\ c.at = phase /\ c.work = work /\ c.reference = s.reference
        /\ c.kind = s.kind /\ c.entry = s.entry /\ c.seen = s.seen
    <3>1. phase \in Pack!Phases
      BY DEF Pack!Phases
    <3>2. QED
      BY <2>2, <3>1 DEF CommandSet
  <2>5. PackTypes'
    <3>1. cmd \in [Shell -> CommandSet]
      BY DEF PackInv, PackTypes
    <3>2. cmd' \in [Shell -> CommandSet] /\ guard' \in Shell \cup {Pack!Nobody}
      BY <2>1, <2>3, <2>4, <3>1
    <3>3. QED
      BY <3>2 DEF PackInv, PackTypes
  <2>6. Grows /\ Told(records)' /\ Told(index)'
    BY StoreStays
  <2>7. Pinning(lockfile.entry)'
    BY DEF PackInv, Pinning, Answers
  <2>8. Fits(p, c)'
    <3>1. Pinning(c.work.entry)'
      BY <2>4 DEF PackInv, Pinning, Answers
    <3>2. Guards(p, c)'
      BY <2>1, <2>4 DEF Guards, Follows
    <3>3. Refers(c)'
      BY <1>1, <1>3, <2>4 DEF Fits, Refers
    <3>4. Obtains(c)'
      BY <1>1, <1>3, <2>4 DEF Obtains, Pack!Resolvable, Pack!Published
    <3>5. Publishes(c)'
      BY <2>4 DEF Publishes
    <3>6. QED
      BY <2>4, <3>1, <3>2, <3>3, <3>4, <3>5 DEF Fits
  <2>9. \A q \in Shell \ {p} : guard = q => guard' = q /\ lockfile' = lockfile
    BY <2>1, PackagesAssumption
  <2>10. QED
    BY <2>3, <2>4, <2>5, <2>6, <2>7, <2>8, <2>9, CommandKeeps
<1>4. QED
  BY <1>2, <1>3

\* A command gives the guard back with a lock file that keeps the pins.
LEMMA LeavesKeeps ==
    ASSUME PackInv, NEW p \in Shell, guard = p, guard' = Pack!Nobody,
           NEW c \in CommandSet, cmd' = [cmd EXCEPT ![p] = c],
           UNCHANGED <<declared, store, records, index, mirror, head, cache, fetched>>,
           lockfile' \in LockSet, Pinning(lockfile'.entry),
           c.at \notin {"gitlocked", "locked", "resolved"}, Fits(p, c)
    PROVE  PackInv'
<1>1. PackTypes'
  BY DEF PackInv, PackTypes
<1>2. Grows /\ Told(records)' /\ Told(index)'
  BY StoreStays
<1>3. Pinning(lockfile.entry)'
  BY DEF Pinning, Answers
<1>4. Fits(p, c)'
  BY DEF Fits, Publishes, Refers, Guards, Obtains, Pinning, Answers, Backed, Pack!Resolvable, Pack!Published
<1>5. QED
  BY <1>1, <1>2, <1>3, <1>4, CommandKeeps

LEMMA DeclarationsAre == ASSUME PackInv PROVE Pack!Declarations \in SUBSET Pack!Lockable
  BY DEF Pack!Declarations

\* The lock file as it is written: the entries and the commit stay.
LEMMA WrittenIs ==
    ASSUME NEW work \in LockSet, NEW D \in SUBSET Pack!Lockable
    PROVE  /\ Pack!Written(work, D) \in LockSet /\ Pack!Written(work, D).entry = work.entry
           /\ Pack!Written(work, D).commit = work.commit
  BY DEF Pack!Written, LockSet

LEMMA LocksKeep == ASSUME PackInv, NEW p \in Shell, Pack!LockGit(p) \/ Pack!LockPackages(p) PROVE PackInv'
<1>1. UNCHANGED <<declared, lockfile, store, records, index, mirror, head, cache, fetched>>
  BY DEF Pack!LockGit, Pack!LockPackages, Pack!outside, Pack!caches
<1>2. lockfile \in LockSet
  BY DEF PackInv, PackTypes
<1>3. CASE Pack!LockGit(p)
  <2>1. PICK work \in LockSet : work = Pack!Written(lockfile, Pack!Declarations)
                                /\ work.entry = lockfile.entry /\ work.commit = lockfile.commit
    BY <1>2, DeclarationsAre, WrittenIs
  <2>2. PICK refused : /\ refused = (Pack!OutOfDate(p, Pack!Declarations) \/ (cmd[p].frozen /\ lockfile.commit = 0))
                       /\ cmd[p].at = "git" /\ Pack!Enter(p, refused, "gitlocked", work)
    BY <1>3, <2>1 DEF Pack!LockGit
  <2>3. QED
    BY <1>1, <2>1, <2>2, EnterKeeps
<1>4. CASE Pack!LockPackages(p)
  <2>1. PICK refused : /\ refused = Pack!OutOfDate(p, cmd[p].seen)
                       /\ cmd[p].at = "wait" /\ Pack!Enter(p, refused, "locked", lockfile)
    BY <1>4 DEF Pack!LockPackages
  <2>2. QED
    BY <1>1, <1>2, <2>1, EnterKeeps
<1>5. QED
  BY <1>3, <1>4

LEMMA ResolveKeeps == ASSUME PackInv, NEW p \in Shell, Pack!Resolve(p) PROVE PackInv'
<1>1. /\ cmd[p].at = "resolve"
      /\ UNCHANGED <<declared, lockfile, store, records, index, mirror, head, cache, fetched>>
  BY DEF Pack!Resolve, Pack!outside, Pack!caches
<1>2. lockfile \in LockSet /\ cmd[p].reference \in Pack!Registered
  BY <1>1, CommandIs DEF PackInv, PackTypes, Fits, Refers
<1>3. PICK work \in LockSet : work = Pack!Written(lockfile, Pack!Declarations)
                              /\ work.entry = lockfile.entry /\ work.commit = lockfile.commit
  BY <1>2, DeclarationsAre, WrittenIs
<1>4. PICK refused : /\ refused = \/ Pack!OutOfDate(p, Pack!Declarations)
                                  \/ lockfile.entry[cmd[p].reference] = NoRelease
                                       /\ (cmd[p].frozen \/ ~Pack!Resolvable(cmd[p].reference))
                     /\ Pack!Enter(p, refused, "resolved", work)
  BY <1>3 DEF Pack!Resolve, NoRelease
<1>5. ~refused => work.entry[cmd[p].reference] # NoRelease \/ Pack!Resolvable(cmd[p].reference)
  BY <1>3, <1>4
<1>6. QED
  BY <1>1, <1>2, <1>3, <1>4, <1>5, EnterKeeps


\* What the registry answers.
LEMMA ResolvedAnswers ==
    ASSUME PackInv, NEW r \in Pack!Registered, Pack!Resolvable(r)
    PROVE  Pack!Resolved(r) \in Releases /\ Answers(r, Pack!Resolved(r))
<1>1. r[2] \in 0..Versions /\ Versions \in Nat
  BY PackagesAssumption DEF Pack!Registered
<1>2. Pack!Published \in SUBSET (1..Versions) /\ \A v \in Pack!Published : index[v] # NoRelease
  BY DEF Pack!Published, NoRelease
<1>3. PICK v : v = IF r[2] = 0 THEN Pack!Max(Pack!Published) ELSE r[2]
  OBVIOUS
<1>4. v \in Pack!Published
  <2>1. CASE r[2] = 0
    BY <1>1, <1>2, <1>3, <2>1, NewestIs DEF Pack!Resolvable
  <2>2. CASE r[2] # 0
    BY <1>3, <2>2 DEF Pack!Resolvable
  <2>3. QED
    BY <2>1, <2>2
<1>5. Pack!Resolved(r) = index[v]
  BY <1>3 DEF Pack!Resolved
<1>6. index[v] \in Releases /\ index[v].version = v
  BY <1>2, <1>4 DEF PackInv, PackTypes, Told
<1>7. r[2] \in {0, v}
  BY <1>3
<1>8. QED
  BY <1>2, <1>4, <1>5, <1>6, <1>7 DEF Answers

-----------------------------------------------------------------------------
(* Packages: installing. *)

LEMMA InstallKeeps ==
    ASSUME PackInv, NEW p \in Shell, NEW kind \in {"install", "update"}, NEW frozen \in BOOLEAN,
           Pack!Install(p, kind, frozen)
    PROVE  PackInv'
<1>1. /\ cmd[p].at = "idle"
      /\ cmd' = [cmd EXCEPT ![p].at = IF Pack!Git \in declared THEN "git" ELSE "wait",
                            ![p].kind = kind, ![p].frozen = frozen, ![p].seen = Pack!Declarations]
      /\ UNCHANGED <<declared, lockfile, guard, store, records, index, mirror, head, cache, fetched>>
  BY DEF Pack!Install, Pack!Begin, Pack!workspaceVars, Pack!outside, Pack!caches
<1>2. PICK s \in CommandSet : s = cmd[p] /\ Fits(p, s) /\ s = Pack!Ready
  BY <1>1, CommandIs DEF Fits
<1>3. Pinning(s.work.entry) /\ s.reference \notin Pack!Registered
  BY <1>2, ReadyFits DEF Fits, Pack!Local, Pack!Registered
<1>4. PICK phase \in {"git", "wait"} : phase = IF Pack!Git \in declared THEN "git" ELSE "wait"
  OBVIOUS
<1>5. PICK D \in SUBSET Pack!References : D = Pack!Declarations /\ D \subseteq Pack!Lockable
  BY DEF Pack!Declarations, Pack!Lockable, Pack!References
<1>6. PICK c : c = [s EXCEPT !.at = phase, !.kind = kind, !.frozen = frozen, !.seen = D]
  OBVIOUS
<1>7. cmd' = [cmd EXCEPT ![p] = c]
  BY <1>1, <1>2, <1>4, <1>5, <1>6 DEF PackInv, PackTypes
<1>8. /\ c \in CommandSet /\ c.at = phase /\ c.kind = kind /\ c.work = s.work
      /\ c.reference = s.reference /\ c.seen = D
  <2>1. phase \in Pack!Phases
    BY DEF Pack!Phases
  <2>2. QED
    BY <1>6, <2>1 DEF CommandSet
<1>9. Fits(p, c)
  BY <1>3, <1>5, <1>8 DEF Fits, Publishes, Refers, Guards, Obtains
<1>10. QED
  BY <1>1, <1>7, <1>8, <1>9, GoesOn DEF PackInv, PackTypes

LEMMA LockAt ==
    ASSUME NEW work \in LockSet, NEW commit \in Nat
    PROVE  [work EXCEPT !.commit = commit] \in LockSet /\ [work EXCEPT !.commit = commit].entry = work.entry
  BY DEF LockSet

LEMMA LockOf ==
    ASSUME NEW work \in LockSet, NEW entries \in [Pack!Registered -> Releases \cup {NoRelease}]
    PROVE  \E new \in LockSet :
              new = [work EXCEPT !.entry = entries] /\ new.entry = entries /\ new.commit = work.commit
<1>1. PICK new : new = [work EXCEPT !.entry = entries]
  OBVIOUS
<1>2. new \in LockSet /\ new.entry = entries /\ new.commit = work.commit
  BY <1>1 DEF LockSet
<1>3. QED
  BY <1>1, <1>2

LEMMA EndsQuietly ==
    ASSUME PackInv, NEW p \in Shell, Pack!End(p),
           UNCHANGED <<declared, lockfile, store, records, index, mirror, head, cache, fetched>>
    PROVE  PackInv'
<1>1. /\ records' \in [1..Versions -> Releases \cup {NoRelease}] /\ declared' \subseteq Pack!References
      /\ cache' \in [1..Builds -> 0..Builds] /\ fetched' \in 0..Builds /\ lockfile' \in LockSet
  BY DEF PackInv, PackTypes
<1>2. Told(records)' /\ Pinning(lockfile'.entry)
  BY StoreStays DEF PackInv
<1>3. QED
  BY <1>1, <1>2, Ends

LEMMA CheckoutKeeps == ASSUME PackInv, NEW p \in Shell, Pack!Checkout(p) PROVE PackInv'
<1>1. /\ cmd[p].at = "gitlocked" /\ guard' = Pack!Nobody
      /\ lockfile' = IF cmd[p].frozen THEN lockfile ELSE [cmd[p].work EXCEPT !.commit = Pack!Commit(p)]
      /\ cmd' = [cmd EXCEPT ![p].at = IF cmd[p].kind = "run" THEN "ran" ELSE "wait",
                            ![p].work = Pack!EmptyLock, ![p].ran = Pack!Commit(p)]
      /\ UNCHANGED <<declared, store, records, index, mirror, head, cache, fetched>>
  BY DEF Pack!Checkout, Pack!outside, Pack!caches
<1>2. PICK s \in CommandSet : s = cmd[p] /\ Fits(p, s) /\ s.at = "gitlocked"
  BY <1>1, CommandIs
<1>3. PICK commit \in Nat : commit = Pack!Commit(p)
  BY DEF Pack!Commit, PackInv, PackTypes, LockSet
<1>4. PICK phase \in {"ran", "wait"} : phase = IF s.kind = "run" THEN "ran" ELSE "wait"
  OBVIOUS
<1>5. PICK empty \in LockSet : empty = Pack!EmptyLock /\ \A r \in Pack!Registered : empty.entry[r] = NoRelease
  BY ReadyFits
<1>6. PICK c : c = [s EXCEPT !.at = phase, !.work = empty, !.ran = commit]
  OBVIOUS
<1>7. cmd' = [cmd EXCEPT ![p] = c]
  BY <1>1, <1>2, <1>3, <1>4, <1>5, <1>6 DEF PackInv, PackTypes
<1>8. /\ c \in CommandSet /\ c.at = phase /\ c.work = empty /\ c.reference = s.reference
      /\ c.seen = s.seen
  <2>1. phase \in Pack!Phases
    BY DEF Pack!Phases
  <2>2. QED
    BY <1>6, <2>1 DEF CommandSet
<1>9. s.work \in LockSet /\ lockfile \in LockSet /\ Pinning(s.work.entry) /\ Pinning(lockfile.entry) /\ guard = p
  BY <1>2 DEF CommandSet, PackInv, PackTypes, Fits, Guards
<1>10. lockfile' \in LockSet /\ Pinning(lockfile'.entry)
  <2>1. PICK w \in LockSet : w = [s.work EXCEPT !.commit = commit] /\ w.entry = s.work.entry
    BY <1>9, LockAt
  <2>2. lockfile' = lockfile \/ lockfile' = w
    BY <1>1, <1>2, <1>3, <2>1
  <2>3. QED
    BY <1>9, <2>1, <2>2
<1>11. Fits(p, c)
  <2>1. phase = "ran" => s.reference \notin Pack!Registered
    BY <1>2, <1>4 DEF Fits, Refers, Pack!Git, Pack!Registered
  <2>2. Pinning(c.work.entry)
    BY <1>5, <1>8 DEF Pinning
  <2>3. s.seen \subseteq Pack!Lockable
    BY <1>2 DEF Fits, Refers
  <2>4. QED
    BY <1>8, <2>1, <2>2, <2>3 DEF Fits, Publishes, Refers, Guards, Obtains
<1>12. QED
  BY <1>1, <1>7, <1>8, <1>9, <1>10, <1>11, LeavesKeeps

LEMMA VerifiedIs ==
    ASSUME PackInv, NEW e \in Releases, Pack!Verified(e), Pack!KeepArtifact(e)
    PROVE  cache' \in [1..Builds -> 0..Builds] /\ Pack!Bytes(e) = e.digest /\ e.digest \in Nat
  BY ReleasesAre DEF PackInv, PackTypes, Pack!KeepArtifact, Pack!Verified

LEMMA InstallOneKeeps ==
    ASSUME PackInv, NEW p \in Shell, NEW r \in Pack!Registered, Pack!InstallOne(p, r) PROVE PackInv'
<1>1. PICK s \in CommandSet : s = cmd[p] /\ Fits(p, s) /\ s.at = "locked"
  BY CommandIs DEF Pack!InstallOne
<1>2. UNCHANGED <<declared, lockfile, store, records, index, mirror, head, fetched>>
  BY DEF Pack!InstallOne, Pack!outside
<1>3. CASE Pack!End(p) /\ UNCHANGED cache
  BY <1>2, <1>3, EndsQuietly, Zenon
<1>4. CASE ~(Pack!End(p) /\ UNCHANGED cache)
  <2>1. PICK e : e = IF Pack!Pinned(p, r) THEN s.work.entry[r] ELSE Pack!Resolved(r)
    OBVIOUS
  <2>2. /\ Pack!Pinned(p, r) \/ Pack!Resolvable(r)
        /\ Pack!Verified(e) /\ Pack!KeepArtifact(e) /\ UNCHANGED guard
        /\ cmd' = [cmd EXCEPT ![p].done = @ \cup {r}, ![p].work.entry[r] = e]
    BY <1>1, <1>4, <2>1 DEF Pack!InstallOne
  <2>3. /\ s.work \in LockSet /\ s.work.entry \in [Pack!Registered -> Releases \cup {NoRelease}]
        /\ Pinning(s.work.entry) /\ guard = p /\ Follows(s)
    BY <1>1 DEF CommandSet, LockSet, Fits, Guards
  <2>4. e \in Releases /\ Answers(r, e)
    <3>1. CASE Pack!Pinned(p, r)
      BY <1>1, <2>1, <2>3, <3>1 DEF Pack!Pinned, Pinning, NoRelease
    <3>2. CASE ~Pack!Pinned(p, r)
      BY <2>1, <2>2, <3>2, ResolvedAnswers
    <3>3. QED
      BY <3>1, <3>2
  <2>5. PICK w \in LockSet : /\ w = [s.work EXCEPT !.entry = [s.work.entry EXCEPT ![r] = e]]
                             /\ w.entry = [s.work.entry EXCEPT ![r] = e] /\ w.commit = s.work.commit
    <3>1. PICK work \in LockSet, entries \in [Pack!Registered -> Releases \cup {NoRelease}] :
             work = s.work /\ entries = [s.work.entry EXCEPT ![r] = e]
      BY <2>3, <2>4
    <3>2. \E new \in LockSet :
             new = [work EXCEPT !.entry = entries] /\ new.entry = entries /\ new.commit = work.commit
      BY LockOf, Zenon
    <3>3. QED
      BY <3>1, <3>2
  <2>6. PICK c : c = [s EXCEPT !.done = s.done \cup {r}, !.work = w]
    OBVIOUS
  <2>7. cmd' = [cmd EXCEPT ![p] = c]
    BY <1>1, <2>2, <2>3, <2>5, <2>6 DEF PackInv, PackTypes, CommandSet, LockSet
  <2>8. /\ c \in CommandSet /\ c.at = "locked" /\ c.work = w /\ c.reference = s.reference /\ c.kind = s.kind
        /\ c.seen = s.seen
    BY <1>1, <2>6 DEF CommandSet
  <2>9. Pinning(w.entry)
    BY <2>3, <2>4, <2>5 DEF Pinning
  <2>10. Follows(c)
    <3>1. \A q \in Pack!Registered : w.entry[q] = IF q = r THEN e ELSE s.work.entry[q]
      BY <2>3, <2>5
    <3>2. ASSUME lockfile.entry[r] # NoRelease
          PROVE  e = lockfile.entry[r] \/ (s.kind = "update" /\ r[2] = 0)
      <4>1. CASE Pack!Pinned(p, r)
        BY <1>1, <2>1, <2>3, <3>2, <4>1 DEF Follows, Pack!Pinned
      <4>2. CASE ~Pack!Pinned(p, r)
        <5>1. s.kind = "update"
          BY <1>1, <2>3, <3>2, <4>2 DEF Follows, Pack!Pinned, NoRelease
        <5>2. Answers(r, lockfile.entry[r])
          BY <3>2 DEF PackInv, Pinning
        <5>3. r[2] # 0 => e = lockfile.entry[r]
          BY <2>4, <5>2 DEF Answers
        <5>4. QED
          BY <5>1, <5>3
      <4>3. QED
        BY <4>1, <4>2
    <3>3. e # NoRelease
      BY <2>4, ReleasesAre
    <3>4. ASSUME NEW q \in Pack!Registered, lockfile.entry[q] # NoRelease
          PROVE  \/ w.entry[q] = lockfile.entry[q]
                 \/ s.kind = "update" /\ q[2] = 0 /\ w.entry[q] # NoRelease
      <4>1. CASE q = r
        BY <3>1, <3>2, <3>3, <3>4, <4>1
      <4>2. CASE q # r
        BY <2>3, <3>1, <3>4, <4>2 DEF Follows
      <4>3. QED
        BY <4>1, <4>2
    <3>5. w.commit = lockfile.commit
      BY <2>3, <2>5 DEF Follows
    <3>6. QED
      BY <2>8, <3>4, <3>5 DEF Follows
  <2>11. Fits(p, c)
    <3>1. s.seen \subseteq Pack!Lockable
      BY <1>1 DEF Fits, Refers
    <3>2. QED
      BY <2>3, <2>8, <2>9, <2>10, <3>1 DEF Fits, Publishes, Refers, Guards, Obtains
  <2>12. cache' \in [1..Builds -> 0..Builds]
    BY <2>2, <2>4, VerifiedIs
  <2>13. QED
    BY <1>2, <2>2, <2>7, <2>8, <2>11, <2>12, GoesOn DEF PackInv, PackTypes
<1>5. QED
  BY <1>3, <1>4

LEMMA WriteLockKeeps == ASSUME PackInv, NEW p \in Shell, Pack!WriteLock(p) PROVE PackInv'
<1>1. /\ cmd[p].at = "locked" /\ Pack!End(p)
      /\ lockfile' = IF cmd[p].frozen THEN lockfile ELSE Pack!Written(cmd[p].work, cmd[p].seen)
      /\ UNCHANGED <<declared, store, records, index, mirror, head, cache, fetched>>
  BY DEF Pack!WriteLock, Pack!outside, Pack!caches
<1>2. PICK s \in CommandSet : s = cmd[p] /\ Fits(p, s) /\ s.at = "locked"
  BY <1>1, CommandIs
<1>3. s.work \in LockSet /\ Pinning(s.work.entry) /\ guard = p
  BY <1>2 DEF CommandSet, Fits, Guards
<1>4. s.seen \in SUBSET Pack!Lockable
  BY <1>2 DEF Fits, Refers
<1>5. lockfile' \in LockSet /\ Pinning(lockfile'.entry)
  BY <1>1, <1>2, <1>3, <1>4, WrittenIs DEF PackInv, PackTypes
<1>6. /\ records' \in [1..Versions -> Releases \cup {NoRelease}] /\ declared' \subseteq Pack!References
      /\ cache' \in [1..Builds -> 0..Builds] /\ fetched' \in 0..Builds /\ Told(records)'
  BY <1>1, StoreStays DEF PackInv, PackTypes
<1>7. QED
  BY <1>1, <1>3, <1>5, <1>6, Ends


-----------------------------------------------------------------------------
(* Packages: running a module. *)

LEMMA RunKeeps ==
    ASSUME PackInv, NEW p \in Shell, NEW r \in Pack!References, NEW frozen \in BOOLEAN, Pack!Run(p, r, frozen)
    PROVE  PackInv'
<1> DEFINE goes == CASE r = Pack!Git -> "git" [] r = Pack!Url -> "fetch" [] r = Pack!Local -> "build"
                     [] OTHER -> "resolve"
<1>1. /\ cmd[p].at = "idle"
      /\ cmd' = [cmd EXCEPT ![p].kind = "run", ![p].frozen = frozen, ![p].reference = r, ![p].at = goes]
      /\ UNCHANGED <<declared, lockfile, guard, store, records, index, mirror, head, cache, fetched>>
  BY DEF Pack!Run, Pack!Begin, Pack!workspaceVars, Pack!outside, Pack!caches
<1>2. PICK s \in CommandSet : s = cmd[p] /\ Fits(p, s) /\ s = Pack!Ready
  BY <1>1, CommandIs DEF Fits
<1>3. Pinning(s.work.entry) /\ s.seen = {}
  BY <1>2, ReadyFits DEF Fits
<1>4. Pack!Git # Pack!Url /\ Pack!Git # Pack!Local /\ Pack!Url # Pack!Local
  BY DEF Pack!Git, Pack!Url, Pack!Local
<1>5. PICK phase \in {"git", "fetch", "build", "resolve"} :
         /\ phase = goes
         /\ phase = "git" => r = Pack!Git
         /\ phase = "fetch" => r = Pack!Url
         /\ phase = "build" => r = Pack!Local
         /\ phase = "resolve" => r \in Pack!Registered
  BY <1>4 DEF Pack!References
<1> HIDE DEF goes
<1>6. PICK c : c = [s EXCEPT !.kind = "run", !.frozen = frozen, !.reference = r, !.at = phase]
  OBVIOUS
<1>7. cmd' = [cmd EXCEPT ![p] = c]
  BY <1>1, <1>2, <1>5, <1>6 DEF PackInv, PackTypes
<1>8. c \in CommandSet /\ c.at = phase /\ c.work = s.work /\ c.reference = r /\ c.seen = s.seen
  <2>1. phase \in Pack!Phases
    BY DEF Pack!Phases
  <2>2. QED
    BY <1>6, <2>1 DEF CommandSet
<1>9. Fits(p, c)
  BY <1>3, <1>5, <1>8 DEF Fits, Publishes, Refers, Guards, Obtains
<1>10. QED
  BY <1>1, <1>7, <1>8, <1>9, GoesOn DEF PackInv, PackTypes

LEMMA PackLockKeeps == ASSUME PackInv, NEW p \in Shell, Pack!Lock(p) PROVE PackInv'
<1>1. /\ cmd[p].at = "resolved" /\ guard' = Pack!Nobody
      /\ lockfile' = IF cmd[p].frozen THEN lockfile
                     ELSE [cmd[p].work EXCEPT !.entry[cmd[p].reference] = Pack!Entry(p)]
      /\ cmd' = [cmd EXCEPT ![p].at = "prepare", ![p].work = Pack!EmptyLock, ![p].entry = Pack!Entry(p)]
      /\ UNCHANGED <<declared, store, records, index, mirror, head, cache, fetched>>
  BY DEF Pack!Lock, Pack!outside, Pack!caches
<1>2. PICK s \in CommandSet : s = cmd[p] /\ Fits(p, s) /\ s.at = "resolved"
  BY <1>1, CommandIs
<1>3. PICK r \in Pack!Registered : r = s.reference
  BY <1>2 DEF Fits, Refers
<1>4. /\ s.work \in LockSet /\ s.work.entry \in [Pack!Registered -> Releases \cup {NoRelease}]
      /\ Pinning(s.work.entry) /\ guard = p /\ s.seen \subseteq Pack!Lockable
      /\ s.work.entry[r] # NoRelease \/ Pack!Resolvable(r)
  BY <1>2, <1>3 DEF CommandSet, LockSet, Fits, Guards, Obtains, Refers
<1>5. PICK e : e = Pack!Entry(p)
  OBVIOUS
<1>6. e \in Releases /\ Answers(r, e)
  <2>1. CASE s.work.entry[r] # NoRelease
    BY <1>2, <1>3, <1>4, <1>5, <2>1 DEF Pack!Entry, Pinning, NoRelease
  <2>2. CASE s.work.entry[r] = NoRelease
    BY <1>2, <1>3, <1>4, <1>5, <2>2, ResolvedAnswers DEF Pack!Entry, NoRelease
  <2>3. QED
    BY <2>1, <2>2
<1>7. PICK empty \in LockSet : empty = Pack!EmptyLock /\ \A q \in Pack!Registered : empty.entry[q] = NoRelease
  BY ReadyFits
<1>8. PICK c : c = [s EXCEPT !.at = "prepare", !.work = empty, !.entry = e]
  OBVIOUS
<1>9. cmd' = [cmd EXCEPT ![p] = c]
  BY <1>1, <1>2, <1>5, <1>7, <1>8 DEF PackInv, PackTypes
<1>10. /\ c \in CommandSet /\ c.at = "prepare" /\ c.work = empty /\ c.reference = r
       /\ c.entry = e /\ c.seen = s.seen
  <2>1. "prepare" \in Pack!Phases
    BY DEF Pack!Phases
  <2>2. QED
    BY <1>3, <1>6, <1>8, <2>1 DEF CommandSet
<1>11. lockfile' \in LockSet /\ Pinning(lockfile'.entry)
  <2>1. PICK work \in LockSet, entries \in [Pack!Registered -> Releases \cup {NoRelease}] :
           work = s.work /\ entries = [s.work.entry EXCEPT ![r] = e]
    BY <1>4, <1>6
  <2>2. PICK w \in LockSet : w = [work EXCEPT !.entry = entries] /\ w.entry = entries /\ w.commit = work.commit
    BY LockOf, Zenon
  <2>3. w = [s.work EXCEPT !.entry[r] = e]
    BY <1>4, <2>1, <2>2 DEF LockSet
  <2>4. lockfile' = lockfile \/ lockfile' = w
    BY <1>1, <1>2, <1>3, <1>5, <2>3
  <2>5. Pinning(w.entry)
    BY <1>4, <1>6, <2>1, <2>2 DEF Pinning
  <2>6. QED
    BY <2>4, <2>5 DEF PackInv, PackTypes
<1>12. Fits(p, c)
  <2>1. Pinning(c.work.entry)
    BY <1>7, <1>10 DEF Pinning
  <2>2. QED
    BY <1>4, <1>6, <1>10, <2>1 DEF Fits, Publishes, Refers, Guards, Obtains
<1>13. QED
  BY <1>1, <1>4, <1>9, <1>10, <1>11, <1>12, LeavesKeeps

LEMMA PrepareKeeps == ASSUME PackInv, NEW p \in Shell, Pack!PreparePackage(p) PROVE PackInv'
<1>1. /\ cmd[p].at = "prepare"
      /\ UNCHANGED <<declared, lockfile, guard, store, records, index, mirror, head, fetched>>
  BY DEF Pack!PreparePackage, Pack!workspaceVars, Pack!outside
<1>2. PICK s \in CommandSet : s = cmd[p] /\ Fits(p, s) /\ s.at = "prepare"
  BY <1>1, CommandIs
<1>3. PICK e \in Releases : e = s.entry /\ Answers(s.reference, e) /\ s.reference \in Pack!Registered
  BY <1>2 DEF CommandSet, Fits, Refers, Obtains, Answers
<1>4. CASE Pack!Finish(p) /\ UNCHANGED cache
  BY <1>1, <1>4, Finishes
<1>5. CASE ~(Pack!Finish(p) /\ UNCHANGED cache)
  <2>1. /\ Pack!Verified(e) /\ Pack!KeepArtifact(e)
        /\ cmd' = [cmd EXCEPT ![p].at = "ran", ![p].ran = Pack!Bytes(e)]
    BY <1>2, <1>3, <1>5 DEF Pack!PreparePackage
  <2>2. cache' \in [1..Builds -> 0..Builds] /\ Pack!Bytes(e) = e.digest /\ e.digest \in Nat
    BY <2>1, VerifiedIs
  <2>3. PICK n \in Nat : n = e.digest
    BY <2>2
  <2>4. PICK c : c = [s EXCEPT !.at = "ran", !.ran = n]
    OBVIOUS
  <2>5. cmd' = [cmd EXCEPT ![p] = c]
    BY <1>2, <2>1, <2>2, <2>3, <2>4 DEF PackInv, PackTypes
  <2>6. /\ c \in CommandSet /\ c.at = "ran" /\ c.ran = n /\ c.entry = e /\ c.work = s.work
        /\ c.reference = s.reference /\ c.seen = s.seen
    <3>1. "ran" \in Pack!Phases
      BY DEF Pack!Phases
    <3>2. QED
      BY <1>3, <2>4, <3>1 DEF CommandSet
  <2>7. Pinning(s.work.entry) /\ s.seen \subseteq Pack!Lockable
    BY <1>2 DEF Fits, Refers
  <2>8. Fits(p, c)
    BY <1>3, <2>3, <2>6, <2>7 DEF Fits, Publishes, Refers, Guards, Obtains
  <2>9. declared' \subseteq Pack!References /\ fetched' \in 0..Builds
    BY <1>1 DEF PackInv, PackTypes
  <2>10. QED
    BY <1>1, <2>2, <2>5, <2>6, <2>8, <2>9, GoesOn
<1>6. QED
  BY <1>4, <1>5

\* A command goes from one phase to another that asks for nothing.
LEMMA Proceeds ==
    ASSUME PackInv, NEW p \in Shell, NEW s \in CommandSet, s = cmd[p], Fits(p, s), NEW n \in Nat,
           NEW phase \in {"ran", "persist"}, cmd' = [cmd EXCEPT ![p] = [s EXCEPT !.at = phase, !.ran = n]],
           phase = "ran" => s.reference \notin Pack!Registered /\ s.seen \subseteq Pack!Lockable,
           UNCHANGED <<declared, lockfile, guard, store, records, index, mirror, head, cache>>,
           fetched' \in 0..Builds
    PROVE  PackInv'
<1>1. PICK c : c = [s EXCEPT !.at = phase, !.ran = n]
  OBVIOUS
<1>2. /\ c \in CommandSet /\ c.at = phase /\ c.work = s.work
      /\ c.reference = s.reference /\ c.seen = s.seen
  <2>1. phase \in Pack!Phases
    BY DEF Pack!Phases
  <2>2. QED
    BY <1>1, <2>1 DEF CommandSet
<1>3. Fits(p, c)
  BY <1>2 DEF Fits, Publishes, Refers, Guards, Obtains
<1>4. declared' \subseteq Pack!References /\ cache' \in [1..Builds -> 0..Builds]
  BY DEF PackInv, PackTypes
<1>5. QED
  BY <1>1, <1>2, <1>3, <1>4, GoesOn

LEMMA DownloadKeeps == ASSUME PackInv, NEW p \in Shell, Pack!Download(p) PROVE PackInv'
<1>1. /\ cmd[p].at = "fetch"
      /\ UNCHANGED <<declared, lockfile, guard, store, records, index, mirror, head, cache>>
      /\ fetched' = IF fetched = 0 THEN mirror ELSE fetched
      /\ cmd' = [cmd EXCEPT ![p].at = "ran", ![p].ran = fetched']
  BY DEF Pack!Download, Pack!workspaceVars, Pack!outside
<1>2. PICK s \in CommandSet : s = cmd[p] /\ Fits(p, s) /\ s.at = "fetch"
  BY <1>1, CommandIs
<1>3. s.reference \notin Pack!Registered /\ s.seen \subseteq Pack!Lockable
  BY <1>2 DEF Fits, Refers, Pack!Url, Pack!Registered
<1>4. PICK n \in 0..Builds : n = fetched'
  BY <1>1 DEF PackInv, PackTypes
<1>5. cmd' = [cmd EXCEPT ![p] = [s EXCEPT !.at = "ran", !.ran = n]]
  BY <1>1, <1>2, <1>4 DEF PackInv, PackTypes
<1>6. n \in Nat /\ fetched' \in 0..Builds
  BY <1>4
<1>7. UNCHANGED <<declared, lockfile, guard, store, records, index, mirror, head, cache>>
  BY <1>1
<1>8. QED
  BY <1>2, <1>3, <1>5, <1>6, <1>7, Proceeds

LEMMA StaysRan == ASSUME NEW s \in CommandSet, NEW phase PROVE [s EXCEPT !.at = phase, !.ran = s.ran] = [s EXCEPT !.at = phase]
  BY DEF CommandSet

LEMMA BuildKeeps == ASSUME PackInv, NEW p \in Shell, Pack!Build(p) PROVE PackInv'
<1>1. /\ cmd[p].at = "build"
      /\ UNCHANGED <<declared, lockfile, guard, store, records, index, mirror, head, cache, fetched>>
  BY DEF Pack!Build, Pack!workspaceVars, Pack!outside, Pack!caches
<1>2. PICK s \in CommandSet : s = cmd[p] /\ Fits(p, s) /\ s.at = "build"
  BY <1>1, CommandIs
<1>3. s.reference \notin Pack!Registered /\ s.seen \subseteq Pack!Lockable /\ s.ran \in Nat
  BY <1>2 DEF Fits, Refers, Pack!Local, Pack!Registered, CommandSet
<1>4. CASE Pack!Finish(p)
  BY <1>1, <1>4, Finishes
<1>5. CASE Pack!Goto(p, "ran")
  <2>1. cmd' = [cmd EXCEPT ![p] = [s EXCEPT !.at = "ran"]]
    BY <1>2, <1>5 DEF PackInv, PackTypes, Pack!Goto
  <2>2. cmd' = [cmd EXCEPT ![p] = [s EXCEPT !.at = "ran", !.ran = s.ran]] /\ fetched' \in 0..Builds
    BY <1>1, <2>1, StaysRan DEF PackInv, PackTypes
  <2>3. QED
    BY <1>1, <1>2, <1>3, <2>2, Proceeds
<1>6. QED
  BY <1>4, <1>5 DEF Pack!Build

LEMMA LastKeeps == ASSUME PackInv, NEW p \in Shell, Pack!Ran(p) \/ Pack!Kill(p) PROVE PackInv'
<1>1. Pack!End(p) /\ UNCHANGED <<declared, lockfile, store, records, index, mirror, head, cache, fetched>>
  BY DEF Pack!Ran, Pack!Kill, Pack!outside, Pack!caches
<1>2. QED
  BY <1>1, EndsQuietly


-----------------------------------------------------------------------------
(* Packages: fluentci.toml. *)

LEMMA AddKeeps == ASSUME PackInv, NEW p \in Shell, Pack!Add(p) PROVE PackInv'
<1>1. /\ cmd[p].at = "idle"
      /\ cmd' = [cmd EXCEPT ![p].at = "check", ![p].kind = "add", ![p].seen = declared]
      /\ UNCHANGED <<declared, lockfile, guard, store, records, index, mirror, head, cache, fetched>>
  BY DEF Pack!Add, Pack!Begin, Pack!workspaceVars, Pack!outside, Pack!caches
<1>2. PICK s \in CommandSet : s = cmd[p] /\ Fits(p, s) /\ s = Pack!Ready
  BY <1>1, CommandIs DEF Fits
<1>3. Pinning(s.work.entry) /\ s.reference \notin Pack!Registered
  BY <1>2, ReadyFits DEF Fits, Pack!Local, Pack!Registered
<1>4. PICK D \in SUBSET Pack!References : D = declared
  BY DEF PackInv, PackTypes
<1>5. PICK c : c = [s EXCEPT !.at = "check", !.kind = "add", !.seen = D]
  OBVIOUS
<1>6. cmd' = [cmd EXCEPT ![p] = c]
  BY <1>1, <1>2, <1>4, <1>5 DEF PackInv, PackTypes
<1>7. c \in CommandSet /\ c.at = "check" /\ c.work = s.work /\ c.reference = s.reference
  <2>1. "check" \in Pack!Phases
    BY DEF Pack!Phases
  <2>2. QED
    BY <1>5, <2>1 DEF CommandSet
<1>8. Fits(p, c)
  BY <1>3, <1>7 DEF Fits, Publishes, Refers, Guards, Obtains
<1>9. QED
  BY <1>1, <1>6, <1>7, <1>8, GoesOn DEF PackInv, PackTypes

LEMMA CheckConfigKeeps == ASSUME PackInv, NEW p \in Shell, Pack!CheckConfig(p) PROVE PackInv'
<1>1. UNCHANGED <<declared, lockfile, guard, store, records, index, mirror, head, cache, fetched>>
  BY DEF Pack!CheckConfig, Pack!workspaceVars, Pack!outside, Pack!caches
<1>2. PICK s \in CommandSet : s = cmd[p] /\ Fits(p, s) /\ s.ran \in Nat
  BY CommandIs DEF CommandSet
<1>3. CASE Pack!Finish(p)
  BY <1>1, <1>3, Finishes
<1>4. CASE Pack!Goto(p, "persist")
  <2>1. cmd' = [cmd EXCEPT ![p] = [s EXCEPT !.at = "persist"]]
    BY <1>2, <1>4 DEF PackInv, PackTypes, Pack!Goto
  <2>2. cmd' = [cmd EXCEPT ![p] = [s EXCEPT !.at = "persist", !.ran = s.ran]] /\ fetched' \in 0..Builds
    BY <1>1, <2>1, StaysRan DEF PackInv, PackTypes
  <2>3. QED
    BY <1>1, <1>2, <2>2, Proceeds
<1>5. QED
  BY <1>3, <1>4 DEF Pack!CheckConfig

LEMMA PersistConfigKeeps == ASSUME PackInv, NEW p \in Shell, Pack!PersistConfig(p) PROVE PackInv'
<1>1. /\ Pack!End(p) /\ declared' = cmd[p].seen \cup {Pack!Local}
      /\ UNCHANGED <<lockfile, store, records, index, mirror, head, cache, fetched>>
  BY DEF Pack!PersistConfig, Pack!outside, Pack!caches
<1>2. cmd[p].seen \subseteq Pack!References
  BY CommandIs DEF CommandSet
<1>3. declared' \subseteq Pack!References
  BY <1>1, <1>2 DEF Pack!References
<1>4. /\ records' \in [1..Versions -> Releases \cup {NoRelease}] /\ cache' \in [1..Builds -> 0..Builds]
      /\ fetched' \in 0..Builds /\ lockfile' \in LockSet
  BY <1>1 DEF PackInv, PackTypes
<1>5. Told(records)' /\ Pinning(lockfile'.entry)
  BY <1>1, StoreStays DEF PackInv
<1>6. QED
  BY <1>1, <1>3, <1>4, <1>5, Ends

LEMMA PackagesStart == Pack!PackagesInit => PackInv
<1> SUFFICES ASSUME Pack!PackagesInit PROVE PackInv
  OBVIOUS
<1>1. /\ lockfile = Pack!EmptyLock /\ guard = Pack!Nobody
      /\ declared \in SUBSET {<<"package", 0>>, Pack!Git}
      /\ store = [v \in 1..Versions |-> 0] /\ mirror = 1 /\ head = 1
      /\ records = [v \in 1..Versions |-> NoRelease] /\ index = records
      /\ cache = [d \in 1..Builds |-> 0] /\ fetched = 0 /\ cmd = [p \in Shell |-> Pack!Ready]
  BY DEF Pack!PackagesInit, NoRelease
<1>2. lockfile \in LockSet /\ Pinning(lockfile.entry)
  BY <1>1, ReadyFits DEF Pinning
<1>3. Told(records) /\ Told(index)
  BY <1>1 DEF Told
<1>4. PackTypes
  <2>1. declared \subseteq Pack!References
    BY <1>1, PackagesAssumption DEF Pack!References, Pack!Registered
  <2>2. 1 \in 1..Builds /\ 0 \in 0..Builds
    BY PackagesAssumption
  <2>3. QED
    BY <1>1, <1>2, <2>1, <2>2, ReadyFits DEF PackTypes
<1>5. ASSUME NEW p \in Shell, NEW c \in CommandSet, cmd[p] = c PROVE Fits(p, c)
  <2>1. c = Pack!Ready
    BY <1>1, <1>5
  <2>2. QED
    BY <2>1, ReadyIsFit
<1>6. QED
  BY <1>2, <1>3, <1>4, <1>5 DEF PackInv

LEMMA PackagesStep == ASSUME PackInv, Pack!PackagesNext \/ UNCHANGED packs PROVE PackInv'
<1>1. ASSUME NEW p \in Shell, Pack!Command(p) PROVE PackInv'
  BY <1>1, PublishKeeps, UploadKeeps, CreateRecordKeeps, InstallKeeps, LocksKeep, CheckoutKeeps, WriteLockKeeps,
     InstallOneKeeps, RunKeeps, ResolveKeeps, PackLockKeeps, PrepareKeeps, DownloadKeeps, BuildKeeps, LastKeeps,
     AddKeeps, CheckConfigKeeps, PersistConfigKeeps DEF Pack!Command
<1>2. ASSUME NEW v \in 1..Versions, Pack!Index(v) \/ Pack!DeleteRecord(v) PROVE PackInv'
  BY <1>2, IndexKeeps, DeleteRecordKeeps
<1>3. CASE Pack!Edit \/ Pack!Serve \/ Pack!Push \/ Pack!Damage \/ UNCHANGED packs
  BY <1>3, OutsideKeeps
<1>4. QED
  BY <1>1, <1>2, <1>3, LastKeeps DEF Pack!PackagesNext


-----------------------------------------------------------------------------
(* Packages: the pins and the theorem. *)

\* A command that drops the guard has made of the lock file what it may.
LEMMA FollowsKeeps ==
    ASSUME PackInv, NEW p \in Shell, guard = p, guard' = Pack!Nobody, Follows(cmd[p]),
           NEW r \in Pack!Registered, lockfile.entry[r] # NoRelease,
           cmd[p].at \in {"gitlocked", "locked", "resolved"}, lockfile'.entry[r] = cmd[p].work.entry[r]
    PROVE  \/ lockfile'.entry[r] = lockfile.entry[r]
           \/ r[2] = 0 /\ lockfile'.entry[r] # NoRelease /\ Pack!UpdateWrites
<1>1. guard' # p
  BY PackagesAssumption
<1>2. \/ cmd[p].work.entry[r] = lockfile.entry[r]
      \/ cmd[p].at = "locked" /\ cmd[p].kind = "update" /\ r[2] = 0 /\ cmd[p].work.entry[r] # NoRelease
  BY DEF Follows
<1>3. QED
  BY <1>1, <1>2 DEF Pack!UpdateWrites

LEMMA HoldsGuard ==
    ASSUME PackInv, NEW p \in Shell, cmd[p].at \in {"gitlocked", "locked", "resolved"}
    PROVE  guard = p /\ Follows(cmd[p]) /\ cmd[p].work \in LockSet
  BY CommandIs DEF Fits, Guards, CommandSet

LEMMA CheckoutPins == ASSUME PackInv, NEW p \in Shell, Pack!Checkout(p) PROVE Pack!KeepsPins
<1>1. /\ cmd[p].at = "gitlocked" /\ guard' = Pack!Nobody
      /\ lockfile' = IF cmd[p].frozen THEN lockfile ELSE [cmd[p].work EXCEPT !.commit = Pack!Commit(p)]
  BY DEF Pack!Checkout
<1>2. guard = p /\ Follows(cmd[p]) /\ cmd[p].work \in LockSet
  BY <1>1, HoldsGuard
<1>3. CASE lockfile' = lockfile
  BY <1>3 DEF Pack!KeepsPins
<1>4. CASE lockfile' # lockfile
  <2>1. PICK work \in LockSet : work = cmd[p].work /\ lockfile' = [work EXCEPT !.commit = Pack!Commit(p)]
    BY <1>1, <1>2, <1>4
  <2>2. lockfile'.entry = work.entry /\ lockfile'.commit = Pack!Commit(p)
    BY <2>1 DEF LockSet
  <2>3. \A r \in Pack!Registered : \/ lockfile.entry[r] = NoRelease
                                   \/ lockfile'.entry[r] = lockfile.entry[r]
                                   \/ r[2] = 0 /\ lockfile'.entry[r] # NoRelease /\ Pack!UpdateWrites
    BY <1>1, <1>2, <2>1, <2>2, FollowsKeeps
  <2>4. \/ lockfile.commit = 0 \/ lockfile'.commit = lockfile.commit
        \/ lockfile'.commit # 0 /\ Pack!UpdateWrites
    <3>1. guard' # p /\ head # 0
      BY <1>1, PackagesAssumption DEF PackInv, PackTypes
    <3>2. QED
      BY <1>1, <1>2, <2>2, <3>1 DEF Pack!Commit, Pack!UpdateWrites
  <2>5. QED
    BY <2>3, <2>4 DEF Pack!KeepsPins, NoRelease
<1>5. QED
  BY <1>3, <1>4

LEMMA WriteLockPins == ASSUME PackInv, NEW p \in Shell, Pack!WriteLock(p) PROVE Pack!KeepsPins
<1>1. /\ cmd[p].at = "locked" /\ Pack!End(p)
      /\ lockfile' = IF cmd[p].frozen THEN lockfile ELSE Pack!Written(cmd[p].work, cmd[p].seen)
  BY DEF Pack!WriteLock
<1>2. guard = p /\ Follows(cmd[p]) /\ cmd[p].work \in LockSet
  BY <1>1, HoldsGuard
<1>3. cmd[p].seen \in SUBSET Pack!Lockable
  BY <1>1, CommandIs DEF Fits, Refers
<1>4. guard' = Pack!Nobody
  BY <1>1, <1>2 DEF Pack!End, Pack!Drop
<1>5. CASE lockfile' = lockfile
  BY <1>5 DEF Pack!KeepsPins
<1>6. CASE lockfile' # lockfile
  <2>1. lockfile'.entry = cmd[p].work.entry /\ lockfile'.commit = cmd[p].work.commit
    BY <1>1, <1>2, <1>3, <1>6, WrittenIs
  <2>2. lockfile'.commit = lockfile.commit
    BY <1>2, <2>1 DEF Follows
  <2>3. \A r \in Pack!Registered : \/ lockfile.entry[r] = NoRelease
                                   \/ lockfile'.entry[r] = lockfile.entry[r]
                                   \/ r[2] = 0 /\ lockfile'.entry[r] # NoRelease /\ Pack!UpdateWrites
    BY <1>1, <1>2, <1>4, <2>1, FollowsKeeps
  <2>4. QED
    BY <2>2, <2>3 DEF Pack!KeepsPins, NoRelease
<1>7. QED
  BY <1>5, <1>6

LEMMA LockPins == ASSUME PackInv, NEW p \in Shell, Pack!Lock(p) PROVE Pack!KeepsPins
<1>1. /\ cmd[p].at = "resolved" /\ guard' = Pack!Nobody
      /\ lockfile' = IF cmd[p].frozen THEN lockfile
                     ELSE [cmd[p].work EXCEPT !.entry[cmd[p].reference] = Pack!Entry(p)]
  BY DEF Pack!Lock
<1>2. guard = p /\ Follows(cmd[p]) /\ cmd[p].work \in LockSet
  BY <1>1, HoldsGuard
<1>3. CASE lockfile' = lockfile
  BY <1>3 DEF Pack!KeepsPins
<1>4. CASE lockfile' # lockfile
  <2>1. PICK work \in LockSet : /\ work = cmd[p].work
                                /\ lockfile' = [work EXCEPT !.entry[cmd[p].reference] = Pack!Entry(p)]
    BY <1>1, <1>2, <1>4
  <2>2. /\ lockfile'.entry = [work.entry EXCEPT ![cmd[p].reference] = Pack!Entry(p)]
        /\ lockfile'.commit = work.commit
    BY <2>1 DEF LockSet
  <2>3. lockfile'.commit = lockfile.commit
    BY <1>2, <2>1, <2>2 DEF Follows
  <2>4. ASSUME NEW r \in Pack!Registered, lockfile.entry[r] # NoRelease
        PROVE  lockfile'.entry[r] = lockfile.entry[r]
    <3>1. work.entry[r] = lockfile.entry[r]
      BY <1>1, <1>2, <2>1, <2>4 DEF Follows
    <3>2. r = cmd[p].reference => Pack!Entry(p) = lockfile.entry[r]
      BY <2>1, <2>4, <3>1 DEF Pack!Entry, NoRelease
    <3>3. work.entry \in [Pack!Registered -> Releases \cup {NoRelease}]
      BY DEF LockSet
    <3>4. QED
      BY <2>2, <3>1, <3>2, <3>3
  <2>5. QED
    BY <2>3, <2>4 DEF Pack!KeepsPins, NoRelease
<1>5. QED
  BY <1>3, <1>4

LEMMA PinsStep == ASSUME PackInv, Pack!PackagesNext \/ UNCHANGED packs PROVE Pack!KeepsPins
<1>1. CASE UNCHANGED lockfile
  BY <1>1 DEF Pack!KeepsPins
<1>2. ASSUME NEW p \in Shell, Pack!Command(p) PROVE Pack!KeepsPins
  <2>1. CASE Pack!Checkout(p) \/ Pack!WriteLock(p) \/ Pack!Lock(p)
    BY <2>1, CheckoutPins, WriteLockPins, LockPins
  <2>2. CASE ~(Pack!Checkout(p) \/ Pack!WriteLock(p) \/ Pack!Lock(p))
    <3>1. UNCHANGED lockfile
      BY <1>2, <2>2 DEF Pack!Command, Pack!Publish, Pack!Upload, Pack!CreateRecord, Pack!Install, Pack!LockGit,
         Pack!LockPackages, Pack!InstallOne, Pack!Run, Pack!Resolve, Pack!PreparePackage, Pack!Download, Pack!Build,
         Pack!Ran, Pack!Add, Pack!CheckConfig, Pack!PersistConfig, Pack!workspaceVars
    <3>2. QED
      BY <1>1, <3>1
  <2>3. QED
    BY <2>1, <2>2
<1>3. CASE \/ \E p \in Shell : Pack!Kill(p)
           \/ \E v \in 1..Versions : Pack!Index(v) \/ Pack!DeleteRecord(v)
           \/ Pack!Edit \/ Pack!Serve \/ Pack!Push \/ Pack!Damage
  BY <1>1, <1>3 DEF Pack!Kill, Pack!Index, Pack!DeleteRecord, Pack!Edit, Pack!Serve, Pack!Push, Pack!Damage,
     Pack!workspaceVars
<1>4. CASE UNCHANGED packs
  BY <1>1, <1>4 DEF packs
<1>5. QED
  BY <1>2, <1>3, <1>4 DEF Pack!PackagesNext

LEMMA PackagesAreTrue == PackInv => Pack!PackagesTypeOK /\ Pack!RunsThePublished /\ Pack!ReleasesAreTrue
<1> SUFFICES ASSUME PackInv PROVE Pack!PackagesTypeOK /\ Pack!RunsThePublished /\ Pack!ReleasesAreTrue
  OBVIOUS
<1>1. Pack!PackagesTypeOK
  <2>1. \A p \in Shell : cmd[p].at \in Pack!Phases /\ cmd[p].done \subseteq Pack!Registered
    BY CommandIs DEF CommandSet
  <2>2. lockfile \in LockSet
    BY DEF PackInv, PackTypes
  <2>3. lockfile.modules \subseteq Pack!Lockable /\ \A r \in Pack!Registered : lockfile.entry[r] \in Releases \cup {NoRelease}
    BY <2>2 DEF LockSet
  <2>4. QED
    BY <2>1, <2>3 DEF Pack!PackagesTypeOK, PackInv, PackTypes, Releases, NoRelease
<1>2. Pack!RunsThePublished
  <2>1. ASSUME NEW p \in Shell, cmd[p].at = "ran", cmd[p].reference \in Pack!Registered
        PROVE  Answers(cmd[p].reference, cmd[p].entry) /\ cmd[p].ran = cmd[p].entry.digest
    BY <2>1, CommandIs DEF Fits, Obtains
  <2>2. QED
    BY <2>1 DEF Pack!RunsThePublished, Answers
<1>3. Pack!ReleasesAreTrue
  <2> SUFFICES ASSUME NEW v \in 1..Versions, index[v].at = "store" PROVE store[v] = index[v].digest
    BY DEF Pack!ReleasesAreTrue
  <2>1. index[v] # NoRelease
    BY DEF NoRelease, Pack!None
  <2>2. QED
    BY <2>1 DEF PackInv, Told, Backed
<1>4. QED
  BY <1>1, <1>2, <1>3

\* Whatever is published, deleted and published again, whatever a URL serves and
\* a cache holds, and wherever commands are killed: a registry module that runs is
\* what was indexed first under its version, an indexed release names the artifact
\* that is stored, and a pin changes by an update only, of a moving reference.  For
\* any processes, versions and contents, and any number of commands and events.
THEOREM PackagesStayTrue == PartsSpec => PackagesHold
<1> DEFINE Holds == part = "packages" => PackInv
           Pins == part = "packages" => Pack!KeepsPins
<1>1. PartsInit => Holds
  BY PackagesStart DEF PartsInit
<1>2. Holds /\ [PartsNext]_partsVars => Holds' /\ [Pins]_packs
  <2> SUFFICES ASSUME Holds, [PartsNext]_partsVars PROVE Holds' /\ [Pins]_packs
    OBVIOUS
  <2>1. part' = part
    BY DEF PartsNext, partsVars
  <2>2. CASE part # "packages"
    BY <2>1, <2>2
  <2>3. CASE part = "packages"
    <3>1. Pack!PackagesNext \/ UNCHANGED packs
      BY <2>3 DEF PartsNext, partsVars
    <3>2. PackInv' /\ Pack!KeepsPins
      BY <2>3, <3>1, PackagesStep, PinsStep
    <3>3. QED
      BY <3>2
  <2>4. QED
    BY <2>2, <2>3
<1>3. Holds => (part = "packages" => Pack!PackagesTypeOK /\ Pack!RunsThePublished /\ Pack!ReleasesAreTrue)
  BY PackagesAreTrue
<1>4. QED
  BY <1>1, <1>2, <1>3, PTL DEF PartsSpec, PackagesHold

-----------------------------------------------------------------------------
(* The supervisor of workspace services. *)

Records == [child : Process, state : State, desired : BOOLEAN,
            failures : 0..Threshold, restarts : Nat, backoff : BOOLEAN]

\* What has a process is running, is wanted, and has not been found unhealthy.
Sound(w) == w.child # "none" => w.state = "running" /\ w.desired /\ w.failures < Threshold
Fit(ws) == ws \in [Service -> Records] /\ \A s \in Service : Sound(ws[s])

\* No tick gives it a process.
Settled(w) == w.child = "none" /\ ~w.desired /\ w.failures < Threshold

\* A tick may give it a process, or it has one.
Alive(w) == w.desired \/ w.failures >= Threshold

LeasedBy(t) == {s \in Service : t \in leases[s]}

SupervisorTypes ==
    /\ Fit(worker) /\ leases \in [Service -> SUBSET Token]
    /\ scoped \subseteq Service /\ manual \subseteq Service /\ halted \subseteq Service
    /\ restarted \in BOOLEAN /\ revivable \in BOOLEAN
    /\ shutdown \in BOOLEAN /\ at \in 1..Len(Order) /\ manager \in {"serving", "ended"}

\* What clients hold includes what it depends on, until a restart.
HeldWhole ==
    /\ ~restarted => Closed(manual)
    /\ \A t \in Token : Closed(LeasedBy(t))

ScopedHeld == \A s \in scoped : s \in manual \/ leases[s] # {}

AliveOwned == ~restarted /\ ~revivable => \A s \in Service : Alive(worker[s]) => s \in scoped \cup manual

\* What the tick has passed, or everything between ticks, has what it depends on.
Propped(ws, s) == ws[s].child # "none" => \A d \in DependsOn[s] : ws[d].child # "none"
InPlace ==
    ~restarted /\ ~revivable =>
       \A j \in 1..Len(Order) : at = 1 \/ j < at => Propped(worker, Order[j])

SupervisorInv ==
    /\ SupervisorTypes /\ HeldWhole /\ ScopedHeld /\ AliveOwned /\ InPlace
    /\ \A s \in halted : Settled(worker[s])

-----------------------------------------------------------------------------
(* The supervisor: services and what they depend on. *)

LEMMA OrderFacts ==
    /\ Len(Order) \in Nat /\ Len(Order) >= 1
    /\ \A j \in 1..Len(Order) : Order[j] \in Service
    /\ \A s \in Service : \E j \in 1..Len(Order) : Order[j] = s
    /\ \A j \in 1..Len(Order) : \A d \in DependsOn[Order[j]] :
          \E i \in 1..Len(Order) : i < j /\ Order[i] = d
<1>1. Order \in Seq(Service) /\ ToSet(Order) = Service
  BY OrderAssumption DEF Validated
<1>2. Len(Order) \in Nat /\ \A j \in 1..Len(Order) : Order[j] \in Service
  BY <1>1
<1>3. \A s \in Service : \E j \in 1..Len(Order) : Order[j] = s
  BY <1>1 DEF ToSet
<1>4. Len(Order) >= 1
  <2>1. PICK s \in Service : TRUE
    BY ServiceAssumption
  <2>2. PICK j \in 1..Len(Order) : Order[j] = s
    BY <1>3
  <2>3. QED
    BY <1>2, <2>2
<1>5. \A j \in 1..Len(Order) : \A d \in DependsOn[Order[j]] :
         \E i \in 1..Len(Order) : i < j /\ Order[i] = d
  <2> SUFFICES ASSUME NEW j \in 1..Len(Order), NEW d \in DependsOn[Order[j]]
               PROVE  \E i \in 1..Len(Order) : i < j /\ Order[i] = d
    OBVIOUS
  <2>1. d \in Service
    BY <1>2, DefinitionAssumption
  <2>2. PICK i \in 1..Len(Order) : Order[i] = d
    BY <1>3, <2>1
  <2>3. QED
    BY <2>2, OrderAssumption DEF Validated
<1>6. QED
  BY <1>2, <1>3, <1>4, <1>5

LEMMA DependsWithin == \A s \in Service : DependsOn[s] \subseteq Service
  BY DefinitionAssumption

\* What is required has what it depends on, and nothing but that is added.
LEMMA RequiredFacts ==
    ASSUME NEW S, S \subseteq Service
    PROVE  S \subseteq Required(S) /\ Required(S) \subseteq Service /\ Closed(Required(S))
<1>1. S \subseteq Required(S) /\ Required(S) \subseteq Service
  BY DEF Required
<1>2. ASSUME NEW s \in Required(S), NEW d \in DependsOn[s] PROVE d \in Required(S)
  <2>1. d \in Service
    BY <1>1, DependsWithin
  <2>2. ASSUME NEW T \in SUBSET Service, S \subseteq T, Closed(T) PROVE d \in T
    <3>1. s \in T
      BY <2>2 DEF Required
    <3>2. QED
      BY <2>2, <3>1 DEF Closed
  <2>3. QED
    BY <2>1, <2>2 DEF Required
<1>3. QED
  BY <1>1, <1>2 DEF Closed

LEMMA RequiredOfClosed ==
    ASSUME NEW S, S \subseteq Service, Closed(S)
    PROVE  Required(S) = S
  BY DEF Required

LEMMA TargetsFacts ==
    ASSUME NEW names \in SUBSET Service
    PROVE  Targets(names) \subseteq Service /\ Closed(Targets(names))
<1>1. Closed(Service)
  BY DependsWithin DEF Closed
<1>2. QED
  BY <1>1, RequiredFacts DEF Targets

\* What is left when the dependents of services stop has what it depends on.
LEMMA DependentsFacts ==
    ASSUME NEW S, S \subseteq Service
    PROVE  Dependents(S) \subseteq Service /\ Closed(Service \ Dependents(S))
<1>1. ASSUME NEW s \in Service \ Dependents(S), NEW d \in DependsOn[s]
      PROVE  d \in Service \ Dependents(S)
  <2>1. PICK T \in SUBSET Service : S \subseteq T /\ Closed(Service \ T) /\ s \notin T
    BY DEF Dependents
  <2>2. d \in Service \ T
    BY <2>1 DEF Closed
  <2>3. QED
    BY <2>1, <2>2 DEF Dependents
<1>2. QED
  BY <1>1 DEF Closed, Dependents

LEMMA SelectedFacts ==
    ASSUME NEW names \in SUBSET Service
    PROVE  Selected(names) \subseteq Service /\ Closed(Service \ Selected(names))
<1>1. Closed(Service \ Service)
  BY DEF Closed
<1>2. QED
  BY <1>1, DependentsFacts DEF Selected

-----------------------------------------------------------------------------
(* The supervisor: what happens to a worker. *)

LEMMA StopGives ==
    ASSUME NEW w \in Records, NEW b \in BOOLEAN
    PROVE  /\ Stop(w, b) \in Records /\ Stop(w, b).child = "none" /\ Stop(w, b).desired = b
           /\ Stop(w, b).failures = w.failures
  BY DEF Records, Stop, State, Process

LEMMA StopSound ==
    ASSUME NEW w \in Records, NEW b \in BOOLEAN
    PROVE  Sound(Stop(w, b))
  BY StopGives DEF Sound

LEMMA ReadyGives ==
    ASSUME NEW w \in Records
    PROVE  /\ Ready(w) \in Records /\ Sound(Ready(w)) /\ Ready(w).child # "none"
           /\ Ready(w).failures = 0
<1> DEFINE v == Ready(w)
<1>1. v = [w EXCEPT !.child = "live", !.state = "running", !.desired = TRUE, !.failures = 0]
  BY DEF Ready
<1> HIDE DEF v
<1>2. v.child = "live" /\ v.state = "running" /\ v.desired /\ v.failures = 0
  BY <1>1 DEF Records
<1>3. v \in Records
  <2>1. "live" \in Process /\ "running" \in State /\ TRUE \in BOOLEAN /\ 0 \in 0..Threshold
    BY DEF Process, State, Threshold
  <2>2. QED
    BY <1>1, <2>1 DEF Records
<1>4. Sound(v)
  BY <1>2 DEF Sound, Threshold
<1>5. QED
  BY <1>2, <1>3, <1>4 DEF v

\* What a tick may make of a worker that had the process of w.
TickOf(s, w, v) ==
    /\ v \in Records /\ Sound(v)
    /\ v.child # "none" => DependenciesReady(s)
    /\ Alive(v) => Alive(w)
    /\ Settled(w) => Settled(v)

LEMMA ReapedGives ==
    ASSUME NEW s \in Service, NEW w \in Records, Sound(w)
    PROVE  /\ Reaped(s, w) \in Records /\ Sound(Reaped(s, w))
           /\ Alive(Reaped(s, w)) => Alive(w)
           /\ Reaped(s, w).child # "none" => Reaped(s, w) = w
           /\ Settled(w) => Reaped(s, w) = w
<1>1. CASE w.child \in {"none", "live"}
  <2>1. Reaped(s, w) = w
    BY <1>1 DEF Reaped
  <2>2. QED
    BY <2>1
<1>2. CASE w.child \notin {"none", "live"}
  <2> DEFINE r == Reaped(s, w)
  <2>1. r = [w EXCEPT !.child = "none", !.state = "exited", !.backoff = TRUE,
                      !.desired = w.desired /\ MayRestart(s, w.child)]
    BY <1>2 DEF Reaped
  <2>2. MayRestart(s, w.child) \in BOOLEAN
    BY DEF MayRestart
  <2>3. "none" \in Process /\ "exited" \in State
    BY DEF Process, State
  <2> HIDE DEF r
  <2>4. r.child = "none" /\ r.desired = (w.desired /\ MayRestart(s, w.child)) /\ r.failures = w.failures
    BY <2>1 DEF Records
  <2>5. r \in Records
    BY <2>1, <2>2, <2>3 DEF Records
  <2>6. Sound(r) /\ (Alive(r) => Alive(w))
    BY <2>4 DEF Sound, Alive
  <2>7. ~Settled(w)
    BY <1>2 DEF Settled
  <2>8. QED
    BY <2>4, <2>5, <2>6, <2>7 DEF r
<1>3. QED
  BY <1>1, <1>2

LEMMA ProbingsGive ==
    ASSUME NEW s \in Service, NEW w \in Records, Sound(w), NEW p \in Probings(s, w)
    PROVE  /\ p \in Records /\ p.child = w.child /\ p.state = w.state /\ p.desired = w.desired
           /\ Alive(p) => Alive(w)
           /\ w.child = "none" => p = w
<1>1. CASE p = w
  BY <1>1
<1>2. CASE p # w
  <2>1. w.child # "none" /\ p \in {[w EXCEPT !.failures = 0], [w EXCEPT !.failures = w.failures + 1]}
    BY <1>2 DEF Probings
  <2>2. w.failures \in 0..Threshold /\ w.failures < Threshold /\ w.desired
    BY <2>1 DEF Sound, Records
  <2>3. 0 \in 0..Threshold /\ w.failures + 1 \in 0..Threshold
    BY <2>2 DEF Threshold
  <2>4. p \in Records
    BY <2>1, <2>3 DEF Records
  <2>5. p.child = w.child /\ p.state = w.state /\ p.desired = w.desired
    BY <2>1 DEF Records
  <2>6. QED
    BY <2>1, <2>2, <2>4, <2>5 DEF Alive
<1>3. QED
  BY <1>1, <1>2

LEMMA JudgedGives ==
    ASSUME NEW s \in Service, NEW w \in Records,
           w.child # "none" => w.state = "running" /\ w.desired
    PROVE  /\ Judged(s, w) \in Records /\ Sound(Judged(s, w))
           /\ Alive(Judged(s, w)) => Alive(w)
           /\ Judged(s, w).child # "none" => w.child # "none"
           /\ Settled(w) => Judged(s, w) = w
<1>1. CASE w.failures < Threshold
  <2>1. Judged(s, w) = w
    BY <1>1 DEF Judged
  <2>2. QED
    BY <1>1, <2>1 DEF Sound
<1>2. CASE ~ (w.failures < Threshold)
  <2> DEFINE j == Judged(s, w)
  <2>1. j = [Stop(w, TRUE) EXCEPT !.state = "unhealthy", !.desired = (Policy[s] # "never")]
    BY <1>2 DEF Judged
  <2>2. "unhealthy" \in State /\ (Policy[s] # "never") \in BOOLEAN
    BY DEF State
  <2>3. Stop(w, TRUE) \in Records /\ Stop(w, TRUE).child = "none"
    BY StopGives
  <2> HIDE DEF j
  <2>4. j \in Records /\ j.child = "none"
    BY <2>1, <2>2, <2>3 DEF Records
  <2>5. Alive(w)
    <3>1. w.failures \in 0..Threshold /\ Threshold = 3
      BY DEF Records, Threshold
    <3>2. QED
      BY <1>2, <3>1 DEF Alive
  <2>6. QED
    BY <1>2, <2>4, <2>5 DEF Sound, Settled, j
<1>3. QED
  BY <1>1, <1>2

LEMMA CountedGives ==
    ASSUME NEW s \in Service, NEW w \in Records
    PROVE  /\ Counted(s, w) \in Records
           /\ Counted(s, w).desired = w.desired /\ Counted(s, w).failures = w.failures
<1>1. w.restarts \in Nat
  BY DEF Records
<1> DEFINE m == IF w.restarts < MaxRestarts[s] THEN w.restarts + 1 ELSE w.restarts
<1>2. Counted(s, w) = [w EXCEPT !.restarts = m]
  BY DEF Counted
<1>3. m \in Nat
  BY <1>1
<1> HIDE DEF m
<1>4. QED
  BY <1>2, <1>3 DEF Records

LEMMA RestartedGives ==
    ASSUME NEW s \in Service, NEW w \in Records, Sound(w), NEW v \in Restarted(s, w)
    PROVE  /\ v \in Records /\ Sound(v)
           /\ Alive(v) => Alive(w)
           /\ v.child # "none" => w.child # "none" \/ DependenciesReady(s)
           /\ Settled(w) => v = w
<1>1. CASE v = w
  BY <1>1
<1>2. CASE v # w
  <2>1. w.desired /\ w.child = "none" /\ DependenciesReady(s)
    BY <1>2 DEF Restarted
  <2>2. Alive(w) /\ ~Settled(w)
    BY <2>1 DEF Alive, Settled
  <2>3. CASE v = [w EXCEPT !.desired = FALSE, !.state = "failed"]
    <3>1. "failed" \in State
      BY DEF State
    <3>2. v \in Records /\ v.child = "none"
      BY <2>1, <2>3, <3>1 DEF Records
    <3>3. QED
      BY <2>2, <3>2 DEF Sound
  <2>4. CASE v = FailedAgain(Counted(s, w))
    <3>1. PICK u \in Records : u = Stop(Counted(s, w), TRUE)
      BY CountedGives, StopGives
    <3>2. u.child = "none"
      BY <3>1, CountedGives, StopGives
    <3>3. v = [u EXCEPT !.state = "failed", !.backoff = TRUE]
      BY <2>4, <3>1 DEF FailedAgain
    <3>4. "failed" \in State
      BY DEF State
    <3>5. v \in Records /\ v.child = "none"
      BY <3>2, <3>3, <3>4 DEF Records
    <3>6. QED
      BY <2>2, <3>5 DEF Sound
  <2>5. CASE v = Ready(Counted(s, w))
    BY <2>1, <2>2, <2>5, CountedGives, ReadyGives
  <2>6. v = [w EXCEPT !.desired = FALSE, !.state = "failed"] \/ v = FailedAgain(Counted(s, w))
           \/ v = Ready(Counted(s, w))
    BY <1>2 DEF Restarted
  <2>7. QED
    BY <2>3, <2>4, <2>5, <2>6
<1>3. QED
  BY <1>1, <1>2

\* A tick keeps a worker in order: it gives it a process only if what it depends on
\* has one and it was wanted or had been found unhealthy.
LEMMA OutcomesFollow ==
    ASSUME NEW s \in Service, NEW w \in Records, Sound(w), w = worker[s], NEW v \in Outcomes(s)
    PROVE  TickOf(s, w, v)
<1>1. CASE w.child # "none" /\ ~DependenciesReady(s)
  <2>1. v = Stop(w, TRUE)
    BY <1>1 DEF Outcomes
  <2>2. Alive(w) /\ ~Settled(w)
    BY <1>1 DEF Alive, Settled, Sound
  <2>3. QED
    BY <2>1, <2>2, StopGives, StopSound DEF TickOf
<1>2. CASE ~ (w.child # "none" /\ ~DependenciesReady(s))
  <2>1. PICK r : r = Reaped(s, w)
    OBVIOUS
  <2>2. PICK p \in Probings(s, r) : v \in Restarted(s, Judged(s, p))
    BY <1>2, <2>1 DEF Outcomes
  <2>3. PICK j : j = Judged(s, p)
    OBVIOUS
  <2>4. /\ r \in Records /\ Sound(r) /\ (Alive(r) => Alive(w))
        /\ r.child # "none" => r = w
        /\ Settled(w) => r = w
    BY <2>1, ReapedGives
  <2>5. /\ p \in Records /\ p.child = r.child /\ p.state = r.state /\ p.desired = r.desired
        /\ Alive(p) => Alive(r)
        /\ r.child = "none" => p = r
    BY <2>2, <2>4, ProbingsGive
  <2>6. p.child # "none" => p.state = "running" /\ p.desired
    BY <2>4, <2>5 DEF Sound
  <2>7. /\ j \in Records /\ Sound(j) /\ (Alive(j) => Alive(p))
        /\ j.child # "none" => p.child # "none"
        /\ Settled(p) => j = p
    BY <2>3, <2>5, <2>6, JudgedGives
  <2>8. /\ v \in Records /\ Sound(v) /\ (Alive(v) => Alive(j))
        /\ v.child # "none" => j.child # "none" \/ DependenciesReady(s)
        /\ Settled(j) => v = j
    BY <2>2, <2>3, <2>7, RestartedGives
  <2>9. Settled(w) => Settled(v)
    <3>1. Settled(w) => r = w /\ r.child = "none"
      BY <2>4 DEF Settled
    <3>2. QED
      BY <2>5, <2>7, <2>8, <3>1
  <2>10. v.child # "none" => DependenciesReady(s)
    BY <1>2, <2>4, <2>5, <2>7, <2>8
  <2>11. QED
    BY <2>4, <2>5, <2>7, <2>8, <2>9, <2>10 DEF TickOf
<1>3. QED
  BY <1>1, <1>2

-----------------------------------------------------------------------------
(* The supervisor: what starting services does to them. *)

\* Raised(ws, names, up): up is what `up' of the workers ws made of them.
Raised(ws, names, up) ==
    /\ up.ok \in BOOLEAN /\ up.started \subseteq Targets(names) /\ Fit(up.workers)
    /\ \A s \in Service : ws[s].child # "none" \/ s \notin Targets(names) => up.workers[s] = ws[s]
    /\ IF up.ok THEN \A s \in Targets(names) : up.workers[s].child # "none" ELSE up.started = {}
    /\ \A s \in Service :
          /\ up.workers[s].desired => ws[s].desired \/ (up.ok /\ s \in up.started)
          /\ ~up.ok => up.workers[s].child = ws[s].child
          /\ ~up.ok /\ Settled(ws[s]) => Settled(up.workers[s])

LEMMA AfreshGives ==
    ASSUME NEW w \in Records
    PROVE  LET a == [w EXCEPT !.restarts = 0] IN a \in Records /\ a.failures = w.failures
  BY DEF Records

LEMMA UpFails ==
    ASSUME NEW ws, Fit(ws), NEW names \in SUBSET Service, NEW f \in Targets(names), ws[f].child = "none",
           NEW up,
           LET todo == {s \in Targets(names) : ws[s].child = "none"}
               New(s) == [ws[s] EXCEPT !.restarts = 0] IN
           up = [ok |-> FALSE, started |-> {}, workers |-> [s \in Service |->
                    CASE s = f -> [Stop(New(s), FALSE) EXCEPT !.state = "failed"]
                      [] s \in todo \ {f} /\ Before(s, f) -> Stop(Ready(New(s)), FALSE)
                      [] OTHER -> ws[s]]]
    PROVE  Raised(ws, names, up)
<1> DEFINE vs == up.workers
           todo == {s \in Targets(names) : ws[s].child = "none"}
<1>1. up.ok = FALSE /\ up.started = {} /\ vs \in [Service -> {vs[s] : s \in Service}]
  OBVIOUS
<1>2. ASSUME NEW s \in Service
      PROVE  \/ s = f /\ vs[s] = [Stop([ws[s] EXCEPT !.restarts = 0], FALSE) EXCEPT !.state = "failed"]
             \/ s \in todo /\ vs[s] = Stop(Ready([ws[s] EXCEPT !.restarts = 0]), FALSE)
             \/ vs[s] = ws[s]
  <2>1. vs[s] = CASE s = f -> [Stop([ws[s] EXCEPT !.restarts = 0], FALSE) EXCEPT !.state = "failed"]
                  [] s \in todo \ {f} /\ Before(s, f) -> Stop(Ready([ws[s] EXCEPT !.restarts = 0]), FALSE)
                  [] OTHER -> ws[s]
    OBVIOUS
  <2> HIDE DEF vs, todo
  <2>2. CASE s = f
    BY <2>1, <2>2
  <2>3. CASE s \in todo \ {f} /\ Before(s, f)
    BY <2>1, <2>3
  <2>4. CASE s # f /\ ~ (s \in todo \ {f} /\ Before(s, f))
    BY <2>1, <2>4
  <2>5. QED
    BY <2>2, <2>3, <2>4
<1>3. Targets(names) \subseteq Service /\ f \in todo
  BY TargetsFacts
<1>7. \A s \in todo : s \in Targets(names) /\ ws[s].child = "none"
  OBVIOUS
<1> HIDE DEF vs, todo
<1>4. ASSUME NEW s \in Service
      PROVE  /\ vs[s] \in Records /\ Sound(vs[s])
             /\ \/ vs[s] = ws[s]
                \/ /\ s \in todo /\ vs[s].child = "none" /\ ~vs[s].desired
                   /\ Settled(ws[s]) => Settled(vs[s])
  <2>1. ws[s] \in Records /\ Sound(ws[s])
    BY DEF Fit
  <2>2. PICK a \in Records : a = [ws[s] EXCEPT !.restarts = 0] /\ a.failures = ws[s].failures
    BY <2>1, AfreshGives
  <2>3. CASE s = f /\ vs[s] = [Stop(a, FALSE) EXCEPT !.state = "failed"]
    <3>1. PICK b \in Records : b = Stop(a, FALSE) /\ b.child = "none" /\ b.desired = FALSE /\ b.failures = a.failures
      BY StopGives
    <3>2. "failed" \in State
      BY DEF State
    <3>3. vs[s] = [b EXCEPT !.state = "failed"]
      BY <2>3, <3>1
    <3>4. /\ vs[s] \in Records /\ vs[s].child = "none" /\ vs[s].desired = FALSE
          /\ vs[s].failures = ws[s].failures
      BY <2>2, <3>1, <3>2, <3>3 DEF Records
    <3>5. f \in todo /\ ~vs[s].desired
      BY <1>3, <3>4
    <3>6. QED
      BY <2>3, <3>4, <3>5 DEF Sound, Settled
  <2>4. CASE s \in todo /\ vs[s] = Stop(Ready(a), FALSE)
    <3>1. PICK r \in Records : r = Ready(a) /\ r.failures = 0
      BY ReadyGives
    <3>2. /\ vs[s] \in Records /\ vs[s].child = "none" /\ vs[s].desired = FALSE /\ vs[s].failures = 0
      BY <2>4, <3>1, StopGives
    <3>3. ~vs[s].desired /\ vs[s].failures < Threshold
      BY <3>2 DEF Threshold
    <3>4. QED
      BY <2>4, <3>2, <3>3 DEF Sound, Settled
  <2>5. QED
    BY <1>2, <2>1, <2>2, <2>3, <2>4
<1>5. Fit(vs)
  BY <1>1, <1>4 DEF Fit
<1>6. QED
  BY <1>1, <1>3, <1>4, <1>5, <1>7 DEF Raised, vs

LEMMA UpSucceeds ==
    ASSUME NEW ws, Fit(ws), NEW names \in SUBSET Service, NEW up,
           LET todo == {s \in Targets(names) : ws[s].child = "none"}
               New(s) == [ws[s] EXCEPT !.restarts = 0] IN
           up = [ok |-> TRUE, started |-> todo,
                 workers |-> [s \in Service |-> IF s \in todo THEN Ready(New(s)) ELSE ws[s]]]
    PROVE  Raised(ws, names, up)
<1> DEFINE vs == up.workers
           todo == {s \in Targets(names) : ws[s].child = "none"}
<1>1. up.ok = TRUE /\ up.started = todo /\ vs \in [Service -> {vs[s] : s \in Service}]
  OBVIOUS
<1>2. ASSUME NEW s \in Service
      PROVE  vs[s] = IF s \in todo THEN Ready([ws[s] EXCEPT !.restarts = 0]) ELSE ws[s]
  OBVIOUS
<1>3. Targets(names) \subseteq Service
  BY TargetsFacts
<1> HIDE DEF vs
<1>4. ASSUME NEW s \in Service
      PROVE  /\ vs[s] \in Records /\ Sound(vs[s])
             /\ IF s \in todo THEN vs[s].child # "none" ELSE vs[s] = ws[s]
  <2>1. ws[s] \in Records /\ Sound(ws[s])
    BY DEF Fit
  <2>2. PICK a \in Records : a = [ws[s] EXCEPT !.restarts = 0]
    BY <2>1, AfreshGives
  <2>3. QED
    BY <1>2, <2>1, <2>2, ReadyGives
<1>5. Fit(vs)
  BY <1>1, <1>4 DEF Fit
<1>6. QED
  BY <1>1, <1>3, <1>4, <1>5 DEF Raised, vs

LEMMA UpRaises ==
    ASSUME NEW ws, Fit(ws), NEW names \in SUBSET Service, NEW up \in Up(ws, names)
    PROVE  Raised(ws, names, up)
<1> DEFINE todo == {s \in Targets(names) : ws[s].child = "none"}
           New(s) == [ws[s] EXCEPT !.restarts = 0]
           Rollback(f) == [s \in Service |->
                CASE s = f -> [Stop(New(s), FALSE) EXCEPT !.state = "failed"]
                  [] s \in todo \ {f} /\ Before(s, f) -> Stop(Ready(New(s)), FALSE)
                  [] OTHER -> ws[s]]
<1>1. \/ \E f \in todo : up = [ok |-> FALSE, started |-> {}, workers |-> Rollback(f)]
      \/ up = [ok |-> TRUE, started |-> todo,
               workers |-> [s \in Service |-> IF s \in todo THEN Ready(New(s)) ELSE ws[s]]]
  BY DEF Up
<1>2. ASSUME NEW f \in todo, up = [ok |-> FALSE, started |-> {}, workers |-> Rollback(f)]
      PROVE  Raised(ws, names, up)
  <2>1. f \in Targets(names) /\ ws[f].child = "none"
    OBVIOUS
  <2>2. QED
    BY <1>2, <2>1, UpFails
<1>3. ASSUME up = [ok |-> TRUE, started |-> todo,
               workers |-> [s \in Service |-> IF s \in todo THEN Ready(New(s)) ELSE ws[s]]]
      PROVE  Raised(ws, names, up)
  BY <1>3, UpSucceeds
<1>4. QED
  BY <1>1, <1>2, <1>3

-----------------------------------------------------------------------------
(* The supervisor: requests. *)

LEMMA ProppedInOrder ==
    ASSUME NEW ws
    PROVE  (\A j \in 1..Len(Order) : Propped(ws, Order[j])) <=> (\A s \in Service : Propped(ws, s))
  BY OrderFacts, Zenon

\* A request is served between ticks, and what it leaves to nobody is remembered.
LEMMA RequestKeeps ==
    ASSUME NEW ws, ws = worker', Fit(ws), SupervisorInv, at = 1, at' = at, manager' = manager,
           shutdown' \in BOOLEAN, restarted' \in BOOLEAN, leases' \in [Service -> SUBSET Token],
           scoped' \subseteq Service, manual' \subseteq Service, halted' \subseteq Service, Forgets,
           ~restarted' => Closed(manual'),
           \A t \in Token : Closed({s \in Service : t \in leases'[s]}),
           \A s \in scoped' : s \in manual' \/ leases'[s] # {},
           ~restarted' /\ ~revivable =>
              \A s \in Service : (ws[s].desired => s \in scoped' \cup manual') /\ Propped(ws, s),
           \A s \in halted' : Settled(ws[s])
    PROVE  SupervisorInv'
<1>1. revivable' \in BOOLEAN /\ (~revivable' => ~revivable)
  BY DEF Forgets, SupervisorInv, SupervisorTypes
<1>2. ~revivable' => \A s \in Service : ws[s].failures >= Threshold => s \in scoped' \cup manual'
  BY DEF Forgets
<1>3. SupervisorTypes'
  BY <1>1 DEF SupervisorInv, SupervisorTypes
<1>4. HeldWhole'
  BY DEF HeldWhole, LeasedBy
<1>5. ScopedHeld'
  BY DEF ScopedHeld
<1>6. AliveOwned'
  BY <1>1, <1>2 DEF AliveOwned, Alive
<1>7. InPlace'
  <2> SUFFICES ASSUME ~restarted', ~revivable', NEW j \in 1..Len(Order) PROVE Propped(ws, Order[j])
    BY DEF InPlace
  <2>1. \A s \in Service : Propped(ws, s)
    BY <1>1
  <2>2. QED
    BY <2>1, OrderFacts, Zenon
<1>8. QED
  BY <1>3, <1>4, <1>5, <1>6, <1>7 DEF SupervisorInv

LEMMA BetweenTicks ==
    ASSUME SupervisorInv, at = 1, ~restarted, ~revivable
    PROVE  \A s \in Service : Propped(worker, s) /\ (Alive(worker[s]) => s \in scoped \cup manual)
<1>1. \A j \in 1..Len(Order) : Propped(worker, Order[j])
  BY DEF SupervisorInv, InPlace
<1>2. QED
  BY <1>1, ProppedInOrder DEF SupervisorInv, AliveOwned

LEMMA ClosedUnion == ASSUME NEW S, NEW T, Closed(S), Closed(T) PROVE Closed(S \cup T)
  BY DEF Closed

LEMMA RaisedPropped ==
    ASSUME NEW ws, NEW names \in SUBSET Service, NEW up, Raised(ws, names, up),
           \A s \in Service : Propped(ws, s)
    PROVE  \A s \in Service : Propped(up.workers, s)
<1> SUFFICES ASSUME NEW s \in Service, up.workers[s].child # "none", NEW d \in DependsOn[s]
             PROVE  up.workers[d].child # "none"
  BY DEF Propped
<1>1. d \in Service
  BY DependsWithin
<1>2. CASE up.ok /\ s \in Targets(names)
  <2>1. d \in Targets(names)
    BY <1>2, TargetsFacts DEF Closed
  <2>2. QED
    BY <1>2, <2>1 DEF Raised
<1>3. CASE ~ (up.ok /\ s \in Targets(names))
  <2>1. ws[s].child # "none"
    BY <1>3 DEF Raised
  <2>2. ws[d].child # "none"
    BY <2>1 DEF Propped
  <2>3. QED
    BY <1>1, <2>2 DEF Raised
<1>4. QED
  BY <1>2, <1>3

LEMMA StartManuallyKeeps ==
    ASSUME SupervisorInv, at = 1, NEW ws, Fit(ws), NEW names \in SUBSET Service, StartManually(ws, names),
           \A s \in Service : /\ ws[s].child = worker[s].child
                              /\ ws[s].desired => worker[s].desired
                              /\ Settled(worker[s]) => Settled(ws[s])
    PROVE  SupervisorInv'
<1>1. PICK up \in Up(ws, names) :
         /\ worker' = up.workers
         /\ manual' = IF up.ok THEN manual \cup Targets(names) ELSE manual
         /\ halted' = IF up.ok THEN halted \ Targets(names) ELSE halted
  BY DEF StartManually
<1>2. Raised(ws, names, up)
  BY UpRaises
<1>3. PICK vs : vs = up.workers
  OBVIOUS
<1>4. UNCHANGED <<leases, scoped, restarted, shutdown, at, manager>> /\ Forgets
  BY DEF StartManually
<1>5. Targets(names) \subseteq Service /\ Closed(Targets(names))
  BY TargetsFacts
<1>6. vs = worker' /\ Fit(vs)
  BY <1>1, <1>2, <1>3 DEF Raised
<1>7. /\ shutdown' \in BOOLEAN /\ restarted' \in BOOLEAN /\ leases' \in [Service -> SUBSET Token]
      /\ scoped' \subseteq Service /\ manual' \subseteq Service /\ halted' \subseteq Service
  BY <1>1, <1>4, <1>5 DEF SupervisorInv, SupervisorTypes
<1>8. ~restarted' => Closed(manual')
  BY <1>1, <1>4, <1>5, ClosedUnion DEF SupervisorInv, HeldWhole
<1>9. \A t \in Token : Closed({s \in Service : t \in leases'[s]})
  BY <1>4 DEF SupervisorInv, HeldWhole, LeasedBy
<1>10. \A s \in scoped' : s \in manual' \/ leases'[s] # {}
  BY <1>1, <1>4 DEF SupervisorInv, ScopedHeld
<1>11. ASSUME ~restarted', ~revivable
       PROVE  \A s \in Service : (vs[s].desired => s \in scoped' \cup manual') /\ Propped(vs, s)
  <2>1. \A s \in Service : Propped(worker, s) /\ (Alive(worker[s]) => s \in scoped \cup manual)
    BY <1>4, <1>11, BetweenTicks
  <2>2. \A s \in Service : Propped(ws, s)
    BY <2>1, DependsWithin DEF Propped
  <2>3. \A s \in Service : Propped(vs, s)
    BY <1>2, <1>3, <2>2, RaisedPropped
  <2>4. ASSUME NEW s \in Service, vs[s].desired PROVE s \in scoped' \cup manual'
    <3>1. worker[s].desired \/ (up.ok /\ s \in Targets(names))
      BY <1>2, <1>3, <2>4 DEF Raised
    <3>2. QED
      BY <1>1, <1>4, <2>1, <3>1 DEF Alive
  <2>5. QED
    BY <2>3, <2>4
<1>12. ASSUME NEW s \in halted' PROVE Settled(vs[s])
  <2>1. s \in halted /\ s \in Service
    BY <1>1, <1>7, <1>12
  <2>2. Settled(ws[s])
    BY <2>1 DEF SupervisorInv
  <2>3. QED
    BY <1>1, <1>2, <1>3, <1>12, <2>1, <2>2 DEF Raised
<1>13. QED
  BY <1>4, <1>6, <1>7, <1>8, <1>9, <1>10, <1>11, <1>12, RequestKeeps

LEMMA UpKeeps ==
    ASSUME SupervisorInv, NEW names \in SUBSET Service, UpRequest(names)
    PROVE  SupervisorInv'
<1>1. at = 1 /\ StartManually(worker, names) /\ Fit(worker)
  BY DEF UpRequest, Accepted, SupervisorInv, SupervisorTypes
<1>2. QED
  BY <1>1, StartManuallyKeeps

LEMMA ApplyKeeps ==
    ASSUME SupervisorInv, NEW names \in SUBSET Service, ApplyRequest(names)
    PROVE  SupervisorInv'
<1> DEFINE ws == [s \in Service |-> IF s \in names /\ worker[s].child = "none"
                                    THEN Stopped ELSE worker[s]]
<1>1. at = 1 /\ StartManually(ws, names) /\ Fit(worker)
  BY DEF ApplyRequest, Accepted, SupervisorInv, SupervisorTypes
<1>2. Stopped \in Records /\ Sound(Stopped) /\ Settled(Stopped) /\ Stopped.child = "none" /\ ~Stopped.desired
  BY DEF Stopped, Records, Process, State, Threshold, Sound, Settled
<1>3. \A s \in Service : IF s \in names /\ worker[s].child = "none"
                         THEN ws[s] = Stopped ELSE ws[s] = worker[s]
  OBVIOUS
<1>4. ws \in [Service -> {ws[s] : s \in Service}]
  OBVIOUS
<1> HIDE DEF ws
<1>5. Fit(ws)
  BY <1>1, <1>2, <1>3, <1>4 DEF Fit
<1>6. \A s \in Service : /\ ws[s].child = worker[s].child
                         /\ ws[s].desired => worker[s].desired
                         /\ Settled(worker[s]) => Settled(ws[s])
  BY <1>2, <1>3
<1>7. QED
  BY <1>1, <1>5, <1>6, StartManuallyKeeps

LEMMA AcquireKeeps ==
    ASSUME SupervisorInv, NEW t \in Token, NEW names \in SUBSET Service, Acquire(t, names)
    PROVE  SupervisorInv'
<1>1. PICK up \in Up(worker, names) :
         /\ worker' = up.workers /\ scoped' = scoped \cup up.started
         /\ leases' = IF up.ok THEN Lease(t, names) ELSE leases
         /\ halted' = IF up.ok THEN halted \ Targets(names) ELSE halted
  BY DEF Acquire
<1>2. at = 1 /\ Fit(worker)
  BY DEF Acquire, Accepted, SupervisorInv, SupervisorTypes
<1>3. Raised(worker, names, up)
  BY <1>2, UpRaises
<1>4. UNCHANGED <<manual, restarted, shutdown, at, manager>> /\ Forgets
  BY DEF Acquire
<1>5. Targets(names) \subseteq Service /\ Closed(Targets(names))
  BY TargetsFacts
<1>6. PICK vs : vs = up.workers
  OBVIOUS
<1>7. vs = worker' /\ Fit(vs)
  BY <1>1, <1>3, <1>6 DEF Raised
<1>8. leases \in [Service -> SUBSET Token]
  BY DEF SupervisorInv, SupervisorTypes
<1>9. PICK granted : granted = leases'
  OBVIOUS
<1>10. /\ granted \in [Service -> SUBSET Token]
       /\ \A s \in Service :
             granted[s] = IF up.ok /\ s \in Targets(names) THEN leases[s] \cup {t} ELSE leases[s]
  <2>1. CASE up.ok
    <3>1. granted = [s \in Service |-> IF s \in Targets(names) THEN leases[s] \cup {t} ELSE leases[s]]
      BY <1>1, <1>9, <2>1 DEF Lease
    <3>2. QED
      BY <1>8, <2>1, <3>1
  <2>2. CASE ~up.ok
    BY <1>1, <1>8, <1>9, <2>2
  <2>3. QED
    BY <2>1, <2>2
<1>11. /\ shutdown' \in BOOLEAN /\ restarted' \in BOOLEAN
       /\ manual' \subseteq Service /\ halted' \subseteq Service
  BY <1>1, <1>4 DEF SupervisorInv, SupervisorTypes
<1>12. up.started \subseteq Targets(names) /\ scoped' \subseteq Service
  BY <1>1, <1>3, <1>5 DEF Raised, SupervisorInv, SupervisorTypes
<1>13. ~restarted' => Closed(manual')
  BY <1>4 DEF SupervisorInv, HeldWhole
<1>14. ASSUME NEW r \in Token PROVE Closed({s \in Service : r \in granted[s]})
  <2>1. Closed({s \in Service : r \in leases[s]})
    BY DEF SupervisorInv, HeldWhole, LeasedBy
  <2>2. CASE up.ok /\ r = t
    <3>1. {s \in Service : r \in granted[s]} = {s \in Service : r \in leases[s]} \cup Targets(names)
      BY <1>5, <1>9, <1>10, <2>2
    <3>2. QED
      BY <1>5, <2>1, <3>1, ClosedUnion
  <2>3. CASE ~ (up.ok /\ r = t)
    <3>1. {s \in Service : r \in granted[s]} = {s \in Service : r \in leases[s]}
      BY <1>9, <1>10, <2>3
    <3>2. QED
      BY <2>1, <3>1
  <2>4. QED
    BY <2>2, <2>3
<1>15. ASSUME NEW s \in scoped' PROVE s \in manual' \/ granted[s] # {}
  <2>1. s \in Service
    BY <1>12
  <2>2. CASE s \in scoped
    BY <1>4, <1>9, <1>10, <2>1, <2>2 DEF SupervisorInv, ScopedHeld
  <2>3. CASE s \in up.started
    <3>1. up.ok
      BY <1>3, <2>3 DEF Raised
    <3>2. QED
      BY <1>9, <1>10, <1>12, <2>1, <2>3, <3>1
  <2>4. QED
    BY <1>1, <2>2, <2>3
<1>16. ASSUME ~restarted', ~revivable
       PROVE  \A s \in Service : (vs[s].desired => s \in scoped' \cup manual') /\ Propped(vs, s)
  <2>1. \A s \in Service : Propped(worker, s) /\ (Alive(worker[s]) => s \in scoped \cup manual)
    BY <1>2, <1>4, <1>16, BetweenTicks
  <2>2. \A s \in Service : Propped(worker, s)
    BY <2>1
  <2>3. \A s \in Service : Propped(vs, s)
    BY <1>3, <1>6, <2>2, RaisedPropped
  <2>4. ASSUME NEW s \in Service, vs[s].desired PROVE s \in scoped' \cup manual'
    <3>1. worker[s].desired \/ s \in up.started
      BY <1>3, <1>6, <2>4 DEF Raised
    <3>2. QED
      BY <1>1, <1>4, <2>1, <3>1 DEF Alive
  <2>5. QED
    BY <2>3, <2>4
<1>17. ASSUME NEW s \in halted' PROVE Settled(vs[s])
  <2>1. s \in halted /\ s \in Service
    BY <1>1, <1>11, <1>17
  <2>2. Settled(worker[s])
    BY <2>1 DEF SupervisorInv
  <2>3. QED
    BY <1>1, <1>3, <1>6, <1>17, <2>1, <2>2 DEF Raised
<1>18. QED
  BY <1>2, <1>4, <1>7, <1>9, <1>10, <1>11, <1>12, <1>13, <1>14, <1>15, <1>16, <1>17, RequestKeeps

\* Stops(ws, S): S has no process and is not wanted, and the rest is as it was.
LEMMA StopsGive ==
    ASSUME NEW ws, Fit(ws), NEW S, S \subseteq Service
    PROVE  /\ Fit(Stops(ws, S))
           /\ \A s \in Service \ S : Stops(ws, S)[s] = ws[s]
           /\ \A s \in S : /\ Stops(ws, S)[s].child = "none" /\ ~Stops(ws, S)[s].desired
                           /\ Stops(ws, S)[s].failures = ws[s].failures
<1>1. PICK vs : vs = Stops(ws, S)
  OBVIOUS
<1>2. /\ vs \in [Service -> {vs[s] : s \in Service}]
      /\ \A s \in Service : vs[s] = IF s \in S THEN Stop(ws[s], FALSE) ELSE ws[s]
  BY <1>1 DEF Stops
<1>3. ASSUME NEW s \in Service
      PROVE  /\ vs[s] \in Records /\ Sound(vs[s])
             /\ s \notin S => vs[s] = ws[s]
             /\ s \in S => vs[s].child = "none" /\ vs[s].desired = FALSE /\ vs[s].failures = ws[s].failures
  <2>1. ws[s] \in Records /\ Sound(ws[s])
    BY DEF Fit
  <2>2. CASE s \in S
    BY <1>2, <2>1, <2>2, StopGives, StopSound
  <2>3. CASE s \notin S
    BY <1>2, <2>1, <2>3
  <2>4. QED
    BY <2>2, <2>3
<1>4. Fit(vs)
  BY <1>2, <1>3 DEF Fit
<1>5. \A s \in S : vs[s].child = "none" /\ ~vs[s].desired /\ vs[s].failures = ws[s].failures
  BY <1>3
<1>6. QED
  BY <1>1, <1>3, <1>4, <1>5

\* Whatever S is dropped with all that depends on it, what is left is propped.
LEMMA StopsPropped ==
    ASSUME NEW ws, Fit(ws), NEW S, S \subseteq Service, \A s \in Service : Propped(ws, s),
           \A s \in Service \ S : ws[s].child # "none" => DependsOn[s] \cap S = {}
    PROVE  \A s \in Service : Propped(Stops(ws, S), s)
<1>1. PICK vs : vs = Stops(ws, S)
  OBVIOUS
<1>2. /\ \A s \in Service \ S : vs[s] = ws[s]
      /\ \A s \in S : vs[s].child = "none"
  BY <1>1, StopsGive
<1>3. ASSUME NEW s \in Service, vs[s].child # "none", NEW d \in DependsOn[s] PROVE vs[d].child # "none"
  <2>1. s \in Service \ S /\ ws[s].child # "none" /\ d \in Service
    BY <1>2, <1>3, DependsWithin
  <2>2. ws[d].child # "none" /\ d \notin S
    BY <2>1 DEF Propped
  <2>3. QED
    BY <1>2, <2>1, <2>2
<1>4. QED
  BY <1>1, <1>3 DEF Propped

\* What Wanted is while clients hold what they need.
LEMMA HeldClosed ==
    ASSUME NEW has, \A t \in Token : Closed({s \in Service : t \in has[s]}),
           has \in [Service -> SUBSET Token]
    PROVE  Closed({s \in Service : has[s] # {}})
<1> SUFFICES ASSUME NEW s \in Service, has[s] # {}, NEW d \in DependsOn[s]
             PROVE  d \in Service /\ has[d] # {}
  BY DEF Closed
<1>1. PICK t \in Token : t \in has[s]
  OBVIOUS
<1>2. d \in {e \in Service : t \in has[e]}
  BY <1>1 DEF Closed
<1>3. QED
  BY <1>2

LEMMA ReleaseKeeps ==
    ASSUME SupervisorInv, NEW t \in Token, Release(t)
    PROVE  SupervisorInv'
<1>1. PICK has : has = leases'
  OBVIOUS
<1>2. leases \in [Service -> SUBSET Token]
  BY DEF SupervisorInv, SupervisorTypes
<1>3. has \in [Service -> SUBSET Token] /\ \A s \in Service : has[s] = leases[s] \ {t}
  BY <1>1, <1>2 DEF Release
<1>4. PICK S : S = Released
  OBVIOUS
<1>5. S = {s \in scoped \ manual : has[s] = {}} /\ S \subseteq Service
  BY <1>1, <1>4 DEF Released, SupervisorInv, SupervisorTypes
<1>6. /\ worker' = Stops(worker, S) /\ scoped' = scoped \ S /\ at = 1
      /\ UNCHANGED <<manual, halted, restarted, at, manager>> /\ Forgets
  BY <1>4 DEF Release, Accepted
<1>7. shutdown' \in BOOLEAN
  BY DEF Release
<1>8. Fit(worker) /\ scoped \subseteq Service /\ manual \subseteq Service /\ halted \subseteq Service
  BY DEF SupervisorInv, SupervisorTypes
<1>9. PICK vs : vs = worker'
  OBVIOUS
<1>10. /\ Fit(vs) /\ vs = Stops(worker, S)
       /\ \A s \in Service \ S : vs[s] = worker[s]
       /\ \A s \in S : vs[s].child = "none" /\ ~vs[s].desired /\ vs[s].failures = worker[s].failures
  BY <1>5, <1>6, <1>8, <1>9, StopsGive
<1>11. restarted' \in BOOLEAN /\ (~restarted' => Closed(manual'))
  BY <1>6 DEF SupervisorInv, SupervisorTypes, HeldWhole
<1>12. ASSUME NEW r \in Token PROVE Closed({s \in Service : r \in has[s]})
  <2>1. Closed({s \in Service : r \in leases[s]})
    BY DEF SupervisorInv, HeldWhole, LeasedBy
  <2>2. CASE r = t
    <3>1. {s \in Service : r \in has[s]} = {}
      BY <1>3, <2>2
    <3>2. QED
      BY <3>1 DEF Closed
  <2>3. CASE r # t
    <3>1. {s \in Service : r \in has[s]} = {s \in Service : r \in leases[s]}
      BY <1>3, <2>3
    <3>2. QED
      BY <2>1, <3>1
  <2>4. QED
    BY <2>2, <2>3
<1>13. \A s \in scoped' : s \in manual' \/ has[s] # {}
  BY <1>5, <1>6
<1>14. ASSUME ~restarted', ~revivable
       PROVE  \A s \in Service : (vs[s].desired => s \in scoped' \cup manual') /\ Propped(vs, s)
  <2>1. \A s \in Service : Propped(worker, s) /\ (Alive(worker[s]) => s \in scoped \cup manual)
    BY <1>6, <1>14, BetweenTicks
  <2>2. Closed(manual) /\ Closed({s \in Service : has[s] # {}})
    BY <1>3, <1>6, <1>12, <1>14, HeldClosed DEF SupervisorInv, HeldWhole
  <2>3. ASSUME NEW s \in Service \ S, worker[s].child # "none" PROVE DependsOn[s] \cap S = {}
    <3>1. worker[s].desired
      BY <1>8, <2>3 DEF Fit, Sound
    <3>2. s \in manual \/ s \in scoped \ manual
      BY <2>1, <3>1 DEF Alive
    <3>3. s \in manual \/ has[s] # {}
      BY <1>5, <3>2
    <3>4. \A d \in DependsOn[s] : d \in manual \/ has[d] # {}
      BY <2>2, <3>3 DEF Closed
    <3>5. QED
      BY <1>5, <3>4
  <2>4. \A s \in Service : Propped(vs, s)
    BY <1>5, <1>8, <1>10, <2>1, <2>3, StopsPropped
  <2>5. ASSUME NEW s \in Service, vs[s].desired PROVE s \in scoped' \cup manual'
    <3>1. s \notin S /\ worker[s].desired
      BY <1>10, <2>5
    <3>2. QED
      BY <1>6, <2>1, <3>1 DEF Alive
  <2>6. QED
    BY <2>4, <2>5
<1>15. ASSUME NEW s \in halted' PROVE Settled(vs[s])
  <2>1. s \in Service /\ Settled(worker[s])
    BY <1>6, <1>8, <1>15 DEF SupervisorInv
  <2>2. QED
    BY <1>10, <2>1 DEF Settled
<1>16. /\ leases' \in [Service -> SUBSET Token]
       /\ \A r \in Token : Closed({s \in Service : r \in leases'[s]})
       /\ \A s \in scoped' : s \in manual' \/ leases'[s] # {}
  BY <1>1, <1>3, <1>12, <1>13
<1>17. scoped' \subseteq Service /\ manual' \subseteq Service /\ halted' \subseteq Service
  BY <1>6, <1>8
<1>18. QED
  BY <1>6, <1>7, <1>9, <1>10, <1>11, <1>14, <1>15, <1>16, <1>17, RequestKeeps

LEMMA HealthySettled ==
    ASSUME SupervisorInv, NEW S, S \subseteq Service
    PROVE  \A s \in halted \cup Healthy(S) : s \in Service /\ Settled(Stops(worker, S)[s])
<1>1. PICK vs : vs = Stops(worker, S)
  OBVIOUS
<1>2. Fit(worker) /\ halted \subseteq Service /\ \A s \in halted : Settled(worker[s])
  BY DEF SupervisorInv, SupervisorTypes
<1>3. /\ \A s \in Service \ S : vs[s] = worker[s]
      /\ \A s \in S : vs[s].child = "none" /\ ~vs[s].desired /\ vs[s].failures = worker[s].failures
  BY <1>1, <1>2, StopsGive
<1>4. ASSUME NEW s \in halted PROVE s \in Service /\ Settled(vs[s])
  BY <1>2, <1>3 DEF Settled
<1>5. ASSUME NEW s \in Healthy(S) PROVE s \in Service /\ Settled(vs[s])
  BY <1>3 DEF Settled, Healthy
<1>6. QED
  BY <1>1, <1>4, <1>5

LEMMA StopKeeps ==
    ASSUME SupervisorInv, NEW names \in SUBSET Service, StopRequest(names)
    PROVE  SupervisorInv'
<1>1. PICK S : S = Selected(names)
  OBVIOUS
<1>2. S \subseteq Service /\ Closed(Service \ S)
  BY <1>1, SelectedFacts
<1>3. /\ worker' = Stops(worker, S) /\ halted' = halted \cup Healthy(S)
      /\ manual' = manual \ S /\ scoped' = scoped \ S /\ at = 1
      /\ UNCHANGED <<leases, restarted, shutdown, at, manager>> /\ Forgets
  BY <1>1 DEF StopRequest, Accepted
<1>4. /\ Fit(worker) /\ scoped \subseteq Service /\ manual \subseteq Service
      /\ shutdown \in BOOLEAN /\ restarted \in BOOLEAN /\ leases \in [Service -> SUBSET Token]
  BY DEF SupervisorInv, SupervisorTypes
<1>5. PICK vs : vs = worker'
  OBVIOUS
<1>6. /\ Fit(vs) /\ vs = Stops(worker, S)
      /\ \A s \in Service \ S : vs[s] = worker[s]
      /\ \A s \in S : ~vs[s].desired
  BY <1>2, <1>3, <1>4, <1>5, StopsGive
<1>7. ~restarted' => Closed(manual')
  <2> SUFFICES ASSUME ~restarted, NEW s \in manual \ S, NEW d \in DependsOn[s] PROVE d \in manual \ S
    BY <1>3 DEF Closed
  <2>1. d \in manual
    BY DEF SupervisorInv, HeldWhole, Closed
  <2>2. s \in Service \ S
    BY <1>4
  <2>3. d \in Service \ S
    BY <1>2, <2>2 DEF Closed
  <2>4. QED
    BY <2>1, <2>3
<1>8. \A t \in Token : Closed({s \in Service : t \in leases'[s]})
  BY <1>3 DEF SupervisorInv, HeldWhole, LeasedBy
<1>9. \A s \in scoped' : s \in manual' \/ leases'[s] # {}
  BY <1>3 DEF SupervisorInv, ScopedHeld
<1>10. ASSUME ~restarted', ~revivable
       PROVE  \A s \in Service : (vs[s].desired => s \in scoped' \cup manual') /\ Propped(vs, s)
  <2>1. \A s \in Service : Propped(worker, s) /\ (Alive(worker[s]) => s \in scoped \cup manual)
    BY <1>3, <1>10, BetweenTicks
  <2>2. \A s \in Service \ S : DependsOn[s] \cap S = {}
    BY <1>2 DEF Closed
  <2>3. \A s \in Service : Propped(vs, s)
    BY <1>2, <1>4, <1>6, <2>1, <2>2, StopsPropped
  <2>4. ASSUME NEW s \in Service, vs[s].desired PROVE s \in scoped' \cup manual'
    <3>1. s \notin S /\ worker[s].desired
      BY <1>6, <2>4
    <3>2. QED
      BY <1>3, <2>1, <3>1 DEF Alive
  <2>5. QED
    BY <2>3, <2>4
<1>11. \A s \in halted' : s \in Service /\ Settled(vs[s])
  BY <1>2, <1>3, <1>6, HealthySettled
<1>12. /\ scoped' \subseteq Service /\ manual' \subseteq Service /\ halted' \subseteq Service
       /\ shutdown' \in BOOLEAN /\ restarted' \in BOOLEAN /\ leases' \in [Service -> SUBSET Token]
  BY <1>3, <1>4, <1>11
<1>13. QED
  BY <1>3, <1>5, <1>6, <1>7, <1>8, <1>9, <1>10, <1>11, <1>12, RequestKeeps

LEMMA DownKeeps ==
    ASSUME SupervisorInv, Down
    PROVE  SupervisorInv'
<1>1. /\ worker' = Stops(worker, Service) /\ halted' = halted \cup Healthy(Service)
      /\ manual' = {} /\ scoped' = {} /\ at = 1 /\ shutdown' = TRUE
      /\ UNCHANGED <<leases, restarted, at, manager>> /\ Forgets
  BY DEF Down, Accepted
<1>2. Fit(worker) /\ restarted \in BOOLEAN /\ leases \in [Service -> SUBSET Token]
  BY DEF SupervisorInv, SupervisorTypes
<1>3. PICK vs : vs = worker'
  OBVIOUS
<1>4. /\ Fit(vs) /\ vs = Stops(worker, Service)
      /\ \A s \in Service : ~vs[s].desired /\ vs[s].child = "none"
  BY <1>1, <1>2, <1>3, StopsGive
<1>5. \A s \in Service : Propped(vs, s)
  BY <1>4 DEF Propped
<1>6. Closed(manual') /\ \A t \in Token : Closed({s \in Service : t \in leases'[s]})
  BY <1>1 DEF SupervisorInv, HeldWhole, LeasedBy, Closed
<1>7. \A s \in halted' : s \in Service /\ Settled(vs[s])
  BY <1>1, <1>4, HealthySettled
<1>8. /\ scoped' \subseteq Service /\ manual' \subseteq Service /\ halted' \subseteq Service
      /\ shutdown' \in BOOLEAN /\ restarted' \in BOOLEAN /\ leases' \in [Service -> SUBSET Token]
      /\ \A s \in scoped' : s \in manual' \/ leases'[s] # {}
  BY <1>1, <1>2, <1>7
<1>9. QED
  BY <1>1, <1>3, <1>4, <1>5, <1>6, <1>7, <1>8, RequestKeeps

LEMMA RestartKeeps ==
    ASSUME SupervisorInv, NEW names \in SUBSET Service, RestartRequest(names)
    PROVE  SupervisorInv'
<1> DEFINE S == Selected(names)
           again == {s \in S : worker[s].desired \/ s \in names}
<1>1. PICK up \in Up(Stops(worker, S), again) :
         /\ worker' = up.workers
         /\ manual' = (manual \ S) \cup (IF up.ok THEN again ELSE {})
         /\ halted' = (halted \cup Healthy(S)) \ (IF up.ok THEN Targets(again) ELSE {})
  BY DEF RestartRequest
<1>2. /\ scoped' = scoped \ S /\ restarted' = TRUE /\ at = 1
      /\ UNCHANGED <<leases, shutdown, at, manager>> /\ Forgets
  BY DEF RestartRequest, Accepted
<1>3. S \subseteq Service /\ again \in SUBSET Service
  BY SelectedFacts
<1> HIDE DEF S, again
<1>4. /\ Fit(worker) /\ scoped \subseteq Service /\ manual \subseteq Service
      /\ shutdown \in BOOLEAN /\ leases \in [Service -> SUBSET Token]
  BY DEF SupervisorInv, SupervisorTypes
<1>5. PICK ws : ws = Stops(worker, S)
  OBVIOUS
<1>6. Fit(ws) /\ \A s \in halted \cup Healthy(S) : s \in Service /\ Settled(ws[s])
  BY <1>3, <1>4, <1>5, StopsGive, HealthySettled
<1>7. Raised(ws, again, up)
  BY <1>1, <1>3, <1>5, <1>6, UpRaises
<1>8. PICK vs : vs = worker'
  OBVIOUS
<1>9. vs = up.workers /\ Fit(vs)
  BY <1>1, <1>7, <1>8 DEF Raised
<1>10. \A t \in Token : Closed({s \in Service : t \in leases'[s]})
  BY <1>2 DEF SupervisorInv, HeldWhole, LeasedBy
<1>11. \A s \in scoped' : s \in manual' \/ leases'[s] # {}
  BY <1>1, <1>2 DEF SupervisorInv, ScopedHeld
<1>12. ASSUME NEW s \in halted' PROVE s \in Service /\ Settled(vs[s])
  <2>1. s \in Service /\ Settled(ws[s]) /\ (up.ok => s \notin Targets(again))
    BY <1>1, <1>6, <1>12
  <2>2. CASE up.ok
    BY <1>7, <1>9, <2>1, <2>2 DEF Raised
  <2>3. CASE ~up.ok
    BY <1>7, <1>9, <2>1, <2>3 DEF Raised
  <2>4. QED
    BY <2>1, <2>2, <2>3
<1>13. /\ scoped' \subseteq Service /\ manual' \subseteq Service /\ halted' \subseteq Service
       /\ shutdown' \in BOOLEAN /\ restarted' \in BOOLEAN /\ leases' \in [Service -> SUBSET Token]
       /\ restarted'
  BY <1>1, <1>2, <1>3, <1>4, <1>12
<1>14. QED
  BY <1>2, <1>8, <1>9, <1>10, <1>11, <1>12, <1>13, RequestKeeps

-----------------------------------------------------------------------------
(* The supervisor: ticks, exits, and the manager's end. *)

\* What no client asks for changes no owner and revives nothing.
LEMMA OwnersKeep ==
    ASSUME NEW ws, ws = worker', Fit(ws), SupervisorInv, UNCHANGED owners,
           shutdown' \in BOOLEAN, at' \in 1..Len(Order), manager' \in {"serving", "ended"},
           \A s \in Service : /\ Alive(ws[s]) => Alive(worker[s])
                              /\ Settled(worker[s]) => Settled(ws[s]),
           InPlace'
    PROVE  SupervisorInv'
<1>1. /\ leases' = leases /\ scoped' = scoped /\ manual' = manual
      /\ halted' = halted /\ restarted' = restarted /\ revivable' = revivable
  BY DEF owners
<1>2. SupervisorTypes'
  BY <1>1 DEF SupervisorInv, SupervisorTypes
<1>3. HeldWhole' /\ ScopedHeld'
  BY <1>1 DEF SupervisorInv, HeldWhole, ScopedHeld, LeasedBy
<1>4. AliveOwned'
  BY <1>1 DEF SupervisorInv, AliveOwned
<1>5. \A s \in halted' : Settled(ws[s])
  BY <1>1 DEF SupervisorInv, SupervisorTypes
<1>6. QED
  BY <1>2, <1>3, <1>4, <1>5 DEF SupervisorInv

LEMMA VisitKeeps ==
    ASSUME SupervisorInv, Visit
    PROVE  SupervisorInv'
<1>1. PICK e : e = Order[at]
  OBVIOUS
<1>2. PICK v \in Outcomes(e) : worker' = [worker EXCEPT ![e] = v]
  BY <1>1 DEF Visit
<1>3. /\ at' = IF at = Len(Order) THEN 1 ELSE at + 1
      /\ UNCHANGED <<owners, shutdown, manager>>
  BY DEF Visit
<1>4. /\ at \in 1..Len(Order) /\ worker \in [Service -> Records] /\ Fit(worker)
      /\ shutdown \in BOOLEAN /\ manager \in {"serving", "ended"}
  BY DEF SupervisorInv, SupervisorTypes, Fit
<1>5. e \in Service
  BY <1>1, <1>4, OrderFacts
<1>6. TickOf(e, worker[e], v)
  BY <1>4, <1>5, OutcomesFollow DEF Fit
<1>7. PICK ws : ws = worker'
  OBVIOUS
<1>8. v \in Records /\ Sound(v)
  BY <1>6 DEF TickOf
<1>9. ws \in [Service -> Records] /\ ws[e] = v /\ \A s \in Service : s # e => ws[s] = worker[s]
  BY <1>2, <1>4, <1>5, <1>7, <1>8
<1>10. Fit(ws)
  BY <1>4, <1>8, <1>9 DEF Fit
<1>11. at' \in 1..Len(Order)
  BY <1>3, <1>4
<1>12. \A s \in Service : /\ Alive(ws[s]) => Alive(worker[s])
                          /\ Settled(worker[s]) => Settled(ws[s])
  BY <1>6, <1>9 DEF TickOf
\* What e depends on comes before it, so the tick has not changed that.
<1>13. \A j \in 1..Len(Order) : e \in DependsOn[Order[j]] => at < j
  BY <1>1, <1>4, OrderAssumption DEF Validated
<1>14. Propped(ws, e)
  <2> SUFFICES ASSUME v.child # "none", NEW d \in DependsOn[e] PROVE ws[d].child # "none"
    BY <1>9 DEF Propped
  <2>1. worker[d].child # "none"
    BY <1>6 DEF TickOf, DependenciesReady, Dependable
  <2>2. d # e
    BY <1>1, <1>4, <1>13
  <2>3. d \in Service
    BY <1>5, DependsWithin
  <2>4. QED
    BY <1>9, <2>1, <2>2, <2>3
<1>15. InPlace'
  <2> SUFFICES ASSUME ~restarted, ~revivable, NEW j \in 1..Len(Order), at' = 1 \/ j < at'
               PROVE  Propped(ws, Order[j])
    BY <1>3, <1>7 DEF InPlace, owners
  <2>1. j = at \/ j < at
    BY <1>3, <1>4
  <2>2. CASE Order[j] = e
    BY <1>14, <2>2
  <2>3. CASE Order[j] # e
    <3>1. j < at
      BY <1>1, <2>1, <2>3
    <3>2. Propped(worker, Order[j])
      BY <3>1 DEF SupervisorInv, InPlace
    <3>3. Order[j] \in Service
      BY OrderFacts
    <3>4. e \notin DependsOn[Order[j]]
      BY <1>4, <1>13, <3>1
    <3>5. \A d \in DependsOn[Order[j]] : ws[d] = worker[d]
      BY <1>9, <3>3, <3>4, DependsWithin
    <3>6. QED
      BY <1>9, <2>3, <3>2, <3>3, <3>5 DEF Propped
  <2>4. QED
    BY <2>2, <2>3
<1>16. QED
  BY <1>3, <1>4, <1>7, <1>10, <1>11, <1>12, <1>15, OwnersKeep

LEMMA ProppedSame ==
    ASSUME NEW ws, NEW vs, \A s \in Service : ws[s].child = "none" <=> vs[s].child = "none",
           NEW s \in Service, Propped(ws, s)
    PROVE  Propped(vs, s)
  BY DependsWithin DEF Propped

LEMMA InPlaceSame ==
    ASSUME SupervisorInv, NEW ws, ws = worker', at' = at, UNCHANGED owners,
           \A s \in Service : worker[s].child = "none" <=> ws[s].child = "none"
    PROVE  InPlace'
<1> SUFFICES ASSUME ~restarted, ~revivable, NEW j \in 1..Len(Order), at = 1 \/ j < at
             PROVE  Propped(ws, Order[j])
  BY DEF InPlace, owners
<1>1. Propped(worker, Order[j]) /\ Order[j] \in Service
  BY OrderFacts DEF SupervisorInv, InPlace
<1>2. QED
  BY <1>1, ProppedSame

LEMMA ExitKeeps ==
    ASSUME SupervisorInv, NEW s \in Service, Exit(s) \/ Elapse(s)
    PROVE  SupervisorInv'
<1>1. /\ worker \in [Service -> Records] /\ Fit(worker) /\ at \in 1..Len(Order)
      /\ shutdown \in BOOLEAN /\ manager \in {"serving", "ended"}
  BY DEF SupervisorInv, SupervisorTypes, Fit
<1>2. UNCHANGED <<owners, shutdown, at, manager>>
  BY DEF Exit, Elapse
<1>3. PICK ws : ws = worker'
  OBVIOUS
<1>4. \/ worker[s].child = "live" /\ \E x \in {"succeeded", "failed"} :
            ws = [worker EXCEPT ![s] = [worker[s] EXCEPT !.child = x]]
      \/ ws = [worker EXCEPT ![s] = [worker[s] EXCEPT !.backoff = FALSE]]
  BY <1>3 DEF Exit, Elapse
<1>5. PICK v : v = ws[s]
  OBVIOUS
<1>6. worker[s] \in Records /\ Sound(worker[s])
  BY <1>1 DEF Fit
<1>7. /\ v \in Records /\ v.state = worker[s].state /\ v.desired = worker[s].desired
      /\ v.failures = worker[s].failures /\ (v.child = "none" <=> worker[s].child = "none")
  <2>1. CASE ws = [worker EXCEPT ![s] = [worker[s] EXCEPT !.backoff = FALSE]]
    <3>1. v = [worker[s] EXCEPT !.backoff = FALSE]
      BY <1>1, <1>5, <2>1
    <3>2. QED
      BY <1>6, <3>1 DEF Records
  <2>2. ASSUME worker[s].child = "live", NEW x \in {"succeeded", "failed"},
               ws = [worker EXCEPT ![s] = [worker[s] EXCEPT !.child = x]]
        PROVE  /\ v \in Records /\ v.state = worker[s].state /\ v.desired = worker[s].desired
               /\ v.failures = worker[s].failures /\ (v.child = "none" <=> worker[s].child = "none")
    <3>1. v = [worker[s] EXCEPT !.child = x] /\ x \in Process /\ x # "none"
      BY <1>1, <1>5, <2>2 DEF Process
    <3>2. QED
      BY <1>6, <2>2, <3>1 DEF Records
  <2>3. QED
    BY <1>4, <2>1, <2>2
<1>8. Sound(v) /\ (Alive(v) => Alive(worker[s])) /\ (Settled(worker[s]) => Settled(v))
  BY <1>6, <1>7 DEF Sound, Alive, Settled
<1>9. ws \in [Service -> Records] /\ \A e \in Service : e # s => ws[e] = worker[e]
  BY <1>1, <1>4, <1>5, <1>7
<1>10. Fit(ws)
  BY <1>1, <1>5, <1>8, <1>9 DEF Fit
<1>11. \A e \in Service : /\ Alive(ws[e]) => Alive(worker[e])
                          /\ Settled(worker[e]) => Settled(ws[e])
                          /\ worker[e].child = "none" <=> ws[e].child = "none"
  BY <1>5, <1>7, <1>8, <1>9
<1>12. InPlace'
  BY <1>2, <1>3, <1>11, InPlaceSame
<1>13. QED
  BY <1>1, <1>2, <1>3, <1>10, <1>11, <1>12, OwnersKeep

LEMMA TerminateKeeps ==
    ASSUME SupervisorInv, Terminate
    PROVE  SupervisorInv'
<1>1. /\ Fit(worker) /\ at \in 1..Len(Order) /\ manager \in {"serving", "ended"}
  BY DEF SupervisorInv, SupervisorTypes
<1>2. worker' = worker /\ at' = at /\ manager' = manager /\ shutdown' = TRUE /\ UNCHANGED owners
  BY DEF Terminate
<1>3. InPlace'
  BY <1>2, InPlaceSame
<1>4. QED
  BY <1>1, <1>2, <1>3, OwnersKeep

LEMMA FinishKeeps ==
    ASSUME SupervisorInv, Finish
    PROVE  SupervisorInv'
<1>1. Fit(worker) /\ at \in 1..Len(Order) /\ shutdown \in BOOLEAN
  BY DEF SupervisorInv, SupervisorTypes
<1>2. /\ worker' = Stops(worker, Service) /\ manager' = "ended" /\ UNCHANGED <<owners, shutdown, at>>
  BY DEF Finish, Stops
<1>3. PICK ws : ws = worker'
  OBVIOUS
<1>4. Fit(ws) /\ \A s \in Service : /\ ws[s].child = "none" /\ ~ws[s].desired
                                    /\ ws[s].failures = worker[s].failures
  BY <1>1, <1>2, <1>3, StopsGive
<1>5. InPlace'
  BY <1>3, <1>4, OrderFacts DEF InPlace, Propped
<1>6. \A s \in Service : /\ Alive(ws[s]) => Alive(worker[s])
                         /\ Settled(worker[s]) => Settled(ws[s])
  BY <1>4 DEF Alive, Settled
<1>7. QED
  BY <1>1, <1>2, <1>3, <1>4, <1>5, <1>6, OwnersKeep

LEMMA SupervisorStart == Init => SupervisorInv
<1> SUFFICES ASSUME Init PROVE SupervisorInv
  OBVIOUS
<1>1. Stopped \in Records /\ Sound(Stopped) /\ ~Alive(Stopped) /\ Stopped.child = "none"
  BY DEF Stopped, Records, Process, State, Threshold, Sound, Alive
<1>2. /\ worker \in [Service -> Records] /\ \A s \in Service : worker[s] = Stopped
  BY <1>1 DEF Init
<1>3. SupervisorTypes
  <2>1. Fit(worker) /\ 1 \in 1..Len(Order)
    BY <1>1, <1>2, OrderFacts DEF Fit
  <2>2. leases \in [Service -> SUBSET Token]
    BY DEF Init
  <2>3. QED
    BY <2>1, <2>2 DEF Init, SupervisorTypes
<1>4. HeldWhole /\ ScopedHeld
  BY DEF Init, HeldWhole, ScopedHeld, LeasedBy, Closed
<1>5. AliveOwned
  BY <1>1, <1>2 DEF AliveOwned
<1>6. InPlace
  BY <1>1, <1>2, OrderFacts DEF InPlace, Propped
<1>7. QED
  BY <1>3, <1>4, <1>5, <1>6 DEF Init, SupervisorInv

LEMMA BootKeeps ==
    ASSUME SupervisorInv, Boot
    PROVE  SupervisorInv'
<1>1. Init'
  BY DEF Boot, Init
<1>2. QED
  BY <1>1, SupervisorStart, PTL

LEMMA SupervisorStep == SupervisorInv /\ [Next]_vars => SupervisorInv'
<1> SUFFICES ASSUME SupervisorInv, [Next]_vars PROVE SupervisorInv'
  OBVIOUS
<1>1. CASE UNCHANGED vars
  <2>1. /\ worker' = worker /\ leases' = leases /\ scoped' = scoped /\ manual' = manual
        /\ halted' = halted /\ restarted' = restarted /\ revivable' = revivable
        /\ shutdown' = shutdown /\ at' = at /\ manager' = manager
    BY <1>1 DEF vars, owners
  <2>2. SupervisorTypes' /\ HeldWhole' /\ ScopedHeld' /\ AliveOwned' /\ InPlace'
    BY <2>1 DEF SupervisorInv, SupervisorTypes, HeldWhole, ScopedHeld, AliveOwned, InPlace, LeasedBy
  <2>3. QED
    BY <2>1, <2>2 DEF SupervisorInv
<1>2. CASE Visit
  BY <1>2, VisitKeeps
<1>3. CASE Request
  <2>1. CASE Start
    BY <2>1, UpKeeps, ApplyKeeps, AcquireKeeps DEF Start
  <2>2. ASSUME NEW names \in SUBSET Service, StopRequest(names) \/ RestartRequest(names)
        PROVE  SupervisorInv'
    BY <2>2, StopKeeps, RestartKeeps
  <2>3. CASE Down
    BY <2>3, DownKeeps
  <2>4. ASSUME NEW t \in Token, Release(t) PROVE SupervisorInv'
    BY <2>4, ReleaseKeeps
  <2>5. QED
    BY <1>3, <2>1, <2>2, <2>3, <2>4 DEF Request
<1>4. CASE Terminate
  BY <1>4, TerminateKeeps
<1>5. CASE Finish
  BY <1>5, FinishKeeps
<1>6. CASE Boot
  BY <1>6, BootKeeps
<1>7. ASSUME NEW s \in Service, Exit(s) \/ Elapse(s) PROVE SupervisorInv'
  BY <1>7, ExitKeeps
<1>8. QED
  BY <1>1, <1>2, <1>3, <1>4, <1>5, <1>6, <1>7 DEF Next

-----------------------------------------------------------------------------
(* The supervisor: what holds of it. *)

LEMMA SupervisorHolds ==
    ASSUME SupervisorInv
    PROVE  TypeOK /\ Owned /\ DependenciesRun /\ StopIsFinal
<1>1. TypeOK
  BY DEF SupervisorInv, SupervisorTypes, TypeOK, Fit, Records
<1>2. Owned
  BY DEF SupervisorInv, AliveOwned, ScopedHeld, Alive, Owned
<1>3. DependenciesRun
  <2> SUFFICES ASSUME at = 1, ~restarted, ~revivable, NEW s \in Service, worker[s].child # "none",
                      NEW d \in DependsOn[s]
               PROVE  Dependable(d)
    BY DEF DependenciesRun, Idle, DependenciesReady
  <2>1. Propped(worker, s) /\ d \in Service
    BY BetweenTicks, DependsWithin
  <2>2. worker[d].child # "none"
    BY <2>1 DEF Propped
  <2>3. QED
    BY <2>1, <2>2 DEF Dependable, SupervisorInv, SupervisorTypes, Fit, Sound
<1>4. StopIsFinal
  BY DEF SupervisorInv, Settled, StopIsFinal
<1>5. QED
  BY <1>1, <1>2, <1>3, <1>4

\* What a client starts had no process.
LEMMA StartTakesNothing ==
    ASSUME SupervisorInv, Start, NEW s \in Service, worker[s].child = "live"
    PROVE  worker'[s].child = "live"
<1>1. Fit(worker)
  BY DEF SupervisorInv, SupervisorTypes
<1>2. ASSUME NEW names \in SUBSET Service, NEW ws, Fit(ws), ws[s] = worker[s],
             NEW up \in Up(ws, names), worker' = up.workers
      PROVE  worker'[s].child = "live"
  <2>1. Raised(ws, names, up)
    BY <1>2, UpRaises
  <2>2. QED
    BY <1>2, <2>1 DEF Raised
<1>3. ASSUME NEW names \in SUBSET Service, UpRequest(names) PROVE worker'[s].child = "live"
  BY <1>1, <1>2, <1>3 DEF UpRequest, StartManually
<1>4. ASSUME NEW names \in SUBSET Service, NEW t \in Token, Acquire(t, names)
      PROVE  worker'[s].child = "live"
  BY <1>1, <1>2, <1>4 DEF Acquire
<1>5. ASSUME NEW names \in SUBSET Service, ApplyRequest(names) PROVE worker'[s].child = "live"
  <2> DEFINE ws == [e \in Service |-> IF e \in names /\ worker[e].child = "none"
                                      THEN Stopped ELSE worker[e]]
  <2>1. StartManually(ws, names)
    BY <1>5 DEF ApplyRequest
  <2>2. Stopped \in Records /\ Sound(Stopped)
    BY DEF Stopped, Records, Process, State, Threshold, Sound
  <2>3. ws \in [Service -> Records] /\ \A e \in Service : ws[e] \in {Stopped, worker[e]}
    BY <1>1, <2>2 DEF Fit
  <2>4. ws[s] = worker[s]
    OBVIOUS
  <2> HIDE DEF ws
  <2>5. Fit(ws)
    BY <1>1, <2>2, <2>3 DEF Fit
  <2>6. QED
    BY <1>2, <2>1, <2>4, <2>5 DEF StartManually
<1>6. QED
  BY <1>3, <1>4, <1>5 DEF Start

\* A client that releases stops nothing that is held.
LEMMA ReleaseTakesNothing ==
    ASSUME SupervisorInv, SupervisorInv', ~restarted, NEW t \in Token, Release(t),
           NEW s \in Wanted', worker[s].child = "live"
    PROVE  worker'[s].child = "live"
<1>1. PICK has : has = leases'
  OBVIOUS
<1>2. /\ worker' = Stops(worker, Released) /\ UNCHANGED <<manual, restarted>>
  BY DEF Release
<1>3. /\ Closed(manual) /\ has \in [Service -> SUBSET Token] /\ manual \subseteq Service
      /\ \A r \in Token : Closed({e \in Service : r \in has[e]})
  BY <1>1, <1>2 DEF SupervisorInv, SupervisorTypes, HeldWhole, LeasedBy
<1>4. PICK S : S = manual \cup {e \in Service : has[e] # {}}
  OBVIOUS
<1>5. Closed(S) /\ S \subseteq Service
  BY <1>3, <1>4, HeldClosed, ClosedUnion
<1>6. s \in S
  <2>1. Wanted' = Required(S)
    BY <1>1, <1>2, <1>4 DEF Wanted, Required, Closed
  <2>2. QED
    BY <1>5, <2>1, RequiredOfClosed
<1>7. s \notin Released /\ s \in Service
  BY <1>1, <1>4, <1>5, <1>6 DEF Released
<1>8. Fit(worker) /\ Released \subseteq Service
  BY DEF SupervisorInv, SupervisorTypes, Released
<1>9. QED
  BY <1>2, <1>7, <1>8, StopsGive

LEMMA KeepsClientsStep ==
    ASSUME SupervisorInv, SupervisorInv'
    PROVE  KeepsClients
<1> SUFFICES ASSUME ~restarted, Robs, Start \/ \E t \in Token : Release(t) PROVE FALSE
  BY DEF KeepsClients
<1>1. PICK s \in Wanted' : worker[s].child = "live" /\ worker'[s].child # "live"
  BY DEF Robs
<1>2. s \in Service
  BY <1>1 DEF Wanted, Required
<1>3. QED
  BY <1>1, <1>2, StartTakesNothing, ReleaseTakesNothing

\* The supervisor alone: between ticks nothing runs without what it depends on, nothing
\* is wanted that no client holds, what was stopped stays stopped, and clients keep what
\* they hold while others start and release services.
THEOREM SupervisionStays == Spec => [](TypeOK /\ Owned /\ DependenciesRun /\ StopIsFinal) /\ [][KeepsClients]_vars
<1>1. Init => SupervisorInv
  BY SupervisorStart
<1>2. SupervisorInv /\ [Next]_vars => SupervisorInv' /\ KeepsClients
  BY SupervisorStep, KeepsClientsStep
<1>3. SupervisorInv => TypeOK /\ Owned /\ DependenciesRun /\ StopIsFinal
  BY SupervisorHolds
<1>4. QED
  BY <1>1, <1>2, <1>3, PTL DEF Spec

\* In the run's composition these are steps of one part.
PartSupervised == part = "supervisor" => SupervisorInv

LEMMA PartSupervisedStart == PartsInit => PartSupervised
  BY SupervisorStart DEF PartsInit, PartSupervised

LEMMA PartSupervisedStep ==
    ASSUME PartSupervised, [PartsNext]_partsVars
    PROVE  PartSupervised' /\ (part = "supervisor" => KeepsClients)
<1>1. part' = part
  BY DEF PartsNext, partsVars
<1>2. CASE part # "supervisor"
  BY <1>1, <1>2 DEF PartSupervised
<1>3. CASE part = "supervisor"
  <2>1. [Next]_vars
    BY <1>3 DEF PartsNext, partsVars
  <2>2. SupervisorInv'
    BY <1>3, <2>1, SupervisorStep DEF PartSupervised
  <2>3. KeepsClients
    BY <1>3, <2>2, KeepsClientsStep DEF PartSupervised
  <2>4. QED
    BY <2>2, <2>3 DEF PartSupervised
<1>4. QED
  BY <1>2, <1>3

\* Of the part of the run that explores it: nothing runs that nobody asks for or without
\* what it depends on, and what a client has stopped stays stopped.
THEOREM ServicesStaySupervised == PartsSpec => []SupervisionHolds
<1>1. PartSupervised => SupervisionHolds
  BY SupervisorHolds DEF SupervisionHolds, PartSupervised
<1>2. PartSupervised /\ [PartsNext]_partsVars => PartSupervised'
  BY PartSupervisedStep
<1>3. QED
  BY <1>1, <1>2, PartSupervisedStart, PTL DEF PartsSpec

\* And a client that starts or releases services never takes the process of a service
\* that another one holds, or that such a service needs.
THEOREM ClientsStayServed == PartsSpec => ClientsServed
<1>1. PartSupervised /\ [PartsNext]_partsVars => PartSupervised' /\ [part = "supervisor" => KeepsClients]_vars
  BY PartSupervisedStep
<1>2. QED
  BY <1>1, PartSupervisedStart, PTL DEF PartsSpec, ClientsServed

=============================================================================
