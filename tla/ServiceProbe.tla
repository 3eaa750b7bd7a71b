----------------------------- MODULE ServiceProbe -----------------------------
(***************************************************************************)
(* The supervisor of a service task (executor/src/service.rs): one probe   *)
(* at a time, first for readiness, then for health, each with its timeout, *)
(* its interval and a process group of its own, and what the scheduler     *)
(* makes of its verdicts.  Scheduler keeps of all this only that a service *)
(* becomes ready or fails at some time.                                    *)
(***************************************************************************)
EXTENDS Naturals

CONSTANTS Thresholds   \* the failure thresholds a service may be given

ASSUME ProbeAssumption == Thresholds \subseteq Nat

VARIABLES
  threshold,  \* of this service
  service,    \* its process: up or exited
  standing,   \* starting, ready, stopping or ended
  cause,      \* why it is stopped: none, health, spawn, startup, unused, cancel
  probe,      \* the probe's process: none, up, good or bad
  late,       \* the timeout of the probe has passed
  due,        \* the interval since the last probe has passed
  failures,   \* the consecutive failures the supervisor has counted
  passed,     \* history: some probe has passed
  streak      \* history: probes failed in a row, since the service was ready

probeVars == <<threshold, service, standing, cause, probe, late, due, failures, passed, streak>>

\* Service::validate.
ValidThreshold(n) == n > 0

Watched == standing \in {"starting", "ready"}

\* The count is only compared with the threshold: it stays there.
ProbeCount(n) == IF n >= threshold THEN threshold ELSE n + 1

\* Mutant: given up one failure early.
GivenUpEarly == ProbeCount(failures) + 1 >= threshold
GivenUp == ProbeCount(failures) >= threshold

\* stop: the probe's group is killed and reaped.
ProbeStopped == probe' = "none" /\ late' = FALSE

ProbeStop(why) ==
  /\ standing' = "stopping" /\ cause' = why
  /\ ProbeStopped

\* The verdict of a finished or overdue probe; an exit that is there is used
\* even when the timeout has passed too.
Passes ==
  /\ probe = "good"
  /\ probe' = "none" /\ late' = FALSE /\ due' = FALSE
  /\ failures' = 0
  /\ passed' = TRUE /\ streak' = 0
  /\ standing' = "ready" /\ UNCHANGED cause

FailedProbe == probe = "bad" \/ (probe = "up" /\ late)

Fails ==
  /\ FailedProbe
  /\ due' = FALSE
  /\ failures' = ProbeCount(failures)
  /\ streak' = IF standing = "ready" THEN ProbeCount(streak) ELSE 0
  /\ IF standing = "ready" /\ GivenUp
       THEN ProbeStop("health")
       ELSE probe' = "none" /\ late' = FALSE /\ UNCHANGED <<standing, cause>>
  /\ UNCHANGED passed

Spawn ==
  /\ probe = "none" /\ due
  /\ \/ probe' = "up" /\ late' = FALSE /\ UNCHANGED <<standing, cause>>
     \/ ProbeStop("spawn")
  /\ UNCHANGED <<due, failures, passed, streak>>

\* One look of the scheduler at a service whose process runs.
Look ==
  /\ Watched /\ service = "up"
  /\ Passes \/ Fails \/ Spawn
  /\ UNCHANGED <<threshold, service>>

\* Reasons of the scheduler: the run or a dependency ends, the startup takes
\* too long, the task times out, or nobody needs the service any longer.
StopService ==
  /\ Watched /\ service = "up"
  /\ \/ ProbeStop("cancel")
     \/ standing = "starting" /\ ProbeStop("startup")
     \/ standing = "ready" /\ ProbeStop("unused")
  /\ UNCHANGED <<threshold, service, due, failures, passed, streak>>

\* The process of the service has exited, by itself or after its signal.
ProbeReaped ==
  /\ standing # "ended" /\ service = "exited"
  /\ standing' = "ended"
  /\ ProbeStopped
  /\ UNCHANGED <<threshold, service, cause, due, failures, passed, streak>>

\* Outside: processes end and time passes.
ServiceExits ==
  /\ service = "up" /\ service' = "exited"
  /\ UNCHANGED <<threshold, standing, cause, probe, late, due, failures, passed, streak>>

ProbeExits ==
  /\ probe = "up" /\ probe' \in {"good", "bad"}
  /\ UNCHANGED <<threshold, service, standing, cause, late, due, failures, passed, streak>>

TimePasses ==
  /\ \/ probe # "none" /\ ~late /\ late' = TRUE /\ UNCHANGED due
     \/ probe = "none" /\ ~due /\ due' = TRUE /\ UNCHANGED late
  /\ UNCHANGED <<threshold, service, standing, cause, probe, failures, passed, streak>>

ProbeInit ==
  /\ threshold \in {n \in Thresholds : ValidThreshold(n)}
  /\ service = "up" /\ standing = "starting" /\ cause = "none"
  /\ probe = "none" /\ late = FALSE /\ due = TRUE
  /\ failures = 0 /\ passed = FALSE /\ streak = 0

ProbeNext ==
  Look \/ StopService \/ ProbeReaped \/ ServiceExits \/ ProbeExits \/ TimePasses

\* A service is ready only after a probe that passed, and is given up for its
\* health only after as many failures in a row, all of them after it was ready,
\* as its threshold says: failures before readiness never count
\* (service.rs:152-172).
VerdictsAreEarned ==
  /\ standing = "ready" => passed
  /\ cause = "health" => passed /\ streak >= threshold

\* No probe runs after its service was stopped or has ended (service.rs:109,
\* lib.rs:972, lib.rs:1088).
NoStrayProbe == probe # "none" => Watched

ProbesAreJudged == VerdictsAreEarned /\ NoStrayProbe
=============================================================================
