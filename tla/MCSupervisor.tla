---------------------------- MODULE MCSupervisor ----------------------------
(***************************************************************************)
(* A small instance of Supervisor: a database and a server that depends on *)
(* it.                                                                     *)
(***************************************************************************)
EXTENDS Supervisor, TLC

CONSTANTS db, web

Pair == db :> {} @@ web :> {db}
PairOrder == <<db, web>>
OnFailure == [s \in Service |-> "on_failure"]
Once == [s \in Service |-> 1]
Every == {"up", "apply", "acquire", "release", "stop", "restart", "down"}
=============================================================================
