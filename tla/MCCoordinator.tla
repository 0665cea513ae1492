--------------------------- MODULE MCCoordinator ---------------------------
(***************************************************************************)
(* Instances of Coordinator for TLC: two subtasks with two trees each (a   *)
(* total of three, rounded up), the cold start and two rounds.    *)
(***************************************************************************)
EXTENDS Coordinator
============================================================================
