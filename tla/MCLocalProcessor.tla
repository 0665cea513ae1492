-------------------------- MODULE MCLocalProcessor --------------------------
(***************************************************************************)
(* Instances of LocalProcessor for TLC: one subtask, the pause modes and   *)
(* the cooldown policies.                                                  *)
(***************************************************************************)
EXTENDS LocalProcessor
=============================================================================
