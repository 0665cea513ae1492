----------------------------- MODULE MCDetection -----------------------------
(***************************************************************************)
(* An instance of Detection for TLC: two features on one detector subtask. *)
(***************************************************************************)
EXTENDS Detection

OneDetector == [f \in Features |-> 0]
Consecutive == [i \in 1 .. 6 |-> i]
============================================================================
