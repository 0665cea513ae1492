---------------------------- MODULE MCRetraining ----------------------------
(***************************************************************************)
(* Instances of Retraining and RingBuffer for TLC, one of them per         *)
(* behaviour: two subtasks with one tree each, and the circular array that *)
(* a subtask keeps its training pool in.  The other one stays in its       *)
(* initial state.                                                          *)
(***************************************************************************)
EXTENDS Retraining, RingBuffer

VARIABLE machine  \* the instance that takes the steps

AllInit == machine \in {"retraining", "ring"} /\ Init /\ RingInit

AllNext ==
  /\ \/ machine = "retraining" /\ Next /\ UNCHANGED ringVars
     \/ machine = "ring" /\ RingNext /\ UNCHANGED vars
  /\ UNCHANGED machine

AllSpec == AllInit /\ [][AllNext]_<<vars, ringVars, machine>>
=============================================================================
