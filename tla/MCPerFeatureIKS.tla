-------------------------- MODULE MCPerFeatureIKS --------------------------
(***************************************************************************)
(* Instances for TLC of the IKS detection and of what it is chosen and     *)
(* computed with, one of them per behaviour: PerFeatureIKS on one feature  *)
(* of rows some of which were dropped as malformed, the two offline        *)
(* replays of its gate (OfflineGate), and the treap that its statistic     *)
(* comes from (IKSWindow).  The others stay in one initial state.          *)
(***************************************************************************)
EXTENDS PerFeatureIKS, OfflineGate, IKSWindow

OneDetector == [f \in Features |-> 0]
WithGaps == <<1, 2, 3, 5, 6, 9, 10, 11, 13>>
TwoStarts == {<<0, 0>>, <<0, 1>>}

VARIABLE machine  \* the instance that takes the steps

GateIdle == gateCall = <<1, 0, FALSE>>
WindowIdle ==
  /\ reference = Drawn(<<0, 0>>, <<1, 2>>) /\ sw = reference
  /\ \A u \in Nodes[treap] : u.priority = 1

AllInit ==
  /\ machine \in {"detector", "replays", "treap"}
  /\ Init
  /\ GateInit /\ (machine # "replays" => GateIdle)
  /\ WindowInit /\ (machine # "treap" => WindowIdle)

AllNext ==
  /\ \/ machine = "detector" /\ Next /\ UNCHANGED <<gateVarsOffline, windowVars>>
     \/ machine = "replays" /\ GateNext /\ UNCHANGED <<vars, windowVars>>
     \/ machine = "treap" /\ WindowNext /\ UNCHANGED <<vars, gateVarsOffline>>
  /\ UNCHANGED machine

AllSpec == AllInit /\ [][AllNext]_<<vars, gateVarsOffline, windowVars, machine>>
============================================================================
