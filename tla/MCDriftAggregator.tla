------------------------- MODULE MCDriftAggregator -------------------------
(***************************************************************************)
(* Instances for TLC of the aggregation of onsets, one of them per         *)
(* behaviour: DriftAggregator, where the reports of three features are     *)
(* written by two producers, the offline aggregators that its parameters   *)
(* are chosen with (OfflineQuorum), and the alignment of their onsets with *)
(* the degradation of a frozen forest (OfflineAlignment).  The others stay *)
(* in one initial state.                                                   *)
(***************************************************************************)
EXTENDS DriftAggregator, OfflineQuorum, OfflineAlignment

TwoWriters == [f \in Features |-> IF f = 0 THEN 0 ELSE 1]
PointDrifts == {[start |-> 2, end |-> 2], [start |-> 4, end |-> 4]}
SomeAucs == {NoAuc, 0, 1, 3}

VARIABLE machine  \* the instance that takes the steps

QuorumIdle == QuorumInit /\ persist = 1
AlignmentIdle == AlignmentInit /\ preEnd = 3

AllInit ==
  \/ machine = "aggregator" /\ Init /\ QuorumIdle /\ AlignmentIdle
  \/ machine = "quorum" /\ Init /\ QuorumInit /\ AlignmentIdle
  \/ machine = "alignment" /\ Init /\ QuorumIdle /\ AlignmentInit

AllNext ==
  /\ \/ machine = "aggregator" /\ Next /\ UNCHANGED <<quorumVars, alignmentVars>>
     \/ machine = "quorum" /\ QuorumNext /\ UNCHANGED <<vars, alignmentVars>>
     \/ machine = "alignment" /\ AlignmentNext /\ UNCHANGED <<vars, quorumVars>>
  /\ UNCHANGED machine

AllSpec == AllInit /\ [][AllNext]_<<vars, quorumVars, alignmentVars, machine>>
============================================================================
