------------------------------ MODULE Detection ------------------------------
(***************************************************************************)
(* From rows to rounds: the detection side of the scoring job              *)
(* (PerFeatureIKS) and the aggregator of the coordinator job               *)
(* (DriftAggregator) joined by feature-drift-topic.                        *)
(*                                                                         *)
(* detectionParallelism is taken to equal the job's parallelism, so each   *)
(* detector subtask has a Kafka producer of its own: its reports stay in   *)
(* order on the topic, those of different subtasks interleave freely.      *)
(***************************************************************************)
EXTENDS Integers, FiniteSets, Sequences

CONSTANTS
  Features, Detectors, DetectorOf, WindowSize, ConfirmWin, Threshold, KsConfirm,
  Rows, K, AggWin, Refractory, MaxSeq

VARIABLES
  \* the detectors
  read, sampleCount, confirming, startSeq, peakKs, reports, history,
  \* the aggregator
  recent, roundCounter, lastEmitSeq, rounds, progress, latest,
  \* the topic between them
  consumed     \* detector |-> how many of its reports the aggregator has read

G == INSTANCE PerFeatureIKS
A == INSTANCE DriftAggregator WITH Writers <- Detectors, WriterOf <- DetectorOf

ASSUME JoinAssumption ==
  /\ G!DetectionAssumption
  /\ A!AggregatorAssumption
  /\ \A i \in 1 .. Len(Rows) : Rows[i] <= MaxSeq

detectionVars == <<read, sampleCount, confirming, startSeq, peakKs, reports, history>>
aggregatorVars == <<recent, roundCounter, lastEmitSeq, rounds, progress, latest>>
vars == <<detectionVars, aggregatorVars, consumed>>

Init == G!Init /\ A!Init /\ consumed = [d \in Detectors |-> 0]

\* The detector of feature f handles the feature's next value.
Detect(f) ==
  /\ G!Detect(f)
  /\ UNCHANGED <<aggregatorVars, consumed>>

\* Mutant of Advance: a report is skipped.
AdvanceTwice(d) == consumed' = [consumed EXCEPT ![d] = @ + 2]

Advance(d) == consumed' = [consumed EXCEPT ![d] = @ + 1]

\* The aggregator reads the next report of detector d.
Aggregate(d) ==
  /\ consumed[d] < Len(reports[d])
  /\ Advance(d)
  /\ LET r == reports[d][consumed[d] + 1]
         fd == [featureId |-> r.featureId, seq |-> r.seq]
     IN  /\ A!ProcessElement(fd)
         /\ progress' = [progress EXCEPT ![fd.featureId] = fd.seq]
         /\ latest' = fd
  /\ UNCHANGED detectionVars

Next == (\E f \in Features : Detect(f)) \/ (\E d \in Detectors : Aggregate(d))

Spec == Init /\ [][Next]_vars

(***************************************************************************)
(* Properties.                                                             *)
(***************************************************************************)

\* Type invariant of the topic's offsets.
TypeOK == \A d \in Detectors : consumed[d] \in 0 .. Len(reports[d])

\* Rows numbered without a gap, the detectors are the environment that
\* DriftAggregator assumes: the onsets of a feature increase and a detector
\* writes onsets in order.
ImplementsAggregator == A!Spec

\* With one detector subtask every committed round has K voters within the
\* window, each of them a feature whose ks exceeded the threshold at the
\* onset it voted with.
RoundsRestOnDrift ==
  \A i \in 1 .. Len(rounds) : \E voters \in SUBSET DOMAIN rounds[i].onsets :
    /\ Cardinality(voters) >= K
    /\ \A f, g \in voters : rounds[i].onsets[f] - rounds[i].onsets[g] <= AggWin
    /\ \A f \in voters : \E j \in 1 .. read[f] :
         Rows[j] = rounds[i].onsets[f] /\ history[f][j] > Threshold
=============================================================================
