---------------------------- MODULE PerFeatureIKS ----------------------------
(***************************************************************************)
(* The detection side of the scoring job with --detector iks:              *)
(* FeatureSplitFlatMap cuts every row into its features, keyBy(featureId)  *)
(* spreads the features over detector subtasks, and PerFeatureIKSFunction  *)
(* runs, per feature, an incremental Kolmogorov-Smirnov test behind a      *)
(* confirmation gate:                                                      *)
(*                                                                         *)
(*   warm-up     the first W values after a (re)start fill both windows    *)
(*   quiet       ks <= threshold                                           *)
(*   confirming  ks exceeded the threshold at startSeq; ConfirmWin rows    *)
(*               later the peak of ks decides: the onset is reported and   *)
(*               the test restarted, or it was a transient                 *)
(*                                                                         *)
(* ks is W times the code's statistic, an integer of 0 .. W that is free   *)
(* here; the thresholds are scaled likewise.                               *)
(***************************************************************************)
EXTENDS Integers, FiniteSets, Sequences

CONSTANTS
  Features,    \* feature indices of a row
  Detectors,   \* the P_d parallel detector subtasks
  DetectorOf,  \* keyBy(featureId): the subtask that owns a feature
  WindowSize,  \* W
  ConfirmWin,  \* C
  Threshold,   \* largest ks that is not suspicious
  KsConfirm,   \* smallest peak that confirms an onset
  Rows         \* the increasing sample numbers (originalSequence) of the rows

ASSUME DetectionAssumption ==
  /\ Features \subseteq Nat
  /\ DetectorOf \in [Features -> Detectors]
  /\ WindowSize \in Nat \ {0}
  /\ ConfirmWin \in Nat \ {0}
  /\ Threshold \in Nat
  /\ KsConfirm \in Nat
  /\ Rows \in Seq(Nat)
  /\ \A i, j \in 1 .. Len(Rows) : i <= j => Rows[j] - Rows[i] >= j - i

VARIABLES
  read,         \* feature |-> rows its detector has handled
  sampleCount,  \* feature |-> values since the test was (re)started
  confirming,   \* feature |-> whether it is in the confirming state
  startSeq,     \* feature |-> sample number that started it, or Null
  peakKs,       \* feature |-> largest ks since then, or Null
  reports,      \* detector |-> the FeatureDrifts it emitted
  history       \* feature |-> the values of ks seen so far (Null in warm-up)

gateVars == <<sampleCount, confirming, startSeq, peakKs>>
vars == <<read, gateVars, reports, history>>

Null == -1
Ks == 0 .. WindowSize
Seqs == {Rows[i] : i \in 1 .. Len(Rows)}
FeatureDrift == [featureId : Features, seq : Seqs, peak : Ks]

Init ==
  /\ read = [f \in Features |-> 0]
  /\ sampleCount = [f \in Features |-> 0]
  /\ confirming = [f \in Features |-> FALSE]
  /\ startSeq = [f \in Features |-> Null]
  /\ peakKs = [f \in Features |-> Null]
  /\ reports = [d \in Detectors |-> <<>>]
  /\ history = [f \in Features |-> <<>>]

(***************************************************************************)
(* processElement, one action per way through it.  Each takes the next     *)
(* value of feature f into the test; `k` is the statistic it yields.       *)
(***************************************************************************)
Seq0(f) == Rows[read[f] + 1]

Update(f, k) ==
  /\ read' = [read EXCEPT ![f] = @ + 1]
  /\ history' = [history EXCEPT ![f] = Append(@, k)]

\* The windows are full once the value is in.
Warm(f) == sampleCount[f] + 1 >= WindowSize

WarmUp(f) ==
  /\ ~Warm(f)
  /\ Update(f, Null)
  /\ sampleCount' = [sampleCount EXCEPT ![f] = @ + 1]
  /\ UNCHANGED <<confirming, startSeq, peakKs, reports>>

StayQuiet(f, k) ==
  /\ Warm(f) /\ ~confirming[f] /\ k <= Threshold
  /\ Update(f, k)
  /\ sampleCount' = [sampleCount EXCEPT ![f] = @ + 1]
  /\ UNCHANGED <<confirming, startSeq, peakKs, reports>>

StartConfirm(f, k) ==
  /\ Warm(f) /\ ~confirming[f] /\ k > Threshold
  /\ Update(f, k)
  /\ sampleCount' = [sampleCount EXCEPT ![f] = @ + 1]
  /\ confirming' = [confirming EXCEPT ![f] = TRUE]
  /\ startSeq' = [startSeq EXCEPT ![f] = Seq0(f)]
  /\ peakKs' = [peakKs EXCEPT ![f] = k]
  /\ UNCHANGED reports

\* Mutant of Peak: the latest value.
PeakLatest(f, k) == k

Peak(f, k) == IF k > peakKs[f] THEN k ELSE peakKs[f]

\* Mutants of Expired: one row late; at once for a high peak.
ExpiredLate(f) == Seq0(f) - startSeq[f] > ConfirmWin
ExpiredByPeak(f) == Seq0(f) - startSeq[f] >= ConfirmWin \/ peakKs[f] >= WindowSize

Expired(f) == Seq0(f) - startSeq[f] >= ConfirmWin

KeepConfirming(f, k) ==
  /\ Warm(f) /\ confirming[f] /\ ~Expired(f)
  /\ Update(f, k)
  /\ sampleCount' = [sampleCount EXCEPT ![f] = @ + 1]
  /\ peakKs' = [peakKs EXCEPT ![f] = Peak(f, k)]
  /\ UNCHANGED <<confirming, startSeq, reports>>

\* Mutant of LeaveConfirming: the start stays.
LeaveKeepsStart(f) ==
  /\ confirming' = [confirming EXCEPT ![f] = FALSE]
  /\ peakKs' = [peakKs EXCEPT ![f] = Null]
  /\ UNCHANGED startSeq

LeaveConfirming(f) ==
  /\ confirming' = [confirming EXCEPT ![f] = FALSE]
  /\ startSeq' = [startSeq EXCEPT ![f] = Null]
  /\ peakKs' = [peakKs EXCEPT ![f] = Null]

\* Mutant of Rebase: the test goes on with its old reference window.
NoRebase(f) == sampleCount' = [sampleCount EXCEPT ![f] = @ + 1]

\* IKS.rebase: all windows are dropped, the warm-up starts over.
Rebase(f) == sampleCount' = [sampleCount EXCEPT ![f] = 0]

Confirm(f, k) ==
  /\ Warm(f) /\ confirming[f] /\ Expired(f) /\ Peak(f, k) >= KsConfirm
  /\ Update(f, k)
  /\ reports' = [reports EXCEPT ![DetectorOf[f]] =
       Append(@, [featureId |-> f, seq |-> startSeq[f], peak |-> Peak(f, k)])]
  /\ Rebase(f)
  /\ LeaveConfirming(f)

DiscardTransient(f, k) ==
  /\ Warm(f) /\ confirming[f] /\ Expired(f) /\ Peak(f, k) < KsConfirm
  /\ Update(f, k)
  /\ sampleCount' = [sampleCount EXCEPT ![f] = @ + 1]
  /\ LeaveConfirming(f)
  /\ UNCHANGED reports

ProcessElement(f) ==
  \/ WarmUp(f)
  \/ \E k \in Ks : \/ StayQuiet(f, k) \/ StartConfirm(f, k) \/ KeepConfirming(f, k)
                   \/ Confirm(f, k) \/ DiscardTransient(f, k)

\* A subtask reads the features it owns row by row, and within a row in the
\* order in which FeatureSplitFlatMap emits them.
Turn(f) ==
  /\ read[f] < Len(Rows)
  /\ \A g \in Features : DetectorOf[g] = DetectorOf[f] =>
       read[g] = (IF g < f THEN read[f] + 1 ELSE read[f])

Detect(f) == Turn(f) /\ ProcessElement(f)

Next == \E f \in Features : Detect(f)

Spec == Init /\ [][Next]_vars

(***************************************************************************)
(* Properties.                                                             *)
(***************************************************************************)

\* Type invariant; startSeq and peakKs are there exactly while confirming,
\* so that processElement never unboxes a null.
TypeOK ==
  /\ read \in [Features -> 0 .. Len(Rows)]
  /\ sampleCount \in [Features -> Nat]
  /\ confirming \in [Features -> BOOLEAN]
  /\ startSeq \in [Features -> Seqs \cup {Null}]
  /\ peakKs \in [Features -> Ks \cup {Null}]
  /\ \A f \in Features : /\ confirming[f] <=> startSeq[f] # Null
                         /\ confirming[f] <=> peakKs[f] # Null
  /\ reports \in [Detectors -> Seq(FeatureDrift)]
  /\ history \in [Features -> Seq(Ks \cup {Null})]
  /\ \A f \in Features : Len(history[f]) = read[f]

Reports(f) == {reports[DetectorOf[f]][i] : i \in 1 .. Len(reports[DetectorOf[f]])}

\* The rows of a report's confirmation: from its onset to the first row at
\* least ConfirmWin later.
ConfirmationRows(report) ==
  {i \in 1 .. Len(Rows) :
     /\ Rows[i] >= report.seq
     /\ \A j \in 1 .. i - 1 : Rows[j] - report.seq < ConfirmWin}

\* A report is what its doc says: ks exceeded the threshold at its onset, and
\* its peak is the largest ks of the whole confirmation, at least KsConfirm.
PeakOfConfirmation ==
  \A f \in Features : \A r \in Reports(f) : r.featureId = f =>
    LET seen == {history[f][i] : i \in ConfirmationRows(r)}
    IN  /\ \A i \in ConfirmationRows(r) : Rows[i] = r.seq => history[f][i] > Threshold
        /\ r.peak \in seen
        /\ \A k \in seen : k <= r.peak
        /\ r.peak >= KsConfirm

\* Two onsets of a feature lie a confirmation and a warm-up apart.
OnsetsApart ==
  \A f \in Features : LET sent == reports[DetectorOf[f]] IN
    \A i, j \in 1 .. Len(sent) :
      i < j /\ sent[i].featureId = f /\ sent[j].featureId = f =>
        sent[j].seq - sent[i].seq >= ConfirmWin + WindowSize

\* What the aggregator is told: each report the outcome of a confirmation of
\* its own.
ReportsConfirmed == PeakOfConfirmation /\ OnsetsApart

\* "recall": no excess of ks that would pass the peak gate goes unreported;
\* once ConfirmWin rows have passed it lies within the confirmation of some
\* report, whatever started that confirmation.
NoExcessUnreported ==
  \A f \in Features : \A i \in 1 .. read[f] :
    /\ history[f][i] > Threshold
    /\ history[f][i] >= KsConfirm
    /\ Rows[read[f]] - Rows[i] >= ConfirmWin
    => \E r \in Reports(f) : r.featureId = f /\ i \in ConfirmationRows(r)

\* What the aggregator's window rests on: the rows being numbered without a
\* gap, a detector writes its reports in the order of their onsets.
ReportsInOrder ==
  \A d \in Detectors : \A i, j \in 1 .. Len(reports[d]) :
    i < j => reports[d][i].seq <= reports[d][j].seq
=============================================================================
