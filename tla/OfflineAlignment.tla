--------------------------- MODULE OfflineAlignment ---------------------------
(***************************************************************************)
(* Phase 1 of derisk_proxy: the AUC of a forest frozen before the first    *)
(* drift (gt_a), its degradation, and how the onsets of the aggregator are *)
(* aligned with it (aggregate_metrics, run_dataset, pick_verdict).         *)
(*                                                                         *)
(* The stream grows window by window, and everything below is what the     *)
(* script computes when the stream ends here.  Half a GT_STEP is the unit  *)
(* of a position: the centre of window i is 2 * i, so a drift can lie on a *)
(* centre or between two.  The onsets of the aggregator are free.          *)
(***************************************************************************)
EXTENDS Integers, Sequences, FiniteSets, FiniteSetsExt

CONSTANTS
  AucValues,     \* AUC of a window, integers; NoAuc when it has one class only
  Deltas,        \* spec.delta: GT_DELTA, or the larger one of WEAK_GT_A_DATASETS
  GtDelta,       \* GT_DELTA
  GtSustained,   \* GT_M
  AlignKs,       \* k_grid
  AlignTau,      \* TAU
  PreEnds,       \* drift_starts[0]
  MaxWindow      \* bound: windows

NoAuc == -1
NoOnset == 0

ASSUME AlignmentAssumption ==
  /\ AucValues \subseteq Nat \cup {NoAuc}
  /\ GtDelta \in Nat /\ GtSustained \in Nat \ {0}
  /\ \A d \in Deltas : d \in Nat /\ d >= GtDelta
  /\ AlignKs \subseteq Nat \ {0} /\ AlignKs # {} /\ IsFiniteSet(AlignKs)
  /\ AlignTau \in Nat /\ PreEnds \subseteq Nat \ {0} /\ MaxWindow \in Nat

VARIABLES
  preEnd, delta,   \* arguments of gt_a
  aucs,            \* aucs
  aggOnsets        \* per k: aggregate_onsets(features, n, k)

alignmentVars == <<preEnd, delta, aucs, aggOnsets>>

AlignmentInit ==
  /\ preEnd \in PreEnds /\ delta \in Deltas
  /\ aucs = <<>>
  /\ aggOnsets = [k \in AlignKs |-> {}]

Center(i) == 2 * i

(***************************************************************************)
(* gt_a                                                                    *)
(***************************************************************************)
PreWindows(a) == {i \in DOMAIN a : Center(i) < preEnd /\ a[i] # NoAuc}

\* Their sum, as the number of points under their graph.
PreTotal(a) == Cardinality(UNION {{i} \X (1 .. a[i]) : i \in PreWindows(a)})

\* auc < baseline - d, without the division; a NaN is not below anything.
Below(a, i, d) ==
  /\ PreWindows(a) # {} /\ a[i] # NoAuc
  /\ Cardinality(PreWindows(a)) * (a[i] + d) < PreTotal(a)

\* Mutant of Sustained: convolve with "full", windows past the end count.
SustainedFull(a, i) ==
  \A j \in i .. i + GtSustained - 1 :
    j <= Len(a) => Below(a, j, delta) /\ Center(j) > preEnd

Sustained(a, i) ==
  /\ i + GtSustained - 1 <= Len(a)
  /\ \A j \in i .. i + GtSustained - 1 : Below(a, j, delta) /\ Center(j) > preEnd

DegradationOnset(a) ==
  LET hits == {i \in DOMAIN a : Sustained(a, i)}
  IN  IF hits = {} THEN NoOnset ELSE Center(Min(hits))

(***************************************************************************)
(* aggregate_metrics for one k                                             *)
(***************************************************************************)
\* Mutant of Segments: the segment that is open at the end is not closed.
ClosedSegments ==
  {s \in (DOMAIN aucs) \X (DOMAIN aucs) :
     /\ s[1] <= s[2] /\ \A i \in s[1] .. s[2] : Below(aucs, i, GtDelta)
     /\ s[1] = 1 \/ ~Below(aucs, s[1] - 1, GtDelta)
     /\ s[2] # Len(aucs) /\ ~Below(aucs, s[2] + 1, GtDelta)}

\* gta_degradation_segments: the longest stretches below the baseline, of
\* any length, before the drift too, and with GT_DELTA whatever delta is.
Segments ==
  {s \in (DOMAIN aucs) \X (DOMAIN aucs) :
     /\ s[1] <= s[2] /\ \A i \in s[1] .. s[2] : Below(aucs, i, GtDelta)
     /\ s[1] = 1 \/ ~Below(aucs, s[1] - 1, GtDelta)
     /\ s[2] = Len(aucs) \/ ~Below(aucs, s[2] + 1, GtDelta)}

\* Positions where an onset is anticipation or timely detection.
Useful(onset) == preEnd - AlignTau .. onset + AlignTau

\* latency is a set, empty for None.
AggResult(k) ==
  LET onset == DegradationOnset(aucs)
      near == IF onset = NoOnset THEN {} ELSE aggOnsets[k] \cap Useful(onset)
      missed == {s \in Segments :
                   aggOnsets[k] \cap (Center(s[1]) - AlignTau .. Center(s[2]) + AlignTau) = {}}
  IN  [k |-> k,
       latency |-> IF near = {} THEN {} ELSE {Min(near) - onset},
       fp |-> Cardinality({o \in aggOnsets[k] : o < preEnd - AlignTau}),
       fn |-> Cardinality(missed)]

(***************************************************************************)
(* run_dataset: the best k, and pick_verdict on it                         *)
(***************************************************************************)
EarlierLatency(a, b) == a # {} /\ (b = {} \/ Min(a) < Min(b))

\* Mutant of Better: the latency is compared first.
LatencyFirst(a, b) ==
  \/ EarlierLatency(a.latency, b.latency)
  \/ /\ a.latency = b.latency
     /\ a.fn < b.fn \/ (a.fn = b.fn /\ (a.fp < b.fp \/ (a.fp = b.fp /\ a.k < b.k)))

\* The order of the tuples (fn, fp, latency, k).
Better(a, b) ==
  \/ a.fn < b.fn
  \/ a.fn = b.fn /\ a.fp < b.fp
  \/ a.fn = b.fn /\ a.fp = b.fp /\ EarlierLatency(a.latency, b.latency)
  \/ a.fn = b.fn /\ a.fp = b.fp /\ a.latency = b.latency /\ a.k < b.k

Best ==
  LET results == {AggResult(k) : k \in AlignKs}
  IN  CHOOSE r \in results : \A s \in results \ {r} : Better(r, s)

PickVerdict(best) ==
  CASE DegradationOnset(aucs) = NoOnset /\ best.fp = 0 -> "no_GT_signal+no_FP"
    [] DegradationOnset(aucs) = NoOnset /\ best.fp > 0 -> "no_GT_signal+spurious_fires"
    [] OTHER -> IF best.latency # {} /\ best.fp = 0 /\ best.fn = 0 THEN "proxy_holds"
                ELSE IF best.fn > 0 THEN "mode2_miss"
                ELSE IF best.fp > 0 THEN "mode1_false_fire"
                ELSE "indeterminate"

(***************************************************************************)
(* The stream.                                                             *)
(***************************************************************************)
\* One more window, with AUC a; the aggregators of `firing` emit an onset.
SlideWindow(a, firing) ==
  /\ Len(aucs) < MaxWindow
  /\ aucs' = Append(aucs, a)
  /\ aggOnsets' = [k \in AlignKs |->
                     IF k \in firing THEN aggOnsets[k] \cup {Center(Len(aucs) + 1)}
                     ELSE aggOnsets[k]]
  /\ UNCHANGED <<preEnd, delta>>

AlignmentNext == \E a \in AucValues : \E firing \in SUBSET AlignKs : SlideWindow(a, firing)

AlignmentSpec == AlignmentInit /\ [][AlignmentNext]_alignmentVars

(***************************************************************************)
(* Properties.                                                             *)
(***************************************************************************)

\* "Some drift hits in no config at all => real mode 2": a degraded forest
\* that no aggregator reacts to is reported as a miss, however the stream
\* ends (gta_degradation_segments has a segment wherever gt_a has an onset,
\* although the two use different deltas and different masks).
SilenceIsAMiss ==
  /\ DegradationOnset(aucs) # NoOnset
  /\ \A k \in AlignKs : aggOnsets[k] = {}
  => PickVerdict(Best) = "mode2_miss"

\* "pick best k: prefer FN=0 + FP=0 + smallest latency" (derisk_proxy:966):
\* the verdict of the best k is proxy_holds whenever that of some k is.
BestHoldsIfAnyHolds ==
  \A k \in AlignKs :
    PickVerdict(AggResult(k)) = "proxy_holds" => PickVerdict(Best) = "proxy_holds"

\* What pick_verdict says of the run.
VerdictsAreSound == SilenceIsAMiss /\ BestHoldsIfAnyHolds

\* "first sustained center where auc < baseline-delta" (derisk_proxy:257): a
\* longer stream of the same data does not move the onset.
OnsetIsFinal ==
  [][DegradationOnset(aucs) # NoOnset => DegradationOnset(aucs') = DegradationOnset(aucs)]_alignmentVars
=============================================================================
