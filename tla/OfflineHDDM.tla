----------------------------- MODULE OfflineHDDM -----------------------------
(***************************************************************************)
(* hddm_signal_sanity: the HDDM_W detector in Python on the signal of one   *)
(* feature, next to the deployed PerFeatureHDDM on the same rows.  The      *)
(* deployed detector collects a new reference after a drift; the script     *)
(* keeps the first one and skips as many samples instead ("approximately    *)
(* the throttling of a new warm-up", run_hddm_on_signal).                   *)
(*                                                                         *)
(* The two signals of a row differ: compute_signal measures against the     *)
(* mean of the first warm-up for good, and its scale comes from deviations  *)
(* from that mean and an interpolated percentile, where the job takes       *)
(* deviations from the running mean, the nearest rank, and the last         *)
(* warm-up.  So each detector has a free signal of its own.                 *)
(*                                                                         *)
(* A row is numbered from 1; the script counts the samples from 0.          *)
(***************************************************************************)
EXTENDS PerFeatureHDDM

CONSTANT Drifts \* drift_starts: samples

ASSUME DriftsAssumption == Drifts \subseteq Nat

VARIABLES
  det,      \* HDDM_W_Py: ewma, best_mean, best_bound, n
  cooldown, \* run_hddm_on_signal: samples still to skip
  fires,    \* run_hddm_on_signal: samples, in order
  alike,    \* history: both signals were the same up to the first report
  firstRow  \* history: the row of the first report, 0 before it

offlineVars == <<det, cooldown, fires, alike, firstRow>>
bothVars == <<vars, offlineVars>>

\* HDDM_W_Py.reset
Fresh == [n |-> 0, ewma |-> 0, bestMean |-> 0, bestBound |-> 0]

BothInit ==
  Init /\ det = Fresh /\ cooldown = 0 /\ fires = <<>> /\ alike = TRUE /\ firstRow = 0

(***************************************************************************)
(* HDDM_W_Py.update.                                                       *)
(***************************************************************************)
PyEwma(d, s) == IF d.n = 0 THEN s ELSE ((Weights - Lambda) * d.ewma + Lambda * s) \div Weights

\* Mutant of PyUpdate: the first sample does not start the tracking.
PyUpdateFirst(d, s) ==
  LET mean == PyEwma(d, s)
      better == mean + Epsilon < d.bestMean + d.bestBound
  IN  [n |-> d.n + 1, ewma |-> mean,
       bestMean |-> IF better THEN mean ELSE d.bestMean,
       bestBound |-> IF better THEN Epsilon ELSE d.bestBound]

PyUpdate(d, s) ==
  LET mean == PyEwma(d, s)
      better == d.n = 0 \/ mean + Epsilon < d.bestMean + d.bestBound
  IN  [n |-> d.n + 1, ewma |-> mean,
       bestMean |-> IF better THEN mean ELSE d.bestMean,
       bestBound |-> IF better THEN Epsilon ELSE d.bestBound]

\* drift_bound is best_bound by the factor that makes DriftBound of Epsilon.
PyBound(d) == IF d.bestBound = Epsilon THEN DriftBound ELSE 0
PyDrift(d) == d.ewma - Epsilon > d.bestMean + PyBound(d)

(***************************************************************************)
(* run_hddm_on_signal on the next row, whose signal is t.                  *)
(***************************************************************************)

\* range(warmup, n): the signal of the first warm-up is nan.
PyWarm == rows' <= Warmup /\ UNCHANGED <<det, cooldown, fires>>

PySkip ==
  /\ rows' > Warmup /\ cooldown > 0
  /\ cooldown' = cooldown - 1
  /\ UNCHANGED <<det, fires>>

\* Mutant of Throttle: one sample too few.
ShortThrottle == Warmup - 1

Throttle == Warmup

PyFeed(t) ==
  /\ rows' > Warmup /\ cooldown = 0
  /\ LET d == PyUpdate(det, t)
     IN  IF PyDrift(d)
         THEN det' = Fresh /\ fires' = Append(fires, rows' - 1) /\ cooldown' = Throttle
         ELSE det' = d /\ UNCHANGED <<fires, cooldown>>

Deployed(s) == WarmUp \/ Freeze \/ Stable(s) \/ Warn(s) \/ Drift(s)

\* The row of the last fire, as `last` is of the last report.
LastFire == IF fires = <<>> THEN 0 ELSE fires[Len(fires)] + 1

BothNext ==
  \E s, t \in 0 .. SignalMax :
    /\ Deployed(s)
    /\ PyWarm \/ PySkip \/ PyFeed(t)
    /\ alike' = (alike /\ (firstRow # 0 \/ rows' <= Warmup \/ s = t))
    /\ firstRow' = IF firstRow = 0 THEN last' ELSE firstRow

BothSpec == BothInit /\ [][BothNext]_bothVars

(***************************************************************************)
(* What the table of main and the cells of evaluate_one are made of, for   *)
(* the samples seen so far.  A mean stands for the samples it is taken     *)
(* over; nan is no sample.                                                 *)
(***************************************************************************)

\* compute_signal: the samples that have a signal.
Signalled == IF rows <= Warmup THEN {} ELSE Warmup .. rows - 1

\* Mutant of RankWindows: all of the stable part.
RankAllBefore(ep) ==
  [pre |-> Signalled \cap Warmup .. ep - 1, post |-> Signalled \cap ep .. ep + Warmup - 1]

\* rank_features_by_lift: an empty window counts as 0.
RankWindows(ep) ==
  [pre |-> Signalled \cap Greater(Warmup, ep - Warmup) .. ep - 1,
   post |-> Signalled \cap ep .. ep + Warmup - 1]

\* window_stats: the mean of an empty window is nan, and so is the lift.
TableWindows(ep) ==
  [pre |-> Signalled \cap Greater(0, ep - Warmup) .. ep - 1,
   post |-> Signalled \cap ep .. ep + Warmup - 1]
HasLift(ep) == TableWindows(ep).pre # {} /\ TableWindows(ep).post # {}

(***************************************************************************)
(* Properties.                                                             *)
(***************************************************************************)

\* "consistent with Java drift/HDDM_W.java" (hddm_signal_sanity:21): as long as
\* the two signals are the same, the script's first fire is the deployed
\* detector's first report.  Beyond it they measure against different
\* references and nothing ties their drifts together.
FirstFireIsReport ==
  alike => IF firstRow = 0 THEN fires = <<>> ELSE fires # <<>> /\ fires[1] = firstRow - 1

\* The samples a detector has been fed when each drift costs it a warm-up.
FedSince(drift) == Greater(0, rows - drift - Warmup)

\* "skip the next warmup samples [...] approximating the throttling"
\* (hddm_signal_sanity:149): whatever the signals are, after a drift of its
\* own each detector starts anew behind a whole warm-up, the script's behind
\* samples skipped, the deployed one's behind the rows that its reference now
\* rests on, and these alone.
PausesAgree ==
  /\ det.n = FedSince(LastFire)
  /\ (IF hddm = None THEN 0 ELSE hddm.n) = FedSince(last)
  /\ FreshReference

\* The features are chosen by a lift ("lift = post_mean - pre_mean") that
\* counts a missing mean as 0 and clips the window at the warm-up; where the
\* table has a lift at all, it is that lift.
LiftsAgree == \A ep \in Drifts : HasLift(ep) => RankWindows(ep) = TableWindows(ep)

\* What the replay is read for: its fires, their distance and its lifts.
ReplayAgrees == FirstFireIsReport /\ PausesAgree /\ LiftsAgree
=============================================================================
