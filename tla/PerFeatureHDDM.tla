--------------------------- MODULE PerFeatureHDDM ---------------------------
(***************************************************************************)
(* PerFeatureHDDMFunction with HDDM_W: the other drift detector, for one    *)
(* feature (its state is keyed by feature).  A warm-up of Warmup rows gives *)
(* the reference; each later row's deviation from it, a signal between 0    *)
(* and 1, is averaged with exponential weights; an average well above the   *)
(* lowest one so far is a drift, reported at once with the row's number.    *)
(*                                                                          *)
(* The signal is free, in fixed point (SignalMax is 1).  Instead of their   *)
(* values, warmSum, warmDevs, refMean and scale hold the rows they are      *)
(* computed from, no rows when they are absent.                             *)
(***************************************************************************)
EXTENDS Integers, Sequences, FiniteSets

CONSTANTS
  Warmup,      \* rows of a warm-up
  SignalMax,   \* the signal 1
  Lambda,      \* the weight of a new sample is Lambda / Weights
  Weights,
  Epsilon,     \* the Hoeffding bound: it depends on the parameters alone
  DriftBound,  \* Epsilon * sqrt(ln(1/driftConfidence) / ln(1/warnConfidence))
  WarnBound,   \* Epsilon * sqrt(ln(1/warnConfidence) / ln(1/driftConfidence))
  MaxGap,      \* bound: how far apart the numbers of two successive rows are
  MaxRows      \* bound: rows

\* The constructors require lambda in (0, 1] and driftConfidence to be below
\* warnConfidence.
ASSUME HDDMAssumption ==
  /\ Warmup \in Nat \ {0}
  /\ SignalMax \in Nat
  /\ Weights \in Nat \ {0} /\ Lambda \in 1 .. Weights
  /\ WarnBound \in Nat /\ Epsilon \in Nat /\ DriftBound \in Nat
  /\ WarnBound <= Epsilon /\ Epsilon <= DriftBound
  /\ MaxGap \in Nat \ {0} /\ MaxRows \in Nat

VARIABLES
  rows,      \* history: rows seen
  seq,       \* number of the last row
  count,     \* keyed state, from here on
  warmSum,   \* rows summed
  warmDevs,  \* rows whose deviation is in the list
  refMean,   \* rows averaged
  scale,     \* rows whose deviations it is computed from
  hddm,      \* the HDDM_W instance, or None
  reports,   \* feature-drift-topic: numbers of the rows reported
  last,      \* history: the row of the last report, 0 before the first
  lowest,    \* history: lowest signal since the warm-up
  rise       \* history: how far a signal since the warm-up lay above an
             \* earlier one, at most

vars == <<rows, seq, count, warmSum, warmDevs, refMean, scale, hddm, reports,
          last, lowest, rise>>

Absent == {}
None == [none |-> TRUE]
Greater(a, b) == IF a > b THEN a ELSE b
Less(a, b) == IF a < b THEN a ELSE b

Init ==
  /\ rows = 0 /\ seq = 0
  /\ count = 0
  /\ warmSum = Absent /\ warmDevs = {} /\ refMean = Absent /\ scale = Absent
  /\ hddm = None
  /\ reports = <<>>
  /\ last = 0 /\ lowest = SignalMax /\ rise = 0

\* The next row; rows that could not be parsed leave gaps in the numbers.
Row ==
  /\ rows < MaxRows
  /\ rows' = rows + 1
  /\ seq' \in seq + 1 .. seq + MaxGap

(***************************************************************************)
(* Warm-up.                                                                *)
(***************************************************************************)

Collect ==
  /\ warmSum' = warmSum \cup {rows'}
  /\ count' = count + 1
  /\ lowest' = SignalMax /\ rise' = 0
  /\ UNCHANGED <<hddm, reports, last>>

WarmUp ==
  /\ Row
  /\ count + 1 < Warmup
  /\ Collect
  /\ warmDevs' = warmDevs \cup {rows'}
  /\ UNCHANGED <<refMean, scale>>

\* The row that completes the warm-up fixes the reference.
Freeze ==
  /\ Row
  /\ count + 1 = Warmup
  /\ Collect
  /\ refMean' = warmSum'
  /\ scale' = warmDevs \cup {rows'}
  /\ warmDevs' = {}

(***************************************************************************)
(* HDDM_W.update.                                                          *)
(***************************************************************************)

NewHDDM == [n |-> 0, ewma |-> 0, bestMean |-> 0, warnEnteredAt |-> 0]

Ewma(det, signal) ==
  IF det.n = 0 THEN signal
  ELSE ((Weights - Lambda) * det.ewma + Lambda * signal) \div Weights

\* Mutant of BestMean: the first sample does not start the tracking.
BestSoFar(det, mean) == Less(det.bestMean, mean)

\* bestBound is Epsilon from the first sample on.
BestMean(det, mean) ==
  IF det.n = 0 \/ mean + Epsilon < det.bestMean + Epsilon THEN mean ELSE det.bestMean

Sampled(det, signal) ==
  LET mean == Ewma(det, signal)
  IN  [det EXCEPT !.n = @ + 1, !.ewma = mean, !.bestMean = BestMean(det, mean)]

IsDrift(det) == det.ewma - Epsilon > det.bestMean + DriftBound
IsWarn(det) == ~IsDrift(det) /\ det.ewma - Epsilon > det.bestMean + WarnBound

(***************************************************************************)
(* Detection.                                                              *)
(***************************************************************************)

Current == IF hddm = None THEN NewHDDM ELSE hddm

\* A row past the warm-up.
Sample(signal) ==
  /\ Row
  /\ count >= Warmup
  /\ lowest' = Less(lowest, signal)
  /\ rise' = Greater(rise, signal - lowest')

NoDrift(det) ==
  /\ hddm' = det
  /\ count' = count + 1
  /\ UNCHANGED <<warmSum, warmDevs, refMean, scale, reports, last>>

Stable(signal) ==
  LET det == Sampled(Current, signal)
  IN  /\ Sample(signal)
      /\ ~IsDrift(det) /\ ~IsWarn(det)
      /\ NoDrift([det EXCEPT !.warnEnteredAt = 0])

Warn(signal) ==
  LET det == Sampled(Current, signal)
  IN  /\ Sample(signal)
      /\ IsWarn(det)
      /\ NoDrift([det EXCEPT !.warnEnteredAt = IF @ = 0 THEN det.n ELSE @])

\* Mutants of StartOver: the sum is kept; the count is kept; only the
\* detector starts over.
KeepSum ==
  /\ refMean' = Absent /\ scale' = Absent /\ hddm' = None
  /\ count' = 0
  /\ UNCHANGED <<warmSum, warmDevs>>
KeepCount ==
  /\ refMean' = Absent /\ scale' = Absent /\ warmSum' = Absent /\ hddm' = None
  /\ UNCHANGED <<count, warmDevs>>
KeepReference ==
  /\ hddm' = None
  /\ UNCHANGED <<refMean, scale, warmSum, count, warmDevs>>

StartOver ==
  /\ refMean' = Absent /\ scale' = Absent /\ warmSum' = Absent /\ hddm' = None
  /\ count' = 0
  /\ UNCHANGED warmDevs

Drift(signal) ==
  LET det == Sampled(Current, signal)
  IN  /\ Sample(signal)
      /\ IsDrift(det)
      /\ reports' = Append(reports, seq')
      /\ last' = rows'
      /\ StartOver

ProcessElement ==
  \/ WarmUp
  \/ Freeze
  \/ \E signal \in 0 .. SignalMax : Stable(signal) \/ Warn(signal) \/ Drift(signal)

Next == ProcessElement

Spec == Init /\ [][Next]_vars

(***************************************************************************)
(* Properties.                                                             *)
(***************************************************************************)

\* Type invariant.  The reference is there exactly when detection reads it,
\* so no null is unboxed (PerFeatureHDDMFunction:150).
TypeOK ==
  /\ rows \in 0 .. MaxRows /\ seq \in rows .. rows * MaxGap
  /\ count \in 0 .. rows
  /\ (count >= Warmup) <=> refMean # Absent
  /\ (refMean = Absent) <=> (scale = Absent)
  /\ hddm # None =>
       /\ refMean # Absent
       /\ hddm.n = count - Warmup /\ hddm.n > 0
       /\ hddm.ewma \in 0 .. SignalMax /\ hddm.bestMean \in 0 .. hddm.ewma
       /\ hddm.warnEnteredAt \in 0 .. hddm.n
  /\ last \in 0 .. rows /\ lowest \in 0 .. SignalMax /\ rise \in 0 .. SignalMax

\* "re-estimate the reference after a drift" (PerFeatureHDDMFunction:156): it
\* rests on exactly the Warmup rows after the last drift, its mean and its
\* scale alike, so nothing from before the drift bears on the next one.
FreshReference ==
  refMean # Absent =>
    refMean = last + 1 .. last + Warmup /\ scale = last + 1 .. last + Warmup

\* Between two onsets of a feature lie a warm-up and at least one sample.
OnsetsApart ==
  \A i, j \in DOMAIN reports : i < j => reports[j] - reports[i] >= Warmup + 2

\* A drift is never an artefact of the averaging: since the warm-up some
\* signal lay more than both bounds above an earlier one.
DriftsAreShifts == [][reports' # reports => rise' > Epsilon + DriftBound]_vars
=============================================================================
