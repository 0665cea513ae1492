---------------------------- MODULE OfflineProofs ----------------------------
(***************************************************************************)
(* Proofs about the detection prototype and what it replays: the HDDM_W    *)
(* detection of a feature (PerFeatureHDDM) with its offline replay         *)
(* (OfflineHDDM), the replays of the IKS gate (OfflineGate) and the three  *)
(* aggregations of crossings offline (OfflineQuorum); and about the files  *)
(* around them: the row numbers of a transformed dataset                   *)
(* (InsectsTransform), the concept of a generated one (SynthDrift), the    *)
(* measures and the answered drifts of a report (ScoreReports), batches of *)
(* runs (ExperimentBatch) and result files (OfflineResults); for every     *)
(* value of the constants.                                                 *)
(***************************************************************************)
EXTENDS OfflineHDDM, OfflineGate, OfflineQuorum, OfflineAlignment, InsectsTransform,
        ScoreReports, ExperimentBatch, SynthDrift, OfflineResults, SequenceTheorems,
        FiniteSetTheorems, WellFoundedInduction, NaturalsInduction, TLAPS

(***************************************************************************)
(* The least and the greatest element of a set of numbers.                 *)
(***************************************************************************)

LEMMA LeastNumber ==
  ASSUME NEW S \in SUBSET Nat, S # {}
  PROVE  \E x \in S : \A y \in S : x <= y
<1>1. IsWellFoundedOn(OpToRel(<, Nat), Nat)
  BY NatLessThanWellFounded
<1>2. PICK x \in S : \A y \in S : ~(<<y, x>> \in OpToRel(<, Nat))
  BY <1>1, WFMin
<1>3. \A y \in S : ~(y < x)
  BY <1>2 DEF OpToRel
<1> QED
  BY <1>3

LEMMA MinIsLeast ==
  ASSUME NEW S \in SUBSET Nat, S # {}
  PROVE  Min(S) \in S /\ \A y \in S : Min(S) <= y
<1>1. \E x \in S : \A y \in S : x <= y
  BY LeastNumber
<1> QED
  BY <1>1, Zenon DEF Min

\* No finite set is a smallest one without a greatest element.
LEMMA MaxIsGreatest ==
  ASSUME NEW S \in SUBSET Nat, IsFiniteSet(S), S # {}
  PROVE  Max(S) \in S /\ \A y \in S : y <= Max(S)
<1> DEFINE Topped(T) == \E x \in T : \A y \in T : x >= y
           bad == {n \in Nat : \E T \in SUBSET Nat :
                     IsFiniteSet(T) /\ T # {} /\ Cardinality(T) = n /\ ~Topped(T)}
<1>1. SUFFICES Topped(S)
  BY <1>1, Zenon DEF Max
<1>2. SUFFICES ASSUME ~Topped(S) PROVE FALSE
  OBVIOUS
<1>3. Cardinality(S) \in bad
  BY <1>2, FS_CardinalityType
<1>4. bad \in SUBSET Nat
  OBVIOUS
<1> HIDE DEF bad
<1>5. PICK n \in bad : \A m \in bad : n <= m
  BY <1>3, <1>4, LeastNumber
<1> USE DEF bad
<1>6. PICK T \in SUBSET Nat : IsFiniteSet(T) /\ T # {} /\ Cardinality(T) = n /\ ~Topped(T)
  BY <1>5
<1>7. PICK x \in T : TRUE
  BY <1>6
<1>8. IsFiniteSet(T \ {x}) /\ Cardinality(T \ {x}) = n - 1 /\ n - 1 \in Nat
  <2>1. Cardinality(T \ {x}) \in Nat
    BY <1>6, FS_RemoveElement, FS_CardinalityType
  <2> QED
    BY <1>5, <1>6, <1>7, <2>1, FS_RemoveElement
<1>9. ~(n - 1 \in bad)
  BY <1>5, <1>8, <1>4
<1>10. T \ {x} = {} \/ Topped(T \ {x})
  BY <1>8, <1>9
<1> HIDE DEF bad
<1>11. Topped(T)
  <2>1. CASE T \ {x} = {}
    <3>1. \A y \in T : y = x
      BY <2>1
    <3>2. x \in Nat
      BY <1>6
    <3> QED
      BY <3>1, <3>2
  <2>2. CASE Topped(T \ {x})
    <3>1. PICK z \in T \ {x} : \A y \in T \ {x} : z >= y
      BY <2>2
    <3>2. x \in Nat /\ z \in Nat /\ T \subseteq Nat
      BY <1>6
    <3>3. CASE x <= z
      BY <3>1, <3>2, <3>3
    <3>4. CASE ~(x <= z)
      BY <3>1, <3>2, <3>4
    <3> QED
      BY <3>3, <3>4
  <2> QED
    BY <1>10, <2>1, <2>2
<1> QED
  BY <1>6, <1>11

(***************************************************************************)
(* HDDM_W: PerFeatureHDDM.                                                 *)
(***************************************************************************)

\* A weighted average lies between what it averages; integer division keeps
\* it there.  This is all that is used of the EWMA recursion.
LEMMA AverageBetween ==
  ASSUME NEW W \in Nat \ {0}, NEW L \in 1 .. W, NEW a \in Nat, NEW b \in Nat,
         NEW lo \in Nat, NEW hi \in Nat,
         lo <= a, lo <= b, a <= hi, b <= hi
  PROVE  /\ ((W - L) * a + L * b) \div W \in Nat
         /\ lo <= ((W - L) * a + L * b) \div W
         /\ ((W - L) * a + L * b) \div W <= hi
<1> DEFINE x == (W - L) * a + L * b
           d == x \div W
<1>1. (W - L) * lo <= (W - L) * a /\ (W - L) * a <= (W - L) * hi
  <2>1. ASSUME NEW k \in Nat, NEW u \in Nat, NEW v \in Nat, u <= v
        PROVE  k * u <= k * v
    BY <2>1, SMT
  <2>2. W - L \in Nat
    BY SMT
  <2> QED BY <2>1, <2>2
<1>2. L * lo <= L * b /\ L * b <= L * hi
  <2>1. ASSUME NEW k \in Nat, NEW u \in Nat, NEW v \in Nat, u <= v
        PROVE  k * u <= k * v
    BY <2>1, SMT
  <2>2. L \in Nat
    BY SMT
  <2> QED BY <2>1, <2>2
<1>3. W * lo <= x /\ x <= W * hi
  <2>1. (W - L) * lo + L * lo = W * lo /\ (W - L) * hi + L * hi = W * hi
    BY SMT
  <2> QED BY <1>1, <1>2, <2>1, SMT
<1>4. x \in Int
  BY SMT
<1>5. d \in Int /\ W * d <= x /\ x < W * (d + 1)
  <2> HIDE DEF x
  <2> QED BY <1>4, SMT
<1>6. lo <= d /\ d <= hi
  <2> HIDE DEF x, d
  <2>1. ASSUME NEW u \in Int, NEW v \in Int, W * u < W * v
        PROVE  u < v
    BY <2>1, SMT
  <2>2. W * lo < W * (d + 1) /\ W * d < W * (hi + 1)
    BY <1>3, <1>4, <1>5, SMT
  <2>3. lo < d + 1 /\ d < hi + 1
    BY <2>1, <2>2, <1>5
  <2> QED BY <2>3, <1>5, SMT
<1> QED BY <1>5, <1>6, SMT

(***************************************************************************)
(* The inductive invariant, in four parts.                                 *)
(***************************************************************************)

HDDM == [n : Nat, ewma : 0 .. SignalMax, bestMean : 0 .. SignalMax, warnEnteredAt : Nat]

\* Types, and the number of samples an instance has seen.
StateInv ==
  /\ rows \in Nat /\ seq \in Nat /\ count \in Nat /\ last \in Nat
  /\ rows <= MaxRows
  /\ lowest \in 0 .. SignalMax /\ rise \in 0 .. SignalMax
  /\ count = rows - last
  /\ count <= Warmup => hddm = None
  /\ count > Warmup => hddm \in HDDM
  /\ hddm # None =>
       /\ hddm.n = count - Warmup
       /\ hddm.bestMean <= hddm.ewma
       /\ hddm.warnEnteredAt <= hddm.n

\* What the warm-up has collected, and what it has been turned into.
ReferenceInv ==
  /\ count < Warmup =>
       /\ warmSum = last + 1 .. rows /\ warmDevs = last + 1 .. rows
       /\ refMean = Absent /\ scale = Absent
  /\ count >= Warmup =>
       /\ refMean = last + 1 .. last + Warmup
       /\ scale = last + 1 .. last + Warmup
       /\ warmDevs = {}

\* Row numbers grow at least as fast as rows.
OnsetsInv ==
  /\ reports \in Seq(Nat)
  /\ \A i \in DOMAIN reports : seq - reports[i] >= rows - last
  /\ OnsetsApart

\* The average has risen above its minimum no more than some signal has
\* above an earlier one.
ShiftInv ==
  hddm # None =>
    lowest <= hddm.bestMean /\ hddm.ewma - hddm.bestMean <= rise

DetectorIInv == StateInv /\ ReferenceInv /\ OnsetsInv /\ ShiftInv

LEMMA NoneIsNoHDDM == None \notin HDDM
<1> SUFFICES ASSUME None \in HDDM PROVE FALSE
  OBVIOUS
<1>1. DOMAIN None = {"n", "ewma", "bestMean", "warnEnteredAt"}
  BY DEF HDDM
<1>2. DOMAIN None = {"none"}
  BY DEF None
<1> QED BY <1>1, <1>2

\* What HDDM_W.update returns, in either case of its state.
LEMMA SampledFacts ==
  ASSUME StateInv, ShiftInv, count >= Warmup, NEW signal \in 0 .. SignalMax,
         NEW low \in Int, low = Less(lowest, signal),
         NEW up \in Int, up = Greater(rise, signal - low),
         NEW next, next = Sampled(Current, signal)
  PROVE  /\ low \in 0 .. SignalMax /\ up \in 0 .. SignalMax
         /\ next \in HDDM
         /\ next.n = count + 1 - Warmup
         /\ next.bestMean <= next.ewma
         /\ low <= next.bestMean
         /\ next.ewma - next.bestMean <= up
         /\ next.warnEnteredAt < next.n
         /\ hddm = None => next.ewma = next.bestMean
<1> USE HDDMAssumption
<1>1. low \in 0 .. SignalMax /\ up \in 0 .. SignalMax
      /\ low <= lowest /\ low <= signal /\ rise <= up /\ signal - low <= up
  BY DEF StateInv, Less, Greater
<1>2. CASE hddm = None
  <2>1. count = Warmup
    BY <1>2, NoneIsNoHDDM DEF StateInv
  <2>2. next = [NewHDDM EXCEPT !.n = 1, !.ewma = signal, !.bestMean = signal]
    BY <1>2 DEF Sampled, Current, NewHDDM, Ewma, BestMean
  <2>3. next = [n |-> 1, ewma |-> signal, bestMean |-> signal, warnEnteredAt |-> 0]
    BY <2>2 DEF NewHDDM
  <2> QED BY <1>1, <2>1, <2>3 DEF HDDM
<1>3. CASE hddm # None
  <2>1. hddm \in HDDM /\ hddm.n = count - Warmup /\ hddm.n > 0 /\ count \in Nat
    BY <1>3 DEF StateInv
  <2> DEFINE mean == Ewma(hddm, signal)
             best == BestMean(hddm, mean)
             least == Less(hddm.ewma, signal)
             most == Greater(hddm.ewma, signal)
  <2>2. hddm.ewma \in 0 .. SignalMax /\ hddm.bestMean \in 0 .. SignalMax
        /\ hddm.n \in Nat /\ hddm.warnEnteredAt \in Nat
    BY <2>1 DEF HDDM
  <2>3. mean \in Nat /\ least <= mean /\ mean <= most
    <3>1. mean = ((Weights - Lambda) * hddm.ewma + Lambda * signal) \div Weights
      BY <2>1, <2>2 DEF Ewma
    <3>2. least \in Nat /\ most \in Nat /\ least <= hddm.ewma /\ least <= signal
          /\ hddm.ewma <= most /\ signal <= most
      BY <2>2 DEF Less, Greater
    <3> HIDE DEF least, most, mean
    <3>3. hddm.ewma \in Nat /\ signal \in Nat
      BY <2>2
    <3> QED BY <3>1, <3>2, <3>3, AverageBetween
  <2>4. mean \in 0 .. SignalMax
    BY <2>2, <2>3 DEF Greater
  <2>5. best = IF mean < hddm.bestMean THEN mean ELSE hddm.bestMean
    <3> HIDE DEF mean
    <3> QED BY <2>1, <2>2, <2>4 DEF BestMean
  <2>6. next = [hddm EXCEPT !.n = @ + 1, !.ewma = mean, !.bestMean = best]
    BY <1>3 DEF Sampled, Current
  <2>7. /\ next \in HDDM /\ next.n = hddm.n + 1 /\ next.ewma = mean
        /\ next.bestMean = best /\ next.warnEnteredAt = hddm.warnEnteredAt
    <3> HIDE DEF mean, best
    <3>1. best \in 0 .. SignalMax
      BY <2>2, <2>4, <2>5
    <3>2. hddm = [n |-> hddm.n, ewma |-> hddm.ewma, bestMean |-> hddm.bestMean,
                  warnEnteredAt |-> hddm.warnEnteredAt]
      BY <2>1 DEF HDDM
    <3>3. next = [n |-> hddm.n + 1, ewma |-> mean, bestMean |-> best,
                 warnEnteredAt |-> hddm.warnEnteredAt]
      BY <2>6, <3>2
    <3> QED BY <2>2, <2>4, <3>1, <3>3 DEF HDDM
  <2>8. low <= best /\ mean - best <= up /\ best <= mean
    <3>1. lowest <= hddm.bestMean /\ hddm.ewma - hddm.bestMean <= rise
          /\ hddm.bestMean <= hddm.ewma /\ lowest \in Nat /\ rise \in Nat
      BY <1>3 DEF ShiftInv, StateInv
    <3>2. least = (IF hddm.ewma < signal THEN hddm.ewma ELSE signal)
          /\ most = (IF hddm.ewma > signal THEN hddm.ewma ELSE signal)
      BY DEF Less, Greater
    <3> HIDE DEF mean, best, least, most
    <3> QED BY <1>1, <2>2, <2>3, <2>5, <3>1, <3>2
  <2>9. hddm.warnEnteredAt <= hddm.n
    BY <1>3 DEF StateInv
  <2> HIDE DEF mean, best
  <2> QED BY <1>1, <1>3, <2>1, <2>2, <2>7, <2>8, <2>9
<1> QED BY <1>2, <1>3

LEMMA InitInv == Init => DetectorIInv
BY HDDMAssumption
DEF Init, DetectorIInv, StateInv, ReferenceInv, OnsetsInv, OnsetsApart, ShiftInv, Absent, None

\* A row moves the numbers on.
LEMMA RowFacts ==
  ASSUME StateInv, Row
  PROVE  /\ rows' = rows + 1 /\ rows' \in Nat /\ rows' <= MaxRows
         /\ seq' \in Nat /\ seq' >= seq + 1
BY HDDMAssumption DEF StateInv, Row

\* Rows without a report leave the reports' distances as they are.
LEMMA QuietOnsets ==
  ASSUME StateInv, OnsetsInv, Row, UNCHANGED <<reports, last>>
  PROVE  OnsetsInv'
<1>1. rows' = rows + 1 /\ seq' >= seq + 1 /\ seq' \in Nat
  BY RowFacts
<1>2. rows \in Nat /\ seq \in Nat /\ last \in Nat
  BY DEF StateInv
<1>3. ASSUME NEW i \in DOMAIN reports
      PROVE  seq' - reports[i] >= rows' - last
  <2>1. reports[i] \in Nat /\ seq - reports[i] >= rows - last
    BY <1>3 DEF OnsetsInv
  <2> QED BY <1>1, <1>2, <2>1
<1> QED BY <1>3 DEF OnsetsInv, OnsetsApart

LEMMA CollectInv ==
  ASSUME DetectorIInv, Row, Collect, count + 1 <= Warmup
  PROVE  StateInv' /\ OnsetsInv' /\ ShiftInv'
<1> USE HDDMAssumption
<1>1. rows' = rows + 1 /\ rows' \in Nat /\ rows' <= MaxRows /\ seq' \in Nat
  BY RowFacts DEF DetectorIInv
<1>2. hddm = None
  BY DEF DetectorIInv, StateInv
<1>3. hddm' = None /\ ShiftInv'
  BY <1>2 DEF Collect, ShiftInv
<1>4. StateInv'
  BY <1>1, <1>3 DEF DetectorIInv, StateInv, Collect
<1>5. OnsetsInv'
  BY QuietOnsets DEF DetectorIInv, Collect
<1> QED BY <1>3, <1>4, <1>5

\* A sample that is no drift.
LEMMA SampleInv ==
  ASSUME DetectorIInv, NEW signal \in 0 .. SignalMax, Sample(signal),
         NEW entered \in Nat,
         entered \in {0, Sampled(Current, signal).n, Sampled(Current, signal).warnEnteredAt},
         NoDrift([Sampled(Current, signal) EXCEPT !.warnEnteredAt = entered])
  PROVE  DetectorIInv'
<1> USE HDDMAssumption
<1>1. rows' = rows + 1 /\ rows' \in Nat /\ rows' <= MaxRows /\ seq' \in Nat
  BY RowFacts DEF DetectorIInv, Sample
<1>2. count \in Nat /\ count >= Warmup /\ lowest \in 0 .. SignalMax /\ rise \in 0 .. SignalMax
      /\ last \in Nat /\ count = rows - last /\ rows \in Nat
  BY DEF DetectorIInv, StateInv, Sample
<1>3. PICK low \in Int : low = Less(lowest, signal)
  BY <1>2 DEF Less
<1>4. PICK up \in Int : up = Greater(rise, signal - low)
  BY <1>2, <1>3 DEF Greater
<1>5. lowest' = low /\ rise' = up
  BY <1>3, <1>4 DEF Sample
<1>6. PICK next : next = Sampled(Current, signal)
  OBVIOUS
<1>7. /\ low \in 0 .. SignalMax /\ up \in 0 .. SignalMax
      /\ next \in HDDM
      /\ next.n = count + 1 - Warmup
      /\ next.bestMean <= next.ewma
      /\ low <= next.bestMean
      /\ next.ewma - next.bestMean <= up
      /\ next.warnEnteredAt < next.n
  BY <1>2, <1>3, <1>4, <1>6, SampledFacts DEF DetectorIInv
<1>8. PICK kept : kept = [next EXCEPT !.warnEnteredAt = entered]
  OBVIOUS
<1>9. hddm' = kept /\ count' = count + 1
      /\ UNCHANGED <<warmSum, warmDevs, refMean, scale, reports, last>>
  BY <1>6, <1>8 DEF NoDrift
<1>10. kept \in HDDM /\ kept.n = next.n /\ kept.ewma = next.ewma
       /\ kept.bestMean = next.bestMean /\ kept.warnEnteredAt = entered
  BY <1>7, <1>8 DEF HDDM
<1>11. next.n \in Nat /\ next.warnEnteredAt \in Nat /\ entered <= next.n
  <2>1. entered \in {0, next.n, next.warnEnteredAt}
    BY <1>6
  <2>2. next.n \in Nat /\ next.warnEnteredAt \in Nat
    BY <1>7 DEF HDDM
  <2> QED BY <1>7, <2>1, <2>2
<1>12. StateInv'
  BY <1>1, <1>2, <1>5, <1>7, <1>9, <1>10, <1>11 DEF StateInv
<1>13. ReferenceInv'
  <2>1. /\ refMean = last + 1 .. last + Warmup
        /\ scale = last + 1 .. last + Warmup
        /\ warmDevs = {}
    BY <1>2 DEF DetectorIInv, ReferenceInv
  <2>2. count' >= Warmup /\ ~(count' < Warmup)
    BY <1>2, <1>9
  <2>3. refMean' = refMean /\ scale' = scale /\ warmDevs' = warmDevs /\ last' = last
    BY <1>9
  <2> QED BY <2>1, <2>2, <2>3 DEF ReferenceInv
<1>14. OnsetsInv'
  BY <1>9, QuietOnsets DEF DetectorIInv, Sample
<1>15. ShiftInv'
  BY <1>5, <1>7, <1>9, <1>10 DEF ShiftInv
<1> QED BY <1>12, <1>13, <1>14, <1>15 DEF DetectorIInv

\* The first sample after a warm-up is no drift; a drift rests on a shift.
LEMMA DriftFacts ==
  ASSUME DetectorIInv, NEW signal \in 0 .. SignalMax, Drift(signal)
  PROVE  count >= Warmup + 1 /\ rise' > Epsilon + DriftBound
<1> USE HDDMAssumption
<1>1. count \in Nat /\ count >= Warmup /\ lowest \in 0 .. SignalMax /\ rise \in 0 .. SignalMax
  BY DEF DetectorIInv, StateInv, Drift, Sample
<1>2. PICK low \in Int : low = Less(lowest, signal)
  BY <1>1 DEF Less
<1>3. PICK up \in Int : up = Greater(rise, signal - low)
  BY <1>1, <1>2 DEF Greater
<1>4. rise' = up
  BY <1>2, <1>3 DEF Drift, Sample
<1>5. PICK next : next = Sampled(Current, signal)
  OBVIOUS
<1>6. next \in HDDM /\ next.ewma - next.bestMean <= up /\ (hddm = None => next.ewma = next.bestMean)
      /\ up \in Nat
  BY <1>1, <1>2, <1>3, <1>5, SampledFacts DEF DetectorIInv
<1>7. next.ewma - Epsilon > next.bestMean + DriftBound
  BY <1>5 DEF Drift, IsDrift
<1>8. next.ewma \in Nat /\ next.bestMean \in Nat
  BY <1>6 DEF HDDM
<1>9. hddm # None
  BY <1>6, <1>7, <1>8
<1>10. count >= Warmup + 1
  BY <1>1, <1>9 DEF DetectorIInv, StateInv
<1> QED BY <1>4, <1>6, <1>7, <1>8, <1>10

LEMMA DriftInv ==
  ASSUME DetectorIInv, NEW signal \in 0 .. SignalMax, Drift(signal)
  PROVE  DetectorIInv'
<1> USE HDDMAssumption
<1>1. rows' = rows + 1 /\ rows' \in Nat /\ rows' <= MaxRows /\ seq' \in Nat /\ seq' >= seq + 1
  BY RowFacts DEF DetectorIInv, Drift, Sample
<1>2. rows \in Nat /\ seq \in Nat /\ last \in Nat /\ count = rows - last /\ count \in Nat
      /\ lowest \in 0 .. SignalMax /\ rise \in 0 .. SignalMax
  BY DEF DetectorIInv, StateInv
<1>3. reports' = Append(reports, seq') /\ last' = rows' /\ count' = 0 /\ hddm' = None
      /\ refMean' = Absent /\ scale' = Absent /\ warmSum' = Absent /\ warmDevs' = warmDevs
  BY DEF Drift, StartOver
<1>4. StateInv'
  <2>1. lowest' \in 0 .. SignalMax /\ rise' \in 0 .. SignalMax
    BY <1>2 DEF Drift, Sample, Less, Greater
  <2> QED BY <1>1, <1>3, <2>1 DEF StateInv
<1>5. ReferenceInv'
  <2>1. warmDevs = {}
    BY DEF DetectorIInv, ReferenceInv, Drift, Sample
  <2>2. rows' + 1 .. rows' = {}
    BY <1>1
  <2> QED BY <1>3, <2>1, <2>2 DEF ReferenceInv, Absent
<1>6. OnsetsInv'
  <2>1. reports \in Seq(Nat)
    BY DEF DetectorIInv, OnsetsInv
  <2>2. reports' \in Seq(Nat) /\ Len(reports') = Len(reports) + 1
        /\ reports'[Len(reports) + 1] = seq' /\ Len(reports) \in Nat
        /\ \A i \in 1 .. Len(reports) : reports'[i] = reports[i]
    BY <1>1, <1>3, <2>1
  <2>3. \A i \in 1 .. Len(reports) : reports[i] \in Nat /\ seq' - reports[i] >= Warmup + 2
    <3> TAKE i \in 1 .. Len(reports)
    <3>1. reports[i] \in Nat /\ seq - reports[i] >= rows - last
      BY <2>1 DEF DetectorIInv, OnsetsInv
    <3>2. count >= Warmup + 1
      BY DriftFacts
    <3> QED BY <1>1, <1>2, <3>1, <3>2
  <2>4. \A i \in DOMAIN reports' : seq' - reports'[i] >= rows' - last'
    BY <1>1, <1>3, <2>2, <2>3, SMTT(30)
  <2>5. OnsetsApart'
    <3> SUFFICES ASSUME NEW i \in DOMAIN reports', NEW j \in DOMAIN reports', i < j
                 PROVE  reports'[j] - reports'[i] >= Warmup + 2
      BY DEF OnsetsApart
    <3>1. i \in 1 .. Len(reports)
      BY <2>2
    <3>2. CASE j = Len(reports) + 1
      BY <2>2, <2>3, <3>1, <3>2
    <3>3. CASE j # Len(reports) + 1
      <4>1. j \in 1 .. Len(reports)
        BY <2>2, <3>3
      <4>2. reports[j] - reports[i] >= Warmup + 2
        BY <2>1, <3>1, <4>1 DEF DetectorIInv, OnsetsInv, OnsetsApart
      <4> QED BY <2>2, <3>1, <4>1, <4>2
    <3> QED BY <3>2, <3>3
  <2> QED BY <2>2, <2>4, <2>5 DEF OnsetsInv
<1> QED BY <1>3, <1>4, <1>5, <1>6 DEF DetectorIInv, ShiftInv

LEMMA StepInv ==
  ASSUME DetectorIInv, [Next]_vars
  PROVE  DetectorIInv'
<1> USE HDDMAssumption
<1>1. CASE WarmUp
  <2>1. StateInv' /\ OnsetsInv' /\ ShiftInv'
    BY <1>1, CollectInv DEF WarmUp, DetectorIInv, StateInv
  <2>2. rows' = rows + 1 /\ rows \in Nat /\ last \in Nat /\ count \in Nat /\ count = rows - last
    BY <1>1, RowFacts DEF WarmUp, DetectorIInv, StateInv
  <2>3. warmSum' = warmSum \cup {rows'} /\ warmDevs' = warmDevs \cup {rows'}
        /\ UNCHANGED <<refMean, scale, last>> /\ count' = count + 1 /\ count + 1 < Warmup
    BY <1>1 DEF WarmUp, Collect
  <2>4. warmSum = last + 1 .. rows /\ warmDevs = last + 1 .. rows
        /\ refMean = Absent /\ scale = Absent
    BY <2>2, <2>3 DEF DetectorIInv, ReferenceInv
  <2>5. last + 1 .. rows' = (last + 1 .. rows) \cup {rows'}
    BY <2>2
  <2>6. ReferenceInv'
    BY <2>2, <2>3, <2>4, <2>5 DEF ReferenceInv
  <2> QED BY <2>1, <2>6 DEF DetectorIInv
<1>2. CASE Freeze
  <2>1. StateInv' /\ OnsetsInv' /\ ShiftInv'
    BY <1>2, CollectInv DEF Freeze, DetectorIInv, StateInv
  <2>2. rows' = rows + 1 /\ rows \in Nat /\ last \in Nat /\ count \in Nat /\ count = rows - last
    BY <1>2, RowFacts DEF Freeze, DetectorIInv, StateInv
  <2>3. refMean' = warmSum \cup {rows'} /\ scale' = warmDevs \cup {rows'} /\ warmDevs' = {}
        /\ UNCHANGED last /\ count' = count + 1 /\ count + 1 = Warmup
    BY <1>2 DEF Freeze, Collect
  <2>4. warmSum = last + 1 .. rows /\ warmDevs = last + 1 .. rows
    BY <2>2, <2>3 DEF DetectorIInv, ReferenceInv
  <2>5. last + 1 .. last + Warmup = (last + 1 .. rows) \cup {rows'}
    BY <2>2, <2>3
  <2>6. ReferenceInv'
    BY <2>2, <2>3, <2>4, <2>5 DEF ReferenceInv
  <2> QED BY <2>1, <2>6 DEF DetectorIInv
<1>3. ASSUME NEW signal \in 0 .. SignalMax, Stable(signal)
      PROVE  DetectorIInv'
  BY <1>3, SampleInv DEF Stable
<1>4. ASSUME NEW signal \in 0 .. SignalMax, Warn(signal)
      PROVE  DetectorIInv'
  <2> DEFINE next == Sampled(Current, signal)
             entered == IF next.warnEnteredAt = 0 THEN next.n ELSE next.warnEnteredAt
  <2>1. Sample(signal) /\ NoDrift([next EXCEPT !.warnEnteredAt = entered])
    BY <1>4 DEF Warn
  <2>2. entered \in Nat
    <3>1. count >= Warmup /\ lowest \in 0 .. SignalMax /\ rise \in 0 .. SignalMax
      BY <2>1 DEF DetectorIInv, StateInv, Sample
    <3>2. PICK low \in Int : low = Less(lowest, signal)
      BY <3>1 DEF Less
    <3>3. PICK up \in Int : up = Greater(rise, signal - low)
      BY <3>1, <3>2 DEF Greater
    <3>4. next \in HDDM
      BY <3>1, <3>2, <3>3, SampledFacts DEF DetectorIInv
    <3> QED BY <3>4 DEF HDDM
  <2>3. entered \in {0, next.n, next.warnEnteredAt}
    OBVIOUS
  <2> QED BY <2>1, <2>2, <2>3, SampleInv
<1>5. ASSUME NEW signal \in 0 .. SignalMax, Drift(signal)
      PROVE  DetectorIInv'
  BY <1>5, DriftInv
<1>6. CASE UNCHANGED vars
  BY <1>6
  DEF vars, DetectorIInv, StateInv, ReferenceInv, OnsetsInv, OnsetsApart, ShiftInv
<1> QED BY <1>1, <1>2, <1>3, <1>4, <1>5, <1>6 DEF Next, ProcessElement

LEMMA Inductive == Spec => []DetectorIInv
BY InitInv, StepInv, PTL DEF Spec

(***************************************************************************)
(* Theorems.                                                               *)
(***************************************************************************)

\* Every variable has its type, and the reference is there exactly when
\* processElement reads it.
LEMMA TypesFollow == ASSUME DetectorIInv, seq <= rows * MaxGap, rows <= seq PROVE TypeOK
<1> USE HDDMAssumption
<1>1. rows \in 0 .. MaxRows /\ count \in 0 .. rows /\ last \in 0 .. rows /\ seq \in Nat
      /\ lowest \in 0 .. SignalMax /\ rise \in 0 .. SignalMax
  BY DEF DetectorIInv, StateInv
<1>2. seq \in rows .. rows * MaxGap
  BY <1>1
<1>3. last + 1 .. last + Warmup # {}
  BY <1>1
<1>4. ((count >= Warmup) <=> refMean # Absent) /\ ((refMean = Absent) <=> (scale = Absent))
  BY <1>1, <1>3 DEF DetectorIInv, ReferenceInv, Absent
<1>5. ASSUME hddm # None
      PROVE  /\ refMean # Absent /\ hddm.n = count - Warmup /\ hddm.n > 0
             /\ hddm.ewma \in 0 .. SignalMax /\ hddm.bestMean \in 0 .. hddm.ewma
             /\ hddm.warnEnteredAt \in 0 .. hddm.n
  <2>1. count > Warmup /\ hddm \in HDDM
    BY <1>1, <1>5 DEF DetectorIInv, StateInv
  <2> QED BY <1>1, <1>4, <1>5, <2>1 DEF DetectorIInv, StateInv, HDDM
<1> QED BY <1>1, <1>2, <1>4, <1>5 DEF TypeOK

LEMMA NumbersStep ==
  ASSUME StateInv, rows <= seq, seq <= rows * MaxGap, [Next]_vars
  PROVE  rows' <= seq' /\ seq' <= rows' * MaxGap
<1> USE HDDMAssumption
<1>1. rows \in Nat /\ seq \in Nat
  BY DEF StateInv
<1>2. CASE Row
  <2>1. rows' = rows + 1 /\ seq' \in seq + 1 .. seq + MaxGap
    BY <1>2 DEF Row
  <2>2. (rows + 1) * MaxGap = rows * MaxGap + MaxGap
    BY <1>1
  <2> QED BY <1>1, <2>1, <2>2
<1>3. CASE UNCHANGED vars
  BY <1>3 DEF vars
<1>4. Row \/ UNCHANGED vars
  BY DEF Next, ProcessElement, WarmUp, Freeze, Stable, Warn, Drift, Sample
<1> QED BY <1>2, <1>3, <1>4

THEOREM TypeCorrect == Spec => []TypeOK
<1> DEFINE Numbers == rows <= seq /\ seq <= rows * MaxGap
<1>1. Init => Numbers
  BY HDDMAssumption DEF Init
<1>2. DetectorIInv /\ Numbers /\ [Next]_vars => Numbers'
  BY NumbersStep DEF DetectorIInv
<1>3. DetectorIInv /\ Numbers => TypeOK
  BY TypesFollow
<1> QED BY <1>1, <1>2, <1>3, Inductive, PTL DEF Spec

\* The reference and the scale rest on exactly the Warmup rows after the last
\* drift (PerFeatureHDDMFunction:156).
THEOREM ReferenceIsFresh == Spec => []FreshReference
<1>1. DetectorIInv => FreshReference
  BY HDDMAssumption DEF DetectorIInv, StateInv, ReferenceInv, FreshReference
<1> QED BY <1>1, Inductive, PTL

\* Two onsets of a feature lie a warm-up and a sample apart.
THEOREM OnsetsLieApart == Spec => []OnsetsApart
<1>1. DetectorIInv => OnsetsApart
  BY DEF DetectorIInv, OnsetsInv
<1> QED BY <1>1, Inductive, PTL

\* A drift rests on a rise of the signal by more than both bounds, for every
\* weight of the average.
THEOREM DriftsRestOnShifts == Spec => DriftsAreShifts
<1>1. DetectorIInv /\ [Next]_vars => [reports' # reports => rise' > Epsilon + DriftBound]_vars
  <2> SUFFICES ASSUME DetectorIInv, Next, reports' # reports
               PROVE  rise' > Epsilon + DriftBound
    BY DEF vars
  <2>1. \E signal \in 0 .. SignalMax : Drift(signal)
    BY DEF Next, ProcessElement, WarmUp, Freeze, Collect, Stable, Warn, NoDrift
  <2> QED BY <2>1, DriftFacts
<1> QED BY <1>1, Inductive, PTL DEF Spec, DriftsAreShifts

(***************************************************************************)
(* The replay of HDDM_W: OfflineHDDM.                                      *)
(***************************************************************************)

\* The state of the script's detector that stands for an HDDM_W instance.
Image(h) ==
  [n |-> h.n, ewma |-> h.ewma, bestMean |-> h.bestMean, bestBound |-> Epsilon]

\* What the script has yet to skip, and what it has been fed, follow from its
\* last fire alone.
ThrottleInv ==
  /\ fires \in Seq(Nat)
  /\ LastFire \in 0 .. rows
  /\ LastFire # 0 => LastFire > Warmup
  /\ cooldown = IF LastFire # 0 THEN Greater(0, LastFire + Warmup - rows) ELSE 0
  /\ det.n = FedSince(LastFire)

\* As long as the signals are the same, up to the first report, the script's
\* detector is the deployed one.
AlikeInv ==
  /\ alike \in BOOLEAN /\ firstRow \in Nat
  /\ firstRow = 0 <=> last = 0
  /\ alike /\ firstRow = 0 => det = IF hddm = None THEN Fresh ELSE Image(hddm)
  /\ FirstFireIsReport

ReplayInv == ThrottleInv /\ AlikeInv

\* HDDM_W_Py.update does what HDDM_W.update does.
LEMMA UpdateAgrees ==
  ASSUME StateInv, det = IF hddm = None THEN Fresh ELSE Image(hddm),
         count >= Warmup, NEW signal \in 0 .. SignalMax,
         NEW next \in HDDM, next = Sampled(Current, signal)
  PROVE  /\ PyUpdate(det, signal) = Image(next)
         /\ PyDrift(Image(next)) <=> IsDrift(next)
<1> USE HDDMAssumption
<1>1. PyDrift(Image(next)) <=> IsDrift(next)
  BY DEF PyDrift, PyBound, IsDrift, Image
<1>2. CASE hddm = None
  <2>1. det = Fresh
    BY <1>2
  <2>2. next.n = 1 /\ next.ewma = signal /\ next.bestMean = signal
    BY <1>2 DEF Sampled, Current, NewHDDM, Ewma, BestMean
  <2> QED BY <1>1, <2>1, <2>2 DEF PyUpdate, PyEwma, Fresh, Image
<1>3. CASE hddm # None
  <2>1. hddm \in HDDM /\ hddm.n > 0 /\ det = Image(hddm)
    BY <1>3 DEF StateInv
  <2>2. PICK mean : mean = Ewma(hddm, signal)
    OBVIOUS
  <2>3. next = [hddm EXCEPT !.n = @ + 1, !.ewma = mean, !.bestMean = BestMean(hddm, mean)]
    BY <1>3, <2>2 DEF Sampled, Current
  <2>4. next.n = hddm.n + 1 /\ next.ewma = mean /\ next.bestMean = BestMean(hddm, mean)
    BY <2>1, <2>3 DEF HDDM
  <2>5. det.n = hddm.n /\ det.ewma = hddm.ewma /\ det.bestMean = hddm.bestMean
        /\ det.bestBound = Epsilon
    BY <2>1 DEF Image
  <2>6. PyEwma(det, signal) = mean
    BY <2>2, <2>5 DEF PyEwma, Ewma
  <2>7. PyUpdate(det, signal)
        = [n |-> next.n, ewma |-> mean, bestMean |-> next.bestMean, bestBound |-> Epsilon]
    BY <2>1, <2>4, <2>5, <2>6 DEF PyUpdate, BestMean
  <2> QED BY <1>1, <2>4, <2>7 DEF Image
<1> QED BY <1>2, <1>3

\* The list of fires grows at its end.
LEMMA FiresGrow ==
  ASSUME fires \in Seq(Nat), NEW i \in Nat, fires' = Append(fires, i)
  PROVE  /\ fires' \in Seq(Nat) /\ LastFire' = i + 1
         /\ fires' # <<>>
         /\ IF fires = <<>> THEN fires'[1] = i ELSE fires'[1] = fires[1]
<1>1. /\ fires' \in Seq(Nat) /\ Len(fires') = Len(fires) + 1 /\ Len(fires) \in Nat
      /\ fires'[Len(fires) + 1] = i
      /\ \A k \in 1 .. Len(fires) : fires'[k] = fires[k]
  BY AppendProperties, LenProperties
<1>2. fires' # <<>>
  BY <1>1, EmptySeq
<1>3. LastFire' = i + 1
  BY <1>1, <1>2 DEF LastFire
<1>4. fires = <<>> => Len(fires) = 0
  BY EmptySeq
<1>5. fires # <<>> => Len(fires) >= 1
  BY <1>1, EmptySeq
<1> QED BY <1>1, <1>2, <1>3, <1>4, <1>5

\* A row moves the throttling on, whatever the signal is.
LEMMA ThrottleStep ==
  ASSUME StateInv, ThrottleInv, rows' = rows + 1, NEW t \in 0 .. SignalMax,
         PyWarm \/ PySkip \/ PyFeed(t)
  PROVE  ThrottleInv' /\ (fires' = fires \/ fires' = Append(fires, rows))
<1> USE HDDMAssumption
<1>1. /\ rows \in Nat /\ Warmup \in Nat \ {0}
      /\ fires \in Seq(Nat) /\ LastFire \in 0 .. rows
      /\ LastFire # 0 => LastFire > Warmup
      /\ cooldown = IF LastFire # 0 THEN Greater(0, LastFire + Warmup - rows) ELSE 0
      /\ det.n = FedSince(LastFire)
  BY DEF StateInv, ThrottleInv
<1>2. PICK at \in 0 .. rows : at = LastFire
  BY <1>1
<1>3. ASSUME fires' = fires PROVE LastFire' = at
  BY <1>2, <1>3 DEF LastFire
<1>4. CASE PyWarm
  <2>1. rows + 1 <= Warmup /\ det' = det /\ cooldown' = cooldown /\ fires' = fires
    BY <1>4 DEF PyWarm
  <2>2. at = 0 /\ LastFire' = 0
    BY <1>1, <1>2, <1>3, <2>1
  <2> QED BY <1>1, <1>2, <2>1, <2>2 DEF ThrottleInv, FedSince, Greater
<1>5. CASE PySkip
  <2>1. cooldown > 0 /\ cooldown' = cooldown - 1 /\ det' = det /\ fires' = fires
    BY <1>5 DEF PySkip
  <2>2. at # 0 /\ cooldown = at + Warmup - rows /\ LastFire' = at
    BY <1>1, <1>2, <1>3, <2>1 DEF Greater
  <2> QED BY <1>1, <1>2, <2>1, <2>2 DEF ThrottleInv, FedSince, Greater
<1>6. CASE PyFeed(t)
  <2>1. PICK d : d = PyUpdate(det, t)
    OBVIOUS
  <2>2. d.n = det.n + 1
    BY <2>1 DEF PyUpdate
  <2>3. rows + 1 > Warmup /\ cooldown = 0
    BY <1>6 DEF PyFeed
  <2>4. rows - at - Warmup >= 0 /\ det.n = rows - at - Warmup
    BY <1>1, <1>2, <2>3 DEF FedSince, Greater
  <2>5. CASE PyDrift(d)
    <3>1. det' = Fresh /\ fires' = Append(fires, rows' - 1) /\ cooldown' = Warmup
      BY <1>6, <2>1, <2>5 DEF PyFeed, Throttle
    <3>2. fires' = Append(fires, rows)
      BY <1>1, <3>1
    <3>3. fires' \in Seq(Nat) /\ LastFire' = rows + 1
      BY <1>1, <3>2, FiresGrow
    <3>4. det'.n = 0
      BY <3>1 DEF Fresh
    <3> QED BY <1>1, <2>3, <3>1, <3>2, <3>3, <3>4 DEF ThrottleInv, FedSince, Greater
  <2>6. CASE ~PyDrift(d)
    <3>1. det' = d /\ fires' = fires /\ cooldown' = 0
      BY <1>6, <2>1, <2>3, <2>6 DEF PyFeed
    <3>2. LastFire' = at
      BY <1>3, <3>1
    <3> QED BY <1>1, <1>2, <2>2, <2>4, <3>1, <3>2 DEF ThrottleInv, FedSince, Greater
  <2> QED BY <2>5, <2>6
<1> QED BY <1>4, <1>5, <1>6

\* With the same signal up to the first report, both update alike, and the
\* script fires at the row that is reported.
LEMMA AlikeSample ==
  ASSUME DetectorIInv, DetectorIInv', ReplayInv, alike, firstRow = 0,
         NEW signal \in 0 .. SignalMax,
         Stable(signal) \/ Warn(signal) \/ Drift(signal),
         PyWarm \/ PySkip \/ PyFeed(signal)
  PROVE  IF last' = 0 THEN fires' = fires /\ hddm' # None /\ det' = Image(hddm')
                      ELSE last' = rows' /\ fires' = Append(fires, rows)
<1> USE HDDMAssumption
<1>0. Sample(signal)
  BY DEF Stable, Warn, Drift
<1>1. /\ count \in Nat /\ count >= Warmup /\ rows \in Nat
      /\ lowest \in 0 .. SignalMax /\ rise \in 0 .. SignalMax /\ count = rows /\ last = 0
      /\ rows' = rows + 1
  BY <1>0 DEF DetectorIInv, StateInv, ReplayInv, AlikeInv, Sample, Row
<1>2. PICK low \in Int : low = Less(lowest, signal)
  BY <1>1 DEF Less
<1>3. PICK up \in Int : up = Greater(rise, signal - low)
  BY <1>1, <1>2 DEF Greater
<1>4. PICK next : next = Sampled(Current, signal)
  OBVIOUS
<1>5. next \in HDDM
  BY <1>1, <1>2, <1>3, <1>4, SampledFacts DEF DetectorIInv
<1>6. PyUpdate(det, signal) = Image(next) /\ (PyDrift(Image(next)) <=> IsDrift(next))
  BY <1>1, <1>4, <1>5, UpdateAgrees DEF DetectorIInv, ReplayInv, AlikeInv
<1>7. fires = <<>>
  BY DEF ReplayInv, AlikeInv, FirstFireIsReport
<1>8. LastFire = 0
  BY <1>7 DEF LastFire
<1>9. PyFeed(signal) /\ cooldown = 0
  BY <1>1, <1>8 DEF ReplayInv, ThrottleInv, PyWarm, PySkip, PyFeed
<1>10. CASE IsDrift(next)
  <2>1. Drift(signal)
    BY <1>4, <1>10 DEF Stable, Warn, IsWarn
  <2>2. last' = rows'
    BY <2>1 DEF Drift
  <2>3. fires' = Append(fires, rows' - 1)
    BY <1>6, <1>9, <1>10 DEF PyFeed
  <2> QED BY <1>1, <2>2, <2>3
<1>11. CASE ~IsDrift(next)
  <2>1. PICK entered : NoDrift([next EXCEPT !.warnEnteredAt = entered])
    <3>1. Stable(signal) \/ Warn(signal)
      BY <1>4, <1>11 DEF Drift
    <3>2. CASE Stable(signal)
      BY <1>4, <3>2 DEF Stable
    <3>3. CASE Warn(signal)
      <4> DEFINE entered == IF next.warnEnteredAt = 0 THEN next.n ELSE next.warnEnteredAt
      <4>1. NoDrift([next EXCEPT !.warnEnteredAt = entered])
        BY <1>4, <3>3 DEF Warn
      <4> QED BY <4>1
    <3> QED BY <3>1, <3>2, <3>3
  <2>2. hddm' = [next EXCEPT !.warnEnteredAt = entered] /\ count' = count + 1 /\ last' = last
    BY <2>1 DEF NoDrift
  <2>3. hddm' # None
    <3>1. hddm' \in HDDM
      BY <1>1, <2>2 DEF DetectorIInv, StateInv
    <3> QED BY <3>1, NoneIsNoHDDM
  <2>4. Image(hddm') = Image(next)
    BY <1>5, <2>2 DEF Image, HDDM
  <2>5. det' = Image(next) /\ fires' = fires
    BY <1>6, <1>9, <1>11 DEF PyFeed
  <2> QED BY <1>1, <2>2, <2>3, <2>4, <2>5
<1> QED BY <1>10, <1>11

LEMMA AlikeStep ==
  ASSUME DetectorIInv, DetectorIInv', ReplayInv, rows' = rows + 1,
         NEW s \in 0 .. SignalMax, NEW t \in 0 .. SignalMax,
         Deployed(s), PyWarm \/ PySkip \/ PyFeed(t),
         alike' = (alike /\ (firstRow # 0 \/ rows' <= Warmup \/ s = t)),
         firstRow' = IF firstRow = 0 THEN last' ELSE firstRow
  PROVE  AlikeInv'
<1> USE HDDMAssumption
<1>1. /\ rows \in Nat /\ count \in Nat /\ last \in Nat /\ last' \in Nat /\ count = rows - last
      /\ alike \in BOOLEAN /\ alike' \in BOOLEAN
      /\ firstRow \in Nat /\ (firstRow = 0 <=> last = 0)
      /\ fires \in Seq(Nat)
      /\ fires' = fires \/ fires' = Append(fires, rows)
  BY ThrottleStep DEF DetectorIInv, StateInv, ReplayInv, ThrottleInv, AlikeInv
<1>2. fires' = fires \/ (/\ fires' # <<>>
                         /\ IF fires = <<>> THEN fires'[1] = rows ELSE fires'[1] = fires[1])
  BY <1>1, FiresGrow
<1>3. CASE firstRow # 0
  <2>1. firstRow' = firstRow /\ (alike' => alike)
    BY <1>3, Zenon
  <2>2. last' # 0
    <3>1. last' = last \/ last' = rows'
      BY DEF Deployed, WarmUp, Freeze, Collect, Stable, Warn, Drift, NoDrift
    <3> QED BY <1>1, <1>3, <3>1
  <2>3. FirstFireIsReport'
    BY <1>2, <1>3, <2>1 DEF ReplayInv, AlikeInv, FirstFireIsReport
  <2> QED BY <1>1, <1>3, <2>1, <2>2, <2>3 DEF AlikeInv
<1>4. CASE firstRow = 0 /\ ~alike'
  BY <1>1, <1>4 DEF AlikeInv, FirstFireIsReport
<1>5. CASE firstRow = 0 /\ alike'
  <2>1. alike /\ (rows' <= Warmup \/ s = t) /\ firstRow' = last' /\ last = 0 /\ fires = <<>>
    BY <1>1, <1>5 DEF ReplayInv, AlikeInv, FirstFireIsReport
  <2>2. CASE WarmUp \/ Freeze
    <3>1. hddm' = hddm /\ last' = 0 /\ count + 1 <= Warmup
      BY <1>1, <2>1, <2>2 DEF WarmUp, Freeze, Collect
    <3>2. det' = det /\ fires' = fires
      BY <1>1, <2>1, <3>1 DEF PyWarm, PySkip, PyFeed
    <3>3. det' = IF hddm' = None THEN Fresh ELSE Image(hddm')
      BY <1>5, <2>1, <3>1, <3>2 DEF ReplayInv, AlikeInv, Image, Fresh
    <3> QED BY <1>1, <1>5, <2>1, <3>1, <3>2, <3>3 DEF AlikeInv, FirstFireIsReport
  <2>3. CASE Stable(s) \/ Warn(s) \/ Drift(s)
    <3>1. count >= Warmup
      BY <2>3 DEF Stable, Warn, Drift, Sample
    <3>2. s = t
      BY <1>1, <2>1, <3>1
    <3>3. IF last' = 0 THEN fires' = fires /\ hddm' # None /\ det' = Image(hddm')
                       ELSE last' = rows' /\ fires' = Append(fires, rows)
      BY <1>5, <2>1, <2>3, <3>2, AlikeSample
    <3>4. CASE last' = 0
      BY <1>1, <1>5, <2>1, <3>3, <3>4 DEF AlikeInv, FirstFireIsReport
    <3>5. CASE last' # 0
      <4>1. fires' # <<>> /\ fires'[1] = rows
        BY <1>1, <2>1, <3>3, <3>5, FiresGrow
      <4>2. firstRow' = rows + 1
        BY <2>1, <3>3, <3>5
      <4>3. firstRow' \in Nat /\ firstRow' # 0 /\ firstRow' - 1 = rows
        <5>1. rows \in Nat
          BY <1>1, Zenon
        <5>2. \A r \in Nat : r + 1 \in Nat /\ r + 1 # 0 /\ (r + 1) - 1 = r
          OBVIOUS
        <5> QED BY <4>2, <5>1, <5>2, Zenon
      <4>4. FirstFireIsReport'
        BY <4>1, <4>3 DEF FirstFireIsReport
      <4> QED BY <1>1, <3>5, <4>3, <4>4 DEF AlikeInv
    <3> QED BY <3>4, <3>5
  <2> QED BY <2>2, <2>3 DEF Deployed
<1> QED BY <1>3, <1>4, <1>5

LEMMA ReplayStep ==
  ASSUME DetectorIInv, DetectorIInv', ReplayInv, [BothNext]_bothVars
  PROVE  ReplayInv'
<1>1. CASE UNCHANGED bothVars
  BY <1>1 DEF bothVars, vars, offlineVars, ReplayInv, ThrottleInv, AlikeInv,
              FirstFireIsReport, LastFire, FedSince
<1>2. CASE BothNext
  <2>1. PICK s \in 0 .. SignalMax, t \in 0 .. SignalMax :
          /\ Deployed(s)
          /\ PyWarm \/ PySkip \/ PyFeed(t)
          /\ alike' = (alike /\ (firstRow # 0 \/ rows' <= Warmup \/ s = t))
          /\ firstRow' = IF firstRow = 0 THEN last' ELSE firstRow
    BY <1>2 DEF BothNext
  <2>2. rows' = rows + 1
    BY <2>1 DEF Deployed, WarmUp, Freeze, Stable, Warn, Drift, Sample, Row
  <2>3. ThrottleInv'
    BY <2>1, <2>2, ThrottleStep DEF ReplayInv, DetectorIInv
  <2>4. AlikeInv'
    BY <2>1, <2>2, AlikeStep
  <2> QED BY <2>3, <2>4 DEF ReplayInv
<1> QED BY <1>1, <1>2

LEMMA ReplayInductive == BothSpec => [](DetectorIInv /\ ReplayInv)
<1>1. BothInit => DetectorIInv /\ ReplayInv
  <2> SUFFICES ASSUME BothInit PROVE DetectorIInv /\ ReplayInv
    OBVIOUS
  <2>1. DetectorIInv
    BY InitInv DEF BothInit
  <2>2. LastFire = 0
    BY DEF BothInit, LastFire
  <2> QED
    BY <2>1, <2>2, HDDMAssumption
    DEF BothInit, Init, ReplayInv, ThrottleInv, AlikeInv, FirstFireIsReport, FedSince,
        Greater, Fresh
<1>2. [BothNext]_bothVars => [Next]_vars
  BY DEF BothNext, Deployed, bothVars, Next, ProcessElement
<1>3. DetectorIInv /\ ReplayInv /\ [BothNext]_bothVars => (DetectorIInv /\ ReplayInv)'
  BY <1>2, StepInv, ReplayStep
<1> QED BY <1>1, <1>3, PTL DEF BothSpec

\* What the replay and the deployed detector have in common, for any two
\* signals: the first drift as long as the signals are the same, a warm-up
\* after every drift, which the deployed reference rests on, and the lift that
\* the features are chosen by (hddm_signal_sanity:21, 149).
THEOREM ReplayImitates == BothSpec => []ReplayAgrees
<1>1. ASSUME DetectorIInv, NEW d \in Drifts
      PROVE  RankWindows(d) = TableWindows(d)
  <2>1. d \in Nat /\ rows \in Nat /\ Warmup \in Nat
    BY <1>1, DriftsAssumption, HDDMAssumption DEF DetectorIInv, StateInv
  <2>2. \A x \in Signalled : x \in Nat /\ x >= Warmup
    BY <2>1 DEF Signalled
  <2>3. Signalled \cap Greater(Warmup, d - Warmup) .. d - 1
        = Signalled \cap Greater(0, d - Warmup) .. d - 1
    BY <2>1, <2>2 DEF Greater
  <2> QED BY <2>3 DEF RankWindows, TableWindows
<1>2. ASSUME DetectorIInv, ReplayInv PROVE PausesAgree
  <2>1. (IF hddm = None THEN 0 ELSE hddm.n) = FedSince(last)
    <3>1. /\ rows \in Nat /\ last \in Nat /\ Warmup \in Nat /\ count = rows - last
          /\ count <= Warmup => hddm = None
          /\ count > Warmup => hddm \in HDDM
          /\ hddm # None => hddm.n = count - Warmup
      BY <1>2, HDDMAssumption DEF DetectorIInv, StateInv
    <3> QED BY <3>1, NoneIsNoHDDM DEF FedSince, Greater
  <2>2. FreshReference
    BY <1>2, HDDMAssumption DEF DetectorIInv, StateInv, ReferenceInv, FreshReference
  <2> QED BY <1>2, <2>1, <2>2 DEF PausesAgree, ReplayInv, ThrottleInv
<1>3. DetectorIInv /\ ReplayInv => ReplayAgrees
  BY <1>1, <1>2 DEF ReplayInv, AlikeInv, ReplayAgrees, LiftsAgree
<1> QED BY <1>3, ReplayInductive, PTL

(***************************************************************************)
(* The replays of the IKS gate: OfflineGate.                               *)
(***************************************************************************)

Gate == [confirming : BOOLEAN, crossSeq : Nat, peak : Nat, confLeft : Int,
         lastFired : BOOLEAN, rebased : Nat, nextEp : Nat]
Replay == [confirming : BOOLEAN, crossSeq : Nat, peak : Nat, cc : Nat, rebased : Nat]
GateCrossing == [seq : Nat, peak : Nat]
Statistic == [seq : Nat, ks : Nat]

GateTypeInv ==
  /\ stride \in Nat \ {0} /\ confirmWindow \in Nat /\ rebaseOnFire \in BOOLEAN
  /\ sample \in Nat
  /\ gate \in Gate /\ gate.nextEp > sample
  /\ replay \in Replay
  /\ onsets \in Seq(Nat) /\ ksSeq \in Seq(Statistic)
  /\ crossings \in Seq(GateCrossing) /\ events \in Seq(GateCrossing)

\* Step by step the two state machines are in the same state; one counts the
\* evaluations left, the other those gone by.
SyncInv ==
  stride = 1 /\ confirmWindow > 0 =>
    /\ gate.nextEp = sample + 1
    /\ crossings = events
    /\ gate.rebased = replay.rebased
    /\ gate.confirming = replay.confirming
    /\ gate.confirming =>
         /\ gate.crossSeq = replay.crossSeq /\ gate.peak = replay.peak
         /\ replay.cc < confirmWindow
         /\ gate.confLeft = confirmWindow - replay.cc

\* A crossing may come no earlier than this.
NextCrossing == IF gate.confirming THEN gate.crossSeq ELSE gate.nextEp

ApartInv ==
  /\ gate.confirming =>
       /\ gate.confLeft \in 1 .. confirmWindow
       /\ gate.nextEp = gate.crossSeq + (confirmWindow + 1 - gate.confLeft) * stride
  /\ \A i \in 1 .. Len(crossings) :
       crossings[i].seq + (confirmWindow + 1) * stride <= NextCrossing
  /\ CrossingsApart

EdgeInv ==
  confirmWindow = 0 /\ rebaseOnFire =>
    /\ ~gate.lastFired /\ ~gate.confirming
    /\ \A j \in 1 .. Len(ksSeq) :
         ksSeq[j].ks > KsThreshold => \E i \in 1 .. Len(onsets) : onsets[i] = ksSeq[j].seq

GateIInv == GateTypeInv /\ SyncInv /\ ApartInv /\ EdgeInv

LEMMA InitGateIInv == GateInit => GateIInv
<1> SUFFICES ASSUME GateInit PROVE GateIInv
  OBVIOUS
<1> USE GateAssumption DEF GateInit, NoGate, NoReplay
<1>1. GateTypeInv
  BY DEF GateTypeInv, Gate, Replay
<1>2. SyncInv
  BY DEF SyncInv
<1>3. ApartInv
  BY DEF ApartInv, NextCrossing, CrossingsApart
<1>4. EdgeInv
  BY DEF EdgeInv
<1> QED BY <1>1, <1>2, <1>3, <1>4 DEF GateIInv

\* The fields of what the results hold.
LEMMA SeqNumbers ==
  ASSUME GateTypeInv
  PROVE  /\ \A i \in 1 .. Len(crossings) : crossings[i].seq \in Nat
         /\ \A j \in 1 .. Len(ksSeq) : ksSeq[j].ks \in Nat
<1>1. ASSUME NEW i \in 1 .. Len(crossings) PROVE crossings[i].seq \in Nat
  <2>1. crossings[i] \in GateCrossing
    BY DEF GateTypeInv
  <2> QED BY <2>1 DEF GateCrossing
<1>2. ASSUME NEW j \in 1 .. Len(ksSeq) PROVE ksSeq[j].ks \in Nat
  <2>1. ksSeq[j] \in Statistic
    BY DEF GateTypeInv
  <2> QED BY <2>1 DEF Statistic
<1> QED BY <1>1, <1>2

LEMMA OneMore ==
  ASSUME NEW a \in Int, NEW s \in Int
  PROVE  (a + 1) * s = a * s + s
  BY SMT

\* What the actions assign keeps the types of the two state machines, and
\* leaves the next evaluation to NextEp.
LEMMA GateFields ==
  ASSUME NEW g \in Gate, NEW b \in BOOLEAN, NEW c \in Nat, NEW p \in Nat,
         NEW l \in Int, NEW u \in Nat
  PROVE  /\ [g EXCEPT !.confirming = b, !.crossSeq = c, !.peak = p, !.confLeft = l] \in Gate
         /\ [g EXCEPT !.confirming = b, !.crossSeq = c, !.peak = p, !.confLeft = l,
                      !.rebased = u] \in Gate
         /\ [g EXCEPT !.peak = p, !.confLeft = l] \in Gate
         /\ [g EXCEPT !.lastFired = b, !.rebased = u] \in Gate
  BY DEF Gate

LEMMA ReplayFields ==
  ASSUME NEW g \in Replay, NEW b \in BOOLEAN, NEW c \in Nat, NEW p \in Nat,
         NEW n \in Nat, NEW u \in Nat
  PROVE  /\ [g EXCEPT !.confirming = b, !.peak = p, !.cc = n, !.crossSeq = c] \in Replay
         /\ [g EXCEPT !.peak = p, !.cc = n] \in Replay
         /\ [g EXCEPT !.confirming = b, !.peak = p, !.cc = n, !.rebased = u] \in Replay
  BY DEF Replay

\* The numbers they are given.
LEMMA FieldTypes ==
  ASSUME NEW g \in Gate, NEW p \in Replay, NEW k \in Nat
  PROVE  /\ g.crossSeq \in Nat /\ g.peak \in Nat /\ g.confLeft - 1 \in Int
         /\ g.rebased \in Nat /\ g.nextEp \in Nat
         /\ p.cc + 1 \in Nat /\ 0 \in Nat
         /\ Higher(g.peak, k) \in Nat /\ Higher(p.peak, k) \in Nat
  BY DEF Gate, Replay, Higher

\* Types, one case per action of either replay.
LEMMA TypeStep == GateTypeInv /\ GateNext => GateTypeInv'
<1> SUFFICES ASSUME GateTypeInv, GateNext PROVE GateTypeInv'
  OBVIOUS
<1> USE GateAssumption
<1>1. PICK k \in Stats, r \in Stats : PerFeatureIks(k) /\ ReplayFeature(r)
  BY DEF GateNext
<1>2. /\ sample' = sample + 1 /\ UNCHANGED gateCall
      /\ stride' = stride /\ confirmWindow' = confirmWindow /\ rebaseOnFire' = rebaseOnFire
  BY DEF GateNext, gateCall
<1>3. /\ k \in Nat /\ r \in Nat /\ sample \in Nat
      /\ gate \in Gate /\ gate.nextEp > sample /\ replay \in Replay
      /\ stride \in Nat \ {0} /\ confirmWindow \in Nat /\ rebaseOnFire \in BOOLEAN
  BY DEF GateTypeInv
<1>s. /\ onsets \in Seq(Nat) /\ ksSeq \in Seq(Statistic)
      /\ crossings \in Seq(GateCrossing) /\ events \in Seq(GateCrossing)
  BY DEF GateTypeInv
<1>4. gate' \in Gate /\ gate'.nextEp > sample' /\ onsets' \in Seq(Nat)
      /\ ksSeq' \in Seq(Statistic) /\ crossings' \in Seq(GateCrossing)
  <2>1. CASE GateSlide
    BY <2>1, <1>2, <1>3, <1>s DEF GateSlide, protoVars, IsEval, Gate
  <2> DEFINE s == [seq |-> sample + 1, ks |-> k]
  <2>s. s \in Statistic /\ stride \in Nat \ {0} /\ sample + 1 \in Nat
    BY <1>3 DEF Statistic
  <2>k. ASSUME NEW g \in Gate, NextEp(g), IsEval, g.nextEp = gate.nextEp
        PROVE  gate' \in Gate /\ gate'.nextEp > sample'
    <3>1. gate' = [g EXCEPT !.nextEp = @ + stride] /\ g.nextEp = sample + 1
      BY <2>k DEF NextEp, IsEval
    <3>2. g.nextEp + stride \in Nat /\ g.nextEp + stride > sample'
      BY <3>1, <2>s, <1>2
    <3> QED BY <3>1, <3>2 DEF Gate
  <2>a. ASSUME Evaluated(k) PROVE ksSeq' \in Seq(Statistic)
    BY <2>a, <2>s, <1>s DEF Evaluated
  <2> HIDE DEF s
  <2>2. CASE GateQuiet(k)
    BY <2>2, <2>k, <2>a, <1>3, <1>s DEF GateQuiet
  <2>3. CASE GateCross(k)
    <3> DEFINE g == [gate EXCEPT !.confirming = TRUE, !.crossSeq = sample + 1, !.peak = k,
                                 !.confLeft = confirmWindow]
    <3>1. g \in Gate /\ g.nextEp = gate.nextEp
      <4>1. confirmWindow \in Int
        BY <1>3
      <4>2. g \in Gate
        BY <4>1, <1>3, <2>s, GateFields
      <4> QED BY <4>2, <1>3 DEF Gate
    <3>2. NextEp(g) /\ IsEval
      BY <2>3 DEF GateCross
    <3>3. gate' \in Gate /\ gate'.nextEp > sample'
      <4> HIDE DEF g
      <4> QED BY <3>1, <3>2, <2>k
    <3>4. ksSeq' \in Seq(Statistic) /\ crossings' = crossings
      BY <2>3, <2>a DEF GateCross
    <3>5. onsets' \in Seq(Nat)
      BY <2>3, <2>s, <1>s DEF GateCross
    <3> QED BY <3>3, <3>4, <3>5, <1>s
  <2>4. CASE GateChase(k)
    <3> DEFINE g == [gate EXCEPT !.peak = Higher(@, k), !.confLeft = @ - 1]
    <3>1. g \in Gate /\ g.nextEp = gate.nextEp
      <4>1. g \in Gate
        BY <1>3, FieldTypes, GateFields
      <4> QED BY <4>1, <1>3 DEF Gate
    <3>2. NextEp(g) /\ IsEval
      BY <2>4 DEF GateChase
    <3>3. gate' \in Gate /\ gate'.nextEp > sample'
      <4> HIDE DEF g
      <4> QED BY <3>1, <3>2, <2>k
    <3>4. ksSeq' \in Seq(Statistic) /\ crossings' = crossings /\ onsets' = onsets
      BY <2>4, <2>a DEF GateChase
    <3> QED BY <3>3, <3>4, <1>s
  <2>5. CASE GateRecord(k)
    <3> DEFINE g == [gate EXCEPT !.confirming = FALSE, !.crossSeq = 0, !.peak = 0,
                                 !.confLeft = @ - 1, !.rebased = sample + 1]
               c == [seq |-> gate.crossSeq, peak |-> Higher(gate.peak, k)]
    <3>1. g \in Gate /\ g.nextEp = gate.nextEp
      <4>1. g \in Gate
        BY <1>3, <2>s, FieldTypes, GateFields
      <4> QED BY <4>1, <1>3 DEF Gate
    <3>2. NextEp(g) /\ IsEval
      BY <2>5 DEF GateRecord
    <3>3. gate' \in Gate /\ gate'.nextEp > sample'
      <4> HIDE DEF g
      <4> QED BY <3>1, <3>2, <2>k
    <3>4. c \in GateCrossing
      BY <1>3 DEF Gate, Higher, GateCrossing
    <3>5. ksSeq' \in Seq(Statistic) /\ onsets' = onsets /\ crossings' = Append(crossings, c)
      BY <2>5, <2>a DEF GateRecord
    <3>6. crossings' \in Seq(GateCrossing)
      <4> HIDE DEF c
      <4> QED BY <3>4, <3>5, <1>s
    <3> QED BY <3>3, <3>5, <3>6, <1>s
  <2>6. CASE GateFire(k)
    <3> DEFINE rising == k > KsThreshold /\ ~gate.lastFired
               g == [gate EXCEPT !.lastFired = Fired(k),
                       !.rebased = IF rising /\ rebaseOnFire THEN sample + 1 ELSE @]
    <3>1. g \in Gate /\ g.nextEp = gate.nextEp
      <4>1. Fired(k) \in BOOLEAN
        BY DEF Fired
      <4>2. (IF rising /\ rebaseOnFire THEN sample + 1 ELSE gate.rebased) \in Nat
        BY <1>3, <2>s, FieldTypes
      <4>3. \A b \in BOOLEAN, u \in Nat :
              [gate EXCEPT !.lastFired = b, !.rebased = u] \in Gate
        BY <1>3 DEF Gate
      <4>4. g \in Gate
        <5> DEFINE u == IF rising /\ rebaseOnFire THEN sample + 1 ELSE gate.rebased
                   b == Fired(k)
        <5>1. g = [gate EXCEPT !.lastFired = b, !.rebased = u] /\ u \in Nat /\ b \in BOOLEAN
          BY <4>1, <4>2
        <5> HIDE DEF u, b, g
        <5> QED BY <5>1, <4>3
      <4> QED BY <4>4, <1>3 DEF Gate
    <3>2. NextEp(g) /\ IsEval
      BY <2>6 DEF GateFire
    <3>3. gate' \in Gate /\ gate'.nextEp > sample'
      <4> HIDE DEF g
      <4> QED BY <3>1, <3>2, <2>k
    <3>4. ksSeq' \in Seq(Statistic) /\ crossings' = crossings
      BY <2>6, <2>a DEF GateFire
    <3>5. onsets' \in Seq(Nat)
      BY <2>6, <2>s, <1>s DEF GateFire
    <3> QED BY <3>3, <3>4, <3>5, <1>s
  <2> QED BY <1>1, <2>1, <2>2, <2>3, <2>4, <2>5, <2>6 DEF PerFeatureIks
<1>5. replay' \in Replay /\ events' \in Seq(GateCrossing)
  <2>1. CASE UNCHANGED calibVars
    BY <2>1, <1>3, <1>s DEF calibVars
  <2>2. CASE ReplayCross(r)
    <3>1. replay' = [replay EXCEPT !.confirming = TRUE, !.peak = r, !.cc = 0,
                                   !.crossSeq = sample + 1]
      BY <2>2 DEF ReplayCross
    <3>2. TRUE \in BOOLEAN /\ 0 \in Nat /\ sample + 1 \in Nat
      BY <1>3
    <3>3. replay' \in Replay
      BY <3>1, <3>2, <1>3, ReplayFields
    <3> QED BY <2>2, <3>3, <1>s DEF ReplayCross
  <2>3. CASE ReplayChase(r)
    <3>1. replay' \in Replay
      BY <2>3, <1>3, FieldTypes, ReplayFields DEF ReplayChase
    <3> QED BY <2>3, <3>1, <1>s DEF ReplayChase
  <2>4. CASE ReplayRecord(r)
    <3>1. [seq |-> replay.crossSeq, peak |-> Higher(replay.peak, r)] \in GateCrossing
      BY <1>3 DEF Replay, Higher, GateCrossing
    <3>2. replay' \in Replay
      <4>1. replay' = [replay EXCEPT !.confirming = FALSE, !.peak = 0, !.cc = @ + 1,
                                     !.rebased = sample + 1]
        BY <2>4 DEF ReplayRecord
      <4>2. FALSE \in BOOLEAN /\ 0 \in Nat /\ sample + 1 \in Nat /\ replay.cc + 1 \in Nat
        BY <1>3 DEF Replay
      <4> QED BY <4>1, <4>2, <1>3, ReplayFields
    <3>3. events' = Append(events, [seq |-> replay.crossSeq, peak |-> Higher(replay.peak, r)])
      BY <2>4 DEF ReplayRecord
    <3> QED BY <3>1, <3>2, <3>3, <1>s
  <2> QED BY <1>1, <2>1, <2>2, <2>3, <2>4 DEF ReplayFeature, ReplayQuiet
<1> QED BY <1>2, <1>3, <1>4, <1>5 DEF GateTypeInv

\* The two replays stay in step.
LEMMA SyncStep == GateTypeInv /\ SyncInv /\ GateNext => SyncInv'
<1> SUFFICES ASSUME GateTypeInv, SyncInv, GateNext,
                    stride' = 1 /\ confirmWindow' > 0
             PROVE  /\ gate'.nextEp = sample' + 1
                    /\ crossings' = events'
                    /\ gate'.rebased = replay'.rebased
                    /\ gate'.confirming = replay'.confirming
                    /\ gate'.confirming =>
                         /\ gate'.crossSeq = replay'.crossSeq /\ gate'.peak = replay'.peak
                         /\ replay'.cc < confirmWindow'
                         /\ gate'.confLeft = confirmWindow' - replay'.cc
  BY DEF SyncInv
<1> USE GateAssumption
<1>1. sample' = sample + 1 /\ confirmWindow' = confirmWindow /\ stride = 1 /\ confirmWindow > 0
  BY DEF GateNext, gateCall
<1>2. /\ gate.nextEp = sample + 1 /\ crossings = events
      /\ gate.rebased = replay.rebased /\ gate.confirming = replay.confirming
      /\ gate.confirming =>
           /\ gate.crossSeq = replay.crossSeq /\ gate.peak = replay.peak
           /\ replay.cc < confirmWindow
           /\ gate.confLeft = confirmWindow - replay.cc
  BY <1>1 DEF SyncInv
<1>3. PICK k \in Stats : PerFeatureIks(k) /\ ReplayFeature(k)
  BY <1>2 DEF GateNext
<1>4. /\ gate \in Gate /\ replay \in Replay /\ sample \in Nat /\ confirmWindow \in Nat
      /\ k \in Nat
  BY DEF GateTypeInv
<1>5. IsEval
  BY <1>2 DEF IsEval
<1>6. CASE ~gate.confirming /\ k <= KsThreshold
  <2>1. GateQuiet(k) /\ ReplayQuiet(k)
    BY <1>1, <1>2, <1>3, <1>4, <1>5, <1>6
       DEF PerFeatureIks, GateSlide, GateCross, GateChase, GateRecord, GateFire,
           ReplayFeature, ReplayCross, ReplayChase, ReplayRecord
  <2> QED BY <2>1, <1>1, <1>2, <1>4, <1>6 DEF GateQuiet, ReplayQuiet, calibVars, NextEp, Gate
<1>7. CASE ~gate.confirming /\ k > KsThreshold
  <2>1. GateCross(k) /\ ReplayCross(k)
    BY <1>1, <1>2, <1>3, <1>4, <1>5, <1>7
       DEF PerFeatureIks, GateSlide, GateQuiet, GateChase, GateRecord, GateFire,
           ReplayFeature, ReplayQuiet, ReplayChase, ReplayRecord
  <2> QED BY <2>1, <1>1, <1>2, <1>4 DEF GateCross, ReplayCross, NextEp, Gate, Replay
<1>8. CASE gate.confirming /\ ~GateLast
  <2>1. GateChase(k) /\ ReplayChase(k)
    BY <1>1, <1>2, <1>3, <1>4, <1>5, <1>8, SMTT(30)
       DEF PerFeatureIks, GateSlide, GateQuiet, GateCross, GateRecord, GateFire, GateLast,
           ReplayFeature, ReplayQuiet, ReplayCross, ReplayRecord, Gate, Replay
  <2> QED BY <2>1, <1>1, <1>2, <1>4, <1>8
          DEF GateChase, ReplayChase, GateLast, NextEp, Gate, Replay
<1>9. CASE gate.confirming /\ GateLast
  <2>1. GateRecord(k) /\ ReplayRecord(k)
    BY <1>1, <1>2, <1>3, <1>4, <1>5, <1>9, SMTT(30)
       DEF PerFeatureIks, GateSlide, GateQuiet, GateCross, GateChase, GateFire, GateLast,
           ReplayFeature, ReplayQuiet, ReplayCross, ReplayChase, Gate, Replay
  <2>2. crossings' = events'
    BY <2>1, <1>2, <1>9 DEF GateRecord, ReplayRecord
  <2>3. gate'.nextEp = sample' + 1 /\ ~gate'.confirming /\ gate'.rebased = sample + 1
    BY <2>1, <1>1, <1>2, <1>4 DEF GateRecord, NextEp, Gate
  <2>4. ~replay'.confirming /\ replay'.rebased = sample + 1
    BY <2>1, <1>4 DEF ReplayRecord, Replay
  <2>5. gate'.confirming = FALSE /\ replay'.confirming = FALSE
    BY <2>1, <1>4 DEF GateRecord, NextEp, Gate, ReplayRecord, Replay
  <2> QED BY <2>2, <2>3, <2>4, <2>5
<1>10. k <= KsThreshold \/ k > KsThreshold
  BY <1>4
<1> QED BY <1>4, <1>6, <1>7, <1>8, <1>9, <1>10 DEF Gate

\* Crossings stay apart.
LEMMA ApartStep == GateTypeInv /\ ApartInv /\ GateNext => ApartInv'
<1> SUFFICES ASSUME GateTypeInv, ApartInv, GateNext PROVE ApartInv'
  OBVIOUS
<1> USE GateAssumption
<1>1. PICK k \in Stats : PerFeatureIks(k)
  BY DEF GateNext
<1>2. stride' = stride /\ confirmWindow' = confirmWindow
  BY DEF GateNext, gateCall
<1>3. /\ gate \in Gate /\ stride \in Nat \ {0} /\ confirmWindow \in Nat /\ sample \in Nat
      /\ crossings \in Seq(GateCrossing) /\ k \in Nat
  BY DEF GateTypeInv
<1>4. \A i \in 1 .. Len(crossings) :
        crossings[i].seq + (confirmWindow + 1) * stride <= NextCrossing
  BY DEF ApartInv
<1> DEFINE width == (confirmWindow + 1) * stride
<1>5. width \in Nat
  BY <1>3
<1>6. ASSUME crossings' = crossings, gate'.confirming = gate.confirming,
             NextCrossing' >= NextCrossing,
             gate'.confirming => /\ gate'.confLeft \in 1 .. confirmWindow
                                 /\ gate'.nextEp = gate'.crossSeq
                                      + (confirmWindow + 1 - gate'.confLeft) * stride
      PROVE  ApartInv'
  <2>1. CrossingsApart'
    BY <1>6, <1>2 DEF ApartInv, CrossingsApart
  <2>2. \A i \in 1 .. Len(crossings) : crossings[i].seq \in Nat
    BY SeqNumbers
  <2>3. NextCrossing \in Int /\ NextCrossing' \in Int
    BY <1>3, TypeStep DEF NextCrossing, Gate, GateTypeInv
  <2>4. \A i \in 1 .. Len(crossings') : crossings'[i].seq + width <= NextCrossing'
    <3> HIDE DEF width
    <3> QED BY <1>4, <1>5, <1>6, <2>2, <2>3 DEF width
  <2> QED BY <1>2, <1>6, <2>1, <2>4 DEF ApartInv
<1>7. CASE GateSlide
  BY <1>7, <1>2, <1>3, <1>6 DEF GateSlide, protoVars, ApartInv, NextCrossing, Gate
<1>8. CASE GateQuiet(k)
  <2>1. crossings' = crossings /\ gate'.confirming = FALSE /\ gate.confirming = FALSE
    BY <1>8, <1>3 DEF GateQuiet, NextEp, Gate
  <2>2. NextCrossing' >= NextCrossing
    BY <1>8, <1>3, <2>1 DEF GateQuiet, NextEp, Gate, NextCrossing
  <2> QED BY <2>1, <2>2, <1>6
<1>9. CASE GateFire(k)
  <2>1. gate.confirming = FALSE
    BY <1>9, <1>3 DEF GateFire, ApartInv, Gate
  <2>2. crossings' = crossings /\ gate'.confirming = FALSE
    BY <1>9, <1>3, <2>1 DEF GateFire, NextEp, Gate
  <2>3. NextCrossing' >= NextCrossing
    BY <1>9, <1>3, <2>1, <2>2 DEF GateFire, NextEp, Gate, NextCrossing
  <2> QED BY <2>1, <2>2, <2>3, <1>6
<1>10. CASE GateCross(k)
  <2>1. /\ crossings' = crossings /\ ~gate.confirming /\ gate'.confirming
        /\ gate'.crossSeq = sample + 1 /\ gate.nextEp = sample + 1
        /\ gate'.confLeft = confirmWindow /\ gate'.nextEp = gate.nextEp + stride
        /\ confirmWindow > 0
    BY <1>10, <1>3 DEF GateCross, NextEp, Gate, IsEval
  <2>2. NextCrossing' = NextCrossing
    BY <2>1 DEF NextCrossing
  <2>3. (confirmWindow + 1 - gate'.confLeft) * stride = stride
    <3>1. confirmWindow + 1 - gate'.confLeft = 1
      BY <2>1, <1>3
    <3> QED BY <3>1, <1>3
  <2>4. CrossingsApart'
    BY <2>1, <1>2 DEF ApartInv, CrossingsApart
  <2> QED BY <1>2, <1>3, <1>4, <2>1, <2>2, <2>3, <2>4 DEF ApartInv, Gate
<1>11. CASE GateChase(k)
  <2>1. /\ crossings' = crossings /\ gate.confirming /\ gate'.confirming
        /\ gate'.crossSeq = gate.crossSeq /\ gate'.confLeft = gate.confLeft - 1
        /\ gate'.nextEp = gate.nextEp + stride /\ gate.confLeft - 1 > 0
    BY <1>11, <1>3 DEF GateChase, NextEp, Gate, GateLast
  <2>2. NextCrossing' = NextCrossing /\ NextCrossing \in Nat
    BY <2>1, <1>3 DEF NextCrossing, Gate
  <2>3. /\ gate.confLeft \in 1 .. confirmWindow
        /\ gate.nextEp = gate.crossSeq + (confirmWindow + 1 - gate.confLeft) * stride
    BY <2>1 DEF ApartInv
  <2>4. (confirmWindow + 1 - gate.confLeft + 1) * stride
          = (confirmWindow + 1 - gate.confLeft) * stride + stride
    BY <2>3, <1>3, OneMore
  <2>5. confirmWindow + 1 - gate'.confLeft = confirmWindow + 1 - gate.confLeft + 1
    BY <2>1, <2>3, <1>3
  <2>6. (confirmWindow + 1 - gate.confLeft) * stride \in Int /\ gate.crossSeq \in Nat
    BY <2>3, <1>3 DEF Gate
  <2>7. gate'.nextEp = gate'.crossSeq + (confirmWindow + 1 - gate'.confLeft) * stride
    BY <2>1, <2>3, <2>4, <2>5, <2>6, <1>3, SMTT(30)
  <2>8. gate'.confLeft \in 1 .. confirmWindow
    BY <2>1, <2>3, <1>3
  <2> QED BY <1>6, <2>1, <2>2, <2>7, <2>8
<1>12. CASE GateRecord(k)
  <2> DEFINE c == [seq |-> gate.crossSeq, peak |-> Higher(gate.peak, k)]
  <2>1. /\ crossings' = Append(crossings, c) /\ gate.confirming /\ ~gate'.confirming
        /\ gate'.nextEp = gate.nextEp + stride /\ gate.confLeft - 1 <= 0
    BY <1>12, <1>3 DEF GateRecord, NextEp, Gate, GateLast
  <2>2. gate.confLeft = 1 /\ gate.nextEp = gate.crossSeq + confirmWindow * stride
    <3>1. /\ gate.confLeft \in 1 .. confirmWindow
          /\ gate.nextEp = gate.crossSeq + (confirmWindow + 1 - gate.confLeft) * stride
      BY <2>1 DEF ApartInv
    <3>2. gate.confLeft = 1
      BY <2>1, <3>1, <1>3
    <3>3. confirmWindow + 1 - gate.confLeft = confirmWindow
      BY <3>2, <1>3
    <3> QED BY <3>1, <3>2, <3>3
  <2>3. width = confirmWindow * stride + stride
    BY OneMore, <1>3
  <2>4. NextCrossing' = gate.crossSeq + width /\ NextCrossing = gate.crossSeq
    <3>1. NextCrossing' = gate.nextEp + stride /\ NextCrossing = gate.crossSeq
      BY <2>1 DEF NextCrossing
    <3>2. confirmWindow * stride \in Int /\ gate.crossSeq \in Nat
      BY <1>3 DEF Gate
    <3> HIDE DEF width
    <3> QED BY <3>1, <3>2, <2>2, <2>3, <1>3
  <2>5. gate.crossSeq \in Nat
    BY <1>3 DEF Gate
  <2>6. c.seq = gate.crossSeq
    OBVIOUS
  <2>7. \A i \in 1 .. Len(crossings) : crossings[i].seq \in Nat
    BY SeqNumbers
  <2>8. /\ Len(crossings') = Len(crossings) + 1 /\ Len(crossings) \in Nat
        /\ \A i \in 1 .. Len(crossings) : crossings'[i] = crossings[i]
        /\ crossings'[Len(crossings) + 1] = c
    BY <2>1, <1>3
  <2>9. \A i \in 1 .. Len(crossings) : crossings[i].seq + width <= gate.crossSeq
    BY <1>4, <2>4
  <2> HIDE DEF width, c
  <2>10. \A i \in 1 .. Len(crossings') : crossings'[i].seq + width <= NextCrossing'
    <3> TAKE i \in 1 .. Len(crossings')
    <3>1. CASE i \in 1 .. Len(crossings)
      BY <3>1, <2>4, <2>5, <2>7, <2>8, <2>9, <1>5
    <3>2. CASE i = Len(crossings) + 1
      BY <3>2, <2>4, <2>5, <2>6, <2>8, <1>5
    <3> QED BY <3>1, <3>2, <2>8
  <2>11. \A i, j \in 1 .. Len(crossings') :
           i < j => crossings'[j].seq - crossings'[i].seq >= width
    <3> SUFFICES ASSUME NEW i \in 1 .. Len(crossings'), NEW j \in 1 .. Len(crossings'), i < j
                 PROVE  crossings'[j].seq - crossings'[i].seq >= width
      OBVIOUS
    <3>1. i \in 1 .. Len(crossings)
      BY <2>8
    <3>2. CASE j \in 1 .. Len(crossings)
      BY <3>1, <3>2, <2>8 DEF ApartInv, CrossingsApart, width
    <3>3. CASE j = Len(crossings) + 1
      BY <3>1, <3>3, <2>5, <2>6, <2>7, <2>8, <2>9, <1>5, SMTT(30)
    <3> QED BY <3>2, <3>3, <2>8
  <2>12. CrossingsApart'
    BY <2>11, <1>2 DEF CrossingsApart, width
  <2> QED BY <2>1, <2>10, <2>12, <1>2 DEF ApartInv, width
<1> QED BY <1>1, <1>7, <1>8, <1>9, <1>10, <1>11, <1>12 DEF PerFeatureIks

\* With a rebase at every rising edge each excess is one.
LEMMA EdgeStep == GateTypeInv /\ EdgeInv /\ GateNext => EdgeInv'
<1> SUFFICES ASSUME GateTypeInv, EdgeInv, GateNext, confirmWindow' = 0, rebaseOnFire'
             PROVE  /\ ~gate'.lastFired /\ ~gate'.confirming
                    /\ \A j \in 1 .. Len(ksSeq') : ksSeq'[j].ks > KsThreshold =>
                         \E i \in 1 .. Len(onsets') : onsets'[i] = ksSeq'[j].seq
  BY DEF EdgeInv
<1> USE GateAssumption
<1>1. PICK k \in Stats : PerFeatureIks(k)
  BY DEF GateNext
<1>2. /\ confirmWindow = 0 /\ rebaseOnFire /\ gate \in Gate /\ k \in Nat /\ sample \in Nat
      /\ ksSeq \in Seq(Statistic) /\ onsets \in Seq(Nat)
      /\ ~gate.lastFired /\ ~gate.confirming
      /\ \A j \in 1 .. Len(ksSeq) : ksSeq[j].ks > KsThreshold =>
           \E i \in 1 .. Len(onsets) : onsets[i] = ksSeq[j].seq
  BY DEF GateNext, gateCall, GateTypeInv, EdgeInv
<1>3. CASE onsets' = onsets /\ ksSeq' = ksSeq /\ gate' = gate
  BY <1>2, <1>3
<1>4. CASE GateFire(k)
  <2> DEFINE e == [seq |-> sample + 1, ks |-> k]
  <2>1. ksSeq' = Append(ksSeq, e) /\ ~gate'.lastFired /\ ~gate'.confirming
        /\ onsets' = IF k > KsThreshold THEN Append(onsets, sample + 1) ELSE onsets
    BY <1>2, <1>4 DEF GateFire, Evaluated, NextEp, Fired, Gate
  <2>2. /\ Len(ksSeq') = Len(ksSeq) + 1 /\ Len(ksSeq) \in Nat
        /\ \A j \in 1 .. Len(ksSeq) : ksSeq'[j] = ksSeq[j]
        /\ ksSeq'[Len(ksSeq) + 1] = e
    BY <2>1, <1>2
  <2>3. \A i \in 1 .. Len(onsets) : i \in 1 .. Len(onsets') /\ onsets'[i] = onsets[i]
    BY <2>1, <1>2
  <2>4. ASSUME NEW j \in 1 .. Len(ksSeq'), ksSeq'[j].ks > KsThreshold
        PROVE  \E i \in 1 .. Len(onsets') : onsets'[i] = ksSeq'[j].seq
    <3>1. CASE j \in 1 .. Len(ksSeq)
      BY <3>1, <2>2, <2>3, <2>4, <1>2
    <3>2. CASE j = Len(ksSeq) + 1
      <4>1. k > KsThreshold
        BY <3>2, <2>2, <2>4
      <4>2. onsets' = Append(onsets, sample + 1)
        BY <4>1, <2>1
      <4>3. Len(onsets) + 1 \in 1 .. Len(onsets') /\ onsets'[Len(onsets) + 1] = sample + 1
        BY <4>2, <1>2
      <4>4. ksSeq'[j].seq = sample + 1
        BY <3>2, <2>2
      <4> QED BY <4>3, <4>4
    <3> QED BY <3>1, <3>2, <2>2
  <2> QED BY <2>1, <2>4
<1> QED BY <1>1, <1>2, <1>3, <1>4
        DEF PerFeatureIks, GateSlide, protoVars, GateQuiet, GateCross, GateChase, GateRecord

LEMMA StutterIInv == GateIInv /\ UNCHANGED gateVarsOffline => GateIInv'
<1> SUFFICES ASSUME GateIInv, UNCHANGED gateVarsOffline PROVE GateIInv'
  OBVIOUS
<1> USE DEF gateVarsOffline, gateCall, protoVars, calibVars
<1>1. GateTypeInv'
  BY DEF GateIInv, GateTypeInv
<1>2. SyncInv'
  BY DEF GateIInv, SyncInv
<1>3. ApartInv'
  BY DEF GateIInv, ApartInv, NextCrossing, CrossingsApart
<1>4. EdgeInv'
  BY DEF GateIInv, EdgeInv
<1> QED BY <1>1, <1>2, <1>3, <1>4 DEF GateIInv

\* The inductive invariant of the two replays.
THEOREM GateInductive == GateSpec => []GateIInv
<1>1. GateIInv /\ [GateNext]_gateVarsOffline => GateIInv'
  BY TypeStep, SyncStep, ApartStep, EdgeStep, StutterIInv DEF GateIInv
<1> QED BY <1>1, InitGateIInv, PTL DEF GateSpec

\* Evaluated at every sample, derisk_proxy.per_feature_iks and
\* calibrate_ksconfirm.replay_feature record the same crossings.
THEOREM CalibrationIsPrototype == GateSpec => []SameCrossings
<1>1. GateIInv => SameCrossings
  BY DEF GateIInv, SyncInv, SameCrossings
<1> QED BY <1>1, GateInductive, PTL

\* A feature of the prototype never crosses twice within a confirmation.
THEOREM CrossingsStayApart == GateSpec => []CrossingsApart
<1>1. GateIInv => CrossingsApart
  BY DEF GateIInv, ApartInv
<1> QED BY <1>1, GateInductive, PTL

\* derisk_proxy.rising_edges_at over replays with rebase: every onset of a
\* higher amplitude is an onset that fired.
THEOREM EdgesFired == GateSpec => []EdgesAreFires
<1>1. GateIInv => EdgesAreFires
  <2> SUFFICES ASSUME GateIInv, confirmWindow = 0, rebaseOnFire, NEW m \in Stats
               PROVE  RisingEdgesAt(m) \subseteq RisingEdgesAt(0)
    BY DEF EdgesAreFires
  <2> USE GateAssumption
  <2>1. RisingEdgesAt(0) = {onsets[i] : i \in 1 .. Len(onsets)}
    BY DEF RisingEdgesAt
  <2>2. CASE m <= KsThreshold
    BY <2>1, <2>2 DEF RisingEdgesAt
  <2>3. CASE ~(m <= KsThreshold)
    <3> SUFFICES ASSUME NEW j \in 1 .. Len(ksSeq), ksSeq[j].ks > m
                 PROVE  ksSeq[j].seq \in RisingEdgesAt(0)
      BY <2>3 DEF RisingEdgesAt
    <3>1. ksSeq[j].ks \in Nat /\ m \in Nat
      BY SeqNumbers DEF GateIInv
    <3>2. ksSeq[j].ks > KsThreshold
      BY <2>3, <3>1
    <3> QED BY <2>1, <3>2 DEF GateIInv, EdgeInv
  <2> QED BY <2>2, <2>3
<1> QED BY <1>1, GateInductive, PTL

\* All of it: the calibration, the prototype and the sweep over amplitudes
\* work on the same crossings.
THEOREM ReplaysAgree == GateSpec => []GateReplaysAgree
<1>1. SameCrossings /\ CrossingsApart /\ EdgesAreFires => GateReplaysAgree
  BY DEF GateReplaysAgree
<1> QED BY <1>1, CalibrationIsPrototype, CrossingsStayApart, EdgesFired, PTL

(***************************************************************************)
(* The aggregation of crossings: OfflineQuorum.                            *)
(***************************************************************************)

Crossing == [feature : Columns, seq : Nat, peak : Nat]

QuorumTypeInv ==
  /\ persist \in Nat \ {0}
  /\ ep \in 0 .. MaxPoint
  /\ crossed \subseteq Crossing
  /\ \A x \in crossed : x.seq >= 1 /\ x.seq <= ep

\* What is in the window of a feature, read off the crossings.
SeenBy(c, f, p) ==
  {x.seq : x \in {y \in crossed : y.feature = f /\ y.peak >= c /\ y.seq >= p - Window}}

WindowInv(c) == \A f \in Columns : kernel[c].present[f] = SeenBy(c, f, ep)

\* The streak is the length of the run of quorums that ends here.
StreakInv(c) ==
  /\ kernel[c].streak \in 0 .. ep
  /\ \A r \in 1 .. ep : r > ep - kernel[c].streak => ActiveAt(c, r)
  /\ \A r \in 1 .. ep : r = ep - kernel[c].streak => ~ActiveAt(c, r)

\* `last` is the last onset, or before everything.
LastInv(c) ==
  /\ kernel[c].onsets \subseteq 1 .. ep
  /\ \/ kernel[c].onsets = {} /\ kernel[c].last = Never
     \/ kernel[c].last \in kernel[c].onsets /\ \A o \in kernel[c].onsets : o <= kernel[c].last

OnsetInv(c) ==
  /\ \A o \in kernel[c].onsets : HeldAt(c, o)
  /\ \A o, p \in kernel[c].onsets : o < p => p - o >= Cooldown
  /\ \A p \in 1 .. ep : HeldAt(c, p) =>
       p \in kernel[c].onsets \/ \E o \in kernel[c].onsets : o < p /\ p - o < Cooldown

QuorumIInv ==
  /\ QuorumTypeInv
  /\ \A c \in KsGrid : WindowInv(c) /\ StreakInv(c) /\ LastInv(c) /\ OnsetInv(c)

LEMMA InitQuorumIInv == QuorumInit => QuorumIInv
<1> SUFFICES ASSUME QuorumInit PROVE QuorumIInv
  OBVIOUS
<1> USE QuorumAssumption
<1>1. QuorumTypeInv
  BY DEF QuorumInit, QuorumTypeInv
<1>2. ASSUME NEW c \in KsGrid
      PROVE  WindowInv(c) /\ StreakInv(c) /\ LastInv(c) /\ OnsetInv(c)
  <2>1. /\ kernel[c].present = [f \in Columns |-> {}] /\ kernel[c].streak = 0
        /\ kernel[c].last = Never /\ kernel[c].onsets = {} /\ crossed = {} /\ ep = 0
    BY DEF QuorumInit, NewKernel
  <2>2. WindowInv(c)
    BY <2>1 DEF WindowInv, SeenBy
  <2>3. StreakInv(c) /\ LastInv(c) /\ OnsetInv(c)
    BY <2>1 DEF StreakInv, LastInv, OnsetInv
  <2> QED BY <2>2, <2>3
<1> QED BY <1>1, <1>2 DEF QuorumIInv

\* An evaluation adds crossings of its own number only.
LEMMA Recorded ==
  ASSUME QuorumTypeInv, NEW crossing \in SUBSET Columns, NEW peakOf \in [crossing -> Peaks],
         Evaluate(peakOf)
  PROVE  /\ ep' = ep + 1 /\ persist' = persist /\ ep \in Nat /\ ep' \in Nat
         /\ crossed \subseteq crossed'
         /\ \A x \in crossed' : x \in crossed \/ x.seq = ep + 1
         /\ QuorumTypeInv'
<1> USE QuorumAssumption
<1>1. /\ ep' = ep + 1 /\ persist' = persist /\ ep < MaxPoint /\ ep \in Nat
      /\ crossed' = crossed \cup {[feature |-> f, seq |-> ep + 1, peak |-> peakOf[f]] :
                                    f \in crossing}
  BY DEF Evaluate, QuorumTypeInv
<1>2. \A f \in crossing : [feature |-> f, seq |-> ep + 1, peak |-> peakOf[f]] \in Crossing
  <2> TAKE f \in crossing
  <2>1. f \in Columns /\ peakOf[f] \in Peaks /\ ep + 1 \in Nat
    BY <1>1
  <2>2. peakOf[f] \in Nat
    BY <2>1
  <2> QED BY <2>1, <2>2 DEF Crossing
<1>3. crossed' \subseteq Crossing
  BY <1>1, <1>2 DEF QuorumTypeInv
<1>4. \A x \in crossed' : x \in crossed \/ x.seq = ep + 1
  BY <1>1
<1>5. \A x \in crossed' : x.seq >= 1 /\ x.seq <= ep'
  BY <1>1, <1>4 DEF QuorumTypeInv, Crossing
<1> QED BY <1>1, <1>3, <1>4, <1>5 DEF QuorumTypeInv

\* What was a quorum stays one, and what was not does not become one.
LEMMA PastKept ==
  ASSUME QuorumTypeInv, NEW crossing \in SUBSET Columns, NEW peakOf \in [crossing -> Peaks],
         Evaluate(peakOf), NEW c, NEW r \in Nat, r <= ep
  PROVE  (ActiveAt(c, r)' <=> ActiveAt(c, r)) /\ (HeldAt(c, r)' <=> HeldAt(c, r))
<1> USE QuorumAssumption
<1>1. \A q \in Nat : q <= ep => (ActiveAt(c, q)' <=> ActiveAt(c, q))
  <2> TAKE q \in Nat
  <2> HAVE q <= ep
  <2>1. \A x \in crossed' : x.seq <= q => x \in crossed
    BY Recorded
  <2>2. \A f \in Columns :
          (\E x \in crossed' : x.feature = f /\ x.peak >= c /\ x.seq >= q - Window /\ x.seq <= q)
          <=> (\E x \in crossed : x.feature = f /\ x.peak >= c /\ x.seq >= q - Window /\ x.seq <= q)
    BY <2>1, Recorded
  <2> QED BY <2>2 DEF ActiveAt
<1>2. persist' = persist /\ persist \in Nat /\ ep \in Nat
  BY Recorded DEF QuorumTypeInv
<1>3. \A q \in 1 .. MaxPoint : q <= r => (ActiveAt(c, q)' <=> ActiveAt(c, q))
  BY <1>1, <1>2
<1> QED BY <1>1, <1>2, <1>3 DEF HeldAt

LEMMA PresentAt ==
  ASSUME NEW q, NEW p \in Int, NEW new, NEW f \in Columns
  PROVE  Present(q, p, new)[f]
           = {e \in q.present[f] : e >= p - Window} \cup (IF f \in new THEN {p} ELSE {})
  BY DEF Present, Evicted

LEMMA WindowStep ==
  ASSUME QuorumTypeInv, NEW crossing \in SUBSET Columns, NEW peakOf \in [crossing -> Peaks],
         Evaluate(peakOf), NEW c \in KsGrid, WindowInv(c)
  PROVE  WindowInv(c)'
<1> USE QuorumAssumption
<1> DEFINE new == Passing(peakOf, c)
<1>1. kernel'[c].present = Present(kernel[c], ep + 1, new)
  BY DEF Evaluate, KernelStep
<1>2. crossed' = crossed \cup {[feature |-> f, seq |-> ep + 1, peak |-> peakOf[f]] :
                                    f \in crossing}
  BY DEF Evaluate
<1>3. ep' = ep + 1 /\ ep \in Nat /\ crossed \subseteq Crossing
  BY Recorded DEF QuorumTypeInv
<1>4. ASSUME NEW f \in Columns PROVE kernel'[c].present[f] = SeenBy(c, f, ep)'
  <2>1. kernel'[c].present[f]
          = {e \in kernel[c].present[f] : e >= ep + 1 - Window}
              \cup (IF f \in new THEN {ep + 1} ELSE {})
    <3> HIDE DEF new
    <3> QED BY <1>1, <1>3, PresentAt
  <2>2. f \in new <=> f \in crossing /\ peakOf[f] >= c
    BY DEF Passing
  <2>3. \A s : s \in kernel[c].present[f] <=>
          \E y \in crossed : y.feature = f /\ y.peak >= c /\ y.seq >= ep - Window /\ s = y.seq
    BY DEF WindowInv, SeenBy
  <2>4. \A s : s \in SeenBy(c, f, ep)' <=>
          \E y \in crossed' : y.feature = f /\ y.peak >= c /\ y.seq >= ep + 1 - Window /\ s = y.seq
    <3>1. SeenBy(c, f, ep)' = {x.seq : x \in {y \in crossed' : y.feature = f /\ y.peak >= c
                                              /\ y.seq >= ep + 1 - Window}}
      BY <1>3 DEF SeenBy
    <3> QED BY <3>1
  <2>5. \A y \in crossed : y.seq \in Nat
    BY <1>3 DEF Crossing
  <2>6. ASSUME NEW s, s \in SeenBy(c, f, ep)' PROVE s \in kernel'[c].present[f]
    <3>1. PICK y \in crossed' : y.feature = f /\ y.peak >= c /\ y.seq >= ep + 1 - Window /\ s = y.seq
      BY <2>4, <2>6
    <3>2. CASE y \in crossed
      <4>1. s \in kernel[c].present[f] /\ s >= ep + 1 - Window
        BY <3>1, <3>2, <2>3, <2>5, <1>3
      <4> QED BY <4>1, <2>1
    <3>3. CASE y \notin crossed
      <4>1. PICK g \in crossing : y = [feature |-> g, seq |-> ep + 1, peak |-> peakOf[g]]
        BY <1>2, <3>3
      <4>2. f \in new /\ s = ep + 1
        BY <3>1, <4>1, <2>2
      <4> QED BY <4>2, <2>1
    <3> QED BY <3>2, <3>3
  <2>7. ASSUME NEW s, s \in kernel'[c].present[f] PROVE s \in SeenBy(c, f, ep)'
    <3>1. CASE f \in new /\ s = ep + 1
      <4> DEFINE y == [feature |-> f, seq |-> ep + 1, peak |-> peakOf[f]]
      <4>1. y \in crossed' /\ y.feature = f /\ y.peak >= c /\ y.seq >= ep + 1 - Window /\ y.seq = ep + 1
        BY <1>2, <1>3, <2>2, <3>1
      <4> HIDE DEF y
      <4> QED BY <2>4, <3>1, <4>1
    <3>2. CASE s \in kernel[c].present[f] /\ s >= ep + 1 - Window
      <4>1. PICK y \in crossed : y.feature = f /\ y.peak >= c /\ s = y.seq
        BY <2>3, <3>2
      <4>2. y \in crossed'
        BY <1>2
      <4> QED BY <4>1, <4>2, <3>2, <2>4
    <3> QED BY <2>1, <2>7, <3>1, <3>2
  <2> QED BY <2>6, <2>7
<1> QED BY <1>4 DEF WindowInv

\* The count of _quorum_onsets is that of the features active at ep + 1.
LEMMA CountedIsActive ==
  ASSUME NEW c \in KsGrid, QuorumTypeInv, WindowInv(c)', ep' \in Nat, QuorumTypeInv'
  PROVE  Quorate({f \in Columns : kernel'[c].present[f] # {}}) <=> ActiveAt(c, ep)'
<1> USE QuorumAssumption
<1>1. \A f \in Columns : kernel'[c].present[f] # {} <=>
        \E x \in crossed' : /\ x.feature = f /\ x.peak >= c
                            /\ x.seq >= ep' - Window /\ x.seq <= ep'
  BY DEF WindowInv, SeenBy, QuorumTypeInv
<1>2. {f \in Columns : kernel'[c].present[f] # {}}
        = {f \in Columns : \E x \in crossed' : /\ x.feature = f /\ x.peak >= c
                                               /\ x.seq >= ep' - Window /\ x.seq <= ep'}
  BY <1>1
<1> QED BY <1>2 DEF ActiveAt

\* n is the evaluation; it is a constant, so that a prime does not reach it.
LEMMA StreakStep ==
  ASSUME QuorumTypeInv, NEW crossing \in SUBSET Columns, NEW peakOf \in [crossing -> Peaks],
         Evaluate(peakOf), NEW c \in KsGrid, WindowInv(c), StreakInv(c),
         NEW n \in Nat, n = ep + 1
  PROVE  StreakInv(c)' /\ (HeldAt(c, n)' <=> kernel'[c].streak >= persist)
<1> USE QuorumAssumption
<1>1. /\ ep' = n /\ ep \in Nat /\ ep' \in Nat /\ QuorumTypeInv'
      /\ persist' = persist /\ persist \in Nat \ {0} /\ n <= MaxPoint
  BY Recorded DEF QuorumTypeInv
<1>2. WindowInv(c)'
  BY WindowStep
<1>3. ActiveAt(c, n)' <=> Quorate({f \in Columns : kernel'[c].present[f] # {}})
  <2>1. ActiveAt(c, ep)' <=> ActiveAt(c, n)'
    BY <1>1 DEF ActiveAt
  <2> QED BY <1>1, <1>2, <2>1, CountedIsActive
<1>4. kernel'[c].streak = IF Quorate({f \in Columns : kernel'[c].present[f] # {}})
                          THEN kernel[c].streak + 1 ELSE 0
  BY DEF Evaluate, KernelStep
<1>5. \A r \in 1 .. ep : ActiveAt(c, r)' <=> ActiveAt(c, r)
  BY <1>1, PastKept
<1>6. /\ kernel[c].streak \in 0 .. ep
      /\ \A r \in 1 .. ep : r > ep - kernel[c].streak => ActiveAt(c, r)
      /\ \A r \in 1 .. ep : r = ep - kernel[c].streak => ~ActiveAt(c, r)
  BY DEF StreakInv
<1>7. /\ kernel'[c].streak \in 0 .. n
      /\ \A r \in 1 .. n : r > n - kernel'[c].streak => ActiveAt(c, r)'
      /\ \A r \in 1 .. n : r = n - kernel'[c].streak => ~ActiveAt(c, r)'
  <2>1. CASE ActiveAt(c, n)'
    <3>1. kernel'[c].streak = kernel[c].streak + 1
      BY <1>3, <1>4, <2>1
    <3>2. ASSUME NEW r \in 1 .. n, r > n - kernel'[c].streak
          PROVE  ActiveAt(c, r)'
      <4>1. CASE r = n
        BY <4>1, <2>1
      <4>2. CASE r \in 1 .. ep
        <5>1. r > ep - kernel[c].streak
          BY <3>1, <3>2, <1>1, <1>6
        <5> QED BY <4>2, <5>1, <1>5, <1>6
      <4> QED BY <4>1, <4>2, <1>1
    <3>3. ASSUME NEW r \in 1 .. n, r = n - kernel'[c].streak
          PROVE  ~ActiveAt(c, r)'
      <4>1. r = ep - kernel[c].streak /\ r \in 1 .. ep
        BY <3>1, <3>3, <1>1, <1>6
      <4> QED BY <4>1, <1>5, <1>6
    <3> QED BY <3>1, <3>2, <3>3, <1>1, <1>6
  <2>2. CASE ~ActiveAt(c, n)'
    <3>1. kernel'[c].streak = 0
      BY <1>3, <1>4, <2>2
    <3> QED BY <3>1, <2>2, <1>1
  <2> QED BY <2>1, <2>2
<1>8. StreakInv(c)'
  BY <1>1, <1>7 DEF StreakInv
<1>9. HeldAt(c, n)' <=> kernel'[c].streak >= persist
  <2>1. HeldAt(c, n)' <=> /\ n >= persist
                          /\ \A q \in 1 .. MaxPoint : n - persist < q /\ q <= n => ActiveAt(c, q)'
    BY <1>1 DEF HeldAt
  <2>2. CASE kernel'[c].streak >= persist
    BY <2>1, <2>2, <1>1, <1>7
  <2>3. CASE kernel'[c].streak < persist
    <3> SUFFICES ASSUME n >= persist
                 PROVE  \E q \in 1 .. MaxPoint : n - persist < q /\ q <= n /\ ~ActiveAt(c, q)'
      BY <2>1, <2>3, <1>1, <1>7
    <3>1. PICK q \in 1 .. n : q = n - kernel'[c].streak
      BY <2>3, <1>1, <1>7
    <3>2. ~ActiveAt(c, q)'
      BY <3>1, <1>7
    <3> QED BY <3>1, <3>2, <2>3, <1>1, <1>7
  <2> QED BY <2>2, <2>3, <1>1, <1>7
<1> QED BY <1>8, <1>9

\* The onsets, with the previous ones kept.
LEMMA OnsetStep ==
  ASSUME QuorumTypeInv, NEW crossing \in SUBSET Columns, NEW peakOf \in [crossing -> Peaks],
         Evaluate(peakOf), NEW c \in KsGrid,
         WindowInv(c), StreakInv(c), LastInv(c), OnsetInv(c),
         NEW n \in Nat, n = ep + 1
  PROVE  LastInv(c)' /\ OnsetInv(c)'
<1> USE QuorumAssumption
<1> DEFINE onset == kernel'[c].streak >= persist /\ n >= kernel[c].last + Cooldown
           O == kernel[c].onsets
           prev == kernel[c].last
<1>1. ep' = n /\ ep \in Nat /\ Cooldown \in Nat
  BY Recorded
<1>2. /\ kernel'[c].last = IF onset THEN n ELSE prev
      /\ kernel'[c].onsets = IF onset THEN O \cup {n} ELSE O
  BY DEF Evaluate, KernelStep
<1>3. HeldAt(c, n)' <=> kernel'[c].streak >= persist
  BY StreakStep
<1>4. \A r \in 1 .. ep : HeldAt(c, r)' <=> HeldAt(c, r)
  BY <1>1, PastKept
<1>5. /\ O \subseteq 1 .. ep
      /\ \/ O = {} /\ prev = Never
         \/ prev \in O /\ \A o \in O : o <= prev
  BY DEF LastInv
<1>6. /\ \A o \in O : HeldAt(c, o)
      /\ \A o, p \in O : o < p => p - o >= Cooldown
      /\ \A p \in 1 .. ep : HeldAt(c, p) => p \in O \/ \E o \in O : o < p /\ p - o < Cooldown
  BY DEF OnsetInv
<1>7. onset => \A o \in O : n - o >= Cooldown
  BY <1>1, <1>5
<1>8. ~onset /\ HeldAt(c, n)' => \E o \in O : o < n /\ n - o < Cooldown
  <2> SUFFICES ASSUME ~onset, HeldAt(c, n)'
               PROVE  \E o \in O : o < n /\ n - o < Cooldown
    OBVIOUS
  <2>1. prev \in Int /\ n < prev + Cooldown
    BY <1>3, <1>5, <1>1 DEF Never
  <2>2. prev \in O
    BY <2>1, <1>5, <1>1 DEF Never
  <2> QED BY <2>1, <2>2, <1>1, <1>5
<1> HIDE DEF onset, O, prev
<1>9. LastInv(c)'
  <2>1. CASE onset
    <3>1. kernel'[c].last = n /\ kernel'[c].onsets = O \cup {n}
      BY <2>1, <1>2
    <3>2. \A o \in O : o \in 1 .. n /\ o <= n
      BY <1>1, <1>5
    <3>3. kernel'[c].last \in kernel'[c].onsets /\ kernel'[c].onsets \subseteq 1 .. ep'
      BY <3>1, <3>2, <1>1
    <3>4. \A o \in kernel'[c].onsets : o <= kernel'[c].last
      BY <3>1, <3>2
    <3> QED BY <3>3, <3>4 DEF LastInv
  <2>2. CASE ~onset
    <3>1. kernel'[c].last = prev /\ kernel'[c].onsets = O
      BY <2>2, <1>2
    <3>2. O \subseteq 1 .. ep' /\ Never' = Never
      BY <1>1, <1>5 DEF Never
    <3> QED BY <3>1, <3>2, <1>5 DEF LastInv
  <2> QED BY <2>1, <2>2
<1>10. \A o \in kernel'[c].onsets : HeldAt(c, o)'
  <2>1. CASE onset
    <3>1. HeldAt(c, n)'
      BY <2>1, <1>3 DEF onset
    <3>2. \A o \in O : HeldAt(c, o)'
      BY <1>4, <1>5, <1>6
    <3> QED BY <3>1, <3>2, <2>1, <1>2
  <2>2. CASE ~onset
    BY <2>2, <1>2, <1>4, <1>5, <1>6
  <2> QED BY <2>1, <2>2
<1>11. \A o, p \in kernel'[c].onsets : o < p => p - o >= Cooldown
  <2>1. CASE onset
    <3>1. kernel'[c].onsets = O \cup {n} /\ \A o \in O : o \in 1 .. ep /\ n - o >= Cooldown
      BY <2>1, <1>2, <1>5, <1>7
    <3>2. \A o \in O : ~(n < o)
      BY <3>1, <1>1
    <3> QED BY <3>1, <3>2, <1>1, <1>6
  <2>2. CASE ~onset
    BY <2>2, <1>2, <1>6
  <2> QED BY <2>1, <2>2
<1>12. \A p \in 1 .. n : HeldAt(c, p)' =>
         p \in kernel'[c].onsets \/ \E o \in kernel'[c].onsets : o < p /\ p - o < Cooldown
  <2> TAKE p \in 1 .. n
  <2> HAVE HeldAt(c, p)'
  <2>1. CASE p = n
    BY <2>1, <1>2, <1>8
  <2>2. CASE p \in 1 .. ep
    BY <2>2, <1>2, <1>4, <1>6
  <2> QED BY <2>1, <2>2, <1>1
<1>13. OnsetInv(c)'
  BY <1>1, <1>10, <1>11, <1>12 DEF OnsetInv
<1> QED BY <1>9, <1>13

LEMMA StepIInv == QuorumIInv /\ [QuorumNext]_quorumVars => QuorumIInv'
<1> SUFFICES ASSUME QuorumIInv, [QuorumNext]_quorumVars PROVE QuorumIInv'
  OBVIOUS
<1>1. CASE QuorumNext
  <2>0. PICK crossing \in SUBSET Columns : \E peakOf \in [crossing -> Peaks] : Evaluate(peakOf)
    BY <1>1 DEF QuorumNext
  <2>1. PICK peakOf \in [crossing -> Peaks] : Evaluate(peakOf)
    BY <2>0
  <2>2. QuorumTypeInv
    BY DEF QuorumIInv
  <2>3. QuorumTypeInv'
    BY <2>1, <2>2, Recorded
  <2>4. PICK n \in Nat : n = ep + 1
    BY <2>2, QuorumAssumption DEF QuorumTypeInv
  <2>5. ASSUME NEW c \in KsGrid
        PROVE  WindowInv(c)' /\ StreakInv(c)' /\ LastInv(c)' /\ OnsetInv(c)'
    <3>1. WindowInv(c) /\ StreakInv(c) /\ LastInv(c) /\ OnsetInv(c)
      BY DEF QuorumIInv
    <3>2. WindowInv(c)'
      BY <2>1, <2>2, <3>1, WindowStep
    <3>3. StreakInv(c)'
      BY <2>1, <2>2, <2>4, <3>1, StreakStep
    <3>4. LastInv(c)' /\ OnsetInv(c)'
      BY <2>1, <2>2, <2>4, <3>1, OnsetStep
    <3> QED BY <3>2, <3>3, <3>4
  <2> QED BY <2>3, <2>5 DEF QuorumIInv
<1>2. CASE UNCHANGED quorumVars
  <2>1. UNCHANGED <<persist, ep, crossed, kernel, calib, phase1>>
    BY <1>2 DEF quorumVars
  <2>2. QuorumTypeInv'
    BY <2>1 DEF QuorumIInv, QuorumTypeInv
  <2>3. ASSUME NEW c \in KsGrid
        PROVE  WindowInv(c)' /\ StreakInv(c)' /\ LastInv(c)' /\ OnsetInv(c)'
    <3>1. WindowInv(c) /\ StreakInv(c) /\ LastInv(c) /\ OnsetInv(c)
      BY DEF QuorumIInv
    <3>2. \A p : ActiveAt(c, p)' = ActiveAt(c, p)
      BY <2>1 DEF ActiveAt
    <3>3. \A p : HeldAt(c, p)' <=> HeldAt(c, p)
      BY <2>1 DEF HeldAt, ActiveAt
    <3>4. WindowInv(c)'
      BY <2>1, <3>1 DEF WindowInv, SeenBy
    <3>5. StreakInv(c)'
      BY <2>1, <3>1, <3>2 DEF StreakInv
    <3>6. LastInv(c)'
      BY <2>1, <3>1 DEF LastInv
    <3>7. OnsetInv(c)'
      BY <2>1, <3>1, <3>3 DEF OnsetInv
    <3> QED BY <3>4, <3>5, <3>6, <3>7
  <2> QED BY <2>2, <2>3 DEF QuorumIInv
<1> QED BY <1>1, <1>2

\* Whatever the crossings and the parameters of the sweep, _quorum_onsets
\* reports the greedy choice among the points with a held quorum.
THEOREM QuorumCorrect == QuorumSpec => []OnsetsAreHeldQuorums
<1>1. QuorumIInv => OnsetsAreHeldQuorums
  <2> SUFFICES ASSUME QuorumIInv, NEW c \in KsGrid
               PROVE  /\ \A o \in kernel[c].onsets : o \in 1 .. ep /\ HeldAt(c, o)
                      /\ \A o, p \in kernel[c].onsets : o < p => p - o >= Cooldown
                      /\ \A p \in 1 .. ep : HeldAt(c, p) =>
                           p \in kernel[c].onsets
                             \/ \E o \in kernel[c].onsets : o < p /\ p - o < Cooldown
    BY DEF OnsetsAreHeldQuorums
  <2> QED BY DEF QuorumIInv, LastInv, OnsetInv
<1> QED BY <1>1, InitQuorumIInv, StepIInv, PTL DEF QuorumSpec

(***************************************************************************)
(* The other two aggregators look back only when something crosses; then   *)
(* their windows hold exactly what crossed within Window evaluations.      *)
(***************************************************************************)

Edge(x) == [seq |-> x.seq, feature |-> x.feature]
CrossedAs(C, c, w) == \E x \in C : x.peak >= c /\ w = Edge(x)

\* The window W of an aggregator, of crossings C that pass the gate c, at e.
EdgeWindow(W, C, c, e) ==
  /\ IsFiniteSet(W)
  /\ \A w \in W : CrossedAs(C, c, w)
  /\ \A x \in C : x.peak >= c /\ x.seq >= e - Window => Edge(x) \in W

\* What both aggregators make of their window at evaluation p.
Walked(W, p, new) ==
  {w \in W : w.seq >= p - Window} \cup {[seq |-> p, feature |-> f] : f \in new}

\* The features that ActiveAt counts.
ActiveFeatures(c, p) ==
  {f \in Columns : \E x \in crossed :
     /\ x.feature = f /\ x.peak >= c /\ x.seq >= p - Window /\ x.seq <= p}

LEMMA NewEdges ==
  ASSUME QuorumTypeInv, NEW crossing \in SUBSET Columns, NEW peakOf \in [crossing -> Peaks],
         Evaluate(peakOf), NEW c \in Nat,
         NEW new, new = Passing(peakOf, c), NEW p, p = ep + 1
  PROVE  /\ new \in SUBSET Columns
         /\ IsFiniteSet({[seq |-> p, feature |-> f] : f \in new})
         /\ \A f \in new : CrossedAs(crossed', c, [seq |-> p, feature |-> f])
         /\ \A x \in crossed' : x.peak >= c /\ x \notin crossed =>
              x.seq = p /\ x.feature \in new
<1> DEFINE Made(f) == [feature |-> f, seq |-> p, peak |-> peakOf[f]]
           edges == {[seq |-> p, feature |-> f] : f \in new}
           h == [f \in new |-> [seq |-> p, feature |-> f]]
<1>1. new \in SUBSET Columns /\ \A f : f \in new <=> f \in crossing /\ peakOf[f] >= c
  BY DEF Passing
<1>2. crossed' = crossed \cup {Made(f) : f \in crossing}
  BY DEF Evaluate
<1>3. IsFiniteSet(edges)
  <2>1. IsFiniteSet(new)
    BY <1>1, QuorumAssumption, FS_Subset
  <2>2. h \in Surjection(new, edges)
    BY DEF Surjection
  <2> HIDE DEF h, edges
  <2> QED
    BY <2>1, <2>2, FS_Surjection
<1>4. ASSUME NEW f \in new PROVE CrossedAs(crossed', c, [seq |-> p, feature |-> f])
  <2>1. Made(f) \in crossed' /\ Made(f).peak >= c
    BY <1>1, <1>2
  <2>2. Edge(Made(f)) = [seq |-> p, feature |-> f]
    BY DEF Edge
  <2> HIDE DEF Made
  <2> QED
    BY <2>1, <2>2 DEF CrossedAs
<1>5. ASSUME NEW x \in crossed', x.peak >= c, x \notin crossed
      PROVE  x.seq = p /\ x.feature \in new
  <2>1. PICK f \in crossing : x = Made(f)
    BY <1>2, <1>5
  <2>2. x.seq = p /\ x.feature = f /\ x.peak = peakOf[f]
    BY <2>1
  <2> QED
    BY <1>1, <1>5, <2>1, <2>2
<1> QED
  BY <1>1, <1>3, <1>4, <1>5

\* The window is right again, and when something crossed it holds the edges of
\* exactly the features that are active.
LEMMA WindowWalks ==
  ASSUME QuorumTypeInv, NEW crossing \in SUBSET Columns, NEW peakOf \in [crossing -> Peaks],
         Evaluate(peakOf), NEW c \in Nat, NEW W, EdgeWindow(W, crossed, c, ep),
         NEW new, new = Passing(peakOf, c), NEW p \in Nat, p = ep + 1
  PROVE  /\ new = {} => EdgeWindow(W, crossed', c, ep')
         /\ EdgeWindow(Walked(W, p, new), crossed', c, ep')
         /\ {w.feature : w \in Walked(W, p, new)} = ActiveFeatures(c, p)'
<1>1. /\ ep' = p /\ ep \in Nat /\ crossed \subseteq crossed' /\ QuorumTypeInv'
      /\ \A x \in crossed' : x \in crossed \/ x.seq = p
  BY Recorded
<1>2. /\ new \in SUBSET Columns
      /\ IsFiniteSet({[seq |-> p, feature |-> f] : f \in new})
      /\ \A f \in new : CrossedAs(crossed', c, [seq |-> p, feature |-> f])
      /\ \A x \in crossed' : x.peak >= c /\ x \notin crossed =>
              x.seq = p /\ x.feature \in new
  BY NewEdges
<1>3. /\ IsFiniteSet(W) /\ \A w \in W : CrossedAs(crossed, c, w)
      /\ \A x \in crossed : x.peak >= c /\ x.seq >= ep - Window => Edge(x) \in W
  BY DEF EdgeWindow
<1>4. \A w \in W : CrossedAs(crossed', c, w)
  BY <1>1, <1>3 DEF CrossedAs
<1>5. \A x \in crossed' : x.seq \in Nat /\ x.seq <= p /\ x.feature \in Columns
  BY <1>1 DEF QuorumTypeInv, Crossing
<1>6. Window \in Nat
  BY QuorumAssumption
<1>7. \A x \in crossed : x.peak >= c /\ x.seq >= p - Window => Edge(x) \in W
  BY <1>1, <1>3, <1>5, <1>6
<1>8. ASSUME new = {} PROVE EdgeWindow(W, crossed', c, ep')
  <2>1. ASSUME NEW x \in crossed', x.peak >= c, x.seq >= p - Window PROVE Edge(x) \in W
    BY <1>2, <1>7, <1>8, <2>1
  <2> QED
    BY <1>1, <1>3, <1>4, <2>1 DEF EdgeWindow
<1> DEFINE walked == Walked(W, p, new)
<1>9. \A w : w \in walked <=> (w \in W /\ w.seq >= p - Window)
                              \/ \E f \in new : w = [seq |-> p, feature |-> f]
  BY DEF Walked
<1>10. IsFiniteSet(walked)
  <2>1. IsFiniteSet({w \in W : w.seq >= p - Window})
    BY <1>3, FS_Subset
  <2> QED
    BY <1>2, <2>1, FS_Union DEF Walked
<1> HIDE DEF walked
<1>11. \A w \in walked : CrossedAs(crossed', c, w)
  BY <1>2, <1>4, <1>9
<1>12. ASSUME NEW x \in crossed', x.peak >= c, x.seq >= p - Window PROVE Edge(x) \in walked
  <2>1. CASE x \in crossed
    <3>1. Edge(x) \in W /\ Edge(x).seq = x.seq
      BY <1>7, <1>12, <2>1 DEF Edge
    <3> QED
      BY <1>9, <1>12, <3>1
  <2>2. CASE x \notin crossed
    <3>1. x.seq = p /\ x.feature \in new
      BY <1>2, <1>12, <2>2
    <3> QED
      BY <1>9, <3>1 DEF Edge
  <2> QED
    BY <2>1, <2>2
<1>13. EdgeWindow(walked, crossed', c, ep')
  BY <1>1, <1>10, <1>11, <1>12 DEF EdgeWindow
<1>14. ASSUME NEW w \in walked PROVE w.feature \in ActiveFeatures(c, p)'
  <2>1. PICK x \in crossed' : x.peak >= c /\ w = Edge(x)
    BY <1>11 DEF CrossedAs
  <2>2. w.feature = x.feature /\ w.seq = x.seq
    BY <2>1 DEF Edge
  <2>3. w.seq >= p - Window
    <3>1. CASE w \in W /\ w.seq >= p - Window
      BY <3>1
    <3>2. CASE \E f \in new : w = [seq |-> p, feature |-> f]
      BY <1>6, <3>2
    <3> QED
      BY <1>9, <3>1, <3>2
  <2> QED
    BY <1>5, <2>1, <2>2, <2>3 DEF ActiveFeatures
<1>15. ASSUME NEW f \in ActiveFeatures(c, p)' PROVE \E w \in walked : f = w.feature
  <2>1. PICK x \in crossed' : x.feature = f /\ x.peak >= c /\ x.seq >= p - Window
    BY DEF ActiveFeatures
  <2>2. Edge(x) \in walked /\ Edge(x).feature = f
    BY <1>12, <2>1 DEF Edge
  <2> QED
    BY <2>2
<1>16. {w.feature : w \in walked} = ActiveFeatures(c, p)'
  BY <1>14, <1>15
<1> QED
  BY <1>8, <1>13, <1>16 DEF walked

LEMMA ActiveColumns ==
  ASSUME NEW c, NEW p
  PROVE  /\ ActiveAt(c, p) <=> Quorate(ActiveFeatures(c, p))
         /\ ActiveFeatures(c, p) \in SUBSET Columns /\ IsFiniteSet(ActiveFeatures(c, p))
<1>1. ActiveFeatures(c, p) \in SUBSET Columns
  BY DEF ActiveFeatures
<1> QED
  BY <1>1, QuorumAssumption, FS_Subset DEF ActiveAt, ActiveFeatures

\* Nothing becomes active when nothing crosses.
LEMMA QuietStaysQuiet ==
  ASSUME QuorumTypeInv, NEW crossing \in SUBSET Columns, NEW peakOf \in [crossing -> Peaks],
         Evaluate(peakOf), NEW c \in Nat, Passing(peakOf, c) = {}, NEW p \in Nat, p = ep + 1,
         ActiveAt(c, p)'
  PROVE  ep \in 1 .. ep /\ ActiveAt(c, ep)
<1>1. ep \in Nat /\ \A x \in crossed : x.seq \in Nat /\ x.seq >= 1 /\ x.seq <= ep
  BY Recorded DEF QuorumTypeInv, Crossing
<1>2. \A x \in crossed' : x.peak >= c => x \in crossed
  BY NewEdges
<1>3. Window \in Nat /\ Distinct \in Nat \ {0}
  BY QuorumAssumption
<1>4. ActiveFeatures(c, p)' \in SUBSET ActiveFeatures(c, ep)
  BY <1>1, <1>2, <1>3 DEF ActiveFeatures
<1>5. Quorate(ActiveFeatures(c, p))'
  BY ActiveColumns DEF ActiveAt, ActiveFeatures
<1>6. PICK A, B : A = ActiveFeatures(c, p)' /\ B = ActiveFeatures(c, ep)
  OBVIOUS
<1>7. IsFiniteSet(B) /\ A \in SUBSET B
  BY <1>4, <1>6, ActiveColumns
<1>8. /\ Cardinality(A) \in Nat /\ Cardinality(B) \in Nat
      /\ Cardinality(A) <= Cardinality(B) /\ Cardinality(A) >= Distinct
  BY <1>5, <1>6, <1>7, FS_Subset, FS_CardinalityType DEF Quorate
<1>9. ActiveAt(c, ep)
  BY <1>3, <1>6, <1>8, ActiveColumns DEF Quorate
<1>10. B # {}
  BY <1>3, <1>8, FS_EmptySet
<1>11. crossed # {}
  BY <1>6, <1>10 DEF ActiveFeatures
<1> QED
  BY <1>1, <1>9, <1>11

\* No quorum is before the first of the onsets.
Answers(os, c) == \A q \in 1 .. ep : ActiveAt(c, q) => \E o \in os : o <= q

LEMMA AnswersStep ==
  ASSUME QuorumTypeInv, NEW crossing \in SUBSET Columns, NEW peakOf \in [crossing -> Peaks],
         Evaluate(peakOf), NEW c \in Nat, NEW p \in Nat, p = ep + 1,
         NEW old \in SUBSET (1 .. ep), Answers(old, c), NEW os, old \subseteq os,
         old = {} /\ Passing(peakOf, c) # {} /\ ActiveAt(c, p)' => p \in os
  PROVE  \A q \in 1 .. p : ActiveAt(c, q)' => \E o \in os : o <= q
<1>1. ep \in Nat
  BY Recorded
<1>2. ASSUME NEW q \in 1 .. ep, ActiveAt(c, q)' PROVE \E o \in os : o <= q
  <2>1. ActiveAt(c, q)
    BY <1>1, <1>2, PastKept
  <2> QED
    BY <2>1 DEF Answers
<1>3. ASSUME ActiveAt(c, p)' PROVE \E o \in os : o <= p
  <2>1. CASE old # {}
    <3>1. PICK o \in old : TRUE
      BY <2>1
    <3>2. o \in 1 .. ep /\ o \in os
      BY <3>1
    <3> QED
      BY <1>1, <3>2
  <2>2. CASE old = {} /\ Passing(peakOf, c) # {}
    BY <1>3, <2>2
  <2>3. CASE old = {} /\ Passing(peakOf, c) = {}
    <3>1. ep \in 1 .. ep /\ ActiveAt(c, ep)
      BY <1>3, <2>3, QuietStaysQuiet
    <3> QED
      BY <2>3, <3>1 DEF Answers
  <2> QED
    BY <2>1, <2>2, <2>3
<1>4. ASSUME NEW q \in 1 .. p PROVE q \in 1 .. ep \/ q = p
  BY <1>1
<1> QED
  BY <1>2, <1>3, <1>4

CalibInv(c) ==
  /\ EdgeWindow(calib[c].window, crossed, c, ep)
  /\ calib[c].committed \subseteq 1 .. ep /\ Answers(calib[c].committed, c)
  /\ calib[c].committed = {} => calib[c].last = Never

Phase1Inv ==
  /\ EdgeWindow(phase1.window, crossed, 0, ep)
  /\ phase1.onsets \subseteq 1 .. ep /\ Answers(phase1.onsets, 0)
  /\ \A o \in phase1.onsets : ActiveAt(0, o)
  /\ phase1.onsets = {} => ~phase1.armed

AggregatorInv == (\A c \in KsGrid : CalibInv(c)) /\ Phase1Inv

LEMMA InitAggregators == QuorumInit => AggregatorInv
<1> SUFFICES ASSUME QuorumInit PROVE AggregatorInv
  OBVIOUS
<1>1. crossed = {} /\ ep = 0
  BY DEF QuorumInit
<1>2. EdgeWindow({}, crossed, 0, ep) /\ \A c \in KsGrid : EdgeWindow({}, crossed, c, ep)
  BY <1>1, FS_EmptySet DEF EdgeWindow
<1>3. \A c : Answers({}, c)
  BY <1>1 DEF Answers
<1>4. \A c \in KsGrid : CalibInv(c)
  BY <1>2, <1>3 DEF QuorumInit, CalibInv
<1>5. Phase1Inv
  BY <1>2, <1>3 DEF QuorumInit, Phase1Inv
<1> QED
  BY <1>4, <1>5 DEF AggregatorInv

\* Several events of a feature count more, never less, than the feature.
LEMMA EventsOfFeatures ==
  ASSUME NEW W, IsFiniteSet(W)
  PROVE  /\ Cardinality(W) \in Nat /\ Cardinality({w.feature : w \in W}) \in Nat
         /\ Cardinality({w.feature : w \in W}) <= Cardinality(W)
<1> DEFINE F == {w.feature : w \in W}
           h == [w \in W |-> w.feature]
<1>1. h \in Surjection(W, F)
  BY DEF Surjection
<1> HIDE DEF F, h
<1>2. IsFiniteSet(F) /\ Cardinality(F) <= Cardinality(W)
  BY <1>1, FS_Surjection
<1> QED
  BY <1>2, FS_CardinalityType DEF F

LEMMA CalibKept ==
  ASSUME QuorumTypeInv, NEW crossing \in SUBSET Columns, NEW peakOf \in [crossing -> Peaks],
         Evaluate(peakOf), NEW c \in KsGrid, CalibInv(c), NEW p \in Nat, p = ep + 1
  PROVE  CalibInv(c)'
<1> DEFINE a == calib[c]
           new == Passing(peakOf, c)
           walked == Walked(a.window, p, new)
           commit == new # {} /\ Cardinality(walked) >= Distinct /\ p - a.last > Cooldown
<1>1. /\ p \in Nat /\ ep' = p /\ ep \in Nat /\ c \in Nat
      /\ Distinct \in Nat \ {0} /\ Cooldown \in Nat
  BY Recorded, QuorumAssumption
<1>2. EdgeWindow(a.window, crossed, c, ep)
  BY DEF CalibInv
<1>3. /\ new = {} => EdgeWindow(a.window, crossed', c, ep')
      /\ EdgeWindow(walked, crossed', c, ep')
      /\ {w.feature : w \in walked} = ActiveFeatures(c, p)'
  BY <1>1, <1>2, WindowWalks
<1>4. calib'[c] = IF new = {} THEN a
                  ELSE [window |-> walked, last |-> IF commit THEN p ELSE a.last,
                        committed |-> IF commit THEN a.committed \cup {p} ELSE a.committed]
  <2>1. calib'[c] = CalibStep(a, p, new)
    BY DEF Evaluate
  <2>2. {w \in a.window : w.seq \in Evicted({v.seq : v \in a.window}, p)}
          = {w \in a.window : w.seq >= p - Window}
    BY DEF Evicted
  <2> QED
    BY <2>1, <2>2 DEF CalibStep, Walked
<1> HIDE DEF walked, new
<1>5. ActiveAt(c, p)' => Cardinality(walked) >= Distinct
  <2>1. IsFiniteSet(walked)
    BY <1>3 DEF EdgeWindow
  <2>2. PICK A : A = {w.feature : w \in walked}
    OBVIOUS
  <2>3. Cardinality(A) \in Nat /\ Cardinality(walked) \in Nat /\ Cardinality(A) <= Cardinality(walked)
    BY <2>1, <2>2, EventsOfFeatures
  <2>4. ActiveAt(c, p)' => Quorate(ActiveFeatures(c, p)')
    BY ActiveColumns DEF ActiveAt, ActiveFeatures, Quorate
  <2>5. A = ActiveFeatures(c, p)'
    BY <1>3, <2>2
  <2>6. ActiveAt(c, p)' => Cardinality(A) >= Distinct
    BY <2>4, <2>5 DEF Quorate
  <2> QED
    BY <1>1, <2>3, <2>6
<1>6. a.committed = {} => p - a.last > Cooldown
  BY <1>1 DEF CalibInv, Never
<1>7. a.committed \in SUBSET (1 .. ep) /\ Answers(a.committed, c)
  BY DEF CalibInv
<1>8. PICK os : os = calib'[c].committed
  OBVIOUS
<1>9. os = IF new # {} /\ commit THEN a.committed \cup {p} ELSE a.committed
  BY <1>4, <1>8
<1>10. a.committed \subseteq os /\ os \subseteq 1 .. p
  BY <1>1, <1>7, <1>9
<1>11. a.committed = {} /\ new # {} /\ ActiveAt(c, p)' => p \in os
  BY <1>5, <1>6, <1>9
<1>12. \A q \in 1 .. p : ActiveAt(c, q)' => \E o \in os : o <= q
  BY <1>1, <1>7, <1>10, <1>11, AnswersStep DEF new
<1>13. Answers(calib[c].committed, c)'
  BY <1>1, <1>8, <1>12 DEF Answers
<1>14. EdgeWindow(calib[c].window, crossed, c, ep)'
  BY <1>3, <1>4
<1>15. os = {} => calib'[c].last = Never'
  BY <1>4, <1>9 DEF CalibInv, Never
<1> QED
  BY <1>1, <1>8, <1>10, <1>13, <1>14, <1>15 DEF CalibInv

LEMMA Phase1Kept ==
  ASSUME QuorumTypeInv, NEW crossing \in SUBSET Columns, NEW peakOf \in [crossing -> Peaks],
         Evaluate(peakOf), Phase1Inv, NEW p \in Nat, p = ep + 1
  PROVE  Phase1Inv'
<1> DEFINE a == phase1
           new == Passing(peakOf, 0)
           walked == Walked(a.window, p, new)
           first == {w.feature : w \in {v \in a.window : v.seq >= p - Window}} \cup {Min(new)}
           reached == Quorate({w.feature : w \in walked})
           onset == new # {} /\ reached /\ ~(a.armed /\ Quorate(first))
<1>1. p \in Nat /\ ep' = p /\ ep \in Nat /\ 0 \in Nat
  BY Recorded
<1>2. EdgeWindow(a.window, crossed, 0, ep)
  BY DEF Phase1Inv
<1>3. /\ new = {} => EdgeWindow(a.window, crossed', 0, ep')
      /\ EdgeWindow(walked, crossed', 0, ep')
      /\ {w.feature : w \in walked} = ActiveFeatures(0, p)'
  BY <1>1, <1>2, WindowWalks
<1>4. new = DOMAIN peakOf
  <2>1. \A f \in DOMAIN peakOf : peakOf[f] \in Nat
    BY QuorumAssumption
  <2>2. \A f \in DOMAIN peakOf : peakOf[f] >= 0
    BY <2>1
  <2> QED
    BY <2>2 DEF Passing
<1>5. phase1' = IF new = {} THEN a
                ELSE [window |-> walked, armed |-> reached,
                      onsets |-> IF onset THEN a.onsets \cup {p} ELSE a.onsets]
  <2>1. phase1' = Phase1Step(a, p, new)
    BY <1>4 DEF Evaluate
  <2> HIDE DEF new
  <2> QED
    BY <2>1 DEF Phase1Step, Walked
<1>6. ActiveAt(0, p)' <=> reached
  <2>1. ActiveAt(0, p)' <=> Quorate(ActiveFeatures(0, p)')
    BY ActiveColumns DEF ActiveAt, ActiveFeatures, Quorate
  <2> QED
    BY <1>3, <2>1
<1>7. a.onsets \in SUBSET (1 .. ep) /\ Answers(a.onsets, 0)
  BY DEF Phase1Inv
<1> HIDE DEF walked, new, first
<1>8. PICK os : os = phase1'.onsets
  OBVIOUS
<1>9. os = IF onset THEN a.onsets \cup {p} ELSE a.onsets
  BY <1>5, <1>8
<1>10. a.onsets \subseteq os /\ os \subseteq 1 .. p
  BY <1>1, <1>7, <1>9
<1>11. a.onsets = {} => ~a.armed
  BY DEF Phase1Inv
<1>12. a.onsets = {} /\ new # {} /\ ActiveAt(0, p)' => p \in os
  BY <1>6, <1>9, <1>11
<1>13. \A q \in 1 .. p : ActiveAt(0, q)' => \E o \in os : o <= q
  BY <1>1, <1>7, <1>10, <1>12, AnswersStep DEF new
<1>14. Answers(phase1.onsets, 0)'
  BY <1>1, <1>8, <1>13 DEF Answers
<1>15. ASSUME NEW o \in os PROVE ActiveAt(0, o)'
  <2>1. CASE o \in a.onsets
    <3>1. ActiveAt(0, o) /\ o \in Nat /\ o <= ep
      BY <1>1, <1>7, <2>1 DEF Phase1Inv
    <3> QED
      BY <3>1, PastKept
  <2>2. CASE o = p /\ onset
    BY <1>6, <2>2
  <2> QED
    BY <1>9, <2>1, <2>2
<1>16. os = {} => ~phase1'.armed
  <2>1. CASE new = {}
    BY <1>5, <1>9, <1>11, <2>1
  <2>2. CASE new # {}
    BY <1>5, <1>9, <1>11, <2>2
  <2> QED
    BY <2>1, <2>2
<1>17. EdgeWindow(phase1.window, crossed, 0, ep)'
  BY <1>3, <1>5
<1> QED
  BY <1>1, <1>8, <1>10, <1>14, <1>15, <1>16, <1>17 DEF Phase1Inv

LEMMA AggregatorStep ==
  QuorumIInv /\ AggregatorInv /\ [QuorumNext]_quorumVars => AggregatorInv'
<1> SUFFICES ASSUME QuorumIInv, AggregatorInv, [QuorumNext]_quorumVars PROVE AggregatorInv'
  OBVIOUS
<1>1. CASE QuorumNext
  <2>0. PICK crossing \in SUBSET Columns : \E peakOf \in [crossing -> Peaks] : Evaluate(peakOf)
    BY <1>1 DEF QuorumNext
  <2>1. PICK peakOf \in [crossing -> Peaks] : Evaluate(peakOf)
    BY <2>0
  <2>2. QuorumTypeInv
    BY DEF QuorumIInv
  <2>5. PICK p \in Nat : p = ep + 1
    BY <2>2, QuorumAssumption DEF QuorumTypeInv
  <2>3. ASSUME NEW c \in KsGrid PROVE CalibInv(c)'
    <3>1. CalibInv(c)
      BY DEF AggregatorInv
    <3> QED
      BY <2>1, <2>2, <2>5, <3>1, CalibKept
  <2>4. Phase1Inv'
    <3>1. Phase1Inv
      BY DEF AggregatorInv
    <3> QED
      BY <2>1, <2>2, <2>5, <3>1, Phase1Kept
  <2> QED
    BY <2>3, <2>4 DEF AggregatorInv
<1>2. CASE UNCHANGED quorumVars
  BY <1>2 DEF quorumVars, AggregatorInv, CalibInv, Phase1Inv, EdgeWindow, Answers, ActiveAt, Never
<1> QED
  BY <1>1, <1>2

LEMMA NeverLater == QuorumIInv /\ AggregatorInv => CalibrationNeverLater
<1> SUFFICES ASSUME QuorumIInv, AggregatorInv, NEW c \in KsGrid, kernel[c].onsets # {}
             PROVE  /\ calib[c].committed # {}
                    /\ Min(calib[c].committed) <= Min(kernel[c].onsets)
  BY DEF CalibrationNeverLater
<1>1. PICK O, C : O = kernel[c].onsets /\ C = calib[c].committed
  OBVIOUS
<1>2. /\ ep \in 0 .. MaxPoint /\ persist \in Nat \ {0} /\ MaxPoint \in Nat
      /\ O \in SUBSET (1 .. ep) /\ O # {} /\ C \in SUBSET (1 .. ep) /\ Answers(C, c)
      /\ \A o \in O : HeldAt(c, o)
  BY <1>1, QuorumAssumption
     DEF QuorumIInv, QuorumTypeInv, LastInv, OnsetInv, AggregatorInv, CalibInv
<1>3. Min(O) \in O
  <2>1. O \in SUBSET Nat
    BY <1>2
  <2> QED
    BY <1>2, <2>1, MinIsLeast
<1>4. PICK o \in O : o = Min(O)
  BY <1>3
<1>5. o \in 1 .. ep /\ o \in 1 .. MaxPoint /\ o - persist < o
  BY <1>2
<1>6. ActiveAt(c, o)
  BY <1>2, <1>5 DEF HeldAt
<1>7. PICK m \in C : m <= o
  BY <1>2, <1>5, <1>6 DEF Answers
<1>8. C \in SUBSET Nat /\ C # {}
  BY <1>2, <1>7
<1>9. Min(C) \in Nat /\ Min(C) <= m
  BY <1>7, <1>8, MinIsLeast
<1>10. Min(C) <= o
  BY <1>5, <1>7, <1>8, <1>9
<1> QED
  BY <1>1, <1>4, <1>8, <1>10

LEMMA FirstQuorum == AggregatorInv /\ QuorumTypeInv => Phase1IsAQuorum
<1> SUFFICES ASSUME AggregatorInv, QuorumTypeInv PROVE Phase1IsAQuorum
  OBVIOUS
<1>1. PICK O : O = phase1.onsets
  OBVIOUS
<1>2. /\ O \in SUBSET (1 .. ep) /\ Answers(O, 0) /\ \A o \in O : ActiveAt(0, o)
  BY <1>1 DEF AggregatorInv, Phase1Inv
<1>3. ep \in Nat
  BY QuorumAssumption DEF QuorumTypeInv
<1>4. O \in SUBSET Nat
  BY <1>2, <1>3
<1>5. ASSUME NEW p \in 1 .. ep, ActiveAt(0, p) PROVE O # {} /\ Min(O) <= p
  <2>1. PICK o \in O : o <= p
    BY <1>2, <1>5 DEF Answers
  <2>2. Min(O) \in Nat /\ Min(O) <= o
    BY <1>4, <2>1, MinIsLeast
  <2> QED
    BY <1>3, <1>4, <1>5, <2>1, <2>2
<1> QED
  BY <1>1, <1>2, <1>5 DEF Phase1IsAQuorum

LEMMA SameMeasures == QuorumIInv => MeasuresAgree
<1> SUFFICES ASSUME QuorumIInv, NEW c \in KsGrid, \A d \in Labelled : d.end = d.start
             PROVE  LET m == LabeledMetrics(kernel[c].onsets)
                        s == Score(kernel[c].onsets, {d.start : d \in Labelled})
                    IN  /\ Cardinality(m.hits) = s.recalled
                        /\ Cardinality(kernel[c].onsets) - Cardinality(m.false) = s.good
  BY DEF MeasuresAgree
<1>1. PICK O : O = kernel[c].onsets
  OBVIOUS
<1> DEFINE points == {d.start : d \in Labelled}
           hits == {d \in Labelled : HitBy(d, O) # {}}
           hit == UNION {HitBy(d, O) : d \in Labelled}
           recalled == {p \in points : \E o \in O : o \in p - Tau .. p + Tau}
           good == {o \in O : \E p \in points : o \in p - Tau .. p + Tau}
           h == [d \in hits |-> d.start]
<1>2. ep \in Nat /\ O \in SUBSET (1 .. ep)
  BY <1>1, QuorumAssumption DEF QuorumIInv, QuorumTypeInv, LastInv
<1>3. IsFiniteSet(O) /\ O \in SUBSET Nat
  <2>1. IsFiniteSet(1 .. ep)
    BY <1>2, FS_Interval
  <2>2. IsFiniteSet(O)
    BY <1>2, <2>1, FS_Subset
  <2>3. O \in SUBSET Nat
    BY <1>2
  <2> QED
    BY <2>2, <2>3
<1>4. /\ Tau \in Nat /\ IsFiniteSet(Labelled)
      /\ \A d \in Labelled : d \in [start : Nat, end : Nat] /\ d.end = d.start /\ d.start \in Nat
  BY QuorumAssumption
<1>5. \A d \in Labelled : \A o \in O : o \in HitBy(d, O) <=> o \in d.start - Tau .. d.start + Tau
  BY <1>3, <1>4 DEF HitBy
<1>6. \A d \in Labelled : HitBy(d, O) \subseteq O
  BY DEF HitBy
<1>7. Cardinality(hits) = Cardinality(recalled)
  <2>1. IsFiniteSet(hits)
    BY <1>4, FS_Subset
  <2>2. \A d \in hits : h[d] = d.start /\ d.start \in recalled
    BY <1>5, <1>6
  <2>3. \A d \in hits : \A e \in hits : h[d] = h[e] => d = e
    BY <1>4
  <2>4. \A p \in recalled : \E d \in hits : h[d] = p
    BY <1>5
  <2>5. h \in Bijection(hits, recalled)
    <3>1. h \in [hits -> recalled]
      BY <2>2
    <3> HIDE DEF h, hits, recalled
    <3> QED
      BY <2>3, <2>4, <3>1 DEF Bijection, Injection, IsInjective, Surjection
  <2> HIDE DEF h, hits, recalled
  <2> QED
    BY <2>1, <2>5, FS_Bijection DEF ExistsBijection
<1>8. good = O \cap hit
  BY <1>5, <1>6
<1>9. Cardinality(O) - Cardinality(O \ hit) = Cardinality(good)
  <2> HIDE DEF hit, good
  <2>1. Cardinality(O) \in Nat /\ Cardinality(O \cap hit) \in Nat
    BY <1>3, FS_Intersection, FS_CardinalityType
  <2>2. Cardinality(O \ hit) = Cardinality(O) - Cardinality(O \cap hit)
    BY <1>3, FS_Difference
  <2> QED
    BY <1>8, <2>1, <2>2
<1>10. /\ LabeledMetrics(O).hits = hits /\ LabeledMetrics(O).false = O \ hit
       /\ Score(O, points).recalled = Cardinality(recalled)
       /\ Score(O, points).good = Cardinality(good)
  BY DEF LabeledMetrics, Score
<1> QED
  BY <1>1, <1>7, <1>9, <1>10

\* The calibration's aggregator never waits longer for its first onset than the
\* prototype's, phase 1 starts where the first quorum is, and the two measures
\* of the onsets agree on drifts at one point, whatever crosses.
THEOREM AggregatorsCompare == QuorumSpec => []AggregatorsAgree
<1>1. QuorumIInv /\ AggregatorInv => AggregatorsAgree
  <2>1. QuorumIInv => QuorumTypeInv
    BY DEF QuorumIInv
  <2> QED
    BY <2>1, NeverLater, FirstQuorum, SameMeasures DEF AggregatorsAgree
<1> QED
  BY <1>1, InitQuorumIInv, StepIInv, InitAggregators, AggregatorStep, PTL DEF QuorumSpec

(***************************************************************************)
(* OfflineAlignment: the degradation of the frozen forest and the verdict. *)
(***************************************************************************)

AlignTypeInv ==
  /\ preEnd \in Nat \ {0} /\ delta \in Nat /\ delta >= GtDelta
  /\ aucs \in Seq(AucValues)
  /\ aggOnsets \in [AlignKs -> SUBSET (1 .. 2 * Len(aucs))]

LEMMA AlignTypes == AlignmentSpec => []AlignTypeInv
<1>1. AlignmentInit => AlignTypeInv
  BY AlignmentAssumption DEF AlignmentInit, AlignTypeInv
<1>2. AlignTypeInv /\ [AlignmentNext]_alignmentVars => AlignTypeInv'
  <2> SUFFICES ASSUME AlignTypeInv, [AlignmentNext]_alignmentVars PROVE AlignTypeInv'
    OBVIOUS
  <2>1. CASE AlignmentNext
    <3>1. PICK a \in AucValues, firing \in SUBSET AlignKs : SlideWindow(a, firing)
      BY <2>1 DEF AlignmentNext
    <3>2. aucs' \in Seq(AucValues) /\ Len(aucs) \in Nat /\ Len(aucs') = Len(aucs) + 1
      BY <3>1 DEF SlideWindow, AlignTypeInv
    <3>3. PICK n \in Nat : n = Len(aucs) /\ n + 1 = Len(aucs')
      BY <3>2
    <3>4. Center(Len(aucs) + 1) \in 1 .. 2 * (n + 1) /\ 1 .. 2 * n \subseteq 1 .. 2 * (n + 1)
      BY <3>3 DEF Center
    <3>5. ASSUME NEW k \in AlignKs PROVE aggOnsets'[k] \in SUBSET (1 .. 2 * (n + 1))
      <4>1. aggOnsets[k] \in SUBSET (1 .. 2 * n)
        BY <3>3 DEF AlignTypeInv
      <4>2. \/ aggOnsets'[k] = aggOnsets[k] \cup {Center(Len(aucs) + 1)}
            \/ aggOnsets'[k] = aggOnsets[k]
        BY <3>1 DEF SlideWindow
      <4> QED
        BY <3>4, <4>1, <4>2
    <3>6. aggOnsets' \in [AlignKs -> SUBSET (1 .. 2 * Len(aucs'))]
      <4>1. DOMAIN aggOnsets' = AlignKs /\ aggOnsets' = [k \in AlignKs |-> aggOnsets'[k]]
        BY <3>1 DEF SlideWindow
      <4> QED
        BY <3>3, <3>5, <4>1
    <3> QED
      BY <3>1, <3>2, <3>6 DEF SlideWindow, AlignTypeInv
  <2>2. CASE UNCHANGED alignmentVars
    BY <2>2 DEF alignmentVars, AlignTypeInv
  <2> QED
    BY <2>1, <2>2
<1> QED
  BY <1>1, <1>2, PTL DEF AlignmentSpec

\* The numbers behind Below.
LEMMA PreNumbers ==
  ASSUME NEW a \in Seq(AucValues)
  PROVE  /\ IsFiniteSet(DOMAIN a) /\ Cardinality(PreWindows(a)) \in Nat /\ PreTotal(a) \in Nat
         /\ \A i \in DOMAIN a : i \in Nat \ {0} /\ (a[i] # NoAuc => a[i] \in Nat)
<1>1. Len(a) \in Nat /\ DOMAIN a = 1 .. Len(a) /\ \A i \in DOMAIN a : a[i] \in AucValues
  OBVIOUS
<1>2. \A i \in DOMAIN a : i \in Nat \ {0} /\ (a[i] # NoAuc => a[i] \in Nat)
  <2>1. \A i \in DOMAIN a : a[i] # NoAuc => a[i] \in Nat
    BY <1>1, AlignmentAssumption
  <2>2. \A i \in DOMAIN a : i \in Nat \ {0}
    BY <1>1
  <2> QED
    BY <2>1, <2>2
<1>3. IsFiniteSet(DOMAIN a)
  <2>1. IsFiniteSet(1 .. Len(a))
    BY <1>1, FS_Interval
  <2> QED
    BY <1>1, <2>1
<1>4. PICK S : S = PreWindows(a)
  OBVIOUS
<1>5. S \in SUBSET DOMAIN a /\ \A i \in S : a[i] \in Nat
  BY <1>2, <1>4 DEF PreWindows
<1>6. IsFiniteSet(S)
  BY <1>3, <1>5, FS_Subset
<1> DEFINE column(i) == {i} \X (1 .. a[i])
           columns == {column(i) : i \in S}
           h == [i \in S |-> column(i)]
<1>7. ASSUME NEW i \in S PROVE IsFiniteSet(column(i))
  <2>1. PICK v \in Nat : v = a[i]
    BY <1>5
  <2>2. IsFiniteSet({i})
    BY FS_Singleton
  <2>3. IsFiniteSet(1 .. v)
    BY FS_Interval
  <2> QED
    BY <2>1, <2>2, <2>3, FS_Product
<1>8. h \in Surjection(S, columns)
  BY DEF Surjection
<1>9. IsFiniteSet(UNION columns)
  <2>1. \A c \in columns : IsFiniteSet(c)
    BY <1>7
  <2> HIDE DEF columns, h
  <2>2. IsFiniteSet(columns)
    BY <1>6, <1>8, FS_Surjection
  <2> QED
    BY <2>1, <2>2, FS_UNION
<1>10. PreTotal(a) = Cardinality(UNION columns)
  BY <1>4 DEF PreTotal
<1> HIDE DEF columns
<1> QED
  BY <1>2, <1>3, <1>4, <1>6, <1>9, <1>10, FS_CardinalityType

\* Below by delta is below by GT_DELTA.
LEMMA BelowBoth ==
  ASSUME AlignTypeInv, NEW i \in DOMAIN aucs, Below(aucs, i, delta)
  PROVE  Below(aucs, i, GtDelta)
<1>1. PICK n \in Nat, t \in Nat : n = Cardinality(PreWindows(aucs)) /\ t = PreTotal(aucs)
  BY PreNumbers DEF AlignTypeInv
<1>2. PICK v \in Nat : v = aucs[i]
  BY PreNumbers DEF AlignTypeInv, Below
<1>3. GtDelta \in Nat /\ delta \in Nat /\ delta >= GtDelta
  BY AlignmentAssumption DEF AlignTypeInv
<1>4. n * (v + delta) < t
  BY <1>1, <1>2 DEF Below
<1>5. n * (v + GtDelta) <= n * (v + delta)
  <2>1. PICK g \in Nat : delta = GtDelta + g
    <3>1. delta - GtDelta \in Nat /\ delta = GtDelta + (delta - GtDelta)
      BY <1>3
    <3> QED
      BY <3>1
  <2>2. n * (v + (GtDelta + g)) = n * (v + GtDelta) + n * g
    BY <1>3
  <2>3. n * g \in Nat
    OBVIOUS
  <2> QED
    BY <1>3, <2>1, <2>2, <2>3
<1>6. n * (v + GtDelta) < t
  BY <1>3, <1>4, <1>5
<1> QED
  BY <1>1, <1>2, <1>6 DEF Below

\* gta_degradation_segments has a segment wherever the AUC is below.
LEMMA BelowHasSegment ==
  ASSUME AlignTypeInv, NEW i \in DOMAIN aucs, Below(aucs, i, GtDelta)
  PROVE  Segments # {} /\ IsFiniteSet(Segments)
<1>1. PICK n \in Nat : n = Len(aucs)
  BY DEF AlignTypeInv
<1>2. DOMAIN aucs = 1 .. n
  BY <1>1 DEF AlignTypeInv
<1> DEFINE low(j) == Below(aucs, j, GtDelta)
           left == {j \in 1 .. i : \A h \in j .. i : low(h)}
           right == {j \in i .. n : \A h \in i .. j : low(h)}
<1> HIDE DEF low
<1>3. i \in 1 .. n /\ low(i) /\ i .. i = {i}
  BY <1>2 DEF low
<1>4. PICK l \in left : \A j \in left : l <= j
  <2>1. i \in left
    BY <1>3
  <2>2. left \in SUBSET Nat
    BY <1>3
  <2> HIDE DEF left
  <2> QED
    BY <2>1, <2>2, LeastNumber
<1>5. PICK r \in right : \A j \in right : j <= r
  <2>1. i \in right
    BY <1>3
  <2>2. right \in SUBSET (1 .. n) /\ right \in SUBSET Nat
    BY <1>3
  <2> HIDE DEF right
  <2>3. IsFiniteSet(right)
    <3>1. IsFiniteSet(1 .. n)
      BY FS_Interval
    <3> QED
      BY <2>2, <3>1, FS_Subset
  <2> QED
    BY <2>1, <2>2, <2>3, MaxIsGreatest
<1>6. l \in 1 .. n /\ r \in 1 .. n /\ l <= i /\ i <= r
  BY <1>3, <1>4, <1>5
<1>7. \A h \in l .. r : low(h)
  <2>1. \A h \in l .. i : low(h)
    BY <1>4
  <2>2. \A h \in i .. r : low(h)
    BY <1>5
  <2>3. \A h \in l .. r : h \in l .. i \/ h \in i .. r
    BY <1>3, <1>6
  <2> QED
    BY <2>1, <2>2, <2>3
<1>8. l = 1 \/ ~low(l - 1)
  <2> SUFFICES ASSUME l # 1, low(l - 1) PROVE FALSE
    OBVIOUS
  <2>1. l - 1 \in 1 .. i /\ \A h \in l - 1 .. i : h = l - 1 \/ h \in l .. r
    BY <1>3, <1>6
  <2>2. l - 1 \in left
    BY <1>7, <2>1
  <2> HIDE DEF left
  <2> QED
    BY <1>4, <1>6, <2>2
<1>9. r = n \/ ~low(r + 1)
  <2> SUFFICES ASSUME r # n, low(r + 1) PROVE FALSE
    OBVIOUS
  <2>1. r + 1 \in i .. n /\ \A h \in i .. r + 1 : h = r + 1 \/ h \in l .. r
    BY <1>3, <1>6
  <2>2. r + 1 \in right
    BY <1>7, <2>1
  <2> HIDE DEF right
  <2> QED
    BY <1>5, <1>6, <2>2
<1>10. <<l, r>> \in Segments
  <2>1. l <= r
    BY <1>3, <1>6
  <2> HIDE DEF left, right
  <2> QED
    BY <1>1, <1>2, <1>6, <1>7, <1>8, <1>9, <2>1 DEF Segments, low
<1>11. IsFiniteSet(Segments)
  <2>1. IsFiniteSet(DOMAIN aucs)
    BY PreNumbers DEF AlignTypeInv
  <2>2. IsFiniteSet((DOMAIN aucs) \X (DOMAIN aucs))
    BY <2>1, FS_Product
  <2>3. Segments \in SUBSET ((DOMAIN aucs) \X (DOMAIN aucs))
    BY DEF Segments
  <2> QED
    BY <2>2, <2>3, FS_Subset
<1> QED
  BY <1>10, <1>11

LEMMA OnlyOne ==
  ASSUME NEW x \in Int
  PROVE  Min({x}) = x
<1>1. \A y : y = x <=> y \in {x} /\ \A z \in {x} : y <= z
  OBVIOUS
<1> QED
  BY <1>1 DEF Min

\* Among results that differ in k there is one that beats the others.
LEMMA BestExists ==
  ASSUME NEW R, R # {}, NEW low \in Nat,
         \A r \in R : /\ r.k \in Nat /\ r.fn \in Nat /\ r.fp \in Nat
                      /\ r.latency = {} \/ \E n \in Nat : r.latency = {n - low},
         \A r, s \in R : r.k = s.k => r = s
  PROVE  \E r \in R : \A s \in R \ {r} : Better(r, s)
<1> DEFINE Fns == {r.fn : r \in R}
<1>1. Fns \in SUBSET Nat /\ Fns # {}
  OBVIOUS
<1>2. PICK fn \in Fns : \A n \in Fns : fn <= n
  <2> HIDE DEF Fns
  <2> QED
    BY <1>1, LeastNumber
<1> DEFINE R1 == {r \in R : r.fn = fn}
           Fps == {r.fp : r \in R1}
<1>3. Fps \in SUBSET Nat /\ Fps # {}
  BY <1>2
<1>4. PICK fp \in Fps : \A n \in Fps : fp <= n
  <2> HIDE DEF Fps
  <2> QED
    BY <1>3, LeastNumber
<1> DEFINE R2 == {r \in R1 : r.fp = fp}
           Lats == {n \in Nat : \E r \in R2 : r.latency = {n - low}}
<1>5. R2 # {}
  BY <1>4
<1>6. \E R3 \in SUBSET R2 :
        /\ R3 # {}
        /\ \A r, s \in R3 : r.latency = s.latency
        /\ \A r \in R3, s \in R2 \ R3 : EarlierLatency(r.latency, s.latency)
  <2>1. CASE Lats = {}
    <3>1. \A r \in R2 : r.latency = {}
      BY <2>1
    <3> HIDE DEF R2
    <3>2. R2 \in SUBSET R2 /\ R2 \ R2 = {}
      OBVIOUS
    <3>3. /\ \A r, s \in R2 : r.latency = s.latency
          /\ \A r \in R2, s \in R2 \ R2 : EarlierLatency(r.latency, s.latency)
      BY <3>1, <3>2
    <3> QED
      BY <1>5, <3>2, <3>3
  <2>2. CASE Lats # {}
    <3>1. PICK n \in Lats : \A m \in Lats : n <= m
      <4>1. Lats \in SUBSET Nat
        OBVIOUS
      <4> HIDE DEF Lats
      <4> QED
        BY <2>2, <4>1, LeastNumber
    <3> DEFINE R3 == {r \in R2 : r.latency = {n - low}}
    <3>2. R3 \in SUBSET R2 /\ R3 # {} /\ \A r, s \in R3 : r.latency = s.latency
      BY <3>1
    <3>3. ASSUME NEW r \in R3, NEW s \in R2 \ R3 PROVE EarlierLatency(r.latency, s.latency)
      <4>1. r.latency = {n - low} /\ n - low \in Int
        OBVIOUS
      <4>2. CASE s.latency = {}
        BY <4>1, <4>2 DEF EarlierLatency
      <4>3. CASE s.latency # {}
        <5>1. PICK m \in Nat : s.latency = {m - low}
          BY <4>3
        <5>2. m \in Lats /\ m # n
          <6>1. m \in Lats
            BY <5>1
          <6>2. s.latency # {n - low}
            OBVIOUS
          <6> QED
            BY <5>1, <6>1, <6>2
        <5>3. n - low < m - low /\ m - low \in Int
          <6>1. n \in Nat
            OBVIOUS
          <6> HIDE DEF Lats
          <6>2. n <= m
            BY <3>1, <5>2
          <6> QED
            BY <5>2, <6>1, <6>2
        <5>4. Min(r.latency) = n - low /\ Min(s.latency) = m - low
          BY <4>1, <5>1, <5>3, OnlyOne
        <5> QED
          BY <4>1, <5>3, <5>4 DEF EarlierLatency
      <4> QED
        BY <4>2, <4>3
    <3> QED
      BY <3>2, <3>3
  <2> QED
    BY <2>1, <2>2
<1>7. PICK R3 \in SUBSET R2 :
        /\ R3 # {}
        /\ \A r, s \in R3 : r.latency = s.latency
        /\ \A r \in R3, s \in R2 \ R3 : EarlierLatency(r.latency, s.latency)
  BY <1>6
<1> DEFINE Ks == {r.k : r \in R3}
<1>8. Ks \in SUBSET Nat /\ Ks # {}
  BY <1>7
<1>9. PICK k \in Ks : \A n \in Ks : k <= n
  <2> HIDE DEF Ks
  <2> QED
    BY <1>8, LeastNumber
<1>10. PICK r \in R3 : r.k = k
  BY <1>9
<1>11. ASSUME NEW s \in R \ {r} PROVE Better(r, s)
  <2>1. /\ r \in R2 /\ r.fn = fn /\ r.fp = fp /\ fn \in Nat /\ fp \in Nat /\ r.k \in Nat
        /\ s.fn \in Nat /\ s.fp \in Nat /\ s.k \in Nat
    BY <1>7, <1>10
  <2>2. CASE s \notin R1
    <3>1. fn <= s.fn /\ s.fn # fn
      BY <1>2, <2>2
    <3> QED
      BY <2>1, <3>1 DEF Better
  <2>3. CASE s \in R1 \ R2
    <3>1. s.fn = fn /\ fp <= s.fp /\ s.fp # fp
      BY <1>4, <2>3
    <3> QED
      BY <2>1, <3>1 DEF Better
  <2>4. CASE s \in R2 \ R3
    <3>1. EarlierLatency(r.latency, s.latency) /\ s.fn = fn /\ s.fp = fp
      BY <1>7, <1>10, <2>4
    <3> QED
      BY <2>1, <3>1 DEF Better
  <2>5. CASE s \in R3
    <3>1. r.latency = s.latency /\ s.fn = fn /\ s.fp = fp
      BY <1>7, <1>10, <2>5
    <3>2. k <= s.k /\ s.k # k
      BY <1>9, <1>10, <2>1, <2>5
    <3> QED
      BY <1>10, <2>1, <3>1, <3>2 DEF Better
  <2> QED
    BY <2>2, <2>3, <2>4, <2>5
<1> QED
  BY <1>10, <1>11

LEMMA ResultNumbers ==
  ASSUME AlignTypeInv, NEW k \in AlignKs
  PROVE  /\ DegradationOnset(aucs) \in Nat
         /\ AggResult(k).k = k /\ AggResult(k).fn \in Nat /\ AggResult(k).fp \in Nat
         /\ \/ AggResult(k).latency = {}
            \/ \E n \in Nat : AggResult(k).latency = {n - DegradationOnset(aucs)}
         /\ aggOnsets[k] = {} /\ DegradationOnset(aucs) # NoOnset => AggResult(k).fn > 0
<1> DEFINE onset == DegradationOnset(aucs)
           emitted == aggOnsets[k]
           near == IF onset = NoOnset THEN {} ELSE emitted \cap Useful(onset)
           missed == {s \in Segments :
                        emitted \cap (Center(s[1]) - AlignTau .. Center(s[2]) + AlignTau) = {}}
           hits == {i \in DOMAIN aucs : Sustained(aucs, i)}
<1>1. AggResult(k) = [k |-> k, latency |-> IF near = {} THEN {} ELSE {Min(near) - onset},
                      fp |-> Cardinality({o \in emitted : o < preEnd - AlignTau}),
                      fn |-> Cardinality(missed)]
  BY DEF AggResult
<1>2. onset = IF hits = {} THEN NoOnset ELSE Center(Min(hits))
  BY DEF DegradationOnset
<1>3. hits \in SUBSET Nat /\ hits \in SUBSET DOMAIN aucs
  BY PreNumbers DEF AlignTypeInv
<1>4. onset \in Nat
  <2> HIDE DEF hits
  <2>1. hits # {} => Min(hits) \in Nat
    BY <1>3, MinIsLeast
  <2> QED
    BY <1>2, <2>1 DEF NoOnset, Center
<1> HIDE DEF onset
<1>5. IsFiniteSet(emitted) /\ emitted \in SUBSET Nat
  <2>1. Len(aucs) \in Nat /\ emitted \in SUBSET (1 .. 2 * Len(aucs))
    BY DEF AlignTypeInv
  <2>2. IsFiniteSet(1 .. 2 * Len(aucs))
    BY <2>1, FS_Interval
  <2>3. IsFiniteSet(emitted)
    BY <2>1, <2>2, FS_Subset
  <2> QED
    BY <2>1, <2>3
<1>6. Cardinality({o \in emitted : o < preEnd - AlignTau}) \in Nat
  BY <1>5, FS_Subset, FS_CardinalityType
<1>7. near # {} => Min(near) \in Nat
  <2>1. near \in SUBSET Nat
    BY <1>5
  <2> HIDE DEF near
  <2> QED
    BY <2>1, MinIsLeast
<1>8. IsFiniteSet(Segments) /\ (onset # NoOnset => Segments # {})
  <2>1. ASSUME onset # NoOnset PROVE Segments # {}
    <3>1. PICK i \in DOMAIN aucs : Sustained(aucs, i)
      BY <1>2, <2>1
    <3>2. i \in i .. i + GtSustained - 1
      BY <3>1, AlignmentAssumption, PreNumbers DEF AlignTypeInv
    <3>3. Below(aucs, i, delta)
      BY <3>1, <3>2 DEF Sustained
    <3> QED
      BY <3>1, <3>3, BelowBoth, BelowHasSegment
  <2>2. IsFiniteSet(Segments)
    <3>1. IsFiniteSet(DOMAIN aucs)
      BY PreNumbers DEF AlignTypeInv
    <3>2. IsFiniteSet((DOMAIN aucs) \X (DOMAIN aucs))
      BY <3>1, FS_Product
    <3>3. Segments \in SUBSET ((DOMAIN aucs) \X (DOMAIN aucs))
      BY DEF Segments
    <3> QED
      BY <3>2, <3>3, FS_Subset
  <2> QED
    BY <2>1, <2>2
<1>9. IsFiniteSet(missed) /\ (emitted = {} => missed = Segments)
  <2>1. missed \in SUBSET Segments
    OBVIOUS
  <2>2. emitted = {} => missed = Segments
    OBVIOUS
  <2> HIDE DEF missed
  <2> QED
    BY <1>8, <2>1, <2>2, FS_Subset
<1>10. Cardinality(missed) \in Nat /\ (emitted = {} /\ onset # NoOnset => Cardinality(missed) > 0)
  <2> HIDE DEF missed
  <2>1. Cardinality(missed) \in Nat /\ (missed # {} => Cardinality(missed) # 0)
    BY <1>9, FS_CardinalityType, FS_EmptySet
  <2> QED
    BY <1>8, <1>9, <2>1
<1>11. near = {} \/ \E n \in Nat : {Min(near) - onset} = {n - onset}
  BY <1>7
<1> HIDE DEF near, missed
<1> QED
  BY <1>1, <1>4, <1>6, <1>10, <1>11 DEF onset

LEMMA BestBeats ==
  ASSUME AlignTypeInv
  PROVE  /\ \E k \in AlignKs : Best = AggResult(k)
         /\ \A k \in AlignKs : AggResult(k) = Best \/ Better(Best, AggResult(k))
<1> DEFINE R == {AggResult(k) : k \in AlignKs}
<1>1. R # {} /\ AlignKs \subseteq Nat
  BY AlignmentAssumption
<1>2. PICK low \in Nat : low = DegradationOnset(aucs)
  BY <1>1, ResultNumbers
<1>3. \A r \in R : /\ r.k \in Nat /\ r.fn \in Nat /\ r.fp \in Nat
                   /\ r.latency = {} \/ \E n \in Nat : r.latency = {n - low}
  BY <1>1, <1>2, ResultNumbers
<1>4. \A r, s \in R : r.k = s.k => r = s
  BY ResultNumbers
<1> HIDE DEF R
<1>5. \E r \in R : \A s \in R \ {r} : Better(r, s)
  BY <1>1, <1>3, <1>4, BestExists
<1>6. Best \in R /\ \A s \in R \ {Best} : Better(Best, s)
  BY <1>5, Zenon DEF Best, R
<1> QED
  BY <1>6 DEF R

\* A degraded forest that no aggregator reacts to is a miss, and the verdict is
\* proxy_holds when it is for some k; for every stream of AUCs, however short,
\* every drift, delta, tolerance and all sets of onsets.
THEOREM VerdictsHold == AlignmentSpec => []VerdictsAreSound
<1>1. AlignTypeInv => VerdictsAreSound
  <2> SUFFICES ASSUME AlignTypeInv PROVE VerdictsAreSound
    OBVIOUS
  <2>1. PICK b \in AlignKs : Best = AggResult(b)
    BY BestBeats
  <2>2. SilenceIsAMiss
    <3> SUFFICES ASSUME DegradationOnset(aucs) # NoOnset, \A k \in AlignKs : aggOnsets[k] = {}
                 PROVE  PickVerdict(Best) = "mode2_miss"
      BY DEF SilenceIsAMiss
    <3>1. Best.fn \in Nat /\ Best.fn > 0 /\ Best.fn # 0
      BY <2>1, ResultNumbers
    <3> QED
      BY <3>1 DEF PickVerdict
  <2>3. BestHoldsIfAnyHolds
    <3> SUFFICES ASSUME NEW k \in AlignKs, PickVerdict(AggResult(k)) = "proxy_holds"
                 PROVE  PickVerdict(Best) = "proxy_holds"
      BY DEF BestHoldsIfAnyHolds
    <3>1. PICK r : r = AggResult(k) /\ r.fn \in Nat /\ r.fp \in Nat
      BY ResultNumbers
    <3>2. DegradationOnset(aucs) # NoOnset /\ r.latency # {} /\ r.fp = 0 /\ r.fn = 0
      BY <3>1 DEF PickVerdict
    <3>3. Best = r \/ Better(Best, r)
      BY <3>1, BestBeats
    <3>4. Best.fn \in Nat /\ Best.fp \in Nat
      BY <2>1, ResultNumbers
    <3>5. Best.latency # {} /\ Best.fp = 0 /\ Best.fn = 0
      BY <3>2, <3>3, <3>4 DEF Better, EarlierLatency
    <3> QED
      BY <3>2, <3>5 DEF PickVerdict
  <2> QED
    BY <2>2, <2>3 DEF VerdictsAreSound
<1> QED
  BY <1>1, AlignTypes, PTL

\* A window more leaves the pre-drift windows alone once one lies after the
\* drift, and so every answer about the windows there were.
LEMMA LongerStream ==
  ASSUME NEW a \in Seq(AucValues), NEW v \in AucValues, NEW b, b = Append(a, v),
         preEnd \in Nat, NEW w \in DOMAIN a, Center(w) > preEnd
  PROVE  /\ DOMAIN b = DOMAIN a \cup {Len(a) + 1} /\ DOMAIN a \subseteq DOMAIN b
         /\ \A d : \A i \in DOMAIN a : Below(b, i, d) <=> Below(a, i, d)
<1>1. PICK n \in Nat : n = Len(a)
  OBVIOUS
<1>2. /\ DOMAIN a = 1 .. n /\ DOMAIN b = 1 .. n + 1 /\ \A i \in 1 .. n : b[i] = a[i]
  BY <1>1
<1>3. ~(Center(n + 1) < preEnd)
  BY <1>1, <1>2 DEF Center
<1>4. PreWindows(b) = PreWindows(a)
  <2>1. \A i \in 1 .. n + 1 : i \in 1 .. n \/ i = n + 1
    OBVIOUS
  <2>2. \A i \in DOMAIN b : Center(i) < preEnd => i \in DOMAIN a
    BY <1>2, <1>3, <2>1
  <2>3. DOMAIN a \subseteq DOMAIN b
    BY <1>2
  <2> QED
    BY <1>2, <2>2, <2>3 DEF PreWindows
<1>5. PreTotal(b) = PreTotal(a)
  <2>1. PICK S : S = PreWindows(a) /\ S \subseteq 1 .. n
    BY <1>2 DEF PreWindows
  <2>2. {{i} \X (1 .. b[i]) : i \in S} = {{i} \X (1 .. a[i]) : i \in S}
    BY <1>2, <2>1
  <2> QED
    BY <1>4, <2>1, <2>2 DEF PreTotal
<1>6. ASSUME NEW i \in DOMAIN a, NEW d PROVE Below(b, i, d) <=> Below(a, i, d)
  BY <1>2, <1>4, <1>5 DEF Below
<1> QED
  BY <1>1, <1>2, <1>6

\* Once the degradation has an onset it keeps it, however the stream goes on.
THEOREM OnsetKept == AlignmentSpec => OnsetIsFinal
<1>1. AlignTypeInv /\ [AlignmentNext]_alignmentVars =>
        [DegradationOnset(aucs) # NoOnset => DegradationOnset(aucs') = DegradationOnset(aucs)]_alignmentVars
  <2> SUFFICES ASSUME AlignTypeInv, AlignmentNext, DegradationOnset(aucs) # NoOnset
               PROVE  DegradationOnset(aucs') = DegradationOnset(aucs)
    OBVIOUS
  <2>1. PICK v \in AucValues, firing \in SUBSET AlignKs : SlideWindow(v, firing)
    BY DEF AlignmentNext
  <2> DEFINE hits == {i \in DOMAIN aucs : Sustained(aucs, i)}
             more == {i \in DOMAIN aucs' : Sustained(aucs', i)}
  <2>2. PICK w \in DOMAIN aucs : Sustained(aucs, w)
    BY DEF DegradationOnset
  <2>3. PICK n \in Nat : n = Len(aucs)
    BY DEF AlignTypeInv
  <2>4. /\ preEnd \in Nat /\ aucs \in Seq(AucValues) /\ aucs' = Append(aucs, v)
        /\ DOMAIN aucs = 1 .. n /\ Len(aucs') = n + 1 /\ GtSustained \in Nat \ {0}
        /\ preEnd' = preEnd /\ delta' = delta
    BY <2>1, <2>3, AlignmentAssumption DEF SlideWindow, AlignTypeInv
  <2>5. Center(w) > preEnd
    <3>1. w \in w .. w + GtSustained - 1
      BY <2>4
    <3> QED
      BY <2>2, <3>1 DEF Sustained
  <2>6. /\ DOMAIN aucs' = DOMAIN aucs \cup {n + 1}
        /\ \A d : \A i \in DOMAIN aucs : Below(aucs', i, d) <=> Below(aucs, i, d)
    BY <2>1, <2>3, <2>4, <2>5, LongerStream
  <2>7. ASSUME NEW i \in 1 .. n, i + GtSustained - 1 <= n
        PROVE  Sustained(aucs', i) <=> Sustained(aucs, i)
    <3>1. i .. i + GtSustained - 1 \subseteq 1 .. n
      BY <2>4, <2>7
    <3>2. i + GtSustained - 1 <= n + 1
      BY <2>4, <2>7
    <3> QED
      BY <2>3, <2>4, <2>6, <2>7, <3>1, <3>2 DEF Sustained
  <2>8. \A i \in hits : i \in more
    BY <2>3, <2>4, <2>6, <2>7 DEF Sustained
  <2>9. ASSUME NEW i \in more, i \notin hits PROVE \A h \in hits : h < i
    <3>1. i \in 1 .. n + 1 /\ i + GtSustained - 1 <= n + 1
      BY <2>4, <2>6 DEF Sustained
    <3>2. ~(i + GtSustained - 1 <= n)
      BY <2>4, <2>7, <2>9, <3>1
    <3>3. \A h \in hits : h \in 1 .. n /\ h + GtSustained - 1 <= n
      BY <2>3, <2>4 DEF Sustained
    <3> HIDE DEF hits, more
    <3> QED
      BY <2>4, <3>1, <3>2, <3>3
  <2>10. hits # {} /\ hits \in SUBSET Nat /\ more \in SUBSET Nat
    BY <2>2, <2>4, <2>6
  <2>11. DegradationOnset(aucs) = Center(Min(hits)) /\ DegradationOnset(aucs') = Center(Min(more))
    BY <2>8, <2>10 DEF DegradationOnset
  <2> HIDE DEF hits, more
  <2>12. Min(hits) = Min(more)
    <3>1. Min(hits) \in hits /\ \A h \in hits : Min(hits) <= h
      BY <2>10, MinIsLeast
    <3>2. more # {}
      BY <2>8, <2>10
    <3>3. Min(more) \in more /\ \A h \in more : Min(more) <= h
      BY <2>10, <3>2, MinIsLeast
    <3>4. PICK x \in Nat, y \in Nat : x = Min(hits) /\ y = Min(more)
      BY <2>10, <3>1, <3>3
    <3>5. y <= x
      BY <2>8, <3>1, <3>3, <3>4
    <3>6. y \in hits
      <4>1. y \notin hits => x < y
        BY <2>9, <3>1, <3>3, <3>4
      <4> QED
        BY <3>5, <4>1
    <3>7. x <= y
      BY <3>1, <3>4, <3>6
    <3> QED
      BY <3>4, <3>5, <3>7
  <2> QED
    BY <2>11, <2>12
<1> QED
  BY <1>1, AlignTypes, PTL DEF AlignmentSpec, OnsetIsFinal

(***************************************************************************)
(* InsectsTransform: the lines of the drifts.                              *)
(***************************************************************************)

\* The number of a kept row counts the kept rows up to it: it grows from one
\* kept row to the next, and from the last before dp to the first after it.
LEMMA KeptAreNumbered ==
  ASSUME NEW n \in Nat, NEW K \in SUBSET (1 .. n), NEW i \in K, NEW m \in K
  PROVE  /\ IsFiniteSet(K) /\ Cardinality(K \cap 1 .. i) \in Nat /\ Cardinality(K \cap 1 .. m) \in Nat
         /\ Cardinality(K \cap 1 .. i) >= 1
         /\ i <= m => Cardinality(K \cap 1 .. i) <= Cardinality(K \cap 1 .. m)
         /\ i > m => Cardinality(K \cap 1 .. i) > Cardinality(K \cap 1 .. m)
<1>1. IsFiniteSet(K)
  <2>1. IsFiniteSet(1 .. n)
    BY FS_Interval
  <2> QED
    BY <2>1, FS_Subset
<1>2. ASSUME NEW j \in K PROVE IsFiniteSet(K \cap 1 .. j) /\ Cardinality(K \cap 1 .. j) \in Nat
  <2>1. K \cap 1 .. j \in SUBSET K
    OBVIOUS
  <2> QED
    BY <1>1, <2>1, FS_Subset, FS_CardinalityType
<1>3. Cardinality(K \cap 1 .. i) >= 1
  <2>1. i \in K \cap 1 .. i
    OBVIOUS
  <2>2. Cardinality(K \cap 1 .. i) # 0
    BY <1>2, <2>1, FS_EmptySet
  <2> QED
    BY <1>2, <2>2
<1>4. ASSUME i <= m PROVE Cardinality(K \cap 1 .. i) <= Cardinality(K \cap 1 .. m)
  <2>1. K \cap 1 .. i \in SUBSET (K \cap 1 .. m)
    BY <1>4
  <2> QED
    BY <1>2, <2>1, FS_Subset
<1>5. ASSUME i > m PROVE Cardinality(K \cap 1 .. i) > Cardinality(K \cap 1 .. m)
  <2>1. K \cap 1 .. m \in SUBSET (K \cap 1 .. i)
    BY <1>5
  <2>2. i \in K \cap 1 .. i /\ i \notin K \cap 1 .. m
    BY <1>5
  <2>3. /\ Cardinality(K \cap 1 .. m) <= Cardinality(K \cap 1 .. i)
        /\ Cardinality(K \cap 1 .. m) # Cardinality(K \cap 1 .. i)
    BY <1>2, <2>1, <2>2, FS_Subset
  <2> QED
    BY <1>2, <2>3
<1> QED
  BY <1>1, <1>2, <1>3, <1>4, <1>5

TransformTypeOK == original \in Seq(Labels \cup {BlankRow})

\* The mapped line of any drift in the file parts the kept rows.
LEMMA LinesPartRows == ASSUME TransformTypeOK PROVE DriftLinesPartRows
<1> DEFINE n == Len(original)
           K == Kept
           lines == OriginalToTransformed
<1>1. n \in Nat /\ DOMAIN original = 1 .. n
  BY DEF TransformTypeOK
<1>2. K \in SUBSET (1 .. n)
  BY <1>1 DEF Kept
<1>3. /\ DOMAIN lines = 1 .. n
      /\ \A i \in 1 .. n : lines[i] = IF i \in K THEN Cardinality(K \cap 1 .. i) ELSE -1
  BY <1>1 DEF OriginalToTransformed, Discarded
<1> SUFFICES ASSUME NEW d \in MappedDrifts
             PROVE  LET before == Kept \cap 1 .. d.original_line
                    IN  IF before = {} THEN d.start_line = 1
                        ELSE {i \in DOMAIN lines : lines[i] \in 1 .. d.start_line} = before
  BY DEF DriftLinesPartRows
<1>4. PICK dp \in 1 .. n : d.original_line = dp /\ d.start_line = TransformedLine(dp)
  BY <1>1 DEF MappedDrifts
<1> DEFINE before == K \cap 1 .. dp
           earlier == {j \in DOMAIN lines : j <= dp /\ lines[j] # Discarded}
<1>5. TransformedLine(dp) = IF earlier = {} THEN 1 ELSE lines[Max(earlier)]
  BY DEF TransformedLine
<1> HIDE DEF lines, K, n
<1>6. \A i \in K : Cardinality(K \cap 1 .. i) \in Nat
  BY <1>1, <1>2, KeptAreNumbered
<1>7. earlier = before
  <2>1. \A i \in 1 .. n : lines[i] # -1 <=> i \in K
    <3>1. ASSUME NEW i \in K PROVE lines[i] # -1
      <4>1. i \in 1 .. n /\ Cardinality(K \cap 1 .. i) \in Nat
        BY <1>2, <1>6
      <4>2. PICK c \in Nat : c = Cardinality(K \cap 1 .. i)
        BY <4>1
      <4> QED
        BY <1>3, <4>1, <4>2
    <3> QED
      BY <1>3, <3>1
  <2>2. \A j \in 1 .. n : j \in K => (j <= dp <=> j \in 1 .. dp)
    BY <1>1
  <2>3. \A j : j \in earlier <=> j \in 1 .. n /\ j <= dp /\ j \in K
    BY <1>3, <2>1 DEF Discarded
  <2>4. \A j : j \in before <=> j \in K /\ j \in 1 .. dp
    OBVIOUS
  <2> QED
    BY <1>2, <2>2, <2>3, <2>4
<1>8. ASSUME before # {}
      PROVE  {i \in DOMAIN lines : lines[i] \in 1 .. TransformedLine(dp)} = before
  <2>1. before \in SUBSET Nat /\ IsFiniteSet(before)
    BY <1>1, <1>2, FS_Interval, FS_Subset
  <2>2. PICK m \in before : m = Max(before) /\ \A j \in before : j <= m
    BY <1>8, <2>1, MaxIsGreatest
  <2>3. m \in K /\ m <= dp
    BY <2>2
  <2>4. TransformedLine(dp) = Cardinality(K \cap 1 .. m)
    BY <1>2, <1>3, <1>5, <1>7, <1>8, <2>2, <2>3
  <2>5. ASSUME NEW i \in before PROVE i \in DOMAIN lines /\ lines[i] \in 1 .. Cardinality(K \cap 1 .. m)
    <3>1. i \in K /\ i <= m
      BY <2>2
    <3>2. /\ Cardinality(K \cap 1 .. i) \in Nat /\ Cardinality(K \cap 1 .. m) \in Nat
          /\ Cardinality(K \cap 1 .. i) >= 1
          /\ Cardinality(K \cap 1 .. i) <= Cardinality(K \cap 1 .. m)
      BY <1>1, <1>2, <2>3, <3>1, KeptAreNumbered
    <3> QED
      BY <1>2, <1>3, <3>1, <3>2
  <2>6. ASSUME NEW i \in DOMAIN lines, lines[i] \in 1 .. Cardinality(K \cap 1 .. m) PROVE i \in before
    <3>0. lines[i] >= 1 /\ lines[i] \in Int /\ lines[i] <= Cardinality(K \cap 1 .. m)
      BY <2>6
    <3>1. i \in K /\ lines[i] = Cardinality(K \cap 1 .. i)
      <4>1. i \in 1 .. n
        BY <1>3
      <4>2. CASE i \notin K
        <5>1. lines[i] = -1
          BY <1>3, <4>1, <4>2
        <5> QED
          BY <3>0, <5>1
      <4>3. CASE i \in K
        BY <1>3, <4>1, <4>3
      <4> QED
        BY <4>2, <4>3
    <3>2. /\ Cardinality(K \cap 1 .. i) \in Nat /\ Cardinality(K \cap 1 .. m) \in Nat
          /\ i > m => Cardinality(K \cap 1 .. i) > Cardinality(K \cap 1 .. m)
      BY <1>1, <1>2, <2>3, <3>1, KeptAreNumbered
    <3>3. PICK a \in Nat, b \in Nat : a = Cardinality(K \cap 1 .. i) /\ b = Cardinality(K \cap 1 .. m)
      BY <3>2
    <3>4. i \in Nat /\ i >= 1 /\ m \in Nat /\ dp \in Nat
      <4>1. i \in 1 .. n /\ m \in 1 .. n
        BY <1>2, <2>3, <3>1
      <4> QED
        BY <1>1, <4>1
    <3>5. i <= m
      BY <3>0, <3>1, <3>2, <3>3, <3>4
    <3> QED
      BY <2>3, <3>1, <3>4, <3>5
  <2> QED
    BY <2>4, <2>5, <2>6
<1>9. before = {} => TransformedLine(dp) = 1
  BY <1>5, <1>7
<1> HIDE DEF before
<1>10. IF before = {} THEN TransformedLine(dp) = 1
       ELSE {i \in DOMAIN lines : lines[i] \in 1 .. TransformedLine(dp)} = before
  BY <1>8, <1>9
<1>11. before = Kept \cap 1 .. d.original_line
  BY <1>4 DEF before, K
<1> QED
  BY <1>4, <1>10, <1>11 DEF before, K

\* For every file and every drift in it: the mapped line parts the kept rows
\* as the drift parts the original ones, and where no label is empty the two
\* scripts choose the same classes.
THEOREM TransformCorrect == TransformSpec => []TransformIsRight
<1>1. TransformInit => TransformTypeOK
  BY DEF TransformInit, TransformTypeOK
<1>2. TransformTypeOK /\ [TransformNext]_original => TransformTypeOK'
  BY DEF TransformTypeOK, TransformNext, ReadRow
<1>3. RulesAgree
  <2>1. EmptyLabel \notin Seen => SeenByFreq = Seen
    BY DEF SeenByFreq
  <2> QED
    BY <2>1 DEF RulesAgree, CandidateRule, Selection
<1>4. TransformTypeOK => TransformIsRight
  BY <1>3, LinesPartRows DEF TransformIsRight
<1> QED
  BY <1>1, <1>2, <1>4, PTL DEF TransformSpec

(***************************************************************************)
(* ScoreReports: the versions of the forests that answered the drifts.     *)
(***************************************************************************)

ScoreRecord == [seq : 0 .. MaxSeq, label : {0, 1}, score : ScoreValues, version : ForestVersions]

ReportsTypeOK == drifts \in DriftLists /\ records \in Seq(ScoreRecord)

LEMMA RecordFacts ==
  ASSUME ReportsTypeOK
  PROVE  /\ RowsOf(records) = 1 .. Len(records) /\ Len(records) \in Nat
         /\ \A k \in RowsOf(records) : records[k].version \in Nat \ {0} /\ records[k].seq \in Nat
         /\ Len(drifts) \in Nat /\ DOMAIN drifts = 1 .. Len(drifts)
         /\ \A i \in DOMAIN drifts : drifts[i] \in Nat \ {0}
         /\ \A i, j \in DOMAIN drifts : i < j => drifts[i] < drifts[j]
<1>1. /\ RowsOf(records) = 1 .. Len(records) /\ Len(records) \in Nat
      /\ \A k \in RowsOf(records) : records[k] \in ScoreRecord
  BY DEF ReportsTypeOK, RowsOf
<1>2. \A r \in ScoreRecord : r.version \in Nat \ {0} /\ r.seq \in Nat
  <2>1. \A r \in ScoreRecord : r.version \in ForestVersions /\ r.seq \in 0 .. MaxSeq
    BY DEF ScoreRecord
  <2>2. ForestVersions \subseteq Nat \ {0}
    BY ReportsAssumption
  <2>3. \A r \in ScoreRecord : r.version \in Nat \ {0}
    BY <2>1, <2>2
  <2> QED
    BY <2>1, <2>3
<1>3. drifts \in Seq(Nat \ {0}) /\ \A i, j \in 1 .. Len(drifts) : i < j => drifts[i] < drifts[j]
  BY ReportsAssumption DEF ReportsTypeOK
<1>4. Len(drifts) \in Nat /\ DOMAIN drifts = 1 .. Len(drifts)
  BY <1>3
<1>5. \A i \in 1 .. Len(drifts) : drifts[i] \in Nat \ {0}
  BY <1>3, ElementOfSeq
<1> QED
  BY <1>1, <1>2, <1>3, <1>4, <1>5

\* The versions seen in some rows.
LEMMA VersionsOfRows ==
  ASSUME ReportsTypeOK, NEW part \in SUBSET RowsOf(records), part # {}
  PROVE  LET versions == {records[i].version : i \in part}
         IN  versions \in SUBSET (Nat \ {0}) /\ IsFiniteSet(versions) /\ versions # {}
<1> DEFINE versions == {records[i].version : i \in part}
           f == [i \in part |-> records[i].version]
<1>1. IsFiniteSet(part)
  <2>1. IsFiniteSet(RowsOf(records))
    BY RecordFacts, FS_Interval
  <2> QED
    BY <2>1, FS_Subset
<1>2. f \in Surjection(part, versions)
  BY DEF Surjection
<1>3. IsFiniteSet(versions)
  BY <1>1, <1>2, FS_Surjection
<1>4. versions \in SUBSET (Nat \ {0})
  BY RecordFacts
<1> QED
  BY <1>3, <1>4

LEMMA LatestVersion ==
  ASSUME ReportsTypeOK, NEW part \in SUBSET RowsOf(records), part # {}
  PROVE  /\ MaxVersion(records, part) \in Nat \ {0}
         /\ \A k \in part : records[k].version <= MaxVersion(records, part)
<1> DEFINE versions == {records[i].version : i \in part}
<1>1. versions \in SUBSET (Nat \ {0}) /\ IsFiniteSet(versions) /\ versions # {}
  BY VersionsOfRows
<1>2. \A k \in part : records[k].version \in versions
  OBVIOUS
<1>3. MaxVersion(records, part) = Max(versions)
  BY DEF MaxVersion
<1> HIDE DEF versions
<1>4. versions \in SUBSET Nat
  BY <1>1
<1>5. Max(versions) \in versions /\ \A v \in versions : v <= Max(versions)
  BY <1>1, <1>4, MaxIsGreatest
<1> QED
  BY <1>1, <1>2, <1>3, <1>5

\* A drift that was answered: the row of the answer.
LEMMA AnswerFacts ==
  ASSUME ReportsTypeOK, NEW i \in DOMAIN drifts, FirstNewVersion(records, i) # 0
  PROVE  LET k == FirstNewVersion(records, i)
         IN  /\ k \in RowsOf(records)
             /\ records[k].seq < Upper(records, i)
             /\ records[k].version > VersionBefore(records, i)
             /\ VersionBefore(records, i) \in Nat \ {0}
             /\ \A r \in RowsOf(records) : records[r].seq < drifts[i] =>
                  records[r].version <= VersionBefore(records, i)
<1> DEFINE new == NewVersionRows(records, i)
           before == {r \in RowsOf(records) : records[r].seq < drifts[i]}
<1>1. new # {} /\ FirstNewVersion(records, i) = Min(new)
  BY DEF FirstNewVersion
<1>2. new \in SUBSET Nat
  BY RecordFacts DEF NewVersionRows
<1>3. Min(new) \in new
  BY <1>1, <1>2, MinIsLeast
<1>4. FirstNewVersion(records, i) \in new
  BY <1>1, <1>3
<1>5. /\ VersionBefore(records, i) \in Nat \ {0}
      /\ \A r \in before : records[r].version <= VersionBefore(records, i)
  <2>1. VersionBefore(records, i) = IF before = {} THEN 1 ELSE MaxVersion(records, before)
    BY DEF VersionBefore
  <2>2. before \in SUBSET RowsOf(records)
    OBVIOUS
  <2> HIDE DEF before
  <2>3. CASE before = {}
    BY <2>1, <2>3
  <2>4. CASE before # {}
    BY <2>1, <2>2, <2>4, LatestVersion
  <2> QED
    BY <2>3, <2>4
<1> QED
  BY <1>4, <1>5 DEF NewVersionRows

Answered == {i \in DOMAIN drifts : FirstNewVersion(records, i) # 0}
Credited(i) == records[FirstNewVersion(records, i)].version

LEMMA AnswersIncrease ==
  ASSUME ReportsTypeOK, NEW i \in Answered, NEW j \in Answered, i < j
  PROVE  Credited(i) < Credited(j)
<1>1. i \in DOMAIN drifts /\ j \in DOMAIN drifts
  BY DEF Answered
<1>2. /\ FirstNewVersion(records, i) \in RowsOf(records)
      /\ records[FirstNewVersion(records, i)].seq < Upper(records, i)
  BY <1>1, AnswerFacts DEF Answered
<1>3. Upper(records, i) \in Nat /\ drifts[j] \in Nat /\ Upper(records, i) <= drifts[j]
  <2>1. i + 1 \in DOMAIN drifts /\ i < Len(drifts) /\ (i + 1 = j \/ i + 1 < j)
    BY <1>1, RecordFacts
  <2>2. Upper(records, i) = drifts[i + 1]
    BY <2>1 DEF Upper
  <2>3. drifts[i + 1] \in Nat /\ drifts[j] \in Nat /\ (i + 1 < j => drifts[i + 1] < drifts[j])
    BY <1>1, <2>1, RecordFacts
  <2> QED
    BY <2>1, <2>2, <2>3
<1>4. records[FirstNewVersion(records, i)].seq < drifts[j]
  BY <1>2, <1>3, RecordFacts
<1>5. /\ records[FirstNewVersion(records, i)].version <= VersionBefore(records, j)
      /\ records[FirstNewVersion(records, j)].version > VersionBefore(records, j)
      /\ VersionBefore(records, j) \in Nat
      /\ FirstNewVersion(records, j) \in RowsOf(records)
  BY <1>1, <1>2, <1>4, AnswerFacts DEF Answered
<1>6. /\ records[FirstNewVersion(records, i)].version \in Nat
      /\ records[FirstNewVersion(records, j)].version \in Nat
  BY <1>2, <1>5, RecordFacts
<1> QED
  BY <1>5, <1>6 DEF Credited

LEMMA NoMoreAnswers ==
  ASSUME ReportsTypeOK, records # <<>>
  PROVE  Cardinality(Answered) <= NRetrains(records)
<1> DEFINE top == MaxVersion(records, RowsOf(records))
           f == [i \in Answered |-> Credited(i)]
<1>1. RowsOf(records) # {}
  BY RecordFacts, EmptySeq DEF ReportsTypeOK
<1>2. top \in Nat \ {0} /\ \A k \in RowsOf(records) : records[k].version <= top
  BY <1>1, LatestVersion
<1> HIDE DEF top
<1>3. ASSUME NEW i \in Answered PROVE Credited(i) \in 2 .. top
  <2>1. i \in DOMAIN drifts /\ FirstNewVersion(records, i) # 0
    BY DEF Answered
  <2>2. /\ FirstNewVersion(records, i) \in RowsOf(records)
        /\ records[FirstNewVersion(records, i)].version > VersionBefore(records, i)
        /\ VersionBefore(records, i) \in Nat \ {0}
    BY <2>1, AnswerFacts
  <2>3. Credited(i) \in Nat /\ Credited(i) <= top /\ Credited(i) > VersionBefore(records, i)
    BY <1>2, <2>2, RecordFacts DEF Credited
  <2> QED
    BY <1>2, <2>2, <2>3
<1>4. \A i, j \in Answered : i # j => Credited(i) # Credited(j)
  <2>1. \A i \in Answered : i \in Nat /\ Credited(i) \in Nat
    BY <1>3, RecordFacts DEF Answered
  <2>2. \A i, j \in Answered : i < j => Credited(i) < Credited(j)
    BY AnswersIncrease
  <2>3. ASSUME NEW i \in Answered, NEW j \in Answered, i # j PROVE Credited(i) # Credited(j)
    <3>1. CASE i < j
      BY <2>1, <2>2, <3>1
    <3>2. CASE j < i
      BY <2>1, <2>2, <3>2
    <3> QED
      BY <2>1, <2>3, <3>1, <3>2
  <2> QED
    BY <2>3
<1>5. f \in Injection(Answered, 2 .. top)
  BY <1>3, <1>4 DEF Injection, IsInjective
<1>6. IsFiniteSet(2 .. top) /\ Cardinality(2 .. top) = top - 1
  BY <1>2, FS_Interval
<1> HIDE DEF f
<1>7. Cardinality(Answered) <= top - 1
  BY <1>5, <1>6, FS_Injection
<1> QED
  BY <1>7 DEF NRetrains, top

LEMMA TriggersAndRetrains ==
  ASSUME ReportsTypeOK, records # <<>>
  PROVE  /\ Cardinality(RetrainDeltas(records)) <= NTriggers(records)
         /\ NTriggers(records) <= NRetrains(records)
<1> DEFINE top == MaxVersion(records, RowsOf(records))
           all == Versions(records)
           latest == Max(all)
<1>1. RowsOf(records) # {}
  BY RecordFacts, EmptySeq DEF ReportsTypeOK
<1>2. top \in Nat \ {0} /\ \A k \in RowsOf(records) : records[k].version <= top
  BY <1>1, LatestVersion
<1>3. all \in SUBSET (Nat \ {0}) /\ IsFiniteSet(all) /\ all # {}
  BY <1>1, VersionsOfRows DEF Versions
<1>4. all \in SUBSET (1 .. top)
  BY <1>2, RecordFacts DEF Versions
<1>5. RetrainDeltas(records) \in SUBSET (all \ {latest})
  BY DEF RetrainDeltas
<1> HIDE DEF top, all, latest
<1>6. latest \in all
  BY <1>3, MaxIsGreatest DEF latest
<1>7. PICK c \in Nat \ {0} : c = Cardinality(all)
  BY <1>3, FS_CardinalityType, FS_EmptySet
<1>8. c <= top
  <2>1. IsFiniteSet(1 .. top) /\ Cardinality(1 .. top) = top
    BY <1>2, FS_Interval
  <2> QED
    BY <1>4, <1>7, <2>1, FS_Subset
<1>9. IsFiniteSet(all \ {latest}) /\ Cardinality(all \ {latest}) = c - 1
  BY <1>3, <1>6, <1>7, FS_RemoveElement
<1>10. Cardinality(RetrainDeltas(records)) <= c - 1
  BY <1>5, <1>9, FS_Subset
<1>11. NTriggers(records) = c - 1
  <2>1. {c - 1, 0} \in SUBSET Nat /\ IsFiniteSet({c - 1, 0})
    <3>1. IsFiniteSet({c - 1}) /\ {c - 1, 0} = {c - 1} \cup {0}
      BY FS_Singleton
    <3>2. IsFiniteSet({c - 1} \cup {0})
      BY <3>1, FS_AddElement
    <3>3. {c - 1, 0} \in SUBSET Nat
      BY <1>7
    <3> QED
      BY <3>1, <3>2, <3>3
  <2>2. PICK m : m = Max({c - 1, 0}) /\ m \in {c - 1, 0} /\ \A y \in {c - 1, 0} : y <= m
    BY <2>1, MaxIsGreatest
  <2>3. m = c - 1
    BY <1>7, <2>2
  <2> QED
    BY <1>7, <2>2, <2>3 DEF NTriggers, all
<1> QED
  BY <1>2, <1>7, <1>8, <1>10, <1>11 DEF NRetrains, top

LEMMA RecordsTypes == ReportsSpec => []ReportsTypeOK
<1>1. ReportsInit => ReportsTypeOK
  BY DEF ReportsInit, ReportsTypeOK
<1>2. ReportsTypeOK /\ [ReportsNext]_reportVars => ReportsTypeOK'
  <2>1. ASSUME ReportsTypeOK, ReportsNext PROVE ReportsTypeOK'
    <3>1. PICK s \in 0 .. MaxSeq, l \in {0, 1}, v \in ScoreValues, f \in ForestVersions :
            ReadRecord([seq |-> s, label |-> l, score |-> v, version |-> f])
      BY <2>1 DEF ReportsNext
    <3> DEFINE r == [seq |-> s, label |-> l, score |-> v, version |-> f]
    <3>2. r \in ScoreRecord
      BY DEF ScoreRecord
    <3>3. records' = Append(records, r) /\ drifts' = drifts
      BY <3>1 DEF ReadRecord
    <3> HIDE DEF r
    <3> QED
      BY <2>1, <3>2, <3>3 DEF ReportsTypeOK
  <2> QED
    BY <2>1 DEF ReportsTypeOK, reportVars
<1> QED
  BY <1>1, <1>2, PTL DEF ReportsSpec

\* For every run, whatever its gaps and the order of its versions: a forest
\* answers for one drift only, there are no more answers than retrains, and
\* the count of retrains by the versions seen is never the larger one.
THEOREM ResponsesInOrder == ReportsSpec => []ResponsesAdvance
<1>1. ReportsTypeOK => ResponsesAdvance
  BY AnswersIncrease, NoMoreAnswers, TriggersAndRetrains DEF ResponsesAdvance, Answered, Credited
<1> QED
  BY <1>1, RecordsTypes, PTL

\* What is measured on some rows depends on these rows only.
LEMMA SegmentMeasures ==
  ASSUME NEW df, NEW ef, NEW segment, \A k \in segment : df[k] = ef[k]
  PROVE  RankAuc(df, segment) = RankAuc(ef, segment) /\ Fpr(df, segment, Half) = Fpr(ef, segment, Half)
<1>1. \A l : OfLabel(df, segment, l) = OfLabel(ef, segment, l) /\ OfLabel(df, segment, l) \subseteq segment
  BY DEF OfLabel
<1>2. \A i \in segment : Rank(df, segment, i) = Rank(ef, segment, i)
  <2> TAKE i \in segment
  <2>1. {j \in segment : df[j].score < df[i].score \/ (df[j].score = df[i].score /\ j <= i)}
          = {j \in segment : ef[j].score < ef[i].score \/ (ef[j].score = ef[i].score /\ j <= i)}
    OBVIOUS
  <2> QED
    BY <2>1 DEF Rank
<1>3. \A i \in segment : TwiceRank(df, segment, i) = TwiceRank(ef, segment, i)
  <2> TAKE i \in segment
  <2>1. PICK ties : ties = {j \in segment : df[j].score = df[i].score}
    OBVIOUS
  <2>2. ties = {j \in segment : ef[j].score = ef[i].score} /\ ties \subseteq segment
    BY <2>1
  <2>3. {{x} \X (1 .. Rank(df, segment, x)) : x \in ties} = {{x} \X (1 .. Rank(ef, segment, x)) : x \in ties}
    BY <1>2, <2>2
  <2>4. Sum(LAMBDA j : Rank(df, segment, j), ties) = Sum(LAMBDA j : Rank(ef, segment, j), ties)
    BY <2>3 DEF Sum
  <2>5. /\ TwiceRank(df, segment, i)
             = (2 * Sum(LAMBDA j : Rank(df, segment, j), ties)) \div Cardinality(ties)
        /\ TwiceRank(ef, segment, i)
             = (2 * Sum(LAMBDA j : Rank(ef, segment, j), ties)) \div Cardinality(ties)
    BY <2>1, <2>2 DEF TwiceRank
  <2> QED
    BY <2>4, <2>5
<1>4. RankAuc(df, segment) = RankAuc(ef, segment)
  <2>1. PICK pos : pos = OfLabel(df, segment, 1)
    OBVIOUS
  <2>2. pos = OfLabel(ef, segment, 1) /\ pos \subseteq segment
    BY <1>1, <2>1
  <2>3. {{x} \X (1 .. TwiceRank(df, segment, x)) : x \in pos}
          = {{x} \X (1 .. TwiceRank(ef, segment, x)) : x \in pos}
    BY <1>3, <2>2
  <2>4. Sum(LAMBDA i : TwiceRank(df, segment, i), pos) = Sum(LAMBDA i : TwiceRank(ef, segment, i), pos)
    BY <2>3 DEF Sum
  <2> QED
    BY <2>1, <2>2, <2>4 DEF RankAuc
<1>5. Fpr(df, segment, Half) = Fpr(ef, segment, Half)
  <2>1. PICK neg : neg = OfLabel(df, segment, 0) /\ neg = OfLabel(ef, segment, 0) /\ neg \subseteq segment
    BY <1>1
  <2>2. {i \in neg : df[i].score >= Half} = {i \in neg : ef[i].score >= Half}
    BY <2>1
  <2> QED
    BY <2>1, <2>2 DEF Fpr
<1> QED
  BY <1>4, <1>5

\* A record beyond the scan of a drift changes nothing that is reported of it.
LEMMA LaterRecord ==
  ASSUME ReportsTypeOK, NEW r \in ScoreRecord, NEW ef, ef = Append(records, r),
         NEW i \in 1 .. Len(drifts) - 1, r.seq >= drifts[i + 1]
  PROVE  Delays(records, i) = Delays(ef, i)
<1>1. PICK n \in Nat : n = Len(records)
  BY RecordFacts
<1>2. /\ RowsOf(records) = 1 .. n /\ RowsOf(ef) = 1 .. n + 1 /\ ef[n + 1] = r
      /\ \A k \in 1 .. n : ef[k] = records[k] /\ records[k].seq \in Nat
  BY <1>1, RecordFacts, SMTT(30) DEF ReportsTypeOK, RowsOf
<1>3. /\ Len(drifts) \in Nat /\ 1 \in DOMAIN drifts /\ i \in DOMAIN drifts /\ i + 1 \in DOMAIN drifts
      /\ i < Len(drifts)
  BY RecordFacts
<1>4. PICK d1 \in Nat, di \in Nat, dn \in Nat :
        d1 = drifts[1] /\ di = drifts[i] /\ dn = drifts[i + 1] /\ d1 <= di /\ di < dn /\ di <= dn /\ d1 <= dn /\ dn <= dn
  <2>1. drifts[1] \in Nat /\ drifts[i] \in Nat /\ drifts[i + 1] \in Nat /\ drifts[i] < drifts[i + 1]
    BY <1>3, RecordFacts
  <2>2. i = 1 \/ drifts[1] < drifts[i]
    BY <1>3, RecordFacts
  <2> QED
    BY <2>1, <2>2
<1>5. r.seq \in Nat /\ r.seq >= dn /\ SlideWin \in Nat
  BY <1>4, ReportsAssumption DEF ScoreRecord
<1>6. Upper(records, i) = dn /\ Upper(ef, i) = dn
  BY <1>3, <1>4 DEF Upper
<1>7. ASSUME NEW b \in Nat, b <= dn
      PROVE  \E segment \in SUBSET (1 .. n) : /\ segment = {k \in RowsOf(records) : records[k].seq < b}
                                           /\ segment = {k \in RowsOf(ef) : ef[k].seq < b}
                                           /\ \A k \in segment : ef[k] = records[k]
  <2>1. \A k \in 1 .. n + 1 : k \in 1 .. n \/ k = n + 1
    OBVIOUS
  <2>2. ~(ef[n + 1].seq < b)
    BY <1>2, <1>5, <1>7
  <2>3. \A k \in RowsOf(ef) : ef[k].seq < b => k \in 1 .. n
    BY <1>2, <2>1, <2>2
  <2>4. RowsOf(records) \subseteq RowsOf(ef)
    BY <1>2
  <2>5. {k \in RowsOf(records) : records[k].seq < b} = {k \in RowsOf(ef) : ef[k].seq < b}
    BY <1>2, <2>3, <2>4
  <2>6. {k \in RowsOf(records) : records[k].seq < b} \in SUBSET (1 .. n)
    BY <1>2
  <2> QED
    BY <1>2, <2>5, <2>6
<1>8. VersionBefore(records, i) = VersionBefore(ef, i)
  <2>1. PICK before \in SUBSET (1 .. n) : /\ before = {k \in RowsOf(records) : records[k].seq < di}
                                          /\ before = {k \in RowsOf(ef) : ef[k].seq < di}
                                          /\ \A k \in before : ef[k] = records[k]
    BY <1>4, <1>7, Zenon
  <2>3. {records[k].version : k \in before} = {ef[k].version : k \in before}
    BY <2>1
  <2>4. MaxVersion(records, before) = MaxVersion(ef, before)
    BY <2>3 DEF MaxVersion
  <2> QED
    BY <1>4, <2>1, <2>4 DEF VersionBefore
<1>9. FirstNewVersion(records, i) = FirstNewVersion(ef, i)
  <2>1. PICK scan \in SUBSET (1 .. n) : scan = {k \in RowsOf(records) : records[k].seq < dn}
                             /\ scan = {k \in RowsOf(ef) : ef[k].seq < dn}
                             /\ \A k \in scan : ef[k] = records[k]
    BY <1>4, <1>7, Zenon
  <2>2. scan = {k \in RowsOf(ef) : ef[k].seq < dn} /\ \A k \in scan : ef[k] = records[k]
    BY <2>1
  <2>3. NewVersionRows(records, i) =
          {k \in scan : drifts[i] <= records[k].seq /\ records[k].version > VersionBefore(records, i)}
    BY <1>6, <2>1 DEF NewVersionRows
  <2>4. NewVersionRows(ef, i) =
          {k \in scan : drifts[i] <= ef[k].seq /\ ef[k].version > VersionBefore(ef, i)}
    BY <1>6, <2>2 DEF NewVersionRows
  <2>5. NewVersionRows(records, i) = NewVersionRows(ef, i)
    BY <1>8, <2>2, <2>3, <2>4
  <2> QED
    BY <2>5 DEF FirstNewVersion
<1>10. PreV1(records) = PreV1(ef) /\ \A k \in PreV1(records) : records[k] = ef[k]
  <2>1. PICK pre \in SUBSET (1 .. n) : pre = {k \in RowsOf(records) : records[k].seq < d1}
                             /\ pre = {k \in RowsOf(ef) : ef[k].seq < d1}
                             /\ \A k \in pre : ef[k] = records[k]
    BY <1>4, <1>7, Zenon
  <2>2. pre = {k \in RowsOf(ef) : ef[k].seq < d1} /\ \A k \in pre : ef[k] = records[k]
    BY <2>1
  <2>3. /\ PreV1(records) = {k \in pre : records[k].version = 1}
        /\ PreV1(ef) = {k \in pre : ef[k].version = 1}
    BY <1>4, <2>1, <2>2 DEF PreV1
  <2>4. \A k \in pre : records[k].version = 1 <=> ef[k].version = 1
    BY <2>2
  <2>5. PreV1(records) = PreV1(ef)
    BY <2>3, <2>4
  <2>6. PreV1(records) \subseteq pre
    BY <2>3
  <2> QED
    BY <2>2, <2>5, <2>6
<1>11. BaselineAuc(records) = BaselineAuc(ef) /\ BaselineFpr(records) = BaselineFpr(ef)
  <2>1. PICK df, segment : df = records /\ segment = PreV1(records)
    OBVIOUS
  <2>2. segment = PreV1(ef) /\ \A k \in segment : df[k] = ef[k]
    BY <1>10, <2>1
  <2>3. RankAuc(df, segment) = RankAuc(ef, segment) /\ Fpr(df, segment, Half) = Fpr(ef, segment, Half)
    BY ONLY <2>2, SegmentMeasures
  <2> QED
    BY <2>1, <2>2, <2>3 DEF BaselineAuc, BaselineFpr
<1>12. Starts(records, i) = Starts(ef, i)
  BY <1>6 DEF Starts
<1>13. ASSUME NEW s \in Starts(records, i)
       PROVE  /\ InWindow(records, s) = InWindow(ef, s)
              /\ \A k \in InWindow(records, s) : records[k] = ef[k]
  <2>1. s \in Nat /\ s + SlideWin \in Nat /\ s + SlideWin <= dn
    <3>1. s \in di .. (dn - SlideWin - 1)
      BY <1>4, <1>6 DEF Starts
    <3> QED
      BY <1>4, <1>5, <3>1, SMTT(30)
  <2>2. PICK segment \in SUBSET (1 .. n) : segment = {k \in RowsOf(records) : records[k].seq < s + SlideWin}
                              /\ segment = {k \in RowsOf(ef) : ef[k].seq < s + SlideWin}
                              /\ \A k \in segment : ef[k] = records[k]
    BY <1>7, <2>1, Zenon
  <2>3. segment = {k \in RowsOf(ef) : ef[k].seq < s + SlideWin} /\ \A k \in segment : ef[k] = records[k]
    BY <2>2
  <2>4. /\ InWindow(records, s) = {k \in segment : s <= records[k].seq}
        /\ InWindow(ef, s) = {k \in segment : s <= ef[k].seq}
    BY <2>2, <2>3 DEF InWindow
  <2> QED
    BY <2>3, <2>4
<1>14. Scanned(records, i) = Scanned(ef, i) /\ Scanned(records, i) \subseteq Starts(records, i)
  BY <1>12, <1>13 DEF Scanned
<1>15. ASSUME NEW s \in Scanned(records, i)
       PROVE  /\ RankAuc(records, InWindow(records, s)) = RankAuc(ef, InWindow(ef, s))
              /\ Fpr(records, InWindow(records, s), Half) = Fpr(ef, InWindow(ef, s), Half)
  <2>1. PICK segment : segment = InWindow(records, s)
    OBVIOUS
  <2>2. segment = InWindow(ef, s) /\ \A k \in segment : records[k] = ef[k]
    BY <1>13, <1>14, <2>1
  <2>3. PICK df : df = records
    OBVIOUS
  <2>4. \A k \in segment : df[k] = ef[k]
    BY <2>2, <2>3
  <2>5. RankAuc(df, segment) = RankAuc(ef, segment) /\ Fpr(df, segment, Half) = Fpr(ef, segment, Half)
    BY ONLY <2>4, SegmentMeasures
  <2> QED
    BY <2>1, <2>2, <2>3, <2>5
<1>16. AucRecovery(records, i) = AucRecovery(ef, i)
  <2>1. PICK target : target = Times(BaselineAuc(records), RecoveryShare)
    OBVIOUS
  <2>2. {s \in Scanned(records, i) : RankAuc(records, InWindow(records, s)).num > 0
                                     /\ AtLeast(RankAuc(records, InWindow(records, s)), target)}
          = {s \in Scanned(ef, i) : RankAuc(ef, InWindow(ef, s)).num > 0
                                    /\ AtLeast(RankAuc(ef, InWindow(ef, s)), target)}
    BY <1>14, <1>15
  <2> QED
    BY <1>11, <2>1, <2>2 DEF AucRecovery
<1>17. FprStable(records, i) = FprStable(ef, i)
  <2>1. {s \in Scanned(records, i) : Fpr(records, InWindow(records, s), Half) # NoRatio
                                     /\ AtLeast(StableFpr, Fpr(records, InWindow(records, s), Half))}
          = {s \in Scanned(ef, i) : Fpr(ef, InWindow(ef, s), Half) # NoRatio
                                    /\ AtLeast(StableFpr, Fpr(ef, InWindow(ef, s), Half))}
    BY <1>14, <1>15
  <2> QED
    BY <1>11, <2>1 DEF FprStable
<1> QED
  BY <1>9, <1>16, <1>17 DEF Delays

\* Whatever the scores, labels, versions and gaps: what is reported of a drift
\* is final once the records have reached the next drift.
THEOREM DelaysKept == ReportsSpec => DelaysAreFinal
<1>1. ReportsTypeOK /\ [ReportsNext]_reportVars =>
        [\A i \in 1..(Len(drifts) - 1) :
           records # <<>> /\ records[Len(records)].seq >= drifts[i + 1] - 1 =>
             Delays(records, i) = Delays(records', i)]_reportVars
  <2> SUFFICES ASSUME ReportsTypeOK, ReportsNext, NEW i \in 1..(Len(drifts) - 1),
                      records # <<>>, records[Len(records)].seq >= drifts[i + 1] - 1
               PROVE  Delays(records, i) = Delays(records', i)
    OBVIOUS
  <2>1. PICK s \in 0 .. MaxSeq, l \in {0, 1}, v \in ScoreValues, f \in ForestVersions :
          ReadRecord([seq |-> s, label |-> l, score |-> v, version |-> f])
    BY DEF ReportsNext
  <2> DEFINE r == [seq |-> s, label |-> l, score |-> v, version |-> f]
  <2>2. r \in ScoreRecord /\ r.seq = s
    BY DEF ScoreRecord
  <2>3. records' = Append(records, r) /\ s > records[Len(records)].seq
    BY <2>1 DEF ReadRecord
  <2> HIDE DEF r
  <2>4. records[Len(records)].seq \in Nat /\ drifts[i + 1] \in Nat /\ s \in Nat
    <3>1. /\ RowsOf(records) = 1 .. Len(records) /\ Len(records) \in Nat /\ Len(records) # 0
          /\ Len(drifts) \in Nat /\ DOMAIN drifts = 1 .. Len(drifts)
      BY RecordFacts DEF ReportsTypeOK
    <3>2. Len(records) \in RowsOf(records) /\ i + 1 \in DOMAIN drifts
      BY <3>1
    <3> QED
      BY <3>2, RecordFacts, ReportsAssumption
  <2>5. r.seq >= drifts[i + 1]
    BY <2>2, <2>3, <2>4
  <2> QED
    BY <2>2, <2>3, <2>5, LaterRecord
<1> QED
  BY <1>1, RecordsTypes, PTL DEF ReportsSpec, DelaysAreFinal

(***************************************************************************)
(* Sums of natural numbers.                                                *)
(***************************************************************************)

LEMMA BijectionBy ==
  ASSUME NEW S, NEW T, NEW f \in [S -> T],
         \A x, y \in S : f[x] = f[y] => x = y, \A t \in T : \E s \in S : f[s] = t
  PROVE  ExistsBijection(S, T)
<1>1. f \in Bijection(S, T)
  BY DEF Bijection, Injection, Surjection, IsInjective
<1> QED BY <1>1 DEF ExistsBijection

Points(f, S) == UNION {{x} \X (1 .. f[x]) : x \in S}
Total(f, S) == Cardinality(Points(f, S))

LEMMA InPoints ==
  ASSUME NEW S, NEW f \in [S -> Nat]
  PROVE  \A p : p \in Points(f, S) <=> \E x \in S, k \in Nat : k \in 1 .. f[x] /\ p = <<x, k>>
BY DEF Points

LEMMA PointsFinite ==
  ASSUME NEW S, IsFiniteSet(S), NEW f \in [S -> Nat]
  PROVE  IsFiniteSet(Points(f, S)) /\ Total(f, S) \in Nat
<1> DEFINE bars == {{x} \X (1 .. f[x]) : x \in S}
           bar == [x \in S |-> {x} \X (1 .. f[x])]
<1>1. IsFiniteSet(bars)
  <2>1. bar \in Surjection(S, bars)
    BY DEF Surjection
  <2> HIDE DEF bar, bars
  <2> QED BY <2>1, FS_Surjection
<1>2. \A B \in bars : IsFiniteSet(B)
  <2> SUFFICES ASSUME NEW x \in S PROVE IsFiniteSet({x} \X (1 .. f[x]))
    OBVIOUS
  <2>1. IsFiniteSet({x})
    BY FS_Singleton
  <2>2. f[x] \in Int /\ 1 \in Int
    OBVIOUS
  <2>3. IsFiniteSet(1 .. f[x])
    BY <2>2, FS_Interval
  <2> QED BY <2>1, <2>3, FS_Product
<1>3. IsFiniteSet(UNION bars)
  <2> HIDE DEF bars
  <2> QED BY <1>1, <1>2, FS_UNION
<1>4. IsFiniteSet(Points(f, S))
  BY <1>3 DEF Points
<1> QED BY <1>4, FS_CardinalityType DEF Total

LEMMA TotalConstant ==
  ASSUME NEW S, IsFiniteSet(S), NEW c \in Nat, NEW f \in [S -> Nat], \A x \in S : f[x] = c
  PROVE  Total(f, S) = Cardinality(S) * c
<1>1. Points(f, S) = S \X (1 .. c)
  BY InPoints
<1>2. IsFiniteSet(1 .. c) /\ Cardinality(1 .. c) = c
  BY FS_Interval
<1> QED BY <1>1, <1>2, FS_Product DEF Total

LEMMA TotalAdds ==
  ASSUME NEW S, IsFiniteSet(S), NEW f \in [S -> Nat], NEW g \in [S -> Nat], NEW h \in [S -> Nat],
         \A x \in S : h[x] = f[x] + g[x]
  PROVE  Total(h, S) = Total(f, S) + Total(g, S)
<1> DEFINE upper == Points(h, S) \ Points(f, S)
           up == [p \in Points(g, S) |-> <<p[1], f[p[1]] + p[2]>>]
<1>1. \A p : p \in upper <=> \E x \in S, k \in Nat : k \in 1 .. g[x] /\ p = <<x, f[x] + k>>
  <2>1. ASSUME NEW p \in upper PROVE \E x \in S, k \in Nat : k \in 1 .. g[x] /\ p = <<x, f[x] + k>>
    <3>1. PICK x \in S, j \in Nat : j \in 1 .. h[x] /\ p = <<x, j>>
      BY InPoints
    <3>2. j \notin 1 .. f[x]
      BY <3>1, InPoints
    <3>3. j - f[x] \in 1 .. g[x] /\ f[x] + (j - f[x]) = j
      BY <3>1, <3>2
    <3> QED BY <3>1, <3>3
  <2>2. ASSUME NEW x \in S, NEW k \in 1 .. g[x] PROVE <<x, f[x] + k>> \in upper
    <3>1. f[x] + k \in 1 .. h[x] /\ f[x] + k \notin 1 .. f[x]
      OBVIOUS
    <3>2. <<x, f[x] + k>> \in Points(h, S)
      BY <3>1, InPoints
    <3>3. <<x, f[x] + k>> \notin Points(f, S)
      BY <3>1, InPoints
    <3> QED BY <3>2, <3>3
  <2> HIDE DEF upper
  <2> QED BY <2>1, <2>2
<1>2. Points(f, S) \subseteq Points(h, S)
  <2> SUFFICES ASSUME NEW x \in S, NEW k \in 1 .. f[x] PROVE <<x, k>> \in Points(h, S)
    BY InPoints
  <2>1. k \in 1 .. h[x]
    OBVIOUS
  <2> QED BY <2>1, InPoints
<1>3. ExistsBijection(Points(g, S), upper)
  <2> HIDE DEF upper
  <2>1. \A p \in Points(g, S) : up[p] \in upper
    BY <1>1, InPoints
  <2>2. ASSUME NEW p \in Points(g, S), NEW q \in Points(g, S), up[p] = up[q] PROVE p = q
    <3>1. PICK x \in S, k \in Nat : k \in 1 .. g[x] /\ p = <<x, k>>
      BY InPoints
    <3>2. PICK y \in S, l \in Nat : l \in 1 .. g[y] /\ q = <<y, l>>
      BY InPoints
    <3>3. x = y /\ f[x] + k = f[y] + l
      BY <2>2, <3>1, <3>2
    <3>4. k = l
      BY <3>3
    <3> QED BY <3>1, <3>2, <3>3, <3>4
  <2>3. ASSUME NEW q \in upper PROVE \E p \in Points(g, S) : up[p] = q
    <3>1. PICK x \in S, k \in Nat : k \in 1 .. g[x] /\ q = <<x, f[x] + k>>
      BY <1>1
    <3>2. <<x, k>> \in Points(g, S)
      BY <3>1, InPoints
    <3>3. up[<<x, k>>] = q
      BY <3>1, <3>2
    <3> QED BY <3>2, <3>3
  <2>4. up \in [Points(g, S) -> upper]
    BY <2>1
  <2> HIDE DEF up
  <2> QED BY <2>2, <2>3, <2>4, BijectionBy
<1>4. /\ IsFiniteSet(Points(f, S)) /\ IsFiniteSet(Points(g, S)) /\ IsFiniteSet(Points(h, S))
  BY PointsFinite
<1>5. IsFiniteSet(upper) /\ Cardinality(upper) = Cardinality(Points(g, S))
  <2> HIDE DEF upper
  <2> QED BY <1>3, <1>4, FS_Bijection
<1>6. Cardinality(upper) = Cardinality(Points(h, S)) - Cardinality(Points(h, S) \cap Points(f, S))
  BY <1>4, FS_Difference
<1>7. Points(h, S) \cap Points(f, S) = Points(f, S)
  BY <1>2
<1>8. \A s : s = f \/ s = g \/ s = h => Cardinality(Points(s, S)) \in Nat
  BY <1>4, FS_CardinalityType
<1>9. Cardinality(Points(g, S)) = Cardinality(Points(h, S)) - Cardinality(Points(f, S))
  BY <1>5, <1>6, <1>7
<1> HIDE DEF upper
<1> QED BY <1>8, <1>9 DEF Total

\* Counting pairs row by row.
LEMMA TotalPairs ==
  ASSUME NEW S, IsFiniteSet(S), NEW T, IsFiniteSet(T), NEW D \in [S -> SUBSET T],
         NEW f \in [S -> Nat], \A x \in S : f[x] = Cardinality(D[x])
  PROVE  /\ Total(f, S) = Cardinality({p \in S \X T : p[2] \in D[p[1]]})
         /\ IsFiniteSet({p \in S \X T : p[2] \in D[p[1]]})
<1> DEFINE pairs == {p \in S \X T : p[2] \in D[p[1]]}
           b == [x \in S |-> CHOOSE e : e \in Bijection(1 .. f[x], D[x])]
           to == [p \in Points(f, S) |-> <<p[1], b[p[1]][p[2]]>>]
<1>1. ASSUME NEW x \in S PROVE b[x] \in Bijection(1 .. f[x], D[x])
  <2>1. IsFiniteSet(D[x])
    BY FS_Subset
  <2>2. ExistsBijection(1 .. f[x], D[x])
    BY <2>1, FS_CardinalityType
  <2> QED BY <2>2 DEF ExistsBijection
<1> HIDE DEF b
<1>2. \A x \in S : /\ \A k \in 1 .. f[x] : b[x][k] \in D[x]
                   /\ \A k, l \in 1 .. f[x] : b[x][k] = b[x][l] => k = l
                   /\ \A y \in D[x] : \E k \in 1 .. f[x] : b[x][k] = y
  <2> SUFFICES ASSUME NEW x \in S
               PROVE  /\ \A k \in 1 .. f[x] : b[x][k] \in D[x]
                      /\ \A k, l \in 1 .. f[x] : b[x][k] = b[x][l] => k = l
                      /\ \A y \in D[x] : \E k \in 1 .. f[x] : b[x][k] = y
    OBVIOUS
  <2>1. b[x] \in Bijection(1 .. f[x], D[x])
    BY <1>1
  <2>2. b[x] \in [1 .. f[x] -> D[x]] /\ IsInjective(b[x])
        /\ \A y \in D[x] : \E k \in 1 .. f[x] : b[x][k] = y
    BY <2>1 DEF Bijection, Injection, Surjection
  <2>3. DOMAIN b[x] = 1 .. f[x] /\ \A k \in 1 .. f[x] : b[x][k] \in D[x]
    BY <2>2
  <2> QED BY <2>2, <2>3 DEF IsInjective
<1>3. \A p \in Points(f, S) : to[p] \in pairs
  <2> SUFFICES ASSUME NEW x \in S, NEW k \in 1 .. f[x], <<x, k>> \in Points(f, S)
               PROVE  to[<<x, k>>] \in pairs
    BY InPoints
  <2>1. to[<<x, k>>] = <<x, b[x][k]>>
    OBVIOUS
  <2>2. b[x][k] \in D[x] /\ D[x] \subseteq T
    BY <1>2
  <2> QED BY <2>1, <2>2
<1>4. ASSUME NEW p \in Points(f, S), NEW q \in Points(f, S), to[p] = to[q] PROVE p = q
  <2>1. PICK x \in S, k \in Nat : k \in 1 .. f[x] /\ p = <<x, k>>
    BY InPoints
  <2>2. PICK y \in S, l \in Nat : l \in 1 .. f[y] /\ q = <<y, l>>
    BY InPoints
  <2>3. x = y /\ b[x][k] = b[y][l]
    BY <1>4, <2>1, <2>2
  <2> QED BY <1>2, <2>1, <2>2, <2>3
<1>5. ASSUME NEW q \in pairs PROVE \E p \in Points(f, S) : to[p] = q
  <2>1. PICK x \in S, y \in T : q = <<x, y>> /\ y \in D[x]
    OBVIOUS
  <2>2. PICK k \in 1 .. f[x] : b[x][k] = y
    BY <1>2, <2>1
  <2>3. <<x, k>> \in Points(f, S)
    BY InPoints
  <2>4. to[<<x, k>>] = q
    BY <2>1, <2>2, <2>3
  <2> QED BY <2>3, <2>4
<1>7. ExistsBijection(Points(f, S), pairs)
  <2>1. to \in [Points(f, S) -> pairs]
    BY <1>3
  <2> HIDE DEF to, pairs
  <2> QED BY <1>4, <1>5, <2>1, BijectionBy
<1> HIDE DEF pairs
<1>8. IsFiniteSet(pairs) /\ Cardinality(pairs) = Cardinality(Points(f, S))
  BY <1>7, PointsFinite, FS_Bijection
<1> QED BY <1>8 DEF Total, pairs

\* Of two elements one is smaller, or both are neither: those below and those
\* not above, counted for each element, are as many as there are pairs.
LEMMA OrderCount ==
  ASSUME NEW X, IsFiniteSet(X), NEW v \in [X -> Int], NEW f \in [X -> Nat],
         \A x \in X : f[x] = Cardinality({y \in X : v[y] < v[x]})
                             + Cardinality({y \in X : v[y] <= v[x]})
  PROVE  Total(f, X) = Cardinality(X) * Cardinality(X)
<1> DEFINE D1 == [x \in X |-> {y \in X : v[y] < v[x]}]
           D2 == [x \in X |-> {y \in X : v[y] <= v[x]}]
           f1 == [x \in X |-> Cardinality(D1[x])]
           f2 == [x \in X |-> Cardinality(D2[x])]
           below == {p \in X \X X : p[2] \in D1[p[1]]}
           notAbove == {p \in X \X X : p[2] \in D2[p[1]]}
           above == {p \in X \X X : v[p[1]] <= v[p[2]]}
<1>1. D1 \in [X -> SUBSET X] /\ D2 \in [X -> SUBSET X]
  OBVIOUS
<1>2. f1 \in [X -> Nat] /\ f2 \in [X -> Nat]
  <2>1. \A x \in X : IsFiniteSet(D1[x]) /\ IsFiniteSet(D2[x])
    BY <1>1, FS_Subset
  <2> HIDE DEF D1, D2
  <2>2. \A x \in X : Cardinality(D1[x]) \in Nat /\ Cardinality(D2[x]) \in Nat
    BY <2>1, FS_CardinalityType
  <2> QED BY <2>2
<1>3. \A x \in X : f[x] = f1[x] + f2[x]
  OBVIOUS
<1>4. \A x \in X : f1[x] = Cardinality(D1[x]) /\ f2[x] = Cardinality(D2[x])
  OBVIOUS
<1>5. \A p \in X \X X : (p \in below <=> v[p[2]] < v[p[1]]) /\ (p \in notAbove <=> v[p[2]] <= v[p[1]])
  OBVIOUS
<1> HIDE DEF f1, f2, D1, D2
<1>6. /\ Total(f, X) = Total(f1, X) + Total(f2, X)
      /\ Total(f1, X) = Cardinality(below) /\ Total(f2, X) = Cardinality(notAbove)
      /\ IsFiniteSet(below) /\ IsFiniteSet(notAbove)
  <2>1. Total(f, X) = Total(f1, X) + Total(f2, X)
    BY <1>2, <1>3, TotalAdds
  <2>2. Total(f1, X) = Cardinality(below) /\ IsFiniteSet(below)
    BY <1>1, <1>2, <1>4, TotalPairs
  <2>3. Total(f2, X) = Cardinality(notAbove) /\ IsFiniteSet(notAbove)
    <3>1. D2 \in [X -> SUBSET X]
      BY <1>1
    <3>2. f2 \in [X -> Nat] 
      BY <1>2
    <3>3. \A x \in X : f2[x] = Cardinality(D2[x])
      BY <1>4
    <3> QED BY ONLY IsFiniteSet(X), <3>1, <3>2, <3>3, TotalPairs
  <2> QED BY <2>1, <2>2, <2>3
<1>7. ExistsBijection(notAbove, above)
  <2> DEFINE swap == [p \in notAbove |-> <<p[2], p[1]>>]
  <2>1. swap \in [notAbove -> above]
    BY <1>5
  <2>2. ASSUME NEW p \in notAbove, NEW q \in notAbove, swap[p] = swap[q] PROVE p = q
    BY <2>2
  <2>3. ASSUME NEW q \in above PROVE \E p \in notAbove : swap[p] = q
    <3>1. <<q[2], q[1]>> \in notAbove
      BY <1>5
    <3>2. swap[<<q[2], q[1]>>] = q
      BY <3>1
    <3> QED BY <3>1, <3>2
  <2> HIDE DEF swap, notAbove, above
  <2> QED BY <2>1, <2>2, <2>3, BijectionBy
<1>8. below \cup above = X \X X /\ below \cap above = {}
  <2>1. \A p \in X \X X : v[p[1]] \in Int /\ v[p[2]] \in Int
    OBVIOUS
  <2>2. \A p \in X \X X : p \in below <=> ~(p \in above)
    BY <1>5, <2>1
  <2>3. below \subseteq X \X X /\ above \subseteq X \X X
    OBVIOUS
  <2> HIDE DEF below, above
  <2> QED BY <2>2, <2>3
<1> HIDE DEF below, notAbove, above
<1>9. IsFiniteSet(above) /\ Cardinality(above) = Cardinality(notAbove)
  BY <1>6, <1>7, FS_Bijection
<1>10. Cardinality(below \cup above) = Cardinality(below) + Cardinality(above)
  <2>1. Cardinality(below \cup above)
          = Cardinality(below) + Cardinality(above) - Cardinality(below \cap above)
    BY <1>6, <1>9, FS_Union
  <2>2. Cardinality(below \cap above) = 0
    BY <1>8, FS_EmptySet
  <2>3. Cardinality(below) \in Nat /\ Cardinality(above) \in Nat
    BY <1>6, <1>9, FS_CardinalityType
  <2> QED BY <2>1, <2>2, <2>3
<1>11. Cardinality(X \X X) = Cardinality(X) * Cardinality(X)
  BY FS_Product
<1> QED BY <1>6, <1>8, <1>9, <1>10, <1>11

LEMMA DisjointCount ==
  ASSUME NEW A, IsFiniteSet(A), NEW B, IsFiniteSet(B), A \cap B = {}
  PROVE  /\ IsFiniteSet(A \cup B)
         /\ Cardinality(A \cup B) = Cardinality(A) + Cardinality(B)
         /\ Cardinality(A) \in Nat /\ Cardinality(B) \in Nat
<1>1. Cardinality(A) \in Nat /\ Cardinality(B) \in Nat
  BY FS_CardinalityType
<1>2. /\ IsFiniteSet(A \cup B)
      /\ Cardinality(A \cup B) = Cardinality(A) + Cardinality(B) - Cardinality(A \cap B)
  BY FS_Union
<1>3. Cardinality(A \cap B) = 0
  BY FS_EmptySet
<1> QED BY <1>1, <1>2, <1>3

LEMMA DivExact == \A t \in Nat \ {0}, a \in Nat : (t * a) \div t = a
OBVIOUS

(***************************************************************************)
(* The two AUCs of a segment.                                              *)
(***************************************************************************)

\* Records of a segment below row i, and not above it.
Lower(df, part, i) == {j \in part : df[j].score < df[i].score}
UpTo(df, part, i) == {j \in part : df[j].score <= df[i].score}

LEMMA SegmentFacts ==
  ASSUME ReportsTypeOK, NEW part \in SUBSET RowsOf(records)
  PROVE  /\ IsFiniteSet(part) /\ Cardinality(part) \in Nat /\ part \subseteq Nat
         /\ \A i \in part : records[i].score \in Int /\ records[i].label \in {0, 1}
         /\ \A i : IsFiniteSet(Lower(records, part, i)) /\ IsFiniteSet(UpTo(records, part, i))
         /\ \A i : /\ Cardinality(Lower(records, part, i)) \in Nat
                   /\ Cardinality(UpTo(records, part, i)) \in Nat
<1>1. RowsOf(records) = 1 .. Len(records) /\ Len(records) \in Nat
  BY RecordFacts
<1>2. IsFiniteSet(1 .. Len(records))
  BY <1>1, FS_Interval
<1>3. IsFiniteSet(part)
  BY <1>1, <1>2, FS_Subset
<1>4. \A i : Lower(records, part, i) \in SUBSET part /\ UpTo(records, part, i) \in SUBSET part
  BY DEF Lower, UpTo
<1>5. \A i : IsFiniteSet(Lower(records, part, i)) /\ IsFiniteSet(UpTo(records, part, i))
  BY <1>3, <1>4, FS_Subset
<1>6. \A i \in part : records[i].score \in Int /\ records[i].label \in {0, 1}
  <2>1. \A i \in part : records[i] \in ScoreRecord
    BY <1>1 DEF ReportsTypeOK
  <2>2. \A r \in ScoreRecord : r.score \in ScoreValues /\ r.label \in {0, 1}
    BY DEF ScoreRecord
  <2>3. ScoreValues \subseteq Int
    BY ReportsAssumption
  <2> QED BY <2>1, <2>2, <2>3
<1>7. /\ Cardinality(part) \in Nat
      /\ \A i : /\ Cardinality(Lower(records, part, i)) \in Nat
                /\ Cardinality(UpTo(records, part, i)) \in Nat
  BY <1>3, <1>5, FS_CardinalityType
<1> QED BY <1>1, <1>3, <1>5, <1>6, <1>7

\* Twice the mean rank of a row.
LEMMA TwiceRankIs ==
  ASSUME ReportsTypeOK, NEW part \in SUBSET RowsOf(records), NEW i \in part
  PROVE  TwiceRank(records, part, i) =
           Cardinality(Lower(records, part, i)) + Cardinality(UpTo(records, part, i)) + 1
<1> DEFINE v(j) == records[j].score
           ties == {j \in part : v(j) = v(i)}
           t == Cardinality(ties)
           low == Cardinality(Lower(records, part, i))
           upToIn(j) == {k \in ties : k <= j}
           before(j) == {k \in ties : k < j}
           r == [j \in ties |-> Rank(records, part, j)]
           order == [j \in ties |-> Cardinality(before(j)) + Cardinality(upToIn(j))]
           rest == [j \in ties |-> 2 * low + 1]
           twice == [j \in ties |-> 2 * r[j]]
<1>1. /\ IsFiniteSet(part) /\ part \subseteq Nat /\ low \in Nat
      /\ \A j \in part : v(j) \in Int
      /\ IsFiniteSet(Lower(records, part, i))
  BY SegmentFacts
<1>2. IsFiniteSet(ties) /\ i \in ties /\ ties \in SUBSET part
  <2>1. ties \in SUBSET part
    OBVIOUS
  <2> QED BY <1>1, <2>1, FS_Subset
<1>3. t \in Nat \ {0}
  <2>1. t \in Nat
    BY <1>2, FS_CardinalityType
  <2>2. t # 0
    BY <1>2, FS_EmptySet
  <2> QED BY <2>1, <2>2
<1>4. \A j : /\ IsFiniteSet(upToIn(j)) /\ IsFiniteSet(before(j))
             /\ Cardinality(upToIn(j)) \in Nat /\ Cardinality(before(j)) \in Nat
  <2> SUFFICES ASSUME NEW j
               PROVE  /\ IsFiniteSet(upToIn(j)) /\ IsFiniteSet(before(j))
                      /\ Cardinality(upToIn(j)) \in Nat /\ Cardinality(before(j)) \in Nat
    OBVIOUS
  <2>1. upToIn(j) \in SUBSET ties /\ before(j) \in SUBSET ties
    OBVIOUS
  <2> HIDE DEF upToIn, before, ties
  <2>2. IsFiniteSet(upToIn(j)) /\ IsFiniteSet(before(j))
    BY <1>2, <2>1, FS_Subset
  <2> QED BY <2>2, FS_CardinalityType
<1>5. ASSUME NEW j \in ties
      PROVE  /\ Rank(records, part, j) = low + Cardinality(upToIn(j))
             /\ Cardinality(upToIn(j)) = Cardinality(before(j)) + 1
  <2>1. v(j) = v(i) /\ j \in part /\ j \in Nat
    BY <1>1
  <2>2. {k \in part : v(k) < v(j) \/ (v(k) = v(j) /\ k <= j)} = Lower(records, part, i) \cup upToIn(j)
    BY <2>1 DEF Lower
  <2>3. Lower(records, part, i) \cap upToIn(j) = {}
    BY <1>1, <1>2 DEF Lower
  <2>4. Cardinality(Lower(records, part, i) \cup upToIn(j)) = low + Cardinality(upToIn(j))
    BY <1>1, <1>4, <2>3, DisjointCount
  <2>5. upToIn(j) = before(j) \cup {j} /\ j \notin before(j)
    BY <1>1, <1>2
  <2>6. Cardinality(before(j) \cup {j}) = Cardinality(before(j)) + 1
    BY <1>4, <2>5, FS_AddElement, ZenonT(40)
  <2> QED BY <2>2, <2>4, <2>5, <2>6 DEF Rank
<1>6. \A j \in ties : /\ r[j] = low + Cardinality(upToIn(j))
                      /\ order[j] = Cardinality(before(j)) + Cardinality(upToIn(j))
                      /\ rest[j] = 2 * low + 1 /\ twice[j] = 2 * r[j]
  BY <1>5
<1>0. /\ r = [j \in ties |-> r[j]] /\ order = [j \in ties |-> order[j]]
      /\ rest = [j \in ties |-> rest[j]] /\ twice = [j \in ties |-> twice[j]]
  OBVIOUS
<1>7. /\ r \in [ties -> Nat] /\ order \in [ties -> Nat] /\ rest \in [ties -> Nat]
      /\ twice \in [ties -> Nat]
  <2> HIDE DEF low, upToIn, before, r, order, rest, twice, ties
  <2>1. \A j \in ties : r[j] \in Nat /\ order[j] \in Nat /\ rest[j] \in Nat /\ twice[j] \in Nat
    BY <1>1, <1>4, <1>6
  <2> QED BY <1>0, <2>1
<1>8. \A j \in ties : twice[j] = r[j] + r[j] /\ twice[j] = rest[j] + order[j]
  <2> HIDE DEF low, upToIn, before, r, order, rest, twice, ties
  <2> SUFFICES ASSUME NEW j \in ties PROVE twice[j] = r[j] + r[j] /\ twice[j] = rest[j] + order[j]
    OBVIOUS
  <2>1. Cardinality(upToIn(j)) = Cardinality(before(j)) + 1
    BY <1>5
  <2> QED BY <1>1, <1>4, <1>6, <2>1
<1>9. Total(order, ties) = t * t
  <2> DEFINE self == [j \in ties |-> j]
  <2>1. self \in [ties -> Int]
    BY <1>1
  <2>2. \A j \in ties : order[j] = Cardinality({k \in ties : self[k] < self[j]})
                                   + Cardinality({k \in ties : self[k] <= self[j]})
    <3> SUFFICES ASSUME NEW j \in ties
                 PROVE  order[j] = Cardinality({k \in ties : self[k] < self[j]})
                                   + Cardinality({k \in ties : self[k] <= self[j]})
      OBVIOUS
    <3>1. /\ {k \in ties : self[k] < self[j]} = before(j)
          /\ {k \in ties : self[k] <= self[j]} = upToIn(j)
      OBVIOUS
    <3> QED BY <1>6, <3>1
  <2> HIDE DEF ties, order, self
  <2> QED BY <1>2, <1>7, <2>1, <2>2, OrderCount
<1>10. Sum(LAMBDA j : Rank(records, part, j), ties) = Total(r, ties)
  BY DEF Sum, Total, Points
<1>11. TwiceRank(records, part, i)
         = (2 * Sum(LAMBDA j : Rank(records, part, j), ties)) \div t
  BY DEF TwiceRank
<1>12. UpTo(records, part, i) = Lower(records, part, i) \cup ties
  <2>1. \A j \in part : v(j) <= v(i) <=> v(j) < v(i) \/ v(j) = v(i)
    BY <1>1
  <2> QED BY <2>1 DEF UpTo, Lower
<1>13. Lower(records, part, i) \cap ties = {}
  BY <1>1 DEF Lower
<1> HIDE DEF ties, r, order, rest, twice, low
<1>14. 2 * Total(r, ties) = t * (2 * low + 1) + t * t
  <2>1. Total(twice, ties) = Total(r, ties) + Total(r, ties)
    BY <1>2, <1>7, <1>8, TotalAdds
  <2>2. Total(twice, ties) = Total(rest, ties) + Total(order, ties)
    BY <1>2, <1>7, <1>8, TotalAdds
  <2>3. Total(rest, ties) = t * (2 * low + 1)
    <3>1. 2 * low + 1 \in Nat
      BY <1>1
    <3>2. \A j \in ties : rest[j] = 2 * low + 1
      BY <1>6
    <3> QED BY <1>2, <1>7, <3>1, <3>2, TotalConstant
  <2>4. Total(r, ties) \in Nat
    BY <1>2, <1>7, PointsFinite
  <2> QED BY <1>9, <2>1, <2>2, <2>3, <2>4
<1>15. Cardinality(UpTo(records, part, i)) = low + t
  BY <1>1, <1>2, <1>12, <1>13, DisjointCount DEF low
<1> HIDE DEF t
<1>16. t * (2 * low + 1) + t * t = t * (2 * low + 1 + t) /\ 2 * low + 1 + t \in Nat
  BY <1>1, <1>3
<1>17. TwiceRank(records, part, i) = 2 * low + 1 + t
  <2>1. TwiceRank(records, part, i) = (t * (2 * low + 1 + t)) \div t
    BY <1>10, <1>11, <1>14, <1>16
  <2> QED BY <1>3, <1>16, <2>1, DivExact
<1> QED BY <1>1, <1>3, <1>15, <1>17 DEF low

\* With p rows labelled 1, twice the ranks of these contain p * p + p of their
\* own; the others are the comparisons with the rows labelled 0.
LEMMA SegmentAucs ==
  ASSUME ReportsTypeOK, NEW part \in SUBSET RowsOf(records)
  PROVE  RankAuc(records, part) = PairAuc(records, part)
<1> DEFINE pos == OfLabel(records, part, 1)
           neg == OfLabel(records, part, 0)
           p == Cardinality(pos)
           q == Cardinality(part) - p
           lower(X, i) == Cardinality(Lower(records, X, i))
           upTo(X, i) == Cardinality(UpTo(records, X, i))
           ranks == [i \in pos |-> TwiceRank(records, part, i)]
           own == [i \in pos |-> lower(pos, i) + upTo(pos, i)]
           wins == [i \in pos |-> lower(neg, i) + upTo(neg, i)]
           one == [i \in pos |-> 1]
           ownAndOne == [i \in pos |-> own[i] + 1]
<1>1. /\ pos \in SUBSET RowsOf(records) /\ neg \in SUBSET RowsOf(records)
      /\ pos \subseteq part /\ pos \cap neg = {}
      /\ \A i \in pos : i \in part
  BY DEF OfLabel
<1>2. part = pos \cup neg
  BY SegmentFacts DEF OfLabel
<1>3. \A i : Lower(records, part, i) = Lower(records, pos, i) \cup Lower(records, neg, i)
  BY <1>2 DEF Lower
<1>4. \A i : UpTo(records, part, i) = UpTo(records, pos, i) \cup UpTo(records, neg, i)
  BY <1>2 DEF UpTo
<1>5. \A i : /\ Lower(records, pos, i) \cap Lower(records, neg, i) = {}
             /\ UpTo(records, pos, i) \cap UpTo(records, neg, i) = {}
  BY <1>1 DEF Lower, UpTo
<1>6. {i \in pos : records[i].label = 1} = pos /\ p = Cardinality(OfLabel(records, part, 1))
  BY DEF OfLabel
<1> HIDE DEF pos, neg
<1>7. /\ IsFiniteSet(pos) /\ IsFiniteSet(neg) /\ p \in Nat /\ Cardinality(neg) \in Nat
      /\ \A i \in pos : records[i].score \in Int
  BY <1>1, SegmentFacts
<1>8. \A i : /\ IsFiniteSet(Lower(records, pos, i)) /\ IsFiniteSet(Lower(records, neg, i))
             /\ IsFiniteSet(UpTo(records, pos, i)) /\ IsFiniteSet(UpTo(records, neg, i))
             /\ lower(pos, i) \in Nat /\ lower(neg, i) \in Nat
             /\ upTo(pos, i) \in Nat /\ upTo(neg, i) \in Nat
  BY <1>1, SegmentFacts
<1>9. q = Cardinality(neg)
  <2>1. Cardinality(part) = p + Cardinality(neg)
    BY <1>1, <1>2, <1>7, DisjointCount
  <2> QED BY <1>7, <2>1
<1>10. \A i : /\ lower(part, i) = lower(pos, i) + lower(neg, i)
              /\ upTo(part, i) = upTo(pos, i) + upTo(neg, i)
  BY <1>3, <1>4, <1>5, <1>8, DisjointCount
<1>11. \A i \in pos : TwiceRank(records, part, i) = lower(part, i) + upTo(part, i) + 1
  BY <1>1, TwiceRankIs
<1> HIDE DEF lower, upTo, p, q
<1>12. \A i \in pos : /\ ranks[i] = lower(part, i) + upTo(part, i) + 1
                      /\ own[i] = lower(pos, i) + upTo(pos, i) /\ own[i] \in Nat
                      /\ wins[i] = lower(neg, i) + upTo(neg, i) /\ wins[i] \in Nat
                      /\ one[i] = 1 /\ ownAndOne[i] = own[i] + 1
  BY <1>8, <1>11
<1>13. /\ ranks = [i \in pos |-> ranks[i]] /\ own = [i \in pos |-> own[i]]
       /\ wins = [i \in pos |-> wins[i]] /\ one = [i \in pos |-> one[i]]
       /\ ownAndOne = [i \in pos |-> ownAndOne[i]]
  OBVIOUS
<1>14. Sum(LAMBDA i : TwiceRank(records, part, i), pos) = Total(ranks, pos)
  BY DEF Sum, Total, Points
<1>15. Total(own, pos) = p * p
  <2> DEFINE v == [i \in pos |-> records[i].score]
  <2>1. v \in [pos -> Int]
    BY <1>7
  <2>2. \A i \in pos : own[i] = Cardinality({j \in pos : v[j] < v[i]})
                                + Cardinality({j \in pos : v[j] <= v[i]})
    BY <1>12 DEF lower, upTo, Lower, UpTo
  <2>3. own \in [pos -> Nat]
    BY <1>12, <1>13
  <2> HIDE DEF own, v
  <2>4. Total(own, pos) = Cardinality(pos) * Cardinality(pos)
    BY <1>7, <2>1, <2>2, <2>3, OrderCount
  <2> QED BY <2>4 DEF p
<1> HIDE DEF ranks, own, wins, one, ownAndOne
<1>16. /\ ranks \in [pos -> Nat] /\ own \in [pos -> Nat] /\ wins \in [pos -> Nat]
       /\ one \in [pos -> Nat] /\ ownAndOne \in [pos -> Nat]
  <2>1. \A i \in pos : ranks[i] \in Nat /\ own[i] \in Nat /\ wins[i] \in Nat
                       /\ one[i] \in Nat /\ ownAndOne[i] \in Nat
    BY <1>8, <1>10, <1>12
  <2> QED BY <1>13, <2>1
<1>17. \A i \in pos : ranks[i] = ownAndOne[i] + wins[i]
  BY <1>8, <1>10, <1>12
<1>18. Total(ranks, pos) = p * p + p + Total(wins, pos) /\ Total(wins, pos) \in Nat
  <2>1. Total(ranks, pos) = Total(ownAndOne, pos) + Total(wins, pos)
    BY <1>7, <1>16, <1>17, TotalAdds
  <2>2. Total(ownAndOne, pos) = Total(own, pos) + Total(one, pos)
    BY <1>7, <1>12, <1>16, TotalAdds
  <2>3. Total(one, pos) = Cardinality(pos) * 1
    BY <1>7, <1>12, <1>16, TotalConstant
  <2>4. Total(wins, pos) \in Nat
    BY <1>7, <1>16, PointsFinite
  <2>5. Cardinality(pos) = p
    BY DEF p
  <2> QED BY <1>7, <1>15, <2>1, <2>2, <2>3, <2>4, <2>5
<1>19. Total(ranks, pos) - p * (p + 1) = Total(wins, pos)
  BY <1>7, <1>18
<1>20. Sum(LAMBDA i : 2 * lower(neg, i) + (upTo(neg, i) - lower(neg, i)), pos) = Total(wins, pos)
  <2>1. \A i \in pos : 2 * lower(neg, i) + (upTo(neg, i) - lower(neg, i)) = wins[i]
    BY <1>8, <1>12
  <2> QED BY <2>1 DEF Sum, Total, Points
<1>21. (p = 0 <=> pos = {}) /\ (q = 0 <=> neg = {})
  BY <1>7, <1>9, FS_EmptySet DEF p
<1>22. RankAuc(records, part) =
         IF p = 0 \/ q = 0 THEN NoRatio ELSE Ratio(Total(wins, pos), 2 * p * q)
  BY <1>14, <1>19 DEF RankAuc, pos, p, q
<1>23. PairAuc(records, part) =
         IF pos = {} \/ neg = {} THEN NoRatio ELSE Ratio(Total(wins, pos), 2 * p * q)
  BY <1>9, <1>20 DEF PairAuc, pos, neg, p, lower, upTo, Lower, UpTo
<1> QED BY <1>21, <1>22, <1>23

\* The share of the rows labelled 0 that a threshold predicts an anomaly falls
\* as the threshold rises: from the first rate within the target on, the rates
\* only move away from it, and the scan has seen all that are nearer.
LEMMA NearestIsScanned ==
  ASSUME ReportsTypeOK, NEW target \in TargetFpr, OfLabel(records, RowsOf(records), 0) # {},
         NEW u \in Candidates(records, RowsOf(records))
  PROVE  LET gap(t) == Distance(Fpr(records, RowsOf(records), t), target)
         IN  gap(ThresholdAtFpr(records, RowsOf(records), target)) <= gap(u)
<1> DEFINE all == RowsOf(records)
           neg == OfLabel(records, all, 0)
           q == Cardinality(neg)
           over(t) == {i \in neg : records[i].score >= t}
           overs(t) == Cardinality(over(t))
           gap(t) == Distance(Fpr(records, all, t), target)
           C == Candidates(records, all)
           le == Within(records, all, target)
           scanned == UpToFirstWithin(records, all, target)
           nearest == {t \in scanned : \A w \in scanned : gap(t) <= gap(w)}
<1>1. /\ IsFiniteSet(neg) /\ q \in Nat /\ neg \subseteq all
      /\ \A i \in all : records[i].score \in Nat
  <2>1. neg \in SUBSET all
    BY DEF OfLabel
  <2>2. IsFiniteSet(neg) /\ q \in Nat
    <3> HIDE DEF neg
    <3> QED
      BY <2>1, SegmentFacts
  <2>3. \A i \in all : records[i] \in ScoreRecord
    BY DEF ReportsTypeOK, RowsOf
  <2>4. \A r \in ScoreRecord : r.score \in Nat
    BY ReportsAssumption DEF ScoreRecord
  <2> QED
    BY <2>1, <2>2, <2>3, <2>4
<1>2. target.num \in Nat /\ target.den \in Nat
  BY ReportsAssumption
<1>3. C \in SUBSET Nat /\ u \in C
  BY <1>1 DEF Candidates
<1>4. \A t : Fpr(records, all, t) = Ratio(overs(t), q)
  BY DEF Fpr
<1> HIDE DEF neg
<1>5. \A t : IsFiniteSet(over(t)) /\ overs(t) \in Nat
  <2> TAKE t
  <2>1. over(t) \in SUBSET neg
    OBVIOUS
  <2> HIDE DEF over
  <2>2. IsFiniteSet(over(t))
    BY <1>1, <2>1, FS_Subset
  <2> QED
    BY <2>2, FS_CardinalityType
<1>6. \A s, t \in C : s <= t => overs(t) <= overs(s)
  <2> SUFFICES ASSUME NEW s \in C, NEW t \in C, s <= t
               PROVE  overs(t) <= overs(s)
    OBVIOUS
  <2>1. over(t) \in SUBSET over(s)
    BY <1>1, <1>3
  <2> HIDE DEF over
  <2> QED
    BY <1>5, <2>1, FS_Subset
<1> HIDE DEF over, C
<1>7. PICK n, d \in Nat : n = target.num /\ d = target.den
  BY <1>2
<1>8. PICK goal \in Nat : goal = n * q
  BY <1>1, <1>7
<1>9. PICK part \in [C -> Nat] : \A t \in C : part[t] = overs(t) * d
  <2> DEFINE f == [t \in C |-> overs(t) * d]
  <2>1. \A t \in C : overs(t) * d \in Nat
    BY <1>5, <1>7
  <2>2. f \in [C -> Nat] /\ \A t \in C : f[t] = overs(t) * d
    BY <2>1
  <2> HIDE DEF f
  <2> QED
    BY <2>2
<1>10. \A t \in C : gap(t) = IF part[t] - goal < 0 THEN goal - part[t] ELSE part[t] - goal
  <2> TAKE t \in C
  <2>1. gap(t) = IF overs(t) * d - n * q < 0 THEN -(overs(t) * d - n * q) ELSE overs(t) * d - n * q
    BY <1>4, <1>7 DEF Distance, Ratio
  <2>2. gap(t) = IF part[t] - goal < 0 THEN -(part[t] - goal) ELSE part[t] - goal
    BY <1>8, <1>9, <2>1
  <2>3. part[t] \in Nat
    BY <1>9
  <2> QED
    BY <2>2, <2>3
<1>11. \A s, t \in C : s <= t => part[t] <= part[s]
  <2> SUFFICES ASSUME NEW s \in C, NEW t \in C, s <= t
               PROVE  part[t] <= part[s]
    OBVIOUS
  <2>1. PICK a, b \in Nat : a = overs(t) /\ b = overs(s) /\ a <= b
    BY <1>5, <1>6
  <2>2. a * d <= b * d
    BY <1>7, <2>1
  <2> QED
    BY <1>9, <2>1, <2>2
<1>12. le = {t \in C : goal >= part[t]}
  <2>1. \A t \in C : AtLeast(target, Fpr(records, all, t)) <=> n * q >= overs(t) * d
    BY <1>4, <1>7 DEF AtLeast, Ratio
  <2> QED
    BY <1>8, <1>9, <2>1 DEF Within, C
<1>13. scanned = IF le = {} THEN C ELSE {t \in C : t <= Min(le)}
  BY DEF UpToFirstWithin, C
<1>14. ThresholdAtFpr(records, all, target) = Min(nearest)
  BY DEF ThresholdAtFpr
<1> HIDE DEF gap, scanned, le
<1>15. \A t \in C : gap(t) \in Nat
  BY <1>8, <1>9, <1>10
\* The scan has met every gap.
<1>16. scanned \in SUBSET C /\ \E s \in scanned : gap(s) <= gap(u)
  <2>1. CASE le = {}
    BY <1>3, <1>13, <1>15, <2>1
  <2>2. CASE le # {}
    <3>1. Min(le) \in le /\ Min(le) \in C
      BY <1>3, <1>12, <2>2, MinIsLeast
    <3>2. PICK m \in C : m = Min(le) /\ goal >= part[m]
      BY <1>12, <3>1
    <3>3. m \in scanned /\ scanned = {t \in C : t <= m}
      BY <1>3, <1>13, <2>2, <3>2
    <3>4. CASE u <= m
      BY <1>3, <1>15, <3>3, <3>4
    <3>5. CASE ~(u <= m)
      <4>1. part[u] <= part[m] /\ part[u] \in Nat /\ part[m] \in Nat
        BY <1>3, <1>9, <1>11, <3>2, <3>5
      <4>2. gap(m) = IF part[m] - goal < 0 THEN goal - part[m] ELSE part[m] - goal
        BY <1>10
      <4>3. gap(u) = IF part[u] - goal < 0 THEN goal - part[u] ELSE part[u] - goal
        BY <1>3, <1>10
      <4>4. gap(m) <= gap(u)
        BY <1>8, <3>2, <4>1, <4>2, <4>3
      <4> QED
        BY <3>3, <4>4
    <3> QED
      BY <3>3, <3>4, <3>5
  <2> QED
    BY <2>1, <2>2
<1>17. nearest # {} /\ nearest \in SUBSET Nat
  <2> DEFINE gaps == {gap(t) : t \in scanned}
  <2>1. gaps \in SUBSET Nat /\ gaps # {}
    BY <1>15, <1>16
  <2>2. PICK g \in gaps : \A h \in gaps : g <= h
    BY <2>1, LeastNumber
  <2>3. PICK s \in scanned : g = gap(s)
    OBVIOUS
  <2>4. \A w \in scanned : gap(s) <= gap(w)
    <3> TAKE w \in scanned
    <3>1. gap(w) \in gaps
      OBVIOUS
    <3> QED
      BY <2>2, <2>3, <3>1
  <2>5. s \in nearest
    BY <2>4
  <2>6. nearest \in SUBSET Nat
    BY <1>3, <1>16
  <2> QED
    BY <2>5, <2>6
<1>18. Min(nearest) \in nearest
  <2> HIDE DEF nearest
  <2> QED
    BY <1>17, MinIsLeast
<1>19. PICK m \in scanned : m = Min(nearest) /\ \A w \in scanned : gap(m) <= gap(w)
  BY <1>18
<1>20. PICK s \in scanned : gap(s) <= gap(u)
  BY <1>16
<1>21. gap(m) \in Nat /\ gap(s) \in Nat /\ gap(u) \in Nat /\ gap(m) <= gap(s)
  BY <1>3, <1>15, <1>16, <1>19, <1>20
<1>22. gap(m) <= gap(u)
  BY <1>20, <1>21
<1> QED
  BY <1>14, <1>19, <1>22 DEF gap

\* The two computations of the AUC agree on all records and on the baseline,
\* and the threshold reported is one whose rate is nearest to the target.
THEOREM MeasuresHold == ReportsSpec => []MeasuresAreExact
<1>1. ReportsTypeOK => AucIsPairCount
  <2>1. RowsOf(records) \in SUBSET RowsOf(records) /\ PreV1(records) \in SUBSET RowsOf(records)
    BY DEF PreV1
  <2> QED
    BY <2>1, SegmentAucs DEF AucIsPairCount
<1>2. ReportsTypeOK => ThresholdIsNearest
  BY NearestIsScanned DEF ThresholdIsNearest
<1>3. ReportsTypeOK => MeasuresAreExact
  BY <1>1, <1>2 DEF MeasuresAreExact
<1> QED
  BY <1>3, RecordsTypes, PTL

(***************************************************************************)
(* ExperimentBatch: what is left to do is the rest of the plan's lines,    *)
(* and what is in the log is a line before it.                             *)
(***************************************************************************)

\* The lines of all plans, as they are asked for.
Requests == UNION {{Asked(n, ExpandPlan(n)[k]) : k \in DOMAIN ExpandPlan(n)} : n \in DOMAIN Plans}
PlanLines == UNION {Range(ExpandPlan(n)) : n \in DOMAIN Plans}

ResultDirs == [scores : {NoFile, "empty", "truncated", "all"}, mapped : BOOLEAN,
               config : BOOLEAN, asked : SUBSET Requests]
Stages == {"idle", "clean", "submit", "collect", "map", "config"}

BatchTypeOK ==
  /\ results \in [Experiments -> ResultDirs]
  /\ batch \in [plan : DOMAIN Plans \cup {Unset}, todo : Seq(PlanLines),
                ok : SUBSET Requests, fail : SUBSET Requests]
  /\ step \in [at : Stages, status : 0 .. 3]

Planned == ExpandPlan(batch.plan)

\* The lines to do are the last of the plan; the log is about those before.
Done == Len(Planned) - Len(batch.todo)
RestOfPlan ==
  /\ Done >= 0
  /\ \A i \in 1 .. Len(batch.todo) : batch.todo[i] = Planned[Done + i]
  /\ batch.ok \cup batch.fail \subseteq {Asked(batch.plan, Planned[i]) : i \in 1 .. Done}

\* What the stage of the run says of its result directory.
StageInv ==
  /\ step.at # "idle" => batch.todo # <<>>
  /\ step.at \in {"clean", "submit", "collect"} => results[Id].scores = NoFile
  /\ step.at = "map" => results[Id].scores \in {"truncated", "all"} /\ ~results[Id].mapped
  /\ step.at = "config" /\ step.status = 0 => results[Id].scores # NoFile

\* Only scores that are there have had their fields mapped.
MappedAreScores ==
  \A e \in Experiments : results[e].mapped => results[e].scores \in {"truncated", "all"}

BatchInv ==
  /\ BatchTypeOK
  /\ batch.plan = Unset => batch = NoBatch
  /\ batch.plan # Unset => RestOfPlan
  /\ StageInv /\ MappedAreScores /\ OkHasScores

LEMMA KnownLines ==
  ASSUME NEW n \in DOMAIN Plans
  PROVE  /\ ExpandPlan(n) \in Seq(PlanLines)
         /\ \A k \in 1 .. Len(ExpandPlan(n)) :
              /\ Asked(n, ExpandPlan(n)[k]) \in Requests
              /\ ExpId(Asked(n, ExpandPlan(n)[k])) \in Experiments
<1> DEFINE lines == ExpandPlan(n)
<1>1. lines \in Seq(Range(lines))
  BY BatchAssumption DEF ListsOnce
<1>2. Range(lines) \subseteq PlanLines
  BY DEF PlanLines
<1>3. lines \in Seq(PlanLines) /\ DOMAIN lines = 1 .. Len(lines)
  <2> HIDE DEF lines
  <2> QED BY <1>1, <1>2
<1>4. ASSUME NEW k \in DOMAIN lines
      PROVE  /\ Asked(n, lines[k]) \in Requests
             /\ ExpId(Asked(n, lines[k])) \in Experiments
  BY <1>4 DEF Requests, Experiments, ExperimentsOf
<1> HIDE DEF lines
<1>5. lines \in Seq(PlanLines) /\ \A k \in 1 .. Len(lines) :
              /\ Asked(n, lines[k]) \in Requests
              /\ ExpId(Asked(n, lines[k])) \in Experiments
  BY <1>3, <1>4
<1> QED
  BY <1>5 DEF lines

\* The run in progress, while there are lines to do.
LEMMA RunFacts ==
  ASSUME BatchInv, batch.todo # <<>>
  PROVE  /\ batch.plan \in DOMAIN Plans
         /\ Id \in Experiments /\ CurrentRun \in Requests
         /\ Head(batch.todo) = batch.todo[1]
         /\ Tail(batch.todo) \in Seq(PlanLines) /\ Len(Tail(batch.todo)) = Len(batch.todo) - 1
         /\ \A i \in 1 .. Len(Tail(batch.todo)) : Tail(batch.todo)[i] = batch.todo[i + 1]
         /\ Len(batch.todo) \in Nat \ {0} /\ Len(Planned) \in Nat
         /\ CurrentRun = Asked(batch.plan, Planned[Done + 1])
         /\ Done \in Nat /\ Done + 1 \in 1 .. Len(Planned) /\ RestOfPlan
<1>1. batch.plan # Unset
  BY DEF BatchInv, NoBatch
<1>2. batch.plan \in DOMAIN Plans /\ batch.todo \in Seq(PlanLines) /\ RestOfPlan
  BY <1>1 DEF BatchInv, BatchTypeOK
<1>3. /\ Head(batch.todo) = batch.todo[1]
      /\ Tail(batch.todo) \in Seq(PlanLines) /\ Len(Tail(batch.todo)) = Len(batch.todo) - 1
      /\ \A i \in 1 .. Len(Tail(batch.todo)) : Tail(batch.todo)[i] = batch.todo[i + 1]
      /\ Len(batch.todo) \in Nat \ {0}
  BY <1>2, HeadTailProperties, EmptySeq
<1>4. /\ Planned \in Seq(PlanLines)
      /\ \A k \in 1 .. Len(Planned) :
           /\ Asked(batch.plan, Planned[k]) \in Requests
           /\ ExpId(Asked(batch.plan, Planned[k])) \in Experiments
  BY <1>2, KnownLines DEF Planned
<1>5. Len(Planned) \in Nat
  BY <1>4
<1>6. Done \in Nat /\ Done + 1 \in 1 .. Len(Planned) /\ batch.todo[1] = Planned[Done + 1]
  <2>1. Done >= 0 /\ \A i \in 1 .. Len(batch.todo) : batch.todo[i] = Planned[Done + i]
    BY <1>2 DEF RestOfPlan
  <2>2. 1 \in 1 .. Len(batch.todo) /\ batch.todo[1] = Planned[Done + 1]
    BY <1>3, <2>1
  <2> QED
    BY <1>3, <1>5, <2>1, <2>2 DEF Done
<1>7. CurrentRun = Asked(batch.plan, Planned[Done + 1])
  BY <1>3, <1>6 DEF CurrentRun
<1>8. Id \in Experiments /\ CurrentRun \in Requests
  BY <1>4, <1>6, <1>7 DEF Id
<1> QED
  BY <1>2, <1>3, <1>5, <1>6, <1>7, <1>8

\* The line of the run in progress is not in the log yet.
LEMMA NotYetLogged ==
  ASSUME BatchInv, batch.todo # <<>>
  PROVE  CurrentRun \notin batch.ok \cup batch.fail
<1>1. /\ batch.plan \in DOMAIN Plans /\ Len(Planned) \in Nat /\ Done \in Nat
      /\ CurrentRun = Asked(batch.plan, Planned[Done + 1]) /\ Done + 1 \in 1 .. Len(Planned)
      /\ RestOfPlan
  BY RunFacts
<1>2. SUFFICES ASSUME NEW i \in 1 .. Done, CurrentRun = Asked(batch.plan, Planned[i])
               PROVE  FALSE
  BY <1>1 DEF RestOfPlan
<1>3. \A a, b \in 1 .. Len(Planned) :
        Asked(batch.plan, Planned[a]) = Asked(batch.plan, Planned[b]) => a = b
  <2>1. ListsOnce(batch.plan)
    BY <1>1, BatchAssumption
  <2>2. Planned \in Seq(PlanLines)
    BY <1>1, KnownLines DEF Planned
  <2>3. DOMAIN Planned = 1 .. Len(Planned)
    BY <2>2
  <2> QED
    BY <2>1, <2>3 DEF ListsOnce, Planned
<1>4. i \in 1 .. Len(Planned) /\ i # Done + 1
  BY <1>1, <1>2
<1> QED
  BY <1>1, <1>2, <1>3, <1>4

\* When a run is over its line goes to the log, and the next is to do.
LEMMA LineLogged ==
  ASSUME BatchInv, batch.todo # <<>>, NEW status \in 0 .. 3, Logged(status),
         results' \in [Experiments -> ResultDirs], MappedAreScores',
         \A e \in Experiments : results[e].scores # NoFile => results'[e].scores # NoFile,
         status = 0 => results'[Id].scores # NoFile
  PROVE  BatchInv'
<1>1. /\ batch.plan \in DOMAIN Plans /\ Len(batch.todo) \in Nat \ {0} /\ Len(Planned) \in Nat
      /\ CurrentRun = Asked(batch.plan, Planned[Done + 1]) /\ Done \in Nat /\ RestOfPlan
      /\ Id \in Experiments /\ CurrentRun \in Requests
      /\ Tail(batch.todo) \in Seq(PlanLines) /\ Len(Tail(batch.todo)) = Len(batch.todo) - 1
      /\ \A i \in 1 .. Len(Tail(batch.todo)) : Tail(batch.todo)[i] = batch.todo[i + 1]
  BY RunFacts
<1>2. /\ batch'.plan = batch.plan /\ batch'.todo = Tail(batch.todo)
      /\ batch'.ok = IF status = 0 THEN batch.ok \cup {CurrentRun} ELSE batch.ok
      /\ batch'.fail = IF status # 0 THEN batch.fail \cup {CurrentRun} ELSE batch.fail
      /\ step' = NoRun
      /\ batch' = [batch EXCEPT !.todo = batch'.todo, !.ok = batch'.ok, !.fail = batch'.fail]
  BY DEF Logged, BatchInv, BatchTypeOK
<1>3. BatchTypeOK'
  <2>1. batch'.ok \in SUBSET Requests /\ batch'.fail \in SUBSET Requests
    BY <1>1, <1>2 DEF BatchInv, BatchTypeOK
  <2>2. batch' \in [plan : DOMAIN Plans \cup {Unset}, todo : Seq(PlanLines),
                    ok : SUBSET Requests, fail : SUBSET Requests]
    <3>1. PICK todo, ok, fail : todo = batch'.todo /\ ok = batch'.ok /\ fail = batch'.fail
      OBVIOUS
    <3>2. batch' = [batch EXCEPT !.todo = todo, !.ok = ok, !.fail = fail]
      BY <1>2, <3>1
    <3>3. todo \in Seq(PlanLines) /\ ok \in SUBSET Requests /\ fail \in SUBSET Requests
      BY <1>1, <1>2, <2>1, <3>1
    <3> QED
      BY <3>2, <3>3 DEF BatchInv, BatchTypeOK
  <2>3. step' \in [at : Stages, status : 0 .. 3]
    BY <1>2 DEF NoRun, Stages
  <2> QED
    BY <2>2, <2>3 DEF BatchTypeOK
<1>4. RestOfPlan'
  <2>1. Planned' = Planned
    BY <1>2 DEF Planned
  <2>2. Done' = Done + 1 /\ Len(batch'.todo) = Len(batch.todo) - 1
    <3>1. Len(batch'.todo) = Len(batch.todo) - 1
      BY <1>1, <1>2
    <3>2. PICK n \in Nat, t \in Nat : n = Len(Planned) /\ t = Len(batch.todo)
      BY <1>1
    <3>3. Done' = n - (t - 1) /\ Done = n - t
      BY <2>1, <3>1, <3>2 DEF Done
    <3> QED
      BY <3>1, <3>2, <3>3
  <2>3. /\ \A i \in 1 .. Len(batch.todo) : batch.todo[i] = Planned[Done + i]
        /\ batch.ok \cup batch.fail \subseteq {Asked(batch.plan, Planned[i]) : i \in 1 .. Done}
    BY <1>1 DEF RestOfPlan
  <2>4. ASSUME NEW i \in 1 .. Len(batch'.todo) PROVE batch'.todo[i] = Planned[Done' + i]
    <3>1. batch'.todo[i] = batch.todo[i + 1] /\ i + 1 \in 1 .. Len(batch.todo)
      BY <1>1, <1>2, <2>2
    <3>2. Done + (i + 1) = Done' + i
      BY <1>1, <2>2
    <3> QED
      BY <2>3, <3>1, <3>2
  <2>5. batch'.ok \cup batch'.fail \subseteq {Asked(batch.plan, Planned[i]) : i \in 1 .. Done'}
    <3>1. ASSUME NEW a \in batch.ok \cup batch.fail
          PROVE  a \in {Asked(batch.plan, Planned[i]) : i \in 1 .. Done'}
      BY <1>1, <2>2, <2>3
    <3>2. CurrentRun \in {Asked(batch.plan, Planned[i]) : i \in 1 .. Done'}
      BY <1>1, <2>2
    <3> QED
      BY <1>2, <3>1, <3>2
  <2>6. Done' >= 0
    BY <1>1, <2>2
  <2> QED
    BY <1>2, <2>1, <2>4, <2>5, <2>6 DEF RestOfPlan
<1>5. StageInv'
  BY <1>2 DEF StageInv, NoRun
<1>6. OkHasScores'
  <2>1. CurrentRun \notin batch.ok \cup batch.fail
    BY NotYetLogged
  <2>2. \A asked \in batch'.ok : results'[ExpId(asked)].scores # NoFile
    <3>1. \A asked \in batch.ok : ExpId(asked) \in Experiments /\ results[ExpId(asked)].scores # NoFile
      <4>1. \A asked \in batch.ok : asked \in Requests
        BY DEF BatchInv, BatchTypeOK
      <4> QED
        BY <4>1 DEF BatchInv, OkHasScores, Requests, Experiments, ExperimentsOf
    <3>2. ExpId(CurrentRun) = Id
      BY DEF Id
    <3> QED
      BY <1>2, <3>1, <3>2
  <2>3. batch'.ok \cap batch'.fail = {}
    BY <1>2, <2>1 DEF BatchInv, OkHasScores
  <2> QED
    BY <2>2, <2>3 DEF OkHasScores
<1>7. batch'.plan # Unset
  BY <1>1, <1>2, BatchAssumption
<1> QED
  BY <1>3, <1>4, <1>5, <1>6, <1>7 DEF BatchInv

\* A stage of a run that goes on leaves the log as it is, and no scores vanish.
LEMMA StageKept ==
  ASSUME BatchInv, batch.todo # <<>>, batch' = batch, BatchTypeOK', StageInv',
         MappedAreScores',
         \A e \in Experiments : results[e].scores # NoFile => results'[e].scores # NoFile
  PROVE  BatchInv'
<1>1. batch.plan \in DOMAIN Plans /\ RestOfPlan
  BY RunFacts
<1>a. batch.plan # Unset /\ RestOfPlan'
  BY <1>1, BatchAssumption DEF RestOfPlan, Planned, Done
<1>2. \A asked \in batch.ok : asked \in Requests
  BY DEF BatchInv, BatchTypeOK
<1>3. OkHasScores'
  BY <1>2 DEF BatchInv, OkHasScores, Requests, Experiments, ExperimentsOf
<1> QED
  BY <1>a, <1>3 DEF BatchInv

\* One field of a result directory changes, and those of others do not.
LEMMA FieldSet ==
  ASSUME NEW R \in [Experiments -> ResultDirs], NEW e \in Experiments, NEW d \in ResultDirs
  PROVE  /\ [R EXCEPT ![e] = d] \in [Experiments -> ResultDirs]
         /\ [R EXCEPT ![e] = d][e] = d
         /\ \A f \in Experiments : f # e => [R EXCEPT ![e] = d][f] = R[f]
  OBVIOUS

LEMMA BatchInvInit == BatchInit => BatchInv
<1> SUFFICES ASSUME BatchInit PROVE BatchInv
  OBVIOUS
<1>1. BatchTypeOK
  <2>1. NoResult \in ResultDirs
    BY DEF NoResult, ResultDirs
  <2>2. NoBatch \in [plan : DOMAIN Plans \cup {Unset}, todo : Seq(PlanLines),
                     ok : SUBSET Requests, fail : SUBSET Requests]
    BY DEF NoBatch
  <2> QED
    BY <2>1, <2>2 DEF BatchInit, BatchTypeOK, NoRun, Stages
<1>2. StageInv /\ OkHasScores
  BY DEF BatchInit, StageInv, OkHasScores, NoRun, NoBatch
<1>3. MappedAreScores
  BY DEF BatchInit, MappedAreScores, NoResult
<1> QED
  BY <1>1, <1>2, <1>3 DEF BatchInv, BatchInit, NoBatch

\* What each step does to the results, and when it is taken: the guards that
\* do not name the lines to do have them, since a run is in progress.
LEMMA BatchSteps ==
  ASSUME BatchInv, BatchNext
  PROVE  BatchInv' /\ \A e \in Experiments :
           results[e].mapped /\ results[e].config /\ results'[e] # results[e] =>
             results[e].scores = "truncated" /\ results'[e] = NoResult
<1> DEFINE Stays == \A e \in Experiments :
             results[e].mapped /\ results[e].config /\ results'[e] # results[e] =>
               results[e].scores = "truncated" /\ results'[e] = NoResult
<1>0. /\ BatchTypeOK /\ StageInv /\ MappedAreScores
      /\ results \in [Experiments -> ResultDirs]
      /\ step.at \in Stages /\ step.status \in 0 .. 3
  BY DEF BatchInv, BatchTypeOK
<1>s. ASSUME UNCHANGED results PROVE Stays
  BY <1>s
<1>k. ASSUME UNCHANGED results
      PROVE  /\ results' \in [Experiments -> ResultDirs] /\ MappedAreScores'
             /\ \A e \in Experiments : results[e].scores # NoFile => results'[e].scores # NoFile
  BY <1>0, <1>k DEF MappedAreScores
<1>i. ASSUME batch' = batch PROVE Id' = Id
  BY <1>i DEF Id, CurrentRun
<1>1. CASE \E name \in DOMAIN Plans : StartBatch(name)
  <2>1. PICK name \in DOMAIN Plans : StartBatch(name)
    BY <1>1
  <2>2. batch = NoBatch /\ batch' = [NoBatch EXCEPT !.plan = name, !.todo = ExpandPlan(name)]
        /\ results' = results /\ step' = step
    BY <2>1 DEF StartBatch, BatchInv
  <2>3. /\ batch'.plan = name /\ batch'.todo = ExpandPlan(name) /\ batch'.ok = {} /\ batch'.fail = {}
        /\ batch' = [plan |-> name, todo |-> ExpandPlan(name), ok |-> {}, fail |-> {}]
    BY <2>2 DEF NoBatch
  <2>4. ExpandPlan(name) \in Seq(PlanLines)
    BY KnownLines
  <2>5. BatchTypeOK'
    BY <1>0, <2>2, <2>3, <2>4 DEF BatchTypeOK
  <2>6. RestOfPlan'
    <3>1. Planned' = ExpandPlan(name)
      BY <2>3 DEF Planned
    <3>2. Done' = 0
      BY <2>3, <2>4, <3>1 DEF Done
    <3> QED
      BY <2>3, <2>4, <3>1, <3>2 DEF RestOfPlan
  <2>7. step.at = "idle"
    BY <1>0, <2>2 DEF StageInv, NoBatch
  <2>8. StageInv' /\ MappedAreScores' /\ OkHasScores'
    BY <1>0, <2>2, <2>3, <2>7 DEF StageInv, MappedAreScores, OkHasScores
  <2>9. batch'.plan # Unset
    BY <2>3, BatchAssumption
  <2> QED
    BY <1>s, <2>2, <2>5, <2>6, <2>8, <2>9 DEF BatchInv
<1>2. CASE Begin
  <2>1. CASE HasResult(Id)
    <3>1. Logged(0) /\ results' = results /\ batch.todo # <<>>
      BY <1>2, <2>1 DEF Begin
    <3>2. results'[Id].scores # NoFile
      BY <2>1, <3>1 DEF HasResult
    <3> QED
      BY <1>k, <1>s, <3>1, <3>2, LineLogged
  <2>2. CASE ~HasResult(Id)
    <3>1. batch' = batch /\ results' = results /\ step' = [at |-> "clean", status |-> 1]
          /\ batch.todo # <<>>
      BY <1>2, <2>2 DEF Begin
    <3>2. StageInv'
      BY <1>i, <2>2, <3>1 DEF StageInv, HasResult
    <3>3. BatchTypeOK'
      BY <1>0, <3>1 DEF BatchTypeOK, Stages
    <3> QED
      BY <1>k, <1>s, <3>1, <3>2, <3>3, StageKept
  <2> QED BY <2>1, <2>2
<1>3. CASE \E status \in {2, 3} : NotReady(status)
  <2>1. PICK status \in {2, 3} : NotReady(status)
    BY <1>3
  <2>2. Logged(status) /\ results' = results /\ batch.todo # <<>> /\ status \in 0 .. 3 /\ status # 0
    BY <1>0, <2>1 DEF NotReady, StageInv
  <2> QED
    BY <1>k, <1>s, <2>2, LineLogged
<1>4. CASE SubmitFails
  <2>1. Logged(2) /\ results' = results /\ batch.todo # <<>>
    BY <1>0, <1>4 DEF SubmitFails, StageInv
  <2> QED
    BY <1>k, <1>s, <2>1, LineLogged
<1>5. CASE MakeDirectory
  <2>1. batch.todo # <<>> /\ results[Id].scores = NoFile /\ batch' = batch
        /\ results' = [results EXCEPT ![Id].asked = {CurrentRun}]
        /\ step' = [step EXCEPT !.at = "submit"]
    BY <1>0, <1>5 DEF MakeDirectory, StageInv
  <2>2. Id \in Experiments /\ CurrentRun \in Requests
    BY <2>1, RunFacts
  <2> DEFINE d == [results[Id] EXCEPT !.asked = {CurrentRun}]
  <2>3. d \in ResultDirs /\ d.scores = NoFile /\ d.mapped = results[Id].mapped
    BY <1>0, <2>1, <2>2 DEF ResultDirs
  <2>4. results' = [results EXCEPT ![Id] = d]
    BY <2>1
  <2>5. results[Id].mapped = FALSE
    BY <1>0, <2>1, <2>2 DEF MappedAreScores, ResultDirs, NoFile
  <2> HIDE DEF d
  <2>6. /\ results' \in [Experiments -> ResultDirs] /\ results'[Id] = d
        /\ \A f \in Experiments : f # Id => results'[f] = results[f]
    BY <1>0, <2>2, <2>3, <2>4, FieldSet
  <2>7. BatchTypeOK'
    BY <1>0, <2>1, <2>6 DEF BatchTypeOK, Stages
  <2>8. StageInv'
    BY <1>i, <2>1, <2>3, <2>6 DEF StageInv, BatchTypeOK, Stages
  <2>9. MappedAreScores' /\ Stays
    BY <1>0, <2>3, <2>5, <2>6 DEF MappedAreScores
  <2>10. \A e \in Experiments : results[e].scores # NoFile => results'[e].scores # NoFile
    BY <2>1, <2>6
  <2> QED
    BY <2>1, <2>7, <2>8, <2>9, <2>10, StageKept
<1>6. CASE \E status \in {0, 1} : Wait(status)
  <2>1. PICK status \in {0, 1} : Wait(status)
    BY <1>6
  <2>2. batch.todo # <<>> /\ results[Id].scores = NoFile /\ batch' = batch /\ results' = results
        /\ step' = [at |-> "collect", status |-> status]
    BY <1>0, <2>1 DEF Wait, StageInv
  <2>3. StageInv' /\ BatchTypeOK'
    BY <1>0, <1>i, <2>2 DEF StageInv, BatchTypeOK, Stages
  <2> QED
    BY <1>k, <1>s, <2>2, <2>3, StageKept
<1>7. CASE NothingScored
  <2>1. batch.todo # <<>> /\ batch' = batch /\ results' = results
        /\ step' = [at |-> "config", status |-> 2]
    BY <1>0, <1>7 DEF NothingScored, StageInv
  <2>2. StageInv' /\ BatchTypeOK'
    BY <1>0, <1>i, <2>1 DEF StageInv, BatchTypeOK, Stages
  <2> QED
    BY <1>k, <1>s, <2>1, <2>2, StageKept
<1>8. CASE \E scores \in {"empty", "truncated", "all"} : Dump(scores)
  <2>1. PICK scores \in {"empty", "truncated", "all"} : Dump(scores)
    BY <1>8
  <2>2. batch.todo # <<>> /\ results[Id].scores = NoFile /\ batch' = batch
        /\ results' = [results EXCEPT ![Id].scores = scores]
        /\ step' = IF scores = "empty" THEN [at |-> "config", status |-> 2]
                   ELSE [step EXCEPT !.at = "map"]
    BY <1>0, <2>1 DEF Dump, StageInv
  <2>3. Id \in Experiments
    BY <2>2, RunFacts
  <2> DEFINE d == [results[Id] EXCEPT !.scores = scores]
  <2>4. results[Id].mapped = FALSE
    BY <1>0, <2>2, <2>3 DEF MappedAreScores, ResultDirs, NoFile
  <2>5. d \in ResultDirs /\ d.scores = scores /\ d.mapped = FALSE
    BY <1>0, <2>3, <2>4 DEF ResultDirs
  <2>6. results' = [results EXCEPT ![Id] = d]
    BY <2>2
  <2> HIDE DEF d
  <2>7. /\ results' \in [Experiments -> ResultDirs] /\ results'[Id] = d
        /\ \A f \in Experiments : f # Id => results'[f] = results[f]
    BY <1>0, <2>3, <2>5, <2>6, FieldSet
  <2>8. BatchTypeOK'
    BY <1>0, <2>2, <2>7 DEF BatchTypeOK, Stages
  <2>9. StageInv'
    <3>1. step'.at = IF scores = "empty" THEN "config" ELSE "map"
      BY <1>0, <2>2 DEF BatchTypeOK
    <3>2. scores = "empty" => step'.status = 2
      BY <2>2
    <3>3. Id' = Id /\ batch'.todo # <<>>
      BY <1>i, <2>2
    <3>4. results'[Id].scores = scores /\ ~results'[Id].mapped
      BY <2>5, <2>7
    <3>5. scores # "empty" => scores \in {"truncated", "all"} /\ scores # NoFile
      BY DEF NoFile
    <3> QED
      BY <3>1, <3>2, <3>3, <3>4, <3>5 DEF StageInv
  <2>10. MappedAreScores' /\ Stays
    BY <1>0, <2>4, <2>5, <2>7 DEF MappedAreScores
  <2>11. \A e \in Experiments : results[e].scores # NoFile => results'[e].scores # NoFile
    BY <2>2, <2>7
  <2> QED
    BY <2>2, <2>8, <2>9, <2>10, <2>11, StageKept
<1>9. CASE \E success \in BOOLEAN : MapFields(success)
  <2>1. PICK success \in BOOLEAN : MapFields(success)
    BY <1>9
  <2>2. batch.todo # <<>> /\ results[Id].scores \in {"truncated", "all"} /\ ~results[Id].mapped
        /\ batch' = batch /\ results' = [results EXCEPT ![Id].mapped = success]
        /\ step' = [step EXCEPT !.at = "config"]
    BY <1>0, <2>1 DEF MapFields, StageInv
  <2>3. Id \in Experiments
    BY <2>2, RunFacts
  <2> DEFINE d == [results[Id] EXCEPT !.mapped = success]
  <2>4. d \in ResultDirs /\ d.scores = results[Id].scores
    BY <1>0, <2>3 DEF ResultDirs
  <2>5. results' = [results EXCEPT ![Id] = d]
    BY <2>2
  <2> HIDE DEF d
  <2>6. /\ results' \in [Experiments -> ResultDirs] /\ results'[Id] = d
        /\ \A f \in Experiments : f # Id => results'[f] = results[f]
    BY <1>0, <2>3, <2>4, <2>5, FieldSet
  <2>7. BatchTypeOK'
    BY <1>0, <2>2, <2>6 DEF BatchTypeOK, Stages
  <2>8. step'.at = "config"
    BY <1>0, <2>2 DEF BatchTypeOK
  <2>9. StageInv'
    BY <1>i, <2>2, <2>4, <2>6, <2>8 DEF StageInv, NoFile
  <2>10. MappedAreScores' /\ Stays
    BY <1>0, <2>2, <2>4, <2>6 DEF MappedAreScores
  <2>11. \A e \in Experiments : results[e].scores # NoFile => results'[e].scores # NoFile
    BY <2>2, <2>4, <2>6
  <2> QED
    BY <2>2, <2>7, <2>9, <2>10, <2>11, StageKept
<1>10. CASE WriteConfig
  <2>1. batch.todo # <<>> /\ (step.status = 0 => results[Id].scores # NoFile)
        /\ results' = [results EXCEPT ![Id].config = TRUE] /\ Logged(step.status)
    BY <1>0, <1>10 DEF WriteConfig, StageInv
  <2>2. Id \in Experiments
    BY <2>1, RunFacts
  <2> DEFINE d == [results[Id] EXCEPT !.config = TRUE]
  <2>3. d \in ResultDirs /\ d.scores = results[Id].scores /\ d.mapped = results[Id].mapped
        /\ (results[Id].config => d = results[Id])
    BY <1>0, <2>2 DEF ResultDirs
  <2>4. results' = [results EXCEPT ![Id] = d]
    BY <2>1
  <2> HIDE DEF d
  <2>5. /\ results' \in [Experiments -> ResultDirs] /\ results'[Id] = d
        /\ \A f \in Experiments : f # Id => results'[f] = results[f]
    BY <1>0, <2>2, <2>3, <2>4, FieldSet
  <2>6. MappedAreScores' /\ Stays
    BY <1>0, <2>2, <2>3, <2>5 DEF MappedAreScores
  <2>7. \A e \in Experiments : results[e].scores # NoFile => results'[e].scores # NoFile
    BY <2>3, <2>5
  <2>8. step.status = 0 => results'[Id].scores # NoFile
    BY <2>1, <2>3, <2>5
  <2> QED
    BY <1>0, <2>1, <2>5, <2>6, <2>7, <2>8, LineLogged
<1>11. CASE Interrupt \/ BatchDone
  <2>1. batch' = NoBatch /\ results' = results /\ step' \in {step, NoRun}
        /\ (step' = step => step.at = "idle" \/ step = NoRun)
    BY <1>0, <1>11 DEF Interrupt, BatchDone, StageInv
  <2>2. BatchTypeOK'
    <3>1. NoBatch \in [plan : DOMAIN Plans \cup {Unset}, todo : Seq(PlanLines),
                       ok : SUBSET Requests, fail : SUBSET Requests]
      BY DEF NoBatch
    <3>2. NoRun \in [at : Stages, status : 0 .. 3]
      BY DEF NoRun, Stages
    <3> QED
      BY <1>0, <2>1, <3>1, <3>2 DEF BatchTypeOK
  <2>3. step'.at = "idle"
    BY <2>1 DEF NoRun
  <2>4. StageInv' /\ OkHasScores' /\ MappedAreScores'
    BY <1>0, <2>1, <2>3 DEF StageInv, OkHasScores, MappedAreScores, NoBatch
  <2>5. batch'.plan = Unset
    BY <2>1 DEF NoBatch
  <2> QED
    BY <1>s, <2>1, <2>2, <2>4, <2>5 DEF BatchInv
<1>12. CASE CleanFailed
  <2>1. /\ batch = NoBatch /\ batch' = batch /\ step' = step
        /\ results' = [e \in Experiments |-> IF Incomplete(results[e]) THEN NoResult ELSE results[e]]
    BY <1>12 DEF CleanFailed, BatchInv
  <2>2. NoResult \in ResultDirs /\ NoResult.mapped = FALSE
    BY DEF NoResult, ResultDirs
  <2>3. /\ results' \in [Experiments -> ResultDirs]
        /\ \A e \in Experiments : results'[e] = results[e] \/ (Incomplete(results[e]) /\ results'[e] = NoResult)
    BY <1>0, <2>1, <2>2
  <2>4. MappedAreScores'
    BY <1>0, <2>2, <2>3 DEF MappedAreScores
  <2>5. Stays
    BY <1>0, <2>3 DEF MappedAreScores, Incomplete, NoFile
  <2>6. step.at = "idle"
    BY <1>0, <2>1 DEF StageInv, NoBatch
  <2>7. StageInv' /\ OkHasScores' /\ BatchTypeOK'
    BY <1>0, <2>1, <2>3, <2>6 DEF StageInv, OkHasScores, BatchTypeOK, NoBatch
  <2>8. batch'.plan = Unset
    BY <2>1 DEF NoBatch
  <2> QED
    BY <2>1, <2>4, <2>5, <2>7, <2>8 DEF BatchInv
<1> QED
  BY <1>1, <1>2, <1>3, <1>4, <1>5, <1>6, <1>7, <1>8, <1>9, <1>10, <1>11, <1>12, Zenon DEF BatchNext

LEMMA BatchInductive == BatchSpec => []BatchInv
<1>1. BatchInv /\ UNCHANGED batchVars => BatchInv'
  BY DEF batchVars, BatchInv, BatchTypeOK, RestOfPlan, Done, Planned, StageInv, Id, CurrentRun,
         MappedAreScores, OkHasScores
<1> QED
  BY <1>1, BatchInvInit, BatchSteps, PTL DEF BatchSpec

\* However batches were interrupted, started again and cleaned: a line that a
\* log calls OK has its scores, and no line is both OK and failed.
THEOREM OkMeansScores == BatchSpec => []OkHasScores
<1>1. BatchInv => OkHasScores
  BY DEF BatchInv
<1> QED
  BY <1>1, BatchInductive, PTL

\* A finished result is never run again, and changes only when it is cleaned
\* away because it is truncated.
THEOREM FinishedIsKept == BatchSpec => FinishedStays
<1>1. BatchInv /\ [BatchNext]_batchVars =>
        [\A e \in Experiments :
           results[e].mapped /\ results[e].config /\ results'[e] # results[e] =>
             /\ results[e].scores = "truncated"
             /\ results'[e] = NoResult]_batchVars
  BY BatchSteps DEF batchVars
<1> QED
  BY <1>1, BatchInductive, PTL DEF BatchSpec, FinishedStays

(***************************************************************************)
(* SynthDrift: the concept a generated dataset follows.                    *)
(***************************************************************************)

\* The locals of the loop over the switches, turn by turn.
Blank == [mus |-> [i \in 0 .. call.n - 1 |-> Before], current |-> Before, last |-> 0]
Turn(acc, sw) ==
  [mus |-> [i \in 0 .. call.n - 1 |-> IF i >= acc.last /\ i < sw THEN acc.current ELSE acc.mus[i]],
   current |-> Toggled(acc.current), last |-> sw]
LoopUpTo(g, n) == g = [k \in 0 .. n |-> IF k = 0 THEN Blank ELSE Turn(g[k - 1], Switches[k])]

LEMMA LoopRuns == ASSUME NEW n \in Nat PROVE \E g : LoopUpTo(g, n)
<1> DEFINE bad == {m \in Nat : ~\E g : LoopUpTo(g, m)}
<1>1. SUFFICES ASSUME bad # {} PROVE FALSE
  OBVIOUS
<1>2. PICK m \in bad : \A k \in bad : m <= k
  BY <1>1, LeastNumber
<1>3. m # 0
  <2> DEFINE g == [k \in 0 .. 0 |-> Blank]
  <2>1. LoopUpTo(g, 0)
    BY DEF LoopUpTo
  <2> QED BY <2>1, <1>2
<1>4. PICK g : LoopUpTo(g, m - 1)
  BY <1>2, <1>3
<1> DEFINE new == Turn(g[m - 1], Switches[m])
           h == [k \in 0 .. m |-> IF k = m THEN new ELSE g[k]]
<1>5. /\ \A k \in 0 .. m - 1 : h[k] = g[k]
      /\ h[m] = new
  BY <1>3
<1>6. \A k \in 0 .. m - 1 : g[k] = IF k = 0 THEN Blank ELSE Turn(g[k - 1], Switches[k])
  BY <1>4 DEF LoopUpTo
<1>7. ASSUME NEW k \in 0 .. m
      PROVE  h[k] = IF k = 0 THEN Blank ELSE Turn(h[k - 1], Switches[k])
  <2>1. CASE k = m
    <3>1. h[k - 1] = g[m - 1]
      BY <2>1, <1>3, <1>5
    <3> QED BY <2>1, <3>1, <1>3, <1>5
  <2>2. CASE k # m /\ k # 0
    <3>1. h[k - 1] = g[k - 1] /\ h[k] = g[k]
      BY <2>2, <1>5
    <3> QED BY <2>2, <3>1, <1>6
  <2>3. CASE k = 0
    BY <2>3, <1>3, <1>5, <1>6
  <2> QED BY <2>1, <2>2, <2>3
<1>8. LoopUpTo(h, m)
  <2> HIDE DEF new
  <2> QED BY <1>7 DEF LoopUpTo
<1> QED BY <1>2, <1>8

LEMMA SlicesAreTurns ==
  \E g : /\ Slices = g[Len(Switches)] /\ g[0] = Blank
         /\ \A k \in 1 .. Len(Switches) : g[k] = Turn(g[k - 1], Switches[k])
<1> DEFINE g == CHOOSE g : LoopUpTo(g, Len(Switches))
<1>1. LoopUpTo(g, Len(Switches))
  BY SynthAssumption, LoopRuns
<1>2. Slices = g[Len(Switches)]
  BY DEF Slices, LoopUpTo, Blank, Turn
<1> HIDE DEF g
<1>3. g[0] = Blank
  BY <1>1, SynthAssumption DEF LoopUpTo
<1>4. ASSUME NEW k \in 1 .. Len(Switches) PROVE g[k] = Turn(g[k - 1], Switches[k])
  <2>1. k \in 0 .. Len(Switches) /\ k # 0
    OBVIOUS
  <2> QED BY <1>1, <2>1 DEF LoopUpTo
<1> QED BY <1>2, <1>3, <1>4

\* The switches up to line i, and the mean after so many of them.
Switched(i) == {e \in DOMAIN Switches : Switches[e] <= i}
MeanAfter(k) == IF k % 2 = 0 THEN Before ELSE 1

LEMMA SwitchedSoFar ==
  ASSUME NEW i \in Nat, NEW k \in 0 .. Len(Switches),
         k > 0 => Switches[k] <= i, k < Len(Switches) => i < Switches[k + 1]
  PROVE  Cardinality(Switched(i)) = k
<1>1. /\ Switches \in Seq(Nat) /\ DOMAIN Switches = 1 .. Len(Switches) /\ Len(Switches) \in Nat
      /\ \A e \in 1 .. Len(Switches) : Switches[e] \in Nat
      /\ \A d, e \in 1 .. Len(Switches) : d < e => Switches[d] < Switches[e]
  BY SynthAssumption
<1>2. \A e \in 1 .. k : Switches[e] <= i
  <2> SUFFICES ASSUME NEW e \in 1 .. k PROVE Switches[e] <= i
    OBVIOUS
  <2>1. e = k \/ Switches[e] < Switches[k]
    BY <1>1
  <2> QED BY <1>1, <2>1
<1>3. \A e \in DOMAIN Switches : e > k => Switches[e] > i
  <2> SUFFICES ASSUME NEW e \in DOMAIN Switches, e > k PROVE Switches[e] > i
    OBVIOUS
  <2>1. e = k + 1 \/ Switches[k + 1] < Switches[e]
    BY <1>1
  <2> QED BY <1>1, <2>1
<1>4. Switched(i) = 1 .. k
  BY <1>1, <1>2, <1>3 DEF Switched
<1> QED BY <1>4, FS_Interval

LEMMA MeansAlternate ==
  ASSUME call.n \in Nat, NEW i \in 0 .. call.n - 1
  PROVE  ReoccurringMean(i) = MeanAfter(Cardinality(Switched(i)))
<1> DEFINE n == Len(Switches)
<1>1. /\ Switches \in Seq(Nat) /\ n \in Nat
      /\ \A e \in 1 .. n : Switches[e] \in Nat
      /\ \A d, e \in 1 .. n : d < e => Switches[d] < Switches[e]
  BY SynthAssumption
<1> HIDE DEF n
<1>2. PICK g : /\ Slices = g[n] /\ g[0] = Blank
               /\ \A k \in 1 .. n : g[k] = Turn(g[k - 1], Switches[k])
  BY SlicesAreTurns DEF n
<1> DEFINE Good(v, k) ==
             /\ v.current = MeanAfter(k)
             /\ v.last = IF k = 0 THEN 0 ELSE Switches[k]
             /\ i < v.last => v.mus[i] = MeanAfter(Cardinality(Switched(i)))
           bad == {k \in 0 .. n : ~Good(g[k], k)}
<1>3. ASSUME bad # {} PROVE FALSE
  <2>1. PICK m \in bad : \A k \in bad : m <= k
    <3>1. bad \in SUBSET Nat
      OBVIOUS
    <3> HIDE DEF bad
    <3> QED BY <1>3, <3>1, LeastNumber
  <2>2. m # 0
    <3>1. Good(Blank, 0)
      BY DEF Blank, MeanAfter
    <3> HIDE DEF Good
    <3> QED BY <1>2, <2>1, <3>1
  <2>3. Good(g[m - 1], m - 1) /\ m \in 1 .. n
    <3> HIDE DEF Good
    <3> QED BY <1>1, <2>1, <2>2
  <2> DEFINE v == g[m - 1]
  <2>4. g[m] = Turn(v, Switches[m])
    BY <1>2, <2>3
  <2>5. Good(v, m - 1)
    BY <2>3
  <2> HIDE DEF v
  <2>6. /\ g[m].current = Toggled(v.current) /\ g[m].last = Switches[m]
        /\ g[m].mus[i] = IF i >= v.last /\ i < Switches[m] THEN v.current ELSE v.mus[i]
    BY <2>4 DEF Turn
  <2>7. g[m].current = MeanAfter(m)
    BY <2>3, <2>5, <2>6 DEF Toggled, MeanAfter, Before
  <2>8. ASSUME i < Switches[m] PROVE g[m].mus[i] = MeanAfter(Cardinality(Switched(i)))
    <3>1. CASE i < v.last
      <4>1. v.last \in Nat
        BY <1>1, <2>3, <2>5
      <4> QED BY <2>5, <2>6, <3>1, <4>1
    <3>2. CASE ~(i < v.last)
      <4>1. v.last \in Nat
        BY <1>1, <2>3, <2>5
      <4>2. g[m].mus[i] = MeanAfter(m - 1)
        BY <2>5, <2>6, <2>8, <3>2, <4>1
      <4>3. Cardinality(Switched(i)) = m - 1
        <5>1. m - 1 \in 0 .. Len(Switches) /\ m - 1 < Len(Switches) /\ m - 1 + 1 = m /\ i \in Nat
          BY <1>1, <2>3 DEF n
        <5>2. m - 1 > 0 => Switches[m - 1] <= i
          BY <1>1, <2>3, <2>5, <3>2, <4>1
        <5> QED BY <2>8, <5>1, <5>2, SwitchedSoFar
      <4> QED BY <4>2, <4>3
    <3> QED BY <3>1, <3>2
  <2>9. Good(g[m], m)
    BY <2>2, <2>6, <2>7, <2>8
  <2> QED BY <2>1, <2>9
<1>4. Good(g[n], n)
  BY <1>1, <1>3
<1>5. CASE i >= Slices.last
  <2>1. ReoccurringMean(i) = MeanAfter(n)
    BY <1>2, <1>4, <1>5 DEF ReoccurringMean
  <2>2. Cardinality(Switched(i)) = n
    <3>1. n \in 0 .. Len(Switches) /\ ~(n < Len(Switches)) /\ i \in Nat
      BY <1>1 DEF n
    <3>2. n > 0 => Switches[n] <= i
      BY <1>1, <1>2, <1>4, <1>5
    <3> QED BY <3>1, <3>2, SwitchedSoFar
  <2> QED BY <2>1, <2>2
<1>6. CASE ~(i >= Slices.last)
  <2>1. Slices.last \in Nat
    BY <1>1, <1>2, <1>4
  <2> QED BY <1>2, <1>4, <1>6, <2>1 DEF ReoccurringMean
<1> QED BY <1>5, <1>6

SynthInv ==
  /\ call \in Calls
  /\ stream \in Seq([anomaly : BOOLEAN, mean : Int])
  /\ Len(stream) <= call.n
  /\ \A i \in 1 .. Len(stream) : ~stream[i].anomaly => stream[i].mean \in Means(i - 1)

\* What EventsTellTheConcept says of the mean of a normal row on line i.
Told(i, mean) ==
  IF \E e \in DOMAIN Events : UnderWay(Events[e], i)
  THEN mean \in Before .. After(call)
  ELSE mean = IF Cardinality({e \in DOMAIN Events : Over(Events[e], i)}) % 2 = 0
              THEN Before ELSE After(call)

LEMMA CallTypes ==
  ASSUME call \in Calls
  PROVE  /\ call.n \in Nat /\ call.version \in {1, 2}
         /\ call.name \in {"synth_abrupt", "synth_gradual", "synth_incremental", "synth_reoccurring"}
BY SynthAssumption DEF Calls

\* A single event.
LEMMA OneEvent ==
  ASSUME NEW e, Events = <<e>>, NEW i
  PROVE  /\ (\E x \in DOMAIN Events : UnderWay(Events[x], i)) <=> UnderWay(e, i)
         /\ Over(e, i) => Cardinality({x \in DOMAIN Events : Over(Events[x], i)}) = 1
         /\ ~Over(e, i) => Cardinality({x \in DOMAIN Events : Over(Events[x], i)}) = 0
<1>1. DOMAIN Events = {1} /\ Events[1] = e
  OBVIOUS
<1>2. ASSUME Over(e, i) PROVE Cardinality({x \in DOMAIN Events : Over(Events[x], i)}) = 1
  <2>1. {x \in DOMAIN Events : Over(Events[x], i)} = {1}
    BY <1>1, <1>2
  <2> QED BY <2>1, FS_Singleton
<1>3. ASSUME ~Over(e, i) PROVE Cardinality({x \in DOMAIN Events : Over(Events[x], i)}) = 0
  <2>1. {x \in DOMAIN Events : Over(Events[x], i)} = {}
    BY <1>1, <1>3
  <2> QED BY <2>1, FS_EmptySet
<1> QED BY <1>1, <1>2, <1>3

LEMMA MeansAreTold ==
  ASSUME call \in Calls, NEW i \in 0 .. call.n - 1, NEW mean \in Means(i)
  PROVE  Told(i, mean)
<1>1. /\ call.n \in Nat /\ call.version \in {1, 2}
      /\ call.name \in {"synth_abrupt", "synth_gradual", "synth_incremental", "synth_reoccurring"}
  BY CallTypes
<1>2. CASE call.name = "synth_abrupt"
  <2> DEFINE e == [start |-> DriftAt, end |-> DriftAt + 1]
  <2>1. Events = <<e>> /\ mean = AbruptMean(i) /\ Sudden /\ After(call) = 1
    BY <1>2 DEF Events, Means, Sudden, After, Linear
  <2>2. (Over(e, i) <=> DriftAt <= i) /\ ~UnderWay(e, i)
    BY <2>1 DEF Over, UnderWay
  <2> HIDE DEF e
  <2>3. CASE DriftAt <= i
    <3>1. mean = 1
      BY <1>1, <2>1, <2>3, SynthAssumption DEF AbruptMean
    <3> QED BY <2>1, <2>2, <2>3, <3>1, OneEvent DEF Told
  <2>4. CASE ~(DriftAt <= i)
    <3>1. mean = Before
      BY <1>1, <2>1, <2>4, SynthAssumption DEF AbruptMean
    <3> QED BY <2>1, <2>2, <2>4, <3>1, OneEvent DEF Told
  <2> QED BY <2>3, <2>4
<1>3. CASE call.name = "synth_reoccurring"
  <2>1. /\ Events = [e \in DOMAIN Switches |-> [start |-> Switches[e], end |-> Switches[e] + 1]]
        /\ mean = ReoccurringMean(i) /\ Sudden /\ After(call) = 1
    BY <1>3 DEF Events, Means, Sudden, After, Linear
  <2>2. /\ DOMAIN Events = DOMAIN Switches
        /\ \A e \in DOMAIN Switches : Events[e].start = Switches[e]
    BY <2>1
  <2>3. \A e \in DOMAIN Switches :
          (Over(Events[e], i) <=> Switches[e] <= i) /\ ~UnderWay(Events[e], i)
    BY <2>1, <2>2 DEF Over, UnderWay
  <2>4. {e \in DOMAIN Events : Over(Events[e], i)} = Switched(i)
    BY <2>2, <2>3 DEF Switched
  <2>5. mean = MeanAfter(Cardinality(Switched(i)))
    BY <1>1, <2>1, MeansAlternate
  <2> QED BY <2>1, <2>2, <2>3, <2>4, <2>5 DEF Told, MeanAfter
<1>4. CASE call.name \in {"synth_gradual", "synth_incremental"}
  <2> DEFINE e == Transition(call)
  <2>1. Events = <<e>> /\ ~Sudden
    BY <1>4 DEF Events, Sudden
  <2>2. e.start \in Nat /\ e.end \in Nat /\ e.start < e.end /\ i \in Nat
    BY <1>1, SynthAssumption DEF Transition
  <2>3. (Over(e, i) <=> e.end <= i) /\ (UnderWay(e, i) <=> e.start <= i /\ ~(e.end <= i))
    BY <2>1 DEF Over, UnderWay
  <2>4. CASE Linear(call)
    <3>1. mean = LinearMean(call, i) /\ After(call) = e.end - e.start
      BY <1>4, <2>4 DEF Means, After, Linear
    <3> HIDE DEF e
    <3>2. mean = IF i < e.start THEN 0 ELSE IF i > e.end THEN e.end - e.start ELSE i - e.start
      BY <3>1 DEF LinearMean, Before, After, e
    <3>3. CASE e.end <= i
      BY <2>1, <2>2, <2>3, <3>1, <3>2, <3>3, OneEvent DEF Told
    <3>4. CASE i < e.start
      BY <2>1, <2>2, <2>3, <3>1, <3>2, <3>4, OneEvent DEF Told, Before
    <3>5. CASE e.start <= i /\ i < e.end
      BY <2>1, <2>2, <2>3, <3>1, <3>2, <3>5, OneEvent DEF Told, Before
    <3> QED BY <2>2, <3>3, <3>4, <3>5
  <2>5. CASE ~Linear(call)
    <3>1. /\ mean \in MixtureMeans(i) /\ After(call) = 1
          /\ e.start = GradualStart /\ e.end = GradualEnd
      BY <1>4, <2>5 DEF Means, After, Linear, Transition
    <3> HIDE DEF e
    <3>2. CASE e.end <= i
      BY <2>1, <2>2, <2>3, <3>1, <3>2, OneEvent DEF Told, MixtureMeans
    <3>3. CASE i < e.start
      BY <2>1, <2>2, <2>3, <3>1, <3>3, OneEvent DEF Told, MixtureMeans
    <3>4. CASE e.start <= i /\ i < e.end
      BY <2>1, <2>2, <2>3, <3>1, <3>4, OneEvent DEF Told, MixtureMeans, Before
    <3> QED BY <2>2, <3>2, <3>3, <3>4
  <2> QED BY <2>4, <2>5
<1> QED BY <1>1, <1>2, <1>3, <1>4

\* The means depend on the call only.
LEMMA MeansStay == call' = call => \A i : Means(i)' = Means(i)
BY DEF Means, ReoccurringMean, Slices

LEMMA SynthStep == SynthInv /\ [SynthNext]_synthVars => SynthInv'
<1> SUFFICES ASSUME SynthInv, [SynthNext]_synthVars PROVE SynthInv'
  OBVIOUS
<1>1. ASSUME NEW anomaly \in BOOLEAN, GenerateRow(anomaly) PROVE SynthInv'
  <2>1. PICK mean \in Means(Len(stream)) :
          stream' = Append(stream, [anomaly |-> anomaly, mean |-> IF anomaly THEN AnomalyMean ELSE mean])
    BY <1>1 DEF GenerateRow
  <2> DEFINE row == [anomaly |-> anomaly, mean |-> IF anomaly THEN AnomalyMean ELSE mean]
  <2>2. Len(stream) < call.n /\ call' = call /\ call \in Calls /\ call.n \in Nat
    BY <1>1, CallTypes DEF GenerateRow, SynthInv
  <2>3. \A i : Means(i)' = Means(i)
    BY <2>2, MeansStay
  <2>4. mean \in Int
    <3>1. Told(Len(stream), mean)
      BY <2>2, MeansAreTold DEF SynthInv
    <3>2. Before \in Int /\ After(call) \in Int
      BY SynthAssumption DEF Before, After, Transition
    <3> QED BY <3>1, <3>2 DEF Told
  <2> QED BY <2>1, <2>2, <2>3, <2>4 DEF SynthInv, AnomalyMean
<1>2. CASE UNCHANGED synthVars
  <2>1. UNCHANGED <<call, stream>>
    BY <1>2 DEF synthVars
  <2>2. \A i : Means(i)' = Means(i)
    BY <2>1, MeansStay
  <2> QED BY <2>1, <2>2 DEF SynthInv
<1> QED BY <1>1, <1>2 DEF SynthNext

\* For every length of the stream and every place of the drifts, the events of
\* the driftspec tell the concept of each normal row.
THEOREM ConceptIsTold == SynthSpec => []EventsTellTheConcept
<1>1. SynthInit => SynthInv
  BY CallTypes DEF SynthInit, SynthInv
<1>2. SynthInv => EventsTellTheConcept
  <2> SUFFICES ASSUME SynthInv, NEW i \in 0 .. Len(stream) - 1, ~stream[i + 1].anomaly
               PROVE  Told(i, stream[i + 1].mean)
    BY DEF EventsTellTheConcept, Told
  <2>1. call \in Calls /\ call.n \in Nat /\ Len(stream) \in Nat /\ Len(stream) <= call.n
    BY CallTypes DEF SynthInv
  <2>2. i + 1 \in 1 .. Len(stream) /\ i + 1 - 1 = i /\ i \in 0 .. call.n - 1
    BY <2>1
  <2>3. stream[i + 1].mean \in Means(i)
    BY <2>2 DEF SynthInv
  <2> QED BY <2>1, <2>2, <2>3, MeansAreTold
<1> QED BY <1>1, <1>2, SynthStep, PTL DEF SynthSpec

(***************************************************************************)
(* OfflineResults: the rows of the result files.                           *)
(***************************************************************************)

\* What is left of the first rows of a file, row by row.
KeepsUpTo(g, s, name, n) ==
  g = [i \in 0 .. n |->
        IF i = 0 THEN <<>>
        ELSE IF s[i].dataset = name THEN g[i - 1] ELSE Append(g[i - 1], s[i])]

LEMMA KeepingExists ==
  ASSUME NEW s, NEW name, NEW n \in Nat
  PROVE  \E g : KeepsUpTo(g, s, name, n)
<1> DEFINE bad == {m \in Nat : ~\E g : KeepsUpTo(g, s, name, m)}
<1>1. SUFFICES ASSUME bad # {} PROVE FALSE
  OBVIOUS
<1>2. PICK m \in bad : \A k \in bad : m <= k
  BY <1>1, LeastNumber
<1>3. m # 0
  <2> DEFINE g == [i \in 0 .. 0 |-> <<>>]
  <2>1. KeepsUpTo(g, s, name, 0)
    BY DEF KeepsUpTo
  <2> QED BY <2>1, <1>2
<1>4. PICK g : KeepsUpTo(g, s, name, m - 1)
  BY <1>2, <1>3
<1> DEFINE Next1 == IF s[m].dataset = name THEN g[m - 1] ELSE Append(g[m - 1], s[m])
           h == [i \in 0 .. m |-> IF i = m THEN Next1 ELSE g[i]]
<1>5. \A i \in 0 .. m - 1 : h[i] = g[i]
  BY <1>3
<1>6. h[m] = Next1
  OBVIOUS
<1>7. \A i \in 0 .. m - 1 : g[i] =
        IF i = 0 THEN <<>>
        ELSE IF s[i].dataset = name THEN g[i - 1] ELSE Append(g[i - 1], s[i])
  BY <1>4 DEF KeepsUpTo
<1>8. ASSUME NEW i \in 0 .. m
      PROVE  h[i] = IF i = 0 THEN <<>>
                    ELSE IF s[i].dataset = name THEN h[i - 1] ELSE Append(h[i - 1], s[i])
  <2>1. CASE i = m
    <3>1. h[i - 1] = g[m - 1]
      BY <2>1, <1>3, <1>5
    <3> QED BY <2>1, <3>1, <1>3, <1>6
  <2>2. CASE i # m /\ i # 0
    <3>1. h[i - 1] = g[i - 1] /\ h[i] = g[i]
      BY <2>2, <1>5
    <3> QED BY <2>2, <3>1, <1>7
  <2>3. CASE i = 0
    BY <2>3, <1>3, <1>5, <1>7
  <2> QED BY <2>1, <2>2, <2>3
<1>9. KeepsUpTo(h, s, name, m)
  <2> HIDE DEF Next1
  <2> QED BY <1>8 DEF KeepsUpTo
<1> QED BY <1>2, <1>9

LEMMA WithoutKeeps ==
  ASSUME NEW s, NEW name, Len(s) \in Nat
  PROVE  \E g : /\ Without(s, name) = g[Len(s)]
                /\ g[0] = <<>>
                /\ \A i \in 1 .. Len(s) :
                     g[i] = IF s[i].dataset = name THEN g[i - 1] ELSE Append(g[i - 1], s[i])
<1> DEFINE g == CHOOSE g : KeepsUpTo(g, s, name, Len(s))
<1>1. KeepsUpTo(g, s, name, Len(s))
  BY KeepingExists
<1>2. Without(s, name) = g[Len(s)]
  BY DEF Without, KeepsUpTo
<1> HIDE DEF g
<1>3. g[0] = <<>>
  BY <1>1 DEF KeepsUpTo
<1>4. ASSUME NEW i \in 1 .. Len(s)
      PROVE  g[i] = IF s[i].dataset = name THEN g[i - 1] ELSE Append(g[i - 1], s[i])
  <2>1. i \in 0 .. Len(s) /\ i # 0
    OBVIOUS
  <2> QED BY <1>1, <2>1 DEF KeepsUpTo
<1> QED BY <1>2, <1>3, <1>4

Once(s) == \A i, j \in DOMAIN s : s[i].dataset = s[j].dataset => i = j

\* The rows that are left are those of other datasets, each dataset once
\* when it was there once.
LEMMA WithoutIs ==
  ASSUME NEW S, NEW s \in Seq(S), NEW name, NEW w, w = Without(s, name)
  PROVE  /\ w \in Seq(S)
         /\ \A k \in DOMAIN w : \E j \in DOMAIN s : w[k] = s[j] /\ s[j].dataset # name
         /\ \A j \in DOMAIN s : s[j].dataset # name => \E k \in DOMAIN w : w[k] = s[j]
         /\ Once(s) => Once(w)
<1> DEFINE n == Len(s)
<1>1. n \in Nat /\ DOMAIN s = 1 .. n
  OBVIOUS
<1>2. PICK g : /\ w = g[n]
               /\ g[0] = <<>>
               /\ \A i \in 1 .. n :
                    g[i] = IF s[i].dataset = name THEN g[i - 1] ELSE Append(g[i - 1], s[i])
  BY <1>1, WithoutKeeps
<1> HIDE DEF n
<1> DEFINE Good(v, m) ==
             /\ v \in Seq(S)
             /\ \A k \in DOMAIN v : \E j \in 1 .. m : v[k] = s[j] /\ s[j].dataset # name
             /\ \A j \in 1 .. m : s[j].dataset # name => \E k \in DOMAIN v : v[k] = s[j]
             /\ Once(s) => Once(v)
           bad == {m \in 0 .. n : ~Good(g[m], m)}
<1>3. ASSUME bad # {} PROVE FALSE
  <2>1. PICK m \in bad : \A k \in bad : m <= k
    <3>1. bad \in SUBSET Nat
      OBVIOUS
    <3> HIDE DEF bad
    <3> QED BY <1>3, <3>1, LeastNumber
  <2>2. m # 0
    <3>1. Good(<<>>, 0)
      BY DEF Once
    <3> HIDE DEF Good
    <3> QED BY <1>2, <2>1, <3>1
  <2>3. Good(g[m - 1], m - 1) /\ m \in 1 .. n
    <3> HIDE DEF Good
    <3> QED BY <1>1, <2>1, <2>2
  <2> DEFINE v == g[m - 1]
  <2>4. g[m] = IF s[m].dataset = name THEN v ELSE Append(v, s[m])
    BY <1>2, <2>3
  <2>5. v \in Seq(S) /\ s[m] \in S /\ m - 1 \in 0 .. n /\ 1 .. m = (1 .. m - 1) \cup {m}
    BY <1>1, <2>3
  <2> HIDE DEF v
  <2>6. Good(v, m - 1)
    BY <2>3 DEF v
  <2>7. Good(g[m], m)
    <3>1. CASE s[m].dataset = name
      <4>1. g[m] = v
        BY <2>4, <3>1
      <4>2. \A j \in 1 .. m : s[j].dataset # name => j \in 1 .. m - 1
        BY <2>5, <3>1
      <4>3. \A k \in DOMAIN v : \E j \in 1 .. m : v[k] = s[j] /\ s[j].dataset # name
        BY <2>5, <2>6
      <4> QED BY <2>6, <4>1, <4>2, <4>3
    <3>2. CASE s[m].dataset # name
      <4> DEFINE u == Append(v, s[m])
      <4>1. /\ g[m] = u /\ u \in Seq(S) /\ DOMAIN u = (DOMAIN v) \cup {Len(v) + 1}
            /\ Len(v) + 1 \notin DOMAIN v
            /\ \A k \in DOMAIN v : u[k] = v[k]
            /\ u[Len(v) + 1] = s[m]
        BY <2>4, <2>5, <3>2
      <4> HIDE DEF u
      <4>2. \A k \in DOMAIN u : \E j \in 1 .. m : u[k] = s[j] /\ s[j].dataset # name
        BY <2>5, <2>6, <3>2, <4>1
      <4>3. \A j \in 1 .. m : s[j].dataset # name => \E k \in DOMAIN u : u[k] = s[j]
        BY <2>5, <2>6, <4>1, SMTT(30)
      <4>4. ASSUME Once(s) PROVE Once(u)
        <5>1. Once(v)
          BY <2>6, <4>4
        <5>2. ASSUME NEW k \in DOMAIN v PROVE v[k].dataset # s[m].dataset
          <6>1. PICK j \in 1 .. m - 1 : v[k] = s[j]
            BY <2>6
          <6>2. j \in DOMAIN s /\ m \in DOMAIN s /\ j # m
            BY <1>1, <2>3
          <6> QED BY <4>4, <6>1, <6>2 DEF Once
        <5> QED BY <4>1, <5>1, <5>2 DEF Once
      <4> QED BY <4>1, <4>2, <4>3, <4>4
    <3> QED BY <3>1, <3>2
  <2> QED BY <2>1, <2>7
<1>4. Good(g[n], n)
  BY <1>1, <1>3
<1>5. Good(w, n)
  BY <1>2, <1>4
<1> QED BY <1>1, <1>5, ZenonT(40)

\* A file that consists of rows of others, then rows of the dataset.
LEMMA WithoutRest ==
  ASSUME NEW S, NEW w \in Seq(S), NEW t \in Seq(S), NEW name,
         \A k \in DOMAIN w : w[k].dataset # name,
         \A k \in DOMAIN t : t[k].dataset = name
  PROVE  Without(w \o t, name) = w
<1> DEFINE s == w \o t
           n == Len(s)
           l == Len(w)
           Short(i) == IF i <= l THEN i ELSE l
<1>1. /\ s \in Seq(S) /\ n \in Nat /\ l \in Nat /\ n = l + Len(t) /\ Len(t) \in Nat
      /\ \A i \in 1 .. n : s[i] = IF i <= l THEN w[i] ELSE t[i - l]
  OBVIOUS
<1>2. /\ \A i \in 1 .. l : s[i].dataset # name /\ s[i] = w[i]
      /\ \A i \in 1 .. n : i > l => s[i].dataset = name
  BY <1>1
<1> HIDE DEF s, n
<1>3. PICK g : /\ Without(s, name) = g[n]
               /\ g[0] = <<>>
               /\ \A i \in 1 .. n :
                    g[i] = IF s[i].dataset = name THEN g[i - 1] ELSE Append(g[i - 1], s[i])
  <2>1. Len(s) \in Nat
    BY <1>1 DEF n
  <2> QED BY <2>1, WithoutKeeps DEF n
<1> DEFINE Good(v, m) == /\ v \in Seq(S) /\ Len(v) = Short(m)
                         /\ \A k \in 1 .. Short(m) : v[k] = w[k]
           bad == {m \in 0 .. n : ~Good(g[m], m)}
<1>4. ASSUME bad # {} PROVE FALSE
  <2>1. bad \in SUBSET Nat
    OBVIOUS
  <2>2. PICK m \in bad : \A k \in bad : m <= k
    <3> HIDE DEF bad
    <3> QED BY <1>4, <2>1, LeastNumber
  <2>3. m # 0
    <3>1. Good(<<>>, 0)
      BY <1>1
    <3> HIDE DEF Good
    <3> QED BY <1>3, <2>2, <3>1
  <2>4. m \in 1 .. n /\ Good(g[m - 1], m - 1)
    <3> HIDE DEF Good
    <3> QED BY <1>1, <2>2, <2>3
  <2> DEFINE v == g[m - 1]
  <2>5. g[m] = IF s[m].dataset = name THEN v ELSE Append(v, s[m])
    BY <1>3, <2>4
  <2>6. Good(v, m - 1)
    BY <2>4
  <2> HIDE DEF v
  <2>7. CASE m <= l
    <3>1. g[m] = Append(v, w[m]) /\ w[m] \in S
      BY <1>1, <1>2, <2>4, <2>5, <2>7
    <3>2. v \in Seq(S) /\ Len(v) = m - 1 /\ \A k \in 1 .. m - 1 : v[k] = w[k]
      BY <1>1, <2>4, <2>6, <2>7
    <3>3. Good(g[m], m)
      BY <1>1, <2>4, <2>7, <3>1, <3>2
    <3> QED BY <2>2, <3>3
  <2>8. CASE m > l
    <3>1. g[m] = v
      BY <1>2, <2>4, <2>5, <2>8
    <3>2. Short(m) = Short(m - 1)
      BY <1>1, <2>4, <2>8
    <3>3. Good(g[m], m)
      BY <2>6, <3>1, <3>2
    <3> QED BY <2>2, <3>3
  <2> QED BY <1>1, <2>4, <2>7, <2>8
<1>5. Good(g[n], n)
  BY <1>1, <1>4, SMTT(30)
<1>6. Short(n) = l
  BY <1>1
<1>7. g[n] = w
  BY <1>5, <1>6
<1> QED BY <1>3, <1>7 DEF s

RowSet == [dataset : Datasets, run : Nat]

ResultsTypeInv ==
  /\ files \in [Files -> Seq(RowSet)]
  /\ runNo \in Nat /\ failed \subseteq Nat
  /\ lastRun \in [Files -> [Datasets -> Nat]]
  /\ task \in [busy : BOOLEAN, sweep : BOOLEAN, dataset : Datasets \cup {All},
               specs : Seq(Datasets), streams : [Files -> Seq(RowSet)]]

AskedFor == IF task.dataset = All THEN Datasets ELSE {task.dataset}

\* Rows in the files are of earlier runs, and each of the last one that wrote
\* its dataset; datasets with details have a summary.
RowIsLast(f, r) ==
  /\ r.run = lastRun[f][r.dataset] /\ r.run \notin failed
  /\ r.run <= runNo /\ (task.busy => r.run < runNo)

FilesInv ==
  /\ \A x \in failed : x <= runNo /\ (task.busy => x < runNo)
  /\ \A f \in Files : Once(files[f]) /\ \A k \in DOMAIN files[f] : RowIsLast(f, files[f][k])
  /\ \A f \in Details : \A k \in DOMAIN files[f] :
       \E j \in DOMAIN files["summary"] : files["summary"][j].dataset = files[f][k].dataset

\* The rows of the current run are those of the specs that are done.
StreamsInv ==
  task.busy =>
    /\ IsInjective(task.specs) /\ \A i \in DOMAIN task.specs : task.specs[i] \in AskedFor
    /\ \A f \in Files : Once(task.streams[f]) /\ \A k \in DOMAIN task.streams[f] :
         /\ task.streams[f][k].run = runNo
         /\ task.streams[f][k].dataset \in AskedFor
         /\ \A i \in DOMAIN task.specs : task.specs[i] # task.streams[f][k].dataset
    /\ \A f \in Files : ~(task.sweep <=> f = "ksconfirm") => task.streams[f] = <<>>
    /\ ~task.sweep => \A d \in AskedFor :
         \/ \E i \in DOMAIN task.specs : task.specs[i] = d
         \/ \E k \in DOMAIN task.streams["summary"] : task.streams["summary"][k].dataset = d

ResultsInv == ResultsTypeInv /\ FilesInv /\ StreamsInv

LEMMA RowTypes ==
  ASSUME ResultsTypeInv, NEW f \in Files
  PROVE  /\ \A k \in DOMAIN files[f] :
              /\ files[f][k].dataset \in Datasets /\ files[f][k].run \in Nat
              /\ files[f][k] = [dataset |-> files[f][k].dataset, run |-> files[f][k].run]
         /\ \A k \in DOMAIN task.streams[f] :
              LET r == task.streams[f][k]
              IN  r.dataset \in Datasets /\ r.run \in Nat /\ r = [dataset |-> r.dataset, run |-> r.run]
<1>1. files[f] \in Seq(RowSet) /\ task.streams[f] \in Seq(RowSet)
  BY DEF ResultsTypeInv
<1>2. \A k \in DOMAIN files[f] : files[f][k] \in RowSet
  BY <1>1, ElementOfSeq, LenProperties
<1>3. \A k \in DOMAIN task.streams[f] : task.streams[f][k] \in RowSet
  BY <1>1, ElementOfSeq, LenProperties
<1> QED BY <1>2, <1>3 DEF RowSet

LEMMA ResultsStart == ResultsInit => ResultsInv
<1> SUFFICES ASSUME ResultsInit PROVE ResultsInv
  OBVIOUS
<1>1. "summary" \in Files
  BY DEF Files
<1>2. <<>> \in Seq(RowSet) /\ <<>> \in Seq(Datasets) /\ DOMAIN <<>> = {}
  OBVIOUS
<1>3. ResultsTypeInv
  BY <1>2 DEF ResultsInit, ResultsTypeInv, NoStreams, Idle
<1>4. FilesInv
  <2>1. \A f \in Files : files[f] = <<>>
    BY DEF ResultsInit, NoStreams
  <2>2. \A f \in Files : DOMAIN files[f] = {}
    BY <2>1
  <2>3. Details \subseteq Files /\ failed = {}
    BY DEF Files, ResultsInit
  <2> QED BY <2>2, <2>3 DEF FilesInv, Once
<1>5. StreamsInv
  BY DEF ResultsInit, StreamsInv, Idle
<1> QED BY <1>3, <1>4, <1>5 DEF ResultsInv

\* What a file holds when the run wrote it.
LEMMA MergedIs ==
  ASSUME ResultsInv, task.busy, NEW f \in Files, NEW m, m = Merged(f)
  PROVE  /\ m \in Seq(RowSet)
         /\ Once(m)
         /\ \A k \in DOMAIN m :
              \/ \E j \in DOMAIN task.streams[f] : m[k] = task.streams[f][j]
              \/ /\ task.dataset # All
                 /\ \E j \in DOMAIN files[f] :
                      m[k] = files[f][j] /\ files[f][j].dataset # task.dataset
         /\ \A j \in DOMAIN task.streams[f] : \E k \in DOMAIN m : m[k] = task.streams[f][j]
         /\ task.dataset # All => \A j \in DOMAIN files[f] :
              files[f][j].dataset # task.dataset => \E k \in DOMAIN m : m[k] = files[f][j]
         /\ task.dataset # All => Without(m, task.dataset) = Without(files[f], task.dataset)
         /\ m = <<>> => task.streams[f] = <<>>
<1> DEFINE t == task.streams[f]
           s == files[f]
           name == task.dataset
<1>1. t \in Seq(RowSet) /\ s \in Seq(RowSet)
  BY DEF ResultsInv, ResultsTypeInv
<1>2. Once(t) /\ Once(s)
  BY DEF ResultsInv, FilesInv, StreamsInv
<1>3. \A k \in DOMAIN t : t[k].dataset \in AskedFor
  BY DEF ResultsInv, StreamsInv
<1>4. m = IF name = All THEN t ELSE Without(s, name) \o t
  BY DEF Merged
<1>5. name # All => \A k \in DOMAIN t : t[k].dataset = name
  BY <1>3 DEF AskedFor
<1> HIDE DEF t, s, name
<1>6. CASE name = All
  <2>1. m = t
    BY <1>4, <1>6
  <2> QED BY <1>1, <1>2, <1>6, <2>1 DEF t, s, name
<1>7. CASE name # All
  <2> DEFINE w == Without(s, name)
  <2>0. w = Without(s, name)
    OBVIOUS
  <2>2. m = w \o t
    BY <1>4, <1>7
  <2> HIDE DEF w
  <2>1. /\ w \in Seq(RowSet)
        /\ \A k \in DOMAIN w : \E j \in DOMAIN s : w[k] = s[j] /\ s[j].dataset # name
        /\ \A j \in DOMAIN s : s[j].dataset # name => \E k \in DOMAIN w : w[k] = s[j]
        /\ Once(w)
    BY <1>1, <1>2, <2>0, WithoutIs
  <2>3. \A k \in DOMAIN w : w[k].dataset # name
    BY <2>1
  <2>4. Without(m, name) = w
    <3>1. /\ w \in Seq(RowSet) /\ t \in Seq(RowSet)
          /\ \A k \in DOMAIN w : w[k].dataset # name
          /\ \A k \in DOMAIN t : t[k].dataset = name
      BY <1>1, <1>5, <1>7, <2>1, <2>3
    <3>2. Without(w \o t, name) = w
      BY <3>1, WithoutRest
    <3> QED BY <2>2, <3>2
  <2>5. /\ m \in Seq(RowSet)
        /\ DOMAIN w = 1 .. Len(w) /\ DOMAIN t = 1 .. Len(t)
        /\ DOMAIN m = 1 .. Len(w) + Len(t) /\ Len(w) \in Nat /\ Len(t) \in Nat
        /\ \A k \in 1 .. Len(w) : m[k] = w[k]
        /\ \A k \in 1 .. Len(t) : m[Len(w) + k] = t[k]
    BY <1>1, <2>1, <2>2
  <2>6. ASSUME NEW k \in DOMAIN m, k \notin DOMAIN w
        PROVE  k - Len(w) \in DOMAIN t /\ m[k] = t[k - Len(w)]
    <3>1. k - Len(w) \in 1 .. Len(t) /\ Len(w) + (k - Len(w)) = k
      BY <2>5, <2>6
    <3> QED BY <2>5, <3>1
  <2>7. \A k \in DOMAIN w : k \in DOMAIN m /\ m[k] = w[k]
    BY <2>5
  <2>8. \A k \in DOMAIN t : Len(w) + k \in DOMAIN m /\ m[Len(w) + k] = t[k]
    BY <2>5
  <2>9. Once(m)
    <3> SUFFICES ASSUME NEW i \in DOMAIN m, NEW j \in DOMAIN m, m[i].dataset = m[j].dataset
                 PROVE  i = j
      BY DEF Once
    <3>1. CASE i \in DOMAIN w /\ j \in DOMAIN w
      BY <2>1, <2>7, <3>1 DEF Once
    <3>2. CASE i \notin DOMAIN w /\ j \notin DOMAIN w
      <4>1. i - Len(w) = j - Len(w)
        BY <1>2, <2>6, <3>2 DEF Once
      <4> QED BY <2>5, <4>1
    <3>3. CASE i \in DOMAIN w /\ j \notin DOMAIN w
      BY <1>5, <1>7, <2>3, <2>6, <2>7, <3>3
    <3>4. CASE i \notin DOMAIN w /\ j \in DOMAIN w
      BY <1>5, <1>7, <2>3, <2>6, <2>7, <3>4
    <3> QED BY <3>1, <3>2, <3>3, <3>4
  <2>10. ASSUME m = <<>> PROVE t = <<>>
    <3>1. DOMAIN m = {}
      BY <2>10
    <3>2. Len(t) = 0
      BY <2>5, <3>1
    <3> QED BY <1>1, <3>2, EmptySeq
  <2>11. \A k \in DOMAIN m :
           \/ \E j \in DOMAIN t : m[k] = t[j]
           \/ \E j \in DOMAIN s : m[k] = s[j] /\ s[j].dataset # name
    <3> SUFFICES ASSUME NEW k \in DOMAIN m
                 PROVE  \/ \E j \in DOMAIN t : m[k] = t[j]
                        \/ \E j \in DOMAIN s : m[k] = s[j] /\ s[j].dataset # name
      OBVIOUS
    <3>1. CASE k \in DOMAIN w
      BY <2>1, <2>7, <3>1
    <3>2. CASE k \notin DOMAIN w
      BY <2>6, <3>2
    <3> QED BY <3>1, <3>2
  <2>12. \A j \in DOMAIN t : \E k \in DOMAIN m : m[k] = t[j]
    BY <2>8
  <2>13. \A j \in DOMAIN s : s[j].dataset # name => \E k \in DOMAIN m : m[k] = s[j]
    BY <2>1, <2>7
  <2> QED BY <1>7, <2>4, <2>5, <2>9, <2>10, <2>11, <2>12, <2>13 DEF t, s, name, w
<1> QED BY <1>6, <1>7

LEMMA DataStep ==
  ASSUME ResultsInv, NEW d, NEW x, ChangeData(d, x) PROVE ResultsInv'
<1>1. UNCHANGED <<files, runNo, task, lastRun, failed>>
  BY DEF ChangeData
<1>2. ResultsTypeInv'
  BY <1>1 DEF ResultsInv, ResultsTypeInv
<1>3. FilesInv'
  BY <1>1 DEF ResultsInv, FilesInv, Once, RowIsLast
<1>4. StreamsInv'
  BY <1>1 DEF ResultsInv, StreamsInv, Once, AskedFor
<1> QED BY <1>2, <1>3, <1>4 DEF ResultsInv

LEMMA StartStep ==
  ASSUME ResultsInv, NEW sweep \in BOOLEAN, NEW dataset \in Datasets \cup {All},
         StartRun(sweep, dataset)
  PROVE  ResultsInv'
<1> DEFINE specs == IF dataset = All THEN DatasetNames ELSE <<dataset>>
<1>1. /\ ~task.busy /\ runNo' = runNo + 1
      /\ UNCHANGED <<data, files, lastRun, failed>>
      /\ task' = [busy |-> TRUE, sweep |-> sweep, dataset |-> dataset, streams |-> NoStreams,
                  specs |-> specs]
  BY DEF StartRun
<1>2. /\ task'.busy /\ task'.dataset = dataset /\ task'.sweep = sweep /\ task'.specs = specs
      /\ \A f \in Files : task'.streams[f] = <<>>
  BY <1>1 DEF NoStreams
<1>3. /\ specs \in Seq(Datasets) /\ IsInjective(specs)
      /\ dataset = All => \A d \in Datasets : \E i \in DOMAIN specs : specs[i] = d
      /\ dataset # All => DOMAIN specs = {1} /\ specs[1] = dataset
  <2>1. CASE dataset = All
    <3>1. DatasetNames \in Seq(Datasets) /\ IsInjective(DatasetNames)
      BY ResultsAssumption
    <3>2. \A d \in Datasets : \E i \in DOMAIN DatasetNames : DatasetNames[i] = d
      BY DEF Datasets, ToSet
    <3> QED BY <2>1, <3>1, <3>2
  <2>2. CASE dataset # All
    BY <2>2 DEF IsInjective
  <2> QED BY <2>1, <2>2
<1> HIDE DEF specs
<1>4. ResultsTypeInv'
  <2>1. NoStreams \in [Files -> Seq(RowSet)]
    BY DEF NoStreams
  <2> QED BY <1>1, <1>3, <2>1 DEF ResultsInv, ResultsTypeInv
<1>5. FilesInv'
  <2>1. FilesInv /\ runNo \in Nat
    BY DEF ResultsInv, ResultsTypeInv
  <2>2. \A x \in failed' : x <= runNo' /\ x < runNo'
    BY <1>1, <2>1 DEF FilesInv, ResultsInv, ResultsTypeInv
  <2>3. ASSUME NEW f \in Files, NEW k \in DOMAIN files[f] PROVE RowIsLast(f, files[f][k])'
    <3>1. files[f][k].run \in Nat
      BY RowTypes DEF ResultsInv
    <3>2. RowIsLast(f, files[f][k])
      BY <2>1 DEF FilesInv
    <3> QED BY <1>1, <2>1, <3>1, <3>2 DEF RowIsLast
  <2> QED BY <1>1, <2>1, <2>2, <2>3 DEF FilesInv, Once
<1>6. StreamsInv'
  <2>1. AskedFor' = IF dataset = All THEN Datasets ELSE {dataset}
    BY <1>2 DEF AskedFor
  <2>2. \A i \in DOMAIN specs : specs[i] \in AskedFor'
    BY <1>3, <2>1
  <2>3. \A d \in AskedFor' : \E i \in DOMAIN specs : specs[i] = d
    BY <1>3, <2>1
  <2>4. \A f \in Files : DOMAIN task'.streams[f] = {}
    BY <1>2
  <2> QED BY <1>2, <1>3, <2>2, <2>3, <2>4 DEF StreamsInv, Once
<1> QED BY <1>4, <1>5, <1>6 DEF ResultsInv

LEMMA EvaluateStep == ResultsInv /\ EvaluateDataset => ResultsInv'
<1> SUFFICES ASSUME ResultsInv, EvaluateDataset PROVE ResultsInv'
  OBVIOUS
<1> DEFINE d == Head(task.specs)
           rest == Tail(task.specs)
           r == ResultRow(d)
<1>1. PICK names \in SUBSET Files :
        /\ task' = [task EXCEPT !.specs = rest, !.streams = Added(names, d)]
        /\ task.sweep => names \subseteq {"ksconfirm"}
        /\ ~task.sweep => "summary" \in names /\ "ksconfirm" \notin names
  <2> DEFINE names == IF task.sweep THEN IF data[Head(task.specs)] = "ok" THEN {"ksconfirm"} ELSE {}
                      ELSE {"summary"} \cup (IF data[Head(task.specs)] = "ok" THEN Details ELSE {})
  <2>1. task' = [task EXCEPT !.specs = rest, !.streams = Added(names, d)]
    BY DEF EvaluateDataset
  <2>2. names \in SUBSET Files
    BY DEF Files
  <2>3. /\ task.sweep => names \subseteq {"ksconfirm"}
        /\ ~task.sweep => "summary" \in names /\ "ksconfirm" \notin names
    BY ResultsAssumption
  <2> HIDE DEF names
  <2> QED BY <2>1, <2>2, <2>3
<1>2. /\ task.busy /\ task.specs # <<>>
      /\ UNCHANGED <<data, files, runNo, lastRun, failed>>
  BY DEF EvaluateDataset
<1>3. /\ task.specs \in Seq(Datasets) /\ task.streams \in [Files -> Seq(RowSet)] /\ runNo \in Nat
      /\ task \in [busy : BOOLEAN, sweep : BOOLEAN, dataset : Datasets \cup {All},
                   specs : Seq(Datasets), streams : [Files -> Seq(RowSet)]]
  BY DEF ResultsInv, ResultsTypeInv
<1>4. /\ d \in Datasets /\ rest \in Seq(Datasets) /\ 1 \in DOMAIN task.specs
      /\ d = task.specs[1]
      /\ \A i \in DOMAIN rest : i + 1 \in DOMAIN task.specs /\ rest[i] = task.specs[i + 1]
      /\ \A i \in DOMAIN task.specs : i # 1 => i - 1 \in DOMAIN rest /\ rest[i - 1] = task.specs[i]
  BY <1>2, <1>3
<1>5. r \in RowSet /\ r.dataset = d /\ r.run = runNo
  BY <1>3, <1>4 DEF ResultRow, RowSet
<1> HIDE DEF d, rest, r
<1>6. /\ task'.busy /\ task'.dataset = task.dataset /\ task'.sweep = task.sweep
      /\ task'.specs = rest /\ task'.streams = Added(names, d)
  BY <1>1, <1>2, <1>3
<1>7. \A f \in Files : task'.streams[f] = IF f \in names THEN Append(task.streams[f], r)
                                          ELSE task.streams[f]
  BY <1>6 DEF Added, r
<1>8. AskedFor' = AskedFor
  BY <1>6 DEF AskedFor
<1>9. /\ IsInjective(task.specs) /\ \A i \in DOMAIN task.specs : task.specs[i] \in AskedFor
      /\ \A f \in Files : Once(task.streams[f]) /\ \A k \in DOMAIN task.streams[f] :
           /\ task.streams[f][k].run = runNo
           /\ task.streams[f][k].dataset \in AskedFor
           /\ \A i \in DOMAIN task.specs : task.specs[i] # task.streams[f][k].dataset
      /\ \A f \in Files : ~(task.sweep <=> f = "ksconfirm") => task.streams[f] = <<>>
      /\ ~task.sweep => \A x \in AskedFor :
           \/ \E i \in DOMAIN task.specs : task.specs[i] = x
           \/ \E k \in DOMAIN task.streams["summary"] : task.streams["summary"][k].dataset = x
  BY <1>2 DEF ResultsInv, StreamsInv
<1>10. ASSUME NEW f \in Files
       PROVE  /\ task'.streams[f] \in Seq(RowSet)
              /\ Once(task'.streams[f])
              /\ \A k \in DOMAIN task'.streams[f] :
                   /\ task'.streams[f][k].run = runNo
                   /\ task'.streams[f][k].dataset \in AskedFor
                   /\ \A i \in DOMAIN rest : rest[i] # task'.streams[f][k].dataset
  <2> DEFINE t == task.streams[f]
             u == Append(t, r)
  <2>1. /\ t \in Seq(RowSet) /\ Once(t)
        /\ \A k \in DOMAIN t :
             /\ t[k].run = runNo /\ t[k].dataset \in AskedFor
             /\ \A i \in DOMAIN task.specs : task.specs[i] # t[k].dataset
    BY <1>3, <1>9
  <2>2. task'.streams[f] = IF f \in names THEN u ELSE t
    BY <1>7
  <2> HIDE DEF t
  <2>3. /\ u \in Seq(RowSet) /\ DOMAIN u = DOMAIN t \cup {Len(t) + 1}
        /\ Len(t) + 1 \notin DOMAIN t
        /\ \A k \in DOMAIN t : u[k] = t[k]
        /\ u[Len(t) + 1] = r
    BY <1>5, <2>1
  <2> HIDE DEF u
  <2>4. \A i \in DOMAIN rest : rest[i] # d
    <3> SUFFICES ASSUME NEW i \in DOMAIN rest, rest[i] = d PROVE FALSE
      OBVIOUS
    <3>1. i + 1 \in DOMAIN task.specs /\ task.specs[i + 1] = task.specs[1] /\ i + 1 # 1
      BY <1>4
    <3> QED BY <1>4, <1>9, <3>1 DEF IsInjective
  <2>5. \A k \in DOMAIN t : t[k].dataset # d
    BY <1>4, <2>1
  <2>6. Once(u)
    BY <1>5, <2>1, <2>3, <2>5 DEF Once
  <2>7. d \in AskedFor
    BY <1>4, <1>9
  <2>8. \A k \in DOMAIN t : \A i \in DOMAIN rest : rest[i] # t[k].dataset
    BY <1>4, <2>1
  <2> QED BY <1>5, <2>1, <2>2, <2>3, <2>4, <2>6, <2>7, <2>8
<1>11. ResultsTypeInv'
  <2>1. Added(names, d) \in [Files -> Seq(RowSet)]
    <3>1. \A f \in Files : Added(names, d)[f] \in Seq(RowSet)
      BY <1>6, <1>10
    <3> QED BY <3>1 DEF Added
  <2>2. task' \in [busy : BOOLEAN, sweep : BOOLEAN, dataset : Datasets \cup {All},
                   specs : Seq(Datasets), streams : [Files -> Seq(RowSet)]]
    BY <1>1, <1>3, <1>4, <2>1
  <2> QED BY <1>2, <2>2 DEF ResultsInv, ResultsTypeInv
<1>12. FilesInv'
  BY <1>2, <1>6 DEF ResultsInv, FilesInv, Once, RowIsLast
<1>13. StreamsInv'
  <2>1. IsInjective(rest)
    <3> SUFFICES ASSUME NEW i \in DOMAIN rest, NEW j \in DOMAIN rest, rest[i] = rest[j]
                 PROVE  i = j
      BY DEF IsInjective
    <3>1. i + 1 = j + 1
      BY <1>4, <1>9 DEF IsInjective
    <3>2. i \in Nat /\ j \in Nat
      BY <1>4
    <3> QED BY <3>1, <3>2
  <2>2. \A i \in DOMAIN rest : rest[i] \in AskedFor'
    BY <1>4, <1>8, <1>9
  <2>3. \A f \in Files : ~(task.sweep <=> f = "ksconfirm") => task'.streams[f] = <<>>
    <3> SUFFICES ASSUME NEW f \in Files, ~(task.sweep <=> f = "ksconfirm")
                 PROVE  task'.streams[f] = <<>>
      OBVIOUS
    <3>1. task.streams[f] = <<>>
      BY <1>9
    <3>2. f \notin names
      BY <1>1
    <3> QED BY <1>7, <3>1, <3>2
  <2>4. ASSUME ~task.sweep, NEW x \in AskedFor
        PROVE  \/ \E i \in DOMAIN rest : rest[i] = x
               \/ \E k \in DOMAIN task'.streams["summary"] : task'.streams["summary"][k].dataset = x
    <3> DEFINE t == task.streams["summary"]
               u == task'.streams["summary"]
    <3>1. t \in Seq(RowSet) /\ u = Append(t, r)
      BY <1>1, <1>3, <1>7, <2>4 DEF Files
    <3> HIDE DEF t, u
    <3>2. /\ Len(t) + 1 \in DOMAIN u /\ u[Len(t) + 1] = r
          /\ \A k \in DOMAIN t : k \in DOMAIN u /\ u[k] = t[k]
      BY <1>5, <3>1
    <3>3. CASE x = d
      BY <1>5, <3>2, <3>3 DEF u
    <3>4. CASE \E k \in DOMAIN t : t[k].dataset = x
      BY <3>2, <3>4 DEF u
    <3>5. CASE x # d /\ \E i \in DOMAIN task.specs : task.specs[i] = x
      BY <1>4, <3>5
    <3> QED BY <1>9, <2>4, <3>3, <3>4, <3>5 DEF t
  <2> QED BY <1>2, <1>6, <1>8, <1>10, <2>1, <2>2, <2>3, <2>4 DEF StreamsInv
<1> QED BY <1>11, <1>12, <1>13 DEF ResultsInv

LEMMA FailStep == ResultsInv /\ Fail => ResultsInv'
<1> SUFFICES ASSUME ResultsInv, Fail PROVE ResultsInv'
  OBVIOUS
<1>1. /\ task.busy /\ task' = Idle /\ failed' = failed \cup {runNo}
      /\ UNCHANGED <<data, files, runNo, lastRun>>
  BY DEF Fail
<1>2. ~task'.busy
  BY <1>1 DEF Idle
<1>3. ResultsTypeInv'
  BY <1>1 DEF ResultsInv, ResultsTypeInv, Idle, NoStreams
<1>4. FilesInv'
  <2>1. \A x \in failed' : x <= runNo'
    BY <1>1 DEF ResultsInv, ResultsTypeInv, FilesInv
  <2>2. ASSUME NEW f \in Files, NEW k \in DOMAIN files[f] PROVE RowIsLast(f, files[f][k])'
    <3>1. files[f][k].run \in Nat /\ runNo \in Nat
      BY RowTypes DEF ResultsInv, ResultsTypeInv
    <3>2. RowIsLast(f, files[f][k])
      BY DEF ResultsInv, FilesInv
    <3> QED BY <1>1, <1>2, <3>1, <3>2 DEF RowIsLast
  <2> QED BY <1>1, <1>2, <2>1, <2>2 DEF ResultsInv, FilesInv, Once
<1>5. StreamsInv'
  BY <1>2 DEF StreamsInv
<1> QED BY <1>3, <1>4, <1>5 DEF ResultsInv

\* A file that a run does not write is one that the run has no rows for.
LEMMA UnwrittenIsEmpty ==
  ASSUME ResultsInv, task.busy, NEW f \in Files, f \notin Written
  PROVE  task.streams[f] = <<>>
<1>1. ~(task.sweep <=> f = "ksconfirm") => task.streams[f] = <<>>
  BY DEF ResultsInv, StreamsInv
<1>2. CASE task.sweep /\ f = "ksconfirm"
  BY <1>2 DEF Written
<1>3. CASE ~task.sweep /\ f # "ksconfirm"
  <2>1. f \in Details /\ Merged(f) = <<>>
    BY <1>3 DEF Written, Files
  <2> DEFINE m == Merged(f)
  <2>2. m = Merged(f) /\ m = <<>>
    BY <2>1
  <2> HIDE DEF m
  <2> QED BY <2>2, MergedIs
<1> QED BY <1>1, <1>2, <1>3

LEMMA WrittenFiles ==
  ASSUME ResultsInv, WriteFiles
  PROVE  /\ ~task'.busy /\ UNCHANGED <<data, runNo, failed>>
         /\ task.busy /\ task.specs = <<>>
         /\ \A f \in Files : files'[f] = IF f \in Written THEN Merged(f) ELSE files[f]
         /\ \A f \in Files, d \in Datasets : lastRun'[f][d] =
              IF ResultRow(d) \in Range(task.streams[f]) THEN runNo ELSE lastRun[f][d]
BY DEF WriteFiles, Idle

LEMMA WriteStep == ResultsInv /\ WriteFiles => ResultsInv'
<1> SUFFICES ASSUME ResultsInv, WriteFiles PROVE ResultsInv'
  OBVIOUS
<1>1. /\ ~task'.busy /\ UNCHANGED <<data, runNo, failed>>
      /\ task.busy /\ task.specs = <<>>
      /\ \A f \in Files : files'[f] = IF f \in Written THEN Merged(f) ELSE files[f]
      /\ \A f \in Files, d \in Datasets : lastRun'[f][d] =
           IF ResultRow(d) \in Range(task.streams[f]) THEN runNo ELSE lastRun[f][d]
  BY WrittenFiles
<1>2. ResultsTypeInv /\ FilesInv /\ StreamsInv
  BY DEF ResultsInv
<1>3. ASSUME NEW f \in Files, f \in Written
      PROVE  /\ files'[f] \in Seq(RowSet)
             /\ Once(files'[f])
             /\ \A k \in DOMAIN files'[f] :
                  \/ \E j \in DOMAIN task.streams[f] : files'[f][k] = task.streams[f][j]
                  \/ /\ task.dataset # All
                     /\ \E j \in DOMAIN files[f] :
                          files'[f][k] = files[f][j] /\ files[f][j].dataset # task.dataset
             /\ \A j \in DOMAIN task.streams[f] :
                  \E k \in DOMAIN files'[f] : files'[f][k] = task.streams[f][j]
             /\ task.dataset # All => \A j \in DOMAIN files[f] :
                  files[f][j].dataset # task.dataset =>
                    \E k \in DOMAIN files'[f] : files'[f][k] = files[f][j]
  <2>1. files'[f] = Merged(f)
    BY <1>1, <1>3
  <2> QED BY <1>1, <2>1, MergedIs
<1>4. ASSUME NEW f \in Files, f \notin Written
      PROVE  files'[f] = files[f] /\ DOMAIN task.streams[f] = {}
  BY <1>1, <1>4, UnwrittenIsEmpty
<1>5. ResultsTypeInv'
  <2>1. \A f \in Files : files'[f] \in Seq(RowSet)
    BY <1>2, <1>3, <1>4 DEF ResultsTypeInv
  <2>2. files' \in [Files -> Seq(RowSet)]
    <3>1. files' = [f \in Files |-> files'[f]]
      BY DEF WriteFiles
    <3> QED BY <2>1, <3>1
  <2>3. lastRun' \in [Files -> [Datasets -> Nat]]
    BY <1>2 DEF WriteFiles, ResultsTypeInv
  <2>4. task' \in [busy : BOOLEAN, sweep : BOOLEAN, dataset : Datasets \cup {All},
                   specs : Seq(Datasets), streams : [Files -> Seq(RowSet)]]
    BY DEF WriteFiles, Idle, NoStreams
  <2> QED BY <1>1, <1>2, <2>2, <2>3, <2>4 DEF ResultsTypeInv
<1>6. ASSUME NEW f \in Files, NEW k \in DOMAIN files'[f] PROVE RowIsLast(f, files[f][k])'
  <2> DEFINE r == files'[f][k]
  <2>1. CASE \E j \in DOMAIN task.streams[f] : r = task.streams[f][j]
    <3>1. PICK j \in DOMAIN task.streams[f] : r = task.streams[f][j]
      BY <2>1
    <3>2. r.dataset \in Datasets /\ r = ResultRow(r.dataset) /\ r.run = runNo
      BY <1>1, <1>2, <3>1, RowTypes DEF StreamsInv, ResultRow
    <3>3. ResultRow(r.dataset) \in Range(task.streams[f])
      BY <3>1, <3>2 DEF Range
    <3>4. lastRun'[f][r.dataset] = runNo
      BY <1>1, <3>2, <3>3
    <3>5. runNo \in Nat /\ runNo \notin failed
      BY <1>1, <1>2 DEF ResultsTypeInv, FilesInv
    <3> HIDE DEF r
    <3>6. r.run = lastRun'[f][r.dataset] /\ r.run \notin failed' /\ r.run <= runNo'
      BY <1>1, <3>2, <3>4, <3>5
    <3> QED BY <1>1, <3>6 DEF RowIsLast, r
  <2>2. CASE /\ \A j \in DOMAIN task.streams[f] : task.streams[f][j].dataset # r.dataset
             /\ \E j \in DOMAIN files[f] : r = files[f][j]
    <3>1. PICK j \in DOMAIN files[f] : r = files[f][j]
      BY <2>2
    <3>2. RowIsLast(f, r) /\ r.dataset \in Datasets
      BY <1>2, <3>1, RowTypes DEF FilesInv
    <3>3. ResultRow(r.dataset) \notin Range(task.streams[f])
      BY <2>2 DEF Range, ResultRow
    <3>4. lastRun'[f][r.dataset] = lastRun[f][r.dataset]
      BY <1>1, <3>2, <3>3
    <3> HIDE DEF r
    <3>5. r.run = lastRun'[f][r.dataset] /\ r.run \notin failed' /\ r.run <= runNo'
      BY <1>1, <3>2, <3>4 DEF RowIsLast
    <3> QED BY <1>1, <3>5 DEF RowIsLast, r
  <2>3. CASE f \notin Written
    BY <1>4, <2>2, <2>3
  <2>4. CASE f \in Written
    <3>1. CASE /\ task.dataset # All
               /\ \E j \in DOMAIN files[f] : r = files[f][j] /\ files[f][j].dataset # task.dataset
      <4>1. \A j \in DOMAIN task.streams[f] : task.streams[f][j].dataset = task.dataset
        BY <1>1, <1>2, <3>1 DEF StreamsInv, AskedFor
      <4> QED BY <2>2, <3>1, <4>1
    <3> QED BY <1>3, <2>1, <2>4, <3>1
  <2> QED BY <2>3, <2>4
<1>7. ASSUME NEW f \in Details, NEW k \in DOMAIN files'[f]
      PROVE  \E j \in DOMAIN files'["summary"] : files'["summary"][j].dataset = files'[f][k].dataset
  <2>1. f \in Files /\ "summary" \in Files /\ f # "summary" /\ f # "ksconfirm"
    BY ResultsAssumption DEF Files
  <2>2. CASE task.sweep
    <3>1. f \notin Written /\ "summary" \notin Written
      BY <2>1, <2>2 DEF Written
    <3>2. files'[f] = files[f] /\ files'["summary"] = files["summary"]
      BY <1>4, <2>1, <3>1
    <3> QED BY <1>2, <3>2 DEF FilesInv
  <2>3. CASE ~task.sweep
    <3> DEFINE d == files'[f][k].dataset
    <3>1. "summary" \in Written
      BY <2>3 DEF Written
    <3>2. DOMAIN task.specs = {}
      BY <1>1
    <3>3. \A x \in AskedFor : \E j \in DOMAIN task.streams["summary"] :
            task.streams["summary"][j].dataset = x
      BY <1>1, <1>2, <2>3, <3>2 DEF StreamsInv
    <3>4. CASE d \in AskedFor
      BY <1>3, <2>1, <3>1, <3>3, <3>4
    <3>5. d \in Datasets
      <4>1. ResultsTypeInv' 
        BY <1>5
      <4>2. files'[f] \in Seq(RowSet)
        BY <2>1, <4>1 DEF ResultsTypeInv
      <4>3. files'[f][k] \in RowSet
        BY <4>2, ElementOfSeq, LenProperties
      <4> QED BY <4>3 DEF RowSet
    <3>6. CASE d \notin AskedFor
      <4>1. task.dataset # All /\ d # task.dataset
        BY <3>5, <3>6 DEF AskedFor
      <4>2. \E i \in DOMAIN files[f] : files[f][i].dataset = d
        <5>1. \A j \in DOMAIN task.streams[f] : task.streams[f][j].dataset \in AskedFor
          BY <1>1, <1>2, <2>1 DEF StreamsInv
        <5>2. CASE f \in Written
          BY <1>3, <2>1, <3>6, <5>1, <5>2
        <5>3. CASE f \notin Written
          BY <1>4, <2>1, <5>3
        <5> QED BY <5>2, <5>3
      <4>3. PICK j \in DOMAIN files["summary"] : files["summary"][j].dataset = d
        BY <1>2, <4>2 DEF FilesInv
      <4> QED BY <1>3, <2>1, <3>1, <4>1, <4>3
    <3> QED BY <3>4, <3>6
  <2> QED BY <2>2, <2>3
<1>8. FilesInv'
  <2>1. \A f \in Files : Once(files'[f])
    BY <1>2, <1>3, <1>4 DEF FilesInv
  <2>2. \A x \in failed' : x <= runNo'
    BY <1>1, <1>2 DEF FilesInv
  <2>3. \A x \in failed' : x <= runNo' /\ (task'.busy => x < runNo')
    BY <1>1, <2>2
  <2>4. \A f \in Files : Once(files'[f]) /\ \A k \in DOMAIN files'[f] : RowIsLast(f, files[f][k])'
    BY <1>6, <2>1
  <2>5. \A f \in Details : \A k \in DOMAIN files'[f] :
          \E j \in DOMAIN files'["summary"] : files'["summary"][j].dataset = files'[f][k].dataset
    BY <1>7
  <2> QED BY <2>3, <2>4, <2>5 DEF FilesInv, Once
<1>9. StreamsInv'
  BY <1>1 DEF StreamsInv
<1> QED BY <1>5, <1>8, <1>9 DEF ResultsInv

LEMMA ResultsStep == ResultsInv /\ [ResultsNext]_resultVars => ResultsInv'
<1> SUFFICES ASSUME ResultsInv, [ResultsNext]_resultVars PROVE ResultsInv'
  OBVIOUS
<1>1. ASSUME NEW d \in Datasets, NEW x \in Data, ChangeData(d, x) PROVE ResultsInv'
  BY <1>1, DataStep
<1>2. ASSUME NEW sweep \in BOOLEAN, NEW dataset \in Datasets \cup {All}, StartRun(sweep, dataset)
      PROVE  ResultsInv'
  BY <1>2, StartStep
<1>3. CASE UNCHANGED resultVars
  <2>1. UNCHANGED <<files, runNo, task, lastRun, failed>>
    BY <1>3 DEF resultVars
  <2>2. ResultsTypeInv'
    BY <2>1 DEF ResultsInv, ResultsTypeInv
  <2>3. FilesInv'
    BY <2>1 DEF ResultsInv, FilesInv, Once, RowIsLast
  <2>4. StreamsInv'
    BY <2>1 DEF ResultsInv, StreamsInv, Once, AskedFor
  <2> QED BY <2>2, <2>3, <2>4 DEF ResultsInv
<1> QED BY <1>1, <1>2, <1>3, EvaluateStep, FailStep, WriteStep DEF ResultsNext

LEMMA ResultsInductive == ResultsSpec => []ResultsInv
BY ResultsStart, ResultsStep, PTL DEF ResultsSpec

\* Whatever the order of runs, their failures and the changes of the data in
\* between: each result file of derisk_proxy.main holds a dataset once, as the
\* last run left it that had rows of it.
THEOREM RowsKeptLatest == ResultsSpec => []RowsAreLatest
<1>1. ResultsInv => RowsAreLatest
  <2> SUFFICES ASSUME ResultsInv, NEW f \in Files
               PROVE  /\ \A i, j \in DOMAIN files[f] :
                           files[f][i].dataset = files[f][j].dataset => i = j
                      /\ \A r \in Range(files[f]) : r.run = lastRun[f][r.dataset] /\ r.run \notin failed
    BY DEF RowsAreLatest
  <2>1. Once(files[f]) /\ \A k \in DOMAIN files[f] : RowIsLast(f, files[f][k])
    BY DEF ResultsInv, FilesInv
  <2> QED BY <2>1 DEF Once, RowIsLast, Range
<1> QED BY <1>1, ResultsInductive, PTL

\* A run over one dataset keeps the rows of the others, in order, in every
\* file; and what has details has a summary, after every step.
THEOREM OthersAreKept == ResultsSpec => RunAugments
<1>1. ResultsInv /\ ResultsInv' /\ [ResultsNext]_resultVars =>
        [/\ task.dataset # All => \A f \in Files :
               Without(files'[f], task.dataset) = Without(files[f], task.dataset)
         /\ \A f \in Details : \A r \in Range(files'[f]) :
              \E s \in Range(files'["summary"]) : s.dataset = r.dataset]_resultVars
  <2> SUFFICES ASSUME ResultsInv, ResultsInv', ResultsNext
               PROVE  /\ task.dataset # All => \A f \in Files :
                           Without(files'[f], task.dataset) = Without(files[f], task.dataset)
                      /\ \A f \in Details : \A r \in Range(files'[f]) :
                           \E s \in Range(files'["summary"]) : s.dataset = r.dataset
    OBVIOUS
  <2>1. ASSUME task.dataset # All, NEW f \in Files
        PROVE  Without(files'[f], task.dataset) = Without(files[f], task.dataset)
    <3>1. CASE WriteFiles
      <4>1. task.busy /\ files'[f] = IF f \in Written THEN Merged(f) ELSE files[f]
        BY <3>1 DEF WriteFiles
      <4>2. \A m : m = Merged(f) => Without(m, task.dataset) = Without(files[f], task.dataset)
        BY <2>1, <4>1, MergedIs
      <4> QED BY <4>1, <4>2
    <3>2. CASE ~WriteFiles
      BY <3>2 DEF ResultsNext, ChangeData, StartRun, EvaluateDataset, Fail
    <3> QED BY <3>1, <3>2
  <2>2. \A f \in Details : \A k \in DOMAIN files'[f] :
          \E j \in DOMAIN files'["summary"] : files'["summary"][j].dataset = files'[f][k].dataset
    BY DEF ResultsInv, FilesInv
  <2> QED BY <2>1, <2>2 DEF Range
<1> QED BY <1>1, ResultsInductive, PTL DEF ResultsSpec, RunAugments
=============================================================================
