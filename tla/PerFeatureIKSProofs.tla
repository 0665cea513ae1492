------------------------ MODULE PerFeatureIKSProofs ------------------------
(***************************************************************************)
(* Proofs about PerFeatureIKS, for every set of features, assignment to    *)
(* detectors, window, confirmation length, thresholds and rows.            *)
(***************************************************************************)
EXTENDS PerFeatureIKS, TLAPS

(***************************************************************************)
(* Type correctness.                                                       *)
(***************************************************************************)

LEMMA RowsApart ==
  \A i, j \in 1 .. Len(Rows) :
    i <= j => Rows[i] \in Nat /\ Rows[j] \in Nat /\ Rows[j] - Rows[i] >= j - i
BY DetectionAssumption, SMTT(30)

\* c + 1 rows after the row that ended a confirmation.
LEMMA NextRowApart ==
  ASSUME NEW r \in Nat, NEW c \in Nat, NEW s \in Nat,
         r - c \in 1 .. Len(Rows), r + 1 \in 1 .. Len(Rows),
         Rows[r - c] - s >= ConfirmWin
  PROVE  Rows[r + 1] - s >= ConfirmWin + c + 1
<1> DEFINE i == r - c
           j == r + 1
<1>1. i \in 1 .. Len(Rows) /\ j \in 1 .. Len(Rows) /\ i <= j /\ j - i = c + 1
  OBVIOUS
<1>2. Rows[i] - s >= ConfirmWin /\ ConfirmWin \in Nat
  BY DetectionAssumption
<1> HIDE DEF i, j
<1>3. Rows[i] \in Nat /\ Rows[j] \in Nat /\ Rows[j] - Rows[i] >= c + 1
  BY <1>1, RowsApart
<1>4. Rows[j] - s >= ConfirmWin + c + 1
  BY <1>2, <1>3, SMTT(30)
<1> QED
  BY <1>4 DEF j

LEMMA RowFacts ==
  ASSUME TypeOK, NEW f \in Features, read[f] < Len(Rows)
  PROVE  /\ read[f] + 1 \in 1 .. Len(Rows)
         /\ Seq0(f) \in Seqs
         /\ Seq0(f) \in Nat
         /\ Seq0(f) # Null
<1> USE DetectionAssumption
<1>1. read[f] + 1 \in 1 .. Len(Rows)
  BY DEF TypeOK
<1>2. Rows[read[f] + 1] \in Nat
  BY <1>1
<1> QED
  BY <1>1, <1>2 DEF Seq0, Seqs, Null

LEMMA PeakFacts ==
  ASSUME TypeOK, NEW f \in Features, NEW k \in Ks, confirming[f]
  PROVE  Peak(f, k) \in Ks /\ startSeq[f] \in Seqs /\ startSeq[f] \in Nat
<1> USE DetectionAssumption
<1>1. peakKs[f] \in Ks /\ startSeq[f] \in Seqs
  BY DEF TypeOK
<1>2. Seqs \subseteq Nat
  BY DEF Seqs
<1> QED
  BY <1>1, <1>2 DEF Peak

LEMMA CountFacts ==
  ASSUME TypeOK, NEW f \in Features
  PROVE  /\ [sampleCount EXCEPT ![f] = @ + 1] \in [Features -> Nat]
         /\ [sampleCount EXCEPT ![f] = 0] \in [Features -> Nat]
BY DEF TypeOK

\* The parts of the type invariant about the input and about the gate.
InputOK ==
  /\ read \in [Features -> 0 .. Len(Rows)]
  /\ history \in [Features -> Seq(Ks \cup {Null})]
  /\ \A f \in Features : Len(history[f]) = read[f]

GateOK ==
  /\ confirming \in [Features -> BOOLEAN]
  /\ startSeq \in [Features -> Seqs \cup {Null}]
  /\ peakKs \in [Features -> Ks \cup {Null}]
  /\ \A f \in Features : /\ confirming[f] <=> startSeq[f] # Null
                         /\ confirming[f] <=> peakKs[f] # Null

LEMMA TypeInductive ==
  /\ Init => TypeOK
  /\ TypeOK /\ [Next]_vars => TypeOK'
<1> USE DetectionAssumption
<1>1. Init => TypeOK
  BY DEF Init, TypeOK, FeatureDrift, Null
<1>2. TypeOK /\ [Next]_vars => TypeOK'
  <2> SUFFICES ASSUME TypeOK, [Next]_vars PROVE TypeOK'
    OBVIOUS
  <2>0. GateOK
    BY DEF TypeOK, GateOK
  <2>1. CASE UNCHANGED vars
    BY <2>1 DEF TypeOK, vars, gateVars
  <2>2. ASSUME NEW f \in Features, Detect(f) PROVE TypeOK'
    <3>1. read[f] < Len(Rows)
      BY <2>2 DEF Detect, Turn
    <3>2. Seq0(f) \in Seqs /\ Seq0(f) # Null /\ read[f] + 1 \in 0 .. Len(Rows)
      BY <3>1, RowFacts
    <3>3. ASSUME NEW k \in Ks \cup {Null}, Update(f, k) PROVE InputOK'
      <4> DEFINE S == Ks \cup {Null}
      <4>0. history[f] \in Seq(S) /\ k \in S
        BY DEF TypeOK
      <4> HIDE DEF S
      <4>1. /\ read' \in [Features -> 0 .. Len(Rows)]
            /\ history' \in [Features -> Seq(Ks \cup {Null})]
        <5>1. Append(history[f], k) \in Seq(S)
          BY <4>0
        <5>2. read' \in [Features -> 0 .. Len(Rows)]
          BY <3>2, <3>3 DEF Update, TypeOK
        <5> QED
          BY <3>3, <5>1, <5>2 DEF Update, TypeOK, S
      <4>2. Len(Append(history[f], k)) = read[f] + 1
        BY DEF TypeOK
      <4> QED
        BY <3>3, <4>1, <4>2 DEF Update, TypeOK, InputOK
    <3>4. Ks \subseteq Nat /\ Null \notin Ks
      BY DEF Ks, Null
    <3>5. CASE WarmUp(f)
      <4>1. Update(f, Null) /\ sampleCount' = [sampleCount EXCEPT ![f] = @ + 1]
        BY <3>5 DEF WarmUp
      <4>2. GateOK'
        BY <3>5, <2>0 DEF WarmUp, GateOK
      <4>3. reports' \in [Detectors -> Seq(FeatureDrift)]
        BY <3>5 DEF WarmUp, TypeOK
      <4>4. sampleCount' \in [Features -> Nat]
        BY <4>1, CountFacts
      <4>5. InputOK'
        BY <3>3, <4>1
      <4> QED
        BY <4>2, <4>3, <4>4, <4>5 DEF TypeOK, InputOK, GateOK
    <3>6. ASSUME NEW k \in Ks, StayQuiet(f, k) PROVE TypeOK'
      <4>1. Update(f, k) /\ sampleCount' = [sampleCount EXCEPT ![f] = @ + 1]
        BY <3>6 DEF StayQuiet
      <4>2. GateOK'
        BY <3>6, <2>0 DEF StayQuiet, GateOK
      <4>3. reports' \in [Detectors -> Seq(FeatureDrift)]
        BY <3>6 DEF StayQuiet, TypeOK
      <4>4. sampleCount' \in [Features -> Nat]
        BY <4>1, CountFacts
      <4>5. InputOK'
        BY <3>3, <4>1
      <4> QED
        BY <4>2, <4>3, <4>4, <4>5 DEF TypeOK, InputOK, GateOK
    <3>7. ASSUME NEW k \in Ks, StartConfirm(f, k) PROVE TypeOK'
      <4>1. Update(f, k) /\ sampleCount' = [sampleCount EXCEPT ![f] = @ + 1]
        BY <3>7 DEF StartConfirm
      <4>2. GateOK'
        BY <2>0, <3>2, <3>4, <3>7 DEF StartConfirm, GateOK
      <4>3. reports' \in [Detectors -> Seq(FeatureDrift)]
        BY <3>7 DEF StartConfirm, TypeOK
      <4>4. sampleCount' \in [Features -> Nat]
        BY <4>1, CountFacts
      <4>5. InputOK'
        BY <3>3, <4>1
      <4> QED
        BY <4>2, <4>3, <4>4, <4>5 DEF TypeOK, InputOK, GateOK
    <3>8. ASSUME NEW k \in Ks, KeepConfirming(f, k) PROVE TypeOK'
      <4>0. Peak(f, k) \in Ks
        BY <3>8, PeakFacts DEF KeepConfirming
      <4>1. Update(f, k) /\ sampleCount' = [sampleCount EXCEPT ![f] = @ + 1]
        BY <3>8 DEF KeepConfirming
      <4>2. GateOK'
        BY <2>0, <3>4, <3>8, <4>0 DEF KeepConfirming, GateOK
      <4>3. reports' \in [Detectors -> Seq(FeatureDrift)]
        BY <3>8 DEF KeepConfirming, TypeOK
      <4>4. sampleCount' \in [Features -> Nat]
        BY <4>1, CountFacts
      <4>5. InputOK'
        BY <3>3, <4>1
      <4> QED
        BY <4>2, <4>3, <4>4, <4>5 DEF TypeOK, InputOK, GateOK
    <3>9. ASSUME NEW k \in Ks, Confirm(f, k) PROVE TypeOK'
      <4>0. [featureId |-> f, seq |-> startSeq[f], peak |-> Peak(f, k)] \in FeatureDrift
        BY <3>9, PeakFacts DEF Confirm, FeatureDrift
      <4>1. Update(f, k) /\ sampleCount' = [sampleCount EXCEPT ![f] = 0]
        BY <3>9 DEF Confirm, Rebase
      <4>2. GateOK'
        BY <2>0, <3>9 DEF Confirm, LeaveConfirming, GateOK
      <4>3. reports' \in [Detectors -> Seq(FeatureDrift)]
        BY <3>9, <4>0 DEF Confirm, TypeOK
      <4>4. sampleCount' \in [Features -> Nat]
        BY <4>1, CountFacts
      <4>5. InputOK'
        BY <3>3, <4>1
      <4> QED
        BY <4>2, <4>3, <4>4, <4>5 DEF TypeOK, InputOK, GateOK
    <3>10. ASSUME NEW k \in Ks, DiscardTransient(f, k) PROVE TypeOK'
      <4>1. Update(f, k) /\ sampleCount' = [sampleCount EXCEPT ![f] = @ + 1]
        BY <3>10 DEF DiscardTransient
      <4>2. GateOK'
        BY <2>0, <3>10 DEF DiscardTransient, LeaveConfirming, GateOK
      <4>3. reports' \in [Detectors -> Seq(FeatureDrift)]
        BY <3>10 DEF DiscardTransient, TypeOK
      <4>4. sampleCount' \in [Features -> Nat]
        BY <4>1, CountFacts
      <4>5. InputOK'
        BY <3>3, <4>1
      <4> QED
        BY <4>2, <4>3, <4>4, <4>5 DEF TypeOK, InputOK, GateOK
    <3> QED
      BY <2>2, <3>5, <3>6, <3>7, <3>8, <3>9, <3>10 DEF Detect, ProcessElement
  <2> QED
    BY <2>1, <2>2 DEF Next
<1> QED
  BY <1>1, <1>2

\* The state has its types, and start and peak are there exactly while a
\* feature is confirming: processElement never unboxes a null.
THEOREM TypeCorrect == Spec => []TypeOK
  BY TypeInductive, PTL DEF Spec

(***************************************************************************)
(* What a step of feature f does, for the arguments below.                 *)
(***************************************************************************)

\* The test takes a value and reports nothing.
Quiet(f) ==
  /\ reports' = reports
  /\ read' = [read EXCEPT ![f] = @ + 1]
  /\ sampleCount' = [sampleCount EXCEPT ![f] = @ + 1]
  /\ \A g \in Features \ {f} : confirming'[g] = confirming[g] /\ startSeq'[g] = startSeq[g]
  /\ confirming'[f] =>
       \/ confirming[f] /\ startSeq'[f] = startSeq[f] /\ Seq0(f) - startSeq[f] < ConfirmWin
       \/ sampleCount[f] + 1 >= WindowSize /\ startSeq'[f] = Seq0(f)

\* A report is written and the test restarted.
Loud(f) ==
  /\ confirming[f] /\ Seq0(f) - startSeq[f] >= ConfirmWin
  /\ \E p \in Ks : reports' = [reports EXCEPT ![DetectorOf[f]] =
        Append(@, [featureId |-> f, seq |-> startSeq[f], peak |-> p])]
  /\ read' = [read EXCEPT ![f] = @ + 1]
  /\ sampleCount' = [sampleCount EXCEPT ![f] = 0]
  /\ \A g \in Features \ {f} : confirming'[g] = confirming[g] /\ startSeq'[g] = startSeq[g]
  /\ ~confirming'[f]

LEMMA QuietOrLoud ==
  ASSUME TypeOK, NEW f \in Features, Detect(f),
         confirming[f] => sampleCount[f] >= WindowSize
  PROVE  read[f] < Len(Rows) /\ (Quiet(f) \/ Loud(f))
<1> USE DetectionAssumption
<1>0. read[f] < Len(Rows)
  BY DEF Detect, Turn
<1>1. Seq0(f) \in Nat /\ sampleCount[f] \in Nat
  BY <1>0, RowFacts DEF TypeOK
<1>2. /\ confirming \in [Features -> BOOLEAN]
      /\ DOMAIN startSeq = Features
  BY DEF TypeOK
<1>3. CASE WarmUp(f)
  <2>1. ~confirming[f]
    BY <1>1, <1>3 DEF WarmUp, Warm
  <2> QED
    BY <1>0, <1>3, <2>1 DEF WarmUp, Update, Quiet
<1>4. ASSUME NEW k \in Ks, StayQuiet(f, k) PROVE Quiet(f)
  BY <1>4 DEF StayQuiet, Update, Quiet
<1>5. ASSUME NEW k \in Ks, StartConfirm(f, k) PROVE Quiet(f)
  BY <1>2, <1>5 DEF StartConfirm, Update, Warm, Quiet
<1>6. ASSUME NEW k \in Ks, KeepConfirming(f, k) PROVE Quiet(f)
  <2>1. confirming[f] /\ ~(Seq0(f) - startSeq[f] >= ConfirmWin)
    BY <1>6, Zenon DEF KeepConfirming, Expired
  <2>2. startSeq[f] \in Nat
    BY <1>6, <2>1, PeakFacts
  <2>3. Seq0(f) - startSeq[f] < ConfirmWin
    BY <1>1, <2>1, <2>2
  <2> QED
    BY <1>6, <2>3, Zenon DEF KeepConfirming, Update, Quiet
<1>7. ASSUME NEW k \in Ks, Confirm(f, k) PROVE Loud(f)
  <2>1. Peak(f, k) \in Ks
    BY <1>7, PeakFacts DEF Confirm
  <2> QED
    BY <1>2, <1>7, <2>1 DEF Confirm, Expired, Update, Rebase, LeaveConfirming, Loud
<1>8. ASSUME NEW k \in Ks, DiscardTransient(f, k) PROVE Quiet(f)
  BY <1>2, <1>8 DEF DiscardTransient, Update, LeaveConfirming, Quiet
<1> QED
  BY <1>0, <1>3, <1>4, <1>5, <1>6, <1>7, <1>8 DEF Detect, ProcessElement

(***************************************************************************)
(* Onsets apart.  Inductively, a report's confirmation ended at or before  *)
(* the row of the feature's last restart (row read - sampleCount), and a   *)
(* confirmation under way started after a whole warm-up.                   *)
(***************************************************************************)
Sent(f) == reports[DetectorOf[f]]

StartedWarm == \A f \in Features : confirming[f] => sampleCount[f] >= WindowSize

\* An onset s of feature f lies this far behind.
Behind(f, s) ==
  /\ read[f] - sampleCount[f] \in 1 .. Len(Rows)
  /\ Rows[read[f] - sampleCount[f]] - s >= ConfirmWin
  /\ confirming[f] => startSeq[f] - s >= ConfirmWin + WindowSize

ReportsBehind ==
  \A f \in Features : \A i \in 1 .. Len(Sent(f)) :
    Sent(f)[i].featureId = f => Behind(f, Sent(f)[i].seq)

ApartInv == TypeOK /\ StartedWarm /\ ReportsBehind /\ OnsetsApart

LEMMA SentFacts ==
  ASSUME TypeOK, NEW f \in Features
  PROVE  /\ DetectorOf[f] \in Detectors
         /\ Sent(f) \in Seq(FeatureDrift)
         /\ Len(Sent(f)) \in Nat
         /\ \A i \in 1 .. Len(Sent(f)) : Sent(f)[i].seq \in Nat
<1> USE DetectionAssumption
<1>1. Sent(f) \in Seq(FeatureDrift)
  BY DEF TypeOK, Sent
<1>2. \A r \in FeatureDrift : r.seq \in Nat
  BY DEF FeatureDrift, Seqs
<1>3. \A i \in 1 .. Len(Sent(f)) : Sent(f)[i] \in FeatureDrift
  BY <1>1
<1>4. DetectorOf[f] \in Detectors /\ Len(Sent(f)) \in Nat
  BY <1>1
<1> QED
  BY <1>1, <1>2, <1>3, <1>4

\* What Loud adds to the reports of a detector.
LEMMA LoudAppends ==
  ASSUME TypeOK, NEW f \in Features, Loud(f), NEW d \in Detectors
  PROVE  \/ d # DetectorOf[f] /\ reports'[d] = reports[d]
         \/ /\ d = DetectorOf[f]
            /\ Len(reports'[d]) = Len(reports[d]) + 1
            /\ \A i \in 1 .. Len(reports[d]) : reports'[d][i] = reports[d][i]
            /\ reports'[d][Len(reports[d]) + 1].featureId = f
            /\ reports'[d][Len(reports[d]) + 1].seq = startSeq[f]
<1> USE DetectionAssumption
<1>1. PICK p \in Ks : reports' = [reports EXCEPT ![DetectorOf[f]] =
        Append(@, [featureId |-> f, seq |-> startSeq[f], peak |-> p])]
  BY DEF Loud
<1>2. reports \in [Detectors -> Seq(FeatureDrift)] /\ reports[d] \in Seq(FeatureDrift)
  BY DEF TypeOK
<1>3. CASE d # DetectorOf[f]
  BY <1>1, <1>2, <1>3
<1>4. CASE d = DetectorOf[f]
  <2> DEFINE new == [featureId |-> f, seq |-> startSeq[f], peak |-> p]
  <2>1. reports'[d] = Append(reports[d], new)
    BY <1>1, <1>2, <1>4
  <2>2. new.featureId = f /\ new.seq = startSeq[f]
    OBVIOUS
  <2> HIDE DEF new
  <2> QED
    BY <1>2, <1>4, <2>1, <2>2
<1> QED
  BY <1>3, <1>4

LEMMA LoudFacts ==
  ASSUME TypeOK, NEW f \in Features, Loud(f), NEW g \in Features
  PROVE  \/ DetectorOf[g] # DetectorOf[f] /\ Sent(g)' = Sent(g)
         \/ /\ DetectorOf[g] = DetectorOf[f]
            /\ Len(Sent(g)') = Len(Sent(g)) + 1
            /\ \A i \in 1 .. Len(Sent(g)) : Sent(g)'[i] = Sent(g)[i]
            /\ Sent(g)'[Len(Sent(g)) + 1].featureId = f
            /\ Sent(g)'[Len(Sent(g)) + 1].seq = startSeq[f]
<1>1. DetectorOf[g] \in Detectors
  BY DetectionAssumption
<1> QED
  BY <1>1, LoudAppends DEF Sent

LEMMA ApartInductive ==
  /\ Init => ApartInv
  /\ ApartInv /\ [Next]_vars => ApartInv'
<1> USE DetectionAssumption
<1>1. Init => ApartInv
  <2> SUFFICES ASSUME Init PROVE ApartInv
    OBVIOUS
  <2>1. TypeOK
    BY TypeInductive
  <2>2. \A f \in Features : Sent(f) = <<>> /\ ~confirming[f]
    BY DEF Init, Sent
  <2> QED
    BY <2>1, <2>2 DEF ApartInv, StartedWarm, ReportsBehind, OnsetsApart, Sent
<1>2. ApartInv /\ [Next]_vars => ApartInv'
  <2> SUFFICES ASSUME ApartInv, [Next]_vars PROVE ApartInv'
    OBVIOUS
  <2>0. TypeOK /\ TypeOK' /\ StartedWarm /\ ReportsBehind /\ OnsetsApart
    BY TypeInductive DEF ApartInv
  <2>1. CASE UNCHANGED vars
    BY <2>0, <2>1 DEF ApartInv, StartedWarm, ReportsBehind, OnsetsApart, Behind, Sent,
                      vars, gateVars
  <2>2. ASSUME NEW f \in Features, Detect(f) PROVE ApartInv'
    <3>1. read[f] < Len(Rows) /\ (Quiet(f) \/ Loud(f))
      BY <2>0, <2>2, QuietOrLoud DEF StartedWarm
    <3>2. /\ read[f] + 1 \in 1 .. Len(Rows) /\ Seq0(f) = Rows[read[f] + 1] /\ Seq0(f) \in Nat
          /\ sampleCount \in [Features -> Nat] /\ read \in [Features -> 0 .. Len(Rows)]
          /\ Len(Rows) \in Nat
      <4>1. read[f] + 1 \in 1 .. Len(Rows) /\ Seq0(f) \in Nat
        BY <2>0, <3>1, RowFacts
      <4>2. Seq0(f) = Rows[read[f] + 1]
        BY DEF Seq0
      <4>3. sampleCount \in [Features -> Nat] /\ read \in [Features -> 0 .. Len(Rows)]
        BY <2>0 DEF TypeOK
      <4> QED
        BY <4>1, <4>2, <4>3, SMTT(30)
    <3>3. \A g \in Features \ {f} : \A s :
             Behind(g, s) => Behind(g, s)'
      BY <3>1, <3>2 DEF Quiet, Loud, Behind
    <3>4. CASE Quiet(f)
      <4>1. StartedWarm'
        <5> SUFFICES ASSUME NEW g \in Features, confirming'[g]
                     PROVE  sampleCount'[g] >= WindowSize
          BY DEF StartedWarm
        <5>1. CASE g = f
          <6>1. confirming[f] \/ sampleCount[f] + 1 >= WindowSize
            BY <3>4, <5>1 DEF Quiet
          <6>2. sampleCount[f] + 1 >= WindowSize
            BY <2>0, <3>2, <6>1, SMTT(30) DEF StartedWarm
          <6> QED
            BY <3>2, <3>4, <5>1, <6>2 DEF Quiet
        <5>2. CASE g # f
          <6>1. confirming[g]
            BY <3>4, <5>2 DEF Quiet
          <6> QED
            BY <2>0, <3>2, <3>4, <5>2, <6>1 DEF Quiet, StartedWarm
        <5> QED
          BY <5>1, <5>2
      <4>2. \A s \in Nat : Behind(f, s) => Behind(f, s)'
        <5> SUFFICES ASSUME NEW s \in Nat, Behind(f, s) PROVE Behind(f, s)'
          OBVIOUS
        <5> DEFINE base == read[f] - sampleCount[f]
        <5>1. base \in 1 .. Len(Rows) /\ Rows[base] - s >= ConfirmWin
          BY DEF Behind
        <5>2. read'[f] - sampleCount'[f] = base
          BY <3>2, <3>4 DEF Quiet
        <5>3. Seq0(f) - s >= ConfirmWin + sampleCount[f] + 1
          <6>1. read[f] \in Nat /\ sampleCount[f] \in Nat
            BY <3>2
          <6>2. Rows[read[f] + 1] - s >= ConfirmWin + sampleCount[f] + 1
            BY <3>2, <5>1, <6>1, NextRowApart
          <6> QED
            BY <3>2, <6>2
        <5>4. ASSUME confirming'[f] PROVE startSeq'[f] - s >= ConfirmWin + WindowSize
          <6>1. CASE confirming[f] /\ startSeq'[f] = startSeq[f]
            BY <6>1 DEF Behind
          <6>2. CASE sampleCount[f] + 1 >= WindowSize /\ startSeq'[f] = Seq0(f)
            <7>1. sampleCount[f] \in Nat /\ Seq0(f) \in Nat
              BY <3>2
            <7>2. ConfirmWin \in Nat /\ WindowSize \in Nat
              OBVIOUS
            <7>3. Seq0(f) - s >= ConfirmWin + WindowSize
              BY ONLY <5>3, <6>2, <7>1, <7>2, s \in Nat
            <7> QED
              BY <6>2, <7>3
          <6> QED
            BY <3>4, <5>4, <6>1, <6>2 DEF Quiet
        <5> QED
          BY <5>1, <5>2, <5>4 DEF Behind
      <4>3. \A g \in Features : Sent(g)' = Sent(g)
        BY <3>4 DEF Quiet, Sent
      <4>4. ReportsBehind'
        BY <2>0, <3>3, <4>2, <4>3, SentFacts DEF ReportsBehind
      <4>5. OnsetsApart'
        BY <2>0, <3>4 DEF Quiet, OnsetsApart
      <4> QED
        BY <2>0, <4>1, <4>4, <4>5 DEF ApartInv
    <3>5. CASE Loud(f)
      <4>1. StartedWarm'
        BY <2>0, <3>2, <3>5 DEF Loud, StartedWarm
      <4>2. confirming[f] /\ ~confirming'[f] /\ Seq0(f) - startSeq[f] >= ConfirmWin
        BY <3>5 DEF Loud
      <4>3. startSeq[f] \in Nat
        <5>1. startSeq[f] \in Seqs
          BY <2>0, <4>2 DEF TypeOK
        <5> QED
          BY <5>1 DEF Seqs
      <4>4. read'[f] - sampleCount'[f] = read[f] + 1
        BY <3>2, <3>5 DEF Loud
      <4>5. \A s \in Nat : Seq0(f) - s >= ConfirmWin => Behind(f, s)'
        BY <3>2, <4>2, <4>4 DEF Behind
      <4>6. \A s \in Nat : Behind(f, s) => startSeq[f] - s >= ConfirmWin + WindowSize
        BY <4>2 DEF Behind
      <4>7. \A s \in Nat : Behind(f, s) => Behind(f, s)'
        <5> SUFFICES ASSUME NEW s \in Nat, Behind(f, s) PROVE Seq0(f) - s >= ConfirmWin
          BY <4>5
        <5>1. startSeq[f] - s >= ConfirmWin + WindowSize
          BY <4>6
        <5>2. /\ Seq0(f) \in Nat /\ startSeq[f] \in Nat
              /\ Seq0(f) - startSeq[f] >= ConfirmWin
          BY <3>2, <4>2, <4>3
        <5>3. ConfirmWin \in Nat /\ WindowSize \in Nat
          OBVIOUS
        <5> QED
          BY ONLY <5>1, <5>2, <5>3, s \in Nat
      <4>8. \A s \in Nat : s = startSeq[f] => Behind(f, s)'
        BY <4>2, <4>5
      <4>9. ReportsBehind'
        <5> SUFFICES ASSUME NEW g \in Features, NEW i \in 1 .. Len(Sent(g)'),
                            Sent(g)'[i].featureId = g
                     PROVE  \E s \in Nat : s = Sent(g)'[i].seq /\ Behind(g, s)'
          BY DEF ReportsBehind, Behind
        <5>1. CASE i \in 1 .. Len(Sent(g)) /\ Sent(g)'[i] = Sent(g)[i]
          <6>1. Sent(g)[i].seq \in Nat /\ Behind(g, Sent(g)[i].seq)
            BY <2>0, <5>1, SentFacts DEF ReportsBehind
          <6>2. PICK s \in Nat : s = Sent(g)[i].seq /\ Behind(g, s)
            BY <6>1
          <6> QED
            BY <3>3, <4>7, <5>1, <6>2
        <5>2. CASE Sent(g)'[i].featureId = f /\ Sent(g)'[i].seq = startSeq[f]
          BY <4>3, <4>8, <5>2
        <5>3. Len(Sent(g)) \in Nat
          BY <2>0, SentFacts
        <5> QED
          BY <2>0, <3>5, <5>1, <5>2, <5>3, LoudFacts, SMTT(30)
      <4>10. OnsetsApart'
        <5> SUFFICES ASSUME NEW g \in Features,
                            NEW i \in 1 .. Len(Sent(g)'), NEW j \in 1 .. Len(Sent(g)'), i < j,
                            Sent(g)'[i].featureId = g, Sent(g)'[j].featureId = g
                     PROVE  Sent(g)'[j].seq - Sent(g)'[i].seq >= ConfirmWin + WindowSize
          BY DEF OnsetsApart, Sent
        <5>1. Len(Sent(g)) \in Nat
          BY <2>0, SentFacts
        <5>2. CASE j \in 1 .. Len(Sent(g)) /\ \A l \in 1 .. Len(Sent(g)) : Sent(g)'[l] = Sent(g)[l]
          <6>1. i \in 1 .. Len(Sent(g))
            BY <5>1, <5>2
          <6> QED
            BY <2>0, <5>2, <6>1 DEF OnsetsApart, Sent
        <5>3. CASE /\ i \in 1 .. Len(Sent(g)) /\ Sent(g)'[i] = Sent(g)[i]
                   /\ Sent(g)'[j].featureId = f /\ Sent(g)'[j].seq = startSeq[f]
          <6>1. Sent(g)[i].seq \in Nat /\ Behind(g, Sent(g)[i].seq)
            BY <2>0, <5>3, SentFacts DEF ReportsBehind
          <6> QED
            BY <4>6, <5>3, <6>1
        <5>4. CASE DetectorOf[g] # DetectorOf[f] /\ Sent(g)' = Sent(g)
          BY <5>1, <5>2, <5>4
        <5>5. CASE /\ Len(Sent(g)') = Len(Sent(g)) + 1
                   /\ \A l \in 1 .. Len(Sent(g)) : Sent(g)'[l] = Sent(g)[l]
                   /\ Sent(g)'[Len(Sent(g)) + 1].featureId = f
                   /\ Sent(g)'[Len(Sent(g)) + 1].seq = startSeq[f]
          <6>1. i \in 1 .. Len(Sent(g)) /\ (j \in 1 .. Len(Sent(g)) \/ j = Len(Sent(g)) + 1)
            BY <5>1, <5>5
          <6>2. CASE j \in 1 .. Len(Sent(g))
            BY <5>2, <5>5, <6>2
          <6>3. CASE j = Len(Sent(g)) + 1
            <7>1. Sent(g)'[j].featureId = f /\ Sent(g)'[j].seq = startSeq[f] /\ g = f
              BY <5>5, <6>3
            <7> QED
              BY <5>3, <5>5, <6>1, <7>1
          <6> QED
            BY <6>1, <6>2, <6>3
        <5> QED
          BY <2>0, <3>5, <5>4, <5>5, LoudFacts
      <4> QED
        BY <2>0, <4>1, <4>9, <4>10 DEF ApartInv
    <3> QED
      BY <3>1, <3>4, <3>5
  <2> QED
    BY <2>1, <2>2 DEF Next
<1> QED
  BY <1>1, <1>2

\* Two onsets of a feature lie a confirmation and a warm-up apart.
THEOREM OnsetsLieApart == Spec => []OnsetsApart
<1>1. ApartInv => OnsetsApart
  BY DEF ApartInv
<1> QED
  BY ApartInductive, <1>1, PTL DEF Spec

(***************************************************************************)
(* Reports in order.  When rows have consecutive numbers a confirmation    *)
(* ends exactly ConfirmWin rows after its onset, so the order of the       *)
(* reports is the order of the rows that end them.                         *)
(***************************************************************************)
NoGaps == \A i, j \in 1 .. Len(Rows) : Rows[j] - Rows[i] = j - i

\* A confirmation under way has not reached its end yet.
NotExpired ==
  \A f \in Features : confirming[f] =>
    /\ read[f] \in 1 .. Len(Rows)
    /\ Rows[read[f]] - startSeq[f] < ConfirmWin

\* The confirmation of feature g's onset s has ended.
Due(g, s) == read[g] \in 1 .. Len(Rows) /\ Rows[read[g]] - s >= ConfirmWin

ReportsDue ==
  \A d \in Detectors : \A i \in 1 .. Len(reports[d]) :
    \E g \in Features : DetectorOf[g] = d /\ Due(g, reports[d][i].seq)

\* Reports are of naturals; the numbers of rows follow their places.
LEMMA ReportFacts ==
  ASSUME TypeOK, NEW d \in Detectors
  PROVE  /\ reports[d] \in Seq(FeatureDrift)
         /\ Len(reports[d]) \in Nat
         /\ \A i \in 1 .. Len(reports[d]) : reports[d][i].seq \in Nat
<1>1. reports[d] \in Seq(FeatureDrift)
  BY DEF TypeOK
<1>2. \A r \in FeatureDrift : r.seq \in Nat
  BY DetectionAssumption DEF FeatureDrift, Seqs
<1> QED
  BY <1>1, <1>2

LEMMA RowOrder ==
  ASSUME NEW i \in 1 .. Len(Rows), NEW j \in 1 .. Len(Rows), i <= j
  PROVE  Rows[i] \in Nat /\ Rows[j] \in Nat /\ Rows[j] >= Rows[i]
<1>1. Rows[i] \in Nat /\ Rows[j] \in Nat /\ Rows[j] - Rows[i] >= j - i
  BY RowsApart
<1> QED
  BY <1>1

LEMMA RowStep ==
  ASSUME NoGaps, NEW i \in 1 .. Len(Rows), NEW j \in 1 .. Len(Rows), j = i + 1
  PROVE  Rows[i] \in Nat /\ Rows[j] \in Nat /\ Rows[j] = Rows[i] + 1
<1>1. Rows[i] \in Nat /\ Rows[j] \in Nat
  BY RowsApart
<1>2. Rows[j] - Rows[i] = j - i
  BY DEF NoGaps
<1> QED
  BY <1>1, <1>2

OrderInv == TypeOK /\ StartedWarm /\ NotExpired /\ ReportsDue /\ ReportsInOrder

LEMMA OrderInductive ==
  ASSUME NoGaps
  PROVE  /\ ApartInv /\ Init => OrderInv
         /\ ApartInv /\ ApartInv' /\ OrderInv /\ [Next]_vars => OrderInv'
<1>1. ApartInv /\ Init => OrderInv
  <2> SUFFICES ASSUME ApartInv, Init PROVE OrderInv
    OBVIOUS
  <2>1. \A d \in Detectors : reports[d] = <<>>
    BY DEF Init
  <2>2. \A f \in Features : ~confirming[f]
    BY DEF Init
  <2> QED
    BY <2>1, <2>2 DEF ApartInv, OrderInv, NotExpired, ReportsDue, ReportsInOrder
<1>2. ASSUME ApartInv, ApartInv', OrderInv, [Next]_vars PROVE OrderInv'
  <2>0. /\ TypeOK /\ StartedWarm /\ NotExpired /\ ReportsDue /\ ReportsInOrder
        /\ TypeOK' /\ StartedWarm'
    BY <1>2 DEF ApartInv, OrderInv
  <2>1. CASE UNCHANGED vars
    BY <2>0, <2>1 DEF OrderInv, NotExpired, ReportsDue, Due, ReportsInOrder, vars, gateVars
  <2>2. ASSUME NEW f \in Features, Detect(f) PROVE OrderInv'
    <3>1. read[f] < Len(Rows) /\ (Quiet(f) \/ Loud(f))
      BY <2>0, <2>2, QuietOrLoud DEF StartedWarm
    <3>9. PICK n \in 1 .. Len(Rows) : n = read[f] + 1 /\ Seq0(f) = Rows[n] /\ Seq0(f) \in Nat
      BY <2>0, <3>1, RowFacts DEF Seq0
    <3>2. /\ read \in [Features -> 0 .. Len(Rows)]
          /\ Len(Rows) \in Nat /\ ConfirmWin \in Nat \ {0}
      BY <2>0, DetectionAssumption DEF TypeOK
    <3>3. /\ read' = [read EXCEPT ![f] = @ + 1]
          /\ \A g \in Features \ {f} : confirming'[g] = confirming[g] /\ startSeq'[g] = startSeq[g]
      BY <3>1 DEF Quiet, Loud
    <3>4. \A g \in Features, s \in Nat : Due(g, s) => Due(g, s)'
      <4> SUFFICES ASSUME NEW g \in Features, NEW s \in Nat, Due(g, s) PROVE Due(g, s)'
        OBVIOUS
      <4>1. CASE g = f
        <5>1. read[f] \in 1 .. Len(Rows) /\ Rows[read[f]] - s >= ConfirmWin
          BY <4>1 DEF Due
        <5>2. Rows[read[f]] \in Nat /\ Rows[n] \in Nat /\ Rows[n] >= Rows[read[f]]
          BY <3>9, <5>1, RowOrder
        <5>3. Rows[n] - s >= ConfirmWin
          BY <3>2, <5>1, <5>2
        <5>4. read'[g] = n
          BY <3>9, <3>2, <3>3, <4>1
        <5> QED
          BY <3>2, <5>3, <5>4 DEF Due
      <4>2. CASE g # f
        BY <3>2, <3>3, <4>2 DEF Due
      <4> QED
        BY <4>1, <4>2
    <3>5. \A d \in Detectors : \A i \in 1 .. Len(reports[d]) : reports[d][i].seq \in Nat
      BY <2>0, ReportFacts
    <3>6. NotExpired'
      <4> SUFFICES ASSUME NEW g \in Features, confirming'[g]
                   PROVE  read'[g] \in 1 .. Len(Rows) /\ Rows[read'[g]] - startSeq'[g] < ConfirmWin
        BY DEF NotExpired
      <4>1. CASE g = f
        <5>1. read'[g] = n /\ Rows[read'[g]] = Seq0(f)
          BY <3>9, <3>2, <3>3, <4>1
        <5>2. CASE startSeq'[f] = startSeq[f] /\ Seq0(f) - startSeq[f] < ConfirmWin
          BY <4>1, <5>1, <5>2
        <5>3. CASE startSeq'[f] = Seq0(f)
          BY <3>9, <3>2, <4>1, <5>1, <5>3
        <5> QED
          BY <3>1, <4>1, <5>2, <5>3 DEF Quiet, Loud
      <4>2. CASE g # f
        <5>1. confirming[g]
          BY <3>3, <4>2
        <5> QED
          BY <2>0, <3>2, <3>3, <4>2, <5>1 DEF NotExpired
      <4> QED
        BY <4>1, <4>2
    <3>7. CASE Quiet(f)
      <4>1. reports' = reports
        BY <3>7 DEF Quiet
      <4>2. ReportsDue'
        <5> SUFFICES ASSUME NEW d \in Detectors, NEW i \in 1 .. Len(reports[d])
                     PROVE  \E g \in Features : DetectorOf[g] = d /\ Due(g, reports[d][i].seq)'
          BY <4>1 DEF ReportsDue, Due
        <5>1. PICK s \in Nat : s = reports[d][i].seq
          BY <3>5
        <5>2. PICK g \in Features : DetectorOf[g] = d /\ Due(g, s)
          BY <2>0, <5>1 DEF ReportsDue
        <5>3. Due(g, s)'
          BY <3>4, <5>2
        <5> QED
          BY <4>1, <5>1, <5>2, <5>3 DEF Due
      <4> QED
        BY <2>0, <3>6, <4>1, <4>2 DEF OrderInv, ReportsInOrder
    <3>8. CASE Loud(f)
      <4>1. confirming[f] /\ Seq0(f) - startSeq[f] >= ConfirmWin
        BY <3>8 DEF Loud
      <4>2. startSeq[f] \in Nat
        <5>1. startSeq[f] \in Seqs
          BY <2>0, <4>1 DEF TypeOK
        <5> QED
          BY <5>1, DetectionAssumption DEF Seqs
      <4>3. Seq0(f) - startSeq[f] <= ConfirmWin
        <5>1. read[f] \in 1 .. Len(Rows) /\ Rows[read[f]] - startSeq[f] < ConfirmWin
          BY <2>0, <4>1 DEF NotExpired
        <5>2. Rows[read[f]] \in Nat /\ Rows[n] = Rows[read[f]] + 1
          BY <3>9, <5>1, RowStep
        <5> QED
          BY <3>9, <3>2, <4>2, <5>1, <5>2
      <4>4. \A i \in 1 .. Len(reports[DetectorOf[f]]) :
               reports[DetectorOf[f]][i].seq <= startSeq[f]
        <5> SUFFICES ASSUME NEW i \in 1 .. Len(reports[DetectorOf[f]])
                     PROVE  reports[DetectorOf[f]][i].seq <= startSeq[f]
          OBVIOUS
        <5>0. DetectorOf[f] \in Detectors
          BY DetectionAssumption
        <5>1. PICK s \in Nat : s = reports[DetectorOf[f]][i].seq
          BY <3>5, <5>0
        <5>2. PICK g \in Features : DetectorOf[g] = DetectorOf[f] /\ Due(g, s)
          BY <2>0, <5>0, <5>1 DEF ReportsDue
        <5>3. read[g] \in 1 .. Len(Rows) /\ Rows[read[g]] - s >= ConfirmWin
          BY <5>2 DEF Due
        <5>4. read[g] <= n
          <6>1. read[g] = (IF g < f THEN read[f] + 1 ELSE read[f])
            BY <2>2, <5>2 DEF Detect, Turn
          <6> QED
            BY <3>9, <3>2, <6>1
        <5>5. Rows[read[g]] \in Nat /\ Rows[n] >= Rows[read[g]]
          BY <5>3, <5>4, RowOrder
        <5>6. Rows[n] - s >= ConfirmWin
          BY <3>9, <3>2, <5>3, <5>5
        <5>7. Rows[n] - startSeq[f] <= ConfirmWin
          BY <3>9, <4>3
        <5>8. Rows[n] \in Nat
          BY <3>9
        <5> QED
          BY <3>2, <4>2, <5>1, <5>6, <5>7, <5>8, SMTT(30)
      <4>5. \A s \in Nat : s = startSeq[f] => Due(f, s)'
        BY <3>9, <3>2, <3>3, <4>1 DEF Due
      <4>6. ASSUME NEW d \in Detectors, NEW i \in 1 .. Len(reports'[d])
            PROVE  \/ i \in 1 .. Len(reports[d]) /\ reports'[d][i] = reports[d][i]
                   \/ /\ d = DetectorOf[f] /\ i = Len(reports[d]) + 1
                      /\ reports'[d][i].seq = startSeq[f]
        <5>1. Len(reports[d]) \in Nat
          BY <2>0, ReportFacts
        <5>2. CASE reports'[d] = reports[d]
          BY <5>2
        <5>3. CASE /\ d = DetectorOf[f]
                   /\ Len(reports'[d]) = Len(reports[d]) + 1
                   /\ \A j \in 1 .. Len(reports[d]) : reports'[d][j] = reports[d][j]
                   /\ reports'[d][Len(reports[d]) + 1].seq = startSeq[f]
          <6>1. i \in 1 .. Len(reports[d]) \/ i = Len(reports[d]) + 1
            BY <5>1, <5>3
          <6> QED
            BY <5>3, <6>1
        <5> QED
          BY <2>0, <3>8, <5>2, <5>3, LoudAppends
      <4>7. ReportsDue'
        <5> SUFFICES ASSUME NEW d \in Detectors, NEW i \in 1 .. Len(reports'[d])
                     PROVE  \E s \in Nat : /\ s = reports'[d][i].seq
                                           /\ \E g \in Features : DetectorOf[g] = d /\ Due(g, s)'
          BY DEF ReportsDue, Due
        <5>1. CASE i \in 1 .. Len(reports[d]) /\ reports'[d][i] = reports[d][i]
          <6>1. PICK s \in Nat : s = reports[d][i].seq
            BY <3>5, <5>1
          <6>2. PICK g \in Features : DetectorOf[g] = d /\ Due(g, s)
            BY <2>0, <5>1, <6>1 DEF ReportsDue
          <6> QED
            BY <3>4, <5>1, <6>1, <6>2
        <5>2. CASE d = DetectorOf[f] /\ reports'[d][i].seq = startSeq[f]
          BY <4>2, <4>5, <5>2
        <5> QED
          BY <4>6, <5>1, <5>2
      <4>8. ReportsInOrder'
        <5> SUFFICES ASSUME NEW d \in Detectors, NEW i \in 1 .. Len(reports'[d]),
                            NEW j \in 1 .. Len(reports'[d]), i < j
                     PROVE  reports'[d][i].seq <= reports'[d][j].seq
          BY DEF ReportsInOrder
        <5>1. Len(reports[d]) \in Nat
          BY <2>0, ReportFacts
        <5>2. CASE j \in 1 .. Len(reports[d]) /\ reports'[d][j] = reports[d][j]
          <6>0. i \in 1 .. Len(reports[d]) /\ i # Len(reports[d]) + 1
            BY <5>1, <5>2
          <6>1. i \in 1 .. Len(reports[d]) /\ reports'[d][i] = reports[d][i]
            BY <4>6, <6>0, Zenon
          <6> QED
            BY <2>0, <5>2, <6>1 DEF ReportsInOrder
        <5>3. CASE d = DetectorOf[f] /\ j = Len(reports[d]) + 1 /\ reports'[d][j].seq = startSeq[f]
          <6>0. i \in 1 .. Len(reports[d]) /\ i # Len(reports[d]) + 1
            BY <5>1, <5>3
          <6>1. i \in 1 .. Len(reports[d]) /\ reports'[d][i] = reports[d][i]
            BY <4>6, <6>0, Zenon
          <6> QED
            BY <4>4, <5>3, <6>1
        <5> QED
          BY <4>6, <5>2, <5>3
      <4> QED
        BY <2>0, <3>6, <4>7, <4>8 DEF OrderInv
    <3> QED
      BY <3>1, <3>7, <3>8
  <2> QED
    BY <1>2, <2>1, <2>2 DEF Next
<1> QED
  BY <1>1, <1>2

\* Rows numbered without a gap, a detector subtask writes its reports in the
\* order of their onsets: what the aggregator's window rests on.
THEOREM ReportsAreOrdered == ASSUME NoGaps PROVE Spec => []ReportsInOrder
<1>1. OrderInv => ReportsInOrder
  BY DEF OrderInv
<1> QED
  BY ApartInductive, OrderInductive, <1>1, PTL DEF Spec

(***************************************************************************)
(* Every onset rests on an excess of ks that was seen.                     *)
(***************************************************************************)

\* ks of feature f exceeded the threshold at the row numbered s.
Exceeded(f, s) == \E j \in 1 .. read[f] : Rows[j] = s /\ history[f][j] > Threshold

StartExceeded == \A f \in Features : confirming[f] => Exceeded(f, startSeq[f])

OnsetsExceeded ==
  \A d \in Detectors : \A i \in 1 .. Len(reports[d]) :
    Exceeded(reports[d][i].featureId, reports[d][i].seq)

ExcessInv == ApartInv /\ StartExceeded /\ OnsetsExceeded

\* What was seen stays seen.
LEMMA ExceededStays ==
  ASSUME TypeOK, NEW f \in Features, NEW k, Update(f, k),
         NEW g \in Features, NEW s, Exceeded(g, s)
  PROVE  Exceeded(g, s)'
<1>1. PICK j \in 1 .. read[g] : Rows[j] = s /\ history[g][j] > Threshold
  BY DEF Exceeded
<1>2. /\ read \in [Features -> 0 .. Len(Rows)]
      /\ history \in [Features -> Seq(Ks \cup {Null})]
      /\ Len(history[g]) = read[g] /\ read[g] \in Nat
  BY DEF TypeOK
<1>3. CASE g # f
  BY <1>1, <1>2, <1>3 DEF Update, Exceeded
<1>4. CASE g = f
  <2>1. read'[f] = read[f] + 1 /\ history'[f] = Append(history[f], k)
    BY <1>2 DEF Update
  <2>2. j \in 1 .. Len(history[f]) /\ history[f] \in Seq(Ks \cup {Null})
    BY <1>2, <1>4
  <2>3. Append(history[f], k)[j] = history[f][j]
    BY <2>2
  <2>4. j \in 1 .. read'[f]
    BY <1>2, <1>4, <2>1
  <2>5. Rows[j] = s /\ history'[f][j] > Threshold
    BY <1>1, <1>4, <2>1, <2>3
  <2> QED
    BY <1>4, <2>4, <2>5 DEF Exceeded
<1> QED
  BY <1>3, <1>4

\* A confirmation starts with an excess.
LEMMA StartsWithExcess ==
  ASSUME TypeOK, NEW f \in Features, read[f] < Len(Rows), NEW k \in Ks, StartConfirm(f, k),
         NEW s, s = Seq0(f)
  PROVE  Exceeded(f, s)'
<1> DEFINE j == read[f] + 1
<1>1. /\ read \in [Features -> 0 .. Len(Rows)]
      /\ history \in [Features -> Seq(Ks \cup {Null})]
      /\ Len(history[f]) = read[f] /\ read[f] \in Nat
  BY DEF TypeOK
<1>2. read'[f] = j /\ history'[f] = Append(history[f], k) /\ k > Threshold
  BY <1>1 DEF StartConfirm, Update
<1>3. Append(history[f], k)[j] = k
  BY <1>1
<1>4. j \in 1 .. read'[f]
  BY <1>1, <1>2
<1>5. Rows[j] = s /\ history'[f][j] > Threshold
  BY <1>2, <1>3 DEF Seq0
<1> QED
  BY <1>4, <1>5 DEF Exceeded

LEMMA ExcessInductive ==
  /\ Init => ExcessInv
  /\ ExcessInv /\ [Next]_vars => ExcessInv'
<1>1. Init => ExcessInv
  BY ApartInductive DEF Init, ExcessInv, StartExceeded, OnsetsExceeded
<1>2. ASSUME ExcessInv, [Next]_vars PROVE ExcessInv'
  <2>0. /\ ApartInv /\ ApartInv' /\ TypeOK /\ TypeOK'
        /\ StartedWarm /\ StartExceeded /\ OnsetsExceeded
    BY <1>2, ApartInductive DEF ExcessInv, ApartInv
  <2>1. CASE UNCHANGED vars
    BY <2>0, <2>1 DEF ExcessInv, StartExceeded, OnsetsExceeded, Exceeded, vars, gateVars
  <2>2. ASSUME NEW f \in Features, Detect(f) PROVE ExcessInv'
    <3>1. read[f] < Len(Rows) /\ (Quiet(f) \/ Loud(f))
      BY <2>0, <2>2, QuietOrLoud DEF StartedWarm
    <3>2. \E k : Update(f, k)
      BY <2>2 DEF Detect, ProcessElement, WarmUp, StayQuiet, StartConfirm, KeepConfirming,
                  Confirm, DiscardTransient
    <3>3. ASSUME NEW g \in Features, NEW s, Exceeded(g, s) PROVE Exceeded(g, s)'
      BY <2>0, <3>2, <3>3, ExceededStays
    <3>4. \A d \in Detectors : \A i \in 1 .. Len(reports[d]) :
            /\ reports[d][i].featureId \in Features
            /\ Exceeded(reports[d][i].featureId, reports[d][i].seq)
      <4>1. \A r \in FeatureDrift : r.featureId \in Features
        BY DEF FeatureDrift
      <4>2. \A d \in Detectors : reports[d] \in Seq(FeatureDrift)
        BY <2>0, ReportFacts
      <4>3. \A d \in Detectors : \A i \in 1 .. Len(reports[d]) : reports[d][i] \in FeatureDrift
        BY <4>2
      <4> QED
        BY <2>0, <4>1, <4>3 DEF OnsetsExceeded
    <3>5. StartExceeded'
      <4> SUFFICES ASSUME NEW g \in Features, confirming'[g]
                   PROVE  \E s : s = startSeq'[g] /\ Exceeded(g, s)'
        BY DEF StartExceeded, Exceeded
      <4>1. CASE confirming[g] /\ startSeq'[g] = startSeq[g]
        <5>1. Exceeded(g, startSeq[g])
          BY <2>0, <4>1 DEF StartExceeded
        <5>2. PICK s : s = startSeq[g]
          OBVIOUS
        <5>3. Exceeded(g, s)'
          BY <3>3, <5>1, <5>2
        <5> QED
          BY <4>1, <5>2, <5>3
      <4>2. CASE g = f /\ \E k \in Ks : StartConfirm(f, k)
        <5>1. PICK s : s = Seq0(f)
          OBVIOUS
        <5>2. Exceeded(f, s)'
          BY <2>0, <3>1, <4>2, <5>1, StartsWithExcess
        <5>3. startSeq'[f] = s
          BY <2>0, <4>2, <5>1 DEF StartConfirm, TypeOK
        <5> QED
          BY <4>2, <5>2, <5>3
      <4>3. CASE g # f
        BY <3>1, <4>1, <4>3 DEF Quiet, Loud
      <4>4. CASE g = f /\ ~\E k \in Ks : StartConfirm(f, k)
        <5>1. confirming \in [Features -> BOOLEAN]
          BY <2>0 DEF TypeOK
        <5>2. \/ startSeq'[f] = startSeq[f] /\ confirming'[f] = confirming[f]
              \/ ~confirming'[f]
          BY <2>2, <4>4, <5>1 DEF Detect, ProcessElement, WarmUp, StayQuiet, KeepConfirming,
                                  Confirm, DiscardTransient, LeaveConfirming
        <5> QED
          BY <4>1, <4>4, <5>2
      <4> QED
        BY <4>2, <4>3, <4>4
    <3>6. OnsetsExceeded'
      <4> SUFFICES ASSUME NEW d \in Detectors, NEW i \in 1 .. Len(reports'[d])
                   PROVE  \E g, s : /\ g = reports'[d][i].featureId /\ s = reports'[d][i].seq
                                    /\ Exceeded(g, s)'
        BY DEF OnsetsExceeded, Exceeded
      <4>1. CASE i \in 1 .. Len(reports[d]) /\ reports'[d][i] = reports[d][i]
        <5>1. PICK g, s : g = reports[d][i].featureId /\ s = reports[d][i].seq
          OBVIOUS
        <5>2. g \in Features /\ Exceeded(g, s)
          BY <3>4, <4>1, <5>1
        <5>3. Exceeded(g, s)'
          BY <3>3, <5>2
        <5> QED
          BY <4>1, <5>1, <5>3
      <4>2. CASE Quiet(f)
        BY <4>1, <4>2 DEF Quiet
      <4>3. CASE Loud(f)
        <5>1. Len(reports[d]) \in Nat
          BY <2>0, ReportFacts
        <5>2. CASE i \in 1 .. Len(reports[d])
          BY <2>0, <4>1, <4>3, <5>2, LoudAppends
        <5>3. CASE i \notin 1 .. Len(reports[d])
          <6>1. /\ i = Len(reports[d]) + 1
                /\ reports'[d][Len(reports[d]) + 1].featureId = f
                /\ reports'[d][Len(reports[d]) + 1].seq = startSeq[f]
            BY <2>0, <4>3, <5>1, <5>3, LoudAppends
          <6>2. PICK g, s : g = f /\ s = startSeq[f]
            OBVIOUS
          <6>3. Exceeded(g, s)
            BY <2>0, <4>3, <6>2 DEF StartExceeded, Loud
          <6>4. Exceeded(g, s)'
            BY <3>3, <6>2, <6>3
          <6> QED
            BY <6>1, <6>2, <6>4
        <5> QED
          BY <5>2, <5>3
      <4> QED
        BY <3>1, <4>2, <4>3
    <3> QED
      BY <2>0, <3>5, <3>6 DEF ExcessInv
  <2> QED
    BY <1>2, <2>1, <2>2 DEF Next
<1> QED
  BY <1>1, <1>2

\* No report without cause: ks of the feature exceeded the threshold at the
\* very row that PerFeatureIKSFunction reports as the onset.
THEOREM OnsetsAreExcesses == Spec => []OnsetsExceeded
<1>1. ExcessInv => OnsetsExceeded
  BY DEF ExcessInv
<1> QED
  BY <1>1, ExcessInductive, PTL DEF Spec

(***************************************************************************)
(* Reports and confirmations.  Inductively, the peak of a confirmation     *)
(* under way is the largest ks since its start, a report's is the largest  *)
(* of its confirmation, and an excess that would pass the peak gate lies   *)
(* in a report's confirmation or in the one under way.                     *)
(***************************************************************************)

\* ks exceeded the threshold at row p and m is its peak over the rows p .. q.
PeakIn(h, p, q, m) ==
  /\ h[p] > Threshold
  /\ \E i \in p .. q : h[i] = m
  /\ \A i \in p .. q : h[i] <= m

\* The report of a confirmation that ended among the first n rows.
Confirmed(h, n, report) ==
  /\ report.peak >= KsConfirm
  /\ \E p, q \in 1 .. n : /\ p <= q /\ Rows[p] = report.seq
                         /\ ConfirmationRows(report) = p .. q
                         /\ PeakIn(h, p, q, report.peak)

Underway ==
  \A f \in Features : confirming[f] =>
    \E p \in 1 .. read[f] : /\ Rows[p] = startSeq[f]
                            /\ PeakIn(history[f], p, read[f], peakKs[f])

AllConfirmed ==
  \A f \in Features : \A i \in 1 .. Len(Sent(f)) :
    Sent(f)[i].featureId = f => Confirmed(history[f], read[f], Sent(f)[i])

\* An excess that would pass the peak gate.
Excess(k) == k > Threshold /\ k >= KsConfirm

\* Row i of feature f lies in the confirmation of a report of it.
Reported(f, i) ==
  \E j \in 1 .. Len(Sent(f)) : Sent(f)[j].featureId = f /\ i \in ConfirmationRows(Sent(f)[j])

Recalled ==
  \A f \in Features : \A i \in 1 .. read[f] :
    Excess(history[f][i]) => Reported(f, i) \/ (confirming[f] /\ Rows[i] >= startSeq[f])

PeakInv ==
  TypeOK /\ StartedWarm /\ NotExpired /\ Underway /\ AllConfirmed /\ Recalled

\* The ways a step of f with statistic k (Null in warm-up) goes.
Idle(f, k) ==
  ~confirming[f] /\ ~confirming'[f] /\ k <= Threshold /\ reports' = reports
Starts(f, k) ==
  /\ ~confirming[f] /\ confirming'[f] /\ k > Threshold /\ reports' = reports
  /\ startSeq'[f] = Seq0(f) /\ peakKs'[f] = k
Keeps(f, k) ==
  /\ confirming[f] /\ confirming'[f] /\ Seq0(f) - startSeq[f] < ConfirmWin
  /\ startSeq'[f] = startSeq[f] /\ peakKs'[f] = Peak(f, k) /\ reports' = reports
Confirms(f, k) ==
  /\ confirming[f] /\ ~confirming'[f] /\ Seq0(f) - startSeq[f] >= ConfirmWin
  /\ Peak(f, k) >= KsConfirm
  /\ reports' = [reports EXCEPT ![DetectorOf[f]] =
       Append(@, [featureId |-> f, seq |-> startSeq[f], peak |-> Peak(f, k)])]
Discards(f, k) ==
  confirming[f] /\ ~confirming'[f] /\ Peak(f, k) < KsConfirm /\ reports' = reports

\* Only f moves, by one value.
Takes(f, k) ==
  /\ read[f] + 1 \in 1 .. Len(Rows)
  /\ read'[f] = read[f] + 1
  /\ history'[f][read[f] + 1] = k
  /\ \A i \in 1 .. read[f] : history'[f][i] = history[f][i]
  /\ \A g \in Features \ {f} :
       /\ read'[g] = read[g] /\ history'[g] = history[g]
       /\ confirming'[g] = confirming[g] /\ startSeq'[g] = startSeq[g]
       /\ peakKs'[g] = peakKs[g]

LEMMA UpdateTakes ==
  ASSUME TypeOK, NEW f \in Features, read[f] < Len(Rows), NEW k \in Ks \cup {Null},
         Update(f, k),
         \A g \in Features \ {f} :
           /\ confirming'[g] = confirming[g] /\ startSeq'[g] = startSeq[g]
           /\ peakKs'[g] = peakKs[g]
  PROVE  Takes(f, k)
<1>1. /\ read \in [Features -> 0 .. Len(Rows)]
      /\ history \in [Features -> Seq(Ks \cup {Null})]
      /\ Len(history[f]) = read[f] /\ read[f] \in Nat
  BY DEF TypeOK
<1>2. /\ read' = [read EXCEPT ![f] = read[f] + 1]
      /\ history' = [history EXCEPT ![f] = Append(history[f], k)]
  BY DEF Update
<1>3. read[f] + 1 \in 1 .. Len(Rows)
  BY RowFacts
<1>4. history[f] \in Seq(Ks \cup {Null})
  BY <1>1
<1>5. /\ Append(history[f], k)[read[f] + 1] = k
      /\ \A i \in 1 .. read[f] : Append(history[f], k)[i] = history[f][i]
  BY <1>1, <1>4
<1> QED
  BY <1>1, <1>2, <1>3, <1>5 DEF Takes

LEMMA StepCases ==
  ASSUME TypeOK, StartedWarm, NEW f \in Features, Detect(f)
  PROVE  \/ \E k \in Ks \cup {Null} : Takes(f, k) /\ Idle(f, k)
         \/ \E k \in Ks : /\ Takes(f, k)
                          /\ \/ Starts(f, k) \/ Keeps(f, k)
                             \/ Confirms(f, k) \/ Discards(f, k)
<1> USE DetectionAssumption
<1>0. read[f] < Len(Rows)
  BY DEF Detect, Turn
<1>1. Seq0(f) \in Nat /\ sampleCount[f] \in Nat
  BY <1>0, RowFacts DEF TypeOK
<1>2. /\ confirming \in [Features -> BOOLEAN]
      /\ DOMAIN startSeq = Features /\ DOMAIN peakKs = Features
  BY DEF TypeOK
<1>3. CASE WarmUp(f)
  <2>1. ~confirming[f]
    BY <1>1, <1>3 DEF WarmUp, Warm, StartedWarm
  <2>2. Idle(f, Null)
    BY <1>3, <2>1 DEF WarmUp, Idle, Null
  <2>3. Takes(f, Null)
    BY <1>0, <1>3, UpdateTakes DEF WarmUp
  <2> QED
    BY <2>2, <2>3
<1>4. ASSUME NEW k \in Ks, StayQuiet(f, k) PROVE Idle(f, k) /\ Takes(f, k)
  <2>1. Takes(f, k)
    BY <1>0, <1>4, UpdateTakes DEF StayQuiet
  <2> QED
    BY <1>4, <2>1 DEF StayQuiet, Idle
<1>5. ASSUME NEW k \in Ks, StartConfirm(f, k) PROVE Starts(f, k) /\ Takes(f, k)
  <2>1. Takes(f, k)
    BY <1>0, <1>2, <1>5, UpdateTakes DEF StartConfirm
  <2> QED
    BY <1>2, <1>5, <2>1 DEF StartConfirm, Starts
<1>6. ASSUME NEW k \in Ks, KeepConfirming(f, k) PROVE Keeps(f, k) /\ Takes(f, k)
  <2>1. Takes(f, k)
    BY <1>0, <1>2, <1>6, UpdateTakes DEF KeepConfirming
  <2>2. confirming[f] /\ ~(Seq0(f) - startSeq[f] >= ConfirmWin)
    BY <1>6, Zenon DEF KeepConfirming, Expired
  <2>3. startSeq[f] \in Nat
    BY <1>6, <2>2, PeakFacts
  <2>4. Seq0(f) - startSeq[f] < ConfirmWin
    BY <1>1, <2>2, <2>3
  <2> QED
    BY <1>2, <1>6, <2>1, <2>4 DEF KeepConfirming, Keeps
<1>7. ASSUME NEW k \in Ks, Confirm(f, k) PROVE Confirms(f, k) /\ Takes(f, k)
  <2>1. Takes(f, k)
    BY <1>0, <1>2, <1>7, UpdateTakes DEF Confirm, LeaveConfirming
  <2> QED
    BY <1>2, <1>7, <2>1 DEF Confirm, Expired, LeaveConfirming, Confirms
<1>8. ASSUME NEW k \in Ks, DiscardTransient(f, k) PROVE Discards(f, k) /\ Takes(f, k)
  <2>1. Takes(f, k)
    BY <1>0, <1>2, <1>8, UpdateTakes DEF DiscardTransient, LeaveConfirming
  <2> QED
    BY <1>2, <1>8, <2>1 DEF DiscardTransient, LeaveConfirming, Discards
<1> QED
  BY <1>3, <1>4, <1>5, <1>6, <1>7, <1>8 DEF Detect, ProcessElement

\* A value more: the peak follows, and what was confirmed stays confirmed.
LEMMA PeakExtends ==
  ASSUME NEW h, NEW g, NEW n \in Nat, NEW p \in 1 .. n, NEW m \in Int, NEW k \in Int,
         PeakIn(h, p, n, m), \A i \in 1 .. n : g[i] = h[i] /\ h[i] \in Int, g[n + 1] = k
  PROVE  PeakIn(g, p, n + 1, IF k > m THEN k ELSE m)
<1> DEFINE top == IF k > m THEN k ELSE m
<1>1. top \in Int /\ top >= m /\ top >= k /\ (top = m \/ top = k)
  OBVIOUS
<1>2. g[p] > Threshold
  BY DEF PeakIn
<1>3. \A i \in p .. n : i \in 1 .. n /\ g[i] = h[i] /\ h[i] \in Int /\ i \in p .. n + 1
  OBVIOUS
<1>4. \E i \in p .. n + 1 : g[i] = top
  <2>1. PICK i \in p .. n : h[i] = m
    BY DEF PeakIn
  <2>2. n + 1 \in p .. n + 1
    OBVIOUS
  <2> QED
    BY <1>1, <1>3, <2>1, <2>2
<1>5. ASSUME NEW i \in p .. n + 1 PROVE g[i] <= top
  <2>1. CASE i = n + 1
    BY <1>1, <2>1
  <2>2. CASE i # n + 1
    <3>1. i \in p .. n
      BY <2>2
    <3>2. g[i] = h[i] /\ h[i] <= m
      BY <1>3, <3>1 DEF PeakIn
    <3>3. h[i] \in Int
      BY <1>3, <3>1
    <3> QED
      BY <1>1, <3>2, <3>3
  <2> QED
    BY <2>1, <2>2
<1> HIDE DEF top
<1>6. PeakIn(g, p, n + 1, top)
  BY <1>2, <1>4, <1>5 DEF PeakIn
<1> QED
  BY <1>6 DEF top

LEMMA ConfirmedStays ==
  ASSUME NEW h, NEW g, NEW n \in Nat, NEW l \in Nat, n <= l, NEW r,
         \A i \in 1 .. n : g[i] = h[i], Confirmed(h, n, r)
  PROVE  Confirmed(g, l, r)
<1>1. PICK p \in 1 .. n, q \in 1 .. n :
        /\ p <= q /\ Rows[p] = r.seq
        /\ ConfirmationRows(r) = p .. q /\ PeakIn(h, p, q, r.peak)
  BY DEF Confirmed
<1>2. \A i \in p .. q : i \in 1 .. n
  BY <1>1
<1>3. p \in p .. q /\ p \in 1 .. l /\ q \in 1 .. l
  BY <1>1
<1>4. PeakIn(g, p, q, r.peak)
  BY <1>1, <1>2, <1>3 DEF PeakIn
<1> QED
  BY <1>1, <1>3, <1>4 DEF Confirmed

\* A confirmation that started at row p and ended at row q took these rows.
LEMMA RowsOfConfirmation ==
  ASSUME NEW q \in 1 .. Len(Rows), NEW p \in 1 .. q - 1,
         NEW s \in Nat, NEW report, report.seq = s, Rows[p] = s,
         Rows[q] - s >= ConfirmWin, Rows[q - 1] - s < ConfirmWin
  PROVE  ConfirmationRows(report) = p .. q
<1> DEFINE C == ConfirmationRows(report)
<1>0. Len(Rows) \in Nat /\ ConfirmWin \in Nat
  BY DetectionAssumption
<1>1. p \in 1 .. Len(Rows) /\ q - 1 \in 1 .. Len(Rows)
  BY <1>0
<1>2. ASSUME NEW i \in p .. q PROVE i \in C
  <2>1. i \in 1 .. Len(Rows)
    BY <1>0
  <2>2. Rows[i] >= s
    BY <1>1, <2>1, RowOrder
  <2>3. ASSUME NEW j \in 1 .. i - 1 PROVE Rows[j] - s < ConfirmWin
    <3>1. j \in 1 .. Len(Rows) /\ j <= q - 1
      BY <1>0, <2>1
    <3>2. Rows[j] \in Nat /\ Rows[q - 1] \in Nat /\ Rows[q - 1] >= Rows[j]
      BY <1>1, <3>1, RowOrder
    <3> QED
      BY <1>0, <3>2
  <2> QED
    BY <2>1, <2>2, <2>3 DEF ConfirmationRows
<1>3. ASSUME NEW i \in C PROVE i \in p .. q
  <2>1. /\ i \in 1 .. Len(Rows) /\ Rows[i] >= s
        /\ \A j \in 1 .. i - 1 : Rows[j] - s < ConfirmWin
    BY DEF ConfirmationRows
  <2>2. i >= p
    <3> SUFFICES ASSUME i < p PROVE FALSE
      BY <1>1, <2>1
    <3>1. i \in 1 .. Len(Rows) /\ i <= p
      BY <1>0, <1>1, <2>1
    <3>2. Rows[i] \in Nat /\ Rows[p] \in Nat /\ Rows[p] - Rows[i] >= p - i
      BY <1>1, <3>1, RowsApart
    <3> QED
      BY <1>0, <2>1, <3>2
  <2>3. i <= q
    <3> SUFFICES ASSUME i > q PROVE FALSE
      BY <1>1, <2>1
    <3>1. q \in 1 .. i - 1
      BY <1>0, <2>1
    <3>2. Rows[q] - s < ConfirmWin
      BY <2>1, <3>1
    <3>3. Rows[q] \in Nat
      BY RowsApart
    <3> QED
      BY <1>0, <3>2, <3>3
  <2> QED
    BY <2>1, <2>2, <2>3
<1> QED
  BY <1>2, <1>3

\* The reports of feature f after a step of feature g.
LEMMA SentGrows ==
  ASSUME TypeOK, NEW g \in Features, NEW r \in FeatureDrift,
         reports' = [reports EXCEPT ![DetectorOf[g]] = Append(@, r)], NEW f \in Features
  PROVE  /\ DetectorOf[f] # DetectorOf[g] => Sent(f)' = Sent(f)
         /\ DetectorOf[f] = DetectorOf[g] =>
              /\ Len(Sent(f)') = Len(Sent(f)) + 1
              /\ Sent(f)'[Len(Sent(f)) + 1] = r
              /\ \A i \in 1 .. Len(Sent(f)) : Sent(f)'[i] = Sent(f)[i]
<1>1. /\ reports \in [Detectors -> Seq(FeatureDrift)]
      /\ DetectorOf[f] \in Detectors /\ DetectorOf[g] \in Detectors
  BY DetectionAssumption DEF TypeOK
<1>2. Sent(f) \in Seq(FeatureDrift)
  BY <1>1 DEF Sent
<1>3. CASE DetectorOf[f] = DetectorOf[g]
  <2>1. Sent(f)' = Append(Sent(f), r)
    BY <1>1, <1>3 DEF Sent
  <2> QED
    BY <1>2, <1>3, <2>1
<1>4. CASE DetectorOf[f] # DetectorOf[g]
  BY <1>1, <1>4 DEF Sent
<1> QED
  BY <1>3, <1>4

\* The peak so far takes the value in.
LEMMA PeakFollows ==
  ASSUME PeakInv, NEW f \in Features, NEW k \in Ks, Takes(f, k), confirming[f]
  PROVE  \E p \in 1 .. read[f] :
            Rows[p] = startSeq[f] /\ PeakIn(history'[f], p, read[f] + 1, Peak(f, k))
<1>0. TypeOK /\ read[f] \in Nat /\ read'[f] = read[f] + 1
  BY DEF PeakInv, TypeOK, Takes
<1>1. PICK p \in 1 .. read[f] :
        Rows[p] = startSeq[f] /\ PeakIn(history[f], p, read[f], peakKs[f])
  BY DEF PeakInv, Underway
<1>2. peakKs[f] \in Int /\ k \in Int
  BY <1>0 DEF TypeOK, Ks
<1>3. \A i \in 1 .. read[f] : history[f][i] \in Int
  <2>1. history[f] \in Seq(Ks \cup {Null}) /\ Len(history[f]) = read[f]
    BY <1>0 DEF TypeOK
  <2>2. \A i \in 1 .. read[f] : history[f][i] \in Ks \cup {Null}
    BY <1>0, <2>1
  <2>3. Ks \cup {Null} \subseteq Int
    BY DetectionAssumption DEF Ks, Null
  <2> QED
    BY <2>2, <2>3
<1>4. PICK h, g, n, m : h = history[f] /\ g = history'[f] /\ n = read[f] /\ m = peakKs[f]
  OBVIOUS
<1>5. /\ n \in Nat /\ m \in Int /\ k \in Int /\ p \in 1 .. n /\ PeakIn(h, p, n, m)
      /\ g[n + 1] = k
      /\ \A i \in 1 .. n : g[i] = h[i] /\ h[i] \in Int
  BY <1>0, <1>1, <1>2, <1>3, <1>4 DEF Takes
<1>6. PeakIn(g, p, n + 1, IF k > m THEN k ELSE m)
  BY <1>5, PeakExtends
<1> QED
  BY <1>1, <1>4, <1>6 DEF Peak

\* What a report says of its confirmation.
LEMMA ConfirmsFacts ==
  ASSUME PeakInv, NEW f \in Features, NEW k \in Ks, Takes(f, k), Confirms(f, k)
  PROVE  LET report == [featureId |-> f, seq |-> startSeq[f], peak |-> Peak(f, k)]
         IN  /\ report \in FeatureDrift
             /\ Confirmed(history'[f], read'[f], report)
             /\ \A i \in 1 .. read'[f] : Rows[i] >= startSeq[f] => i \in ConfirmationRows(report)
<1> DEFINE n == read[f]
           s == startSeq[f]
           top == Peak(f, k)
           report == [featureId |-> f, seq |-> s, peak |-> top]
<1>0. TypeOK /\ confirming[f] /\ read[f] \in Nat /\ read'[f] = n + 1
  BY DEF PeakInv, Confirms, TypeOK, Takes
<1>1. report \in FeatureDrift /\ s \in Nat
  BY <1>0, PeakFacts DEF FeatureDrift
<1>2. PICK p \in 1 .. n : Rows[p] = s /\ PeakIn(history'[f], p, n + 1, top)
  BY <1>0, PeakFollows
<1>3. ConfirmationRows(report) = p .. n + 1
  <2>1. n + 1 \in 1 .. Len(Rows) /\ Rows[n + 1] - s >= ConfirmWin
    BY DEF Takes, Confirms, Seq0
  <2>2. Rows[(n + 1) - 1] - s < ConfirmWin
    <3>1. Rows[n] - s < ConfirmWin
      BY <1>0 DEF PeakInv, NotExpired
    <3>2. (n + 1) - 1 = n
      BY <1>0
    <3> QED
      BY <3>1, <3>2
  <2>3. p \in 1 .. (n + 1) - 1 /\ report.seq = s
    BY <1>0
  <2> HIDE DEF report, n, s
  <2> QED
    BY <1>1, <1>2, <2>1, <2>2, <2>3, RowsOfConfirmation
<1>4. Confirmed(history'[f], n + 1, report)
  <2>1. p \in 1 .. n + 1 /\ n + 1 \in 1 .. n + 1 /\ p <= n + 1
    BY <1>0
  <2>2. report.peak = top /\ report.seq = s /\ top >= KsConfirm
    BY DEF Confirms
  <2> HIDE DEF report, top, s
  <2> QED
    BY <1>2, <1>3, <2>1, <2>2 DEF Confirmed
<1>5. ASSUME NEW i \in 1 .. n + 1, Rows[i] >= s PROVE i \in p .. n + 1
  <2> SUFFICES ASSUME i < p PROVE FALSE
    BY <1>0
  <2>0. Len(Rows) \in Nat /\ n + 1 <= Len(Rows)
    BY <1>0, DetectionAssumption DEF Takes
  <2>1. i \in 1 .. Len(Rows) /\ p \in 1 .. Len(Rows) /\ i <= p
    BY <1>0, <2>0
  <2>2. Rows[i] \in Nat /\ Rows[p] \in Nat /\ Rows[p] - Rows[i] >= p - i
    BY <2>1, RowsApart
  <2> QED
    BY <1>1, <1>2, <1>5, <2>2
<1> QED
  BY <1>0, <1>1, <1>3, <1>4, <1>5

\* What was reported stays reported; nothing else is claimed of the others.
LEMMA ReportsStay ==
  ASSUME PeakInv, NEW f \in Features, NEW k \in Ks \cup {Null}, Takes(f, k),
         \/ reports' = reports
         \/ k \in Ks /\ Confirms(f, k)
  PROVE  /\ \A g \in Features : \A i : Reported(g, i) => Reported(g, i)'
         /\ AllConfirmed'
<1>0. TypeOK /\ \A g \in Features : read[g] \in Nat /\ Len(Sent(g)) \in Nat
  BY SentFacts DEF PeakInv, TypeOK
<1>1. \A g \in Features : /\ read'[g] \in Nat /\ read[g] <= read'[g]
                          /\ \A i \in 1 .. read[g] : history'[g][i] = history[g][i]
  BY <1>0 DEF Takes
<1>2. ASSUME NEW g \in Features, NEW r, Confirmed(history[g], read[g], r)
      PROVE  Confirmed(history'[g], read'[g], r)
  <2>1. PICK h, h2, n, m : h = history[g] /\ h2 = history'[g] /\ n = read[g] /\ m = read'[g]
    OBVIOUS
  <2>2. /\ n \in Nat /\ m \in Nat /\ n <= m /\ \A i \in 1 .. n : h2[i] = h[i]
        /\ Confirmed(h, n, r)
    BY <1>0, <1>1, <1>2, <2>1
  <2>3. Confirmed(h2, m, r)
    BY <2>2, ConfirmedStays
  <2> QED
    BY <2>1, <2>3
<1>3. ASSUME reports' = reports
      PROVE  /\ \A g \in Features : \A i : Reported(g, i) => Reported(g, i)'
             /\ AllConfirmed'
  <2>1. \A g \in Features : Sent(g)' = Sent(g)
    BY <1>3 DEF Sent
  <2>2. AllConfirmed'
    BY <1>2, <2>1 DEF PeakInv, AllConfirmed
  <2> QED
    BY <2>1, <2>2 DEF Reported
<1>4. ASSUME k \in Ks, Confirms(f, k)
      PROVE  /\ \A g \in Features : \A i : Reported(g, i) => Reported(g, i)'
             /\ AllConfirmed'
  <2> DEFINE report == [featureId |-> f, seq |-> startSeq[f], peak |-> Peak(f, k)]
  <2>1. report \in FeatureDrift /\ Confirmed(history'[f], read'[f], report)
    BY <1>4, ConfirmsFacts
  <2>2. reports' = [reports EXCEPT ![DetectorOf[f]] = Append(@, report)]
    BY <1>4 DEF Confirms
  <2>3. report.featureId = f
    OBVIOUS
  <2> HIDE DEF report
  <2>4. ASSUME NEW g \in Features
        PROVE  /\ \A i \in 1 .. Len(Sent(g)) :
                    i \in 1 .. Len(Sent(g)') /\ Sent(g)'[i] = Sent(g)[i]
               /\ \A i \in 1 .. Len(Sent(g)') :
                    i \in 1 .. Len(Sent(g)) \/ Sent(g)'[i] = report
    <3>1. /\ DetectorOf[g] # DetectorOf[f] => Sent(g)' = Sent(g)
          /\ DetectorOf[g] = DetectorOf[f] =>
               /\ Len(Sent(g)') = Len(Sent(g)) + 1
               /\ Sent(g)'[Len(Sent(g)) + 1] = report
               /\ \A i \in 1 .. Len(Sent(g)) : Sent(g)'[i] = Sent(g)[i]
      BY <1>0, <2>1, <2>2, SentGrows
    <3> QED
      BY <1>0, <3>1
  <2>5. \A g \in Features : \A i \in 1 .. Len(Sent(g)') :
          i \in 1 .. Len(Sent(g)) \/ Sent(g)'[i] = report
    BY <2>4
  <2>6. AllConfirmed'
    <3> SUFFICES ASSUME NEW g \in Features, NEW i \in 1 .. Len(Sent(g)'),
                        Sent(g)'[i].featureId = g
                 PROVE  Confirmed(history'[g], read'[g], Sent(g)'[i])
      BY DEF AllConfirmed
    <3>1. CASE i \in 1 .. Len(Sent(g))
      <4>1. Sent(g)'[i] = Sent(g)[i] /\ Confirmed(history[g], read[g], Sent(g)[i])
        BY <2>4, <3>1 DEF PeakInv, AllConfirmed
      <4>2. PICK r : r = Sent(g)[i]
        OBVIOUS
      <4> QED
        BY <1>2, <4>1, <4>2
    <3>2. CASE Sent(g)'[i] = report
      BY <2>1, <2>3, <3>2
    <3> QED
      BY <2>5, <3>1, <3>2
  <2> QED
    BY <2>4, <2>6 DEF Reported
<1> QED
  BY <1>3, <1>4

LEMMA PeakInductive ==
  /\ ApartInv /\ Init => PeakInv
  /\ ApartInv /\ ApartInv' /\ PeakInv /\ [Next]_vars => PeakInv'
<1>1. ApartInv /\ Init => PeakInv
  <2> SUFFICES ASSUME ApartInv, Init PROVE PeakInv
    OBVIOUS
  <2>1. \A f \in Features : Sent(f) = <<>> /\ ~confirming[f] /\ read[f] = 0
    BY DetectionAssumption DEF Init, Sent
  <2> QED
    BY <2>1 DEF ApartInv, PeakInv, NotExpired, Underway, AllConfirmed, Recalled
<1>2. ASSUME ApartInv, ApartInv', PeakInv, [Next]_vars PROVE PeakInv'
  <2>0. /\ TypeOK /\ StartedWarm /\ TypeOK' /\ StartedWarm'
        /\ Len(Rows) \in Nat /\ ConfirmWin \in Nat \ {0} /\ Threshold \in Nat
    BY <1>2, DetectionAssumption DEF ApartInv
  <2>1. CASE UNCHANGED vars
    BY <1>2, <2>0, <2>1 DEF PeakInv, NotExpired, Underway, AllConfirmed, Recalled, Reported,
                            Sent, vars, gateVars
  <2>2. ASSUME NEW f \in Features, Detect(f) PROVE PeakInv'
    <3>1. PICK k \in Ks \cup {Null} :
             /\ Takes(f, k)
             /\ \/ Idle(f, k)
                \/ k \in Ks /\ (Starts(f, k) \/ Keeps(f, k) \/ Confirms(f, k) \/ Discards(f, k))
      BY <2>0, <2>2, StepCases
    <3>2. /\ read[f] \in Nat /\ read'[f] = read[f] + 1 /\ read'[f] \in 1 .. Len(Rows)
          /\ Seq0(f) = Rows[read'[f]] /\ Seq0(f) \in Nat
          /\ history'[f][read'[f]] = k
      BY <2>0, <2>2, <3>1, RowFacts DEF Takes, TypeOK, Seq0, Detect, Turn
    <3>3. \A g \in Features \ {f} :
             /\ read'[g] = read[g] /\ history'[g] = history[g]
             /\ confirming'[g] = confirming[g] /\ startSeq'[g] = startSeq[g]
             /\ peakKs'[g] = peakKs[g]
      BY <3>1 DEF Takes
    <3>4. k \in Int
      BY DetectionAssumption DEF Ks, Null
    <3>5. NotExpired'
      <4>1. ASSUME confirming'[f] PROVE Rows[read'[f]] - startSeq'[f] < ConfirmWin
        <5>1. CASE Starts(f, k)
          BY <2>0, <3>2, <5>1 DEF Starts
        <5>2. CASE Keeps(f, k)
          BY <3>2, <5>2 DEF Keeps
        <5> QED
          BY <3>1, <4>1, <5>1, <5>2 DEF Idle, Confirms, Discards
      <4> QED
        BY <1>2, <3>2, <3>3, <4>1 DEF PeakInv, NotExpired
    <3>6. Underway'
      <4>1. ASSUME confirming'[f]
            PROVE  \E p \in 1 .. read'[f] :
                      Rows[p] = startSeq'[f] /\ PeakIn(history'[f], p, read'[f], peakKs'[f])
        <5>1. CASE Starts(f, k)
          <6>1. /\ Rows[read'[f]] = startSeq'[f] /\ peakKs'[f] = k /\ k > Threshold
                /\ read'[f] \in 1 .. read'[f]
            BY <3>2, <5>1 DEF Starts
          <6>2. \A i \in read'[f] .. read'[f] : i = read'[f]
            BY <3>2
          <6>3. read'[f] \in read'[f] .. read'[f]
            BY <3>2
          <6>4. PeakIn(history'[f], read'[f], read'[f], k)
            BY <3>2, <3>4, <6>1, <6>2, <6>3 DEF PeakIn
          <6> QED
            BY <6>1, <6>4
        <5>2. CASE k \in Ks /\ Keeps(f, k)
          <6>1. PICK p \in 1 .. read[f] :
                  Rows[p] = startSeq[f] /\ PeakIn(history'[f], p, read[f] + 1, Peak(f, k))
            BY <1>2, <3>1, <5>2, PeakFollows DEF Keeps
          <6>2. p \in 1 .. read'[f]
            BY <3>2
          <6> QED
            BY <3>2, <5>2, <6>1, <6>2 DEF Keeps
        <5> QED
          BY <3>1, <4>1, <5>1, <5>2 DEF Idle, Confirms, Discards
      <4>2. ASSUME NEW g \in Features \ {f}, confirming'[g]
            PROVE  \E p \in 1 .. read'[g] :
                      Rows[p] = startSeq'[g] /\ PeakIn(history'[g], p, read'[g], peakKs'[g])
        BY <1>2, <3>3, <4>2 DEF PeakInv, Underway
      <4> QED
        BY <4>1, <4>2 DEF Underway
    <3>7. /\ \A g \in Features : \A i : Reported(g, i) => Reported(g, i)'
          /\ AllConfirmed'
      <4>1. reports' = reports \/ (k \in Ks /\ Confirms(f, k))
        BY <3>1 DEF Idle, Starts, Keeps, Discards
      <4> QED
        BY <1>2, <3>1, <4>1, ReportsStay
    <3>8. Recalled'
      <4> SUFFICES ASSUME NEW g \in Features, NEW i \in 1 .. read'[g], Excess(history'[g][i])
                   PROVE  Reported(g, i)' \/ (confirming'[g] /\ Rows[i] >= startSeq'[g])
        BY DEF Recalled
      <4>1. CASE g # f
        BY <1>2, <3>3, <3>7, <4>1 DEF PeakInv, Recalled
      <4>2. CASE g = f
        <5>1. CASE i \in 1 .. read[f] /\ Reported(f, i)
          BY <3>7, <4>2, <5>1
        <5>2. i \in 1 .. read[f] \/ i = read'[f]
          BY <3>2, <4>2
        <5>3. i \in 1 .. read[f] =>
                Reported(f, i) \/ (confirming[f] /\ Rows[i] >= startSeq[f])
          BY <1>2, <3>1, <4>2 DEF PeakInv, Recalled, Takes
        <5>4. CASE Idle(f, k)
          <6>1. i # read'[f]
            BY <2>0, <3>2, <3>4, <4>2, <5>4 DEF Idle, Excess
          <6> QED
            BY <5>1, <5>2, <5>3, <5>4, <6>1 DEF Idle
        <5>5. CASE Starts(f, k)
          <6>1. i = read'[f] => Rows[i] >= startSeq'[f]
            BY <3>2, <5>5 DEF Starts
          <6> QED
            BY <4>2, <5>1, <5>2, <5>3, <5>5, <6>1 DEF Starts
        <5>6. i \in 1 .. read'[f] /\ (confirming[f] => Rows[read'[f]] >= startSeq[f])
          <6>1. ASSUME confirming[f] PROVE Rows[read'[f]] >= startSeq[f]
            <7>1. PICK p \in 1 .. read[f] : Rows[p] = startSeq[f]
              BY <1>2, <6>1 DEF PeakInv, Underway
            <7>2. p \in 1 .. Len(Rows) /\ p <= read'[f]
              BY <3>2, <2>0
            <7> QED
              BY <3>2, <7>1, <7>2, RowOrder
          <6> QED
            BY <4>2, <6>1
        <5>7. CASE k \in Ks /\ Keeps(f, k)
          BY <4>2, <5>1, <5>2, <5>3, <5>6, <5>7 DEF Keeps
        <5>8. CASE k \in Ks /\ Confirms(f, k)
          <6> DEFINE report == [featureId |-> f, seq |-> startSeq[f], peak |-> Peak(f, k)]
          <6>1. /\ report \in FeatureDrift
                /\ \A j \in 1 .. read'[f] :
                     Rows[j] >= startSeq[f] => j \in ConfirmationRows(report)
            BY <1>2, <3>1, <5>8, ConfirmsFacts
          <6>2. reports' = [reports EXCEPT ![DetectorOf[f]] = Append(@, report)]
            BY <5>8 DEF Confirms
          <6>3. report.featureId = f
            OBVIOUS
          <6> HIDE DEF report
          <6>4. ASSUME Rows[i] >= startSeq[f] PROVE Reported(f, i)'
            <7>1. /\ Len(Sent(f)) \in Nat /\ Len(Sent(f)') = Len(Sent(f)) + 1
                  /\ Sent(f)'[Len(Sent(f)) + 1] = report
              BY <2>0, <6>1, <6>2, SentGrows, SentFacts
            <7>2. i \in ConfirmationRows(report)
              BY <5>6, <6>1, <6>4
            <7>3. Len(Sent(f)) + 1 \in 1 .. Len(Sent(f)')
              BY <7>1
            <7> QED
              BY <6>3, <7>1, <7>2, <7>3 DEF Reported
          <6> QED
            BY <4>2, <5>1, <5>2, <5>3, <5>6, <5>8, <6>4 DEF Confirms
        <5>9. CASE k \in Ks /\ Discards(f, k)
          <6>1. ASSUME Rows[i] >= startSeq[f] PROVE FALSE
            <7>1. confirming[f] /\ Peak(f, k) < KsConfirm
              BY <5>9 DEF Discards
            <7>2. PICK p \in 1 .. read[f] :
                    Rows[p] = startSeq[f] /\ PeakIn(history'[f], p, read'[f], Peak(f, k))
              BY <1>2, <3>1, <3>2, <5>9, <7>1, PeakFollows
            <7>3. i >= p
              <8> SUFFICES ASSUME i < p PROVE FALSE
                BY <3>2, <4>2
              <8>1. i \in 1 .. Len(Rows) /\ p \in 1 .. Len(Rows) /\ i <= p
                BY <2>0, <3>2, <4>2
              <8>2. Rows[i] \in Nat /\ Rows[p] \in Nat /\ Rows[p] - Rows[i] >= p - i
                BY <8>1, RowsApart
              <8> QED
                BY <3>2, <4>2, <6>1, <7>2, <8>2
            <7>4. i \in p .. read'[f]
              BY <3>2, <4>2, <7>3
            <7>5. history'[f][i] <= Peak(f, k)
              BY <7>2, <7>4 DEF PeakIn
            <7>6. Peak(f, k) \in Int /\ KsConfirm \in Int
              BY <2>0, <5>9, <7>1, PeakFacts, DetectionAssumption DEF Ks
            <7>7. history'[f][i] \in Int
              <8>1. history'[f] \in Seq(Ks \cup {Null}) /\ Len(history'[f]) = read'[f]
                BY <2>0 DEF TypeOK
              <8>2. history'[f][i] \in Ks \cup {Null}
                BY <4>2, <8>1
              <8> QED
                BY <8>2, DetectionAssumption DEF Ks, Null
            <7>8. history'[f][i] >= KsConfirm
              BY <4>2 DEF Excess
            <7> QED
              BY <7>1, <7>5, <7>6, <7>7, <7>8
          <6> QED
            BY <4>2, <5>1, <5>2, <5>3, <5>6, <5>9, <6>1 DEF Discards
        <5> QED
          BY <3>1, <5>4, <5>5, <5>7, <5>8, <5>9
      <4> QED
        BY <4>1, <4>2
    <3> QED
      BY <2>0, <3>5, <3>6, <3>7, <3>8 DEF PeakInv
  <2> QED
    BY <1>2, <2>1, <2>2 DEF Next
<1> QED
  BY <1>1, <1>2

\* A report says what its doc promises: ks exceeded the threshold at its
\* onset, and its peak, at least KsConfirm, is the largest ks of the whole
\* confirmation.
THEOREM ReportsTellThePeak == Spec => []PeakOfConfirmation
<1>1. PeakInv => PeakOfConfirmation
  <2> SUFFICES ASSUME PeakInv, NEW f \in Features, NEW r \in Reports(f), r.featureId = f
               PROVE  LET seen == {history[f][i] : i \in ConfirmationRows(r)}
                      IN  /\ \A i \in ConfirmationRows(r) :
                               Rows[i] = r.seq => history[f][i] > Threshold
                          /\ r.peak \in seen
                          /\ \A k \in seen : k <= r.peak
                          /\ r.peak >= KsConfirm
    BY DEF PeakOfConfirmation
  <2>1. PICK j \in 1 .. Len(Sent(f)) : Sent(f)[j] = r
    BY DEF Reports, Sent
  <2>2. Confirmed(history[f], read[f], r)
    BY <2>1 DEF PeakInv, AllConfirmed
  <2>3. PICK p \in 1 .. read[f], q \in 1 .. read[f] :
          /\ p <= q /\ Rows[p] = r.seq
          /\ ConfirmationRows(r) = p .. q /\ PeakIn(history[f], p, q, r.peak)
    BY <2>2 DEF Confirmed
  <2>4. \A i \in p .. q : Rows[i] = r.seq => i = p
    <3>0. Len(Rows) \in Nat /\ read[f] \in 0 .. Len(Rows)
      BY DetectionAssumption DEF PeakInv, TypeOK
    <3> SUFFICES ASSUME NEW i \in p .. q, Rows[i] = Rows[p] PROVE i = p
      BY <2>3
    <3>1. i \in 1 .. Len(Rows) /\ p \in 1 .. Len(Rows) /\ p <= i
      BY <3>0
    <3>2. Rows[i] \in Nat /\ Rows[i] - Rows[p] >= i - p
      BY <3>1, RowsApart
    <3> QED
      BY <3>1, <3>2
  <2> QED
    BY <2>2, <2>3, <2>4 DEF PeakIn, Confirmed
<1> QED
  BY ApartInductive, PeakInductive, <1>1, PTL DEF Spec

\* "recall": an excess of ks that would pass the peak gate lies, once
\* ConfirmWin rows have passed, in the confirmation of some report.
THEOREM NothingUnreported == Spec => []NoExcessUnreported
<1>1. PeakInv => NoExcessUnreported
  <2> SUFFICES ASSUME PeakInv, NEW f \in Features, NEW i \in 1 .. read[f],
                      history[f][i] > Threshold, history[f][i] >= KsConfirm,
                      Rows[read[f]] - Rows[i] >= ConfirmWin
               PROVE  \E r \in Reports(f) : r.featureId = f /\ i \in ConfirmationRows(r)
    BY DEF NoExcessUnreported
  <2>1. Reported(f, i) \/ (confirming[f] /\ Rows[i] >= startSeq[f])
    BY DEF PeakInv, Recalled, Excess
  <2>2. ~(confirming[f] /\ Rows[i] >= startSeq[f])
    <3> SUFFICES ASSUME confirming[f], Rows[i] >= startSeq[f] PROVE FALSE
      OBVIOUS
    <3>1. read[f] \in 1 .. Len(Rows) /\ Rows[read[f]] - startSeq[f] < ConfirmWin
      BY DEF PeakInv, NotExpired
    <3>2. i \in 1 .. Len(Rows) /\ i <= read[f]
      BY <3>1, DetectionAssumption
    <3>3. Rows[i] \in Nat /\ Rows[read[f]] \in Nat
      BY <3>1, <3>2, RowOrder
    <3>4. startSeq[f] \in Nat
      <4>1. startSeq[f] \in Seqs
        BY DEF PeakInv, TypeOK
      <4> QED
        BY <4>1, DetectionAssumption, SMTT(30) DEF Seqs
    <3>5. ConfirmWin \in Nat
      BY DetectionAssumption
    <3> QED
      BY <3>1, <3>3, <3>4, <3>5
  <2>3. Reported(f, i)
    BY <2>1, <2>2
  <2> QED
    BY <2>3 DEF Reported, Reports, Sent
<1> QED
  BY ApartInductive, PeakInductive, <1>1, PTL DEF Spec

\* Each report is the outcome of a confirmation of its own, with its peak, for
\* every stream and every statistic.
THEOREM ReportsStayConfirmed == Spec => []ReportsConfirmed
<1>1. PeakOfConfirmation /\ OnsetsApart => ReportsConfirmed
  BY DEF ReportsConfirmed
<1> QED
  BY ReportsTellThePeak, OnsetsLieApart, <1>1, PTL
=============================================================================
