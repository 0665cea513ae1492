---------------------------- MODULE OfflineQuorum ----------------------------
(***************************************************************************)
(* The three offline aggregators that the parameters of DriftAggregator    *)
(* are chosen with, each walking once over the same crossings:             *)
(*   _quorum_onsets  (derisk_proxy; the ksConfirm and precision sweeps),   *)
(*   aggregate       (calibrate_ksconfirm),                                *)
(*   aggregate_onsets (derisk_proxy, phase 1),                             *)
(* and the measures of their onsets against the labelled drifts.           *)
(*                                                                         *)
(* ep counts evaluations: every crossing and every window is a number of   *)
(* strides.  The crossings of a feature are ConfirmWin + 1 evaluations     *)
(* apart (OfflineGate, CrossingsApart).  The lists of onsets only grow, by  *)
(* larger numbers, so each is the set of its elements.                     *)
(***************************************************************************)
EXTENDS Integers, FiniteSets, FiniteSetsExt

CONSTANTS
  Columns,     \* features
  Peaks,       \* peaks of a crossing
  KsGrid,      \* ksConfirm values swept
  Distinct,    \* k
  Persists,    \* persist
  Window,      \* agg_win
  Cooldown,    \* refractory
  ConfirmWin,  \* confirm_window
  Labelled,    \* drift_events: a set of records [start, end]
  Tau,         \* tolerance of a hit
  MaxPoint     \* bound: evaluations

ASSUME QuorumAssumption ==
  /\ Peaks \subseteq Nat /\ KsGrid \subseteq Nat
  /\ Distinct \in Nat \ {0} /\ Persists \subseteq Nat \ {0}
  /\ Window \in Nat /\ Cooldown \in Nat /\ ConfirmWin \in Nat /\ Tau \in Nat
  /\ IsFiniteSet(Columns)
  /\ Labelled \subseteq [start : Nat, end : Nat] /\ IsFiniteSet(Labelled)
  /\ \A d \in Labelled : d.start <= d.end
  /\ MaxPoint \in Nat

VARIABLES
  persist,   \* argument
  ep,        \* evaluations done
  crossed,   \* the crossings so far: a set of [feature, seq, peak]
  kernel,    \* per ksConfirm: locals of _quorum_onsets
  calib,     \* per ksConfirm: locals of aggregate
  phase1     \* locals of aggregate_onsets

quorumVars == <<persist, ep, crossed, kernel, calib, phase1>>

\* -10 ** 18
Never == -(Cooldown + 1)

NewKernel == [present |-> [f \in Columns |-> {}], streak |-> 0, last |-> Never, onsets |-> {}]

QuorumInit ==
  /\ persist \in Persists
  /\ ep = 0 /\ crossed = {}
  /\ kernel = [c \in KsGrid |-> NewKernel]
  /\ calib = [c \in KsGrid |-> [window |-> {}, last |-> Never, committed |-> {}]]
  /\ phase1 = [window |-> {}, armed |-> FALSE, onsets |-> {}]

Quorate(features) == Cardinality(features) >= Distinct

(***************************************************************************)
(* _quorum_onsets at evaluation p, where the features of `new` cross.      *)
(***************************************************************************)

\* Mutant of Evicted: the edge on the border leaves too.
EvictedEarly(edges, p) == {e \in edges : e > p - Window}

Evicted(edges, p) == {e \in edges : e >= p - Window}

Present(q, p, new) ==
  [f \in Columns |-> Evicted(q.present[f], p) \cup (IF f \in new THEN {p} ELSE {})]

\* Mutants of KernelStep: an onset does not start the refractory; the streak
\* is not reset.
KernelNoCooldown(q, p, new) ==
  LET present == Present(q, p, new)
      streak == IF Quorate({f \in Columns : present[f] # {}}) THEN q.streak + 1 ELSE 0
      onset == streak >= persist /\ p >= q.last + Cooldown
  IN  [present |-> present, streak |-> streak, last |-> q.last,
       onsets |-> IF onset THEN q.onsets \cup {p} ELSE q.onsets]
KernelStreakKept(q, p, new) ==
  LET present == Present(q, p, new)
      streak == IF Quorate({f \in Columns : present[f] # {}}) THEN q.streak + 1 ELSE q.streak
      onset == streak >= persist /\ p >= q.last + Cooldown
  IN  [present |-> present, streak |-> streak, last |-> IF onset THEN p ELSE q.last,
       onsets |-> IF onset THEN q.onsets \cup {p} ELSE q.onsets]

KernelStep(q, p, new) ==
  LET present == Present(q, p, new)
      streak == IF Quorate({f \in Columns : present[f] # {}}) THEN q.streak + 1 ELSE 0
      onset == streak >= persist /\ p >= q.last + Cooldown
  IN  [present |-> present, streak |-> streak, last |-> IF onset THEN p ELSE q.last,
       onsets |-> IF onset THEN q.onsets \cup {p} ELSE q.onsets]

(***************************************************************************)
(* aggregate at the events of evaluation p.  It counts events, not         *)
(* features; several at once commit once, as `last` is then p itself.      *)
(***************************************************************************)
\* Mutant of CalibStep: one event too many.
CalibOffByOne(a, p, new) ==
  LET window == Evicted({w.seq : w \in a.window}, p)
      events == {w \in a.window : w.seq \in window} \cup {[seq |-> p, feature |-> f] : f \in new}
      commit == new # {} /\ Cardinality(events) > Distinct /\ p - a.last > Cooldown
  IN  IF new = {} THEN a
      ELSE [window |-> events, last |-> IF commit THEN p ELSE a.last,
            committed |-> IF commit THEN a.committed \cup {p} ELSE a.committed]

CalibStep(a, p, new) ==
  LET window == Evicted({w.seq : w \in a.window}, p)
      events == {w \in a.window : w.seq \in window} \cup {[seq |-> p, feature |-> f] : f \in new}
      commit == new # {} /\ Cardinality(events) >= Distinct /\ p - a.last > Cooldown
  IN  IF new = {} THEN a
      ELSE [window |-> events, last |-> IF commit THEN p ELSE a.last,
            committed |-> IF commit THEN a.committed \cup {p} ELSE a.committed]

(***************************************************************************)
(* aggregate_onsets at the edges of evaluation p, feature by feature.      *)
(* Without an edge it does nothing, not even evict.                        *)
(***************************************************************************)
\* Mutant of Phase1Step: edges never leave the window.
Phase1NoEvict(a, p, new) ==
  LET all == a.window \cup {[seq |-> p, feature |-> f] : f \in new}
      reached == Quorate({w.feature : w \in all})
  IN  IF new = {} THEN a
      ELSE [window |-> all, armed |-> reached,
            onsets |-> IF reached /\ ~a.armed THEN a.onsets \cup {p} ELSE a.onsets]

Phase1Step(a, p, new) ==
  LET old == {w \in a.window : w.seq >= p - Window}
      all == old \cup {[seq |-> p, feature |-> f] : f \in new}
      first == {w.feature : w \in old} \cup {Min(new)}
      reached == Quorate({w.feature : w \in all})
  IN  IF new = {} THEN a
      ELSE [window |-> all, armed |-> reached,
            onsets |-> IF reached /\ ~(a.armed /\ Quorate(first)) THEN a.onsets \cup {p}
                       ELSE a.onsets]

(***************************************************************************)
(* One evaluation: the features of `peakOf`'s domain cross.                *)
(***************************************************************************)
\* Crossings of a feature keep their distance.
Apart(f) == \A x \in crossed : x.feature = f => ep + 1 - x.seq > ConfirmWin

\* Features whose crossing passes the amplitude gate ksConfirm.
Passing(peakOf, ksc) == {f \in DOMAIN peakOf : peakOf[f] >= ksc}

Evaluate(peakOf) ==
  /\ ep < MaxPoint
  /\ ep' = ep + 1
  /\ \A f \in DOMAIN peakOf : Apart(f)
  /\ crossed' = crossed \cup {[feature |-> f, seq |-> ep + 1, peak |-> peakOf[f]] :
                                f \in DOMAIN peakOf}
  /\ kernel' = [c \in KsGrid |-> KernelStep(kernel[c], ep + 1, Passing(peakOf, c))]
  /\ calib' = [c \in KsGrid |-> CalibStep(calib[c], ep + 1, Passing(peakOf, c))]
  /\ phase1' = Phase1Step(phase1, ep + 1, DOMAIN peakOf)
  /\ UNCHANGED persist

QuorumNext == \E crossing \in SUBSET Columns : \E peakOf \in [crossing -> Peaks] : Evaluate(peakOf)

QuorumSpec == QuorumInit /\ [][QuorumNext]_quorumVars

(***************************************************************************)
(* labeled_metrics (derisk_proxy) and score (calibrate_ksconfirm).         *)
(* A ratio is kept as its two numbers.                                     *)
(***************************************************************************)
HitBy(d, onsets) == {o \in onsets : d.start - Tau <= o /\ o <= d.end + Tau}

\* Mutant of LabeledMetrics: only the first onset that hits a drift is credited.
LabeledFirst(onsets) ==
  LET hits == {d \in Labelled : HitBy(d, onsets) # {}}
  IN  [hits |-> hits, false |-> onsets \ {Min(HitBy(d, onsets)) : d \in hits}]

\* The drifts hit and the onsets attributed to none; latencies are left out.
LabeledMetrics(onsets) ==
  [hits |-> {d \in Labelled : HitBy(d, onsets) # {}},
   false |-> onsets \ UNION {HitBy(d, onsets) : d \in Labelled}]

\* score with before = after = Tau, for drifts at one point.
Score(committed, points) ==
  [recalled |-> Cardinality({p \in points : \E c \in committed : c \in p - Tau .. p + Tau}),
   good |-> Cardinality({c \in committed : \E p \in points : c \in p - Tau .. p + Tau})]

(***************************************************************************)
(* Properties.                                                             *)
(***************************************************************************)

\* Evaluations with a quorum, read off the crossings alone.
ActiveAt(c, p) ==
  Quorate({f \in Columns : \E x \in crossed :
             /\ x.feature = f /\ x.peak >= c
             /\ x.seq >= p - Window /\ x.seq <= p})
HeldAt(c, p) ==
  p >= persist /\ \A q \in 1 .. MaxPoint : p - persist < q /\ q <= p => ActiveAt(c, q)

\* "emits onsets where >= k distinct features have a rising edge inside
\* [ep-agg_win, ep], held for persist consecutive eval steps, with refractory
\* cooldown between emits" (derisk_proxy:493): every onset is such a point,
\* and every such point is an onset or within the cooldown of an earlier one.
OnsetsAreHeldQuorums ==
  \A c \in KsGrid :
    LET onsets == kernel[c].onsets
    IN  /\ \A o \in onsets : o \in 1 .. ep /\ HeldAt(c, o)
        /\ \A o, p \in onsets : o < p => p - o >= Cooldown
        /\ \A p \in 1 .. ep : HeldAt(c, p) =>
             p \in onsets \/ \E o \in onsets : o < p /\ p - o < Cooldown

\* The calibration counts events where the prototype counts features, and
\* commits without waiting: it may commit too much, never later.
CalibrationNeverLater ==
  \A c \in KsGrid : kernel[c].onsets # {} =>
    /\ calib[c].committed # {}
    /\ Min(calib[c].committed) <= Min(kernel[c].onsets)

\* Phase 1 looks at edges only; its onsets still have a quorum, and the first
\* is where the first quorum is.
Phase1IsAQuorum ==
  /\ \A o \in phase1.onsets : ActiveAt(0, o)
  /\ \A p \in 1 .. ep : ActiveAt(0, p) => phase1.onsets # {} /\ Min(phase1.onsets) <= p

\* The two measures agree where both apply: drifts at a single point.
MeasuresAgree ==
  \A c \in KsGrid :
    LET onsets == kernel[c].onsets
        m == LabeledMetrics(onsets)
        s == Score(onsets, {d.start : d \in Labelled})
    IN  (\A d \in Labelled : d.end = d.start) =>
          /\ Cardinality(m.hits) = s.recalled
          /\ Cardinality(onsets) - Cardinality(m.false) = s.good

\* The other two aggregators and the two measures against the kernel.
AggregatorsAgree == CalibrationNeverLater /\ Phase1IsAQuorum /\ MeasuresAgree
=============================================================================
