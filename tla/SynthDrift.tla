------------------------------ MODULE SynthDrift ------------------------------
(***************************************************************************)
(* The synthetic streams of gen_synth_drift and gen_synth_drift_v2: the    *)
(* mean of the normal class line by line, the rows, and the drift events   *)
(* of the .driftspec.json that go with them.                               *)
(*                                                                         *)
(* A line is numbered from 0, as in the id column.  The mean goes from 0   *)
(* to After(call), which stands for 3.0 or NORMAL_MU_AFTER; on a linear    *)
(* transition it counts its steps.                                         *)
(***************************************************************************)
EXTENDS Integers, Sequences, FiniteSets

CONSTANTS
  Sizes,                        \* --n
  DriftAt,                      \* abrupt
  GradualStart, GradualEnd,     \* gradual
  SlowStart, SlowEnd,           \* incremental
  Switches                      \* reoccurring: a sequence

ASSUME SynthAssumption ==
  /\ Sizes \subseteq Nat \ {0} /\ DriftAt \in Nat
  /\ GradualStart \in Nat /\ GradualEnd \in Nat /\ GradualStart < GradualEnd
  /\ SlowStart \in Nat /\ SlowEnd \in Nat /\ SlowStart < SlowEnd
  /\ Switches \in Seq(Nat) /\ \A i, j \in DOMAIN Switches : i < j => Switches[i] < Switches[j]

Before == 0
AnomalyMean == -1

Calls == [version : {1, 2}, n : Sizes,
          name : {"synth_abrupt", "synth_gradual", "synth_incremental", "synth_reoccurring"}]

VARIABLES
  call,     \* version of the script, data set and --n
  stream    \* the rows written so far: [anomaly, mean]

synthVars == <<call, stream>>

SynthInit == call \in Calls /\ stream = <<>>

(***************************************************************************)
(* normal_means_*: the mean of a normal row on line i.                     *)
(***************************************************************************)
\* The first version's gradual drift is an incremental one.
Linear(c) == c.name = "synth_incremental" \/ (c.name = "synth_gradual" /\ c.version = 1)

Transition(c) ==
  IF c.name = "synth_incremental" THEN [start |-> SlowStart, end |-> SlowEnd]
  ELSE [start |-> GradualStart, end |-> GradualEnd]

After(c) == IF Linear(c) THEN Transition(c).end - Transition(c).start ELSE 1

AbruptMean(i) == IF i < DriftAt THEN Before ELSE 1

\* rng.rand() < p_c2, which is 0 on the first line.
MixtureMeans(i) ==
  IF i <= GradualStart THEN {Before}
  ELSE IF i >= GradualEnd THEN {1}
  ELSE {Before, 1}

LinearMean(c, i) ==
  IF i < Transition(c).start THEN Before
  ELSE IF i > Transition(c).end THEN After(c)
  ELSE i - Transition(c).start

\* The loop over the switches fills a slice at a time; its locals after k turns.
Toggled(mean) == IF mean = Before THEN 1 ELSE Before
Slices ==
  LET after[k \in 0 .. Len(Switches)] ==
        IF k = 0 THEN [mus |-> [i \in 0 .. call.n - 1 |-> Before], current |-> Before, last |-> 0]
        ELSE [mus |-> [i \in 0 .. call.n - 1 |->
                        IF i >= after[k - 1].last /\ i < Switches[k] THEN after[k - 1].current
                        ELSE after[k - 1].mus[i]],
              current |-> Toggled(after[k - 1].current), last |-> Switches[k]]
  IN  after[Len(Switches)]

\* Mutant of ReoccurringMean: the slice after the last switch is not filled.
ReoccurringUnfinished(i) == Slices.mus[i]

ReoccurringMean(i) == IF i >= Slices.last THEN Slices.current ELSE Slices.mus[i]

Means(i) ==
  CASE call.name = "synth_abrupt" -> {AbruptMean(i)}
    [] call.name = "synth_reoccurring" -> {ReoccurringMean(i)}
    [] Linear(call) -> {LinearMean(call, i)}
    [] OTHER -> MixtureMeans(i)

\* drift_events
Events ==
  CASE call.name = "synth_abrupt" -> <<[start |-> DriftAt, end |-> DriftAt + 1]>>
    [] call.name = "synth_reoccurring" ->
         [i \in DOMAIN Switches |-> [start |-> Switches[i], end |-> Switches[i] + 1]]
    [] OTHER -> <<Transition(call)>>

(***************************************************************************)
(* generate_stream                                                         *)
(***************************************************************************)
\* The mean of an anomaly never moves.
GenerateRow(anomaly) ==
  /\ Len(stream) < call.n
  /\ \E mean \in Means(Len(stream)) :
       stream' = Append(stream, [anomaly |-> anomaly, mean |-> IF anomaly THEN AnomalyMean ELSE mean])
  /\ UNCHANGED call

SynthNext == \E anomaly \in BOOLEAN : GenerateRow(anomaly)

SynthSpec == SynthInit /\ [][SynthNext]_synthVars

(***************************************************************************)
(* Properties.                                                             *)
(***************************************************************************)
\* An abrupt event is over on its first line.
Sudden == call.name \in {"synth_abrupt", "synth_reoccurring"}
Over(e, i) == IF Sudden THEN e.start <= i ELSE e.end <= i
UnderWay(e, i) == e.start <= i /\ ~Over(e, i)

\* The drift events tell the concept of every normal row: the old one before
\* the first event, on which derisk_proxy trains its forest (X[:start_line]),
\* and then new and old in turn; on the way between them during an event.
EventsTellTheConcept ==
  \A i \in 0 .. Len(stream) - 1 :
    LET row == stream[i + 1]
        over == Cardinality({e \in DOMAIN Events : Over(Events[e], i)})
    IN  ~row.anomaly =>
          IF \E e \in DOMAIN Events : UnderWay(Events[e], i)
          THEN row.mean \in Before .. After(call)
          ELSE row.mean = IF over % 2 = 0 THEN Before ELSE After(call)
=============================================================================
