--------------------------- MODULE InsectsTransform ---------------------------
(***************************************************************************)
(* From an INSECTS file of many classes to a stream of normal rows and     *)
(* anomalies: transform_insects.transform, and the rule that               *)
(* insects_class_freq proposes for the same file.                          *)
(*                                                                         *)
(* The file grows row by row, and everything below is what the scripts     *)
(* compute when it ends here.                                              *)
(***************************************************************************)
EXTENDS Integers, Sequences, FiniteSets, SequencesExt

CONSTANTS
  Labels,        \* values of the last column
  EmptyLabel,    \* an empty one
  BlankRow,      \* a row without columns
  DriftPoints,   \* --drift-points: line numbers from 1
  MaxRow         \* bound: rows of the file

Discarded == -1

ASSUME TransformAssumption ==
  /\ BlankRow \notin Labels /\ DriftPoints \subseteq Int /\ MaxRow \in Nat

VARIABLE original  \* the rows read so far: their labels

TransformInit == original = <<>>

ReadRow(row) == Len(original) < MaxRow /\ original' = Append(original, row)

TransformNext == \E row \in Labels \cup {BlankRow} : ReadRow(row)

TransformSpec == TransformInit /\ [][TransformNext]_original

(***************************************************************************)
(* The choice of the classes.                                              *)
(***************************************************************************)
LabelCount(l) == Cardinality({i \in DOMAIN original : original[i] = l})

FirstSeen(l) == SelectInSeq(original, LAMBDA r : r = l)

\* Counter.most_common on some labels: equal counts in the order of their
\* first row.
Ahead(a, b) ==
  \/ LabelCount(a) > LabelCount(b)
  \/ LabelCount(a) = LabelCount(b) /\ FirstSeen(a) < FirstSeen(b)
MostCommon(labels) ==
  [i \in 1 .. Cardinality(labels) |->
     CHOOSE l \in labels : Cardinality({k \in labels : Ahead(k, l)}) = i - 1]

\* The labels that transform counts, and those that _consume counts.
Seen == Range(original) \ {BlankRow}
SeenByFreq == Seen \ {EmptyLabel}

Rule(ranked) == [normal |-> {ranked[1], ranked[2]}, anomaly |-> Last(ranked)]

\* transform raises with less than three classes.
Transformable == Cardinality(Seen) >= 3
Selection == Rule(MostCommon(Seen))

\* Mutant of CandidateRule: the anomalies are the third class.
ThirdClass ==
  LET ranked == MostCommon(SeenByFreq)
  IN  [normal |-> {ranked[1], ranked[2]}, anomaly |-> ranked[3]]

\* insects_class_freq, for three classes and more.
CandidateRule == Rule(MostCommon(SeenByFreq))

(***************************************************************************)
(* The transformed rows and the lines of the drifts.                       *)
(***************************************************************************)
Kept ==
  LET chosen == Selection
  IN  {i \in DOMAIN original : original[i] \in chosen.normal \cup {chosen.anomaly}}

\* A kept row has the next number, from 1; blank rows count as rows.
OriginalToTransformed ==
  LET kept == Kept
  IN  [i \in DOMAIN original |-> IF i \in kept THEN Cardinality(kept \cap 1 .. i) ELSE Discarded]

\* Mutant of TransformedLine: the nearest kept row after the drift.
LineAfter(dp) ==
  LET lines == OriginalToTransformed
      later == {j \in DOMAIN lines : j >= dp /\ lines[j] # Discarded}
  IN  IF later = {} THEN 1 ELSE lines[Min(later)]

\* A discarded row takes the line of the kept row before it, or line 1.
TransformedLine(dp) ==
  LET lines == OriginalToTransformed
      earlier == {j \in DOMAIN lines : j <= dp /\ lines[j] # Discarded}
  IN  IF earlier = {} THEN 1 ELSE lines[Max(earlier)]

\* drift_events: points past the end of the file, or before it, are skipped.
MappedDrifts ==
  {[original_line |-> dp, start_line |-> TransformedLine(dp)] : dp \in DriftPoints \cap DOMAIN original}

(***************************************************************************)
(* Properties.                                                             *)
(***************************************************************************)

\* The mapped line parts the transformed rows as the drift parts the original
\* ones: derisk_proxy trains on X[:start_line], which is every kept row up to
\* and including the drift's own, or one row too many when all the rows
\* before the drift were discarded.
DriftLinesPartRows ==
  Transformable => \A d \in MappedDrifts :
    LET lines == OriginalToTransformed
        before == Kept \cap 1 .. d.original_line
    IN  IF before = {} THEN d.start_line = 1
        ELSE {i \in DOMAIN lines : lines[i] \in 1 .. d.start_line} = before

\* insects_class_freq writes its rule for the transformation (its line 19):
\* where no label is empty, the two scripts choose the same classes, ties
\* included.
RulesAgree ==
  Transformable /\ EmptyLabel \notin Seen => CandidateRule = Selection

\* The rule and the lines: what the transformed dataset is used with.
TransformIsRight == DriftLinesPartRows /\ RulesAgree
=============================================================================
