-------------------------- MODULE DriftAggregator --------------------------
(***************************************************************************)
(* DriftAggregatorFunction: the operator of the coordinator job that turns *)
(* per-feature drift reports (feature-drift-topic) into COMMITTED rounds   *)
(* (drift-round-topic).  It is keyed by the constant "global", so one      *)
(* instance sees every report, one at a time.                              *)
(*                                                                         *)
(* The reports are written by parallel producers.  A detector runs at      *)
(* detectionParallelism and its Kafka sink at the job's parallelism: when  *)
(* the two are equal each detector subtask has a producer of its own, when *)
(* they differ Flink spreads the reports over all producers.  A producer   *)
(* writes in the order of the rows, so in nondecreasing order of onsets;   *)
(* different producers interleave freely on the topic.  The onsets of one  *)
(* feature are a whole warm-up apart and are taken to stay in order.       *)
(***************************************************************************)
EXTENDS Integers, FiniteSets, Sequences

CONSTANTS
  Features,     \* feature indices of a row
  Writers,      \* the producers behind feature-drift-topic
  WriterOf,     \* the producer that writes a feature's reports
  K,            \* distinct features needed to commit a round
  AggWin,       \* width of the voting window, in sample numbers
  Refractory,   \* minimal distance between two rounds, in sample numbers
  MaxSeq        \* bound: the largest sample number of the stream

ASSUME AggregatorAssumption ==
  /\ IsFiniteSet(Features)
  /\ WriterOf \in [Features -> Writers]
  /\ K \in Nat \ {0}
  /\ AggWin \in Nat \ {0}
  /\ Refractory \in Nat
  /\ MaxSeq \in Nat

VARIABLES
  recent,        \* feature |-> its latest onset, for the features still remembered
  roundCounter,  \* number of the last round; 0 is the code's null
  lastEmitSeq,   \* onset that completed the last round; NoSeq is null
  rounds,        \* drift-round-topic, with the onsets of each round's voters
  progress,      \* feature |-> its onset reported last
  latest         \* history: the report handled last

vars == <<recent, roundCounter, lastEmitSeq, rounds, progress, latest>>

NoSeq == -1
Seqs == 0 .. MaxSeq
FeatureDrift == [featureId : Features, seq : Seqs]
NoOnsets == [f \in {} |-> NoSeq]
NoReport == [featureId |-> NoSeq, seq |-> NoSeq]

Init ==
  /\ recent = NoOnsets
  /\ roundCounter = 0
  /\ lastEmitSeq = NoSeq
  /\ rounds = <<>>
  /\ progress = [f \in Features |-> NoSeq]
  /\ latest = NoReport

(***************************************************************************)
(* The handler.                                                            *)
(***************************************************************************)

\* Mutant of Slide: nothing is evicted.
SlideKeepsOld(fd) ==
  [f \in DOMAIN recent \cup {fd.featureId} |->
     IF f = fd.featureId THEN fd.seq ELSE recent[f]]

\* The remembered onsets once `fd` is recorded and those older than the
\* window that ends at it are evicted.  Nothing bounds them from above.
Slide(fd) ==
  LET lo == fd.seq - AggWin
      recorded == [f \in DOMAIN recent \cup {fd.featureId} |->
                     IF f = fd.featureId THEN fd.seq ELSE recent[f]]
  IN  [f \in {g \in DOMAIN recorded : recorded[g] >= lo} |-> recorded[f]]

\* Mutant of InRefractory: the distance is taken in both directions.
InRefractoryAbs(now) ==
  lastEmitSeq # NoSeq /\ now - lastEmitSeq < Refractory /\ lastEmitSeq - now < Refractory

InRefractory(now) == lastEmitSeq # NoSeq /\ now - lastEmitSeq < Refractory

\* Mutant of Quorum: strictly more than K.
QuorumStrict(window) == Cardinality(DOMAIN window) > K

Quorum(window) == Cardinality(DOMAIN window) >= K

\* A COMMITTED DriftRoundMessage.  `seq` and `onsets` are history: the code
\* sends the wall clock and the number of votes.
Round(id, now, window) ==
  [roundId |-> id, seq |-> now, onsets |-> window]

\* The report is remembered, no round is due.
Remember(fd) ==
  /\ InRefractory(fd.seq) \/ ~Quorum(Slide(fd))
  /\ recent' = Slide(fd)
  /\ UNCHANGED <<roundCounter, lastEmitSeq, rounds>>

\* Mutants of Commit: the window is not emptied; lastEmitSeq is the end of the
\* refractory period.
CommitKeepsWindow(fd) ==
  /\ ~InRefractory(fd.seq)
  /\ Quorum(Slide(fd))
  /\ roundCounter' = roundCounter + 1
  /\ lastEmitSeq' = fd.seq
  /\ rounds' = Append(rounds, Round(roundCounter + 1, fd.seq, Slide(fd)))
  /\ recent' = Slide(fd)

CommitStoresEnd(fd) ==
  /\ ~InRefractory(fd.seq)
  /\ Quorum(Slide(fd))
  /\ roundCounter' = roundCounter + 1
  /\ lastEmitSeq' = fd.seq + Refractory
  /\ rounds' = Append(rounds, Round(roundCounter + 1, fd.seq, Slide(fd)))
  /\ recent' = NoOnsets

\* K features are in the window: a round is committed, the window emptied.
Commit(fd) ==
  /\ ~InRefractory(fd.seq)
  /\ Quorum(Slide(fd))
  /\ roundCounter' = roundCounter + 1
  /\ lastEmitSeq' = fd.seq
  /\ rounds' = Append(rounds, Round(roundCounter + 1, fd.seq, Slide(fd)))
  /\ recent' = NoOnsets

ProcessElement(fd) == Remember(fd) \/ Commit(fd)

(***************************************************************************)
(* The environment: the next report on the topic.  A feature's onsets      *)
(* increase, and a producer writes onsets in nondecreasing order.          *)
(***************************************************************************)
Report(fd) ==
  LET f == fd.featureId
  IN  /\ fd.seq > progress[f]
      /\ \A g \in Features : WriterOf[g] = WriterOf[f] => fd.seq >= progress[g]
      /\ progress' = [progress EXCEPT ![f] = fd.seq]
      /\ latest' = fd
      /\ ProcessElement(fd)

Next == \E fd \in FeatureDrift : Report(fd)

Spec == Init /\ [][Next]_vars

(***************************************************************************)
(* Properties.                                                             *)
(***************************************************************************)

\* What the operator may remember: an onset for each of some features.
Memory == UNION {[D -> Seqs] : D \in SUBSET Features}

\* Type invariant: memory, counter and emitted rounds have their types.
TypeOK ==
  /\ recent \in Memory
  /\ roundCounter \in Nat
  /\ lastEmitSeq \in Seqs \cup {NoSeq}
  /\ rounds \in Seq([roundId : Nat, seq : Seqs, onsets : Memory])
  /\ progress \in [Features -> Seqs \cup {NoSeq}]
  /\ latest \in FeatureDrift \cup {NoReport}

\* Rounds are numbered 1, 2, ... and two consecutive rounds are at least
\* Refractory samples apart, in whatever order the reports arrive (the
\* roundCounter and lastEmitSeq of DriftAggregatorFunction).
RefractorySpacing ==
  /\ \A i \in 1 .. Len(rounds) : rounds[i].roundId = i
  /\ \A i \in 1 .. Len(rounds) - 1 :
        rounds[i + 1].seq - rounds[i].seq >= Refractory

\* "COMMITTED ... when >= k distinct features confirm onset within aggWin":
\* each round has K voters whose onsets lie within AggWin of each other.
WindowQuorum ==
  \A i \in 1 .. Len(rounds) :
    \E voters \in SUBSET DOMAIN rounds[i].onsets :
      /\ Cardinality(voters) >= K
      /\ \A f, g \in voters :
            rounds[i].onsets[f] - rounds[i].onsets[g] <= AggWin

\* No quorum is held back: after a report outside the refractory period
\* fewer than K features are left in the window, because a round was
\* committed the moment there were K.
NoQuorumHeldBack ==
  latest # NoReport /\ ~InRefractory(latest.seq) =>
    Cardinality({f \in DOMAIN recent : recent[f] >= latest.seq - AggWin}) < K

\* An onset votes in one round at most: "after firing, clear the features of
\* the window, so that the next feature does not fire the same round again".
VotesOnce ==
  \A i, j \in 1 .. Len(rounds) :
    i < j => \A f \in DOMAIN rounds[i].onsets \cap DOMAIN rounds[j].onsets :
               rounds[i].onsets[f] < rounds[j].onsets[f]

\* Rounds are apart, by their positions and by their voters.
RoundsApart == RefractorySpacing /\ VotesOnce
============================================================================
