----------------------- MODULE DriftAggregatorProofs -----------------------
(***************************************************************************)
(* Theorems about DriftAggregator, for every set of features, window,      *)
(* refractory distance and stream length.                                  *)
(***************************************************************************)
EXTENDS DriftAggregator, FiniteSetTheorems, SequenceTheorems, TLAPS

\* A memory is a function from some of the features to onsets.
LEMMA MemoryIs ==
  \A m : m \in Memory <=> DOMAIN m \subseteq Features /\ m \in [DOMAIN m -> Seqs]
  BY DEF Memory

LEMMA NothingIsMemory == NoOnsets \in Memory
<1>1. NoOnsets \in [{} -> Seqs]
  BY DEF NoOnsets
<1>2. {} \in SUBSET Features
  OBVIOUS
<1> QED
  BY <1>1, <1>2 DEF Memory

\* What the handler remembers after a report: onsets it knew or the new one,
\* none of them older than the window that ends at the report.
LEMMA SlideFacts ==
  ASSUME recent \in Memory, NEW fd \in FeatureDrift
  PROVE  /\ Slide(fd) \in Memory
         /\ \A f \in DOMAIN Slide(fd) :
              /\ Slide(fd)[f] >= fd.seq - AggWin
              /\ \/ f = fd.featureId /\ Slide(fd)[f] = fd.seq
                 \/ f \in DOMAIN recent /\ Slide(fd)[f] = recent[f]
<1> DEFINE recorded == [f \in DOMAIN recent \cup {fd.featureId} |->
                          IF f = fd.featureId THEN fd.seq ELSE recent[f]]
           kept == {g \in DOMAIN recorded : recorded[g] >= fd.seq - AggWin}
<1>1. DOMAIN recent \subseteq Features /\ recent \in [DOMAIN recent -> Seqs]
  BY MemoryIs
<1>2. fd.featureId \in Features /\ fd.seq \in Seqs
  BY DEF FeatureDrift
<1>3. recorded \in [DOMAIN recent \cup {fd.featureId} -> Seqs]
  BY <1>1, <1>2
<1>4. Slide(fd) = [f \in kept |-> recorded[f]]
  BY DEF Slide
<1>5. kept \subseteq Features /\ kept \subseteq DOMAIN recorded
  BY <1>1, <1>2
<1>6. Slide(fd) \in [kept -> Seqs] /\ DOMAIN Slide(fd) = kept
  BY <1>3, <1>4, <1>5
<1>7. Slide(fd) \in Memory
  BY <1>5, <1>6 DEF Memory
<1>8. ASSUME NEW f \in DOMAIN Slide(fd)
      PROVE  /\ Slide(fd)[f] >= fd.seq - AggWin
             /\ \/ f = fd.featureId /\ Slide(fd)[f] = fd.seq
                \/ f \in DOMAIN recent /\ Slide(fd)[f] = recent[f]
  <2>1. f \in kept /\ Slide(fd)[f] = recorded[f]
    BY <1>4, <1>6, <1>8
  <2> QED
    BY <2>1
<1> QED
  BY <1>7, <1>8

\* Init establishes the types and every report preserves them.
LEMMA TypeInductive ==
  /\ Init => TypeOK
  /\ TypeOK /\ [Next]_vars => TypeOK'
<1> USE AggregatorAssumption
<1>1. Init => TypeOK
  <2> SUFFICES ASSUME Init PROVE TypeOK
    OBVIOUS
  <2>1. NoOnsets \in Memory
    BY NothingIsMemory
  <2> QED
    BY <2>1 DEF Init, TypeOK
<1>2. TypeOK /\ [Next]_vars => TypeOK'
  <2> SUFFICES ASSUME TypeOK, [Next]_vars PROVE TypeOK'
    OBVIOUS
  <2>1. CASE UNCHANGED vars
    BY <2>1 DEF TypeOK, vars
  <2>2. ASSUME NEW fd \in FeatureDrift, Report(fd) PROVE TypeOK'
    <3>1. Slide(fd) \in Memory
      BY SlideFacts DEF TypeOK
    <3>2. fd.featureId \in Features /\ fd.seq \in Seqs
      BY DEF FeatureDrift
    <3>3. progress' \in [Features -> Seqs \cup {NoSeq}] /\ latest' = fd
      BY <2>2, <3>2 DEF Report, TypeOK
    <3>4. CASE Remember(fd)
      BY <3>1, <3>3, <3>4 DEF Remember, TypeOK
    <3>5. CASE Commit(fd)
      <4>1. NoOnsets \in Memory
        BY NothingIsMemory
      <4>2. Round(roundCounter + 1, fd.seq, Slide(fd))
              \in [roundId : Nat, seq : Seqs, onsets : Memory]
        BY <3>1, <3>2 DEF Round, TypeOK
      <4> QED
        BY <3>2, <3>3, <3>5, <4>1, <4>2 DEF Commit, TypeOK
    <3> QED
      BY <2>2, <3>4, <3>5 DEF Report, ProcessElement
  <2> QED
    BY <2>1, <2>2 DEF Next
<1> QED
  BY <1>1, <1>2

\* The type invariant holds of every behaviour.
THEOREM TypeCorrect == Spec => []TypeOK
  BY TypeInductive, PTL DEF Spec

(***************************************************************************)
(* Spacing.  Inductively, the counter is the number of rounds and          *)
(* lastEmitSeq is the onset that completed the last one.                   *)
(***************************************************************************)
SpacingInv ==
  /\ TypeOK
  /\ RefractorySpacing
  /\ roundCounter = Len(rounds)
  /\ IF rounds = <<>> THEN lastEmitSeq = NoSeq
                      ELSE lastEmitSeq = rounds[Len(rounds)].seq

LEMMA SpacingInductive ==
  /\ Init => SpacingInv
  /\ SpacingInv /\ [Next]_vars => SpacingInv'
<1> USE AggregatorAssumption
<1>1. Init => SpacingInv
  BY TypeInductive DEF Init, SpacingInv, RefractorySpacing
<1>2. SpacingInv /\ [Next]_vars => SpacingInv'
  <2> SUFFICES ASSUME SpacingInv, [Next]_vars PROVE SpacingInv'
    OBVIOUS
  <2>0. TypeOK'
    BY TypeInductive DEF SpacingInv
  <2>1. CASE UNCHANGED vars
    BY <2>0, <2>1 DEF SpacingInv, RefractorySpacing, vars
  <2>2. ASSUME NEW fd \in FeatureDrift, Report(fd) PROVE SpacingInv'
    <3>1. CASE Remember(fd)
      BY <2>0, <3>1 DEF Remember, SpacingInv, RefractorySpacing
    <3>2. CASE Commit(fd)
      <4> DEFINE r == Round(roundCounter + 1, fd.seq, Slide(fd))
      <4>1. rounds \in Seq([roundId : Nat, seq : Seqs, onsets : Memory])
        BY DEF SpacingInv, TypeOK
      <4>2. rounds' = Append(rounds, r) /\ r.roundId = Len(rounds) + 1 /\ r.seq = fd.seq
        BY <3>2 DEF Commit, SpacingInv, Round
      <4>3. /\ Len(rounds') = Len(rounds) + 1
            /\ rounds'[Len(rounds) + 1] = r
            /\ \A i \in 1 .. Len(rounds) : rounds'[i] = rounds[i]
        BY <4>1, <4>2
      <4>4. fd.seq \in Seqs /\ fd.seq \in Int
        BY DEF FeatureDrift, Seqs
      <4>5. rounds # <<>> => fd.seq - rounds[Len(rounds)].seq >= Refractory
        <5> SUFFICES ASSUME rounds # <<>>
                     PROVE  fd.seq - rounds[Len(rounds)].seq >= Refractory
          OBVIOUS
        <5>1. Len(rounds) \in 1 .. Len(rounds)
          BY <4>1
        <5>2. rounds[Len(rounds)].seq \in Seqs
          <6>1. rounds[Len(rounds)] \in [roundId : Nat, seq : Seqs, onsets : Memory]
            BY <4>1, <5>1, ElementOfSeq
          <6> QED
            BY <6>1
        <5>3. lastEmitSeq = rounds[Len(rounds)].seq /\ lastEmitSeq # NoSeq
          BY <5>2 DEF SpacingInv, Seqs, NoSeq
        <5>4. ~(fd.seq - lastEmitSeq < Refractory)
          BY <3>2, <5>3 DEF Commit, InRefractory
        <5> QED
          BY <4>4, <5>2, <5>3, <5>4 DEF Seqs
      <4>6. \A i \in 1 .. Len(rounds') : rounds'[i].roundId = i
        BY <4>1, <4>2, <4>3 DEF SpacingInv, RefractorySpacing
      <4>7. \A i \in 1 .. Len(rounds') - 1 :
              rounds'[i + 1].seq - rounds'[i].seq >= Refractory
        <5> SUFFICES ASSUME NEW i \in 1 .. Len(rounds') - 1
                     PROVE  rounds'[i + 1].seq - rounds'[i].seq >= Refractory
          OBVIOUS
        <5>1. Len(rounds) \in Nat /\ i \in 1 .. Len(rounds)
          BY <4>1, <4>3
        <5>2. CASE i = Len(rounds)
          <6>1. rounds # <<>>
            BY <5>1, <5>2
          <6> QED
            BY <4>2, <4>3, <4>5, <5>1, <5>2, <6>1
        <5>3. CASE i # Len(rounds)
          BY <4>3, <5>1, <5>3 DEF SpacingInv, RefractorySpacing
        <5> QED
          BY <5>2, <5>3
      <4>8. roundCounter' = Len(rounds')
        BY <3>2, <4>3 DEF Commit, SpacingInv
      <4>9. rounds' # <<>> /\ lastEmitSeq' = rounds'[Len(rounds')].seq
        BY <3>2, <4>1, <4>2, <4>3 DEF Commit
      <4> QED
        BY <2>0, <4>6, <4>7, <4>8, <4>9 DEF SpacingInv, RefractorySpacing
    <3> QED
      BY <2>2, <3>1, <3>2 DEF Report, ProcessElement
  <2> QED
    BY <2>1, <2>2 DEF Next
<1> QED
  BY <1>1, <1>2

\* Rounds are numbered consecutively and Refractory apart, whatever the
\* order in which the reports arrive.
THEOREM RoundsSpaced == Spec => []RefractorySpacing
<1>1. SpacingInv => RefractorySpacing
  BY DEF SpacingInv
<1> QED
  BY SpacingInductive, <1>1, PTL DEF Spec

(***************************************************************************)
(* Quorum.  A single producer delivers the reports in the order of         *)
(* their onsets: nothing remembered lies beyond the report at hand.        *)
(***************************************************************************)
OrderedDelivery == \A f, g \in Features : WriterOf[f] = WriterOf[g]

QuorumInv ==
  /\ TypeOK
  /\ WindowQuorum
  /\ \A f \in DOMAIN recent : recent[f] <= progress[f]

LEMMA QuorumInductive ==
  ASSUME OrderedDelivery
  PROVE  /\ Init => QuorumInv
         /\ QuorumInv /\ [Next]_vars => QuorumInv'
<1> USE AggregatorAssumption
<1>1. Init => QuorumInv
  BY TypeInductive DEF Init, QuorumInv, WindowQuorum, NoOnsets
<1>2. QuorumInv /\ [Next]_vars => QuorumInv'
  <2> SUFFICES ASSUME QuorumInv, [Next]_vars PROVE QuorumInv'
    OBVIOUS
  <2>0. TypeOK /\ TypeOK'
    BY TypeInductive DEF QuorumInv
  <2>1. CASE UNCHANGED vars
    BY <2>0, <2>1 DEF QuorumInv, WindowQuorum, vars
  <2>2. ASSUME NEW fd \in FeatureDrift, Report(fd) PROVE QuorumInv'
    <3> DEFINE window == Slide(fd)
    <3>0. fd.featureId \in Features /\ fd.seq \in Seqs
      BY DEF FeatureDrift
    <3>1. /\ window \in Memory
          /\ \A f \in DOMAIN window :
               /\ window[f] >= fd.seq - AggWin
               /\ \/ f = fd.featureId /\ window[f] = fd.seq
                  \/ f \in DOMAIN recent /\ window[f] = recent[f]
      BY <2>0, SlideFacts DEF TypeOK
    <3>2. DOMAIN window \subseteq Features /\ window \in [DOMAIN window -> Seqs]
      BY <3>1, MemoryIs
    <3>3. \A f \in Features : progress[f] <= fd.seq
      BY <2>2, <3>0 DEF Report, OrderedDelivery
    <3>4. \A f \in Features : progress[f] \in Int /\ progress'[f] \in Int
      BY <2>0 DEF TypeOK, Seqs, NoSeq
    <3>5. \A f \in Features : progress[f] <= progress'[f]
      BY <2>0, <2>2, <3>0, <3>3, <3>4 DEF Report, TypeOK
    <3>6. progress'[fd.featureId] = fd.seq
      BY <2>0, <2>2, <3>0 DEF Report, TypeOK
    <3>7. \A f \in DOMAIN window : window[f] <= progress'[f] /\ window[f] <= fd.seq
      <4> SUFFICES ASSUME NEW f \in DOMAIN window
                   PROVE  window[f] <= progress'[f] /\ window[f] <= fd.seq
        OBVIOUS
      <4>1. f \in Features /\ window[f] \in Int /\ fd.seq \in Int
        BY <3>0, <3>2 DEF Seqs
      <4>2. CASE f = fd.featureId /\ window[f] = fd.seq
        BY <3>6, <4>1, <4>2
      <4>3. CASE f \in DOMAIN recent /\ window[f] = recent[f]
        <5>1. recent[f] <= progress[f]
          BY <4>3 DEF QuorumInv
        <5> QED
          BY <3>3, <3>4, <3>5, <4>1, <4>3, <5>1
      <4> QED
        BY <3>1, <4>2, <4>3
    <3>8. CASE Remember(fd)
      BY <2>0, <3>7, <3>8 DEF Remember, QuorumInv, WindowQuorum
    <3>9. CASE Commit(fd)
      <4> DEFINE r == Round(roundCounter + 1, fd.seq, window)
      <4>1. rounds \in Seq([roundId : Nat, seq : Seqs, onsets : Memory])
        BY <2>0 DEF TypeOK
      <4>2. rounds' = Append(rounds, r) /\ r.onsets = window
        BY <3>9 DEF Commit, Round
      <4>3. /\ Len(rounds') = Len(rounds) + 1
            /\ rounds'[Len(rounds) + 1] = r
            /\ \A i \in 1 .. Len(rounds) : rounds'[i] = rounds[i]
        BY <4>1, <4>2
      <4>4. \A f, g \in DOMAIN window : window[f] - window[g] <= AggWin
        <5> SUFFICES ASSUME NEW f \in DOMAIN window, NEW g \in DOMAIN window
                     PROVE  window[f] - window[g] <= AggWin
          OBVIOUS
        <5>1. window[f] \in Int /\ window[g] \in Int /\ fd.seq \in Int
          BY <3>0, <3>2 DEF Seqs
        <5> QED
          BY <3>1, <3>7, <5>1
      <4>5. Cardinality(DOMAIN window) >= K
        BY <3>9 DEF Commit, Quorum
      <4>6. WindowQuorum'
        <5> SUFFICES ASSUME NEW i \in 1 .. Len(rounds')
                     PROVE  \E voters \in SUBSET DOMAIN rounds'[i].onsets :
                              /\ Cardinality(voters) >= K
                              /\ \A f, g \in voters :
                                   rounds'[i].onsets[f] - rounds'[i].onsets[g] <= AggWin
          BY DEF WindowQuorum
        <5>1. CASE i = Len(rounds) + 1
          <6>1. rounds'[i].onsets = window
            BY <4>2, <4>3, <5>1
          <6> QED
            BY <4>4, <4>5, <6>1
        <5>2. CASE i \in 1 .. Len(rounds)
          BY <4>3, <5>2 DEF QuorumInv, WindowQuorum
        <5> QED
          BY <4>1, <4>3, <5>1, <5>2
      <4>7. \A f \in DOMAIN recent' : recent'[f] <= progress'[f]
        BY <3>9 DEF Commit, NoOnsets
      <4> QED
        BY <2>0, <4>6, <4>7 DEF QuorumInv
    <3> QED
      BY <2>2, <3>8, <3>9 DEF Report, ProcessElement
  <2> QED
    BY <2>1, <2>2 DEF Next
<1> QED
  BY <1>1, <1>2

\* With ordered delivery (detectionParallelism = 1) every round is backed by
\* K features that drifted within AggWin of each other.
THEOREM RoundsHaveQuorum == ASSUME OrderedDelivery PROVE Spec => []WindowQuorum
<1>1. QuorumInv => WindowQuorum
  BY DEF QuorumInv
<1> QED
  BY QuorumInductive, <1>1, PTL DEF Spec

(***************************************************************************)
(* Promptness.                                                             *)
(***************************************************************************)

\* Whatever the order of delivery, the report that makes a quorum outside
\* the refractory period commits the round: none is left in the window.
PromptInv == TypeOK /\ NoQuorumHeldBack

LEMMA PromptInductive ==
  /\ Init => PromptInv
  /\ PromptInv /\ [Next]_vars => PromptInv'
<1> USE AggregatorAssumption
<1>1. Init => PromptInv
  BY TypeInductive DEF Init, PromptInv, NoQuorumHeldBack
<1>2. PromptInv /\ [Next]_vars => PromptInv'
  <2> SUFFICES ASSUME PromptInv, [Next]_vars PROVE PromptInv'
    OBVIOUS
  <2>0. TypeOK /\ TypeOK'
    BY TypeInductive DEF PromptInv
  <2>1. CASE UNCHANGED vars
    BY <2>0, <2>1 DEF PromptInv, NoQuorumHeldBack, InRefractory, vars
  <2>2. ASSUME NEW fd \in FeatureDrift, Report(fd) PROVE PromptInv'
    <3>1. latest' = fd
      BY <2>2 DEF Report
    <3>2. CASE Remember(fd)
      <4>1. \A f \in DOMAIN Slide(fd) : Slide(fd)[f] >= fd.seq - AggWin
        BY <2>0, SlideFacts DEF TypeOK
      <4>2. {f \in DOMAIN Slide(fd) : Slide(fd)[f] >= fd.seq - AggWin} = DOMAIN Slide(fd)
        BY <4>1
      <4>3. InRefractory(fd.seq) \/ Cardinality(DOMAIN Slide(fd)) < K
        <5>1. DOMAIN Slide(fd) \subseteq Features
          BY <2>0, SlideFacts, MemoryIs DEF TypeOK
        <5>2. Cardinality(DOMAIN Slide(fd)) \in Nat
          BY <5>1, FS_Subset, FS_CardinalityType
        <5> QED
          BY <3>2, <5>2 DEF Remember, Quorum
      <4>4. recent' = Slide(fd) /\ lastEmitSeq' = lastEmitSeq
        BY <3>2 DEF Remember
      <4> QED
        BY <2>0, <3>1, <4>2, <4>3, <4>4 DEF PromptInv, NoQuorumHeldBack, InRefractory
    <3>3. CASE Commit(fd)
      <4>1. {f \in DOMAIN recent' : recent'[f] >= fd.seq - AggWin} = {}
        BY <3>3 DEF Commit, NoOnsets
      <4>2. Cardinality({}) = 0
        BY FS_EmptySet
      <4> QED
        BY <2>0, <3>1, <4>1, <4>2, SMTT(30) DEF PromptInv, NoQuorumHeldBack
    <3> QED
      BY <2>2, <3>2, <3>3 DEF Report, ProcessElement
  <2> QED
    BY <2>1, <2>2 DEF Next
<1> QED
  BY <1>1, <1>2

\* No quorum is held back, for every order of delivery.
THEOREM QuorumCommits == Spec => []NoQuorumHeldBack
<1>1. PromptInv => NoQuorumHeldBack
  BY DEF PromptInv
<1> QED
  BY PromptInductive, <1>1, PTL DEF Spec

(***************************************************************************)
(* An onset votes in one round at most.                                    *)
(***************************************************************************)

\* What is remembered of a feature, and every vote it cast, is no newer than
\* its last report.
KnownOnsets ==
  /\ \A f \in DOMAIN recent : recent[f] <= progress[f]
  /\ \A i \in 1 .. Len(rounds) : \A f \in DOMAIN rounds[i].onsets :
       rounds[i].onsets[f] <= progress[f]

\* What is remembered has not voted yet.
Unspent ==
  \A i \in 1 .. Len(rounds) : \A f \in DOMAIN rounds[i].onsets \cap DOMAIN recent :
    rounds[i].onsets[f] < recent[f]

VotesInv == TypeOK /\ KnownOnsets /\ Unspent /\ VotesOnce

\* The onsets of a memory and the progress of its features are integers.
LEMMA OnsetsAreInts ==
  ASSUME TypeOK
  PROVE  /\ \A f \in Features : progress[f] \in Int
         /\ \A m \in Memory : \A f \in DOMAIN m : f \in Features /\ m[f] \in Int
         /\ \A i \in 1 .. Len(rounds) : rounds[i].onsets \in Memory
<1>1. \A f \in Features : progress[f] \in Int
  BY AggregatorAssumption DEF TypeOK, Seqs, NoSeq
<1>2. \A m \in Memory : \A f \in DOMAIN m : f \in Features /\ m[f] \in Int
  BY AggregatorAssumption, MemoryIs DEF Seqs
<1>3. ASSUME NEW i \in 1 .. Len(rounds) PROVE rounds[i].onsets \in Memory
  <2> DEFINE RoundSet == [roundId : Nat, seq : Seqs, onsets : Memory]
  <2>1. rounds \in Seq(RoundSet)
    BY DEF TypeOK
  <2> HIDE DEF RoundSet
  <2>2. rounds[i] \in RoundSet
    BY <2>1
  <2> QED
    BY <2>2 DEF RoundSet
<1> QED
  BY <1>1, <1>2, <1>3

LEMMA VotesInductive ==
  /\ Init => VotesInv
  /\ VotesInv /\ [Next]_vars => VotesInv'
<1> USE AggregatorAssumption
<1>1. Init => VotesInv
  <2> SUFFICES ASSUME Init PROVE VotesInv
    OBVIOUS
  <2>1. TypeOK
    BY TypeInductive
  <2>2. DOMAIN recent = {} /\ Len(rounds) = 0
    BY DEF Init, NoOnsets
  <2> QED
    BY <2>1, <2>2 DEF VotesInv, KnownOnsets, Unspent, VotesOnce
<1>2. VotesInv /\ [Next]_vars => VotesInv'
  <2> SUFFICES ASSUME VotesInv, [Next]_vars PROVE VotesInv'
    OBVIOUS
  <2>0. TypeOK /\ TypeOK'
    BY TypeInductive DEF VotesInv
  <2>1. CASE UNCHANGED vars
    BY <2>0, <2>1 DEF VotesInv, KnownOnsets, Unspent, VotesOnce, vars
  <2>2. ASSUME NEW fd \in FeatureDrift, Report(fd) PROVE VotesInv'
    <3> DEFINE window == Slide(fd)
    <3>1. /\ fd.featureId \in Features /\ fd.seq \in Int
          /\ fd.seq > progress[fd.featureId]
          /\ progress' = [progress EXCEPT ![fd.featureId] = fd.seq]
      BY <2>2 DEF Report, FeatureDrift, Seqs
    <3>2. /\ window \in Memory /\ recent \in Memory
          /\ \A f \in DOMAIN window :
               \/ f = fd.featureId /\ window[f] = fd.seq
               \/ f \in DOMAIN recent /\ window[f] = recent[f]
      BY <2>0, SlideFacts DEF TypeOK
    <3>3. \A f \in Features : /\ progress[f] <= progress'[f]
                              /\ progress[f] \in Int /\ progress'[f] \in Int
      BY <2>0, <3>1, OnsetsAreInts DEF TypeOK
    <3>4. \A f \in DOMAIN window : window[f] <= progress'[f]
      <4> SUFFICES ASSUME NEW f \in DOMAIN window PROVE window[f] <= progress'[f]
        OBVIOUS
      <4>1. f \in Features /\ window[f] \in Int
        BY <2>0, <3>2, OnsetsAreInts
      <4>2. CASE f = fd.featureId /\ window[f] = fd.seq
        BY <2>0, <3>1, <4>1, <4>2 DEF TypeOK
      <4>3. CASE f \in DOMAIN recent /\ window[f] = recent[f]
        BY <3>3, <4>1, <4>3 DEF VotesInv, KnownOnsets
      <4> QED
        BY <3>2, <4>2, <4>3
    <3>5. \A i \in 1 .. Len(rounds) : \A f \in DOMAIN rounds[i].onsets :
            /\ rounds[i].onsets[f] <= progress'[f]
            /\ f \in DOMAIN window => rounds[i].onsets[f] < window[f]
      <4> SUFFICES ASSUME NEW i \in 1 .. Len(rounds), NEW f \in DOMAIN rounds[i].onsets
                   PROVE  /\ rounds[i].onsets[f] <= progress'[f]
                          /\ f \in DOMAIN window => rounds[i].onsets[f] < window[f]
        OBVIOUS
      <4>1. f \in Features /\ rounds[i].onsets[f] \in Int
        BY <2>0, OnsetsAreInts
      <4>2. rounds[i].onsets[f] <= progress[f]
        BY DEF VotesInv, KnownOnsets
      <4>3. ASSUME f \in DOMAIN window PROVE rounds[i].onsets[f] < window[f]
        <5>1. CASE f = fd.featureId /\ window[f] = fd.seq
          BY <3>1, <3>3, <4>1, <4>2, <5>1
        <5>2. CASE f \in DOMAIN recent /\ window[f] = recent[f]
          BY <5>2 DEF VotesInv, Unspent
        <5> QED
          BY <3>2, <4>3, <5>1, <5>2
      <4> QED
        BY <3>3, <4>1, <4>2, <4>3
    <3>6. CASE Remember(fd)
      <4>1. recent' = window /\ rounds' = rounds
        BY <3>6 DEF Remember
      <4> QED
        BY <2>0, <3>4, <3>5, <4>1 DEF VotesInv, KnownOnsets, Unspent, VotesOnce
    <3>7. CASE Commit(fd)
      <4> DEFINE last == Len(rounds) + 1
      <4>1. /\ DOMAIN recent' = {}
            /\ rounds' = Append(rounds, Round(roundCounter + 1, fd.seq, window))
        BY <3>7 DEF Commit, NoOnsets
      <4>2. /\ Len(rounds') = last
            /\ rounds'[last].onsets = window
            /\ \A i \in 1 .. Len(rounds) : rounds'[i] = rounds[i]
        BY <2>0, <4>1 DEF TypeOK, Round
      <4>3. \A i \in 1 .. last : i = last \/ i \in 1 .. Len(rounds)
        BY <2>0 DEF TypeOK
      <4>4. KnownOnsets'
        BY <3>4, <3>5, <4>1, <4>2, <4>3 DEF KnownOnsets
      <4>5. VotesOnce'
        <5> SUFFICES ASSUME NEW i \in 1 .. last, NEW j \in 1 .. last, i < j,
                            NEW f \in DOMAIN rounds'[i].onsets \cap DOMAIN rounds'[j].onsets
                     PROVE  rounds'[i].onsets[f] < rounds'[j].onsets[f]
          BY <4>2 DEF VotesOnce
        <5>1. i \in 1 .. Len(rounds)
          BY <2>0 DEF TypeOK
        <5>2. CASE j = last
          BY <3>5, <4>2, <5>1, <5>2
        <5>3. CASE j \in 1 .. Len(rounds)
          BY <4>2, <5>1, <5>3 DEF VotesInv, VotesOnce
        <5> QED
          BY <4>3, <5>2, <5>3
      <4> QED
        BY <2>0, <4>1, <4>4, <4>5 DEF VotesInv, Unspent
    <3> QED
      BY <2>2, <3>6, <3>7 DEF Report, ProcessElement
  <2> QED
    BY <2>1, <2>2 DEF Next
<1> QED
  BY <1>1, <1>2

\* No onset votes twice, for every order of delivery in which a feature's own
\* onsets increase.
THEOREM OnsetsVoteOnce == Spec => []VotesOnce
<1>1. VotesInv => VotesOnce
  BY DEF VotesInv
<1> QED
  BY VotesInductive, <1>1, PTL DEF Spec

\* Rounds are a refractory period apart and share no onset.
THEOREM RoundsStayApart == Spec => []RoundsApart
<1>1. RefractorySpacing /\ VotesOnce => RoundsApart
  BY DEF RoundsApart
<1> QED
  BY RoundsSpaced, OnsetsVoteOnce, <1>1, PTL
=============================================================================
