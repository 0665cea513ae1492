------------------------ MODULE LocalProcessorProofs ------------------------
(***************************************************************************)
(* Theorems about LocalProcessor, for every set of subtasks, pool size,    *)
(* cooldown length, timeout, pause mode and policy, with decisions and     *)
(* forests delivered at least once.                                        *)
(***************************************************************************)
EXTENDS LocalProcessor, SequenceTheorems, TLAPS

(***************************************************************************)
(* Types.                                                                  *)
(***************************************************************************)

Pools == {p \in Seq(Nat) : Len(p) <= RingBufferSize}

\* What Entered and Gathered return.
Bookkeeping ==
  [n : Nat, writes : Nat, round : Nat, expiry : Nat, timers : SUBSET Nat, pool : Pools]

\* The pool never outgrows its capacity.
LEMMA AddInPools ==
  ASSUME NEW ring \in Pools, NEW x \in Nat
  PROVE  Add(ring, x) \in Pools
<1> USE LocalProcessorAssumption
<1>1. CASE Len(ring) < RingBufferSize
  BY <1>1 DEF Add, Pools
<1>2. CASE ~(Len(ring) < RingBufferSize)
  <2>1. ring \in Seq(Nat) /\ Len(ring) = RingBufferSize /\ ring # <<>>
    BY <1>2 DEF Pools
  <2>2. Tail(ring) \in Seq(Nat) /\ Len(Tail(ring)) = RingBufferSize - 1
    BY <2>1
  <2>3. Append(Tail(ring), x) \in Seq(Nat) /\ Len(Append(Tail(ring), x)) = RingBufferSize
    BY <2>2
  <2> QED
    BY <1>2, <2>3 DEF Add, Pools
<1> QED
  BY <1>1, <1>2

\* The types of one subtask's state.
LEMMA SubtaskTypes ==
  ASSUME TypeOK, NEW s \in Subtasks
  PROVE  /\ forest[s] \in Nat /\ decision[s] \in Nat /\ arrived[s] \in Nat
         /\ output[s] \in Seq(Nat) /\ backlog[s] \in Seq(Nat)
         /\ ringBuffer[s] \in Pools
         /\ countdown[s] \in 0 .. LocalTreeCount
         /\ treesProduced[s] \in 0 .. LocalTreeCount
         /\ subState[s] \in SubStates
         /\ cooldownN[s] \in Nat /\ cooldownWrites[s] \in Nat
         /\ currentRoundId[s] \in Nat /\ lastProcessedDecision[s] \in Nat
         /\ expiry[s] \in Nat /\ timers[s] \in SUBSET Nat
         /\ treeOutput[s] \in Seq(ITreeMessage)
         /\ now \in Nat /\ Sample(s) \in Nat
<1>1. arrived[s] \in Nat /\ Sample(s) = arrived[s] + 1
  BY DEF TypeOK, Sample
<1> QED
  BY <1>1, SMTT(30) DEF TypeOK, Pools

LEMMA EnteredType ==
  ASSUME TypeOK, NEW s \in Subtasks
  PROVE  Entered(s) \in Bookkeeping
<1> USE LocalProcessorAssumption
<1>1. <<>> \in Pools
  BY EmptySeq DEF Pools
<1>2. InitialPool(s) \in Pools
  BY <1>1, SubtaskTypes DEF InitialPool
<1>3. now + CooldownTimeout \in Nat
  BY SubtaskTypes
<1>4. Registered(s, now + CooldownTimeout) \in SUBSET Nat
  BY <1>3, SubtaskTypes DEF Registered
<1> QED
  BY <1>2, <1>3, <1>4, SubtaskTypes DEF Entered, Bookkeeping

LEMMA GatheredType ==
  ASSUME TypeOK, NEW s \in Subtasks, NEW keep \in BOOLEAN
  PROVE  Gathered(s, keep) \in Bookkeeping
<1> DEFINE c == Entered(s)
<1>1. /\ c \in Bookkeeping
      /\ c.n + 1 \in Nat /\ c.writes \in Nat /\ c.writes + 1 \in Nat /\ c.pool \in Pools
  BY EnteredType DEF Bookkeeping
<1>2. Add(c.pool, Sample(s)) \in Pools
  BY <1>1, SubtaskTypes, AddInPools
<1> QED
  BY <1>1, <1>2 DEF Gathered, Bookkeeping

LEMMA TreeType ==
  ASSUME NEW s \in Subtasks, NEW slot \in Nat, NEW round \in Nat, NEW pool \in Pools
  PROVE  Tree(s, slot, round, pool) \in ITreeMessage
<1>1. Len(pool) \in Nat
  BY DEF Pools
<1> QED
  BY <1>1 DEF Tree, ITreeMessage

LEMMA BatchType ==
  ASSUME NEW s \in Subtasks, NEW c \in Bookkeeping
  PROVE  Batch(s, c) \in Seq(ITreeMessage)
<1> DEFINE round == IF c.round = 0 THEN 1 ELSE c.round
           trees == [i \in 1 .. LocalTreeCount |-> Tree(s, i - 1, round, c.pool)]
<1>1. round \in Nat /\ c.pool \in Pools
  BY DEF Bookkeeping
<1>2. \A i \in 1 .. LocalTreeCount : Tree(s, i - 1, round, c.pool) \in ITreeMessage
  BY <1>1, TreeType
<1>3. trees \in Seq(ITreeMessage)
  BY <1>2, LocalProcessorAssumption
<1>4. <<>> \in Seq(ITreeMessage)
  BY EmptySeq
<1> QED
  BY <1>3, <1>4 DEF Batch

LEMMA ColdStartType == ASSUME TypeOK, NEW s \in Subtasks, ColdStart(s) PROVE TypeOK'
<1> USE LocalProcessorAssumption
<1> DEFINE pool == Add(ringBuffer[s], Sample(s))
<1>1. pool \in Pools /\ pool \in Seq(Nat) /\ Len(pool) <= RingBufferSize
  BY SubtaskTypes, AddInPools DEF Pools
<1>2. treesProduced[s] \in Nat /\ Tree(s, treesProduced[s], 0, pool) \in ITreeMessage
  BY <1>1, SubtaskTypes, TreeType
<1>3. /\ ringBuffer' \in [Subtasks -> Seq(Nat)]
      /\ \A t \in Subtasks : Len(ringBuffer'[t]) <= RingBufferSize
      /\ countdown' \in [Subtasks -> 0 .. LocalTreeCount]
      /\ treesProduced' \in [Subtasks -> 0 .. LocalTreeCount]
      /\ treeOutput' \in [Subtasks -> Seq(ITreeMessage)]
  <2>1. TrainIfReady(s)
    BY DEF ColdStart
  <2>2. CASE treesProduced[s] >= LocalTreeCount
    <3>1. UNCHANGED <<ringBuffer, phaseBVars, treeOutput>>
      BY <2>1, <2>2, SubtaskTypes DEF TrainIfReady
    <3> QED
      BY <3>1 DEF TypeOK, phaseBVars
  <2>3. CASE treesProduced[s] < LocalTreeCount /\ countdown[s] = 0
    <3>1. /\ ringBuffer' = [ringBuffer EXCEPT ![s] = pool]
          /\ countdown' = [countdown EXCEPT
               ![s] = IF Len(pool) = RingBufferSize THEN LocalTreeCount ELSE 0]
          /\ UNCHANGED <<treesProduced, treeOutput>>
      BY <2>1, <2>3, SubtaskTypes DEF TrainIfReady
    <3>2. countdown' \in [Subtasks -> 0 .. LocalTreeCount]
      BY <3>1 DEF TypeOK
    <3>3. /\ ringBuffer' \in [Subtasks -> Seq(Nat)]
          /\ \A t \in Subtasks : Len(ringBuffer'[t]) <= RingBufferSize
      BY <1>1, <3>1 DEF TypeOK
    <3> QED
      BY <3>1, <3>2, <3>3 DEF TypeOK
  <2>4. CASE treesProduced[s] < LocalTreeCount /\ countdown[s] > 0
    <3>1. /\ ringBuffer' = [ringBuffer EXCEPT ![s] = pool]
          /\ treeOutput' = [treeOutput EXCEPT
               ![s] = Append(treeOutput[s], Tree(s, treesProduced[s], 0, pool))]
          /\ treesProduced' = [treesProduced EXCEPT ![s] = treesProduced[s] + 1]
          /\ countdown' = [countdown EXCEPT ![s] = countdown[s] - 1]
      BY <2>1, <2>4, SubtaskTypes DEF TrainIfReady
    <3>2. Append(treeOutput[s], Tree(s, treesProduced[s], 0, pool)) \in Seq(ITreeMessage)
      BY <1>2, SubtaskTypes
    <3>3. /\ treesProduced[s] + 1 \in 0 .. LocalTreeCount
          /\ countdown[s] - 1 \in 0 .. LocalTreeCount
      BY <2>4, SubtaskTypes
    <3>4. treeOutput' \in [Subtasks -> Seq(ITreeMessage)]
      BY <3>1, <3>2 DEF TypeOK
    <3>5. /\ treesProduced' \in [Subtasks -> 0 .. LocalTreeCount]
          /\ countdown' \in [Subtasks -> 0 .. LocalTreeCount]
      BY <3>1, <3>3 DEF TypeOK
    <3>6. /\ ringBuffer' \in [Subtasks -> Seq(Nat)]
          /\ \A t \in Subtasks : Len(ringBuffer'[t]) <= RingBufferSize
      BY <1>1, <3>1 DEF TypeOK
    <3> QED
      BY <3>4, <3>5, <3>6
  <2> QED
    BY <2>1, <2>2, <2>3, <2>4 DEF TrainIfReady
<1>4. arrived' \in [Subtasks -> Nat]
  BY SubtaskTypes DEF ColdStart, TypeOK
<1>5. backlog' \in [Subtasks -> Seq(Nat)]
  <2>1. Append(backlog[s], Sample(s)) \in Seq(Nat)
    BY SubtaskTypes
  <2> QED
    BY <2>1 DEF ColdStart, TypeOK
<1> QED
  BY <1>3, <1>4, <1>5 DEF ColdStart, TypeOK, cooldownVars

\* What Phase A leaves of the two sequences.
LEMMA PhaseAType ==
  ASSUME TypeOK, NEW s \in Subtasks
  PROVE  Scored(s) \in Seq(Nat) /\ PutOff(s) \in Seq(Nat)
<1>1. output[s] \o backlog[s] \in Seq(Nat) /\ <<>> \in Seq(Nat)
  BY SubtaskTypes, EmptySeq
<1> QED
  BY <1>1, SubtaskTypes DEF Scored, PutOff

LEMMA PauseType ==
  ASSUME TypeOK, NEW s \in Subtasks, Pause(s)
  PROVE  /\ arrived' \in [Subtasks -> Nat]
         /\ output' \in [Subtasks -> Seq(Nat)]
         /\ backlog' \in [Subtasks -> Seq(Nat)]
<1>1. /\ Append(Scored(s), Sample(s)) \in Seq(Nat) /\ Scored(s) \in Seq(Nat)
      /\ Append(PutOff(s), Sample(s)) \in Seq(Nat) /\ PutOff(s) \in Seq(Nat)
  BY SubtaskTypes, PhaseAType
<1>2. arrived' \in [Subtasks -> Nat]
  BY SubtaskTypes DEF Pause, TypeOK
<1>3. /\ output \in [Subtasks -> Seq(Nat)] /\ backlog \in [Subtasks -> Seq(Nat)]
      /\ \E o, b \in Seq(Nat) : /\ output' = [output EXCEPT ![s] = o]
                               /\ backlog' = [backlog EXCEPT ![s] = b]
  BY <1>1 DEF Pause, TypeOK
<1> QED
  BY <1>2, <1>3

LEMMA ScoreCooldownType ==
  ASSUME TypeOK, NEW s \in Subtasks, NEW keep \in BOOLEAN, ScoreCooldown(s, keep)
  PROVE  TypeOK'
<1> DEFINE c == Gathered(s, keep)
<1>1. /\ c \in Bookkeeping
      /\ c.n \in Nat /\ c.writes \in Nat /\ c.round \in Nat /\ c.expiry \in Nat
      /\ c.timers \in SUBSET Nat /\ c.pool \in Seq(Nat) /\ Len(c.pool) <= RingBufferSize
  BY GatheredType DEF Bookkeeping, Pools
<1> HIDE DEF c
<1>2. /\ ringBuffer' = [ringBuffer EXCEPT ![s] = c.pool]
      /\ currentRoundId' = [currentRoundId EXCEPT ![s] = c.round]
      /\ lastProcessedDecision' \in [Subtasks -> Nat]
      /\ StayInCooldown(s, c) \/ RetrainAndEnterWaiting(s, c)
      /\ Pause(s)
      /\ UNCHANGED <<forest, decision, phaseBVars, now>>
  BY SubtaskTypes DEF ScoreCooldown, c, TypeOK
<1>3. /\ ringBuffer' \in [Subtasks -> Seq(Nat)]
      /\ \A t \in Subtasks : Len(ringBuffer'[t]) <= RingBufferSize
      /\ currentRoundId' \in [Subtasks -> Nat]
  BY <1>1, <1>2 DEF TypeOK
<1>4. /\ subState' \in [Subtasks -> SubStates]
      /\ cooldownN' \in [Subtasks -> Nat] /\ cooldownWrites' \in [Subtasks -> Nat]
      /\ expiry' \in [Subtasks -> Nat] /\ timers' \in [Subtasks -> SUBSET Nat]
      /\ waitingForVersion' \in [Subtasks -> Nat]
      /\ treeOutput' \in [Subtasks -> Seq(ITreeMessage)]
  <2>1. CASE StayInCooldown(s, c)
    BY <1>1, <2>1 DEF StayInCooldown, TypeOK, SubStates
  <2>2. CASE RetrainAndEnterWaiting(s, c)
    <3>1. /\ subState' = [subState EXCEPT ![s] = "WAITING"]
          /\ cooldownN' = [cooldownN EXCEPT ![s] = 0]
          /\ cooldownWrites' = [cooldownWrites EXCEPT ![s] = 0]
          /\ expiry' = [expiry EXCEPT ![s] = 0]
          /\ timers' = [timers EXCEPT ![s] = c.timers \ {c.expiry}]
          /\ waitingForVersion' = [waitingForVersion EXCEPT ![s] = forest[s]]
          /\ treeOutput' = [treeOutput EXCEPT ![s] = @ \o Batch(s, c)]
      BY <2>2 DEF RetrainAndEnterWaiting, VersionToPass
    <3>2. treeOutput[s] \o Batch(s, c) \in Seq(ITreeMessage)
      BY <1>1, BatchType, SubtaskTypes
    <3>3. treeOutput' \in [Subtasks -> Seq(ITreeMessage)]
      BY <3>1, <3>2 DEF TypeOK
    <3> QED
      BY <1>1, <3>1, <3>3, SubtaskTypes DEF TypeOK, SubStates
  <2> QED
    BY <1>2, <2>1, <2>2
<1> QED
  BY <1>2, <1>3, <1>4, PauseType DEF TypeOK, phaseBVars

LEMMA OnTimerType ==
  ASSUME TypeOK, NEW s \in Subtasks, FireTimer(s)
  PROVE  TypeOK'
<1>1. PICK t \in timers[s] : OnTimer(s, t)
  BY DEF FireTimer
<1>2. timers' \in [Subtasks -> SUBSET Nat]
  BY <1>1 DEF OnTimer, TypeOK
<1>3. CASE subState[s] = "COOLDOWN" /\ IsCurrentTimer(s, t)
  <2>1. AbortCooldown(s)
    BY <1>1, <1>3 DEF OnTimer
  <2>2. output[s] \o backlog[s] \in Seq(Nat) /\ <<>> \in Seq(Nat)
    BY SubtaskTypes, EmptySeq
  <2>3. output' \in [Subtasks -> Seq(Nat)] /\ backlog' \in [Subtasks -> Seq(Nat)]
    BY <2>1, <2>2 DEF AbortCooldown, DrainBacklog, TypeOK
  <2> QED
    BY <1>1, <1>2, <2>1, <2>3 DEF OnTimer, AbortCooldown, TypeOK, SubStates, phaseBVars
<1>4. CASE ~(subState[s] = "COOLDOWN" /\ IsCurrentTimer(s, t))
  BY <1>1, <1>2, <1>4 DEF OnTimer, TypeOK, phaseBVars
<1> QED
  BY <1>3, <1>4

\* Init establishes the types and every step preserves them.
LEMMA TypeInductive ==
  /\ Init => TypeOK
  /\ TypeOK /\ [AtLeastOnceNext]_vars => TypeOK'
<1> USE LocalProcessorAssumption
<1>1. Init => TypeOK
  <2> SUFFICES ASSUME Init PROVE TypeOK
    OBVIOUS
  <2>1. \A S : <<>> \in Seq(S) /\ Len(<<>>) = 0
    BY EmptySeq
  <2>2. /\ output \in [Subtasks -> Seq(Nat)] /\ backlog \in [Subtasks -> Seq(Nat)]
        /\ ringBuffer \in [Subtasks -> Seq(Nat)]
        /\ treeOutput \in [Subtasks -> Seq(ITreeMessage)]
        /\ \A s \in Subtasks : Len(ringBuffer[s]) <= RingBufferSize
    BY <2>1 DEF Init
  <2> QED
    BY <2>2 DEF Init, TypeOK, SubStates
<1>2. TypeOK /\ [AtLeastOnceNext]_vars => TypeOK'
  <2> SUFFICES ASSUME TypeOK, [AtLeastOnceNext]_vars PROVE TypeOK'
    OBVIOUS
  <2>1. CASE UNCHANGED vars
    BY <2>1 DEF TypeOK, vars, streamVars, phaseBVars, cooldownVars
  <2>2. ASSUME NEW s \in Subtasks, ProcessElement(s) PROVE TypeOK'
    <3>1. CASE ColdStart(s)
      BY <3>1, ColdStartType
    <3>2. CASE ScoreStable(s)
      <4>1. Append(Scored(s), Sample(s)) \in Seq(Nat) /\ PutOff(s) \in Seq(Nat)
        BY SubtaskTypes, PhaseAType
      <4> QED
        BY <3>2, <4>1, SubtaskTypes DEF ScoreStable, TypeOK, phaseBVars, cooldownVars
    <3>3. CASE \E keep \in BOOLEAN : ScoreCooldown(s, keep)
      BY <3>3, ScoreCooldownType
    <3>4. CASE ScoreWaiting(s)
      BY <3>4, PauseType DEF ScoreWaiting, TypeOK, phaseBVars, cooldownVars
    <3>5. CASE LeaveWaiting(s)
      <4>1. /\ output[s] \o Append(backlog[s], Sample(s)) \in Seq(Nat)
            /\ Append(output[s], Sample(s)) \in Seq(Nat)
            /\ <<>> \in Seq(Nat)
        BY SubtaskTypes, EmptySeq
      <4>2. arrived' \in [Subtasks -> Nat]
        BY <3>5, SubtaskTypes DEF LeaveWaiting, TypeOK
      <4>3. output' \in [Subtasks -> Seq(Nat)] /\ backlog' \in [Subtasks -> Seq(Nat)]
        BY <3>5, <4>1, ZenonT(40) DEF LeaveWaiting, TypeOK
      <4> QED
        BY <3>5, <4>2, <4>3 DEF LeaveWaiting, TypeOK, SubStates, phaseBVars
    <3> QED
      BY <2>2, <3>1, <3>2, <3>3, <3>4, <3>5 DEF ProcessElement
  <2>3. ASSUME NEW s \in Subtasks, NEW v \in Nat, ReceiveForest(s, v) PROVE TypeOK'
    BY <2>3 DEF ReceiveForest, TypeOK, streamVars, phaseBVars, cooldownVars
  <2>4. ASSUME NEW s \in Subtasks, NEW r \in Nat, ReceiveDecision(s, r) PROVE TypeOK'
    BY <2>4 DEF ReceiveDecision, TypeOK, streamVars, phaseBVars, cooldownVars
  <2>5. ASSUME NEW s \in Subtasks, NextForest(s) \/ ForestAgain(s) PROVE TypeOK'
    BY <2>3, <2>5, SubtaskTypes DEF NextForest, ForestAgain
  <2>6. ASSUME NEW s \in Subtasks, NextDecision(s) \/ DecisionAgain(s) PROVE TypeOK'
    BY <2>4, <2>6, SubtaskTypes DEF NextDecision, DecisionAgain
  <2>7. CASE Tick
    BY <2>7 DEF Tick, TypeOK, streamVars, phaseBVars, cooldownVars
  <2> QED
    BY <2>1, <2>2, <2>5, <2>6, <2>7, OnTimerType DEF AtLeastOnceNext, Next, NextElement
<1> QED
  BY <1>1, <1>2

\* The types hold under every schedule; the training pool never outgrows its
\* capacity.
THEOREM TypeCorrect == AtLeastOnceSpec => []TypeOK
  BY TypeInductive, PTL DEF AtLeastOnceSpec

(***************************************************************************)
(* Every sample is scored once, in order.                                  *)
(***************************************************************************)
Stream(n) == [i \in 1 .. n |-> i]

\* ScoredInOrderOnce and BacklogOnlyWhilePaused for one subtask, and what a
\* subtask without a forest looks like.
SubtaskStream(s) ==
  /\ output[s] \o backlog[s] = Stream(arrived[s])
  /\ backlog[s] # <<>> => \/ subState[s] = "STABLE" /\ output[s] = <<>>
                          \/ subState[s] # "STABLE" /\ BacklogMode
  /\ forest[s] = 0 => subState[s] = "STABLE" /\ output[s] = <<>>

StreamInv == TypeOK /\ \A s \in Subtasks : SubtaskStream(s)

LEMMA StreamGrows ==
  ASSUME NEW n \in Nat
  PROVE  Append(Stream(n), n + 1) = Stream(n + 1)
<1>1. Stream(n) \in Seq(Nat) /\ Len(Stream(n)) = n
  BY DEF Stream
<1>2. Stream(n + 1) \in Seq(Nat) /\ Len(Stream(n + 1)) = n + 1
  BY DEF Stream
<1>3. /\ Append(Stream(n), n + 1) \in Seq(Nat)
      /\ Len(Append(Stream(n), n + 1)) = n + 1
      /\ \A i \in 1 .. n : Append(Stream(n), n + 1)[i] = Stream(n)[i]
      /\ Append(Stream(n), n + 1)[n + 1] = n + 1
  BY <1>1, AppendProperties
<1>4. \A i \in 1 .. n + 1 : Append(Stream(n), n + 1)[i] = Stream(n + 1)[i]
  BY <1>3 DEF Stream
<1> QED
  BY <1>2, <1>3, <1>4, SeqEqual

\* The next sample may be scored after what was put off, be scored alone if
\* nothing was, or be put off itself; scoring what was put off changes nothing.
LEMMA StreamCases ==
  ASSUME NEW o \in Seq(Nat), NEW b \in Seq(Nat), NEW n \in Nat, o \o b = Stream(n)
  PROVE  /\ Append(o \o b, n + 1) \o <<>> = Stream(n + 1)
         /\ (o \o Append(b, n + 1)) \o <<>> = Stream(n + 1)
         /\ o \o Append(b, n + 1) = Stream(n + 1)
         /\ (o \o b) \o Append(<<>>, n + 1) = Stream(n + 1)
         /\ b = <<>> => Append(o, n + 1) \o b = Stream(n + 1)
         /\ (o \o b) \o <<>> = Stream(n)
<1>1. <<n + 1>> \in Seq(Nat) /\ <<>> \in Seq(Nat) /\ n + 1 \in Nat
  BY EmptySeq
<1>2. o \o b \in Seq(Nat) /\ Append(o \o b, n + 1) \in Seq(Nat)
  BY <1>1, ConcatProperties, AppendProperties
<1>3. Append(o \o b, n + 1) = Stream(n + 1)
  BY StreamGrows
<1>4. Append(o \o b, n + 1) = (o \o b) \o <<n + 1>> /\ Append(b, n + 1) = b \o <<n + 1>>
  BY <1>1, <1>2, AppendIsConcat
<1>5. o \o Append(b, n + 1) = Stream(n + 1)
  <2> DEFINE left == o \o Append(b, n + 1)
             right == Append(o \o b, n + 1)
  <2>1. /\ left \in Seq(Nat) /\ right \in Seq(Nat)
        /\ Len(left) = Len(o) + Len(b) + 1 /\ Len(right) = Len(left)
    <3>1. Append(b, n + 1) \in Seq(Nat) /\ Len(Append(b, n + 1)) = Len(b) + 1
      BY <1>1
    <3>2. left \in Seq(Nat) /\ Len(left) = Len(o) + Len(Append(b, n + 1))
      BY <3>1
    <3>3. right \in Seq(Nat) /\ Len(right) = Len(o) + Len(b) + 1
      BY <1>1, <1>2
    <3> QED
      BY <3>1, <3>2, <3>3
  <2>2. ASSUME NEW i \in 1 .. Len(left) PROVE left[i] = right[i]
    BY <1>1, <2>1, <2>2
  <2>3. left = right
    BY <2>1, <2>2, SeqEqual
  <2> QED
    BY <1>3, <2>3
<1>6. Append(<<>>, n + 1) = <<n + 1>>
  OBVIOUS
<1>7. ASSUME b = <<>> PROVE Append(o, n + 1) \o b = Stream(n + 1)
  <2>1. o \o b = o
    BY <1>7, ConcatEmptySeq
  <2>2. Append(o, n + 1) \o b = Append(o, n + 1)
    BY <1>1, <1>7, ConcatEmptySeq, AppendProperties
  <2> QED
    BY <1>3, <2>1, <2>2
<1>8. \A q \in Seq(Nat) : q \o <<>> = q
  BY ConcatEmptySeq
<1> QED
  BY <1>2, <1>3, <1>4, <1>5, <1>6, <1>7, <1>8

\* What an action of one subtask must show.
LEMMA StreamFrame ==
  ASSUME StreamInv, TypeOK', NEW s \in Subtasks, SubtaskStream(s)',
         \A t \in Subtasks \ {s} :
           /\ output'[t] = output[t] /\ backlog'[t] = backlog[t]
           /\ arrived'[t] = arrived[t]
           /\ subState'[t] = subState[t] /\ forest'[t] = forest[t]
  PROVE  StreamInv'
<1> SUFFICES ASSUME NEW t \in Subtasks PROVE SubtaskStream(t)'
  BY DEF StreamInv
<1>1. CASE t = s
  BY <1>1
<1>2. CASE t # s
  BY <1>2 DEF StreamInv, SubtaskStream
<1> QED
  BY <1>1, <1>2

\* Of the pair (output, backlog) after a paused subtask's sample.
LEMMA PauseStream ==
  ASSUME StreamInv, NEW s \in Subtasks, Pause(s)
  PROVE  /\ output'[s] \o backlog'[s] = Stream(arrived'[s])
         /\ backlog'[s] # <<>> => BacklogMode
         /\ \A t \in Subtasks \ {s} :
              /\ output'[t] = output[t] /\ backlog'[t] = backlog[t]
              /\ arrived'[t] = arrived[t]
<1> DEFINE n == arrived[s]
<1>1. /\ output[s] \in Seq(Nat) /\ backlog[s] \in Seq(Nat) /\ n \in Nat
      /\ output[s] \o backlog[s] = Stream(n)
      /\ subState[s] # "STABLE" /\ ~BacklogMode => backlog[s] = <<>>
  BY SubtaskTypes DEF StreamInv, SubtaskStream
<1>5. /\ Append(output[s] \o backlog[s], n + 1) \o <<>> = Stream(n + 1)
      /\ output[s] \o Append(backlog[s], n + 1) = Stream(n + 1)
      /\ (output[s] \o backlog[s]) \o Append(<<>>, n + 1) = Stream(n + 1)
      /\ backlog[s] = <<>> => Append(output[s], n + 1) \o backlog[s] = Stream(n + 1)
  BY <1>1, StreamCases
<1>2. /\ arrived'[s] = n + 1
      /\ \A t \in Subtasks \ {s} :
           /\ output'[t] = output[t] /\ backlog'[t] = backlog[t]
           /\ arrived'[t] = arrived[t]
  BY DEF Pause, StreamInv, TypeOK, Sample
<1>3. CASE BacklogMode
  <2>1. output'[s] = Scored(s) /\ backlog'[s] = Append(PutOff(s), n + 1)
    BY <1>3 DEF Pause, StreamInv, TypeOK, Sample
  <2>2. output'[s] \o backlog'[s] = Stream(n + 1)
    BY <1>5, <2>1, Zenon DEF Scored, PutOff
  <2> QED
    BY <1>2, <1>3, <2>2
<1>4. CASE ~BacklogMode
  <2>1. output'[s] = Append(Scored(s), n + 1) /\ backlog'[s] = PutOff(s)
    BY <1>4 DEF Pause, StreamInv, TypeOK, Sample
  <2>2. CASE subState[s] = "STABLE"
    <3>1. /\ output'[s] = Append(output[s] \o backlog[s], n + 1)
          /\ backlog'[s] = <<>>
      BY <2>1, <2>2 DEF Scored, PutOff
    <3> QED
      BY <1>2, <1>5, <3>1
  <2>3. CASE subState[s] # "STABLE"
    <3>1. /\ output'[s] = Append(output[s], n + 1)
          /\ backlog'[s] = backlog[s] /\ backlog[s] = <<>>
      BY <1>1, <1>4, <2>1, <2>3 DEF Scored, PutOff
    <3> QED
      BY <1>2, <1>5, <3>1
  <2> QED
    BY <2>2, <2>3
<1> QED
  BY <1>2, <1>3, <1>4

LEMMA ElementStream ==
  ASSUME StreamInv, TypeOK', NEW s \in Subtasks, ProcessElement(s)
  PROVE  StreamInv'
<1> DEFINE n == arrived[s]
<1>1. /\ output[s] \in Seq(Nat) /\ backlog[s] \in Seq(Nat) /\ n \in Nat
      /\ SubtaskStream(s) /\ TypeOK
      /\ subState[s] # "STABLE" /\ ~BacklogMode => backlog[s] = <<>>
  BY SubtaskTypes DEF StreamInv, SubtaskStream
<1>2. /\ Append(output[s] \o backlog[s], n + 1) \o <<>> = Stream(n + 1)
      /\ (output[s] \o Append(backlog[s], n + 1)) \o <<>> = Stream(n + 1)
      /\ output[s] \o Append(backlog[s], n + 1) = Stream(n + 1)
      /\ backlog[s] = <<>> => Append(output[s], n + 1) \o backlog[s] = Stream(n + 1)
  BY <1>1, StreamCases DEF SubtaskStream
<1>3. CASE ColdStart(s)
  <2>1. /\ forest' = forest /\ output' = output /\ subState' = subState
        /\ arrived' = [arrived EXCEPT ![s] = n + 1]
        /\ backlog' = [backlog EXCEPT ![s] = Append(backlog[s], n + 1)]
        /\ forest[s] = 0
    BY <1>3 DEF ColdStart, Sample
  <2>2. SubtaskStream(s)'
    BY <1>1, <1>2, <2>1 DEF SubtaskStream, TypeOK
  <2> QED
    BY <1>1, <2>1, <2>2, StreamFrame DEF TypeOK
<1>4. CASE ScoreStable(s)
  <2>1. /\ forest' = forest /\ subState' = subState /\ forest[s] # 0
        /\ arrived' = [arrived EXCEPT ![s] = n + 1]
        /\ output' = [output EXCEPT ![s] = Append(output[s] \o backlog[s], n + 1)]
        /\ backlog' = [backlog EXCEPT ![s] = <<>>]
    BY <1>4 DEF ScoreStable, Sample, Scored, PutOff
  <2>2. SubtaskStream(s)'
    BY <1>1, <1>2, <2>1 DEF SubtaskStream, TypeOK
  <2> QED
    BY <1>1, <2>1, <2>2, StreamFrame DEF TypeOK
<1>5. ASSUME NEW keep \in BOOLEAN, ScoreCooldown(s, keep) PROVE StreamInv'
  <2>1. /\ forest' = forest /\ forest[s] # 0 /\ Pause(s)
        /\ \/ subState' = [subState EXCEPT ![s] = "COOLDOWN"]
           \/ subState' = [subState EXCEPT ![s] = "WAITING"]
    BY <1>5 DEF ScoreCooldown, StayInCooldown, RetrainAndEnterWaiting
  <2>2. /\ subState'[s] # "STABLE"
        /\ \A t \in Subtasks \ {s} : subState'[t] = subState[t]
    BY <1>1, <2>1 DEF TypeOK
  <2>3. SubtaskStream(s)'
    BY <2>1, <2>2, PauseStream DEF SubtaskStream, BacklogMode
  <2> QED
    BY <2>1, <2>2, <2>3, PauseStream, StreamFrame
<1>6. CASE ScoreWaiting(s)
  <2>1. /\ forest' = forest /\ forest[s] # 0 /\ Pause(s)
        /\ subState' = subState /\ subState[s] # "STABLE"
    BY <1>6 DEF ScoreWaiting
  <2>2. SubtaskStream(s)'
    BY <2>1, PauseStream DEF SubtaskStream, BacklogMode
  <2> QED
    BY <2>1, <2>2, PauseStream, StreamFrame
<1>7. CASE LeaveWaiting(s)
  <2>1. /\ forest' = forest /\ forest[s] # 0 /\ subState[s] = "WAITING"
        /\ arrived' = [arrived EXCEPT ![s] = n + 1]
        /\ subState' = [subState EXCEPT ![s] = "STABLE"]
    BY <1>7 DEF LeaveWaiting, Sample
  <2>2. /\ output'[s] \o backlog'[s] = Stream(n + 1)
        /\ backlog'[s] = <<>>
        /\ \A t \in Subtasks \ {s} : output'[t] = output[t] /\ backlog'[t] = backlog[t]
    <3>1. CASE BacklogMode
      <4>1. /\ output' = [output EXCEPT ![s] = output[s] \o Append(backlog[s], n + 1)]
            /\ backlog' = [backlog EXCEPT ![s] = <<>>]
        BY <1>7, <3>1 DEF LeaveWaiting, Sample
      <4> QED
        BY <1>1, <1>2, <4>1 DEF TypeOK
    <3>2. CASE ~BacklogMode
      <4>1. /\ output' = [output EXCEPT ![s] = Append(output[s], n + 1)]
            /\ backlog' = backlog /\ backlog[s] = <<>>
        BY <1>1, <1>7, <2>1, <3>2 DEF LeaveWaiting, Sample
      <4> QED
        BY <1>1, <1>2, <4>1 DEF TypeOK
    <3> QED
      BY <3>1, <3>2
  <2>3. SubtaskStream(s)'
    BY <1>1, <2>1, <2>2 DEF SubtaskStream, TypeOK
  <2> QED
    BY <1>1, <2>1, <2>2, <2>3, StreamFrame DEF TypeOK
<1> QED
  BY <1>3, <1>4, <1>5, <1>6, <1>7 DEF ProcessElement

LEMMA TimerStream ==
  ASSUME StreamInv, TypeOK', NEW s \in Subtasks, FireTimer(s)
  PROVE  StreamInv'
<1>1. PICK t \in timers[s] : OnTimer(s, t)
  BY DEF FireTimer
<1>2. forest' = forest /\ arrived' = arrived /\ TypeOK
  BY <1>1 DEF OnTimer, StreamInv
<1>3. CASE subState[s] = "COOLDOWN" /\ IsCurrentTimer(s, t)
  <2>1. DrainBacklog(s) /\ subState' = [subState EXCEPT ![s] = "STABLE"]
    BY <1>1, <1>3 DEF OnTimer, AbortCooldown
  <2>2. /\ output[s] \in Seq(Nat) /\ backlog[s] \in Seq(Nat) /\ arrived[s] \in Nat
        /\ SubtaskStream(s) /\ forest[s] # 0
    BY <1>2, <1>3, SubtaskTypes DEF StreamInv, SubtaskStream
  <2>3. (output[s] \o backlog[s]) \o <<>> = Stream(arrived[s])
    BY <2>2, StreamCases DEF SubtaskStream
  <2>4. CASE BacklogMode
    <3>1. /\ output' = [output EXCEPT ![s] = output[s] \o backlog[s]]
          /\ backlog' = [backlog EXCEPT ![s] = <<>>]
      BY <2>1, <2>2, <2>4 DEF DrainBacklog
    <3>2. SubtaskStream(s)'
      BY <1>2, <2>2, <2>3, <3>1 DEF SubtaskStream, TypeOK
    <3> QED
      BY <1>2, <2>1, <3>1, <3>2, StreamFrame DEF TypeOK
  <2>5. CASE ~BacklogMode
    <3>1. output' = output /\ backlog' = backlog /\ backlog[s] = <<>>
      BY <1>3, <2>1, <2>2, <2>5 DEF DrainBacklog, SubtaskStream
    <3>2. SubtaskStream(s)'
      BY <1>2, <2>2, <3>1 DEF SubtaskStream
    <3> QED
      BY <1>2, <2>1, <3>1, <3>2, StreamFrame DEF TypeOK
  <2> QED
    BY <2>4, <2>5
<1>4. CASE ~(subState[s] = "COOLDOWN" /\ IsCurrentTimer(s, t))
  <2>1. output' = output /\ backlog' = backlog /\ subState' = subState
    BY <1>1, <1>4 DEF OnTimer
  <2> QED
    BY <1>2, <2>1 DEF StreamInv, SubtaskStream
<1> QED
  BY <1>3, <1>4

LEMMA StreamInductive ==
  /\ Init => StreamInv
  /\ StreamInv /\ [AtLeastOnceNext]_vars => StreamInv'
<1>1. Init => StreamInv
  <2> SUFFICES ASSUME Init, NEW s \in Subtasks PROVE SubtaskStream(s)
    BY TypeInductive DEF StreamInv
  <2>1. output[s] = <<>> /\ backlog[s] = <<>> /\ arrived[s] = 0 /\ subState[s] = "STABLE"
    BY DEF Init
  <2>2. <<>> \o <<>> = <<>> /\ Stream(0) = <<>>
    BY DEF Stream
  <2> QED
    BY <2>1, <2>2 DEF SubtaskStream
<1>2. StreamInv /\ [AtLeastOnceNext]_vars => StreamInv'
  <2> SUFFICES ASSUME StreamInv, [AtLeastOnceNext]_vars PROVE StreamInv'
    OBVIOUS
  <2>0. TypeOK /\ TypeOK'
    BY TypeInductive DEF StreamInv
  <2>1. ASSUME UNCHANGED <<streamVars, forest, subState>> PROVE StreamInv'
    BY <2>0, <2>1 DEF StreamInv, SubtaskStream, streamVars
  <2>2. ASSUME NEW s \in Subtasks, NEW v \in Nat \ {0}, ReceiveForest(s, v)
        PROVE  StreamInv'
    <3>1. /\ forest' = [forest EXCEPT ![s] = v]
          /\ output' = output /\ backlog' = backlog /\ arrived' = arrived
          /\ subState' = subState
      BY <2>2 DEF ReceiveForest, streamVars
    <3>2. SubtaskStream(s)'
      BY <2>0, <2>2, <3>1 DEF StreamInv, SubtaskStream, TypeOK
    <3> QED
      BY <2>0, <3>1, <3>2, StreamFrame DEF TypeOK
  <2>3. ASSUME NEW s \in Subtasks, NextForest(s) \/ ForestAgain(s) PROVE StreamInv'
    <3>1. forest[s] \in Nat
      BY <2>0, SubtaskTypes
    <3>2. PICK v \in Nat \ {0} : ReceiveForest(s, v)
      BY <2>3, <3>1 DEF NextForest, ForestAgain
    <3> QED
      BY <2>2, <3>2
  <2>4. ASSUME NEW s \in Subtasks, NextDecision(s) \/ DecisionAgain(s) PROVE StreamInv'
    BY <2>1, <2>4 DEF NextDecision, DecisionAgain, ReceiveDecision
  <2>5. CASE Tick \/ UNCHANGED vars
    BY <2>1, <2>5 DEF Tick, vars
  <2> QED
    BY <2>0, <2>3, <2>4, <2>5, ElementStream, TimerStream
    DEF AtLeastOnceNext, Next, NextElement
<1> QED
  BY <1>1, <1>2

\* No sample is lost, scored twice or overtaken, in either pause mode, under
\* every order of samples, timers, forests and decisions, repeats included.
THEOREM EverySampleOnce == AtLeastOnceSpec => []ScoredInOrderOnce
<1>1. StreamInv => ScoredInOrderOnce
  BY DEF StreamInv, SubtaskStream, ScoredInOrderOnce, Stream
<1> QED
  BY <1>1, StreamInductive, PTL DEF AtLeastOnceSpec

\* A subtask back in STABLE has nothing left to score.
THEOREM NothingLeftBehind == AtLeastOnceSpec => []BacklogOnlyWhilePaused
<1>1. StreamInv => BacklogOnlyWhilePaused
  BY DEF StreamInv, SubtaskStream, BacklogOnlyWhilePaused
<1> QED
  BY <1>1, StreamInductive, PTL DEF AtLeastOnceSpec

(***************************************************************************)
(* Rounds and timers of a paused subtask.                                  *)
(***************************************************************************)
PauseInv == TypeOK /\ RoundKnownWhilePaused /\ CooldownHasTimer

\* The bookkeeping of the sample at hand has its round, the one recorded as
\* handled, and its timer.
LEMMA GatheredFacts ==
  ASSUME PauseInv, NEW s \in Subtasks, NEW keep \in BOOLEAN,
         FreshDecision(s) \/ subState[s] = "COOLDOWN"
  PROVE  LET c == Gathered(s, keep)
             handled == IF FreshDecision(s) THEN decision[s] ELSE lastProcessedDecision[s]
         IN  /\ c.round = handled /\ c.round # 0
             /\ c.expiry \in c.timers
<1> DEFINE e == Entered(s)
           c == Gathered(s, keep)
<1>1. e \in Bookkeeping
  BY EnteredType DEF PauseInv
<1>2. c.round = e.round /\ c.expiry = e.expiry /\ c.timers = e.timers
  BY <1>1 DEF Gathered, Bookkeeping
<1>3. CASE FreshDecision(s)
  BY <1>2, <1>3 DEF Entered, FreshDecision, Registered
<1>4. CASE ~FreshDecision(s)
  BY <1>2, <1>4 DEF Entered, PauseInv, RoundKnownWhilePaused, CooldownHasTimer
<1> QED
  BY <1>3, <1>4

LEMMA PauseInductive ==
  /\ Init => PauseInv
  /\ PauseInv /\ [AtLeastOnceNext]_vars => PauseInv'
<1>1. Init => PauseInv
  BY TypeInductive DEF Init, PauseInv, RoundKnownWhilePaused, CooldownHasTimer
<1>2. PauseInv /\ [AtLeastOnceNext]_vars => PauseInv'
  <2> SUFFICES ASSUME PauseInv, [AtLeastOnceNext]_vars PROVE PauseInv'
    OBVIOUS
  <2>0. TypeOK /\ TypeOK'
    BY TypeInductive DEF PauseInv
  <2>1. ASSUME UNCHANGED <<subState, currentRoundId, lastProcessedDecision, expiry, timers>>
        PROVE  PauseInv'
    BY <2>0, <2>1 DEF PauseInv, RoundKnownWhilePaused, CooldownHasTimer
  <2>2. ASSUME NEW s \in Subtasks, NEW keep \in BOOLEAN, ScoreCooldown(s, keep)
        PROVE  PauseInv'
    <3> DEFINE c == Gathered(s, keep)
               handled == IF FreshDecision(s) THEN decision[s]
                                              ELSE lastProcessedDecision[s]
    <3>1. c.round = handled /\ c.round # 0 /\ c.expiry \in c.timers
      BY <2>2, GatheredFacts DEF ScoreCooldown
    <3>2. /\ currentRoundId' = [currentRoundId EXCEPT ![s] = c.round]
          /\ lastProcessedDecision' = [lastProcessedDecision EXCEPT ![s] = handled]
          /\ StayInCooldown(s, c) \/ RetrainAndEnterWaiting(s, c)
      BY <2>2 DEF ScoreCooldown
    <3> HIDE DEF c, handled
    <3>3. CASE StayInCooldown(s, c)
      <4>1. /\ subState' = [subState EXCEPT ![s] = "COOLDOWN"]
            /\ expiry' = [expiry EXCEPT ![s] = c.expiry]
            /\ timers' = [timers EXCEPT ![s] = c.timers]
        BY <3>3 DEF StayInCooldown
      <4> QED
        BY <2>0, <3>1, <3>2, <4>1, ZenonT(40)
        DEF PauseInv, RoundKnownWhilePaused, CooldownHasTimer, TypeOK
    <3>4. CASE RetrainAndEnterWaiting(s, c)
      <4>1. /\ subState' = [subState EXCEPT ![s] = "WAITING"]
            /\ expiry' = [expiry EXCEPT ![s] = 0]
            /\ timers' = [timers EXCEPT ![s] = c.timers \ {c.expiry}]
        BY <3>4 DEF RetrainAndEnterWaiting
      <4> QED
        BY <2>0, <3>1, <3>2, <4>1, ZenonT(40)
        DEF PauseInv, RoundKnownWhilePaused, CooldownHasTimer, TypeOK
    <3> QED
      BY <3>2, <3>3, <3>4
  <2>3. ASSUME NEW s \in Subtasks, LeaveWaiting(s) PROVE PauseInv'
    <3>1. /\ subState' = [subState EXCEPT ![s] = "STABLE"]
          /\ currentRoundId' = [currentRoundId EXCEPT ![s] = 0]
          /\ UNCHANGED <<lastProcessedDecision, expiry, timers>>
      BY <2>3 DEF LeaveWaiting
    <3> QED
      BY <2>0, <3>1 DEF PauseInv, RoundKnownWhilePaused, CooldownHasTimer, TypeOK
  <2>4. ASSUME NEW s \in Subtasks, ProcessElement(s) PROVE PauseInv'
    <3>1. CASE ColdStart(s) \/ ScoreStable(s) \/ ScoreWaiting(s)
      BY <2>1, <3>1 DEF ColdStart, ScoreStable, ScoreWaiting, cooldownVars
    <3> QED
      BY <2>2, <2>3, <2>4, <3>1 DEF ProcessElement
  <2>5. ASSUME NEW s \in Subtasks, FireTimer(s) PROVE PauseInv'
    <3>1. PICK t \in timers[s] : OnTimer(s, t)
      BY <2>5 DEF FireTimer
    <3>2. timers' = [timers EXCEPT ![s] = timers[s] \ {t}] /\ UNCHANGED lastProcessedDecision
      BY <3>1 DEF OnTimer
    <3>3. CASE subState[s] = "COOLDOWN" /\ IsCurrentTimer(s, t)
      <4>1. /\ subState' = [subState EXCEPT ![s] = "STABLE"]
            /\ currentRoundId' = [currentRoundId EXCEPT ![s] = 0]
            /\ expiry' = [expiry EXCEPT ![s] = 0]
        BY <3>1, <3>3 DEF OnTimer, AbortCooldown
      <4> QED
        BY <2>0, <3>2, <4>1
        DEF PauseInv, RoundKnownWhilePaused, CooldownHasTimer, TypeOK
    <3>4. CASE ~(subState[s] = "COOLDOWN" /\ IsCurrentTimer(s, t))
      <4>1. UNCHANGED <<subState, currentRoundId, expiry>>
        BY <3>1, <3>4 DEF OnTimer
      <4> QED
        BY <2>0, <3>2, <3>4, <4>1
        DEF PauseInv, RoundKnownWhilePaused, CooldownHasTimer, TypeOK, IsCurrentTimer
    <3> QED
      BY <3>3, <3>4
  <2>6. ASSUME NEW s \in Subtasks, NextForest(s) \/ ForestAgain(s) PROVE PauseInv'
    BY <2>1, <2>6 DEF NextForest, ForestAgain, ReceiveForest, cooldownVars
  <2>7. ASSUME NEW s \in Subtasks, NextDecision(s) \/ DecisionAgain(s) PROVE PauseInv'
    BY <2>1, <2>7 DEF NextDecision, DecisionAgain, ReceiveDecision, cooldownVars
  <2>8. CASE Tick \/ UNCHANGED vars
    BY <2>1, <2>8 DEF Tick, vars, cooldownVars
  <2> QED
    BY <2>4, <2>5, <2>6, <2>7, <2>8 DEF AtLeastOnceNext, Next, NextElement
<1> QED
  BY <1>1, <1>2

\* A paused subtask always knows its round, so no tree is sent under the
\* fallback round.
THEOREM RoundIsKnown == AtLeastOnceSpec => []RoundKnownWhilePaused
<1>1. PauseInv => RoundKnownWhilePaused
  BY DEF PauseInv
<1> QED
  BY <1>1, PauseInductive, PTL DEF AtLeastOnceSpec

\* A COOLDOWN always has its timer pending.
THEOREM TimerIsPending == AtLeastOnceSpec => []CooldownHasTimer
<1>1. PauseInv => CooldownHasTimer
  BY DEF PauseInv
<1> QED
  BY <1>1, PauseInductive, PTL DEF AtLeastOnceSpec

\* An orphan timer never cuts a COOLDOWN short.
THEOREM NoEarlyAbort == AtLeastOnceSpec => AbortsWhenExpired
<1> DEFINE Expired == \A s \in Subtasks :
                        subState[s] = "COOLDOWN" /\ subState'[s] = "STABLE" =>
                          now >= expiry[s]
<1>1. TypeOK /\ [AtLeastOnceNext]_vars => [Expired]_vars
  <2> SUFFICES ASSUME TypeOK, AtLeastOnceNext, NEW s \in Subtasks,
                      subState[s] = "COOLDOWN", subState'[s] = "STABLE"
               PROVE  now >= expiry[s]
    OBVIOUS
  <2>1. ASSUME NEW u \in Subtasks, FireTimer(u) PROVE now >= expiry[s]
    <3>1. PICK t \in timers[u] : OnTimer(u, t)
      BY <2>1 DEF FireTimer
    <3>2. u = s /\ IsCurrentTimer(u, t)
      <4>1. CASE subState[u] = "COOLDOWN" /\ IsCurrentTimer(u, t)
        <5>1. subState' = [subState EXCEPT ![u] = "STABLE"]
          BY <3>1, <4>1 DEF OnTimer, AbortCooldown
        <5> QED
          BY <4>1, <5>1 DEF TypeOK
      <4>2. CASE ~(subState[u] = "COOLDOWN" /\ IsCurrentTimer(u, t))
        BY <3>1, <4>2 DEF OnTimer
      <4> QED
        BY <4>1, <4>2
    <3>3. t <= now /\ expiry[s] = t
      BY <3>1, <3>2 DEF OnTimer, IsCurrentTimer
    <3> QED
      BY <3>3, SubtaskTypes
  <2>2. ASSUME NEW u \in Subtasks, ProcessElement(u) PROVE FALSE
    <3>1. CASE \E keep \in BOOLEAN : ScoreCooldown(u, keep)
      BY <3>1, ZenonT(40) DEF ScoreCooldown, StayInCooldown, RetrainAndEnterWaiting, TypeOK
    <3>2. CASE LeaveWaiting(u)
      BY <3>2 DEF LeaveWaiting, TypeOK
    <3>3. CASE ColdStart(u) \/ ScoreStable(u) \/ ScoreWaiting(u)
      BY <3>3 DEF ColdStart, ScoreStable, ScoreWaiting
    <3> QED
      BY <2>2, <3>1, <3>2, <3>3 DEF ProcessElement
  <2>3. ASSUME UNCHANGED subState PROVE FALSE
    BY <2>3
  <2> QED
    BY <2>1, <2>2, <2>3
    DEF AtLeastOnceNext, Next, NextElement, Tick, NextForest, ForestAgain, ReceiveForest,
        NextDecision, DecisionAgain, ReceiveDecision
<1> QED
  BY <1>1, TypeInductive, PTL DEF AtLeastOnceSpec, AbortsWhenExpired

(***************************************************************************)
(* A subtask handles rounds in increasing order when no decision repeats.  *)
(***************************************************************************)
RoundsInv == TypeOK /\ \A s \in Subtasks : lastProcessedDecision[s] <= decision[s]

\* What one step does to the decision received and the one handled last.
LEMMA DecisionSteps ==
  ASSUME TypeOK, Next, NEW s \in Subtasks
  PROVE  /\ decision'[s] \in {decision[s], decision[s] + 1}
         /\ lastProcessedDecision'[s] # lastProcessedDecision[s] =>
              lastProcessedDecision'[s] = decision[s] /\ decision'[s] = decision[s]
         /\ lastProcessedDecision'[s] # lastProcessedDecision[s] =>
              decision[s] # lastProcessedDecision[s]
<1>1. ASSUME NEW u \in Subtasks, NEW keep \in BOOLEAN, ScoreCooldown(u, keep)
      PROVE  /\ decision' = decision
             /\ lastProcessedDecision'[s] # lastProcessedDecision[s] =>
                  lastProcessedDecision'[s] = decision[s]
  BY <1>1 DEF ScoreCooldown, TypeOK
<1>2. ASSUME NEW u \in Subtasks, ProcessElement(u) PROVE decision' = decision
  BY <1>1, <1>2 DEF ProcessElement, ColdStart, ScoreStable, ScoreWaiting, LeaveWaiting
<1>3. ASSUME NEW u \in Subtasks, ProcessElement(u),
             lastProcessedDecision'[s] # lastProcessedDecision[s]
      PROVE  lastProcessedDecision'[s] = decision[s]
  BY <1>1, <1>3 DEF ProcessElement, ColdStart, ScoreStable, ScoreWaiting, LeaveWaiting
<1>4. ASSUME NEW u \in Subtasks, NextDecision(u)
      PROVE  /\ decision'[s] \in {decision[s], decision[s] + 1}
             /\ lastProcessedDecision' = lastProcessedDecision
  BY <1>4 DEF NextDecision, ReceiveDecision, TypeOK
<1>5. ASSUME Tick \/ \E u \in Subtasks : FireTimer(u) \/ NextForest(u)
      PROVE  decision' = decision /\ lastProcessedDecision' = lastProcessedDecision
  BY <1>5 DEF Tick, FireTimer, OnTimer, NextForest, ReceiveForest
<1> QED
  BY <1>2, <1>3, <1>4, <1>5 DEF Next, NextElement

LEMMA RoundsInductive ==
  /\ Init => RoundsInv
  /\ RoundsInv /\ [Next]_vars => RoundsInv'
<1>1. Init => RoundsInv
  BY TypeInductive DEF Init, RoundsInv
<1>2. RoundsInv /\ [Next]_vars => RoundsInv'
  <2> SUFFICES ASSUME RoundsInv, [Next]_vars PROVE RoundsInv'
    OBVIOUS
  <2>1. TypeOK /\ TypeOK'
    BY TypeInductive DEF RoundsInv, AtLeastOnceNext
  <2>2. CASE UNCHANGED vars
    BY <2>1, <2>2 DEF RoundsInv, vars
  <2>3. ASSUME Next, NEW s \in Subtasks PROVE lastProcessedDecision'[s] <= decision'[s]
    <3>1. /\ lastProcessedDecision[s] \in Nat /\ decision[s] \in Nat
          /\ lastProcessedDecision[s] <= decision[s]
      BY <2>1, SubtaskTypes DEF RoundsInv
    <3> QED
      BY <2>1, <2>3, <3>1, DecisionSteps
  <2> QED
    BY <2>1, <2>2, <2>3 DEF RoundsInv
<1> QED
  BY <1>1, <1>2

\* A sample of a pause starts the pause of a later round, or leaves the
\* COOLDOWN that it finds as it was but for the count.
LEMMA CooldownGoesOn ==
  ASSUME PauseInv, RoundsInv, NEW s \in Subtasks, NEW keep \in BOOLEAN,
         ScoreCooldown(s, keep)
  PROVE  PauseBegins(s) \/ PauseGoesOn(s)
<1> DEFINE e == Entered(s)
           c == Gathered(s, keep)
<1>1. FreshDecision(s) \/ subState[s] = "COOLDOWN"
  BY DEF ScoreCooldown
<1>2. /\ currentRoundId'[s] = c.round
      /\ lastProcessedDecision'[s] = IF FreshDecision(s) THEN decision[s]
                                                         ELSE lastProcessedDecision[s]
      /\ subState'[s] = "COOLDOWN" => cooldownN'[s] = c.n /\ expiry'[s] = c.expiry
  <2>1. /\ currentRoundId' = [currentRoundId EXCEPT ![s] = c.round]
        /\ lastProcessedDecision' = [lastProcessedDecision EXCEPT
              ![s] = IF FreshDecision(s) THEN decision[s] ELSE lastProcessedDecision[s]]
        /\ StayInCooldown(s, c) \/ RetrainAndEnterWaiting(s, c)
    BY DEF ScoreCooldown
  <2> HIDE DEF c
  <2>2. TypeOK
    BY DEF PauseInv
  <2>3. CASE StayInCooldown(s, c)
    BY <2>1, <2>2, <2>3 DEF StayInCooldown, TypeOK
  <2>4. CASE RetrainAndEnterWaiting(s, c)
    <3>1. subState'[s] = "WAITING"
      BY <2>2, <2>4 DEF RetrainAndEnterWaiting, TypeOK
    <3> QED
      BY <2>1, <2>2, <3>1 DEF TypeOK
  <2> QED
    BY <2>1, <2>3, <2>4
<1>3. CASE FreshDecision(s)
  <2>1. c.round = decision[s]
    BY <1>1, <1>3, GatheredFacts
  <2>2. /\ decision[s] \in Nat /\ lastProcessedDecision[s] \in Nat
        /\ lastProcessedDecision[s] <= decision[s] /\ decision[s] # lastProcessedDecision[s]
    BY <1>3, SubtaskTypes DEF RoundsInv, FreshDecision
  <2> QED
    BY <1>2, <1>3, <2>1, <2>2 DEF PauseBegins
<1>4. CASE ~FreshDecision(s)
  <2>1. e \in Bookkeeping
    BY EnteredType DEF PauseInv
  <2>2. c.n = e.n + 1 /\ c.expiry = e.expiry /\ c.round = e.round
    BY <2>1 DEF Gathered, Bookkeeping
  <2>3. e.n = cooldownN[s] /\ e.expiry = expiry[s] /\ e.round = currentRoundId[s]
    BY <1>4 DEF Entered
  <2> QED
    BY <1>1, <1>2, <1>4, <2>2, <2>3 DEF PauseGoesOn
<1> QED
  BY <1>3, <1>4

\* The same of every sample.  One that comes without a forest finds no pause.
LEMMA PauseSteps ==
  ASSUME StreamInv, PauseInv, RoundsInv, NEW s \in Subtasks, ProcessElement(s),
         subState'[s] # "STABLE"
  PROVE  PauseBegins(s) \/ PauseGoesOn(s)
<1>0. TypeOK
  BY DEF PauseInv
<1>1. CASE \E keep \in BOOLEAN : ScoreCooldown(s, keep)
  BY <1>1, CooldownGoesOn
<1>2. CASE ColdStart(s)
  <2>1. subState'[s] = subState[s] /\ forest[s] = 0
    BY <1>2 DEF ColdStart
  <2> QED
    BY <2>1 DEF StreamInv, SubtaskStream
<1>3. CASE ScoreStable(s)
  BY <1>3 DEF ScoreStable
<1>4. CASE ScoreWaiting(s)
  BY <1>4 DEF ScoreWaiting, cooldownVars, PauseGoesOn
<1>5. CASE LeaveWaiting(s)
  BY <1>0, <1>5 DEF LeaveWaiting, TypeOK
<1> QED
  BY <1>1, <1>2, <1>3, <1>4, <1>5 DEF ProcessElement

\* Who took a sample.
LEMMA SampleOf ==
  ASSUME TypeOK, Next, NEW s \in Subtasks, arrived'[s] # arrived[s]
  PROVE  ProcessElement(s)
<1>1. ASSUME NEW u \in Subtasks, ProcessElement(u) PROVE u = s
  <2>1. arrived' = [arrived EXCEPT ![u] = Sample(u)]
    BY <1>1 DEF ProcessElement, ColdStart, ScoreStable, ScoreCooldown, Pause, ScoreWaiting,
                LeaveWaiting
  <2> QED
    BY <2>1 DEF TypeOK
<1>2. ASSUME Tick \/ \E u \in Subtasks : FireTimer(u) \/ NextForest(u) \/ NextDecision(u)
      PROVE  arrived' = arrived
  BY <1>2 DEF Tick, FireTimer, OnTimer, NextForest, ReceiveForest, NextDecision,
              ReceiveDecision, streamVars
<1>3. PICK u \in Subtasks : ProcessElement(u)
  BY <1>2 DEF Next, NextElement
<1> QED
  BY <1>1, <1>3

\* Comparing the decision with the one handled last only is enough to start
\* one pause for a round, and none for an earlier one, as long as no decision
\* repeats: no sample starts the pause again that it finds, nor puts off its
\* time-out.
THEOREM NoRoundTwice == Spec => RoundsHandledOnce
<1> DEFINE Inv == StreamInv /\ PauseInv /\ RoundsInv
           Once == \A s \in Subtasks :
                     /\ lastProcessedDecision'[s] >= lastProcessedDecision[s]
                     /\ arrived'[s] # arrived[s] /\ subState'[s] # "STABLE" =>
                          PauseBegins(s) \/ PauseGoesOn(s)
<1>1. Init => Inv
  BY StreamInductive, PauseInductive, RoundsInductive
<1>2. Inv /\ [Next]_vars => Inv'
  <2>1. [Next]_vars => [AtLeastOnceNext]_vars
    BY DEF AtLeastOnceNext
  <2> QED
    BY <2>1, StreamInductive, PauseInductive, RoundsInductive
<1>3. Inv /\ [Next]_vars => [Once]_vars
  <2> SUFFICES ASSUME Inv, Next, NEW s \in Subtasks
               PROVE  /\ lastProcessedDecision'[s] >= lastProcessedDecision[s]
                      /\ arrived'[s] # arrived[s] /\ subState'[s] # "STABLE" =>
                           PauseBegins(s) \/ PauseGoesOn(s)
    OBVIOUS
  <2>1. /\ lastProcessedDecision[s] \in Nat /\ decision[s] \in Nat
        /\ lastProcessedDecision[s] <= decision[s]
    BY SubtaskTypes DEF RoundsInv
  <2>2. lastProcessedDecision'[s] >= lastProcessedDecision[s]
    BY <2>1, DecisionSteps DEF RoundsInv
  <2>3. ASSUME arrived'[s] # arrived[s], subState'[s] # "STABLE"
        PROVE  PauseBegins(s) \/ PauseGoesOn(s)
    BY <2>3, SampleOf, PauseSteps DEF RoundsInv
  <2> QED
    BY <2>2, <2>3
<1> QED
  BY <1>1, <1>2, <1>3, PTL DEF Spec, RoundsHandledOnce

(***************************************************************************)
(* The training pool of a COOLDOWN.                                        *)
(***************************************************************************)
Least(n) == IF n < RingBufferSize THEN n ELSE RingBufferSize
LastSamples(a, k) == [i \in 1 .. k |-> a - k + i]

\* The pool of the last samples stays the pool of the last samples.
LEMMA AddLast ==
  ASSUME NEW a \in Nat, NEW n \in Nat
  PROVE  Add(LastSamples(a, Least(n)), a + 1) = LastSamples(a + 1, Least(n + 1))
<1> DEFINE k == Least(n)
           ring == LastSamples(a, k)
<1>1. k \in Nat /\ k <= RingBufferSize /\ RingBufferSize \in Nat \ {0}
  BY LocalProcessorAssumption DEF Least
<1>2. ring \in Seq(Int) /\ Len(ring) = k /\ \A i \in 1 .. k : ring[i] = a - k + i
  BY <1>1 DEF LastSamples
<1>3. CASE n < RingBufferSize
  <2>1. k = n /\ Least(n + 1) = n + 1
    BY <1>1, <1>3 DEF Least
  <2>2. Add(ring, a + 1) = Append(ring, a + 1)
    BY <1>2, <1>3, <2>1 DEF Add
  <2>3. /\ Append(ring, a + 1) \in Seq(Int) /\ Len(Append(ring, a + 1)) = n + 1
        /\ \A i \in 1 .. n + 1 : Append(ring, a + 1)[i] = (a + 1) - (n + 1) + i
    BY <1>2, <2>1
  <2>4. LastSamples(a + 1, n + 1) \in Seq(Int) /\ Len(LastSamples(a + 1, n + 1)) = n + 1
    BY DEF LastSamples
  <2> HIDE DEF ring, k
  <2> QED
    BY <2>1, <2>2, <2>3, <2>4, SeqEqual DEF LastSamples, ring, k
<1>4. CASE ~(n < RingBufferSize)
  <2>1. k = RingBufferSize /\ Least(n + 1) = RingBufferSize
    BY <1>1, <1>4 DEF Least
  <2>2. ring # <<>> /\ Add(ring, a + 1) = Append(Tail(ring), a + 1)
    BY <1>1, <1>2, <2>1 DEF Add
  <2>3. /\ Tail(ring) \in Seq(Int) /\ Len(Tail(ring)) = RingBufferSize - 1
        /\ \A i \in 1 .. RingBufferSize - 1 : Tail(ring)[i] = a - k + (i + 1)
    BY <1>1, <1>2, <2>1, <2>2
  <2>4. /\ Append(Tail(ring), a + 1) \in Seq(Int)
        /\ Len(Append(Tail(ring), a + 1)) = RingBufferSize
        /\ \A i \in 1 .. RingBufferSize :
             Append(Tail(ring), a + 1)[i] = (a + 1) - RingBufferSize + i
    BY <1>1, <2>1, <2>3
  <2>5. /\ LastSamples(a + 1, RingBufferSize) \in Seq(Int)
        /\ Len(LastSamples(a + 1, RingBufferSize)) = RingBufferSize
    BY <1>1 DEF LastSamples
  <2> HIDE DEF ring, k
  <2> QED
    BY <2>1, <2>2, <2>4, <2>5, SeqEqual DEF LastSamples, ring, k
<1> QED
  BY <1>3, <1>4

SubtaskPool(s) ==
  D1a /\ subState[s] = "COOLDOWN" =>
    /\ cooldownWrites[s] = cooldownN[s]
    /\ ringBuffer[s] = LastSamples(arrived[s], Least(cooldownN[s]))

PoolInv == StreamInv /\ \A s \in Subtasks : SubtaskPool(s)

\* Under d1a the bookkeeping of the sample at hand holds the samples since
\* the decision, this one included.
LEMMA GatheredPool ==
  ASSUME PoolInv, D1a, NEW s \in Subtasks, NEW keep \in BOOLEAN,
         FreshDecision(s) \/ subState[s] = "COOLDOWN"
  PROVE  LET c == Gathered(s, keep)
         IN  c.writes = c.n /\ c.pool = LastSamples(Sample(s), Least(c.n))
<1> DEFINE e == Entered(s)
           c == Gathered(s, keep)
<1>1. e \in Bookkeeping /\ e.n \in Nat /\ arrived[s] \in Nat
  BY EnteredType, SubtaskTypes DEF PoolInv, StreamInv, Bookkeeping
<1>2. e.writes = e.n /\ e.pool = LastSamples(arrived[s], Least(e.n))
  <2>1. CASE FreshDecision(s)
    <3>1. e.n = 0 /\ e.writes = 0 /\ e.pool = <<>>
      BY <2>1 DEF Entered, InitialPool
    <3>2. Least(0) = 0 /\ LastSamples(arrived[s], 0) = <<>>
      BY <1>1, LocalProcessorAssumption DEF Least, LastSamples
    <3> QED
      BY <3>1, <3>2
  <2>2. CASE ~FreshDecision(s)
    <3>1. /\ e.n = cooldownN[s] /\ e.writes = cooldownWrites[s]
          /\ e.pool = ringBuffer[s]
      BY <2>2 DEF Entered
    <3> QED
      BY <2>2, <3>1 DEF PoolInv, SubtaskPool
  <2> QED
    BY <2>1, <2>2
<1>3. c.n = e.n + 1 /\ c.writes = e.writes + 1 /\ c.pool = Add(e.pool, arrived[s] + 1)
  BY <1>1 DEF Gathered, Bookkeeping, Sample
<1> HIDE DEF e, c
<1>4. c.pool = LastSamples(arrived[s] + 1, Least(e.n + 1))
  BY <1>1, <1>2, <1>3, AddLast
<1> QED
  BY <1>2, <1>3, <1>4 DEF Sample, c

LEMMA PoolInductive ==
  /\ Init => PoolInv
  /\ PoolInv /\ [AtLeastOnceNext]_vars => PoolInv'
<1>1. Init => PoolInv
  BY StreamInductive DEF Init, PoolInv, SubtaskPool
<1>2. PoolInv /\ [AtLeastOnceNext]_vars => PoolInv'
  <2> SUFFICES ASSUME PoolInv, [AtLeastOnceNext]_vars PROVE PoolInv'
    OBVIOUS
  <2>0. StreamInv' /\ TypeOK /\ TypeOK'
    BY StreamInductive DEF PoolInv, StreamInv
  <2>1. ASSUME UNCHANGED <<subState, cooldownN, cooldownWrites, ringBuffer, arrived>>
        PROVE  PoolInv'
    BY <2>0, <2>1 DEF PoolInv, SubtaskPool
  \* A step of one subtask that leaves it out of COOLDOWN.
  <2>2. ASSUME NEW s \in Subtasks, subState'[s] # "COOLDOWN",
               \A t \in Subtasks \ {s} :
                 /\ subState'[t] = subState[t] /\ cooldownN'[t] = cooldownN[t]
                 /\ cooldownWrites'[t] = cooldownWrites[t]
                 /\ ringBuffer'[t] = ringBuffer[t] /\ arrived'[t] = arrived[t]
        PROVE  PoolInv'
    BY <2>0, <2>2 DEF PoolInv, SubtaskPool
  <2>3. ASSUME NEW s \in Subtasks, ColdStart(s) PROVE PoolInv'
    <3>1. subState[s] = "STABLE" /\ subState' = subState
      BY <2>3 DEF ColdStart, PoolInv, StreamInv, SubtaskStream
    <3>2. /\ cooldownN' = cooldownN /\ cooldownWrites' = cooldownWrites
          /\ \A t \in Subtasks \ {s} : ringBuffer'[t] = ringBuffer[t]
          /\ \A t \in Subtasks \ {s} : arrived'[t] = arrived[t]
      BY <2>0, <2>3 DEF ColdStart, TrainIfReady, cooldownVars, TypeOK
    <3> QED
      BY <2>2, <3>1, <3>2
  <2>4. ASSUME NEW s \in Subtasks, ScoreStable(s) PROVE PoolInv'
    BY <2>0, <2>2, <2>4 DEF ScoreStable, cooldownVars, TypeOK
  <2>5. ASSUME NEW s \in Subtasks, ScoreWaiting(s) PROVE PoolInv'
    BY <2>0, <2>2, <2>5 DEF ScoreWaiting, Pause, cooldownVars, TypeOK
  <2>6. ASSUME NEW s \in Subtasks, LeaveWaiting(s) PROVE PoolInv'
    BY <2>0, <2>2, <2>6 DEF LeaveWaiting, TypeOK
  <2>7. ASSUME NEW s \in Subtasks, NEW keep \in BOOLEAN, ScoreCooldown(s, keep)
        PROVE  PoolInv'
    <3> DEFINE c == Gathered(s, keep)
    <3>1. D1a => c.writes = c.n /\ c.pool = LastSamples(Sample(s), Least(c.n))
      BY <2>7, GatheredPool DEF ScoreCooldown
    <3>2. /\ ringBuffer' = [ringBuffer EXCEPT ![s] = c.pool]
          /\ arrived' = [arrived EXCEPT ![s] = Sample(s)]
          /\ StayInCooldown(s, c) \/ RetrainAndEnterWaiting(s, c)
      BY <2>7 DEF ScoreCooldown, Pause
    <3> HIDE DEF c
    <3>3. CASE StayInCooldown(s, c)
      <4>1. /\ subState' = [subState EXCEPT ![s] = "COOLDOWN"]
            /\ cooldownN' = [cooldownN EXCEPT ![s] = c.n]
            /\ cooldownWrites' = [cooldownWrites EXCEPT ![s] = c.writes]
        BY <3>3 DEF StayInCooldown
      <4>2. SubtaskPool(s)'
        BY <2>0, <3>1, <3>2, <4>1 DEF SubtaskPool, TypeOK
      <4>3. \A t \in Subtasks \ {s} : SubtaskPool(t)'
        BY <2>0, <3>2, <4>1 DEF PoolInv, SubtaskPool, TypeOK
      <4> QED
        BY <2>0, <4>2, <4>3 DEF PoolInv
    <3>4. CASE RetrainAndEnterWaiting(s, c)
      BY <2>0, <2>2, <3>2, <3>4 DEF RetrainAndEnterWaiting, TypeOK
    <3> QED
      BY <3>2, <3>3, <3>4
  <2>8. ASSUME NEW s \in Subtasks, FireTimer(s) PROVE PoolInv'
    <3>1. PICK t \in timers[s] : OnTimer(s, t)
      BY <2>8 DEF FireTimer
    <3>2. CASE subState[s] = "COOLDOWN" /\ IsCurrentTimer(s, t)
      <4>1. /\ subState' = [subState EXCEPT ![s] = "STABLE"]
            /\ cooldownN' = [cooldownN EXCEPT ![s] = 0]
            /\ cooldownWrites' = [cooldownWrites EXCEPT ![s] = 0]
            /\ ringBuffer' = ringBuffer /\ arrived' = arrived
        BY <3>1, <3>2 DEF OnTimer, AbortCooldown
      <4> QED
        BY <2>0, <2>2, <4>1 DEF TypeOK
    <3>3. CASE ~(subState[s] = "COOLDOWN" /\ IsCurrentTimer(s, t))
      BY <2>1, <3>1, <3>3 DEF OnTimer
    <3> QED
      BY <3>2, <3>3
  <2>9. CASE Tick \/ UNCHANGED vars
    BY <2>1, <2>9 DEF Tick, vars, streamVars, cooldownVars
  <2>10. ASSUME NEW s \in Subtasks,
                NextForest(s) \/ ForestAgain(s) \/ NextDecision(s) \/ DecisionAgain(s)
         PROVE  PoolInv'
    BY <2>1, <2>10 DEF NextForest, ForestAgain, ReceiveForest, NextDecision, DecisionAgain,
                       ReceiveDecision, streamVars, cooldownVars
  <2> QED
    BY <2>3, <2>4, <2>5, <2>6, <2>7, <2>8, <2>9, <2>10
    DEF AtLeastOnceNext, Next, NextElement, ProcessElement
<1> QED
  BY <1>1, <1>2

\* Under d1a the training pool of a COOLDOWN is made of the samples since its
\* decision, the last RingBufferSize of them, whatever aborted or overtook it.
THEOREM PoolSinceDecision == AtLeastOnceSpec => []PoolIsPostDrift
<1>1. PoolInv => PoolIsPostDrift
  BY DEF PoolInv, SubtaskPool, PoolIsPostDrift, Least, LastSamples
<1> QED
  BY <1>1, PoolInductive, PTL DEF AtLeastOnceSpec

(***************************************************************************)
(* The batch sent before WAITING.                                          *)
(***************************************************************************)

\* The z-score filter takes the first sample of a COOLDOWN; the code has it
\* start after 50 samples.
FirstSampleTaken == D1a \/ InitSamples > 1

\* The trees sent end with a whole batch of the round.
EndsWithBatch(sent, round) ==
  LET first == Len(sent) - LocalTreeCount
  IN  /\ first >= 0
      /\ \A i \in 1 .. LocalTreeCount :
           /\ sent[first + i].slotIndex = i - 1
           /\ sent[first + i].round = round
           /\ sent[first + i].batchEnd = (i = LocalTreeCount)

SubtaskBatch(s) ==
  subState[s] = "WAITING" => EndsWithBatch(treeOutput[s], currentRoundId[s])

BatchInv ==
  /\ StreamInv /\ PauseInv
  /\ \A s \in Subtasks : subState[s] = "COOLDOWN" => ringBuffer[s] # <<>>
  /\ \A s \in Subtasks : SubtaskBatch(s)

\* A COOLDOWN has something to train on.
LEMMA GatheredNotEmpty ==
  ASSUME FirstSampleTaken, BatchInv, NEW s \in Subtasks, NEW keep \in BOOLEAN,
         FreshDecision(s) \/ subState[s] = "COOLDOWN"
  PROVE  Gathered(s, keep).pool # <<>>
<1> DEFINE e == Entered(s)
           c == Gathered(s, keep)
<1>1. e \in Bookkeeping /\ e.pool \in Seq(Nat) /\ Sample(s) \in Nat
  BY EnteredType, SubtaskTypes DEF BatchInv, PauseInv, Bookkeeping, Pools
<1>2. Add(e.pool, Sample(s)) # <<>>
  <2>1. \A r \in Seq(Nat) : Append(r, Sample(s)) # <<>>
    BY <1>1, AppendProperties, SMTT(30)
  <2>2. e.pool # <<>> => Tail(e.pool) \in Seq(Nat)
    BY <1>1
  <2>3. e.pool = <<>> => Len(e.pool) < RingBufferSize
    BY LocalProcessorAssumption
  <2> QED
    BY <1>1, <2>1, <2>2, <2>3 DEF Add
<1>3. c.pool \in {e.pool, Add(e.pool, Sample(s))}
  BY <1>1 DEF Gathered, Bookkeeping
<1>4. CASE FreshDecision(s)
  <2>1. e.n = 0
    BY <1>4 DEF Entered
  <2>2. D1a \/ e.n + 1 < InitSamples
    BY <2>1, LocalProcessorAssumption DEF FirstSampleTaken
  <2>3. c.pool = Add(e.pool, Sample(s))
    BY <1>1, <2>2 DEF Gathered, Bookkeeping
  <2> QED
    BY <1>2, <2>3
<1>5. CASE ~FreshDecision(s)
  <2>1. e.pool = ringBuffer[s]
    BY <1>5 DEF Entered
  <2> QED
    BY <1>2, <1>3, <1>5, <2>1 DEF BatchInv
<1> QED
  BY <1>4, <1>5

\* What a batch appended to the trees sent before leaves at the end.
LEMMA BatchAtEnd ==
  ASSUME NEW s \in Subtasks, NEW sent \in Seq(ITreeMessage), NEW c \in Bookkeeping,
         c.round # 0, c.pool # <<>>
  PROVE  EndsWithBatch(sent \o Batch(s, c), c.round)
<1> DEFINE b == Batch(s, c)
           all == sent \o b
<1>1. b = [i \in 1 .. LocalTreeCount |-> Tree(s, i - 1, c.round, c.pool)]
  BY DEF Batch
<1>2. LocalTreeCount \in Nat /\ b \in Seq(ITreeMessage)
  BY BatchType, LocalProcessorAssumption
<1>3. Len(b) = LocalTreeCount
  BY <1>1, <1>2
<1> HIDE DEF b
<1>4. Len(all) = Len(sent) + LocalTreeCount
  BY <1>2, <1>3
<1>5. \A i \in 1 .. LocalTreeCount : all[Len(sent) + i] = b[i]
  BY <1>2, <1>3, <1>4
<1>6. \A i \in 1 .. LocalTreeCount :
        b[i].slotIndex = i - 1 /\ b[i].round = c.round /\ b[i].batchEnd = (i = LocalTreeCount)
  BY <1>1, <1>2 DEF Tree
<1> HIDE DEF all
<1>7. Len(sent) \in Nat /\ Len(all) - LocalTreeCount = Len(sent)
  BY <1>2, <1>4
<1>8. \A i \in 1 .. LocalTreeCount : all[Len(all) - LocalTreeCount + i] = b[i]
  BY <1>5, <1>7
<1>9. /\ Len(all) - LocalTreeCount >= 0
      /\ \A i \in 1 .. LocalTreeCount :
           /\ all[Len(all) - LocalTreeCount + i].slotIndex = i - 1
           /\ all[Len(all) - LocalTreeCount + i].round = c.round
           /\ all[Len(all) - LocalTreeCount + i].batchEnd = (i = LocalTreeCount)
  <2>1. Len(all) - LocalTreeCount >= 0
    BY <1>7
  <2> QED
    BY <1>6, <1>8, <2>1, Zenon
<1> QED
  BY <1>9 DEF EndsWithBatch, all, b

LEMMA BatchInductive ==
  ASSUME FirstSampleTaken
  PROVE  /\ Init => BatchInv
         /\ BatchInv /\ [AtLeastOnceNext]_vars => BatchInv'
<1>1. Init => BatchInv
  BY StreamInductive, PauseInductive DEF Init, BatchInv, SubtaskBatch
<1>2. BatchInv /\ [AtLeastOnceNext]_vars => BatchInv'
  <2> SUFFICES ASSUME BatchInv, [AtLeastOnceNext]_vars PROVE BatchInv'
    OBVIOUS
  <2>0. StreamInv' /\ PauseInv' /\ TypeOK /\ TypeOK'
    BY StreamInductive, PauseInductive DEF BatchInv, StreamInv
  <2>1. ASSUME UNCHANGED <<subState, ringBuffer, treeOutput, currentRoundId>>
        PROVE  BatchInv'
    BY <2>0, <2>1 DEF BatchInv, SubtaskBatch
  \* A step that leaves a subtask in STABLE and the others as they are.
  <2>2. ASSUME NEW s \in Subtasks, subState'[s] = "STABLE",
               \A t \in Subtasks \ {s} :
                 /\ subState'[t] = subState[t] /\ ringBuffer'[t] = ringBuffer[t]
                 /\ treeOutput'[t] = treeOutput[t] /\ currentRoundId'[t] = currentRoundId[t]
        PROVE  BatchInv'
    BY <2>0, <2>2 DEF BatchInv, SubtaskBatch
  <2>3. ASSUME NEW s \in Subtasks, ColdStart(s) PROVE BatchInv'
    <3>1. subState[s] = "STABLE" /\ subState' = subState /\ currentRoundId' = currentRoundId
      BY <2>3 DEF ColdStart, BatchInv, StreamInv, SubtaskStream, cooldownVars
    <3>2. \A t \in Subtasks \ {s} :
            ringBuffer'[t] = ringBuffer[t] /\ treeOutput'[t] = treeOutput[t]
      BY <2>0, <2>3, ZenonT(40) DEF ColdStart, TrainIfReady, TypeOK
    <3> QED
      BY <2>2, <3>1, <3>2
  <2>4. ASSUME NEW s \in Subtasks, LeaveWaiting(s) PROVE BatchInv'
    BY <2>0, <2>2, <2>4 DEF LeaveWaiting, TypeOK
  <2>5. ASSUME NEW s \in Subtasks, NEW keep \in BOOLEAN, ScoreCooldown(s, keep)
        PROVE  BatchInv'
    <3> DEFINE c == Gathered(s, keep)
    <3>1. /\ c \in Bookkeeping /\ c.pool # <<>> /\ c.round # 0
          /\ treeOutput[s] \in Seq(ITreeMessage)
      BY <2>0, <2>5, GatheredType, GatheredNotEmpty, GatheredFacts, SubtaskTypes
      DEF ScoreCooldown, BatchInv
    <3>2. /\ ringBuffer' = [ringBuffer EXCEPT ![s] = c.pool]
          /\ currentRoundId' = [currentRoundId EXCEPT ![s] = c.round]
          /\ StayInCooldown(s, c) \/ RetrainAndEnterWaiting(s, c)
      BY <2>5 DEF ScoreCooldown
    <3> HIDE DEF c
    <3>3. CASE StayInCooldown(s, c)
      <4>1. subState' = [subState EXCEPT ![s] = "COOLDOWN"] /\ treeOutput' = treeOutput
        BY <3>3 DEF StayInCooldown
      <4> QED
        BY <2>0, <3>1, <3>2, <4>1 DEF BatchInv, SubtaskBatch, TypeOK
    <3>4. CASE RetrainAndEnterWaiting(s, c)
      <4>1. /\ subState' = [subState EXCEPT ![s] = "WAITING"]
            /\ treeOutput' = [treeOutput EXCEPT ![s] = treeOutput[s] \o Batch(s, c)]
        BY <3>4 DEF RetrainAndEnterWaiting
      <4>2. /\ subState'[s] = "WAITING" /\ currentRoundId'[s] = c.round
            /\ treeOutput'[s] = treeOutput[s] \o Batch(s, c)
        BY <2>0, <3>2, <4>1 DEF TypeOK
      <4>3. SubtaskBatch(s)'
        <5>1. EndsWithBatch(treeOutput'[s], c.round)
          BY <3>1, <4>2, BatchAtEnd
        <5> QED
          BY <4>2, <5>1 DEF SubtaskBatch
      <4>4. \A t \in Subtasks \ {s} :
              /\ subState'[t] = subState[t] /\ ringBuffer'[t] = ringBuffer[t]
              /\ treeOutput'[t] = treeOutput[t] /\ currentRoundId'[t] = currentRoundId[t]
        BY <2>0, <3>2, <4>1 DEF TypeOK
      <4>5. \A t \in Subtasks \ {s} :
              SubtaskBatch(t)' /\ (subState'[t] = "COOLDOWN" => ringBuffer'[t] # <<>>)
        BY <4>4, Zenon DEF BatchInv, SubtaskBatch
      <4> QED
        BY <2>0, <4>2, <4>3, <4>5 DEF BatchInv
    <3> QED
      BY <3>2, <3>3, <3>4
  <2>6. ASSUME NEW s \in Subtasks, ScoreStable(s) \/ ScoreWaiting(s) PROVE BatchInv'
    BY <2>1, <2>6 DEF ScoreStable, ScoreWaiting, cooldownVars
  <2>7. ASSUME NEW s \in Subtasks, FireTimer(s) PROVE BatchInv'
    <3>1. PICK t \in timers[s] : OnTimer(s, t)
      BY <2>7 DEF FireTimer
    <3>2. CASE subState[s] = "COOLDOWN" /\ IsCurrentTimer(s, t)
      <4>1. /\ subState' = [subState EXCEPT ![s] = "STABLE"]
            /\ currentRoundId' = [currentRoundId EXCEPT ![s] = 0]
            /\ ringBuffer' = ringBuffer /\ treeOutput' = treeOutput
        BY <3>1, <3>2 DEF OnTimer, AbortCooldown
      <4> QED
        BY <2>0, <2>2, <4>1 DEF TypeOK
    <3>3. CASE ~(subState[s] = "COOLDOWN" /\ IsCurrentTimer(s, t))
      BY <2>1, <3>1, <3>3 DEF OnTimer
    <3> QED
      BY <3>2, <3>3
  <2>8. CASE Tick \/ UNCHANGED vars
    BY <2>1, <2>8 DEF Tick, vars, cooldownVars
  <2>9. ASSUME NEW s \in Subtasks,
               NextForest(s) \/ ForestAgain(s) \/ NextDecision(s) \/ DecisionAgain(s)
        PROVE  BatchInv'
    BY <2>1, <2>9 DEF NextForest, ForestAgain, ReceiveForest, NextDecision, DecisionAgain,
                      ReceiveDecision, cooldownVars
  <2> QED
    BY <2>3, <2>4, <2>5, <2>6, <2>7, <2>8, <2>9
    DEF AtLeastOnceNext, Next, NextElement, ProcessElement
<1> QED
  BY <1>1, <1>2

\* A subtask waits only after its whole batch for the round went out, even
\* when a decision overtakes another and decisions or forests come again.
THEOREM BatchBeforeWaiting ==
  ASSUME FirstSampleTaken
  PROVE  AtLeastOnceSpec => []WaitingHasSentBatch
<1>1. BatchInv => WaitingHasSentBatch
  BY DEF BatchInv, SubtaskBatch, EndsWithBatch, WaitingHasSentBatch
<1> QED
  BY <1>1, BatchInductive, PTL DEF AtLeastOnceSpec

(***************************************************************************)
(* The trees of a subtask, when no decision repeats: whole rounds one      *)
(* after another, each from slot 0 on.                                     *)
(***************************************************************************)

\* What Coordinator's environment sends: later trees are of a later round or
\* of a later slot of the same round.
Before(m, n) == m.round < n.round \/ (m.round = n.round /\ m.slotIndex < n.slotIndex)
InOrder(sent) == \A j, k \in 1 .. Len(sent) : j < k => Before(sent[j], sent[k])

\* The trees sent are of rounds handled, and while the next batch is being
\* prepared of earlier rounds than that batch.
TreesHandled(s) ==
  \A k \in 1 .. Len(treeOutput[s]) :
    /\ treeOutput[s][k].producerSubtask = s
    /\ treeOutput[s][k].slotIndex < LocalTreeCount
    /\ treeOutput[s][k].round <= lastProcessedDecision[s]
    /\ subState[s] = "COOLDOWN" => treeOutput[s][k].round < lastProcessedDecision[s]

\* Before the first decision is handled there are the trees of Phase B only.
OnlyColdStart(s) ==
  lastProcessedDecision[s] = 0 =>
    /\ Len(treeOutput[s]) = treesProduced[s]
    /\ \A k \in 1 .. Len(treeOutput[s]) : treeOutput[s][k].slotIndex = k - 1

SubtaskTrees(s) ==
  /\ lastProcessedDecision[s] <= decision[s] /\ decision[s] <= MaxRound
  /\ forest[s] = 0 => lastProcessedDecision[s] = 0
  /\ InOrder(treeOutput[s])
  /\ TreesHandled(s)
  /\ OnlyColdStart(s)

TreesInv == PauseInv /\ \A s \in Subtasks : SubtaskTrees(s)

LEMMA SentTypes ==
  ASSUME TypeOK, NEW s \in Subtasks
  PROVE  /\ treeOutput[s] \in Seq(ITreeMessage) /\ Len(treeOutput[s]) \in Nat
         /\ \A k \in 1 .. Len(treeOutput[s]) :
              /\ treeOutput[s][k] \in ITreeMessage
              /\ treeOutput[s][k].round \in Nat /\ treeOutput[s][k].slotIndex \in Nat
              /\ treeOutput[s][k].poolSize \in Nat
<1>1. treeOutput[s] \in Seq(ITreeMessage)
  BY DEF TypeOK
<1>2. \A m \in ITreeMessage : m.round \in Nat /\ m.slotIndex \in Nat /\ m.poolSize \in Nat
  BY DEF ITreeMessage
<1> QED
  BY <1>1, <1>2

\* Trees in order after trees in order.
LEMMA ConcatInOrder ==
  ASSUME NEW old \in Seq(ITreeMessage), NEW new \in Seq(ITreeMessage),
         InOrder(old), InOrder(new),
         \A j \in 1 .. Len(old) : \A k \in 1 .. Len(new) : Before(old[j], new[k])
  PROVE  InOrder(old \o new)
<1> DEFINE all == old \o new
<1>1. /\ Len(all) = Len(old) + Len(new) /\ Len(old) \in Nat /\ Len(new) \in Nat
      /\ \A k \in 1 .. Len(all) :
           all[k] = IF k <= Len(old) THEN old[k] ELSE new[k - Len(old)]
  OBVIOUS
<1> SUFFICES ASSUME NEW j \in 1 .. Len(all), NEW k \in 1 .. Len(all), j < k
             PROVE  Before(all[j], all[k])
  BY DEF InOrder
<1> HIDE DEF all
<1>2. CASE k <= Len(old)
  <2>1. all[j] = old[j] /\ all[k] = old[k] /\ j \in 1 .. Len(old) /\ k \in 1 .. Len(old)
    BY <1>1, <1>2
  <2> QED
    BY <2>1 DEF InOrder
<1>3. CASE j <= Len(old) /\ ~(k <= Len(old))
  <2>1. /\ all[j] = old[j] /\ all[k] = new[k - Len(old)]
        /\ j \in 1 .. Len(old) /\ k - Len(old) \in 1 .. Len(new)
    BY <1>1, <1>3
  <2> QED
    BY <2>1
<1>4. CASE ~(j <= Len(old)) /\ ~(k <= Len(old))
  <2>1. /\ all[j] = new[j - Len(old)] /\ all[k] = new[k - Len(old)]
        /\ j - Len(old) \in 1 .. Len(new) /\ k - Len(old) \in 1 .. Len(new)
        /\ j - Len(old) < k - Len(old)
    BY <1>1, <1>4
  <2> QED
    BY <2>1 DEF InOrder
<1> QED
  BY <1>1, <1>2, <1>3, <1>4

\* A batch: one tree for each slot, in order, of the subtask and the round.
LEMMA BatchTrees ==
  ASSUME NEW s \in Subtasks, NEW c \in Bookkeeping, c.round # 0
  PROVE  /\ Batch(s, c) \in Seq(ITreeMessage)
         /\ InOrder(Batch(s, c))
         /\ \A k \in 1 .. Len(Batch(s, c)) :
              /\ Batch(s, c)[k].producerSubtask = s
              /\ Batch(s, c)[k].slotIndex < LocalTreeCount
              /\ Batch(s, c)[k].round = c.round
              /\ Batch(s, c)[k].poolSize = Len(c.pool)
<1>1. Batch(s, c) \in Seq(ITreeMessage)
  BY BatchType
<1>2. CASE c.pool = <<>>
  <2>1. Batch(s, c) = <<>>
    BY <1>2 DEF Batch
  <2> QED
    BY <1>1, <2>1 DEF InOrder
<1>3. CASE c.pool # <<>>
  <2>1. Batch(s, c) = [i \in 1 .. LocalTreeCount |-> Tree(s, i - 1, c.round, c.pool)]
    BY <1>3 DEF Batch
  <2>2. Len(Batch(s, c)) = LocalTreeCount /\ LocalTreeCount \in Nat
    BY <2>1, LocalProcessorAssumption
  <2>3. \A k \in 1 .. LocalTreeCount :
          /\ Batch(s, c)[k].producerSubtask = s
          /\ Batch(s, c)[k].slotIndex = k - 1
          /\ Batch(s, c)[k].round = c.round
          /\ Batch(s, c)[k].poolSize = Len(c.pool)
    BY <2>1 DEF Tree
  <2> HIDE DEF Batch
  <2>4. InOrder(Batch(s, c))
    BY <2>2, <2>3 DEF InOrder, Before
  <2> QED
    BY <1>1, <2>2, <2>3, <2>4
<1> QED
  BY <1>2, <1>3

\* What a step of subtask s must show.
LEMMA TreesFrame ==
  ASSUME TreesInv, PauseInv', NEW s \in Subtasks, SubtaskTrees(s)',
         \A t \in Subtasks \ {s} :
           /\ forest'[t] = forest[t] /\ decision'[t] = decision[t]
           /\ lastProcessedDecision'[t] = lastProcessedDecision[t]
           /\ subState'[t] = subState[t] /\ treesProduced'[t] = treesProduced[t]
           /\ treeOutput'[t] = treeOutput[t]
  PROVE  TreesInv'
<1> SUFFICES ASSUME NEW t \in Subtasks PROVE SubtaskTrees(t)'
  BY DEF TreesInv
<1>1. CASE t = s
  BY <1>1
<1>2. CASE t # s
  <2>1. SubtaskTrees(t)
    BY DEF TreesInv
  <2> QED
    BY <1>2, <2>1 DEF SubtaskTrees, TreesHandled, OnlyColdStart
<1> QED
  BY <1>1, <1>2

\* A step that sends no tree and starts no COOLDOWN.
LEMMA NoTreeSent ==
  ASSUME TreesInv, PauseInv', NEW s \in Subtasks,
         UNCHANGED <<treeOutput, treesProduced, lastProcessedDecision>>,
         \A t \in Subtasks \ {s} : /\ subState'[t] = subState[t]
                                  /\ forest'[t] = forest[t] /\ decision'[t] = decision[t],
         subState'[s] = subState[s] \/ subState'[s] # "COOLDOWN",
         forest'[s] = forest[s] \/ forest'[s] # 0,
         decision'[s] \in Nat, decision[s] <= decision'[s], decision'[s] <= MaxRound
  PROVE  TreesInv'
<1>1. SubtaskTrees(s)
  BY DEF TreesInv
<1>2. lastProcessedDecision[s] \in Nat /\ decision[s] \in Nat
  BY SubtaskTypes DEF TreesInv, PauseInv
<1>3. SubtaskTrees(s)'
  <2>1. lastProcessedDecision[s] <= decision'[s]
    BY <1>1, <1>2 DEF SubtaskTrees
  <2>2. TreesHandled(s)'
    BY <1>1 DEF SubtaskTrees, TreesHandled
  <2>3. OnlyColdStart(s)' /\ InOrder(treeOutput'[s])
    BY <1>1 DEF SubtaskTrees, OnlyColdStart
  <2>4. forest'[s] = 0 => lastProcessedDecision[s] = 0
    BY <1>1 DEF SubtaskTrees
  <2> QED
    BY <2>1, <2>2, <2>3, <2>4 DEF SubtaskTrees
<1> QED
  BY <1>3, TreesFrame

\* The Phase B tree is the next slot of round 0.
LEMMA ColdStartTrees ==
  ASSUME TreesInv, PauseInv', NEW s \in Subtasks, ColdStart(s)
  PROVE  TreesInv'
<1> DEFINE sent == treeOutput[s]
           pool == Add(ringBuffer[s], Sample(s))
           tree == Tree(s, treesProduced[s], 0, pool)
<1>0. /\ TypeOK /\ SubtaskTrees(s) /\ lastProcessedDecision[s] = 0
      /\ subState[s] # "COOLDOWN"
  BY DEF TreesInv, PauseInv, SubtaskTrees, ColdStart, RoundKnownWhilePaused
<1>1. UNCHANGED <<forest, decision, subState, lastProcessedDecision>> /\ TrainIfReady(s)
  BY DEF ColdStart
<1>2. CASE UNCHANGED <<treeOutput, treesProduced>>
  <2>1. decision[s] \in Nat /\ decision[s] <= MaxRound
    BY <1>0, SubtaskTypes DEF SubtaskTrees
  <2> QED
    BY <1>1, <1>2, <2>1, NoTreeSent
<1>3. CASE ~UNCHANGED <<treeOutput, treesProduced>>
  <2>1. /\ treesProduced[s] < LocalTreeCount
        /\ treeOutput' = [treeOutput EXCEPT ![s] = Append(sent, tree)]
        /\ treesProduced' = [treesProduced EXCEPT ![s] = treesProduced[s] + 1]
    BY <1>1, <1>3 DEF TrainIfReady, phaseBVars
  <2>2. /\ treeOutput'[s] = Append(sent, tree)
        /\ treesProduced'[s] = treesProduced[s] + 1 /\ treesProduced[s] \in Nat
        /\ \A t \in Subtasks \ {s} :
             treeOutput'[t] = treeOutput[t] /\ treesProduced'[t] = treesProduced[t]
    BY <1>0, <2>1, LocalProcessorAssumption DEF TypeOK
  <2>3. tree \in ITreeMessage /\ sent \in Seq(ITreeMessage)
    <3>1. pool \in Pools
      BY <1>0, SubtaskTypes, AddInPools
    <3> QED
      BY <1>0, <2>2, <3>1, TreeType, SubtaskTypes
  <2>4. /\ Len(sent) = treesProduced[s]
        /\ \A k \in 1 .. Len(sent) :
             /\ sent[k].slotIndex = k - 1 /\ sent[k].round = 0
             /\ sent[k].producerSubtask = s /\ sent[k].slotIndex < LocalTreeCount
    <3>1. \A k \in 1 .. Len(treeOutput[s]) : treeOutput[s][k].round \in Nat
      BY <1>0, SentTypes
    <3>2. OnlyColdStart(s) /\ TreesHandled(s)
      BY <1>0 DEF SubtaskTrees
    <3>3. \A k \in 1 .. Len(treeOutput[s]) : treeOutput[s][k].round = 0
      BY <1>0, <3>1, <3>2 DEF TreesHandled
    <3> QED
      BY <1>0, <3>2, <3>3 DEF OnlyColdStart, TreesHandled
  <2>5. tree.slotIndex = treesProduced[s] /\ tree.round = 0 /\ tree.producerSubtask = s
    BY DEF Tree
  <2> HIDE DEF tree, sent
  <2>6. /\ Len(Append(sent, tree)) = treesProduced[s] + 1
        /\ \A k \in 1 .. Len(Append(sent, tree)) :
             /\ Append(sent, tree)[k].slotIndex = k - 1
             /\ Append(sent, tree)[k].round = 0
             /\ Append(sent, tree)[k].producerSubtask = s
             /\ Append(sent, tree)[k].slotIndex < LocalTreeCount
    <3>1. /\ Len(Append(sent, tree)) = Len(sent) + 1 /\ Len(sent) \in Nat
          /\ \A k \in 1 .. Len(sent) : Append(sent, tree)[k] = sent[k]
          /\ Append(sent, tree)[Len(sent) + 1] = tree
      BY <2>3
    <3> SUFFICES ASSUME NEW k \in 1 .. Len(sent) + 1
                 PROVE  /\ Append(sent, tree)[k].slotIndex = k - 1
                        /\ Append(sent, tree)[k].round = 0
                        /\ Append(sent, tree)[k].producerSubtask = s
                        /\ Append(sent, tree)[k].slotIndex < LocalTreeCount
      BY <2>4, <3>1
    <3>2. CASE k = Len(sent) + 1
      BY <2>1, <2>4, <2>5, <3>1, <3>2
    <3>3. CASE k \in 1 .. Len(sent)
      BY <2>4, <3>1, <3>3
    <3> QED
      BY <3>1, <3>2, <3>3
  <2>7. InOrder(Append(sent, tree))
    BY <2>2, <2>6 DEF InOrder, Before
  <2>8. SubtaskTrees(s)'
    <3>1. treeOutput'[s] = Append(sent, tree)
      BY <2>2 DEF tree, sent
    <3>2. TreesHandled(s)'
      BY <1>0, <1>1, <2>6, <3>1 DEF TreesHandled
    <3>3. OnlyColdStart(s)'
      BY <2>2, <2>6, <3>1 DEF OnlyColdStart
    <3> QED
      BY <1>0, <1>1, <2>7, <3>1, <3>2, <3>3 DEF SubtaskTrees
  <2> QED
    BY <1>1, <2>2, <2>8, TreesFrame
<1> QED
  BY <1>2, <1>3

\* The batch of a round follows trees of earlier rounds.
LEMMA CooldownTrees ==
  ASSUME TreesInv, PauseInv', NEW s \in Subtasks, NEW keep \in BOOLEAN,
         ScoreCooldown(s, keep)
  PROVE  TreesInv'
<1> DEFINE c == Gathered(s, keep)
           sent == treeOutput[s]
           handled == IF FreshDecision(s) THEN decision[s] ELSE lastProcessedDecision[s]
<1>0. TypeOK /\ SubtaskTrees(s)
  BY DEF TreesInv, PauseInv
<1>1. /\ c \in Bookkeeping /\ c.round = handled /\ c.round # 0
  BY <1>0, GatheredType, GatheredFacts DEF TreesInv, ScoreCooldown
<1>2. /\ UNCHANGED <<forest, decision, treesProduced>> /\ forest[s] # 0
      /\ lastProcessedDecision' = [lastProcessedDecision EXCEPT ![s] = handled]
      /\ StayInCooldown(s, c) \/ RetrainAndEnterWaiting(s, c)
      /\ FreshDecision(s) \/ subState[s] = "COOLDOWN"
  BY DEF ScoreCooldown, phaseBVars
<1>3. /\ lastProcessedDecision'[s] = handled
      /\ \A t \in Subtasks \ {s} : lastProcessedDecision'[t] = lastProcessedDecision[t]
  BY <1>0, <1>2 DEF TypeOK
<1>4. /\ lastProcessedDecision[s] \in Nat /\ decision[s] \in Nat
      /\ lastProcessedDecision[s] <= decision[s]
  BY <1>0, SubtaskTypes DEF SubtaskTrees
<1>5. /\ handled \in Nat /\ handled <= decision[s] /\ decision[s] <= MaxRound
      /\ \A k \in 1 .. Len(sent) : sent[k].round < handled
  <2>1. CASE FreshDecision(s)
    <3>1. lastProcessedDecision[s] < decision[s]
      BY <1>4, <2>1 DEF FreshDecision
    <3>2. \A k \in 1 .. Len(sent) :
            sent[k].round \in Nat /\ sent[k].round <= lastProcessedDecision[s]
      BY <1>0, SentTypes DEF SubtaskTrees, TreesHandled
    <3>3. handled = decision[s]
      BY <2>1
    <3> HIDE DEF handled, sent
    <3> QED
      BY <1>0, <1>4, <3>1, <3>2, <3>3 DEF SubtaskTrees
  <2>2. CASE ~FreshDecision(s)
    BY <1>0, <1>2, <1>4, <2>2 DEF SubtaskTrees, TreesHandled
  <2> QED
    BY <2>1, <2>2
<1>6. /\ sent \in Seq(ITreeMessage) /\ Len(sent) \in Nat
      /\ \A k \in 1 .. Len(sent) : sent[k].round \in Nat
  BY <1>0, SentTypes
<1>7. /\ InOrder(sent)
      /\ \A k \in 1 .. Len(sent) :
           sent[k].producerSubtask = s /\ sent[k].slotIndex < LocalTreeCount
  BY <1>0 DEF SubtaskTrees, TreesHandled
<1> HIDE DEF c, handled, sent
<1>8. CASE StayInCooldown(s, c)
  <2>1. treeOutput' = treeOutput /\ subState' = [subState EXCEPT ![s] = "COOLDOWN"]
    BY <1>8 DEF StayInCooldown
  <2>2. \A t \in Subtasks \ {s} : subState'[t] = subState[t]
    BY <1>0, <2>1 DEF TypeOK
  <2>3. treeOutput'[s] = sent
    BY <2>1 DEF sent
  <2>4. TreesHandled(s)'
    BY <1>3, <1>5, <1>6, <1>7, <2>3 DEF TreesHandled
  <2>5. SubtaskTrees(s)'
    BY <1>1, <1>2, <1>3, <1>5, <1>7, <2>3, <2>4 DEF SubtaskTrees, OnlyColdStart
  <2> QED
    BY <1>2, <1>3, <2>1, <2>2, <2>5, TreesFrame
<1>9. CASE RetrainAndEnterWaiting(s, c)
  <2>1. /\ treeOutput' = [treeOutput EXCEPT ![s] = treeOutput[s] \o Batch(s, c)]
        /\ subState' = [subState EXCEPT ![s] = "WAITING"]
    BY <1>9 DEF RetrainAndEnterWaiting
  <2>2. /\ treeOutput'[s] = sent \o Batch(s, c) /\ subState'[s] = "WAITING"
        /\ \A t \in Subtasks \ {s} :
             subState'[t] = subState[t] /\ treeOutput'[t] = treeOutput[t]
    BY <1>0, <2>1 DEF TypeOK, sent
  <2> DEFINE new == Batch(s, c)
  <2>3. /\ new \in Seq(ITreeMessage) /\ InOrder(new)
        /\ \A k \in 1 .. Len(new) :
             /\ new[k].producerSubtask = s /\ new[k].slotIndex < LocalTreeCount
             /\ new[k].round = handled
    BY <1>1, BatchTrees
  <2> HIDE DEF new
  <2>4. \A j \in 1 .. Len(sent) : \A k \in 1 .. Len(new) : Before(sent[j], new[k])
    BY <1>5, <2>3 DEF Before
  <2>5. InOrder(sent \o new)
    BY <1>6, <1>7, <2>3, <2>4, ConcatInOrder
  <2>6. \A k \in 1 .. Len(sent \o new) :
          /\ (sent \o new)[k].producerSubtask = s
          /\ (sent \o new)[k].slotIndex < LocalTreeCount
          /\ (sent \o new)[k].round <= handled
    <3> SUFFICES ASSUME NEW k \in 1 .. Len(sent \o new)
                 PROVE  /\ (sent \o new)[k].producerSubtask = s
                        /\ (sent \o new)[k].slotIndex < LocalTreeCount
                        /\ (sent \o new)[k].round <= handled
      OBVIOUS
    <3>1. /\ k \in 1 .. Len(sent) => (sent \o new)[k] = sent[k]
          /\ k \notin 1 .. Len(sent) => /\ (sent \o new)[k] = new[k - Len(sent)]
                                        /\ k - Len(sent) \in 1 .. Len(new)
      BY <1>6, <2>3
    <3>2. CASE k \in 1 .. Len(sent)
      BY <1>5, <1>6, <1>7, <3>1, <3>2
    <3>3. CASE k \notin 1 .. Len(sent)
      BY <1>5, <2>3, <3>1, <3>3
    <3> QED
      BY <3>2, <3>3
  <2>7. treeOutput'[s] = sent \o new
    BY <2>2 DEF new
  <2>8. TreesHandled(s)'
    BY <1>3, <2>2, <2>6, <2>7 DEF TreesHandled
  <2>9. SubtaskTrees(s)'
    BY <1>1, <1>2, <1>3, <1>5, <2>5, <2>7, <2>8 DEF SubtaskTrees, OnlyColdStart
  <2> QED
    BY <1>2, <1>3, <2>2, <2>9, TreesFrame
<1> QED
  BY <1>2, <1>8, <1>9

LEMMA TreesInductive ==
  /\ Init => TreesInv
  /\ TreesInv /\ [Next]_vars => TreesInv'
<1>1. Init => TreesInv
  <2> SUFFICES ASSUME Init, NEW s \in Subtasks PROVE SubtaskTrees(s)
    BY PauseInductive DEF TreesInv
  <2>1. treeOutput[s] = <<>> /\ Len(treeOutput[s]) = 0
    BY DEF Init
  <2>2. lastProcessedDecision[s] = 0 /\ decision[s] = 0 /\ treesProduced[s] = 0
    BY DEF Init
  <2> QED
    BY <2>1, <2>2, LocalProcessorAssumption
    DEF SubtaskTrees, InOrder, TreesHandled, OnlyColdStart
<1>2. TreesInv /\ [Next]_vars => TreesInv'
  <2> SUFFICES ASSUME TreesInv, [Next]_vars PROVE TreesInv'
    OBVIOUS
  <2>0. PauseInv' /\ TypeOK
    BY PauseInductive DEF TreesInv, PauseInv, AtLeastOnceNext
  <2>1. \A s \in Subtasks : decision[s] \in Nat /\ decision[s] <= MaxRound
    BY <2>0, SubtaskTypes DEF TreesInv, SubtaskTrees
  \* A step of one subtask that sends nothing and changes no broadcast value.
  <2>2. ASSUME NEW s \in Subtasks,
               UNCHANGED <<treeOutput, treesProduced, lastProcessedDecision, forest, decision>>,
               \A t \in Subtasks \ {s} : subState'[t] = subState[t],
               subState'[s] = subState[s] \/ subState'[s] # "COOLDOWN"
        PROVE  TreesInv'
    BY <2>0, <2>1, <2>2, NoTreeSent
  <2>3. ASSUME NEW s \in Subtasks, ScoreStable(s) \/ ScoreWaiting(s) PROVE TreesInv'
    BY <2>2, <2>3 DEF ScoreStable, ScoreWaiting, phaseBVars
  <2>4. ASSUME NEW s \in Subtasks, LeaveWaiting(s) PROVE TreesInv'
    BY <2>0, <2>2, <2>4 DEF LeaveWaiting, phaseBVars, TypeOK
  <2>5. ASSUME NEW s \in Subtasks, FireTimer(s) PROVE TreesInv'
    <3>1. PICK t \in timers[s] : OnTimer(s, t)
      BY <2>5 DEF FireTimer
    <3>2. UNCHANGED <<treeOutput, treesProduced, lastProcessedDecision, forest, decision>>
      BY <3>1 DEF OnTimer, phaseBVars
    <3>3. CASE subState[s] = "COOLDOWN" /\ IsCurrentTimer(s, t)
      <4>1. subState' = [subState EXCEPT ![s] = "STABLE"]
        BY <3>1, <3>3 DEF OnTimer, AbortCooldown
      <4> QED
        BY <2>0, <2>2, <3>2, <4>1 DEF TypeOK
    <3>4. CASE ~(subState[s] = "COOLDOWN" /\ IsCurrentTimer(s, t))
      BY <2>2, <3>1, <3>2, <3>4 DEF OnTimer
    <3> QED
      BY <3>3, <3>4
  <2>6. ASSUME NEW s \in Subtasks, NextForest(s) PROVE TreesInv'
    <3>1. /\ forest' = [forest EXCEPT ![s] = forest[s] + 1]
          /\ UNCHANGED <<treeOutput, treesProduced, lastProcessedDecision, subState, decision>>
      BY <2>6 DEF NextForest, ReceiveForest, phaseBVars
    <3>2. forest'[s] # 0 /\ \A t \in Subtasks \ {s} : forest'[t] = forest[t]
      BY <2>0, <3>1 DEF TypeOK
    <3> QED
      BY <2>0, <2>1, <3>1, <3>2, NoTreeSent
  <2>7. ASSUME NEW s \in Subtasks, NextDecision(s) PROVE TreesInv'
    <3>1. /\ decision' = [decision EXCEPT ![s] = decision[s] + 1] /\ decision[s] < MaxRound
          /\ UNCHANGED <<treeOutput, treesProduced, lastProcessedDecision, subState, forest>>
      BY <2>7 DEF NextDecision, ReceiveDecision, phaseBVars
    <3>2. /\ decision'[s] = decision[s] + 1
          /\ \A t \in Subtasks \ {s} : decision'[t] = decision[t]
      BY <2>0, <3>1 DEF TypeOK
    <3>3. decision'[s] \in Nat /\ decision[s] <= decision'[s] /\ decision'[s] <= MaxRound
      BY <2>1, <3>1, <3>2, LocalProcessorAssumption
    <3> QED
      BY <2>0, <3>1, <3>2, <3>3, NoTreeSent
  <2>8. CASE Tick \/ UNCHANGED vars
    <3>1. UNCHANGED <<treeOutput, treesProduced, lastProcessedDecision, subState, forest,
                      decision>>
      BY <2>8 DEF Tick, vars, phaseBVars
    <3> QED
      BY <2>0, <3>1 DEF TreesInv, SubtaskTrees, TreesHandled, OnlyColdStart
  <2> QED
    BY <2>0, <2>3, <2>4, <2>5, <2>6, <2>7, <2>8, ColdStartTrees, CooldownTrees
    DEF Next, NextElement, ProcessElement
<1> QED
  BY <1>1, <1>2

\* When no decision repeats a subtask writes its trees as Coordinator expects
\* of it: later trees are of a later round or of a later slot of the round.
TreesInOrder == \A s \in Subtasks : InOrder(treeOutput[s])
THEOREM BatchesInOrder == Spec => []TreesInOrder
<1>1. TreesInv => TreesInOrder
  BY DEF TreesInv, SubtaskTrees, TreesInOrder
<1> QED
  BY <1>1, TreesInductive, PTL DEF Spec

(***************************************************************************)
(* The pools behind the trees of two subtasks are equally large under d1a, *)
(* so that the forest's trees have one psi.                                *)
(***************************************************************************)

\* CooldownDone of a COOLDOWN that wrote all its n samples.
Enough(n) ==
  \/ n >= RingBufferSize /\ (D1aFill = "ringfull" \/ n >= CooldownSamples)
  \/ n >= 2 * CooldownSamples

\* k samples are the pool of a COOLDOWN that ended as soon as it could.
EndSize(k) ==
  \E n \in Nat : Enough(n + 1) /\ (n = 0 \/ ~Enough(n)) /\ k = Least(n + 1)

LEMMA OneEndSize ==
  ASSUME NEW j, NEW k, EndSize(j), EndSize(k)
  PROVE  j = k
<1>1. PICK m \in Nat : Enough(m + 1) /\ (m = 0 \/ ~Enough(m)) /\ j = Least(m + 1)
  BY DEF EndSize
<1>2. PICK n \in Nat : Enough(n + 1) /\ (n = 0 \/ ~Enough(n)) /\ k = Least(n + 1)
  BY DEF EndSize
<1>3. \A a, b \in Nat : a <= b /\ Enough(a) => Enough(b)
  BY LocalProcessorAssumption DEF Enough
<1>4. ~(m < n)
  <2>1. m < n => m + 1 <= n /\ n # 0 /\ m + 1 \in Nat
    OBVIOUS
  <2> QED
    BY <1>1, <1>2, <1>3, <2>1
<1>5. ~(n < m)
  <2>1. n < m => n + 1 <= m /\ m # 0 /\ n + 1 \in Nat
    OBVIOUS
  <2> QED
    BY <1>1, <1>2, <1>3, <2>1
<1>6. m = n
  BY <1>4, <1>5
<1> QED
  BY <1>1, <1>2, <1>6

SubtaskSizes(s) ==
  /\ subState[s] = "COOLDOWN" => ~Enough(cooldownN[s])
  /\ \A k \in 1 .. Len(treeOutput[s]) :
       treeOutput[s][k].round # 0 => EndSize(treeOutput[s][k].poolSize)

SizesInv == PoolInv /\ PauseInv /\ \A s \in Subtasks : SubtaskSizes(s)

\* A COOLDOWN goes on as long as its samples are not enough, and what it
\* trains on in the end has the one size.
LEMMA GatheredSize ==
  ASSUME SizesInv, D1a, NEW s \in Subtasks, NEW keep \in BOOLEAN,
         FreshDecision(s) \/ subState[s] = "COOLDOWN"
  PROVE  LET c == Gathered(s, keep)
         IN  /\ c.n \in Nat
             /\ CooldownDone(c) => EndSize(Len(c.pool))
             /\ ~CooldownDone(c) => ~Enough(c.n)
<1> DEFINE e == Entered(s)
           c == Gathered(s, keep)
<1>1. /\ TypeOK /\ arrived[s] \in Nat /\ e \in Bookkeeping /\ e.n \in Nat
  BY EnteredType, SubtaskTypes DEF SizesInv, PauseInv, Bookkeeping
<1>2. c.writes = c.n /\ c.pool = LastSamples(Sample(s), Least(c.n))
  BY GatheredPool DEF SizesInv
<1>3. c.n = e.n + 1
  BY <1>1 DEF Gathered, Bookkeeping
<1>4. e.n = 0 \/ ~Enough(e.n)
  <2>1. CASE FreshDecision(s)
    BY <2>1 DEF Entered
  <2>2. CASE ~FreshDecision(s)
    BY <2>2 DEF Entered, SizesInv, SubtaskSizes
  <2> QED
    BY <2>1, <2>2
<1> HIDE DEF e, c
<1>5. CooldownDone(c) <=> Enough(c.n)
  BY <1>2 DEF CooldownDone, Enough, D1a
<1>6. Len(c.pool) = Least(c.n)
  <2>1. Least(c.n) \in Nat
    BY <1>1, <1>3, LocalProcessorAssumption DEF Least
  <2> QED
    BY <1>2, <2>1 DEF LastSamples
<1>7. CooldownDone(c) => EndSize(Len(c.pool))
  BY <1>1, <1>3, <1>4, <1>5, <1>6 DEF EndSize
<1> QED
  BY <1>1, <1>3, <1>5, <1>7 DEF c

LEMMA SizesInductive ==
  ASSUME D1a
  PROVE  /\ Init => SizesInv
         /\ SizesInv /\ [AtLeastOnceNext]_vars => SizesInv'
<1>1. Init => SizesInv
  <2> SUFFICES ASSUME Init, NEW s \in Subtasks PROVE SubtaskSizes(s)
    BY PauseInductive, PoolInductive DEF SizesInv
  <2>1. treeOutput[s] = <<>> /\ Len(treeOutput[s]) = 0 /\ subState[s] = "STABLE"
    BY DEF Init
  <2> QED
    BY <2>1 DEF SubtaskSizes
<1>2. SizesInv /\ [AtLeastOnceNext]_vars => SizesInv'
  <2> SUFFICES ASSUME SizesInv, [AtLeastOnceNext]_vars PROVE SizesInv'
    OBVIOUS
  <2>0. PoolInv' /\ PauseInv' /\ TypeOK
    BY PoolInductive, PauseInductive DEF SizesInv, PauseInv
  <2>1. ASSUME UNCHANGED <<subState, cooldownN, treeOutput>> PROVE SizesInv'
    BY <2>0, <2>1 DEF SizesInv, SubtaskSizes
  \* A step of subtask s leaves the others as they are.
  <2>2. ASSUME NEW s \in Subtasks, SubtaskSizes(s)',
               \A t \in Subtasks \ {s} :
                 /\ subState'[t] = subState[t] /\ cooldownN'[t] = cooldownN[t]
                 /\ treeOutput'[t] = treeOutput[t]
        PROVE  SizesInv'
    <3> SUFFICES ASSUME NEW t \in Subtasks PROVE SubtaskSizes(t)'
      BY <2>0 DEF SizesInv
    <3>1. CASE t = s
      BY <2>2, <3>1
    <3>2. CASE t # s
      BY <2>2, <3>2 DEF SizesInv, SubtaskSizes
    <3> QED
      BY <3>1, <3>2
  <2>3. ASSUME NEW s \in Subtasks, ColdStart(s) PROVE SizesInv'
    <3>1. UNCHANGED <<subState, cooldownN>> /\ TrainIfReady(s)
      BY <2>3 DEF ColdStart, cooldownVars
    <3>2. \/ treeOutput' = treeOutput
          \/ \E m : m.round = 0 /\ treeOutput' = [treeOutput EXCEPT ![s] = Append(treeOutput[s], m)]
      BY <3>1 DEF TrainIfReady, Tree
    <3>3. ASSUME NEW m, m.round = 0,
                 treeOutput' = [treeOutput EXCEPT ![s] = Append(treeOutput[s], m)]
          PROVE  SizesInv'
      <4>1. /\ treeOutput'[s] = Append(treeOutput[s], m)
            /\ \A t \in Subtasks \ {s} : treeOutput'[t] = treeOutput[t]
        BY <2>0, <3>3 DEF TypeOK
      <4>2. /\ Len(treeOutput'[s]) = Len(treeOutput[s]) + 1 /\ Len(treeOutput[s]) \in Nat
            /\ \A k \in 1 .. Len(treeOutput[s]) : treeOutput'[s][k] = treeOutput[s][k]
            /\ treeOutput'[s][Len(treeOutput[s]) + 1] = m
        BY <2>0, <4>1, SMTT(30) DEF TypeOK
      <4>3. ASSUME NEW k \in 1 .. Len(treeOutput'[s]), treeOutput'[s][k].round # 0
            PROVE  k \in 1 .. Len(treeOutput[s])
        BY <3>3, <4>2, <4>3
      <4>4. SubtaskSizes(s)'
        BY <3>1, <4>2, <4>3 DEF SizesInv, SubtaskSizes
      <4> QED
        BY <2>2, <3>1, <4>1, <4>4
    <3> QED
      BY <2>1, <3>1, <3>2, <3>3
  <2>4. ASSUME NEW s \in Subtasks, treeOutput' = treeOutput, subState'[s] # "COOLDOWN",
               \A t \in Subtasks \ {s} :
                 subState'[t] = subState[t] /\ cooldownN'[t] = cooldownN[t]
        PROVE  SizesInv'
    BY <2>2, <2>4 DEF SizesInv, SubtaskSizes
  <2>5. ASSUME NEW s \in Subtasks, LeaveWaiting(s) PROVE SizesInv'
    BY <2>0, <2>4, <2>5 DEF LeaveWaiting, TypeOK
  <2>6. ASSUME NEW s \in Subtasks, NEW keep \in BOOLEAN, ScoreCooldown(s, keep)
        PROVE  SizesInv'
    <3> DEFINE c == Gathered(s, keep)
    <3>1. /\ CooldownDone(c) => EndSize(Len(c.pool))
          /\ ~CooldownDone(c) => ~Enough(c.n)
      BY <2>6, GatheredSize DEF ScoreCooldown
    <3>2. c \in Bookkeeping /\ c.round # 0
      BY <2>0, <2>6, GatheredType, GatheredFacts DEF SizesInv, ScoreCooldown
    <3>3. StayInCooldown(s, c) \/ RetrainAndEnterWaiting(s, c)
      BY <2>6 DEF ScoreCooldown
    <3> HIDE DEF c
    <3>4. CASE StayInCooldown(s, c)
      <4>1. /\ subState' = [subState EXCEPT ![s] = "COOLDOWN"]
            /\ cooldownN' = [cooldownN EXCEPT ![s] = c.n]
            /\ treeOutput' = treeOutput /\ ~CooldownDone(c)
        BY <3>4 DEF StayInCooldown
      <4>2. /\ cooldownN'[s] = c.n
            /\ \A t \in Subtasks \ {s} :
                 subState'[t] = subState[t] /\ cooldownN'[t] = cooldownN[t]
        BY <2>0, <4>1 DEF TypeOK
      <4>3. SubtaskSizes(s)'
        BY <3>1, <4>1, <4>2 DEF SizesInv, SubtaskSizes
      <4> QED
        BY <2>2, <4>1, <4>2, <4>3
    <3>5. CASE RetrainAndEnterWaiting(s, c)
      <4> DEFINE new == Batch(s, c)
                 sent == treeOutput[s]
      <4>1. /\ subState' = [subState EXCEPT ![s] = "WAITING"]
            /\ cooldownN' = [cooldownN EXCEPT ![s] = 0]
            /\ treeOutput' = [treeOutput EXCEPT ![s] = sent \o new] /\ CooldownDone(c)
        BY <3>5 DEF RetrainAndEnterWaiting
      <4>2. /\ new \in Seq(ITreeMessage)
            /\ \A k \in 1 .. Len(new) : new[k].poolSize = Len(c.pool)
        BY <3>2, BatchTrees
      <4>3. /\ sent \in Seq(ITreeMessage)
            /\ \A k \in 1 .. Len(sent) : sent[k].round # 0 => EndSize(sent[k].poolSize)
        BY <2>0, SentTypes DEF SizesInv, SubtaskSizes
      <4> HIDE DEF new
      <4>4. /\ treeOutput'[s] = sent \o new /\ subState'[s] = "WAITING"
            /\ \A t \in Subtasks \ {s} :
                 /\ subState'[t] = subState[t] /\ cooldownN'[t] = cooldownN[t]
                 /\ treeOutput'[t] = treeOutput[t]
        BY <2>0, <4>1 DEF TypeOK
      <4> HIDE DEF sent
      <4>5. ASSUME NEW k \in 1 .. Len(sent \o new), (sent \o new)[k].round # 0
            PROVE  EndSize((sent \o new)[k].poolSize)
        <5>1. /\ k \in 1 .. Len(sent) => (sent \o new)[k] = sent[k]
              /\ k \notin 1 .. Len(sent) => /\ (sent \o new)[k] = new[k - Len(sent)]
                                            /\ k - Len(sent) \in 1 .. Len(new)
          BY <4>2, <4>3
        <5>2. CASE k \in 1 .. Len(sent)
          BY <4>3, <4>5, <5>1, <5>2
        <5>3. CASE k \notin 1 .. Len(sent)
          BY <3>1, <4>1, <4>2, <5>1, <5>3
        <5> QED
          BY <5>2, <5>3
      <4>6. SubtaskSizes(s)'
        BY <4>4, <4>5 DEF SubtaskSizes
      <4> QED
        BY <2>2, <4>4, <4>6
    <3> QED
      BY <3>3, <3>4, <3>5
  <2>7. ASSUME NEW s \in Subtasks, ScoreStable(s) \/ ScoreWaiting(s) PROVE SizesInv'
    BY <2>1, <2>7 DEF ScoreStable, ScoreWaiting, cooldownVars
  <2>8. ASSUME NEW s \in Subtasks, FireTimer(s) PROVE SizesInv'
    <3>1. PICK t \in timers[s] : OnTimer(s, t)
      BY <2>8 DEF FireTimer
    <3>2. CASE subState[s] = "COOLDOWN" /\ IsCurrentTimer(s, t)
      <4>1. /\ subState' = [subState EXCEPT ![s] = "STABLE"]
            /\ cooldownN' = [cooldownN EXCEPT ![s] = 0] /\ treeOutput' = treeOutput
        BY <3>1, <3>2 DEF OnTimer, AbortCooldown
      <4> QED
        BY <2>0, <2>4, <4>1 DEF TypeOK
    <3>3. CASE ~(subState[s] = "COOLDOWN" /\ IsCurrentTimer(s, t))
      BY <2>1, <3>1, <3>3 DEF OnTimer
    <3> QED
      BY <3>2, <3>3
  <2>9. CASE Tick \/ UNCHANGED vars
    BY <2>1, <2>9 DEF Tick, vars, cooldownVars
  <2>10. ASSUME NEW s \in Subtasks,
                NextForest(s) \/ ForestAgain(s) \/ NextDecision(s) \/ DecisionAgain(s)
         PROVE  SizesInv'
    BY <2>1, <2>10 DEF NextForest, ForestAgain, ReceiveForest, NextDecision, DecisionAgain,
                       ReceiveDecision, cooldownVars
  <2> QED
    BY <2>3, <2>5, <2>6, <2>7, <2>8, <2>9, <2>10
    DEF AtLeastOnceNext, Next, NextElement, ProcessElement
<1> QED
  BY <1>1, <1>2

(***************************************************************************)
(* What the other operators see of a step.                                 *)
(***************************************************************************)

\* Only the broadcast elements change the broadcast state.
LEMMA LocalStep ==
  ASSUME Tick \/ \E s \in Subtasks : NextElement(s) \/ FireTimer(s)
  PROVE  UNCHANGED <<forest, decision>>
<1>1. \A s \in Subtasks : ProcessElement(s) => UNCHANGED <<forest, decision>>
  BY DEF ProcessElement, ColdStart, ScoreStable, ScoreCooldown, ScoreWaiting, LeaveWaiting
<1>2. \A s \in Subtasks : FireTimer(s) => UNCHANGED <<forest, decision>>
  BY DEF FireTimer, OnTimer
<1> QED
  BY <1>1, <1>2 DEF NextElement, Tick

\* A tree sent stays sent.
LEMMA TreesGrow ==
  ASSUME PauseInv, [AtLeastOnceNext]_vars, NEW u \in Subtasks
  PROVE  /\ Len(treeOutput[u]) <= Len(treeOutput'[u])
         /\ Len(treeOutput[u]) \in Nat /\ Len(treeOutput'[u]) \in Nat
         /\ \A k \in 1 .. Len(treeOutput[u]) : treeOutput'[u][k] = treeOutput[u][k]
<1>0. TypeOK
  BY DEF PauseInv
<1>1. treeOutput[u] \in Seq(ITreeMessage) /\ Len(treeOutput[u]) \in Nat
  BY <1>0, SentTypes
<1>2. CASE treeOutput'[u] = treeOutput[u]
  BY <1>1, <1>2
<1>3. ASSUME NEW new \in Seq(ITreeMessage), treeOutput'[u] = treeOutput[u] \o new
      PROVE  /\ Len(treeOutput[u]) <= Len(treeOutput'[u]) /\ Len(treeOutput'[u]) \in Nat
             /\ \A k \in 1 .. Len(treeOutput[u]) : treeOutput'[u][k] = treeOutput[u][k]
  <2>1. Len(new) \in Nat /\ Len(treeOutput[u] \o new) = Len(treeOutput[u]) + Len(new)
    BY <1>1
  <2>2. \A k \in 1 .. Len(treeOutput[u]) : (treeOutput[u] \o new)[k] = treeOutput[u][k]
    BY <1>1, <2>1
  <2> QED
    BY <1>1, <1>3, <2>1, <2>2
<1>4. ASSUME NEW m, treeOutput'[u] = Append(treeOutput[u], m)
      PROVE  /\ Len(treeOutput[u]) <= Len(treeOutput'[u]) /\ Len(treeOutput'[u]) \in Nat
             /\ \A k \in 1 .. Len(treeOutput[u]) : treeOutput'[u][k] = treeOutput[u][k]
  BY <1>1, <1>4
<1>5. ASSUME NEW s \in Subtasks, ProcessElement(s)
      PROVE  \/ treeOutput'[u] = treeOutput[u]
             \/ \E m : treeOutput'[u] = Append(treeOutput[u], m)
             \/ \E new \in Seq(ITreeMessage) : treeOutput'[u] = treeOutput[u] \o new
  <2>1. CASE ColdStart(s)
    <3>1. \/ treeOutput' = treeOutput
          \/ \E m : treeOutput' = [treeOutput EXCEPT ![s] = Append(treeOutput[s], m)]
      BY <2>1 DEF ColdStart, TrainIfReady
    <3>2. treeOutput \in [Subtasks -> Seq(ITreeMessage)]
      BY <1>0 DEF TypeOK
    <3>3. ASSUME NEW m, treeOutput' = [treeOutput EXCEPT ![s] = Append(treeOutput[s], m)]
          PROVE  treeOutput'[u] = treeOutput[u] \/ treeOutput'[u] = Append(treeOutput[u], m)
      BY <3>2, <3>3
    <3> QED
      BY <3>1, <3>3
  <2>2. ASSUME NEW keep \in BOOLEAN, ScoreCooldown(s, keep)
        PROVE  \/ treeOutput'[u] = treeOutput[u]
               \/ \E new \in Seq(ITreeMessage) : treeOutput'[u] = treeOutput[u] \o new
    <3> DEFINE c == Gathered(s, keep)
    <3>1. Batch(s, c) \in Seq(ITreeMessage)
      BY <1>0, GatheredType, BatchType
    <3>2. \/ treeOutput' = treeOutput
          \/ treeOutput' = [treeOutput EXCEPT ![s] = treeOutput[s] \o Batch(s, c)]
      BY <2>2 DEF ScoreCooldown, StayInCooldown, RetrainAndEnterWaiting
    <3> HIDE DEF c
    <3> QED
      BY <1>0, <3>1, <3>2 DEF TypeOK
  <2>3. CASE ScoreStable(s) \/ ScoreWaiting(s) \/ LeaveWaiting(s)
    BY <2>3 DEF ScoreStable, ScoreWaiting, LeaveWaiting
  <2> QED
    BY <1>5, <2>1, <2>2, <2>3 DEF ProcessElement
<1>6. ASSUME ~ \E s \in Subtasks : ProcessElement(s) PROVE treeOutput' = treeOutput
  BY <1>6 DEF AtLeastOnceNext, Next, NextElement, FireTimer, OnTimer, Tick, NextForest,
              ForestAgain, ReceiveForest, NextDecision, DecisionAgain, ReceiveDecision, vars
<1> QED
  BY <1>1, <1>2, <1>3, <1>4, <1>5, <1>6

\* A subtask that waits after a step waited before it, or has just sent the
\* batch of the round at hand, later than those handled before.
LEMMA WaitingSteps ==
  ASSUME TreesInv, [Next]_vars, NEW s \in Subtasks, subState'[s] = "WAITING"
  PROVE  \/ /\ subState[s] = "WAITING"
            /\ waitingForVersion'[s] = waitingForVersion[s]
            /\ currentRoundId'[s] = currentRoundId[s]
            /\ forest[s] <= forest'[s]
         \/ /\ waitingForVersion'[s] = forest[s] /\ forest'[s] = forest[s]
            /\ \/ lastProcessedDecision[s] < currentRoundId'[s]
               \/ /\ subState[s] = "COOLDOWN"
                  /\ currentRoundId'[s] = lastProcessedDecision[s]
<1>0. TypeOK /\ SubtaskTrees(s) /\ PauseInv
  BY DEF TreesInv, PauseInv
<1>1. /\ forest[s] \in Nat /\ decision[s] \in Nat /\ lastProcessedDecision[s] \in Nat
      /\ forest[s] <= forest[s] /\ lastProcessedDecision[s] <= decision[s]
  BY <1>0, SubtaskTypes DEF SubtaskTrees
<1>2. ASSUME forest'[s] = forest[s], subState'[s] = subState[s],
             waitingForVersion'[s] = waitingForVersion[s],
             currentRoundId'[s] = currentRoundId[s]
      PROVE  /\ subState[s] = "WAITING"
             /\ waitingForVersion'[s] = waitingForVersion[s]
             /\ currentRoundId'[s] = currentRoundId[s]
             /\ forest[s] <= forest'[s]
  BY <1>1, <1>2
<1>3. ASSUME NEW u \in Subtasks, NEW keep \in BOOLEAN, ScoreCooldown(u, keep)
      PROVE  \/ /\ waitingForVersion'[s] = forest[s] /\ forest'[s] = forest[s]
                /\ \/ lastProcessedDecision[s] < currentRoundId'[s]
                   \/ /\ subState[s] = "COOLDOWN"
                      /\ currentRoundId'[s] = lastProcessedDecision[s]
             \/ /\ forest'[s] = forest[s] /\ subState'[s] = subState[s]
                /\ waitingForVersion'[s] = waitingForVersion[s]
                /\ currentRoundId'[s] = currentRoundId[s]
  <2> DEFINE c == Gathered(u, keep)
  <2>1. /\ forest' = forest /\ currentRoundId' = [currentRoundId EXCEPT ![u] = c.round]
        /\ FreshDecision(u) \/ subState[u] = "COOLDOWN"
        /\ StayInCooldown(u, c) \/ RetrainAndEnterWaiting(u, c)
    BY <1>3 DEF ScoreCooldown
  <2>2. c.round = IF FreshDecision(u) THEN decision[u] ELSE lastProcessedDecision[u]
    BY <1>0, <2>1, GatheredFacts
  <2> HIDE DEF c
  <2>3. CASE u # s
    BY <1>0, <2>1, <2>3, ZenonT(40) DEF StayInCooldown, RetrainAndEnterWaiting, TypeOK
  <2>4. CASE u = s
    <3>1. ~StayInCooldown(s, c)
      BY <1>0 DEF StayInCooldown, TypeOK
    <3>2. waitingForVersion'[s] = forest[s]
      BY <1>0, <2>1, <2>4, <3>1 DEF RetrainAndEnterWaiting, VersionToPass, TypeOK
    <3>3. currentRoundId'[s] = c.round
      BY <1>0, <2>1, <2>4 DEF TypeOK
    <3>4. FreshDecision(s) => lastProcessedDecision[s] < decision[s]
      BY <1>1 DEF FreshDecision
    <3> QED
      BY <2>1, <2>2, <2>4, <3>2, <3>3, <3>4
  <2> QED
    BY <2>3, <2>4
<1>4. ASSUME NEW u \in Subtasks, ColdStart(u) \/ ScoreStable(u) \/ ScoreWaiting(u)
      PROVE  UNCHANGED <<forest, subState, waitingForVersion, currentRoundId>>
  BY <1>4 DEF ColdStart, ScoreStable, ScoreWaiting, cooldownVars
<1>5. ASSUME NEW u \in Subtasks, LeaveWaiting(u)
      PROVE  /\ forest'[s] = forest[s] /\ subState'[s] = subState[s]
             /\ waitingForVersion'[s] = waitingForVersion[s]
             /\ currentRoundId'[s] = currentRoundId[s]
  BY <1>0, <1>5 DEF LeaveWaiting, TypeOK
<1>6. ASSUME NEW u \in Subtasks, FireTimer(u)
      PROVE  /\ forest'[s] = forest[s] /\ subState'[s] = subState[s]
             /\ waitingForVersion'[s] = waitingForVersion[s]
             /\ currentRoundId'[s] = currentRoundId[s]
  <2>1. PICK t \in timers[u] : OnTimer(u, t)
    BY <1>6 DEF FireTimer
  <2>2. forest' = forest /\ waitingForVersion' = waitingForVersion
    BY <2>1 DEF OnTimer
  <2>3. CASE subState[u] = "COOLDOWN" /\ IsCurrentTimer(u, t)
    <3>1. /\ subState' = [subState EXCEPT ![u] = "STABLE"]
          /\ currentRoundId' = [currentRoundId EXCEPT ![u] = 0]
      BY <2>1, <2>3 DEF OnTimer, AbortCooldown
    <3> QED
      BY <1>0, <2>2, <3>1 DEF TypeOK
  <2>4. CASE ~(subState[u] = "COOLDOWN" /\ IsCurrentTimer(u, t))
    BY <2>1, <2>2, <2>4 DEF OnTimer
  <2> QED
    BY <2>3, <2>4
<1>7. ASSUME NEW u \in Subtasks, NextForest(u)
      PROVE  /\ UNCHANGED <<subState, waitingForVersion, currentRoundId>>
             /\ forest[s] <= forest'[s]
  <2>1. /\ UNCHANGED <<subState, waitingForVersion, currentRoundId>>
        /\ forest' = [forest EXCEPT ![u] = forest[u] + 1]
    BY <1>7 DEF NextForest, ReceiveForest, cooldownVars
  <2>2. forest'[s] = forest[s] \/ forest'[s] = forest[s] + 1
    BY <1>0, <2>1 DEF TypeOK
  <2> QED
    BY <1>1, <2>1, <2>2
<1>8. ASSUME Tick \/ UNCHANGED vars \/ \E u \in Subtasks : NextDecision(u)
      PROVE  UNCHANGED <<forest, subState, waitingForVersion, currentRoundId>>
  BY <1>8 DEF Tick, vars, NextDecision, ReceiveDecision, cooldownVars
<1> QED
  BY <1>2, <1>3, <1>4, <1>5, <1>6, <1>7, <1>8 DEF Next, NextElement, ProcessElement
=============================================================================
