-------------------------- MODULE RetrainingProofs --------------------------
(***************************************************************************)
(* Proofs about Retraining: each subtask behaves as LocalProcessor says,   *)
(* the coordinator gets its trees as Coordinator assumes, and the two      *)
(* together neither publish a forest too early nor hang.  At the end, that *)
(* RingBuffer implements the training pool that the subtasks use.          *)
(***************************************************************************)
EXTENDS Retraining, RingBuffer, FiniteSetTheorems, SequenceTheorems, TLAPS

P == INSTANCE LocalProcessorProofs

\* The environment of Coordinator is not used: its batches stay as they are.
Idle == [s \in 0 .. Parallelism - 1 |-> [round |-> 0, next |-> 0, size |-> 0]]
Q == INSTANCE CoordinatorProofs WITH
       batch <- Idle, saved <- Idle, restarts <- 0, MaxRestarts <- 0

LEMMA Assumptions ==
  /\ P!LocalProcessorAssumption
  /\ Q!CoordinatorAssumption
  /\ SubsampleSize \in Nat \ {0}
<1> QED
  BY RetrainingAssumption
  DEF C!CoordinatorAssumption, LP!LocalProcessorAssumption, P!LocalProcessorAssumption,
      Q!CoordinatorAssumption

(***************************************************************************)
(* The two instances of each module say the same.                          *)
(***************************************************************************)
LEMMA SameInit == LP!Init <=> P!Init
  BY DEF LP!Init, P!Init

LEMMA SameReceipt ==
  ASSUME NEW s \in Subtasks
  PROVE  /\ \A v : LP!ReceiveForest(s, v) <=> P!ReceiveForest(s, v)
         /\ \A r : LP!ReceiveDecision(s, r) <=> P!ReceiveDecision(s, r)
         /\ LP!Tick <=> P!Tick
  BY DEF LP!ReceiveForest, P!ReceiveForest, LP!ReceiveDecision, P!ReceiveDecision,
         LP!Tick, P!Tick, LP!streamVars, P!streamVars, LP!phaseBVars, P!phaseBVars,
         LP!cooldownVars, P!cooldownVars

LEMMA SameTimer ==
  ASSUME NEW s \in Subtasks, LP!FireTimer(s)
  PROVE  P!FireTimer(s)
  BY DEF LP!FireTimer, P!FireTimer, LP!OnTimer, P!OnTimer, LP!IsCurrentTimer,
         P!IsCurrentTimer, LP!AbortCooldown, P!AbortCooldown, LP!DrainBacklog,
         P!DrainBacklog, LP!BacklogMode, P!BacklogMode, LP!phaseBVars, P!phaseBVars

LEMMA SamePause ==
  ASSUME NEW s \in Subtasks
  PROVE  /\ LP!Sample(s) = P!Sample(s)
         /\ LP!Scored(s) = P!Scored(s)
         /\ LP!PutOff(s) = P!PutOff(s)
         /\ LP!FreshDecision(s) <=> P!FreshDecision(s)
         /\ LP!Pause(s) <=> P!Pause(s)
  BY DEF LP!Sample, P!Sample, LP!Scored, P!Scored, LP!PutOff, P!PutOff,
         LP!FreshDecision, P!FreshDecision, LP!Pause, P!Pause, LP!BacklogMode, P!BacklogMode

LEMMA SameColdStart ==
  ASSUME NEW s \in Subtasks, LP!ColdStart(s)
  PROVE  P!ColdStart(s)
<1>1. \A ring, x : LP!Add(ring, x) = P!Add(ring, x)
  BY DEF LP!Add, P!Add
<1>2. \A u, slot, round, pool : LP!Tree(u, slot, round, pool) = P!Tree(u, slot, round, pool)
  BY DEF LP!Tree, P!Tree
<1>3. LP!TrainIfReady(s) => P!TrainIfReady(s)
  BY SamePause, <1>1, <1>2, Zenon
  DEF LP!TrainIfReady, P!TrainIfReady, LP!phaseBVars, P!phaseBVars
<1> QED
  BY SamePause, <1>3 DEF LP!ColdStart, P!ColdStart, LP!cooldownVars, P!cooldownVars

LEMMA SameCooldown ==
  ASSUME NEW s \in Subtasks, NEW keep \in BOOLEAN, LP!ScoreCooldown(s, keep)
  PROVE  P!ScoreCooldown(s, keep)
<1>1. LP!Entered(s) = P!Entered(s)
  BY DEF LP!Entered, P!Entered, LP!FreshDecision, P!FreshDecision, LP!Registered,
         P!Registered, LP!InitialPool, P!InitialPool, LP!D1a, P!D1a
<1>2. LP!Gathered(s, keep) = P!Gathered(s, keep)
  BY <1>1 DEF LP!Gathered, P!Gathered, LP!D1a, P!D1a, LP!Add, P!Add, LP!Sample, P!Sample
<1> DEFINE c == P!Gathered(s, keep)
<1>3. LP!CooldownDone(c) <=> P!CooldownDone(c)
  BY DEF LP!CooldownDone, P!CooldownDone, LP!D1a, P!D1a
<1>4. LP!Batch(s, c) = P!Batch(s, c)
  BY DEF LP!Batch, P!Batch, LP!Tree, P!Tree
<1> HIDE DEF c
<1>5. LP!StayInCooldown(s, c) => P!StayInCooldown(s, c)
  BY <1>3 DEF LP!StayInCooldown, P!StayInCooldown
<1>6. LP!RetrainAndEnterWaiting(s, c) => P!RetrainAndEnterWaiting(s, c)
  BY <1>3, <1>4 DEF LP!RetrainAndEnterWaiting, P!RetrainAndEnterWaiting, LP!VersionToPass,
                    P!VersionToPass
<1>7. c = LP!Gathered(s, keep) /\ c = P!Gathered(s, keep)
  BY <1>2 DEF c
<1> QED
  BY SamePause, <1>5, <1>6, <1>7, Zenon
  DEF LP!ScoreCooldown, P!ScoreCooldown, LP!phaseBVars, P!phaseBVars

LEMMA SameElement ==
  ASSUME NEW s \in Subtasks, LP!NextElement(s)
  PROVE  P!NextElement(s)
<1>1. LP!ScoreStable(s) => P!ScoreStable(s)
  BY SamePause DEF LP!ScoreStable, P!ScoreStable, LP!phaseBVars, P!phaseBVars,
     LP!cooldownVars, P!cooldownVars
<1>2. LP!ScoreWaiting(s) => P!ScoreWaiting(s)
  BY SamePause DEF LP!ScoreWaiting, P!ScoreWaiting, LP!phaseBVars, P!phaseBVars,
     LP!cooldownVars, P!cooldownVars
<1>3. LP!LeaveWaiting(s) => P!LeaveWaiting(s)
  BY SamePause DEF LP!LeaveWaiting, P!LeaveWaiting, LP!phaseBVars, P!phaseBVars,
     LP!BacklogMode, P!BacklogMode
<1> QED
  BY <1>1, <1>2, <1>3, SameColdStart, SameCooldown
  DEF LP!NextElement, P!NextElement, LP!ProcessElement, P!ProcessElement

LEMMA SameAssembly ==
  ASSUME NEW m
  PROVE  /\ C!InBounds(m) <=> Q!InBounds(m)
         /\ C!Store(m) = Q!Store(m)
         /\ C!ProcessElement(m) => Q!ProcessElement(m)
<1>1. C!InBounds(m) <=> Q!InBounds(m)
  BY DEF C!InBounds, Q!InBounds, C!Subtasks, Q!Subtasks, C!Slots, Q!Slots, C!LocalTreeCount,
         Q!LocalTreeCount
<1>2. C!Store(m) = Q!Store(m)
  BY DEF C!Store, Q!Store
<1>3. \A g : /\ C!Full(g) <=> Q!Full(g)
             /\ C!Uniform(g) <=> Q!Uniform(g)
  BY DEF C!Full, Q!Full, C!Uniform, Q!Uniform, C!Grid, Q!Grid, C!Subtasks, Q!Subtasks,
         C!Slots, Q!Slots, C!LocalTreeCount, Q!LocalTreeCount
<1>4. \A v, g, n : C!Forest(v, g, n) = Q!Forest(v, g, n)
  BY DEF C!Forest, Q!Forest
<1>5. C!Skip(m) => Q!Skip(m)
  BY <1>1 DEF C!Skip, Q!Skip, C!coordinatorVars, Q!coordinatorVars
<1>6. C!Collect(m) => Q!Collect(m)
  BY <1>1, <1>2, <1>3, Zenon DEF C!Collect, Q!Collect
<1>7. C!Refuse(m) => Q!Refuse(m)
  BY <1>1, <1>2, <1>3, Zenon DEF C!Refuse, Q!Refuse
<1>8. C!FireForest(m) => Q!FireForest(m)
  BY <1>1, <1>2, <1>3, <1>4, Zenon DEF C!FireForest, Q!FireForest
<1> QED
  BY <1>1, <1>2, <1>5, <1>6, <1>7, <1>8 DEF C!ProcessElement, Q!ProcessElement


LEMMA SameGrid ==
  /\ Subtasks = 0 .. Parallelism - 1 /\ Subtasks = Q!Subtasks /\ 0 \in Subtasks
  /\ LocalTreeCount = Q!LocalTreeCount /\ LocalTreeCount \in Nat \ {0}
  /\ Q!Slots = 0 .. LocalTreeCount - 1
  /\ Q!Grid = Subtasks \X (0 .. LocalTreeCount - 1)
<1>1. LocalTreeCount = Q!LocalTreeCount
  BY DEF LocalTreeCount, C!LocalTreeCount, Q!LocalTreeCount
<1>2. LocalTreeCount \in Nat \ {0}
  BY Assumptions DEF P!LocalProcessorAssumption
<1>3. Subtasks = 0 .. Parallelism - 1 /\ Subtasks = Q!Subtasks /\ 0 \in Subtasks
  BY Assumptions DEF Q!CoordinatorAssumption, Subtasks, C!Subtasks, Q!Subtasks
<1> QED
  BY <1>1, <1>2, <1>3 DEF Q!Slots, Q!Grid

LEMMA GridCells ==
  /\ \A c \in Q!Grid : c[1] \in Subtasks /\ c[2] \in 0 .. LocalTreeCount - 1
  /\ \A u \in Subtasks : \A i \in 0 .. LocalTreeCount - 1 : <<u, i>> \in Q!Grid
  /\ \A u \in Subtasks : <<u, 0>> \in Q!Grid
<1>1. Q!Grid = Subtasks \X (0 .. LocalTreeCount - 1)
  BY SameGrid
<1>2. 0 \in 0 .. LocalTreeCount - 1
  BY SameGrid
<1> QED
  BY <1>1, <1>2

(***************************************************************************)
(* The invariant that joins the two jobs.                                  *)
(***************************************************************************)

\* A tree as the coordinator reads it.
Received(m) ==
  [producerSubtask |-> m.producerSubtask, slotIndex |-> m.slotIndex,
   round |-> m.round, batchEnd |-> m.batchEnd,
   subsampleSize |-> IF m.poolSize < SubsampleSize THEN m.poolSize ELSE SubsampleSize]

\* How far the topics were written and read.
Positions ==
  /\ committed \in Nat /\ committed <= MaxRound
  /\ consumed \in [Subtasks -> Nat]
  /\ \A s \in Subtasks : /\ decision[s] <= committed
                         /\ forest[s] <= Len(forests)
                         /\ consumed[s] <= Len(treeOutput[s])

\* The grid holds trees read, and none older than those read for its cell.
StoredWereRead ==
  \A c \in DOMAIN trees : \E k \in 1 .. consumed[c[1]] :
    trees[c] = Received(treeOutput[c[1]][k])

CellOf(s, k) == <<s, treeOutput[s][k].slotIndex>>
ReadAreStored ==
  \A s \in Subtasks : \A k \in 1 .. consumed[s] :
    /\ CellOf(s, k) \in DOMAIN trees
    /\ treeOutput[s][k].round <= trees[CellOf(s, k)].round

\* Every subtask sent a tree of a forest's round.
ForestsFromAll ==
  \A i \in 1 .. Len(forests) : \A s \in Subtasks : \E k \in 1 .. consumed[s] :
    treeOutput[s][k].round = forests[i].trigger.round

\* There are no more forests than rounds.
RoundsAhead == \A i \in 1 .. Len(forests) : i - 1 <= forests[i].trigger.round

GridInv ==
  /\ StoredWereRead /\ ReadAreStored /\ ForestsFromAll /\ RoundsAhead
  /\ Q!AssemblyInv /\ Q!ForestsBehindGrid /\ Q!RoundsIncrease

JointInv == P!TreesInv /\ Positions /\ GridInv

\* A tree sent is one the coordinator accepts.
LEMMA ReceivedFacts ==
  ASSUME P!TreesInv, NEW s \in Subtasks, NEW k \in 1 .. Len(treeOutput[s])
  PROVE  /\ Received(treeOutput[s][k]) \in Q!ITreeMessage
         /\ Q!InBounds(Received(treeOutput[s][k]))
         /\ <<Received(treeOutput[s][k]).producerSubtask,
              Received(treeOutput[s][k]).slotIndex>> = CellOf(s, k)
         /\ Received(treeOutput[s][k]).round = treeOutput[s][k].round
         /\ treeOutput[s][k].round \in 0 .. MaxRound
         /\ treeOutput[s][k].round <= lastProcessedDecision[s]
<1> DEFINE m == treeOutput[s][k]
<1>1. P!TypeOK /\ P!SubtaskTrees(s)
  BY DEF P!TreesInv, P!PauseInv
<1>2. treeOutput[s] \in Seq(P!ITreeMessage)
  BY <1>1, P!SentTypes, Assumptions
<1>3. m \in P!ITreeMessage
  BY <1>2
<1>4. lastProcessedDecision[s] \in Nat /\ decision[s] \in Nat
  BY <1>1, P!SubtaskTypes, Assumptions
<1>5. /\ m.producerSubtask = s /\ m.slotIndex < LocalTreeCount
      /\ m.round <= lastProcessedDecision[s]
      /\ lastProcessedDecision[s] <= decision[s] /\ decision[s] <= MaxRound
  BY <1>1 DEF P!SubtaskTrees, P!TreesHandled
<1> HIDE DEF m
<1>6. /\ m.slotIndex \in Nat /\ m.round \in Nat /\ m.batchEnd \in BOOLEAN /\ m.poolSize \in Nat
  BY <1>3 DEF P!ITreeMessage
<1>7. m.round \in 0 .. MaxRound /\ MaxRound \in Nat
  BY <1>4, <1>5, <1>6, Assumptions DEF Q!CoordinatorAssumption
<1>8. /\ Received(m).producerSubtask = s /\ Received(m).slotIndex = m.slotIndex
      /\ Received(m).round = m.round
  BY <1>5 DEF Received
<1>9. s \in Nat /\ m.slotIndex \in Q!Slots /\ s \in Q!Subtasks
  <2>1. s \in 0 .. Parallelism - 1 /\ s \in Q!Subtasks
    BY SameGrid, Zenon
  <2>2. m.slotIndex \in 0 .. LocalTreeCount - 1
    BY <1>5, <1>6, SameGrid
  <2> QED
    BY <2>1, <2>2, SameGrid, Assumptions DEF Q!CoordinatorAssumption
<1>10. (IF m.poolSize < SubsampleSize THEN m.poolSize ELSE SubsampleSize) \in SampleSizes
  BY <1>6, Assumptions DEF SampleSizes
<1>11. Received(m) \in Q!ITreeMessage
  BY <1>5, <1>6, <1>7, <1>9, <1>10 DEF Received, Q!ITreeMessage, Q!Rounds
<1>12. Q!InBounds(Received(m))
  BY <1>8, <1>9 DEF Q!InBounds
<1> QED
  BY <1>5, <1>7, <1>8, <1>11, <1>12 DEF CellOf, m

\* A round published is a round handled by all.
LEMMA ForestRounds ==
  ASSUME JointInv, NEW i \in 1 .. Len(forests), NEW s \in Subtasks
  PROVE  /\ forests[i].trigger.round \in 0 .. MaxRound
         /\ forests[i].trigger.round <= lastProcessedDecision[s]
         /\ subState[s] = "COOLDOWN" => forests[i].trigger.round < lastProcessedDecision[s]
<1>1. PICK k \in 1 .. consumed[s] : treeOutput[s][k].round = forests[i].trigger.round
  BY DEF JointInv, GridInv, ForestsFromAll
<1>2. consumed[s] \in Nat /\ consumed[s] <= Len(treeOutput[s]) /\ Len(treeOutput[s]) \in Nat
  BY P!SentTypes, Assumptions DEF JointInv, Positions, P!TreesInv, P!PauseInv
<1>3. k \in 1 .. Len(treeOutput[s])
  BY <1>2
<1>4. P!TreesHandled(s)
  BY DEF JointInv, P!TreesInv, P!SubtaskTrees
<1> QED
  BY <1>1, <1>3, <1>4, ReceivedFacts DEF JointInv, P!TreesHandled

LEMMA ForestCount ==
  ASSUME JointInv
  PROVE  Len(forests) \in Nat /\ Len(forests) <= MaxVersion
<1>1. Len(forests) \in Nat
  BY DEF JointInv, GridInv, Q!AssemblyInv, Q!TypeOK
<1>2. CASE Len(forests) = 0
  BY <1>2, Assumptions DEF MaxVersion, Q!CoordinatorAssumption
<1>3. CASE Len(forests) # 0
  <2>1. Len(forests) \in 1 .. Len(forests)
    BY <1>1, <1>3
  <2>2. Len(forests) - 1 <= forests[Len(forests)].trigger.round
    BY <2>1 DEF JointInv, GridInv, RoundsAhead
  <2>3. forests[Len(forests)].trigger.round \in 0 .. MaxRound
    BY <2>1, ForestRounds, SameGrid
  <2> QED
    BY <1>1, <2>2, <2>3, Assumptions DEF MaxVersion, Q!CoordinatorAssumption
<1> QED
  BY <1>1, <1>2, <1>3

\* Every step is one of LocalProcessor or leaves the subtasks as they are.
LEMMA ScoringStep ==
  ASSUME JointInv, [Next]_vars
  PROVE  [P!Next]_(P!vars)
<1>1. CASE CommitRound \/ UNCHANGED vars \/ \E s \in Subtasks : AssembleTree(s)
  <2>1. UNCHANGED scoringVars
    BY <1>1, Zenon DEF CommitRound, AssembleTree, vars
  <2> QED
    BY <2>1 DEF scoringVars, P!vars, P!streamVars, P!phaseBVars, P!cooldownVars
<1>2. CASE Tick
  BY <1>2, SameReceipt, SameGrid DEF Tick, P!Next
<1>3. ASSUME NEW s \in Subtasks, DeliverDecision(s) PROVE P!Next
  <2>1. decision[s] < committed /\ LP!ReceiveDecision(s, decision[s] + 1)
    BY <1>3 DEF DeliverDecision
  <2>2. decision[s] \in Nat /\ committed \in Nat /\ committed <= MaxRound /\ MaxRound \in Nat
    BY P!SubtaskTypes, Assumptions
    DEF JointInv, Positions, P!TreesInv, P!PauseInv, Q!CoordinatorAssumption
  <2>3. P!NextDecision(s)
    BY <2>1, <2>2, SameReceipt DEF P!NextDecision
  <2> QED
    BY <2>3 DEF P!Next
<1>4. ASSUME NEW s \in Subtasks, DeliverForest(s) PROVE P!Next
  <2>1. forest[s] < Len(forests) /\ LP!ReceiveForest(s, forests[forest[s] + 1].version)
    BY <1>4 DEF DeliverForest
  <2>2. forest[s] \in Nat /\ Len(forests) \in Nat /\ Len(forests) <= MaxVersion
    BY ForestCount, P!SubtaskTypes, Assumptions DEF JointInv, P!TreesInv, P!PauseInv
  <2>3. forests[forest[s] + 1].version = forest[s] + 1
    BY <2>1, <2>2 DEF JointInv, GridInv, Q!AssemblyInv, Q!ForestsComplete
  <2>4. MaxVersion \in Nat
    BY Assumptions DEF MaxVersion, Q!CoordinatorAssumption
  <2>5. P!NextForest(s)
    BY <2>1, <2>2, <2>3, <2>4, SameReceipt DEF P!NextForest
  <2> QED
    BY <2>5 DEF P!Next
<1>5. ASSUME NEW s \in Subtasks, ScoreSample(s) \/ FireTimer(s) PROVE P!Next
  BY <1>5, SameElement, SameTimer DEF ScoreSample, FireTimer, P!Next
<1> QED
  BY <1>1, <1>2, <1>3, <1>4, <1>5 DEF Next

\* A step that publishes nothing and reads no tree.
LEMMA NothingRead ==
  ASSUME JointInv, [Next]_vars, P!TreesInv', UNCHANGED assemblyVars, consumed' = consumed
  PROVE  /\ GridInv'
         /\ \A s \in Subtasks : consumed'[s] <= Len(treeOutput'[s])
<1>0. P!PauseInv /\ [P!AtLeastOnceNext]_(P!vars)
  BY ScoringStep DEF JointInv, P!TreesInv, P!AtLeastOnceNext
<1>1. \A s \in Subtasks :
        /\ Len(treeOutput[s]) \in Nat /\ Len(treeOutput'[s]) \in Nat
        /\ Len(treeOutput[s]) <= Len(treeOutput'[s])
        /\ \A k \in 1 .. Len(treeOutput[s]) : treeOutput'[s][k] = treeOutput[s][k]
  BY <1>0, P!TreesGrow, Assumptions
<1>2. \A s \in Subtasks : consumed[s] \in Nat /\ consumed[s] <= Len(treeOutput[s])
  BY DEF JointInv, Positions
<1>3. \A s \in Subtasks : \A k \in 1 .. consumed[s] : treeOutput'[s][k] = treeOutput[s][k]
  BY <1>1, <1>2
<1>4. UNCHANGED <<trees, forests>> /\ UNCHANGED Q!vars
  BY DEF assemblyVars, Q!vars
<1>5. Q!AssemblyInv'
  BY <1>4, Q!AssemblyInductive, Assumptions DEF JointInv, GridInv
<1>6. Q!ForestsBehindGrid' /\ Q!RoundsIncrease' /\ RoundsAhead'
  BY <1>4 DEF JointInv, GridInv, Q!ForestsBehindGrid, Q!RoundsIncrease, RoundsAhead, Q!Full
<1>7. StoredWereRead'
  <2> SUFFICES ASSUME NEW c \in DOMAIN trees
               PROVE  \E k \in 1 .. consumed[c[1]] : trees[c] = Received(treeOutput'[c[1]][k])
    BY <1>4 DEF StoredWereRead, Received
  <2>1. PICK k \in 1 .. consumed[c[1]] : trees[c] = Received(treeOutput[c[1]][k])
    BY DEF JointInv, GridInv, StoredWereRead
  <2>2. c[1] \in Subtasks
    <3>1. c \in Q!Grid
      BY DEF JointInv, GridInv, Q!AssemblyInv, Q!TypeOK
    <3> QED
      BY <3>1, GridCells
  <2> QED
    BY <1>3, <2>1, <2>2
<1>8. ReadAreStored' /\ ForestsFromAll'
  BY <1>3, <1>4, SMTT(30) DEF JointInv, GridInv, ReadAreStored, ForestsFromAll, CellOf
<1> QED
  BY <1>1, <1>2, <1>5, <1>6, <1>7, <1>8 DEF GridInv

(***************************************************************************)
(* The coordinator reads a tree.                                           *)
(***************************************************************************)

\* The trees read before it are of its round at most, and of an earlier one
\* if they are of its slot.
LEMMA ReadInOrder ==
  ASSUME JointInv, NEW s \in Subtasks, consumed[s] < Len(treeOutput[s]),
         NEW j \in 1 .. consumed[s]
  PROVE  LET k == consumed[s] + 1
         IN  /\ treeOutput[s][j].round <= treeOutput[s][k].round
             /\ treeOutput[s][j].slotIndex = treeOutput[s][k].slotIndex =>
                  treeOutput[s][j].round < treeOutput[s][k].round
<1> DEFINE k == consumed[s] + 1
<1>1. P!InOrder(treeOutput[s]) /\ P!TypeOK
  BY DEF JointInv, P!TreesInv, P!PauseInv, P!SubtaskTrees
<1>2. consumed[s] \in Nat /\ Len(treeOutput[s]) \in Nat
  BY <1>1, P!SentTypes, Assumptions DEF JointInv, Positions
<1>3. j \in 1 .. Len(treeOutput[s]) /\ k \in 1 .. Len(treeOutput[s]) /\ j < k
  BY <1>2
<1>4. P!Before(treeOutput[s][j], treeOutput[s][k])
  BY <1>1, <1>3 DEF P!InOrder
<1>5. /\ treeOutput[s][j].round \in Nat /\ treeOutput[s][j].slotIndex \in Nat
      /\ treeOutput[s][k].round \in Nat /\ treeOutput[s][k].slotIndex \in Nat
  BY <1>1, <1>3, P!SentTypes, Assumptions
<1> QED
  BY <1>4, <1>5 DEF P!Before

\* It is of a later round than what it overwrites and than every forest.
LEMMA TreeIsNewer ==
  ASSUME JointInv, NEW s \in Subtasks, consumed[s] < Len(treeOutput[s])
  PROVE  LET k == consumed[s] + 1
         IN  /\ k \in 1 .. Len(treeOutput[s])
             /\ CellOf(s, k) \in DOMAIN trees =>
                  trees[CellOf(s, k)].round < treeOutput[s][k].round
             /\ \A i \in 1 .. Len(forests) :
                  forests[i].trigger.round < treeOutput[s][k].round
<1> DEFINE k == consumed[s] + 1
           cell == CellOf(s, k)
<1>1. P!TypeOK /\ P!TreesInv
  BY DEF JointInv, P!TreesInv, P!PauseInv
<1>2. consumed[s] \in Nat /\ Len(treeOutput[s]) \in Nat
  BY <1>1, P!SentTypes, Assumptions DEF JointInv, Positions
<1>3. k \in 1 .. Len(treeOutput[s])
  BY <1>2
<1>4. ASSUME cell \in DOMAIN trees PROVE trees[cell].round < treeOutput[s][k].round
  <2>1. cell[1] = s /\ cell[2] = treeOutput[s][k].slotIndex
    BY DEF CellOf
  <2>2. PICK j \in 1 .. consumed[s] : trees[cell] = Received(treeOutput[s][j])
    BY <1>4, <2>1 DEF JointInv, GridInv, StoredWereRead
  <2>3. trees[cell].slotIndex = treeOutput[s][k].slotIndex
    BY <1>4, <2>1 DEF JointInv, GridInv, Q!AssemblyInv, Q!CellsMatch
  <2>4. /\ Received(treeOutput[s][j]).slotIndex = treeOutput[s][j].slotIndex
        /\ Received(treeOutput[s][j]).round = treeOutput[s][j].round
    BY DEF Received
  <2>5. treeOutput[s][j].slotIndex = treeOutput[s][k].slotIndex
    BY <2>2, <2>3, <2>4
  <2> QED
    BY <2>2, <2>4, <2>5, ReadInOrder
<1>5. ASSUME NEW i \in 1 .. Len(forests)
      PROVE  forests[i].trigger.round < treeOutput[s][k].round
  <2>1. cell \in Q!Grid
    <3>1. Received(treeOutput[s][k]).producerSubtask \in Q!Subtasks
          /\ Received(treeOutput[s][k]).slotIndex \in Q!Slots
          /\ <<Received(treeOutput[s][k]).producerSubtask,
               Received(treeOutput[s][k]).slotIndex>> = cell
      BY <1>1, <1>3, ReceivedFacts DEF Q!InBounds
    <3> QED
      BY <3>1 DEF Q!Grid
  <2>2. cell \in DOMAIN trees /\ trees[cell].round >= forests[i].trigger.round
    BY <2>1 DEF JointInv, GridInv, Q!ForestsBehindGrid, Q!Full
  <2>3. trees[cell].round \in Int
    <3>1. trees[cell] \in Q!ITreeMessage
      BY <2>2 DEF JointInv, GridInv, Q!AssemblyInv, Q!TypeOK
    <3> QED
      BY <3>1 DEF Q!ITreeMessage, Q!Rounds
  <2>4. forests[i].trigger.round \in 0 .. MaxRound /\ treeOutput[s][k].round \in 0 .. MaxRound
    BY <1>1, <1>3, ForestRounds, ReceivedFacts
  <2> QED
    BY <1>4, <2>2, <2>3, <2>4
<1> QED
  BY <1>3, <1>4, <1>5

\* What the coordinator does with it.
LEMMA AssembleFacts ==
  ASSUME JointInv, NEW s \in Subtasks, AssembleTree(s)
  PROVE  LET k == consumed[s] + 1
             msg == Received(treeOutput[s][k])
             cell == CellOf(s, k)
         IN  /\ k \in 1 .. Len(treeOutput[s])
             /\ consumed' = [consumed EXCEPT ![s] = k]
             /\ cell \in Q!Grid /\ msg \in Q!ITreeMessage
             /\ DOMAIN trees' = DOMAIN trees \cup {cell}
             /\ trees'[cell] = msg
             /\ \A c \in DOMAIN trees \ {cell} : trees'[c] = trees[c]
             /\ Q!AssemblyInv'
             /\ \/ forests' = forests
                \/ /\ Q!Full(trees') /\ Q!Uniform(trees')
                   /\ Len(forests') = Len(forests) + 1
                   /\ \A i \in 1 .. Len(forests) : forests'[i] = forests[i]
                   /\ forests'[Len(forests) + 1].trigger = msg
<1> DEFINE k == consumed[s] + 1
           msg == Received(treeOutput[s][k])
           cell == CellOf(s, k)
<1>0. Q!AssemblyInv /\ Q!TypeOK /\ P!TreesInv
  BY DEF JointInv, GridInv, Q!AssemblyInv
<1>1. consumed[s] < Len(treeOutput[s]) /\ consumed' = [consumed EXCEPT ![s] = k]
  BY DEF AssembleTree
<1>2. C!ProcessElement(msg)
  BY DEF AssembleTree, Received
<1>3. k \in 1 .. Len(treeOutput[s])
  BY <1>1, TreeIsNewer
<1>4. /\ msg \in Q!ITreeMessage /\ Q!InBounds(msg)
      /\ <<msg.producerSubtask, msg.slotIndex>> = cell
  BY <1>0, <1>3, ReceivedFacts
<1> HIDE DEF msg, cell
<1>5. Q!ProcessElement(msg)
  BY <1>2, SameAssembly
<1>6. Idle' \in [Q!Subtasks -> Q!Batch] /\ UNCHANGED <<Idle, 0>>
  <2>1. 0 \in Q!Rounds /\ 0 \in 0 .. Q!LocalTreeCount /\ 0 \in SampleSizes
    BY SameGrid, Assumptions DEF Q!Rounds, SampleSizes, Q!CoordinatorAssumption
  <2>2. Idle \in [Q!Subtasks -> Q!Batch]
    BY <2>1 DEF Idle, Q!Batch, Q!Subtasks
  <2> QED
    BY <2>2 DEF Idle
<1>7. Q!TypeOK'
  BY <1>0, <1>4, <1>5, <1>6, Q!TypeKept, Assumptions
<1>8. Q!AssemblyInv'
  BY <1>0, <1>4, <1>5, <1>7, Q!AssemblyKept, Assumptions
<1>9. trees' = Q!Store(msg)
  BY <1>4, <1>5 DEF Q!ProcessElement, Q!Skip, Q!Collect, Q!Refuse, Q!FireForest
<1>10. /\ cell \in Q!Grid
       /\ DOMAIN trees' = DOMAIN trees \cup {cell}
       /\ trees'[cell] = msg
       /\ \A c \in DOMAIN trees \ {cell} : trees'[c] = trees[c]
  BY <1>0, <1>4, <1>9, Q!StoreFacts, Assumptions
<1>11. \/ forests' = forests
       \/ /\ Q!Full(trees') /\ Q!Uniform(trees')
          /\ forests' = Append(forests, Q!Forest(currentVersion', trees', msg))
  BY <1>0, <1>4, <1>5, Q!HandlerFacts, Assumptions
<1>12. forests \in Seq(Q!ForestMessage)
  BY <1>0 DEF Q!TypeOK
<1>13. ASSUME NEW new, forests' = Append(forests, new)
       PROVE  /\ Len(forests') = Len(forests) + 1
              /\ \A i \in 1 .. Len(forests) : forests'[i] = forests[i]
              /\ forests'[Len(forests) + 1] = new
  BY <1>12, <1>13
<1>14. Q!Forest(currentVersion', trees', msg).trigger = msg
  BY DEF Q!Forest
<1> QED
  BY <1>1, <1>3, <1>4, <1>8, <1>10, <1>11, <1>13, <1>14 DEF msg, cell

\* It keeps the joint invariant.
LEMMA AssembleKeeps ==
  ASSUME JointInv, NEW s \in Subtasks, AssembleTree(s)
  PROVE  /\ GridInv'
         /\ consumed' \in [Subtasks -> Nat]
         /\ \A u \in Subtasks : consumed'[u] <= Len(treeOutput'[u])
<1> DEFINE k == consumed[s] + 1
           tree == treeOutput[s][k]
           msg == Received(tree)
           cell == CellOf(s, k)
           last == Len(forests) + 1
<1>1. /\ k \in 1 .. Len(treeOutput[s])
      /\ consumed' = [consumed EXCEPT ![s] = k]
      /\ cell \in Q!Grid /\ msg \in Q!ITreeMessage
      /\ DOMAIN trees' = DOMAIN trees \cup {cell}
      /\ trees'[cell] = msg
      /\ \A c \in DOMAIN trees \ {cell} : trees'[c] = trees[c]
      /\ Q!AssemblyInv'
  BY AssembleFacts
<1>2. \/ forests' = forests
      \/ /\ Q!Full(trees') /\ Q!Uniform(trees')
         /\ Len(forests') = last
         /\ \A i \in 1 .. Len(forests) : forests'[i] = forests[i]
         /\ forests'[last].trigger = msg
  BY AssembleFacts
<1>3. treeOutput' = treeOutput
  BY DEF AssembleTree, scoringVars
<1>4. /\ consumed \in [Subtasks -> Nat] /\ Len(forests) \in Nat
      /\ \A u \in Subtasks : consumed[u] <= Len(treeOutput[u])
  BY ForestCount DEF JointInv, Positions
<1>5. /\ consumed' \in [Subtasks -> Nat] /\ consumed'[s] = k
      /\ \A u \in Subtasks : 1 .. consumed[u] \subseteq 1 .. consumed'[u]
      /\ \A u \in Subtasks : consumed'[u] <= Len(treeOutput[u])
      /\ \A u \in Subtasks \ {s} : consumed'[u] = consumed[u]
  BY <1>1, <1>4
<1>6. /\ msg.round = tree.round /\ tree.round \in 0 .. MaxRound
      /\ cell[1] = s
  BY <1>1, ReceivedFacts DEF JointInv, CellOf
<1>7. /\ cell \in DOMAIN trees => trees[cell].round < msg.round
      /\ \A i \in 1 .. Len(forests) : forests[i].trigger.round < msg.round
  <2>1. consumed[s] < Len(treeOutput[s])
    BY DEF AssembleTree
  <2> QED
    BY <1>6, <2>1, TreeIsNewer
<1>8. \A i \in 1 .. Len(forests) : forests[i].trigger.round \in 0 .. MaxRound
  BY ForestRounds, SameGrid
<1>9. \A c \in DOMAIN trees' : c \in Q!Grid /\ c[1] \in Subtasks /\ trees'[c].round \in Nat
  <2>1. \A c \in DOMAIN trees' : c \in Q!Grid /\ trees'[c] \in Q!ITreeMessage
    BY <1>1 DEF Q!AssemblyInv, Q!TypeOK
  <2> QED
    BY <2>1, GridCells DEF Q!ITreeMessage, Q!Rounds
<1>10. StoredWereRead'
  <2> SUFFICES ASSUME NEW c \in DOMAIN trees'
               PROVE  \E j \in 1 .. consumed'[c[1]] : trees'[c] = Received(treeOutput[c[1]][j])
    BY <1>3 DEF StoredWereRead, Received
  <2>1. CASE c = cell
    <3>1. k \in 1 .. consumed'[c[1]]
      BY <1>1, <1>5, <1>6, <2>1
    <3> QED
      BY <1>1, <1>6, <2>1, <3>1
  <2>2. CASE c # cell
    <3>1. c \in DOMAIN trees /\ trees'[c] = trees[c]
      BY <1>1, <2>2
    <3>2. PICK j \in 1 .. consumed[c[1]] : trees[c] = Received(treeOutput[c[1]][j])
      BY <3>1 DEF JointInv, GridInv, StoredWereRead
    <3>3. j \in 1 .. consumed'[c[1]]
      BY <1>5, <1>9
    <3> QED
      BY <3>1, <3>2, <3>3
  <2> QED
    BY <2>1, <2>2
<1>11. ReadAreStored'
  <2> SUFFICES ASSUME NEW u \in Subtasks, NEW j \in 1 .. consumed'[u]
               PROVE  /\ CellOf(u, j) \in DOMAIN trees'
                      /\ treeOutput[u][j].round <= trees'[CellOf(u, j)].round
    BY <1>3 DEF ReadAreStored, CellOf
  <2>1. CASE u = s /\ j = k
    BY <1>1, <1>6, <2>1
  <2>2. CASE ~(u = s /\ j = k)
    <3>1. j \in 1 .. consumed[u]
      BY <1>4, <1>5, <2>2
    <3>2. /\ CellOf(u, j) \in DOMAIN trees
          /\ treeOutput[u][j].round <= trees[CellOf(u, j)].round
      BY <3>1 DEF JointInv, GridInv, ReadAreStored
    <3>3. CASE CellOf(u, j) # cell
      BY <1>1, <3>2, <3>3
    <3>4. CASE CellOf(u, j) = cell
      <4>1. u = s
        BY <3>4 DEF CellOf
      <4>2. treeOutput[s][j].round <= tree.round
        <5>1. consumed[s] < Len(treeOutput[s])
          BY DEF AssembleTree
        <5> QED
          BY <3>1, <4>1, <5>1, ReadInOrder
      <4> QED
        BY <1>1, <1>6, <3>4, <4>1, <4>2
    <3> QED
      BY <3>3, <3>4
  <2> QED
    BY <2>1, <2>2
\* A forest just published: its trees are of the round of its trigger.
<1>12. ASSUME Q!Full(trees'), Q!Uniform(trees')
       PROVE  \A c \in Q!Grid : trees'[c].round = msg.round
  BY <1>1, <1>12 DEF Q!Full, Q!Uniform
<1>13. ForestsFromAll'
  <2> SUFFICES ASSUME NEW i \in 1 .. Len(forests'), NEW u \in Subtasks
               PROVE  \E j \in 1 .. consumed'[u] :
                        treeOutput[u][j].round = forests'[i].trigger.round
    BY <1>3 DEF ForestsFromAll
  <2>1. CASE i \in 1 .. Len(forests) /\ forests'[i] = forests[i]
    <3>1. PICK j \in 1 .. consumed[u] : treeOutput[u][j].round = forests[i].trigger.round
      BY <2>1 DEF JointInv, GridInv, ForestsFromAll
    <3> QED
      BY <1>5, <2>1, <3>1
  <2>2. CASE i = last /\ Q!Full(trees') /\ Q!Uniform(trees') /\ forests'[last].trigger = msg
    <3>1. <<u, 0>> \in Q!Grid
      BY GridCells
    <3>2. <<u, 0>> \in DOMAIN trees' /\ trees'[<<u, 0>>].round = msg.round
      BY <1>12, <2>2, <3>1 DEF Q!Full
    <3>3. PICK j \in 1 .. consumed'[u] : trees'[<<u, 0>>] = Received(treeOutput[u][j])
      BY <1>3, <1>10, <3>2 DEF StoredWereRead, Received
    <3>4. treeOutput[u][j].round = msg.round
      BY <3>2, <3>3 DEF Received
    <3> QED
      BY <2>2, <3>4
  <2> QED
    BY <1>2, <1>4, <2>1, <2>2
<1>14. RoundsAhead'
  <2> SUFFICES ASSUME NEW i \in 1 .. Len(forests')
               PROVE  i - 1 <= forests'[i].trigger.round
    BY DEF RoundsAhead
  <2>1. \A j \in 1 .. Len(forests) : j - 1 <= forests[j].trigger.round
    BY DEF JointInv, GridInv, RoundsAhead
  <2>2. last - 1 <= msg.round
    <3>1. CASE Len(forests) = 0
      BY <1>6, <3>1
    <3>2. CASE Len(forests) # 0
      <4>1. Len(forests) \in 1 .. Len(forests)
        BY <1>4, <3>2
      <4>2. /\ forests[Len(forests)].trigger.round < msg.round
            /\ Len(forests) - 1 <= forests[Len(forests)].trigger.round
            /\ forests[Len(forests)].trigger.round \in Int
        BY <1>7, <1>8, <2>1, <4>1
      <4> QED
        BY <1>4, <1>6, <4>2
    <3> QED
      BY <3>1, <3>2
  <2>3. CASE i \in 1 .. Len(forests) /\ forests'[i] = forests[i]
    BY <2>1, <2>3
  <2>4. CASE i = last /\ forests'[last].trigger = msg
    BY <2>2, <2>4
  <2> QED
    BY <1>2, <1>4, <2>3, <2>4
<1>15. Q!ForestsBehindGrid'
  <2> SUFFICES ASSUME NEW i \in 1 .. Len(forests')
               PROVE  /\ Q!Full(trees')
                      /\ \A c \in Q!Grid : trees'[c].round >= forests'[i].trigger.round
    BY DEF Q!ForestsBehindGrid, Q!Full
  <2>1. CASE i \in 1 .. Len(forests) /\ forests'[i] = forests[i]
    <3>1. DOMAIN trees = Q!Grid /\ \A c \in Q!Grid : trees[c].round >= forests[i].trigger.round
      BY <2>1 DEF JointInv, GridInv, Q!ForestsBehindGrid, Q!Full
    <3>2. Q!Full(trees')
      BY <1>1, <3>1 DEF Q!Full
    <3>3. forests[i].trigger.round < msg.round /\ forests[i].trigger.round \in Int
      BY <1>7, <1>8, <2>1
    <3> QED
      BY <1>1, <1>6, <2>1, <3>1, <3>2, <3>3, SMTT(30)
  <2>2. CASE i = last /\ Q!Full(trees') /\ Q!Uniform(trees') /\ forests'[last].trigger = msg
    BY <1>6, <1>12, <2>2
  <2> QED
    BY <1>2, <1>4, <2>1, <2>2
<1>16. Q!RoundsIncrease'
  <2> SUFFICES ASSUME NEW i \in 1 .. Len(forests'), NEW j \in 1 .. Len(forests'), i < j
               PROVE  forests'[i].trigger.round < forests'[j].trigger.round
    BY DEF Q!RoundsIncrease
  <2>1. CASE forests' = forests
    BY <2>1 DEF JointInv, GridInv, Q!RoundsIncrease
  <2>2. CASE /\ Len(forests') = last /\ forests'[last].trigger = msg
             /\ \A n \in 1 .. Len(forests) : forests'[n] = forests[n]
    <3>1. i \in 1 .. Len(forests) /\ (j \in 1 .. Len(forests) \/ j = last)
      BY <1>4, <2>2
    <3> QED
      BY <1>7, <2>2, <3>1 DEF JointInv, GridInv, Q!RoundsIncrease
  <2> QED
    BY <1>2, <2>1, <2>2
<1> QED
  BY <1>1, <1>3, <1>5, <1>10, <1>11, <1>13, <1>14, <1>15, <1>16 DEF GridInv

LEMMA JointInductive ==
  /\ Init => JointInv
  /\ JointInv /\ [Next]_vars => JointInv'
<1>1. Init => JointInv
  <2> SUFFICES ASSUME Init PROVE JointInv
    OBVIOUS
  <2>1. P!TreesInv
    BY SameInit, P!TreesInductive, Assumptions DEF Init
  <2>2. /\ trees = [c \in {} |-> 0] /\ currentVersion = 0 /\ dirty = FALSE /\ forests = <<>>
        /\ consumed = [s \in Subtasks |-> 0] /\ committed = 0
    BY DEF Init
  <2>3. DOMAIN trees = {} /\ Len(forests) = 0 /\ \A s \in Subtasks : consumed[s] = 0
    BY <2>2
  <2>4. \A s \in Subtasks : forest[s] = 0 /\ decision[s] = 0 /\ Len(treeOutput[s]) = 0
    BY DEF Init, LP!Init
  <2>5. Positions
    BY <2>2, <2>3, <2>4, Assumptions DEF Positions, Q!CoordinatorAssumption
  <2>6. Q!AssemblyInv
    <3>1. 0 \in Q!Rounds /\ 0 \in 0 .. Q!LocalTreeCount /\ 0 \in SampleSizes
      BY SameGrid, Assumptions DEF Q!Rounds, SampleSizes, Q!CoordinatorAssumption
    <3>2. Idle \in [Q!Subtasks -> [round : {0}, next : {0}, size : SampleSizes]]
      BY <3>1 DEF Idle, Q!Subtasks
    <3>3. Q!Init
      BY <2>2, <3>2, Zenon DEF Q!Init
    <3> QED
      BY <3>3, Q!AssemblyInductive, Assumptions
  <2>7. StoredWereRead /\ ReadAreStored
    BY <2>3 DEF StoredWereRead, ReadAreStored
  <2>8. ForestsFromAll /\ RoundsAhead /\ Q!ForestsBehindGrid /\ Q!RoundsIncrease
    BY <2>3 DEF ForestsFromAll, RoundsAhead, Q!ForestsBehindGrid, Q!RoundsIncrease
  <2> QED
    BY <2>1, <2>5, <2>6, <2>7, <2>8 DEF JointInv, GridInv
<1>2. JointInv /\ [Next]_vars => JointInv'
  <2> SUFFICES ASSUME JointInv, [Next]_vars PROVE JointInv'
    OBVIOUS
  <2>1. P!TreesInv'
    BY ScoringStep, P!TreesInductive, Assumptions DEF JointInv
  <2>2. /\ committed \in Nat /\ committed <= MaxRound /\ consumed \in [Subtasks -> Nat]
        /\ Len(forests) \in Nat
        /\ \A s \in Subtasks : /\ decision[s] <= committed /\ forest[s] <= Len(forests)
                               /\ forest[s] \in Nat /\ decision[s] \in Nat
    BY ForestCount, P!SubtaskTypes, Assumptions
    DEF JointInv, Positions, P!TreesInv, P!PauseInv
  <2>3. forest \in [Subtasks -> Nat] /\ decision \in [Subtasks -> Nat]
    BY DEF JointInv, P!TreesInv, P!PauseInv, P!TypeOK
  <2>4. ASSUME UNCHANGED assemblyVars, consumed' = consumed,
               committed' \in Nat, committed' <= MaxRound,
               \A s \in Subtasks : decision'[s] <= committed' /\ forest'[s] <= Len(forests)
        PROVE  JointInv'
    <3>1. GridInv' /\ \A s \in Subtasks : consumed'[s] <= Len(treeOutput'[s])
      BY <2>1, <2>4, NothingRead
    <3>2. forests' = forests
      BY <2>4 DEF assemblyVars
    <3>3. Positions'
      BY <2>2, <2>4, <3>1, <3>2 DEF Positions
    <3> QED
      BY <2>1, <3>1, <3>3 DEF JointInv
  <2>5. CASE CommitRound
    <3>1. /\ UNCHANGED assemblyVars /\ consumed' = consumed
          /\ committed' = committed + 1 /\ committed < MaxRound
          /\ UNCHANGED <<forest, decision>>
      BY <2>5 DEF CommitRound, scoringVars
    <3>2. MaxRound \in Nat
      BY Assumptions DEF Q!CoordinatorAssumption
    <3>3. /\ committed' \in Nat /\ committed' <= MaxRound
          /\ \A s \in Subtasks : decision'[s] <= committed' /\ forest'[s] <= Len(forests)
      BY <2>2, <3>1, <3>2
    <3> QED
      BY <2>4, <3>1, <3>3
  <2>6. ASSUME NEW s \in Subtasks, DeliverDecision(s) PROVE JointInv'
    <3>1. /\ UNCHANGED assemblyVars /\ consumed' = consumed /\ committed' = committed
          /\ decision[s] < committed /\ forest' = forest
          /\ decision' = [decision EXCEPT ![s] = decision[s] + 1]
      BY <2>6 DEF DeliverDecision, LP!ReceiveDecision, topicVars
    <3>2. \A u \in Subtasks : decision'[u] <= committed' /\ forest'[u] <= Len(forests)
      BY <2>2, <2>3, <3>1
    <3> QED
      BY <2>2, <2>4, <3>1, <3>2
  <2>7. ASSUME NEW s \in Subtasks, DeliverForest(s) PROVE JointInv'
    <3>1. /\ UNCHANGED assemblyVars /\ consumed' = consumed /\ committed' = committed
          /\ forest[s] < Len(forests) /\ decision' = decision
          /\ forest' = [forest EXCEPT ![s] = forests[forest[s] + 1].version]
      BY <2>7 DEF DeliverForest, LP!ReceiveForest, topicVars
    <3>2. forest[s] + 1 \in 1 .. Len(forests)
      BY <2>2, <3>1
    <3>3. forests[forest[s] + 1].version = forest[s] + 1
      BY <3>2 DEF JointInv, GridInv, Q!AssemblyInv, Q!ForestsComplete
    <3>4. \A u \in Subtasks : decision'[u] <= committed' /\ forest'[u] <= Len(forests)
      BY <2>2, <2>3, <3>1, <3>2, <3>3
    <3> QED
      BY <2>2, <2>4, <3>1, <3>4
  <2>8. CASE Tick \/ \E s \in Subtasks : ScoreSample(s) \/ FireTimer(s)
    <3>1. UNCHANGED assemblyVars /\ consumed' = consumed /\ committed' = committed
      BY <2>8 DEF Tick, ScoreSample, FireTimer, topicVars
    <3>2. P!Tick \/ \E s \in Subtasks : P!NextElement(s) \/ P!FireTimer(s)
      BY <2>8, SameReceipt, SameElement, SameTimer, SameGrid DEF Tick, ScoreSample, FireTimer
    <3>3. UNCHANGED <<forest, decision>>
      BY <3>2, P!LocalStep, Assumptions
    <3> QED
      BY <2>2, <2>4, <3>1, <3>3
  <2>9. ASSUME NEW s \in Subtasks, AssembleTree(s) PROVE JointInv'
    <3>1. /\ GridInv' /\ consumed' \in [Subtasks -> Nat]
          /\ \A u \in Subtasks : consumed'[u] <= Len(treeOutput'[u])
      BY <2>9, AssembleKeeps
    <3>2. UNCHANGED <<forest, decision, committed>>
      BY <2>9 DEF AssembleTree, scoringVars
    <3>3. Len(forests) <= Len(forests') /\ Len(forests') \in Nat
      <4>1. Len(forests') = Len(forests) \/ Len(forests') = Len(forests) + 1
        BY <2>9, AssembleFacts
      <4> QED
        BY <2>2, <4>1
    <3>4. Positions'
      BY <2>2, <3>1, <3>2, <3>3 DEF Positions
    <3> QED
      BY <2>1, <3>1, <3>4 DEF JointInv
  <2>10. CASE UNCHANGED vars
    <3>1. /\ UNCHANGED assemblyVars /\ consumed' = consumed /\ committed' = committed
          /\ UNCHANGED <<forest, decision>>
      BY <2>10 DEF vars, topicVars, scoringVars
    <3> QED
      BY <2>2, <2>4, <3>1
  <2> QED
    BY <2>5, <2>6, <2>7, <2>8, <2>9, <2>10 DEF Next
<1> QED
  BY <1>1, <1>2

(***************************************************************************)
(* Theorems.                                                               *)
(***************************************************************************)

\* Joined to the coordinator every subtask still behaves as LocalProcessor
\* describes with each decision and each forest delivered once and in order:
\* what is proved of LocalProcessor!Spec holds of the whole loop.
THEOREM SubtasksBehave == Spec => P!Spec
<1>1. Init => P!Init
  BY SameInit DEF Init
<1> QED
  BY <1>1, JointInductive, ScoringStep, PTL DEF Spec, P!Spec

\* The coordinator fed by the subtasks misses no complete grid, publishes
\* complete forests only, and those of later rounds later.
THEOREM ForestsInOrder ==
  Spec => [](C!NoMissedForest /\ C!ForestsComplete /\ C!RoundsIncrease)
<1>1. JointInv => C!NoMissedForest /\ C!ForestsComplete /\ C!RoundsIncrease
  <2> SUFFICES ASSUME JointInv
               PROVE  C!NoMissedForest /\ C!ForestsComplete /\ C!RoundsIncrease
    OBVIOUS
  <2>1. Q!NoMissedForest /\ Q!ForestsComplete /\ Q!RoundsIncrease
    BY DEF JointInv, GridInv, Q!AssemblyInv
  <2> QED
    BY <2>1 DEF C!NoMissedForest, Q!NoMissedForest, C!ForestsComplete, Q!ForestsComplete,
       C!RoundsIncrease, Q!RoundsIncrease, C!Full, Q!Full, C!Uniform, Q!Uniform, C!Grid, Q!Grid,
       C!Subtasks, Q!Subtasks, C!Slots, Q!Slots, C!LocalTreeCount, Q!LocalTreeCount
<1> QED
  BY <1>1, JointInductive, PTL DEF Spec

\* No forest of a round is published before every subtask has handled that
\* round's decision, in either policy and pause mode, however the trees of
\* the subtasks interleave and whichever of them aborted or was overtaken.
THEOREM NoForestTooEarly == Spec => []ForestNeedsEverySubtask
<1>1. JointInv => ForestNeedsEverySubtask
  BY ForestRounds DEF ForestNeedsEverySubtask
<1> QED
  BY <1>1, JointInductive, PTL DEF Spec

(***************************************************************************)
(* The handshake cannot hang.                                              *)
(***************************************************************************)

\* A subtask waits to get past a version it has, and the forests up to that
\* version are of rounds before the one it waits for.
WaitsForNewer(s) ==
  subState[s] = "WAITING" =>
    /\ waitingForVersion[s] <= forest[s]
    /\ \A i \in 1 .. waitingForVersion[s] : forests[i].trigger.round < currentRoundId[s]

ReleaseInv == JointInv /\ P!SizesInv /\ P!BatchInv /\ \A s \in Subtasks : WaitsForNewer(s)

LEMMA WaitKept ==
  ASSUME JointInv, [Next]_vars, NEW s \in Subtasks, WaitsForNewer(s)
  PROVE  WaitsForNewer(s)'
<1> SUFFICES ASSUME subState'[s] = "WAITING"
             PROVE  /\ waitingForVersion'[s] <= forest'[s]
                    /\ \A i \in 1 .. waitingForVersion'[s] :
                         forests'[i].trigger.round < currentRoundId'[s]
  BY DEF WaitsForNewer
<1>1. \A i \in 1 .. Len(forests) : forests'[i] = forests[i]
  <2>1. CASE \E u \in Subtasks : AssembleTree(u)
    BY <2>1, AssembleFacts
  <2>2. CASE ~ \E u \in Subtasks : AssembleTree(u)
    <3>1. UNCHANGED assemblyVars
      BY <2>2 DEF Next, CommitRound, Tick, DeliverDecision, DeliverForest, ScoreSample,
                  FireTimer, vars
    <3> QED
      BY <3>1 DEF assemblyVars
  <2> QED
    BY <2>1, <2>2
<1>2. /\ forest[s] \in Nat /\ forest'[s] \in Nat /\ waitingForVersion[s] \in Nat
      /\ forest[s] <= Len(forests) /\ Len(forests) \in Nat
      /\ lastProcessedDecision[s] \in Nat /\ currentRoundId'[s] \in Nat
  <2>1. P!TypeOK /\ P!TypeOK'
    BY JointInductive DEF JointInv, P!TreesInv, P!PauseInv
  <2> QED
    BY <2>1, ForestCount DEF JointInv, Positions, P!TypeOK
<1>3. \/ /\ subState[s] = "WAITING"
         /\ waitingForVersion'[s] = waitingForVersion[s]
         /\ currentRoundId'[s] = currentRoundId[s]
         /\ forest[s] <= forest'[s]
      \/ /\ waitingForVersion'[s] = forest[s] /\ forest'[s] = forest[s]
         /\ \/ lastProcessedDecision[s] < currentRoundId'[s]
            \/ /\ subState[s] = "COOLDOWN"
               /\ currentRoundId'[s] = lastProcessedDecision[s]
  BY ScoringStep, P!WaitingSteps, Assumptions DEF JointInv
<1>4. CASE /\ subState[s] = "WAITING"
           /\ waitingForVersion'[s] = waitingForVersion[s]
           /\ currentRoundId'[s] = currentRoundId[s]
           /\ forest[s] <= forest'[s]
  <2>1. /\ waitingForVersion[s] <= forest[s]
        /\ \A i \in 1 .. waitingForVersion[s] : forests[i].trigger.round < currentRoundId[s]
    BY <1>4 DEF WaitsForNewer
  <2>2. \A i \in 1 .. waitingForVersion[s] : i \in 1 .. Len(forests)
    BY <1>2, <2>1
  <2> QED
    BY <1>1, <1>2, <1>4, <2>1, <2>2
<1>5. CASE /\ waitingForVersion'[s] = forest[s] /\ forest'[s] = forest[s]
           /\ \/ lastProcessedDecision[s] < currentRoundId'[s]
              \/ /\ subState[s] = "COOLDOWN"
                 /\ currentRoundId'[s] = lastProcessedDecision[s]
  <2> SUFFICES ASSUME NEW i \in 1 .. forest[s]
               PROVE  forests'[i].trigger.round < currentRoundId'[s]
    BY <1>2, <1>5
  <2>1. i \in 1 .. Len(forests)
    BY <1>2
  <2>2. /\ forests[i].trigger.round \in 0 .. MaxRound
        /\ forests[i].trigger.round <= lastProcessedDecision[s]
        /\ subState[s] = "COOLDOWN" => forests[i].trigger.round < lastProcessedDecision[s]
    BY <2>1, ForestRounds
  <2> QED
    BY <1>1, <1>2, <1>5, <2>1, <2>2
<1> QED
  BY <1>3, <1>4, <1>5

LEMMA ReleaseInductive ==
  ASSUME LP!D1a
  PROVE  /\ Init => ReleaseInv
         /\ ReleaseInv /\ [Next]_vars => ReleaseInv'
<1>0. P!D1a /\ P!FirstSampleTaken
  BY DEF LP!D1a, P!D1a, P!FirstSampleTaken
<1>1. Init => ReleaseInv
  <2> SUFFICES ASSUME Init PROVE ReleaseInv
    OBVIOUS
  <2>1. P!Init
    BY SameInit DEF Init
  <2>2. P!SizesInv /\ P!BatchInv
    BY <1>0, <2>1, P!SizesInductive, P!BatchInductive, Assumptions
  <2>3. \A s \in Subtasks : subState[s] = "STABLE"
    BY <2>1 DEF P!Init
  <2> QED
    BY <2>2, <2>3, JointInductive DEF ReleaseInv, WaitsForNewer
<1>2. ReleaseInv /\ [Next]_vars => ReleaseInv'
  <2> SUFFICES ASSUME ReleaseInv, [Next]_vars PROVE ReleaseInv'
    OBVIOUS
  <2>1. JointInv /\ JointInv'
    BY JointInductive DEF ReleaseInv
  <2>2. [P!AtLeastOnceNext]_(P!vars)
    BY <2>1, ScoringStep DEF P!AtLeastOnceNext
  <2>3. P!SizesInv' /\ P!BatchInv'
    BY <1>0, <2>2, P!SizesInductive, P!BatchInductive, Assumptions DEF ReleaseInv
  <2>4. \A s \in Subtasks : WaitsForNewer(s)'
    BY <2>1, WaitKept DEF ReleaseInv
  <2> QED
    BY <2>1, <2>3, <2>4 DEF ReleaseInv
<1> QED
  BY <1>1, <1>2

\* When all subtasks wait for round r and every tree was read, the grid is
\* full of trees of round r, all of one psi.
LEMMA CommonRoundFillsGrid ==
  ASSUME LP!D1a, ReleaseInv, NEW r \in 1 .. MaxRound,
         \A s \in Subtasks : /\ subState[s] = "WAITING" /\ currentRoundId[s] = r
                             /\ consumed[s] = Len(treeOutput[s])
  PROVE  Q!Full(trees) /\ Q!Uniform(trees) /\ \A c \in Q!Grid : trees[c].round = r
<1>1. /\ P!TypeOK /\ P!TreesInv /\ P!PauseInv /\ P!BatchInv /\ P!SizesInv
      /\ Q!TypeOK /\ StoredWereRead /\ ReadAreStored /\ Positions
  BY DEF ReleaseInv, JointInv, GridInv, P!BatchInv, P!PauseInv, Q!AssemblyInv
<1>2. DOMAIN trees \subseteq Q!Grid
  BY <1>1 DEF Q!TypeOK
\* Every cell was written with a tree of round r or later.
<1>3. ASSUME NEW c \in Q!Grid PROVE c \in DOMAIN trees /\ r <= trees[c].round
  <2> DEFINE s == c[1]
             sent == treeOutput[s]
             first == Len(sent) - LocalTreeCount
  <2>1. s \in Subtasks /\ c[2] \in 0 .. LocalTreeCount - 1 /\ c = <<s, c[2]>>
    <3>1. c \in Subtasks \X (0 .. LocalTreeCount - 1)
      BY SameGrid
    <3> QED
      BY <3>1
  <2>2. P!EndsWithBatch(sent, r)
    BY <1>1, <2>1 DEF P!BatchInv, P!SubtaskBatch
  <2>3. LocalTreeCount \in Nat /\ Len(sent) \in Nat
    BY <1>1, <2>1, P!SentTypes, SameGrid, Assumptions
  <2>4. PICK i \in 1 .. LocalTreeCount : c[2] = i - 1
    <3>1. c[2] + 1 \in 1 .. LocalTreeCount /\ c[2] = (c[2] + 1) - 1
      BY <2>1, <2>3
    <3> QED
      BY <3>1
  <2> DEFINE k == first + i
  <2>5. first >= 0 /\ sent[k].slotIndex = c[2] /\ sent[k].round = r
    BY <2>2, <2>4 DEF P!EndsWithBatch
  <2>6. k \in 1 .. consumed[s] /\ sent[k].slotIndex = c[2]
    BY <2>1, <2>3, <2>4, <2>5
  <2>7. CellOf(s, k) = c
    BY <2>1, <2>6 DEF CellOf
  <2>8. CellOf(s, k) \in DOMAIN trees /\ sent[k].round <= trees[CellOf(s, k)].round
    BY <1>1, <2>1, <2>6 DEF ReadAreStored
  <2> QED
    BY <2>5, <2>7, <2>8
\* No tree is of a later round, and those of round r have the one size.
<1>4. ASSUME NEW c \in Q!Grid
      PROVE  /\ trees[c].round = r
             /\ \E z : /\ P!EndSize(z)
                       /\ trees[c].subsampleSize = IF z < SubsampleSize THEN z
                                                                        ELSE SubsampleSize
  <2>1. c[1] \in Subtasks
    BY GridCells
  <2> DEFINE s == c[1]
  <2>2. PICK k \in 1 .. consumed[s] : trees[c] = Received(treeOutput[s][k])
    BY <1>1, <1>3 DEF StoredWereRead
  <2>3. k \in 1 .. Len(treeOutput[s])
    BY <2>1, <2>2
  <2>4. lastProcessedDecision[s] = r
    BY <1>1, <2>1 DEF P!PauseInv, P!RoundKnownWhilePaused
  <2>5. /\ treeOutput[s][k].round \in 0 .. MaxRound /\ treeOutput[s][k].round <= r
    BY <1>1, <2>1, <2>3, <2>4, ReceivedFacts
  <2>6. /\ trees[c].round = treeOutput[s][k].round
        /\ trees[c].subsampleSize = IF treeOutput[s][k].poolSize < SubsampleSize
                                    THEN treeOutput[s][k].poolSize ELSE SubsampleSize
    BY <2>2 DEF Received
  <2>7. trees[c].round = r
    BY <1>3, <2>5, <2>6
  <2>8. P!EndSize(treeOutput[s][k].poolSize)
    <3>1. treeOutput[s][k].round # 0
      BY <2>6, <2>7
    <3> QED
      BY <1>1, <2>1, <2>3, <3>1 DEF P!SizesInv, P!SubtaskSizes
  <2> QED
    BY <2>6, <2>7, <2>8
<1>5. \A c, d \in Q!Grid : trees[c].subsampleSize = trees[d].subsampleSize
  BY <1>4, P!OneEndSize, Assumptions
<1>6. DOMAIN trees = Q!Grid
  BY <1>2, <1>3
<1> QED
  BY <1>4, <1>5, <1>6 DEF Q!Full, Q!Uniform

\* Under the d1a policy the handshake cannot hang: when all subtasks wait for
\* the same round and everything under way has arrived, each has a forest
\* newer than the one it waits to get past.  (Under the legacy policy the
\* pools may differ in size, and the coordinator refuses the mixture.)
THEOREM HandshakeReleases ==
  ASSUME LP!D1a
  PROVE  Spec => []CommonRoundReleases
<1>1. ReleaseInv => CommonRoundReleases
  <2> SUFFICES ASSUME ReleaseInv, NEW r \in 1 .. MaxRound,
                      \A s \in Subtasks : /\ subState[s] = "WAITING" /\ currentRoundId[s] = r
                                          /\ consumed[s] = Len(treeOutput[s])
                                          /\ forest[s] = Len(forests),
                      NEW s \in Subtasks
               PROVE  forest[s] > waitingForVersion[s]
    BY DEF CommonRoundReleases
  <2> DEFINE last == Len(forests)
  <2>1. Q!Full(trees) /\ Q!Uniform(trees) /\ \A c \in Q!Grid : trees[c].round = r
    BY CommonRoundFillsGrid
  <2>2. Q!NoMissedForest /\ Q!ForestsComplete /\ JointInv
    BY DEF ReleaseInv, JointInv, GridInv, Q!AssemblyInv
  <2>3. forests # <<>> /\ forests[last].trees = trees /\ last \in Nat
    BY <2>1, <2>2, ForestCount DEF Q!NoMissedForest
  <2>4. last \in 1 .. last
    <3>1. forests \in Seq(Q!ForestMessage)
      BY <2>2 DEF JointInv, GridInv, Q!AssemblyInv, Q!TypeOK
    <3> QED
      BY <2>3, <3>1
  <2>5. forests[last].trigger.round = r
    <3>1. <<s, 0>> \in Q!Grid
      BY GridCells
    <3>2. forests[last].trees[<<s, 0>>].round = forests[last].trigger.round
      BY <2>2, <2>4, <3>1 DEF Q!ForestsComplete
    <3> QED
      BY <2>1, <2>3, <3>1, <3>2
  <2>6. /\ waitingForVersion[s] <= forest[s]
        /\ \A i \in 1 .. waitingForVersion[s] : forests[i].trigger.round < r
    BY DEF ReleaseInv, WaitsForNewer
  <2>7. waitingForVersion[s] \in Nat
    BY <2>2 DEF JointInv, P!TreesInv, P!PauseInv, P!TypeOK
  <2>8. waitingForVersion[s] # last
    BY <2>4, <2>5, <2>6
  <2> QED
    BY <2>3, <2>6, <2>7, <2>8
<1> QED
  BY <1>1, ReleaseInductive, PTL DEF Spec

(***************************************************************************)
(* The array behind the training pool.                                     *)
(***************************************************************************)
\* The bounded sequence that RingBuffer implements is the pool of a subtask.
LEMMA PoolIsTheSubtasks ==
  ASSUME Capacity = RingBufferSize
  PROVE  \A ring, x : Pool!Add(ring, x) = LP!Add(ring, x)
  BY DEF Pool!Add, LP!Add

LEMMA NextCellIs ==
  ASSUME NEW c \in Cells
  PROVE  /\ NextCell(c) = IF c + 1 = Capacity THEN 0 ELSE c + 1
         /\ NextCell(c) \in Cells
<1>1. Capacity \in Nat /\ Capacity > 0 /\ c \in Nat /\ c < Capacity
  BY RingAssumption DEF Cells
<1>2. CASE c + 1 = Capacity
  BY <1>1, <1>2 DEF NextCell, Cells
<1>3. CASE c + 1 # Capacity
  BY <1>1, <1>3 DEF NextCell, Cells
<1> QED BY <1>2, <1>3

\* As long as the buffer is not full it is filled from the first cell on.
RingInv ==
  /\ RingTypeOK
  /\ size < Capacity => head = size
  /\ \A c \in Cells : c < size => buffer[c] \in Elements

LEMMA RingInvInit == RingInit => RingInv
BY RingAssumption DEF RingInit, RingInv, RingTypeOK, Cells

LEMMA RingInvNext == RingInv /\ [RingNext]_ringVars => RingInv'
<1> SUFFICES ASSUME RingInv, [RingNext]_ringVars PROVE RingInv'
  OBVIOUS
<1> USE RingAssumption DEF RingInv, RingTypeOK
<1>1. ASSUME NEW x \in Elements, Write(x) PROVE RingInv'
  <2>1. buffer' = [buffer EXCEPT ![head] = x] /\ head' = NextCell(head)
        /\ size' = IF size < Capacity THEN size + 1 ELSE size
    BY <1>1 DEF Write
  <2>2. head' \in Cells /\ head' = IF head + 1 = Capacity THEN 0 ELSE head + 1
    BY <2>1, NextCellIs
  <2>3. buffer' \in [Cells -> Elements \cup {Null}] /\ size' \in 0 .. Capacity
    BY <2>1
  <2>4. size' < Capacity => head' = size'
    BY <2>1, <2>2
  <2>5. ASSUME NEW c \in Cells, c < size' PROVE buffer'[c] \in Elements
    <3>1. CASE c = head
      BY <2>1, <3>1
    <3>2. CASE c # head
      BY <2>1, <2>5, <3>2 DEF Cells
    <3> QED BY <3>1, <3>2
  <2> QED BY <2>2, <2>3, <2>4, <2>5 DEF Cells
<1>2. CASE Renew
  BY <1>2 DEF Renew, Cells
<1>3. CASE UNCHANGED ringVars
  BY <1>3 DEF ringVars, Cells
<1> QED BY <1>1, <1>2, <1>3 DEF RingNext

\* The elements, from the oldest on, lie in the written cells, each once.
CellsOnce ==
  /\ Oldest \in Cells
  /\ \A i \in 1 .. size : Cell(i) \in Cells /\ Cell(i) < size
  /\ \A i, j \in 1 .. size : Cell(i) = Cell(j) => i = j
  /\ \A c \in Cells : c < size => \E i \in 1 .. size : Cell(i) = c
  /\ size < Capacity => \A i \in 1 .. size : Cell(i) = i - 1

LEMMA CellsInOrder == RingInv => CellsOnce
<1> SUFFICES ASSUME RingInv PROVE CellsOnce
  OBVIOUS
<1> USE RingAssumption DEF RingInv, RingTypeOK, Cells
<1>1. Oldest \in Cells /\ (size < Capacity => Oldest = 0)
  BY DEF Oldest
<1>2. \A i \in 1 .. size : Cell(i) = IF Oldest + i <= Capacity THEN Oldest + i - 1 ELSE Oldest + i - 1 - Capacity
  BY DEF Cell
<1> HIDE DEF RingInv
<1>3. size \in 0 .. Capacity /\ Capacity \in Nat
  BY DEF RingInv
<1>4. \A i \in 1 .. size : Cell(i) \in Cells /\ Cell(i) < size
  BY <1>1, <1>2, <1>3
<1>5. \A i, j \in 1 .. size : Cell(i) = Cell(j) => i = j
  BY <1>1, <1>2, <1>3
<1>6. ASSUME NEW c \in Cells, c < size PROVE \E i \in 1 .. size : Cell(i) = c
  <2> DEFINE i == IF c >= Oldest THEN c - Oldest + 1 ELSE c - Oldest + 1 + Capacity
  <2>1. i \in 1 .. size
    BY <1>1, <1>3, <1>6
  <2>2. Cell(i) = c
    BY <1>1, <1>2, <1>3, <2>1
  <2> QED BY <2>1, <2>2
<1>7. size < Capacity => \A i \in 1 .. size : Cell(i) = i - 1
  BY <1>1, <1>2, <1>3
<1> QED BY <1>1, <1>4, <1>5, <1>6, <1>7 DEF CellsOnce

LEMMA RecentIs ==
  ASSUME RingInv
  PROVE  /\ Recent \in Seq(Elements) /\ Len(Recent) = size /\ DOMAIN Recent = 1 .. size
         /\ \A i \in 1 .. size : Recent[i] = buffer[Cell(i)]
<1>1. size \in Nat
  BY DEF RingInv, RingTypeOK
<1>2. \A i \in 1 .. size : buffer[Cell(i)] \in Elements
  BY CellsInOrder DEF CellsOnce, RingInv
<1> QED BY <1>1, <1>2 DEF Recent

LEMMA WriteAdds ==
  ASSUME RingInv, RingInv', NEW x \in Elements, Write(x)
  PROVE  Recent' = Pool!Add(Recent, x)
<1>1. /\ buffer' = [buffer EXCEPT ![head] = x]
      /\ size' = IF size < Capacity THEN size + 1 ELSE size
      /\ head' = IF head + 1 = Capacity THEN 0 ELSE head + 1
  BY NextCellIs DEF Write, RingInv, RingTypeOK
<1>2. /\ size \in 0 .. Capacity /\ Capacity \in Nat /\ Capacity > 0 /\ head \in Cells
      /\ size < Capacity => head = size
      /\ buffer \in [Cells -> Elements \cup {Null}]
  BY RingAssumption DEF RingInv, RingTypeOK
<1>3. /\ Recent \in Seq(Elements) /\ Len(Recent) = size
      /\ \A i \in 1 .. size : Recent[i] = buffer[Cell(i)]
  BY RecentIs
<1>4. /\ Recent' \in Seq(Elements) /\ Len(Recent') = size'
      /\ \A i \in 1 .. size' : Recent'[i] = buffer'[Cell(i)']
  <2>1. Recent' = [i \in 1 .. size' |-> buffer'[Cell(i)']]
    BY DEF Recent
  <2>2. \A i \in 1 .. size' : buffer'[Cell(i)'] \in Elements
    <3>1. CellsOnce'
      BY CellsInOrder, PTL
    <3> QED BY <3>1 DEF CellsOnce, RingInv
  <2>3. size' \in Nat
    BY DEF RingInv, RingTypeOK
  <2> QED BY <2>1, <2>2, <2>3
<1>5. \A i \in 1 .. size' : Cell(i)' = IF Oldest' + i <= Capacity THEN Oldest' + i - 1
                                      ELSE Oldest' + i - 1 - Capacity
  BY DEF Cell
<1>6. \A i \in 1 .. size : Cell(i) = IF Oldest + i <= Capacity THEN Oldest + i - 1
                                    ELSE Oldest + i - 1 - Capacity
  BY DEF Cell
<1> DEFINE s == Recent
           t == Recent'
<1> HIDE DEF s, t
<1>7. CASE size < Capacity
  <2>1. size' = size + 1 /\ head = size /\ Oldest = 0 /\ Oldest' = 0
    BY <1>1, <1>2, <1>7 DEF Oldest
  <2>2. /\ Append(s, x) \in Seq(Elements) /\ Len(Append(s, x)) = size + 1
        /\ \A i \in 1 .. size : Append(s, x)[i] = s[i]
        /\ Append(s, x)[size + 1] = x
    <3>1. s \in Seq(Elements) /\ Len(s) = size
      BY <1>3 DEF s
    <3> QED BY <3>1, AppendProperties
  <2>3. ASSUME NEW i \in 1 .. size + 1 PROVE t[i] = Append(s, x)[i]
    <3>1. t[i] = buffer'[i - 1]
      BY <1>2, <1>4, <1>5, <1>7, <2>1 DEF t
    <3>2. CASE i = size + 1
      <4>1. i - 1 = head /\ head \in DOMAIN buffer
        BY <1>2, <2>1, <3>2
      <4> QED BY <1>1, <2>2, <3>1, <3>2, <4>1
    <3>3. CASE i # size + 1
      <4>1. i \in 1 .. size /\ i - 1 # head /\ Cell(i) = i - 1
        BY <1>2, <1>6, <1>7, <2>1, <3>3
      <4>2. buffer'[i - 1] = buffer[i - 1]
        BY <1>1, <1>2, <4>1 DEF Cells
      <4> QED BY <1>3, <2>2, <3>1, <4>1, <4>2 DEF s
    <3> QED BY <3>2, <3>3
  <2>4. t \in Seq(Elements) /\ Len(t) = size + 1
    BY <1>4, <2>1 DEF t
  <2>5. t = Append(s, x)
    BY <2>2, <2>3, <2>4, SeqEqual
  <2> QED BY <1>3, <1>7, <2>5 DEF Pool!Add, s, t
<1>8. CASE ~(size < Capacity)
  <2>1. size = Capacity /\ size' = Capacity /\ Oldest = head /\ Oldest' = head'
    BY <1>1, <1>2, <1>8 DEF Oldest
  <2> DEFINE u == Tail(s)
  <2>2. /\ u \in Seq(Elements) /\ Len(u) = Capacity - 1
        /\ \A i \in 1 .. Capacity - 1 : u[i] = s[i + 1]
    <3>1. s \in Seq(Elements) /\ Len(s) = Capacity /\ s # <<>>
      BY <1>2, <1>3, <2>1 DEF s
    <3>2. /\ u \in Seq(Elements) /\ Len(u) = Len(s) - 1
          /\ \A i \in 1 .. Len(u) : u[i] = s[i + 1]
      BY <3>1, HeadTailProperties
    <3> QED BY <3>1, <3>2
  <2> HIDE DEF u
  <2>3. /\ Append(u, x) \in Seq(Elements) /\ Len(Append(u, x)) = Capacity
        /\ \A i \in 1 .. Capacity - 1 : Append(u, x)[i] = u[i]
        /\ Append(u, x)[Capacity] = x
    <3>1. /\ Append(u, x) \in Seq(Elements) /\ Len(Append(u, x)) = Len(u) + 1
          /\ \A i \in 1 .. Len(u) : Append(u, x)[i] = u[i]
          /\ Append(u, x)[Len(u) + 1] = x
      BY <2>2, AppendProperties
    <3>2. Len(u) + 1 = Capacity
      BY <1>2, <2>2
    <3> QED BY <2>2, <3>1, <3>2
  <2>4. ASSUME NEW i \in 1 .. Capacity PROVE t[i] = Append(u, x)[i]
    <3>1. t[i] = buffer'[Cell(i)']
      BY <1>4, <2>1 DEF t
    <3>2. CASE i = Capacity
      <4>1. Cell(i)' = head
        BY <1>1, <1>2, <1>5, <2>1, <3>2 DEF Cells
      <4> QED BY <1>1, <1>2, <2>3, <3>1, <3>2, <4>1
    <3>3. CASE i # Capacity
      <4>1. i \in 1 .. Capacity - 1 /\ i + 1 \in 1 .. size
        BY <1>2, <2>1, <3>3
      <4>2. Cell(i)' = Cell(i + 1) /\ Cell(i + 1) # head /\ Cell(i + 1) \in Cells
        BY <1>1, <1>2, <1>5, <1>6, <2>1, <4>1 DEF Cells
      <4>3. buffer'[Cell(i)'] = s[i + 1]
        BY <1>1, <1>2, <1>3, <4>1, <4>2 DEF s
      <4> QED BY <2>2, <2>3, <3>1, <4>1, <4>3
    <3> QED BY <3>2, <3>3
  <2>5. t \in Seq(Elements) /\ Len(t) = Capacity
    BY <1>4, <2>1 DEF t
  <2>6. t = Append(u, x)
    BY <2>3, <2>4, <2>5, SeqEqual
  <2> QED BY <1>3, <1>8, <2>6 DEF Pool!Add, s, t, u
<1> QED BY <1>7, <1>8

\* However often the head has gone around, the array is the bounded sequence.
THEOREM RingIsPool == RingSpec => ImplementsPool
<1>1. RingInit => Recent = <<>>
  BY DEF RingInit, Recent
<1>2. RingInv /\ RingInv' /\ [RingNext]_ringVars => [Pool!PoolNext]_Recent
  <2> SUFFICES ASSUME RingInv, RingInv', [RingNext]_ringVars
               PROVE  Pool!PoolNext \/ Recent' = Recent
    OBVIOUS
  <2>1. ASSUME NEW x \in Elements, Write(x) PROVE Pool!PoolNext
    BY <2>1, WriteAdds DEF Pool!PoolNext
  <2>2. CASE Renew
    <3>1. Recent' = <<>>
      BY <2>2 DEF Renew, Recent
    <3> QED BY <3>1 DEF Pool!PoolNext
  <2>3. CASE UNCHANGED ringVars
    BY <2>3 DEF ringVars, Recent, Cell, Oldest
  <2> QED BY <2>1, <2>2, <2>3 DEF RingNext
<1> QED BY RingInvInit, RingInvNext, <1>1, <1>2, PTL DEF RingSpec, ImplementsPool, Pool!PoolSpec

LEMMA RingInvReads == RingInv => ReadsRecent
<1> SUFFICES ASSUME RingInv PROVE ReadsRecent
  OBVIOUS
<1>1. /\ DOMAIN Recent = 1 .. size /\ Recent \in Seq(Elements)
      /\ \A i \in 1 .. size : Recent[i] = buffer[Cell(i)]
  BY RecentIs
<1>2. CellsOnce
  BY CellsInOrder
<1>3. size \in 0 .. Capacity /\ Capacity \in Nat /\ Capacity > 0
  BY RingAssumption DEF RingInv, RingTypeOK
<1>4. ASSUME NEW x \in Elements \cup {Null} PROVE Times(Snapshot, x) = Times(Recent, x)
  <2> DEFINE D == {i \in 1 .. size : buffer[Cell(i)] = x}
             T == {i \in 1 .. size : buffer[i - 1] = x}
             f == [i \in D |-> Cell(i) + 1]
  <2>1. Times(Recent, x) = Cardinality(D)
    BY <1>1 DEF Times
  <2>2. Times(Snapshot, x) = Cardinality(T)
    BY DEF Times, Snapshot
  <2>3. \A i \in 1 .. size : Cell(i) \in Cells /\ Cell(i) < size
    BY <1>2 DEF CellsOnce
  <2>4. \A i \in D : Cell(i) + 1 \in T
    BY <1>3, <2>3 DEF Cells
  <2>5. \A i, j \in D : Cell(i) + 1 = Cell(j) + 1 => i = j
    BY <1>2, <1>3, <2>3 DEF CellsOnce, Cells
  <2>6. ASSUME NEW k \in T PROVE \E i \in D : Cell(i) + 1 = k
    <3>1. k - 1 \in Cells /\ k - 1 < size
      BY <1>3 DEF Cells
    <3>2. PICK i \in 1 .. size : Cell(i) = k - 1
      BY <1>2, <3>1 DEF CellsOnce
    <3> QED BY <3>2
  <2> HIDE DEF D, T
  <2>7. f \in Bijection(D, T)
    BY <2>4, <2>5, <2>6 DEF Bijection, Injection, Surjection, IsInjective
  <2>8. IsFiniteSet(D)
    <3>1. IsFiniteSet(1 .. size)
      BY <1>3, FS_Interval
    <3>2. D \in SUBSET (1 .. size)
      BY DEF D
    <3> QED BY <3>1, <3>2, FS_Subset
  <2> HIDE DEF f
  <2>9. Cardinality(T) = Cardinality(D)
    BY <2>7, <2>8, FS_Bijection DEF ExistsBijection
  <2> QED BY <2>1, <2>2, <2>9
<1>5. Times(Recent, Null) = 0
  <2>1. \A i \in 1 .. size : Recent[i] # Null
    <3>1. Recent \in [1 .. Len(Recent) -> Elements] /\ DOMAIN Recent = 1 .. Len(Recent)
      BY <1>1, LenProperties
    <3>2. \A i \in 1 .. size : Recent[i] \in Elements
      BY <1>1, <3>1
    <3> QED BY <3>2, RingAssumption
  <2>2. {i \in DOMAIN Recent : Recent[i] = Null} = {}
    BY <1>1, <2>1
  <2> QED BY <2>2, FS_EmptySet DEF Times
<1>6. ASSUME size > 0 PROVE PeekOldest = Recent[1]
  <2>1. Oldest \in Cells /\ 1 \in 1 .. size
    BY <1>2, <1>3, <1>6 DEF CellsOnce
  <2>2. Cell(1) = Oldest
    BY <1>3, <2>1 DEF Cell, Cells
  <2> QED BY <1>1, <2>1, <2>2 DEF PeekOldest, Oldest
<1> QED BY <1>4, <1>5, <1>6 DEF ReadsRecent

\* Readers of the array get its elements, and the oldest one first in line.
THEOREM ReadersGetRecent == RingSpec => [](RingTypeOK /\ ReadsRecent)
<1>1. RingInv => RingTypeOK
  BY DEF RingInv
<1> QED BY RingInvInit, RingInvNext, RingInvReads, <1>1, PTL DEF RingSpec
=============================================================================
