----------------------------- MODULE Retraining -----------------------------
(***************************************************************************)
(* The retraining loop: scoring subtasks (LocalProcessor) and forest       *)
(* assembly (Coordinator) joined by the Kafka topics between the two jobs. *)
(*                                                                         *)
(*   drift-round-topic  --> subtasks --tree-topic--> coordinator           *)
(*                             ^----model-topic----------+                 *)
(*                                                                         *)
(* Rounds come from the aggregator, numbered 1, 2, ... (RefractorySpacing  *)
(* of DriftAggregator).  model-topic and drift-round-topic are broadcast:  *)
(* every subtask reads every message in order, at its own pace.  The trees *)
(* of one subtask stay in order; those of different subtasks interleave    *)
(* freely on their way to the coordinator.                                 *)
(***************************************************************************)
EXTENDS Integers, FiniteSets, Sequences

CONSTANTS
  Parallelism, TotalTrees, SubsampleSize, RingBufferSize, CooldownSamples,
  CooldownTimeout, InitSamples, PauseMode, CooldownPolicy, D1aFill,
  MaxSamples, MaxTime, MaxRound

VARIABLES
  \* the scoring subtasks
  forest, decision, arrived, output, backlog, ringBuffer, countdown,
  treesProduced, subState, waitingForVersion, cooldownN, cooldownWrites,
  currentRoundId, lastProcessedDecision, expiry, timers, now, treeOutput,
  \* the coordinator
  trees, currentVersion, dirty, forests,
  \* the topics between them
  consumed,    \* subtask |-> how many of its trees the coordinator has read
  committed    \* drift-round-topic holds the rounds 1 .. committed

MaxVersion == MaxRound + 1
SampleSizes == 0 .. SubsampleSize

C == INSTANCE Coordinator WITH
       batch <- consumed, saved <- consumed, restarts <- 0, MaxRestarts <- 0

Subtasks == C!Subtasks
LocalTreeCount == C!LocalTreeCount

LP == INSTANCE LocalProcessor

ASSUME RetrainingAssumption ==
  /\ SubsampleSize \in Nat \ {0}
  /\ C!CoordinatorAssumption
  /\ LP!LocalProcessorAssumption

scoringVars == <<forest, decision, arrived, output, backlog, ringBuffer, countdown,
                 treesProduced, subState, waitingForVersion, cooldownN, cooldownWrites,
                 currentRoundId, lastProcessedDecision, expiry, timers, now, treeOutput>>
assemblyVars == <<trees, currentVersion, dirty, forests>>
topicVars == <<consumed, committed>>
vars == <<scoringVars, assemblyVars, topicVars>>

Init ==
  /\ LP!Init
  /\ trees = [c \in {} |-> 0] /\ currentVersion = 0 /\ dirty = FALSE /\ forests = <<>>
  /\ consumed = [s \in Subtasks |-> 0]
  /\ committed = 0

\* The aggregator commits the next round.
CommitRound ==
  /\ committed < MaxRound
  /\ committed' = committed + 1
  /\ UNCHANGED <<scoringVars, assemblyVars, consumed>>

\* Subtask s reads the next message of drift-round-topic or of model-topic.
DeliverDecision(s) ==
  /\ decision[s] < committed
  /\ LP!ReceiveDecision(s, decision[s] + 1)
  /\ UNCHANGED <<assemblyVars, topicVars>>

DeliverForest(s) ==
  /\ forest[s] < Len(forests)
  /\ LP!ReceiveForest(s, forests[forest[s] + 1].version)
  /\ UNCHANGED <<assemblyVars, topicVars>>

\* A sample, or a due timer, at subtask s.
ScoreSample(s) ==
  /\ LP!NextElement(s)
  /\ UNCHANGED <<assemblyVars, topicVars>>

FireTimer(s) ==
  /\ LP!FireTimer(s)
  /\ UNCHANGED <<assemblyVars, topicVars>>

Tick ==
  /\ LP!Tick
  /\ UNCHANGED <<assemblyVars, topicVars>>

\* The coordinator reads the next tree of subtask s; the tree's psi is the
\* configured one or the size of its pool.
AssembleTree(s) ==
  /\ consumed[s] < Len(treeOutput[s])
  /\ consumed' = [consumed EXCEPT ![s] = @ + 1]
  /\ LET m == treeOutput[s][consumed[s] + 1]
     IN  C!ProcessElement(
           [producerSubtask |-> m.producerSubtask, slotIndex |-> m.slotIndex,
            round |-> m.round, batchEnd |-> m.batchEnd,
            subsampleSize |-> IF m.poolSize < SubsampleSize THEN m.poolSize
                                                            ELSE SubsampleSize])
  /\ UNCHANGED <<scoringVars, committed>>

Next ==
  \/ CommitRound
  \/ Tick
  \/ \E s \in Subtasks :
       \/ DeliverDecision(s) \/ DeliverForest(s)
       \/ ScoreSample(s) \/ FireTimer(s) \/ AssembleTree(s)

Spec == Init /\ [][Next]_vars

(***************************************************************************)
(* Properties.                                                             *)
(***************************************************************************)

\* No forest of a round is published before every subtask has handled that
\* round's decision: a subtask that aborted or was overtaken withholds it.
ForestNeedsEverySubtask ==
  \A i \in 1 .. Len(forests) : \A s \in Subtasks :
    forests[i].trigger.round <= lastProcessedDecision[s]

\* The handshake cannot hang: when all subtasks wait for the same round and
\* everything under way has arrived, each has a forest newer than the one it
\* waits to get past, so its next sample releases it.
CommonRoundReleases ==
  LET quiet == /\ \A s \in Subtasks : consumed[s] = Len(treeOutput[s])
               /\ \A s \in Subtasks : forest[s] = Len(forests)
      alike == \E r \in 1 .. MaxRound : \A s \in Subtasks :
                 subState[s] = "WAITING" /\ currentRoundId[s] = r
  IN  quiet /\ alike => \A s \in Subtasks : forest[s] > waitingForVersion[s]
=============================================================================
