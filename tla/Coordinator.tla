---------------------------- MODULE Coordinator ----------------------------
(***************************************************************************)
(* CoordinatorFunction: the operator of the coordinator job that collects  *)
(* the trees of all scoring subtasks (tree-topic) into a grid indexed by   *)
(* (subtask, slot) and publishes a forest version (model-topic) whenever   *)
(* the grid is full and uniform.                                           *)
(*                                                                         *)
(* Each subtask writes its trees in batches, slot 0 first; the batches of  *)
(* different subtasks interleave on the topic and a subtask may skip a     *)
(* round (its COOLDOWN was aborted, or overtaken by the next decision).    *)
(* When the scoring job restarts, its subtasks fall back to their last     *)
(* checkpoint and write again what follows it.                             *)
(***************************************************************************)
EXTENDS Integers, FiniteSets, Sequences

CONSTANTS
  Parallelism,   \* number of scoring subtasks
  TotalTrees,    \* trees of a forest, before rounding up
  SampleSizes,   \* values the psi of a tree may take
  MaxRound,      \* bound: the largest drift round
  MaxRestarts    \* bound: restarts of the scoring job

ASSUME CoordinatorAssumption ==
  /\ Parallelism \in Nat \ {0}
  /\ TotalTrees \in Nat \ {0}
  /\ SampleSizes \subseteq Nat
  /\ MaxRound \in Nat
  /\ MaxRestarts \in Nat

\* ceil(totalTrees / parallelism): every subtask grows the same number.
LocalTreeCount == (TotalTrees + Parallelism - 1) \div Parallelism

Subtasks == 0 .. Parallelism - 1
Slots == 0 .. LocalTreeCount - 1
Grid == Subtasks \X Slots        \* expectedSlots = |Grid|
Rounds == 0 .. MaxRound          \* round 0 is the cold start (Phase B)

\* An ITreeMessage; round is the low half of its batchId.
ITreeMessage ==
  [producerSubtask : Nat, slotIndex : Nat, round : Rounds,
   batchEnd : BOOLEAN, subsampleSize : SampleSizes]

\* The batch a subtask is writing: its round, its next slot, its trees' psi.
Batch == [round : Rounds, next : 0 .. LocalTreeCount, size : SampleSizes]

VARIABLES
  trees,           \* (subtask, slot) |-> the tree stored last, where there is one
  currentVersion,  \* version of the last forest; 0 is the code's null
  dirty,           \* a tree was stored since the last complete grid
  forests,         \* model-topic, with the message that triggered each forest
  batch,           \* subtask |-> the batch it is writing and its next slot
  saved,           \* batch as of the scoring job's last checkpoint
  restarts         \* restarts so far

coordinatorVars == <<trees, currentVersion, dirty, forests>>
producerVars == <<batch, saved, restarts>>
vars == <<trees, currentVersion, dirty, forests, batch, saved, restarts>>

Init ==
  /\ trees = [c \in {} |-> 0]
  /\ currentVersion = 0
  /\ dirty = FALSE
  /\ forests = <<>>
  /\ batch \in [Subtasks -> [round : {0}, next : {0}, size : SampleSizes]]
  /\ saved = batch
  /\ restarts = 0

(***************************************************************************)
(* The handler.                                                            *)
(***************************************************************************)
\* Mutant of InBounds: the slot is not checked.
InBoundsSubtask(msg) == msg.producerSubtask \in Subtasks

InBounds(msg) == msg.producerSubtask \in Subtasks /\ msg.slotIndex \in Slots

\* The grid once `msg` has overwritten its cell.
Store(msg) ==
  LET key == <<msg.producerSubtask, msg.slotIndex>>
  IN  [c \in DOMAIN trees \cup {key} |-> IF c = key THEN msg ELSE trees[c]]

\* Mutant of Full: one tree of every subtask is enough.
FullBySubtask(grid) == {c[1] : c \in DOMAIN grid} = Subtasks

Full(grid) == DOMAIN grid = Grid

\* Mutant of Uniform: the round check is dropped.
UniformSize(grid) ==
  \A c, d \in DOMAIN grid : grid[c].subsampleSize = grid[d].subsampleSize

\* fireForest's checks: one drift round, one psi, across the whole forest.
Uniform(grid) ==
  \A c, d \in DOMAIN grid : /\ grid[c].round = grid[d].round
                            /\ grid[c].subsampleSize = grid[d].subsampleSize

\* A ForestMessage, with (as history) the tree that triggered it.
ForestMessage == [version : Nat, trees : [Grid -> ITreeMessage], trigger : ITreeMessage]

Forest(version, grid, msg) ==
  [version |-> version, trees |-> grid, trigger |-> msg]

\* Out of bounds: logged and dropped.
Skip(msg) ==
  /\ ~InBounds(msg)
  /\ UNCHANGED coordinatorVars

\* The grid is not full yet.
Collect(msg) ==
  /\ InBounds(msg)
  /\ ~Full(Store(msg))
  /\ trees' = Store(msg)
  /\ dirty' = TRUE
  /\ UNCHANGED <<currentVersion, forests>>

\* The grid is full but fireForest refuses it: mixed rounds or sizes.
Refuse(msg) ==
  /\ InBounds(msg)
  /\ Full(Store(msg))
  /\ ~Uniform(Store(msg))
  /\ trees' = Store(msg)
  /\ dirty' = FALSE
  /\ UNCHANGED <<currentVersion, forests>>

\* Mutant of FireForest: currentVersion is not written back.
FireForestForgetsVersion(msg) ==
  /\ InBounds(msg)
  /\ Full(Store(msg))
  /\ Uniform(Store(msg))
  /\ trees' = Store(msg)
  /\ dirty' = FALSE
  /\ forests' = Append(forests, Forest(currentVersion + 1, Store(msg), msg))
  /\ UNCHANGED currentVersion

\* The grid is full and uniform: the next version is published.
FireForest(msg) ==
  /\ InBounds(msg)
  /\ Full(Store(msg))
  /\ Uniform(Store(msg))
  /\ trees' = Store(msg)
  /\ dirty' = FALSE
  /\ currentVersion' = currentVersion + 1
  /\ forests' = Append(forests, Forest(currentVersion + 1, Store(msg), msg))

\* Mutant of ProcessElement: a full grid waits for a tree with batchEnd.
ProcessElementOnBatchEnd(msg) ==
  \/ Skip(msg) \/ Collect(msg) \/ Refuse(msg)
  \/ msg.batchEnd /\ FireForest(msg)
  \/ /\ InBounds(msg) /\ Full(Store(msg)) /\ ~msg.batchEnd
     /\ trees' = Store(msg)
     /\ dirty' = TRUE
     /\ UNCHANGED <<currentVersion, forests>>

ProcessElement(msg) == Skip(msg) \/ Collect(msg) \/ Refuse(msg) \/ FireForest(msg)

(***************************************************************************)
(* The environment: the scoring subtasks behind tree-topic.                *)
(***************************************************************************)

\* Subtask s writes the next tree of its batch.
SendTree(s) ==
  /\ batch[s].next \in Slots
  /\ batch' = [batch EXCEPT ![s].next = @ + 1]
  /\ ProcessElement([producerSubtask |-> s,
                     slotIndex |-> batch[s].next,
                     round |-> batch[s].round,
                     batchEnd |-> batch[s].next = LocalTreeCount - 1,
                     subsampleSize |-> batch[s].size])
  /\ UNCHANGED <<saved, restarts>>

\* Subtask s, its batch written, starts the batch of a later round.
StartBatch(s) ==
  /\ batch[s].next = LocalTreeCount
  /\ \E r \in Rounds, z \in SampleSizes :
       /\ r > batch[s].round
       /\ batch' = [batch EXCEPT ![s] = [round |-> r, next |-> 0, size |-> z]]
  /\ UNCHANGED <<coordinatorVars, saved, restarts>>

\* A tree of a job started with another parallelism or another tree count.
SendStray ==
  /\ \E s \in Subtasks \cup {Parallelism}, i \in Slots \cup {LocalTreeCount},
        r \in Rounds, z \in SampleSizes :
       /\ s \notin Subtasks \/ i \notin Slots
       /\ ProcessElement([producerSubtask |-> s, slotIndex |-> i, round |-> r,
                          batchEnd |-> FALSE, subsampleSize |-> z])
  /\ UNCHANGED producerVars

Produce == \/ \E s \in Subtasks : SendTree(s) \/ StartBatch(s)
           \/ SendStray

\* The scoring job completes a checkpoint, or restarts from it.
Checkpoint ==
  /\ restarts < MaxRestarts
  /\ saved' = batch
  /\ UNCHANGED <<coordinatorVars, batch, restarts>>

Restart ==
  /\ restarts < MaxRestarts
  /\ restarts' = restarts + 1
  /\ batch' = saved
  /\ UNCHANGED <<coordinatorVars, saved>>

Next == Produce \/ Checkpoint \/ Restart

Spec == Init /\ [][Next]_vars

(***************************************************************************)
(* Properties.                                                             *)
(***************************************************************************)

\* Type invariant; in particular a stray tree never enters the grid.
TypeOK ==
  /\ DOMAIN trees \subseteq Grid
  /\ \A c \in DOMAIN trees : trees[c] \in ITreeMessage
  /\ currentVersion \in Nat
  /\ dirty \in BOOLEAN
  /\ forests \in Seq(ForestMessage)
  /\ Len(forests) = currentVersion
  /\ batch \in [Subtasks -> Batch]
  /\ saved \in [Subtasks -> Batch]
  /\ restarts \in 0 .. MaxRestarts

\* Versions are 1, 2, ... and every forest is the complete work of one
\* round: all its trees in their cells, of one round and one psi.
ForestsComplete ==
  \A i \in 1 .. Len(forests) :
    /\ forests[i].version = i
    /\ Full(forests[i].trees)
    /\ \A c \in Grid : /\ forests[i].trees[c].producerSubtask = c[1]
                       /\ forests[i].trees[c].slotIndex = c[2]
                       /\ forests[i].trees[c].round = forests[i].trigger.round
                       /\ forests[i].trees[c].subsampleSize =
                            forests[i].trigger.subsampleSize

\* A full uniform grid is never left unpublished: it is the grid of the
\* last forest, whatever stale, stray or repeated trees came in between.
NoMissedForest ==
  Full(trees) /\ Uniform(trees) =>
    /\ forests # <<>>
    /\ forests[Len(forests)].trees = trees

\* Later versions belong to later rounds.
RoundsIncrease ==
  \A i, j \in 1 .. Len(forests) :
    i < j => forests[i].trigger.round < forests[j].trigger.round

\* As long as every tree is written once, a round yields at most one forest
\* and later versions belong to later rounds, although overwriting is
\* silent, the dirty flag is reset by refused grids and rounds are skipped.
OneForestPerRound == restarts = 0 => RoundsIncrease

\* ITreeMessage.batchEnd: "Coordinator triggers a new forest version only
\* when batchEnd=true".
FiresOnlyOnBatchEnd ==
  \A i \in 1 .. Len(forests) : forests[i].trigger.batchEnd
============================================================================
