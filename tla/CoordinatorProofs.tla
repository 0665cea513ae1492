------------------------- MODULE CoordinatorProofs -------------------------
(***************************************************************************)
(* Theorems about Coordinator, for every parallelism, number of trees and  *)
(* number of rounds.                                                       *)
(***************************************************************************)
EXTENDS Coordinator, SequenceTheorems, TLAPS

LEMMA TreeCountIsNat == LocalTreeCount \in Int
  BY CoordinatorAssumption DEF LocalTreeCount

\* Storing a tree of the grid writes its cell and leaves the others alone.
LEMMA StoreFacts ==
  ASSUME TypeOK, NEW msg \in ITreeMessage, InBounds(msg)
  PROVE  LET key == <<msg.producerSubtask, msg.slotIndex>>
         IN  /\ key \in Grid
             /\ DOMAIN Store(msg) = DOMAIN trees \cup {key}
             /\ DOMAIN Store(msg) \subseteq Grid
             /\ Store(msg)[key] = msg
             /\ \A c \in DOMAIN trees \ {key} : Store(msg)[c] = trees[c]
             /\ \A c \in DOMAIN Store(msg) : Store(msg)[c] \in ITreeMessage
             /\ Store(msg) = [c \in DOMAIN Store(msg) |-> Store(msg)[c]]
<1> DEFINE key == <<msg.producerSubtask, msg.slotIndex>>
<1>1. key \in Grid
  BY DEF InBounds, Grid
<1>2. Store(msg) = [c \in DOMAIN trees \cup {key} |-> IF c = key THEN msg ELSE trees[c]]
  BY DEF Store
<1>3. DOMAIN trees \subseteq Grid /\ \A c \in DOMAIN trees : trees[c] \in ITreeMessage
  BY DEF TypeOK
<1> QED
  BY <1>1, <1>2, <1>3

\* What the handler does to the forests: nothing, or it appends one whose
\* trees are the new grid, full and uniform.
LEMMA HandlerFacts ==
  ASSUME TypeOK, NEW msg \in ITreeMessage, ProcessElement(msg)
  PROVE  /\ \/ trees' = trees
            \/ InBounds(msg) /\ trees' = Store(msg)
         /\ DOMAIN trees' \subseteq Grid
         /\ \A c \in DOMAIN trees' : trees'[c] \in ITreeMessage
         /\ dirty' \in BOOLEAN
         /\ currentVersion' \in Nat
         /\ \/ forests' = forests /\ currentVersion' = currentVersion
            \/ /\ InBounds(msg) /\ trees' = Store(msg)
               /\ Full(trees') /\ Uniform(trees')
               /\ currentVersion' = currentVersion + 1
               /\ Forest(currentVersion', trees', msg) \in ForestMessage
               /\ forests' = Append(forests, Forest(currentVersion', trees', msg))
<1>1. CASE Skip(msg)
  BY <1>1 DEF Skip, coordinatorVars, TypeOK
<1>2. CASE Collect(msg)
  BY <1>2, StoreFacts DEF Collect, TypeOK
<1>3. CASE Refuse(msg)
  BY <1>3, StoreFacts DEF Refuse, TypeOK
<1>4. CASE FireForest(msg)
  <2>1. /\ InBounds(msg) /\ trees' = Store(msg) /\ Full(trees') /\ Uniform(trees')
        /\ currentVersion' = currentVersion + 1
        /\ dirty' = FALSE
        /\ forests' = Append(forests, Forest(currentVersion', trees', msg))
    BY <1>4 DEF FireForest, Full, Uniform
  <2>2. /\ DOMAIN trees' \subseteq Grid
        /\ \A c \in DOMAIN trees' : trees'[c] \in ITreeMessage
        /\ trees' = [c \in DOMAIN trees' |-> trees'[c]]
    BY <2>1, StoreFacts
  <2>3. trees' \in [Grid -> ITreeMessage]
    BY <2>1, <2>2 DEF Full
  <2>4. currentVersion' \in Nat
    BY <2>1 DEF TypeOK
  <2>5. Forest(currentVersion', trees', msg) \in ForestMessage
    BY <2>3, <2>4 DEF Forest, ForestMessage
  <2> QED
    BY <2>1, <2>2, <2>4, <2>5
<1> QED
  BY <1>1, <1>2, <1>3, <1>4 DEF ProcessElement

\* The tree a subtask sends next.
NextTree(s) ==
  [producerSubtask |-> s, slotIndex |-> batch[s].next, round |-> batch[s].round,
   batchEnd |-> batch[s].next = LocalTreeCount - 1, subsampleSize |-> batch[s].size]

LEMMA SendTreeFacts ==
  ASSUME TypeOK, NEW s \in Subtasks, SendTree(s)
  PROVE  /\ NextTree(s) \in ITreeMessage
         /\ ProcessElement(NextTree(s))
         /\ InBounds(NextTree(s))
         /\ batch' = [batch EXCEPT ![s].next = @ + 1]
         /\ batch' \in [Subtasks -> Batch]
         /\ UNCHANGED <<saved, restarts>>
<1>1. batch[s] \in Batch /\ batch[s].next \in Slots
  BY DEF TypeOK, SendTree
<1>2. s \in Nat /\ batch[s].next \in Nat /\ batch[s].next + 1 \in 0 .. LocalTreeCount
  BY <1>1, TreeCountIsNat, CoordinatorAssumption DEF Subtasks, Slots
<1>3. NextTree(s) \in ITreeMessage
  BY <1>1, <1>2 DEF NextTree, ITreeMessage, Batch
<1>4. batch' = [batch EXCEPT ![s].next = @ + 1] /\ UNCHANGED <<saved, restarts>>
  BY DEF SendTree
<1>5. batch' \in [Subtasks -> Batch]
  BY <1>1, <1>2, <1>4 DEF TypeOK, Batch
<1>6. ProcessElement(NextTree(s)) /\ InBounds(NextTree(s))
  BY <1>1 DEF SendTree, NextTree, InBounds
<1> QED
  BY <1>3, <1>4, <1>5, <1>6

LEMMA StrayFacts ==
  ASSUME TypeOK, SendStray
  PROVE  UNCHANGED vars
<1>1. PICK s \in Subtasks \cup {Parallelism}, i \in Slots \cup {LocalTreeCount},
           r \in Rounds, z \in SampleSizes :
        /\ s \notin Subtasks \/ i \notin Slots
        /\ ProcessElement([producerSubtask |-> s, slotIndex |-> i, round |-> r,
                           batchEnd |-> FALSE, subsampleSize |-> z])
  BY DEF SendStray
<1>2. UNCHANGED coordinatorVars
  BY <1>1 DEF ProcessElement, Skip, Collect, Refuse, FireForest, InBounds
<1> QED
  BY <1>2 DEF SendStray, vars, coordinatorVars, producerVars

\* The handler keeps the types.
LEMMA TypeKept ==
  ASSUME TypeOK, NEW msg \in ITreeMessage, ProcessElement(msg),
         batch' \in [Subtasks -> Batch], UNCHANGED <<saved, restarts>>
  PROVE  TypeOK'
<1>1. /\ DOMAIN trees' \subseteq Grid
      /\ \A c \in DOMAIN trees' : trees'[c] \in ITreeMessage
      /\ dirty' \in BOOLEAN /\ currentVersion' \in Nat
      /\ \/ forests' = forests /\ currentVersion' = currentVersion
         \/ /\ currentVersion' = currentVersion + 1
            /\ Forest(currentVersion', trees', msg) \in ForestMessage
            /\ forests' = Append(forests, Forest(currentVersion', trees', msg))
  BY HandlerFacts
<1>2. forests' \in Seq(ForestMessage) /\ Len(forests') = currentVersion'
  <2>1. forests \in Seq(ForestMessage) /\ Len(forests) = currentVersion
    BY DEF TypeOK
  <2> DEFINE new == Forest(currentVersion', trees', msg)
  <2>2. CASE forests' = forests /\ currentVersion' = currentVersion
    BY <2>1, <2>2
  <2>3. CASE new \in ForestMessage /\ forests' = Append(forests, new)
             /\ currentVersion' = currentVersion + 1
    <3> HIDE DEF new
    <3> QED
      BY <2>1, <2>3
  <2> QED
    BY <1>1, <2>2, <2>3
<1> QED
  BY <1>1, <1>2 DEF TypeOK

\* The types hold initially and are preserved by every step, restarts
\* included.
LEMMA TypeInductive ==
  /\ Init => TypeOK
  /\ TypeOK /\ [Next]_vars => TypeOK'
<1> USE CoordinatorAssumption
<1>1. Init => TypeOK
  <2> SUFFICES ASSUME Init PROVE TypeOK
    OBVIOUS
  <2>1. 0 \in 0 .. LocalTreeCount
    BY DEF LocalTreeCount
  <2>2. batch \in [Subtasks -> Batch]
    BY <2>1 DEF Init, Batch, Rounds
  <2>3. DOMAIN trees = {}
    BY DEF Init
  <2>4. forests \in Seq(ForestMessage) /\ Len(forests) = currentVersion
    BY EmptySeq DEF Init
  <2>5. currentVersion \in Nat /\ restarts \in 0 .. MaxRestarts
    BY DEF Init
  <2>6. saved = batch /\ dirty \in BOOLEAN
    BY Zenon DEF Init
  <2> QED
    BY <2>2, <2>3, <2>4, <2>5, <2>6 DEF TypeOK
<1>2. TypeOK /\ [Next]_vars => TypeOK'
  <2> SUFFICES ASSUME TypeOK, [Next]_vars PROVE TypeOK'
    OBVIOUS
  <2>1. CASE UNCHANGED vars
    BY <2>1 DEF TypeOK, vars
  <2>2. ASSUME NEW s \in Subtasks, SendTree(s) PROVE TypeOK'
    <3>1. /\ NextTree(s) \in ITreeMessage /\ ProcessElement(NextTree(s))
          /\ batch' \in [Subtasks -> Batch]
          /\ UNCHANGED <<saved, restarts>>
      BY <2>2, SendTreeFacts
    <3> QED
      BY <3>1, TypeKept
  <2>3. ASSUME NEW s \in Subtasks, StartBatch(s) PROVE TypeOK'
    <3>1. PICK r \in Rounds, z \in SampleSizes :
            batch' = [batch EXCEPT ![s] = [round |-> r, next |-> 0, size |-> z]]
      BY <2>3 DEF StartBatch
    <3>2. 0 \in 0 .. LocalTreeCount
      BY DEF LocalTreeCount
    <3>3. batch' \in [Subtasks -> Batch]
      BY <3>1, <3>2 DEF TypeOK, Batch
    <3> QED
      BY <2>3, <3>3 DEF StartBatch, TypeOK, coordinatorVars
  <2>4. CASE SendStray
    BY <2>4, StrayFacts DEF TypeOK, vars
  <2>5. CASE Checkpoint
    BY <2>5 DEF Checkpoint, TypeOK, coordinatorVars
  <2>6. CASE Restart
    BY <2>6 DEF Restart, TypeOK, coordinatorVars
  <2> QED
    BY <2>1, <2>2, <2>3, <2>4, <2>5, <2>6 DEF Next, Produce
<1> QED
  BY <1>1, <1>2

\* The type invariant holds with and without restarts; stray trees never
\* enter the grid.
THEOREM TypeCorrect == Spec => []TypeOK
  BY TypeInductive, PTL DEF Spec

(***************************************************************************)
(* No complete grid is missed, and every forest is complete.               *)
(***************************************************************************)

\* A tree is stored in its own cell.
CellsMatch ==
  \A c \in DOMAIN trees : /\ trees[c].producerSubtask = c[1]
                          /\ trees[c].slotIndex = c[2]

AssemblyInv == TypeOK /\ CellsMatch /\ NoMissedForest /\ ForestsComplete

LEMMA CellsMatchKept ==
  ASSUME TypeOK, CellsMatch, NEW msg \in ITreeMessage, ProcessElement(msg)
  PROVE  CellsMatch'
<1> DEFINE key == <<msg.producerSubtask, msg.slotIndex>>
<1>1. CASE trees' = trees
  BY <1>1 DEF CellsMatch
<1>2. CASE InBounds(msg) /\ trees' = Store(msg)
  <2>1. /\ DOMAIN trees' = DOMAIN trees \cup {key}
        /\ trees'[key] = msg
        /\ \A c \in DOMAIN trees \ {key} : trees'[c] = trees[c]
    BY <1>2, StoreFacts
  <2> QED
    BY <2>1 DEF CellsMatch
<1> QED
  BY <1>1, <1>2, HandlerFacts

\* A tree that the handler stores leaves no full uniform grid unpublished
\* and publishes nothing but complete forests.
LEMMA AssemblyKept ==
  ASSUME AssemblyInv, TypeOK', NEW msg \in ITreeMessage, InBounds(msg), ProcessElement(msg)
  PROVE  AssemblyInv'
<1>0. TypeOK /\ TypeOK'
  BY DEF AssemblyInv
<1>1. CellsMatch'
  BY <1>0, CellsMatchKept DEF AssemblyInv
<1>2. CASE Collect(msg) \/ Refuse(msg)
  <2>1. ~(Full(trees') /\ Uniform(trees')) /\ forests' = forests
    BY <1>2 DEF Collect, Refuse, Full, Uniform
  <2> QED
    BY <1>0, <1>1, <2>1
    DEF AssemblyInv, NoMissedForest, ForestsComplete, Full, Uniform
<1>3. CASE FireForest(msg)
  <2> DEFINE last == Len(forests) + 1
  <2>1. /\ trees' = Store(msg) /\ Full(trees') /\ Uniform(trees')
        /\ forests' = Append(forests, Forest(currentVersion + 1, trees', msg))
        /\ currentVersion = Len(forests)
    BY <1>0, <1>3 DEF FireForest, Full, Uniform, TypeOK
  <2>2. /\ Len(forests') = last
        /\ forests'[last] = Forest(last, trees', msg)
        /\ \A i \in 1 .. Len(forests) : forests'[i] = forests[i]
    BY <1>0, <2>1 DEF TypeOK
  <2>3. /\ forests'[last].version = last
        /\ forests'[last].trees = trees'
        /\ forests'[last].trigger = msg
    BY <2>2 DEF Forest
  <2>4. NoMissedForest'
    BY <1>0, <2>1, <2>2, <2>3 DEF NoMissedForest
  <2>5. \A c \in Grid : /\ trees'[c].round = msg.round
                        /\ trees'[c].subsampleSize = msg.subsampleSize
                        /\ trees'[c].producerSubtask = c[1]
                        /\ trees'[c].slotIndex = c[2]
    <3> DEFINE key == <<msg.producerSubtask, msg.slotIndex>>
    <3>1. key \in Grid /\ trees'[key] = msg /\ DOMAIN trees' = Grid
      BY <1>0, <2>1, StoreFacts DEF Full
    <3>2. \A c \in Grid : /\ trees'[c].round = msg.round
                          /\ trees'[c].subsampleSize = msg.subsampleSize
      BY <2>1, <3>1 DEF Uniform
    <3> QED
      BY <1>1, <3>1, <3>2 DEF CellsMatch
  <2>6. ForestsComplete'
    <3> SUFFICES ASSUME NEW i \in 1 .. Len(forests')
                 PROVE  /\ forests'[i].version = i
                        /\ Full(forests'[i].trees)
                        /\ \A c \in Grid :
                             /\ forests'[i].trees[c].producerSubtask = c[1]
                             /\ forests'[i].trees[c].slotIndex = c[2]
                             /\ forests'[i].trees[c].round = forests'[i].trigger.round
                             /\ forests'[i].trees[c].subsampleSize =
                                  forests'[i].trigger.subsampleSize
      BY DEF ForestsComplete, Full
    <3>1. CASE i = last
      BY <2>1, <2>3, <2>5, <3>1 DEF Full
    <3>2. CASE i \in 1 .. Len(forests)
      BY <2>2, <3>2 DEF AssemblyInv, ForestsComplete
    <3> QED
      BY <1>0, <2>2, <3>1, <3>2 DEF TypeOK
  <2> QED
    BY <1>0, <1>1, <2>4, <2>6 DEF AssemblyInv
<1> QED
  BY <1>2, <1>3 DEF ProcessElement, Skip

LEMMA AssemblyInductive ==
  /\ Init => AssemblyInv
  /\ AssemblyInv /\ [Next]_vars => AssemblyInv'
<1> USE CoordinatorAssumption
<1>1. Init => AssemblyInv
  <2> SUFFICES ASSUME Init PROVE AssemblyInv
    OBVIOUS
  <2>1. TypeOK
    BY TypeInductive
  <2>2. DOMAIN trees = {} /\ forests = <<>>
    BY DEF Init
  <2>3. Grid # {}
    <3>1. 0 \in Subtasks
      BY DEF Subtasks
    <3>2. TotalTrees + Parallelism - 1 >= Parallelism
      OBVIOUS
    <3>3. LocalTreeCount >= 1
      BY <3>2 DEF LocalTreeCount
    <3>4. 0 \in Slots
      BY <3>3, TreeCountIsNat DEF Slots
    <3>5. <<0, 0>> \in Grid
      BY <3>1, <3>4 DEF Grid
    <3> QED
      BY <3>5
  <2> QED
    BY <2>1, <2>2, <2>3
    DEF AssemblyInv, CellsMatch, NoMissedForest, ForestsComplete, Full
<1>2. AssemblyInv /\ [Next]_vars => AssemblyInv'
  <2> SUFFICES ASSUME AssemblyInv, [Next]_vars PROVE AssemblyInv'
    OBVIOUS
  <2>0. TypeOK /\ TypeOK'
    BY TypeInductive DEF AssemblyInv
  <2>1. CASE UNCHANGED coordinatorVars
    BY <2>0, <2>1 DEF AssemblyInv, CellsMatch, NoMissedForest, ForestsComplete,
                      Full, Uniform, coordinatorVars
  <2>2. ASSUME NEW s \in Subtasks, SendTree(s) PROVE AssemblyInv'
    BY <2>0, <2>2, SendTreeFacts, AssemblyKept
  <2>3. ASSUME NEW s \in Subtasks, StartBatch(s) PROVE UNCHANGED coordinatorVars
    BY <2>3 DEF StartBatch
  <2>4. CASE SendStray
    BY <2>0, <2>1, <2>4, StrayFacts DEF vars, coordinatorVars
  <2>5. CASE Checkpoint \/ Restart \/ UNCHANGED vars
    BY <2>1, <2>5 DEF Checkpoint, Restart, vars, coordinatorVars
  <2> QED
    BY <2>1, <2>2, <2>3, <2>4, <2>5 DEF Next, Produce
<1> QED
  BY <1>1, <1>2

\* A full uniform grid is the grid of the last forest, restarts included:
\* the handler leaves none unpublished.
THEOREM NoForestMissed == Spec => []NoMissedForest
<1>1. AssemblyInv => NoMissedForest
  BY DEF AssemblyInv
<1> QED
  BY <1>1, AssemblyInductive, PTL DEF Spec

\* Every published forest is the complete work of one round and the versions
\* count from 1, restarts included.
THEOREM ForestsAreComplete == Spec => []ForestsComplete
<1>1. AssemblyInv => ForestsComplete
  BY DEF AssemblyInv
<1> QED
  BY <1>1, AssemblyInductive, PTL DEF Spec

(***************************************************************************)
(* A round yields at most one forest when every tree is written once.      *)
(***************************************************************************)

\* What is stored is not ahead of what its subtask writes, and is of an
\* earlier round in the slots the subtask has yet to write.
StoredBehindBatch ==
  \A c \in DOMAIN trees :
    /\ trees[c].round <= batch[c[1]].round
    /\ c[2] >= batch[c[1]].next => trees[c].round < batch[c[1]].round

\* Once a forest is out the grid stays full and no cell falls behind it.
ForestsBehindGrid ==
  \A i \in 1 .. Len(forests) :
    Full(trees) /\ \A c \in Grid : trees[c].round >= forests[i].trigger.round

OnceInv == TypeOK /\ StoredBehindBatch /\ ForestsBehindGrid /\ RoundsIncrease

LEMMA GridRounds ==
  ASSUME TypeOK, NEW c \in DOMAIN trees
  PROVE  /\ trees[c].round \in Int /\ c[1] \in Subtasks /\ c[2] \in Int
         /\ batch[c[1]].round \in Int /\ batch[c[1]].next \in Int
<1>1. c \in Grid /\ trees[c] \in ITreeMessage
  BY DEF TypeOK
<1>2. c[1] \in Subtasks /\ c[2] \in Int
  BY <1>1, TreeCountIsNat DEF Grid, Slots
<1>3. batch[c[1]] \in Batch
  BY <1>2 DEF TypeOK
<1> QED
  BY <1>1, <1>2, <1>3, TreeCountIsNat DEF ITreeMessage, Batch, Rounds

LEMMA OnceInductive ==
  /\ Init => OnceInv
  /\ OnceInv /\ [Produce]_vars => OnceInv'
<1> USE CoordinatorAssumption
<1>1. Init => OnceInv
  <2> SUFFICES ASSUME Init PROVE OnceInv
    OBVIOUS
  <2>1. TypeOK
    BY TypeInductive
  <2>2. DOMAIN trees = {} /\ Len(forests) = 0
    BY DEF Init
  <2> QED
    BY <2>1, <2>2 DEF OnceInv, StoredBehindBatch, ForestsBehindGrid, RoundsIncrease
<1>2. OnceInv /\ [Produce]_vars => OnceInv'
  <2> SUFFICES ASSUME OnceInv, [Produce]_vars PROVE OnceInv'
    OBVIOUS
  <2>0. TypeOK /\ TypeOK'
    BY TypeInductive DEF OnceInv, Next
  <2>1. CASE UNCHANGED vars
    BY <2>0, <2>1 DEF OnceInv, StoredBehindBatch, ForestsBehindGrid, RoundsIncrease,
                      Full, vars
  <2>2. ASSUME NEW s \in Subtasks, SendTree(s) PROVE OnceInv'
    <3> DEFINE msg == NextTree(s)
               key == <<msg.producerSubtask, msg.slotIndex>>
    <3>1. /\ msg \in ITreeMessage /\ ProcessElement(msg) /\ InBounds(msg)
          /\ batch' = [batch EXCEPT ![s].next = @ + 1]
      BY <2>0, <2>2, SendTreeFacts
    <3>2. /\ key = <<s, batch[s].next>>
          /\ msg.round = batch[s].round /\ msg.round \in Int
      BY <3>1 DEF NextTree, ITreeMessage, Rounds
    <3>3. trees' = Store(msg)
      BY <3>1 DEF ProcessElement, Skip, Collect, Refuse, FireForest
    <3>4. /\ key \in Grid
          /\ DOMAIN trees' = DOMAIN trees \cup {key}
          /\ trees'[key] = msg
          /\ \A c \in DOMAIN trees \ {key} : trees'[c] = trees[c]
      BY <2>0, <3>1, <3>3, StoreFacts
    <3>5. /\ batch[s] \in Batch /\ batch[s].next \in Int
          /\ batch'[s].round = batch[s].round
          /\ batch'[s].next = batch[s].next + 1
          /\ \A t \in Subtasks \ {s} : batch'[t] = batch[t]
      BY <2>0, <3>1, TreeCountIsNat DEF TypeOK, Batch
    <3>6. StoredBehindBatch'
      <4> SUFFICES ASSUME NEW c \in DOMAIN trees'
                   PROVE  /\ trees'[c].round <= batch'[c[1]].round
                          /\ c[2] >= batch'[c[1]].next =>
                               trees'[c].round < batch'[c[1]].round
        BY DEF StoredBehindBatch
      <4>1. CASE c = key
        BY <3>2, <3>4, <3>5, <4>1
      <4>2. CASE c # key
        <5>1. c \in DOMAIN trees /\ trees'[c] = trees[c]
          BY <3>4, <4>2
        <5>2. /\ trees[c].round \in Int /\ c[1] \in Subtasks /\ c[2] \in Int
              /\ batch[c[1]].round \in Int /\ batch[c[1]].next \in Int
          BY <2>0, <5>1, GridRounds
        <5>3. /\ trees[c].round <= batch[c[1]].round
              /\ c[2] >= batch[c[1]].next => trees[c].round < batch[c[1]].round
          BY <5>1 DEF OnceInv, StoredBehindBatch
        <5>4. CASE c[1] = s
          BY <3>5, <5>1, <5>2, <5>3, <5>4
        <5>5. CASE c[1] # s
          BY <3>5, <5>1, <5>2, <5>3, <5>5
        <5> QED
          BY <5>4, <5>5
      <4> QED
        BY <4>1, <4>2
    <3>7. \A i \in 1 .. Len(forests) :
            /\ forests[i].trigger.round \in Int
            /\ Full(trees')
            /\ \A c \in Grid : trees'[c].round >= forests[i].trigger.round
            /\ msg.round > forests[i].trigger.round
      <4> SUFFICES ASSUME NEW i \in 1 .. Len(forests)
                   PROVE  /\ forests[i].trigger.round \in Int
                          /\ Full(trees')
                          /\ \A c \in Grid : trees'[c].round >= forests[i].trigger.round
                          /\ msg.round > forests[i].trigger.round
        OBVIOUS
      <4>1. forests[i].trigger.round \in Int
        <5>1. forests[i] \in ForestMessage
          BY <2>0 DEF TypeOK
        <5>2. forests[i].trigger \in ITreeMessage
          BY <5>1 DEF ForestMessage
        <5> QED
          BY <5>2 DEF ITreeMessage, Rounds
      <4>2. /\ DOMAIN trees = Grid
            /\ \A c \in Grid : trees[c].round >= forests[i].trigger.round
        BY DEF OnceInv, ForestsBehindGrid, Full
      <4>3. trees[key].round < batch[s].round /\ trees[key].round \in Int
        BY <2>0, <3>2, <3>4, <3>5, <4>2, GridRounds DEF OnceInv, StoredBehindBatch
      <4>4. msg.round > forests[i].trigger.round
        BY <3>2, <3>4, <4>1, <4>2, <4>3
      <4> QED
        BY <3>2, <3>4, <4>1, <4>2, <4>4 DEF Full
    <3>8. CASE forests' = forests
      BY <2>0, <3>6, <3>7, <3>8 DEF OnceInv, ForestsBehindGrid, RoundsIncrease, Full
    <3>9. CASE forests' # forests
      <4> DEFINE last == Len(forests) + 1
      <4>1. /\ Full(trees') /\ Uniform(trees')
            /\ forests' = Append(forests, Forest(currentVersion', trees', msg))
        BY <2>0, <3>1, <3>9, HandlerFacts
      <4>2. /\ Len(forests') = last
            /\ forests'[last].trigger = msg
            /\ \A i \in 1 .. Len(forests) : forests'[i] = forests[i]
        BY <2>0, <4>1 DEF TypeOK, Forest
      <4>3. \A c \in Grid : trees'[c].round = msg.round
        BY <3>4, <4>1 DEF Full, Uniform
      <4>4. ForestsBehindGrid'
        <5> SUFFICES ASSUME NEW i \in 1 .. last
                     PROVE  /\ Full(trees')
                            /\ \A c \in Grid : trees'[c].round >= forests'[i].trigger.round
          BY <4>2 DEF ForestsBehindGrid, Full
        <5>1. CASE i = last
          BY <3>2, <4>1, <4>2, <4>3, <5>1
        <5>2. CASE i \in 1 .. Len(forests)
          BY <3>7, <4>2, <5>2
        <5> QED
          BY <2>0, <5>1, <5>2 DEF TypeOK
      <4>5. RoundsIncrease'
        <5> SUFFICES ASSUME NEW i \in 1 .. last, NEW j \in 1 .. last, i < j
                     PROVE  forests'[i].trigger.round < forests'[j].trigger.round
          BY <4>2 DEF RoundsIncrease
        <5>1. i \in 1 .. Len(forests)
          BY <2>0 DEF TypeOK
        <5>2. CASE j = last
          BY <3>7, <4>2, <5>1, <5>2
        <5>3. CASE j \in 1 .. Len(forests)
          BY <4>2, <5>1, <5>3 DEF OnceInv, RoundsIncrease
        <5> QED
          BY <2>0, <5>2, <5>3 DEF TypeOK
      <4> QED
        BY <2>0, <3>6, <4>4, <4>5 DEF OnceInv
    <3> QED
      BY <3>8, <3>9
  <2>3. ASSUME NEW s \in Subtasks, StartBatch(s) PROVE OnceInv'
    <3>1. PICK r \in Rounds, z \in SampleSizes :
            /\ r > batch[s].round
            /\ batch' = [batch EXCEPT ![s] = [round |-> r, next |-> 0, size |-> z]]
      BY <2>3 DEF StartBatch
    <3>2. trees' = trees /\ forests' = forests
      BY <2>3 DEF StartBatch, coordinatorVars
    <3>3. /\ batch'[s].round > batch[s].round /\ batch'[s].round \in Int
          /\ \A t \in Subtasks \ {s} : batch'[t] = batch[t]
      BY <2>0, <3>1 DEF TypeOK, Rounds
    <3>4. StoredBehindBatch'
      <4> SUFFICES ASSUME NEW c \in DOMAIN trees
                   PROVE  /\ trees[c].round <= batch'[c[1]].round
                          /\ c[2] >= batch'[c[1]].next =>
                               trees[c].round < batch'[c[1]].round
        BY <3>2 DEF StoredBehindBatch
      <4>1. /\ trees[c].round \in Int /\ c[1] \in Subtasks
            /\ batch[c[1]].round \in Int
        BY <2>0, GridRounds
      <4>2. /\ trees[c].round <= batch[c[1]].round
            /\ c[2] >= batch[c[1]].next => trees[c].round < batch[c[1]].round
        BY DEF OnceInv, StoredBehindBatch
      <4>3. CASE c[1] = s
        BY <3>3, <4>1, <4>2, <4>3
      <4>4. CASE c[1] # s
        BY <3>3, <4>1, <4>2, <4>4
      <4> QED
        BY <4>3, <4>4
    <3> QED
      BY <2>0, <3>2, <3>4 DEF OnceInv, ForestsBehindGrid, RoundsIncrease, Full
  <2>4. CASE SendStray
    BY <2>0, <2>1, <2>4, StrayFacts
  <2> QED
    BY <2>1, <2>2, <2>3, <2>4 DEF Produce
<1> QED
  BY <1>1, <1>2

\* Until the first restart.
UntilRestart == TypeOK /\ (restarts = 0 => OnceInv)

LEMMA UntilRestartInductive ==
  /\ Init => UntilRestart
  /\ UntilRestart /\ [Next]_vars => UntilRestart'
<1>1. Init => UntilRestart
  BY TypeInductive, OnceInductive DEF UntilRestart
<1>2. ASSUME UntilRestart, [Next]_vars PROVE UntilRestart'
  <2>0. TypeOK /\ TypeOK'
    BY <1>2, TypeInductive DEF UntilRestart
  <2>1. CASE [Produce]_vars
    <3>1. restarts' = restarts
      BY <2>1 DEF Produce, SendTree, StartBatch, SendStray, producerVars, vars
    <3> QED
      BY <1>2, <2>0, <2>1, <3>1, OnceInductive DEF UntilRestart
  <2>2. CASE Checkpoint
    BY <1>2, <2>0, <2>2 DEF UntilRestart, Checkpoint, coordinatorVars, OnceInv,
       StoredBehindBatch, ForestsBehindGrid, RoundsIncrease, Full
  <2>3. CASE Restart
    <3>1. restarts' # 0
      BY <2>0, <2>3 DEF Restart, TypeOK
    <3> QED
      BY <2>0, <3>1 DEF UntilRestart
  <2> QED
    BY <1>2, <2>1, <2>2, <2>3 DEF Next
<1> QED
  BY <1>1, <1>2

\* Until a restart, later versions belong to later rounds: no round is
\* published twice.
THEOREM RoundsPublishedOnce == Spec => []OneForestPerRound
<1>1. UntilRestart => OneForestPerRound
  BY DEF UntilRestart, OnceInv, OneForestPerRound
<1> QED
  BY <1>1, UntilRestartInductive, PTL DEF Spec
============================================================================
