--------------------------- MODULE LocalProcessor ---------------------------
(***************************************************************************)
(* LocalProcessorFunction: the scoring side.  Every subtask is a state     *)
(* machine driven by its own sample stream, by two broadcast values (the   *)
(* current forest and the latest drift decision) and by a processing-time  *)
(* timer:                                                                  *)
(*                                                                         *)
(*   cold start (Phase B)  no forest yet: samples go to the backlog and    *)
(*                         feed the local trees                            *)
(*   STABLE                samples are scored as they arrive; the first    *)
(*                         one with a forest drains the backlog (Phase A)  *)
(*   COOLDOWN              a round was committed: a training pool is       *)
(*                         gathered; ends in a retrain or in an abort      *)
(*   WAITING               trees were sent; a newer forest is awaited      *)
(*                                                                         *)
(* Samples are the numbers 1, 2, ... of a subtask's stream; a forest is    *)
(* its version, a decision its round number, 0 stands for the null of a    *)
(* state that was never written or was cleared.                            *)
(***************************************************************************)
EXTENDS Integers, FiniteSets, Sequences

CONSTANTS
  Subtasks,         \* subtask indices
  LocalTreeCount,   \* trees per subtask and forest
  RingBufferSize,   \* capacity of the training pool
  CooldownSamples,  \* samples a COOLDOWN lasts at least
  CooldownTimeout,  \* processing time after which a COOLDOWN is aborted
  InitSamples,      \* legacy policy: samples taken before the z-score filter (50)
  PauseMode,        \* "USE_OLD_FOREST" or "BACKLOG_THEN_NEW_FOREST"
  CooldownPolicy,   \* "legacy" or "d1a"
  D1aFill,          \* "ringfull" or "cooldownsamples"
  MaxSamples,       \* bound: samples of a subtask
  MaxTime,          \* bound: processing time, unless a timer is pending
  MaxVersion,       \* bound: forest versions
  MaxRound          \* bound: drift rounds

ASSUME LocalProcessorAssumption ==
  /\ LocalTreeCount \in Nat \ {0}
  /\ RingBufferSize \in Nat \ {0}
  /\ CooldownSamples \in Nat
  /\ CooldownTimeout \in Nat \ {0}
  /\ InitSamples \in Nat
  /\ PauseMode \in {"USE_OLD_FOREST", "BACKLOG_THEN_NEW_FOREST"}
  /\ CooldownPolicy \in {"legacy", "d1a"}
  /\ D1aFill \in {"ringfull", "cooldownsamples"}
  /\ MaxSamples \in Nat
  /\ MaxTime \in Nat
  /\ MaxVersion \in Nat
  /\ MaxRound \in Nat

VARIABLES
  forest,          \* broadcast state "current": version of the forest, or 0
  decision,        \* broadcast state "decision": the COMMITTED round, or 0
  arrived,         \* samples taken from the stream so far
  output,          \* output-scores: the samples scored, in order
  backlog,         \* samples put off
  ringBuffer,      \* the training pool, oldest first
  countdown,       \* trainStartCountdown: trees still to grow in Phase B, or 0
  treesProduced,   \* trees grown in Phase B
  subState,        \* STABLE (also the code's null), COOLDOWN or WAITING
  waitingForVersion,
  cooldownN,       \* samples of this COOLDOWN
  cooldownWrites,  \* samples of it written to the pool
  currentRoundId,
  lastProcessedDecision,
  expiry,          \* cooldownTimerExpiry
  timers,          \* processing-time timers registered with Flink
  now,             \* processing time
  treeOutput       \* TREE_TAG side output: the trees sent to tree-topic

streamVars == <<arrived, output, backlog>>
phaseBVars == <<countdown, treesProduced>>
cooldownVars == <<cooldownN, cooldownWrites, currentRoundId, expiry, timers>>
vars == <<forest, decision, streamVars, ringBuffer, phaseBVars, subState,
          waitingForVersion, cooldownVars, lastProcessedDecision, now, treeOutput>>

SubStates == {"STABLE", "COOLDOWN", "WAITING"}
BacklogMode == PauseMode = "BACKLOG_THEN_NEW_FOREST"
D1a == CooldownPolicy = "d1a"

Init ==
  /\ forest = [s \in Subtasks |-> 0]
  /\ decision = [s \in Subtasks |-> 0]
  /\ arrived = [s \in Subtasks |-> 0]
  /\ output = [s \in Subtasks |-> <<>>]
  /\ backlog = [s \in Subtasks |-> <<>>]
  /\ ringBuffer = [s \in Subtasks |-> <<>>]
  /\ countdown = [s \in Subtasks |-> 0]
  /\ treesProduced = [s \in Subtasks |-> 0]
  /\ subState = [s \in Subtasks |-> "STABLE"]
  /\ waitingForVersion = [s \in Subtasks |-> 0]
  /\ cooldownN = [s \in Subtasks |-> 0]
  /\ cooldownWrites = [s \in Subtasks |-> 0]
  /\ currentRoundId = [s \in Subtasks |-> 0]
  /\ lastProcessedDecision = [s \in Subtasks |-> 0]
  /\ expiry = [s \in Subtasks |-> 0]
  /\ timers = [s \in Subtasks |-> {}]
  /\ now = 0
  /\ treeOutput = [s \in Subtasks |-> <<>>]

(***************************************************************************)
(* Broadcast elements: each overwrites what was there, whatever it holds.  *)
(***************************************************************************)
ReceiveForest(s, version) ==
  /\ forest' = [forest EXCEPT ![s] = version]
  /\ UNCHANGED <<decision, streamVars, ringBuffer, phaseBVars, subState,
                 waitingForVersion, cooldownVars, lastProcessedDecision, now, treeOutput>>

ReceiveDecision(s, round) ==
  /\ decision' = [decision EXCEPT ![s] = round]
  /\ UNCHANGED <<forest, streamVars, ringBuffer, phaseBVars, subState,
                 waitingForVersion, cooldownVars, lastProcessedDecision, now, treeOutput>>

(***************************************************************************)
(* Phase B: no forest yet.                                                 *)
(***************************************************************************)

\* The sample at hand.
Sample(s) == arrived[s] + 1

\* Mutant of Add: nothing gives way.
AddUnbounded(ring, x) == Append(ring, x)

\* RingBuffer.add: the oldest sample gives way once the buffer is full.
Add(ring, x) == IF Len(ring) < RingBufferSize THEN Append(ring, x) ELSE Append(Tail(ring), x)

\* What is sent for a tree grown from a pool: the low half of batchId is the
\* round, the pool's size bounds the tree's psi.
ITreeMessage ==
  [producerSubtask : Subtasks, slotIndex : Nat, round : Nat,
   batchEnd : BOOLEAN, poolSize : Nat]

\* Mutant of Tree: batchEnd is off by one.
TreeNeverEnds(s, slot, round, pool) ==
  [producerSubtask |-> s, slotIndex |-> slot, round |-> round,
   batchEnd |-> slot = LocalTreeCount, poolSize |-> Len(pool)]

Tree(s, slot, round, pool) ==
  [producerSubtask |-> s, slotIndex |-> slot, round |-> round,
   batchEnd |-> slot = LocalTreeCount - 1, poolSize |-> Len(pool)]

\* trainIfReady: the pool fills; then one tree per sample, in slot order.
TrainIfReady(s) ==
  LET pool == Add(ringBuffer[s], Sample(s))
  IN  \/ /\ treesProduced[s] >= LocalTreeCount
         /\ UNCHANGED <<ringBuffer, phaseBVars, treeOutput>>
      \/ /\ treesProduced[s] < LocalTreeCount
         /\ countdown[s] = 0
         /\ ringBuffer' = [ringBuffer EXCEPT ![s] = pool]
         /\ countdown' = [countdown EXCEPT
              ![s] = IF Len(pool) = RingBufferSize THEN LocalTreeCount ELSE 0]
         /\ UNCHANGED <<treesProduced, treeOutput>>
      \/ /\ treesProduced[s] < LocalTreeCount
         /\ countdown[s] > 0
         /\ ringBuffer' = [ringBuffer EXCEPT ![s] = pool]
         /\ treeOutput' = [treeOutput EXCEPT ![s] = Append(@, Tree(s, treesProduced[s], 0, pool))]
         /\ treesProduced' = [treesProduced EXCEPT ![s] = @ + 1]
         /\ countdown' = [countdown EXCEPT ![s] = @ - 1]

ColdStart(s) ==
  /\ forest[s] = 0
  /\ arrived' = [arrived EXCEPT ![s] = Sample(s)]
  /\ backlog' = [backlog EXCEPT ![s] = Append(@, Sample(s))]
  /\ TrainIfReady(s)
  /\ UNCHANGED <<forest, decision, output, subState, waitingForVersion,
                 cooldownVars, lastProcessedDecision, now>>

(***************************************************************************)
(* Phases A and C: a forest is there.  Phase A scores the backlog before   *)
(* the sample at hand, but only out of STABLE.                             *)
(***************************************************************************)
Scored(s) == IF subState[s] = "STABLE" THEN output[s] \o backlog[s] ELSE output[s]

\* Mutant of PutOff: Phase A does not clear the backlog.
PutOffKept(s) == backlog[s]

PutOff(s) == IF subState[s] = "STABLE" THEN <<>> ELSE backlog[s]

\* Mutant of FreshDecision: lastProcessedDecision is not looked at.
AnyDecision(s) == decision[s] # 0

\* A decision not handled yet, told from the one handled last only.
FreshDecision(s) == decision[s] # 0 /\ decision[s] # lastProcessedDecision[s]

ScoreStable(s) ==
  /\ forest[s] # 0
  /\ ~FreshDecision(s)
  /\ subState[s] = "STABLE"
  /\ arrived' = [arrived EXCEPT ![s] = Sample(s)]
  /\ output' = [output EXCEPT ![s] = Append(Scored(s), Sample(s))]
  /\ backlog' = [backlog EXCEPT ![s] = PutOff(s)]
  /\ UNCHANGED <<forest, decision, ringBuffer, phaseBVars, subState, waitingForVersion,
                 cooldownVars, lastProcessedDecision, now, treeOutput>>

\* Mutant of Pause: the pause mode is ignored.
PausePutsOff(s) ==
  /\ arrived' = [arrived EXCEPT ![s] = Sample(s)]
  /\ output' = [output EXCEPT ![s] = Scored(s)]
  /\ backlog' = [backlog EXCEPT ![s] = Append(PutOff(s), Sample(s))]

\* The sample of a paused subtask: scored with the old forest, or put off.
Pause(s) ==
  /\ arrived' = [arrived EXCEPT ![s] = Sample(s)]
  /\ IF BacklogMode
     THEN /\ output' = [output EXCEPT ![s] = Scored(s)]
          /\ backlog' = [backlog EXCEPT ![s] = Append(PutOff(s), Sample(s))]
     ELSE /\ output' = [output EXCEPT ![s] = Append(Scored(s), Sample(s))]
          /\ backlog' = [backlog EXCEPT ![s] = PutOff(s)]

\* Mutant of InitialPool: the pool is not emptied.
InitialPoolKept(s) == ringBuffer[s]

\* The pool a COOLDOWN starts from: d1a empties it.
InitialPool(s) == IF D1a THEN <<>> ELSE ringBuffer[s]

\* Mutant of Registered: a pending timer is thought to be enough.
RegisteredOnce(s, e) == IF timers[s] = {} THEN {e} ELSE timers[s]

\* The timers once one is registered at e; older ones stay.
Registered(s, e) == timers[s] \cup {e}

\* The bookkeeping of a COOLDOWN when the sample is handled: as it stands,
\* or as handleCommitted and enterCooldown set it up for a fresh decision,
\* from whatever sub-state the subtask was in.
Entered(s) ==
  LET e == now + CooldownTimeout
  IN  IF FreshDecision(s)
      THEN [n |-> 0, writes |-> 0, round |-> decision[s], expiry |-> e,
            timers |-> Registered(s, e), pool |-> InitialPool(s)]
      ELSE [n |-> cooldownN[s], writes |-> cooldownWrites[s],
            round |-> currentRoundId[s], expiry |-> expiry[s],
            timers |-> timers[s], pool |-> ringBuffer[s]]

\* handleCooldown's write: unconditional under d1a, else filtered by a
\* z-score after the first InitSamples (`keep` is the filter's verdict).
Gathered(s, keep) ==
  LET c == Entered(s)
      written == D1a \/ c.n + 1 < InitSamples \/ keep
  IN  [c EXCEPT !.n = @ + 1,
                !.writes = IF written THEN @ + 1 ELSE @,
                !.pool = IF written THEN Add(@, Sample(s)) ELSE @]

\* fillCondition or fallbackCondition.
CooldownDone(c) ==
  \/ /\ c.writes >= RingBufferSize
     /\ (D1a /\ D1aFill = "ringfull") \/ c.n >= CooldownSamples
  \/ c.n >= 2 * CooldownSamples

StayInCooldown(s, c) ==
  /\ ~CooldownDone(c)
  /\ subState' = [subState EXCEPT ![s] = "COOLDOWN"]
  /\ cooldownN' = [cooldownN EXCEPT ![s] = c.n]
  /\ cooldownWrites' = [cooldownWrites EXCEPT ![s] = c.writes]
  /\ expiry' = [expiry EXCEPT ![s] = c.expiry]
  /\ timers' = [timers EXCEPT ![s] = c.timers]
  /\ UNCHANGED <<waitingForVersion, treeOutput>>

\* Mutant of Batch: the last slot is left out.
BatchShort(s, c) ==
  [i \in 1 .. LocalTreeCount - 1 |-> Tree(s, i - 1, c.round, c.pool)]

\* A whole batch grown from the pool, tagged with the round.
Batch(s, c) ==
  LET round == IF c.round = 0 THEN 1 ELSE c.round
  IN  IF c.pool = <<>> THEN <<>>
      ELSE [i \in 1 .. LocalTreeCount |-> Tree(s, i - 1, round, c.pool)]

\* Mutant of VersionToPass: the version the new forest should have.
VersionToPassNext(s) == forest[s] + 1

\* The version WAITING has to see exceeded.
VersionToPass(s) == forest[s]

RetrainAndEnterWaiting(s, c) ==
  /\ CooldownDone(c)
  /\ treeOutput' = [treeOutput EXCEPT ![s] = @ \o Batch(s, c)]
  /\ waitingForVersion' = [waitingForVersion EXCEPT ![s] = VersionToPass(s)]
  /\ subState' = [subState EXCEPT ![s] = "WAITING"]
  /\ cooldownN' = [cooldownN EXCEPT ![s] = 0]
  /\ cooldownWrites' = [cooldownWrites EXCEPT ![s] = 0]
  /\ expiry' = [expiry EXCEPT ![s] = 0]
  /\ timers' = [timers EXCEPT ![s] = c.timers \ {c.expiry}]

ScoreCooldown(s, keep) ==
  LET c == Gathered(s, keep)
  IN  /\ forest[s] # 0
      /\ FreshDecision(s) \/ subState[s] = "COOLDOWN"
      /\ Pause(s)
      /\ ringBuffer' = [ringBuffer EXCEPT ![s] = c.pool]
      /\ currentRoundId' = [currentRoundId EXCEPT ![s] = c.round]
      /\ lastProcessedDecision' = [lastProcessedDecision EXCEPT
            ![s] = IF FreshDecision(s) THEN decision[s] ELSE @]
      /\ StayInCooldown(s, c) \/ RetrainAndEnterWaiting(s, c)
      /\ UNCHANGED <<forest, decision, phaseBVars, now>>

ScoreWaiting(s) ==
  /\ forest[s] # 0
  /\ ~FreshDecision(s)
  /\ subState[s] = "WAITING"
  /\ forest[s] <= waitingForVersion[s]
  /\ Pause(s)
  /\ UNCHANGED <<forest, decision, ringBuffer, phaseBVars, subState, waitingForVersion,
                 cooldownVars, lastProcessedDecision, now, treeOutput>>

\* handleWaiting with a newer forest: back to STABLE, the backlog (which by
\* now holds this sample too) is scored.
LeaveWaiting(s) ==
  /\ forest[s] # 0
  /\ ~FreshDecision(s)
  /\ subState[s] = "WAITING"
  /\ forest[s] > waitingForVersion[s]
  /\ arrived' = [arrived EXCEPT ![s] = Sample(s)]
  /\ IF BacklogMode
     THEN /\ output' = [output EXCEPT ![s] = @ \o Append(backlog[s], Sample(s))]
          /\ backlog' = [backlog EXCEPT ![s] = <<>>]
     ELSE /\ output' = [output EXCEPT ![s] = Append(@, Sample(s))]
          /\ UNCHANGED backlog
  /\ subState' = [subState EXCEPT ![s] = "STABLE"]
  /\ currentRoundId' = [currentRoundId EXCEPT ![s] = 0]
  /\ UNCHANGED <<forest, decision, ringBuffer, phaseBVars, waitingForVersion, cooldownN,
                 cooldownWrites, expiry, timers, lastProcessedDecision, now, treeOutput>>

ProcessElement(s) ==
  \/ ColdStart(s)
  \/ ScoreStable(s)
  \/ \E keep \in BOOLEAN : ScoreCooldown(s, keep)
  \/ ScoreWaiting(s)
  \/ LeaveWaiting(s)

(***************************************************************************)
(* The processing-time timer of a COOLDOWN.                                *)
(***************************************************************************)

\* Mutant of DrainBacklog: the backlog stays.
DrainNothing(s) == UNCHANGED <<output, backlog>>

DrainBacklog(s) ==
  IF BacklogMode /\ forest[s] # 0
  THEN /\ output' = [output EXCEPT ![s] = @ \o backlog[s]]
       /\ backlog' = [backlog EXCEPT ![s] = <<>>]
  ELSE UNCHANGED <<output, backlog>>

\* Mutant of AbortCooldown: currentRoundId is not cleared.
AbortCooldownKeepsRound(s) ==
  /\ DrainBacklog(s)
  /\ subState' = [subState EXCEPT ![s] = "STABLE"]
  /\ cooldownN' = [cooldownN EXCEPT ![s] = 0]
  /\ cooldownWrites' = [cooldownWrites EXCEPT ![s] = 0]
  /\ expiry' = [expiry EXCEPT ![s] = 0]
  /\ UNCHANGED currentRoundId

\* The COOLDOWN is given up: the current forest stays, the backlog is scored
\* with it.
AbortCooldown(s) ==
  /\ DrainBacklog(s)
  /\ subState' = [subState EXCEPT ![s] = "STABLE"]
  /\ cooldownN' = [cooldownN EXCEPT ![s] = 0]
  /\ cooldownWrites' = [cooldownWrites EXCEPT ![s] = 0]
  /\ expiry' = [expiry EXCEPT ![s] = 0]
  /\ currentRoundId' = [currentRoundId EXCEPT ![s] = 0]

\* Mutants of IsCurrentTimer: every timer counts; the comparison is strict.
IsAnyTimer(s, t) == TRUE
IsPastTimer(s, t) == expiry[s] < t

\* The check against orphans: t is the timer registered last.
IsCurrentTimer(s, t) == expiry[s] = t

\* The timer t fires.
OnTimer(s, t) ==
  /\ t \in timers[s]
  /\ t <= now
  /\ \A u \in timers[s] : t <= u
  /\ timers' = [timers EXCEPT ![s] = @ \ {t}]
  /\ IF subState[s] = "COOLDOWN" /\ IsCurrentTimer(s, t)
     THEN AbortCooldown(s)
     ELSE UNCHANGED <<output, backlog, subState, cooldownN, cooldownWrites,
                      expiry, currentRoundId>>
  /\ UNCHANGED <<forest, decision, arrived, ringBuffer, phaseBVars, waitingForVersion,
                 lastProcessedDecision, now, treeOutput>>

Tick ==
  /\ now < MaxTime \/ \E s \in Subtasks : \E t \in timers[s] : now < t
  /\ now' = now + 1
  /\ UNCHANGED <<forest, decision, streamVars, ringBuffer, phaseBVars, subState,
                 waitingForVersion, cooldownVars, lastProcessedDecision, treeOutput>>

(***************************************************************************)
(* The environment: the streams, the broadcast topics and the clock.       *)
(***************************************************************************)
NextElement(s) == arrived[s] < MaxSamples /\ ProcessElement(s)
FireTimer(s) == \E t \in timers[s] : OnTimer(s, t)
NextForest(s) == forest[s] < MaxVersion /\ ReceiveForest(s, forest[s] + 1)
NextDecision(s) == decision[s] < MaxRound /\ ReceiveDecision(s, decision[s] + 1)

Next ==
  \/ \E s \in Subtasks : NextElement(s) \/ FireTimer(s) \/ NextForest(s) \/ NextDecision(s)
  \/ Tick

Spec == Init /\ [][Next]_vars

\* Time passes and due timers fire; nothing is assumed of the streams.
FairSpec == Spec /\ WF_vars(Tick) /\ \A s \in Subtasks : WF_vars(FireTimer(s))

\* The sinks of model-topic and drift-round-topic are AT_LEAST_ONCE: after a
\* restart of the coordinator job messages sent before come again.
ForestAgain(s) == \E v \in 1 .. forest[s] : ReceiveForest(s, v)
DecisionAgain(s) == \E r \in 1 .. decision[s] : ReceiveDecision(s, r)
AtLeastOnceNext == Next \/ \E s \in Subtasks : ForestAgain(s) \/ DecisionAgain(s)
AtLeastOnceSpec == Init /\ [][AtLeastOnceNext]_vars

(***************************************************************************)
(* Properties.                                                             *)
(***************************************************************************)

\* Type invariant.
TypeOK ==
  /\ forest \in [Subtasks -> Nat]
  /\ decision \in [Subtasks -> Nat]
  /\ arrived \in [Subtasks -> Nat]
  /\ output \in [Subtasks -> Seq(Nat)]
  /\ backlog \in [Subtasks -> Seq(Nat)]
  /\ ringBuffer \in [Subtasks -> Seq(Nat)]
  /\ \A s \in Subtasks : Len(ringBuffer[s]) <= RingBufferSize
  /\ countdown \in [Subtasks -> 0 .. LocalTreeCount]
  /\ treesProduced \in [Subtasks -> 0 .. LocalTreeCount]
  /\ subState \in [Subtasks -> SubStates]
  /\ waitingForVersion \in [Subtasks -> Nat]
  /\ cooldownN \in [Subtasks -> Nat]
  /\ cooldownWrites \in [Subtasks -> Nat]
  /\ currentRoundId \in [Subtasks -> Nat]
  /\ lastProcessedDecision \in [Subtasks -> Nat]
  /\ expiry \in [Subtasks -> Nat]
  /\ timers \in [Subtasks -> SUBSET Nat]
  /\ now \in Nat
  /\ treeOutput \in [Subtasks -> Seq(ITreeMessage)]

\* No sample is lost, scored twice or overtaken: what was scored, followed by
\* what is put off, is the stream so far -- across Phase A, pauses, retrains,
\* aborts and rounds that overtake each other, in either pause mode.
ScoredInOrderOnce ==
  \A s \in Subtasks : output[s] \o backlog[s] = [i \in 1 .. arrived[s] |-> i]

\* Samples are put off only while paused in BACKLOG mode (or in the cold
\* start, when nothing was scored yet): a subtask that returned to STABLE
\* left none behind, and USE_OLD_FOREST never puts off.
BacklogOnlyWhilePaused ==
  \A s \in Subtasks : backlog[s] # <<>> =>
    \/ subState[s] = "STABLE" /\ output[s] = <<>>
    \/ subState[s] # "STABLE" /\ BacklogMode

\* Under d1a the training pool of a COOLDOWN is made of the samples since
\* its decision and of nothing older, and every one of them was counted.
PoolIsPostDrift ==
  \A s \in Subtasks : D1a /\ subState[s] = "COOLDOWN" =>
    LET n == cooldownN[s]
        k == IF n < RingBufferSize THEN n ELSE RingBufferSize
    IN  /\ cooldownWrites[s] = n
        /\ ringBuffer[s] = [i \in 1 .. k |-> arrived[s] - k + i]

\* The round of a COOLDOWN and of the WAITING after it is the one handled
\* last, so retrainAndEnterWaiting's fallback to round 1 ("should not
\* happen") is never taken and no other round's batch is sent.
RoundKnownWhilePaused ==
  \A s \in Subtasks : IF subState[s] = "STABLE"
                      THEN currentRoundId[s] = 0
                      ELSE currentRoundId[s] = lastProcessedDecision[s] /\ currentRoundId[s] # 0

\* A subtask waits only after its whole batch for the round went out: the
\* last LocalTreeCount trees it sent are the slots of that round, in order.
WaitingHasSentBatch ==
  \A s \in Subtasks : subState[s] = "WAITING" =>
    LET sent == treeOutput[s]
        first == Len(sent) - LocalTreeCount
    IN  /\ first >= 0
        /\ \A i \in 1 .. LocalTreeCount :
             /\ sent[first + i].slotIndex = i - 1
             /\ sent[first + i].round = currentRoundId[s]
             /\ sent[first + i].batchEnd = (i = LocalTreeCount)

\* A COOLDOWN always has its timer pending, however many rounds restarted
\* it and whichever older timers are still in the queue.
CooldownHasTimer ==
  \A s \in Subtasks : subState[s] = "COOLDOWN" => expiry[s] \in timers[s]

\* An orphan timer never cuts a COOLDOWN short: it is aborted only when the
\* time its latest decision granted has passed.
AbortsWhenExpired ==
  [][\A s \in Subtasks :
       subState[s] = "COOLDOWN" /\ subState'[s] = "STABLE" =>
         now >= expiry[s]]_vars

\* A pause begins, or begins anew, for a round later than all before it.
PauseBegins(s) ==
  /\ currentRoundId'[s] = lastProcessedDecision'[s]
  /\ currentRoundId'[s] > lastProcessedDecision[s]

\* A pause goes on: for the same round, a COOLDOWN with one sample more and
\* its deadline as it was, and WAITING does not return to COOLDOWN.
PauseGoesOn(s) ==
  /\ subState[s] # "STABLE"
  /\ currentRoundId'[s] = currentRoundId[s]
  /\ subState'[s] = "COOLDOWN" =>
       /\ subState[s] = "COOLDOWN"
       /\ cooldownN'[s] = cooldownN[s] + 1
       /\ expiry'[s] = expiry[s]

\* lastProcessedDecision, "the decision handled already, against repeats":
\* every sample finds the latest decision in the broadcast state, yet a round
\* starts one pause only, whatever became of it.  A sample that leaves the
\* subtask paused starts the pause of a later round, or finds the subtask in
\* a pause and neither starts it again nor puts off its time-out.
RoundsHandledOnce ==
  [][\A s \in Subtasks :
       /\ lastProcessedDecision'[s] >= lastProcessedDecision[s]
       /\ arrived'[s] # arrived[s] /\ subState'[s] # "STABLE" =>
            PauseBegins(s) \/ PauseGoesOn(s)]_vars

\* A COOLDOWN ends even if the stream falls silent: the timer sees to it.
CooldownEnds ==
  \A s \in Subtasks : subState[s] = "COOLDOWN" ~> subState[s] # "COOLDOWN"
=============================================================================
