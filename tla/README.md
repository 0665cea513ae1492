# FA-IForest in TLA+

Specifications, model-checking configurations and proofs for FA-IForest, a
distributed isolation forest that adapts to concept drift (Apache Flink jobs
joined by Kafka topics), and for the Python and shell code that its parameters are
tuned, its experiments run and its results measured with.  `J/` stands for
`src/src/main/java/com/leejean/`, `A/` for `src/analysis/`, `S/` for
`src/deploy/scripts/`.

Contents: 1 the system, 2 the modules, 3 the runs, 4 the environment and its
assumptions, 5 the proofs, 6 disagreements with the documentation, 7 the plan,
8 what is not modelled.

## 1. The system

Two Flink jobs and a loader communicate through six topics.

```
 file --loader--> source-topic --> parser subtasks (LocalProcessor job)
                                      |                 |
                             scoring subtasks    feature split, detectors
                              |   ^   ^   |             |
                   output-scores  |   |   tree-topic    feature-drift-topic
                                  |   |        |                  |
                                  |   |   forest assembly    drift aggregation   (CoordinatorJob)
                                  |   |        |                  |
                                  |   +-- model-topic             |
                                  +------ drift-round-topic <-----+
```

A row of the stream is scored by one scoring subtask and, cut into its features,
watched by the per-feature detectors.  A detector that confirms a drift reports
its onset.  The aggregator turns onsets of K features within a window into a
*round*.  A scoring subtask that sees a new round pauses, gathers a training pool
(COOLDOWN), grows its share of the trees from it, and waits for the forest
(WAITING).  The coordinator job collects the trees and publishes a forest when
every share of one round is there.

Around the jobs stands the offline code.  Datasets are made from the INSECTS files
or generated; a prototype replays detection and aggregation over a whole stream, to
choose ksConfirm, K, the window and the refractory; batches of experiments run the
jobs line by line of a plan; and reports are drawn from the scores each run left.

### Components

| component | state | operations | what is hard | what makes it correct |
|---|---|---|---|---|
| Scoring, `J/flink/LocalProcessorFunction.java`, one per scoring subtask | broadcast forest and decision; backlog, ring buffer, Phase B countdown; STABLE / COOLDOWN / WAITING with counters, round, timer | a forest or a decision arrives, a sample arrives, a timer fires | broadcasts overwrite each other and are delivered again; rounds overlap; timers of earlier rounds stay registered; samples are put off and scored later; the stream may fall silent | every sample scored once and in order; the pool is post-drift; a subtask that waits has done its share; a COOLDOWN ends |
| Forest assembly, `J/flink/CoordinatorFunction.java`, one instance | grid of trees by (subtask, slot), version, dirty flag | a tree arrives | batches of subtasks interleave and skip rounds; the grid is overwritten in place; trees are written again after restarts; trees of another configuration are still on the topic | a forest is complete and of one round; none is missed; none is published twice |
| Drift aggregation, `J/flink/DriftAggregatorFunction.java`, one instance | latest onset per feature, round counter, last emission | a report arrives | reports of parallel detectors arrive out of onset order; refractory period | rounds rest on K onsets in the window, are spaced, and none is held back |
| IKS detection, `J/flink/PerFeatureIKSFunction.java` | per feature: IKS windows, confirming flag, onset, peak | a value of the feature arrives | confirmation and warm-up interact; row numbers have gaps | onsets apart; the peak is the confirmation's; no excess is missed |
| HDDM_W detection, `J/flink/PerFeatureHDDMFunction.java`, `J/drift/HDDM_W.java` | per feature: warm-up sum and deviations, reference mean, scale, EWMA with its minimum | a value of the feature arrives | six state cells are cleared one by one; the first sample is special | the reference is fresh; a drift rests on a shift of the signal |
| Incremental KS, `J/drift/IKS.java`, `J/drift/Treap.java` | two windows in a treap with lazy sums | add, remove, ks | random priorities and tie-breaks, lazy propagation | the statistic is the KS distance |
| CSV parsing, `J/common_utils/CsvToDataPointFunction.java`, one per job subtask | header flag, id counters, none of it checkpointed | a line arrives | restarts; several partitions; lines that fail the job | rows are numbered in order; what a restart may lose is bounded |
| Loader, `J/source/FileToKafkaProducer.java` | lines read and sent, offset file | start, read, note, finish | killed between sending and delivery; resumed runs; failed writes | what is skipped was sent; nothing is sent twice |
| Training pool, `J/tree/RingBuffer.java` | circular array, head, size | add, snapshot | wrap-around | the last `capacity` elements |
| Isolation trees, `J/tree/*.java` | built once, then read | build, path length, score | recursion, degenerate ranges | a well-formed tree |
| Key generation, `J/common_utils/ParallelismKeys.java` | keys, candidates tried | search for one key per subtask; choice of a row's key by its hash code | a search over hashes; the least int | every subtask gets rows, each at its index |
| Job wiring, `J/main/LocalProcessor.java`, `J/main/CoordinatorJob.java` | none | connects the above | parallelism of sinks, delivery guarantees, start offsets | - |
| Detection prototype, `A/derisk_proxy.py`, `A/calibrate_ksconfirm.py` | per column: windows, confirmation, crossings; per aggregator: what is present, streak, cooldown, onsets; result files | a sample, an evaluation, a window of the degradation, a run | two replays and three aggregators of one idea, written separately; a segment open at the end of the stream; files merged by every run | the replays agree; an onset is a held quorum; a verdict credits no silence; rows are neither doubled nor lost |
| HDDM_W replay, `A/hddm_signal_sanity.py`, `A/hddm_signal_batch.py` | detector, throttling, fires | a sample | the throttling imitates a second warm-up; samples count from 0, rows from 1; its signal is normalised otherwise than the job's, and against one reference for good | on the same signal its first fire is the job's first report; each drift costs a whole warm-up; the two lifts agree |
| Dataset preparation, `A/transform_insects.py`, `A/insects_class_freq.py`, `A/gen_synth_drift.py`, `A/gen_synth_drift_v2.py` | rows read, rows written | a row | discarded rows shift the drift lines; ties between classes; the last segment of a recurring drift | drift lines part the rows that they parted before; the events tell the concept of every row |
| Score reports, `A/analyze.py`, `A/exp2_distributed_accuracy.py`, `A/exp2_false_alarm.py` | records in sequence order | a record | versions not ordered by sequence number; ties in the AUC; a late forest of the drift before | measures are exact; a delay belongs to its drift and is final |
| Experiment batches, `S/cfg_query.py`, `S/run-batch.sh`, `S/run-experiment.sh`, `S/clean-failed-results.sh` | result directories, log of a batch | start, each stage of a run, interrupt, clean | a batch broken off and started again; results found by name | OK means scores; what is finished is not run again |
| Messages, Kafka helpers, tools, cluster scripts | none at run time | - | - | - |

Interactions are Kafka messages, except that the detectors and the scoring
subtasks are fed by the same parsed stream, and that a scoring subtask reads what
the broadcast side of the same operator stored.  Each operator instance is
single-threaded: what interleaves is the handlers, at the grain of whole calls.
The offline programs are sequential and meet the jobs through files only.

## 2. The modules

One module per component, one action per handler or path of a handler; modules
that compose them; `MC*` modules with what the configurations need; `*Proofs`
modules with the theorems.  `MCDriftAggregator`, `MCPerFeatureIKS`, `MCRetraining` and
`MCAnalysis` hold several independent instances: a variable `machine`, chosen in the
initial state, says which of them moves, and the others stay in one initial state, so
that the behaviours are the union and not the product of theirs.  Operators introduced
by a comment "Mutant of X" are variants of X with a plausible bug.  No specification uses them: each is there to
show, by putting it in the place of X, that a property is sensitive to that bug.

| module | models | state | actions |
|---|---|---|---|
| `LocalProcessor` | the scoring operator: `processBroadcastElement`, `processElement` in all phases, `onTimer` | as in the code, by subtask; a sample is its position in the subtask's stream, a forest its version, a decision its round | `ReceiveForest`, `ReceiveDecision`, `ColdStart` (Phases A and B), `ScoreStable`, `Pause`, `ScoreCooldown`, `ScoreWaiting`, `LeaveWaiting`, `OnTimer`, `Tick` |
| `Coordinator` | `CoordinatorFunction`, and scoring subtasks as writers of tree-topic with checkpoints, restarts and strays | grid as a partial function of (subtask, slot) | `Skip`, `Collect`, `Refuse`, `FireForest`; `SendTree`, `StartBatch`, `SendStray`, `Checkpoint`, `Restart` |
| `DriftAggregator` | `DriftAggregatorFunction`, fed by any interleaving of the writers | last onset of each feature as a partial function | `Remember`, `Commit` |
| `PerFeatureIKS` | the IKS gate of each feature and the feature split; the statistic is any value | as in the code, by feature | `WarmUp`, `StayQuiet`, `StartConfirm`, `KeepConfirming`, `Confirm`, `DiscardTransient` |
| `PerFeatureHDDM` | the HDDM gate of one feature with `HDDM_W.update`; the signal is any value | as in the code; sums, means and scales are the sets of rows they are computed from | `WarmUp`, `Freeze`, `Stable`, `Warn`, `Drift` |
| `Loader` | `FileToKafkaProducer`, its producer's buffer and source-topic | lines are their numbers, topic and buffer by partition | `Start`, `SkipLine`, `SendLine`, `Deliver`, `GiveUp`, `Finish`, `Kill` |
| `CsvParser` | `CsvToDataPointFunction` behind the Kafka source, one subtask per partition | position, header flag, id counter, rows | `Ignore`, `SkipHeader`, `Malformed`, `Emit`, `BadId`, `Checkpoint`, `Recover` |
| `Retraining` | two scoring subtasks, the coordinator and the three topics between them: composes `LocalProcessor` and `Coordinator` | theirs, and offsets on the topics | `CommitRound`, `DeliverDecision`, `DeliverForest`, `ScoreSample`, `FireTimer`, `Tick`, `AssembleTree` |
| `RingBuffer` | the circular array behind a training pool | cells, head, size | `Write`, `Renew` |
| `TrainingPool` | abstract: the bounded sequence that `RingBuffer` implements and `LocalProcessor` keeps | the sequence | `PoolNext` |
| `ParallelismKeys` | `generate`, and in `main` the key of a row; where Flink sends a candidate is any subtask | keys, counters, where each candidate went | `TryCandidate` |
| `Detection` | detectors, feature-drift-topic and aggregator: composes `PerFeatureIKS` and `DriftAggregator`, and is shown to implement `DriftAggregator` | theirs, and offsets on the topic | `Detect`, `Aggregate` |
| `Ingestion` | file to rows: composes `Loader` and `CsvParser` | theirs | `Load`, `Parse` |
| `IKSWindow` | `IKSSW` with its treap (`A/IKSSW.py`, `A/IKS.py`, `A/Treap.py`, which `J/drift/IKS.java` and `Treap.java` port): split, merge, late sums, add, remove, the statistic | the treap as a tree of records, of as many levels at most as it has nodes; the windows it should hold, as history | `Increment`, `UpdateWindow` |
| `OfflineGate` | one column in `per_feature_iks` and in `replay_feature`, side by side | the loop variables of both | `GateSlide`, `PerFeatureIks` (quiet, cross, chase, record, fire), `ReplayFeature` |
| `OfflineQuorum` | `_quorum_onsets`, `aggregate`, `aggregate_onsets` over the same crossings, and the measures against the labelled drifts | of each aggregator; lists of onsets as sets | `Evaluate` |
| `OfflineAlignment` | phase 1: degradation of the frozen forest, its segments, alignment, verdict | the AUCs so far and the onsets by k | `SlideWindow` |
| `OfflineHDDM` | `HDDM_W_Py` and `run_hddm_on_signal`; extends `PerFeatureHDDM`, which runs on the same rows.  Each has a free signal of its own, since the two normalisations differ | detector, cooldown, fires; whether the signals were the same up to the first report, and its row, as history | `PyWarm`, `PySkip`, `PyFeed` |
| `OfflineResults` | `derisk_proxy.main`: runs over datasets and the merged result files | files as sequences of rows, the run's streams | `ChangeData`, `StartRun`, `EvaluateDataset`, `Fail`, `WriteFiles` |
| `InsectsTransform` | `transform` and the rule of `insects_class_freq` | the labels read | `ReadRow` |
| `SynthDrift` | both generators: concept of each line, rows, drift events | the rows written | `GenerateRow` |
| `ScoreReports` | AUC by ranks and by pairs, rates, thresholds, response delays, retrain counts | the records of a run | one action: a record |
| `ExperimentBatch` | expansion of plans, a batch with its runs, cleaning | result directories, lines left and logged | `StartBatch`, `Begin`, `NotReady`, `MakeDirectory`, `SubmitFails`, `Wait`, `NothingScored`, `Dump`, `MapFields`, `WriteConfig`, `Interrupt`, `BatchDone`, `CleanFailed` |

What is abstracted.  A score, a tree and a statistic are not computed: which
branch a comparison with a threshold takes is a free choice, so the models have
every behaviour the arithmetic could produce (and more).  Where a property is
about order or identity the data is exactly what carries it: row and line numbers,
rounds, versions, slots.  `PerFeatureHDDM` computes the weighted average, with
integer division where the code has a double; `Epsilon` and the two bounds are
constants because they depend on the parameters alone.  `ITreeMessage` keeps the
round of a batch, the slot, the batch end and psi; JSON is left out.
In `IKSWindow` observations and random draws are small numbers
and the statistic counts elements, as the code does before it divides.  The offline
replays take the statistic as free, but equal for two tests that were rebased at the
same samples.  Ratios in `ScoreReports` are pairs of integers and are compared by
cross multiplication.  `InsectsTransform`, `SynthDrift`, `ScoreReports` and
`OfflineAlignment` model functions of a whole file: their only variable is the input,
which grows row by row, and all results are operators on it; an invariant then
speaks of every input up to the bound, and an action property of how a longer input
changes the result.  A run of an experiment is abstracted to what it leaves behind
in its result directory.
The warn time-out of HDDM_W is left out: no decision of the jobs reads it.

## 3. The runs

| run | instance | asks | result |
|---|---|---|---|
| `processor_backlog` | BACKLOG_THEN_NEW_FOREST, d1a; 9 samples, 3 rounds, 2 versions, with fairness | every property of the scoring operator | holds |
| `processor_legacy` | USE_OLD_FOREST, legacy pool; 7 samples; broadcasts delivered again | that a subtask back in STABLE has left no sample behind | holds |
| `processor_repeats` | broadcasts delivered again | whether a round starts one pause only | **violated**, section 6 |
| `coordinator` | 3 trees on 2 subtasks, rounds 0..2, one restart, strays | completeness, no missed forest, one forest per round | holds |
| `coordinator_batchend` | the same | whether only a batch's last tree fires | **violated**, section 6 |
| `retraining` | 2 subtasks, 2 rounds, 6 samples each, aborts | that a forest needs every subtask and that subtasks waiting for one round are released; a ring of 3 cells: that it implements the bounded sequence | holds |
| `aggregator_parallel` | 3 features, 2 producers, onsets 0..5; the offline aggregators on 2 columns over 6 evaluations; the alignment over 4 windows | spacing, promptness, one vote per onset; that offline onsets are held quorums, that the aggregators agree as far as they are used as substitutes, that verdicts are sound and onsets final | holds |
| `aggregator_window` | the same | whether a round's voters lie within the window | **violated**, section 6 |
| `iks_gate` | 1 feature, 9 rows with gaps in their numbers, every sequence of statistics; offline replays over 6 samples; treap over windows of two, 3 slides | peak, distance of onsets, recall; that the replays agree; that the treap holds the windows and their distance | holds |
| `detection_one` | 2 features on one detector, 6 rows | refinement of `DriftAggregator`; rounds rest on drifts | holds |
| `analysis` | eight instances, below; 660 thousand states | the HDDM gate and its replay, loading and parsing, keys of rows, datasets, reports, result files, batches | holds |
| `batch_reuse` | the same | whether an OK line has a result produced as it asks | **violated**, section 6 |

What each property says, and of which code, stands above its definition.

Why the bounds are enough.  Each is chosen so that the situation a property is
about occurs, and can occur again after it was resolved.

* `MaxSamples = 9` and `MaxRound = 3` let a COOLDOWN of three samples be overtaken
  twice, be completed and be followed by another pause; `RingBufferSize = 2` is
  below `CooldownSamples = 3`, so the ring wraps; `CooldownTimeout = 2` with
  `MaxTime = 3` leaves orphan timers pending in a later COOLDOWN.  `Tick` may pass
  `MaxTime` while a timer is pending, so the bound never disables a timer.
* `coordinator` uses `TotalTrees = 3` on two subtasks, so that the round-up of
  `localTreeCount` matters; `SampleSizes = {1}` keeps it within minutes.  Mixed
  psi are covered by the theorem `ForestsAreComplete`, which holds for every set of
  sizes, and by `retraining`, where psi depends on the pool.
* `aggregator_parallel` has `AggWin = Refractory = 2` over six onsets: a round, its
  refractory period and a second round fit, with late reports in between.  The
  offline quorum has `Window = Cooldown = 2` and persistence 1 and 2, so a streak is
  broken, completed and suppressed by a cooldown within six evaluations.  Four
  windows of AUC hold a degradation that is sustained (two windows), recovers, and
  one still open at the end.
* `iks_gate` has a warm-up of 3, a confirmation of 2 rows and gaps placed so that a
  confirmation ends late; two reports fit.  The replays run with strides 1 and 2 and
  confirmations 0 to 2.  Three slides of a window of two replace it wholly and then
  once more; a rebase may come after each; priorities tie and differ.
* `retraining` has a ring of three cells and three elements, in every state it can be in:
  the head goes around any number of times.
* `analysis`.  HDDM: warm-up 2 and 12 rows fit two drifts (five rows each) and a
  third warm-up.  Two signals of six levels each are free at every row, so either
  detector may be ahead; rows are numbered consecutively, because no property of this
  instance depends on gaps.  Ingestion: header, row,
  blank, bad id, the offset noted every two lines, two loader runs, one job restart;
  one partition is what the deployment scripts create by default, and parsers of
  different partitions share nothing but the moment of a restart.  Keys: three
  subtasks, at most five candidates (the code tries sixteen per key group; a low limit
  lets the search fail), ints of three bits, the least one included.  INSECTS: five
  rows of four classes, empty labels and blank rows, drift points before, inside and
  beyond the file.  Synthetic: streams that end inside and after every transition.
  Reports: four records over sequence numbers 0..3 with gaps, two versions, one or
  two drifts.  Results: two datasets, three runs, each with a sweep or none, over one
  dataset or all.  Batches: four plans, two of which share their lines, two batches,
  so that a batch meets what an interrupted or a different one left.

`CHECK_DEADLOCK FALSE` appears in every configuration because the models stop when
the bounded stream, file or topic is used up, which the program's input also may.

## 4. The environment and its assumptions

* **Fairness.**  `LocalProcessor!FairSpec` assumes weak fairness of `Tick` (Flink's
  processing time advances) and of `FireTimer` (the timer service fires what is
  due).  It assumes nothing about samples, forests or decisions, which may stop
  arriving.  `CooldownEnds` is the only liveness property: WAITING has no timer, so
  its end depends on other subtasks and may never come when one of them aborted.
* **Delivery.**  Broadcasts and trees are written AT_LEAST_ONCE: `AtLeastOnceSpec`
  delivers forests and decisions again, `Coordinator` lets a restarted scoring job
  write trees again from its last checkpoint, and old trees of another
  configuration may be read (strays).  A topic's partition keeps its writer's order.
* **Producers of feature-drift-topic.**  `DriftAggregator` has writers that each
  write the onsets of a feature in order; the others interleave freely.
  `Detection` takes the sink's parallelism to be the detectors'.
* **Row numbers.**  The job numbers rows by their id column (PARSE_ID).  `NoGaps`,
  an assumption of three theorems, says that rows are numbered consecutively;
  `PerFeatureIKS` itself only assumes that numbers increase, and the run
  `iks_gate` has gaps.  `Ingestion!NumbersIncrease` shows when they do increase.
* **Restarts.**  They are modelled where they are observable from outside the
  restarted operator: trees written again, broadcasts delivered again, the parser's
  transient fields.  Restoring a scoring subtask or a detector from a checkpoint
  takes it, together with its input position, to an earlier state of the same run
  and is left to section 7.
* **Kafka producer of the loader.**  Within a partition lines are delivered in the
  order sent, or given up; reordering by the client's retries is not modelled.
* **Random numbers of the treap.**  `IKSWindow` assumes that no two observations of a
  window draw the same `random()`; with equal value and equal draw the code's keys
  would coincide.  Priorities may tie.
* **Interrupts.**  A batch may be broken off before every step of a run; a step
  itself (`mkdir`, writing job-config.json) is taken to be atomic, except the dump of
  the scores, which may be left truncated.

## 5. The proofs

All theorems hold for every value of the constants that satisfies the named
assumption of the module (`LocalProcessorAssumption`, `AggregatorAssumption`, ...).
Each rests on an inductive invariant, because the property alone is not inductive.

| module | theorem | invariant and why it is needed |
|---|---|---|
| `DriftAggregatorProofs` | `TypeCorrect`, `RoundsStayApart` (from `RoundsSpaced`, `OnsetsVoteOnce`), `QuorumCommits`; `RoundsHaveQuorum` under `OrderedDelivery` | `SpacingInv`: the last emission is the last round's position. `PromptInv`. `VotesInv`: every remembered onset is later than any that voted. `QuorumInv`: with reports in onset order everything remembered lies between the window's start and the report |
| `CoordinatorProofs` | `TypeCorrect`, `ForestsAreComplete`, `NoForestMissed`; `RoundsPublishedOnce` | `AssemblyInv`: each tree lies in its own cell, and a full uniform grid is the last forest's. `OnceInv`: what lies in the grid is behind its writer's batch and no forest is ahead of the grid; it holds until a restart |
| `LocalProcessorProofs` | `TypeCorrect`, `EverySampleOnce`, `NothingLeftBehind`, `RoundIsKnown`, `TimerIsPending`, `NoEarlyAbort`, `PoolSinceDecision`, for all policies and with repeats; `BatchBeforeWaiting` under `FirstSampleTaken`; `NoRoundTwice` and `BatchesInOrder` without repeats | `StreamInv` ties output, backlog, phase and sub-state together; `PauseInv` ties sub-state, round, decision and timer. `RoundsInv`: the decision handled last is not ahead of the broadcast one, which only grows while nothing is repeated; with the other two, a sample that finds nothing new to handle leaves a pause as it is but for its count (`CooldownGoesOn`, `PauseSteps`). `PoolInv`: under d1a the pool is the last samples read, and at most as many as were read since the decision. `BatchInv`: a subtask in WAITING has just written, as its last trees, a whole batch of its round. `TreesInv`: what a subtask wrote is in the order of rounds, a batch together |
| `PerFeatureIKSProofs` | `TypeCorrect`, `ReportsStayConfirmed` (from `OnsetsLieApart`, `ReportsTellThePeak`), `OnsetsAreExcesses`, `NothingUnreported`; `ReportsAreOrdered` under `NoGaps` | `ApartInv`: reports lie behind the reading position by the rows a confirmation and a warm-up take. `OrderInv`: an open confirmation is not expired and every report was due before it. `ExcessInv`. `PeakInv`: the peak is the largest statistic since the confirmation began (`Underway`), every report came out of such a confirmation (`AllConfirmed`), and each excess seen lies in the confirmation of a report or in the open one (`Recalled`) |
| `IngestionProofs` | `NothingSkippedUnsent`, `OnceInOrder`, `RowsArrive` | `CoverInv`: every line up to the loader's position, and up to the noted offset, is on the topic, in the producer's buffer or lost. `OrderInv`: what was sent is in order and ends at the loader's position as long as nothing disturbed it. `NumberInv`: parser and checkpoint have numbered what they read, in order. `CountInv`: between data lines read and rows emitted there are at most the lines that starts took for a header |
| ... `ParallelismKeys` | `KeysAreRight` | `KeysInv`: a subtask has a key exactly if a candidate tried went there, and the counter counts these subtasks, so a full count leaves none out. `IndexIs`: the absolute value of a remainder is an index, and every index is one |
| `RetrainingProofs` | `SubtasksBehave`, `ForestsInOrder`, `NoForestTooEarly`; `HandshakeReleases` under d1a | `JointInv`: the invariants of both components, each tree read is stored or was overwritten by a later round, and each forest's round was written by every subtask (`GridInv`). `ReleaseInv`: who waits, waits to get past a version whose forests are of rounds before its own. Without d1a the pools may differ in size, and the coordinator refuses the grid |
| ... `RingBuffer` | `RingIsPool`, `ReadersGetRecent` | `RingInv`: until it is full the array is filled from the first cell, up to the head. Read from the oldest cell and around, the cells are each read once (`CellsInOrder`), and writing at the head is adding at the end (`WriteAdds`), so each step is one of `TrainingPool` or a stutter. `PoolIsTheSubtasks`: its `Add` is the one of `LocalProcessor`. That snapshot and peekOldest return what that sequence holds (`ReadsRecent`) is proved only, not part of a run |
| `DetectionProofs` | `TypeCorrect`; `Refines` under `NoGaps`; `RoundsAreFounded` under `NoGaps` and `OneDetector` | `TopicInv`: what the aggregator has read is a prefix of what was written. Each step of the composition is a step of `DriftAggregator` or a stutter, so its theorems carry over; with `OnsetsAreExcesses` every round rests on K excesses of the statistic |
| ... `IKSWindow` | `TreapStaysExact` | `WindowInv`: the windows are `Length` observations each with distinct draws, and the treap `Holds` their keys: it is a search tree on them, its entries (with the late sums pushed down) are each key with the difference of the groups up to it, and the extremes in its nodes are right. Every split, merge and sum is characterised by the entries of what it returns (`...SoundIn`); adding or removing one observation changes the differences from its key on. `ValueGap` compares with the statistic of the values |
| `OfflineProofs`, about `PerFeatureHDDM` | `TypeCorrect`, `ReferenceIsFresh`, `OnsetsLieApart`, `DriftsRestOnShifts` | `DetectorIInv`: the count is the rows since the last drift; the collected rows are exactly these; the lowest signal is at most the lowest average, and the average has risen above its minimum no more than some signal above an earlier one. `AverageBetween` is all that is used of the arithmetic |
| ... `OfflineHDDM` | `ReplayImitates` | `ThrottleInv`, on the replay alone: cooldown and samples fed add up to the rows since its last fire and a warm-up. `AlikeInv`: while the signals have been the same and nothing was reported, the replay's detector is the gate's (`UpdateAgrees`), so the first to fire is both |
| ... `OfflineGate` | `ReplaysAgree`, from `CalibrationIsPrototype`, `CrossingsStayApart`, `EdgesFired` | `GateTypeInv`. `SyncInv`: with stride 1 the replay's confirmation state is the prototype's, its counter and the countdown add up to the window. `ApartInv`: the next crossing cannot lie closer than a confirmation to the last. `EdgeInv`: without a confirmation window every excess that was seen after a quiet test has fired |
| ... `OfflineQuorum` | `QuorumCorrect`, `AggregatorsCompare` | `WindowInv`: what is present is what crossed within the window. `StreakInv`: the streak is the number of evaluations the quorum has been held. `LastInv`: the last onset is the latest of the onsets. `OnsetInv`. `CalibInv`, `Phase1Inv`: the windows of the aggregators that look at crossings only are right when something crosses (`EdgeWindow`), and nothing becomes a quorum when nothing does; so neither has missed a first quorum (`Answers`) |
| ... `OfflineAlignment` | `VerdictsHold`, `OnsetKept` | `AlignTypeInv`. A window below the baseline by delta is below by GT_DELTA, so it lies in a segment (`BelowHasSegment`); among results that differ in k one beats the others (`BestExists`); windows after the drift do not change the baseline (`LongerStream`) |
| ... `InsectsTransform` | `TransformCorrect` | typing; the numbers of kept rows are exactly 1, 2, ... (`KeptAreNumbered`) |
| ... `ScoreReports` | `MeasuresHold`, `ResponsesInOrder`, `DelaysKept` | typing. Twice the mean rank of a row is the rows below it and those not above, plus one (`TwiceRankIs`); among the anomalies themselves these add up to all pairs (`OrderCount`), and what remains are the comparisons with normal rows (`SegmentAucs`). Rates fall as the threshold rises, so beyond the first rate within the target they only move away from it (`NearestIsScanned`). The version before a drift bounds what earlier drifts were credited with. Rows beyond the next drift are in no set that a delay is computed from (`LaterRecord`), and a measure depends on the rows it is taken on only (`SegmentMeasures`) |
| ... `SynthDrift` | `ConceptIsTold` | `SynthInv`: every normal row written has a mean that its line allows. After k switches the loop has filled the lines before the k-th with the concepts in turn (`MeansAlternate`) |
| ... `OfflineResults` | `RowsKeptLatest`, `OthersAreKept` | `FilesInv`: a file holds each dataset once, with the run that wrote it last, and what has details has a summary. `StreamsInv`: what a run has gathered is of this run and of datasets that it is done with, and each of these is in the summary |
| ... `ExperimentBatch` | `OkMeansScores`, `FinishedIsKept` | `BatchInv`: the lines left are the last of the plan, so a line that is logged is none of those to come (`RestOfPlan`); the stage of a run says what is in its result directory (`StageInv`); fields are mapped in scores that are there only |

`Refines` and `RoundsAreFounded` are about the composition: the environment that
the aggregator's theorems assume is the one the detectors provide.

`SubtasksBehave` and `ForestsInOrder` do the same for the handshake: decisions and
forests reach a subtask once and in order, and the scoring subtasks are writers as
`Coordinator` takes them to be, so the theorems about either hold in the
composition.

Hypotheses of theorems.  `NoGaps` (rows numbered consecutively) and `OneDetector`
are properties of a deployment, section 4.  `D1a` is one of the two pool policies
of the code.  `FirstSampleTaken` is d1a, or a cold start of more than one sample:
the z-score filter could otherwise refuse the first sample of a pool; the code
starts after 50.  `BatchAssumption` says that every plan expands to a list of
lines without repetition: the expansion is a fold, and TLC evaluates the
assumption on the plans of the instance.  `ReportsAssumption` says that drifts are
listed in order, that forest versions count from 1, and that scores and target
rates are numbers that are not negative.

The least and the greatest element of a set of numbers exist by `LeastNumber` and
`MaxIsGreatest`; the former follows from the well-foundedness of the naturals,
and the latter, and other inductions, by a smallest counterexample.  In the same
way the loops that `SynthDrift!Slices` and `OfflineResults!Without` define as
recursive functions are shown to have a value for every number of turns
(`LoopRuns`, `KeepingExists`), and what they return is derived from it.

The operations on the treap are recursive functions over `Trees`, the trees of at most
`MaxNodes` levels.  Each is shown to have a value level by level (`WalkExists`,
`MergeExists`, `StepsExist`), and what it returns for trees of h levels is proved by the
smallest h for which it would be wrong.  That no operation leaves `Trees` follows from
`LevelIsCount`: a sound tree needs no more levels than it has keys, and the two windows
never hold more than `MaxNodes` keys together.

To be provable, sums of natural numbers (`ScoreReports!Sum`,
`OfflineAlignment!PreTotal`) are counts of the points under their graph, not folds.

Model-checked only: `CooldownEnds`, since liveness is out of the prover's reach.

The four statements that runs refute are not proved, of course, but
`RoundsHaveQuorum` and `NoRoundTwice` prove two of them under the assumption that
they need.

## 6. Disagreements with the documentation

Four runs refute what a comment says of the code.

* `aggregator_window` (`WindowQuorum`): a round is said to rest on K onsets within
  `aggWin`.  `DriftAggregatorFunction` bounds the window from below only, so with
  several producers an onset later than the current report still votes.
  `RoundsHaveQuorum` proves that the statement holds when reports arrive in order.
* `coordinator_batchend` (`FiresOnlyOnBatchEnd`): a forest is said to be triggered
  only by a tree with `batchEnd`; the check is commented out.
* `processor_repeats` (`RoundsHandledOnce`): `lastProcessedDecision` is said to
  guard against repeats; it recognises only a repeat of the latest decision.
* `batch_reuse` (`OkWasRunAsAsked`): exp2 shuffles and exp3 lets detection follow the
  parallelism, as the plan file says, but the name of a result tells neither; after a
  batch of the one the other skips its runs and logs them as OK.

Other observations are modelled as the code has them, and the properties are stated
so that they hold.

* Each start of a parser drops the first line it reads as the header, so a restart,
  or a second partition, costs a data row (`RowsSurvive` counts it).  A bad id fails
  the job again and again, until a checkpoint just before it lets it be dropped as
  the header.
* A loader run that ends before it has skipped what was sent notes an earlier offset
  than it found, and the next run sends those lines again (`SentOnceInOrder` excepts
  such runs).
* `find_threshold_at_fpr` (`A/analyze.py`) is asked for a rate of 5%, and its result is
  printed under a heading with "<="; it takes the nearest rate, which may be above (`ThresholdIsNearest` says nearest).
* `A/analyze.py` calls the number of retrains "number of forestVersions - 1"; it is
  the highest version - 1, which differs when no record has a version between.
* `A/derisk_proxy.py` says that the statistic in the order of the random tie-breaks
  bounds that of the values from above, by 1/W at most.  It does bound it
  (`ValueKSIsBelow`), but with many equal values by more than 1/W.
* The rule of `insects_class_freq` leaves empty labels out, `transform` does not
  (`RulesAgree` supposes that there is none).
* `expand_configurations` of `cfg_query.py` ignores a plan's extras.
* A result broken off between the dump and job-config.json keeps a truncated
  scores.jsonl; `clean-failed-results.sh` leaves it, and the next batch logs it as OK.
* In the merged result files the rows of a dataset that a later run skips stay.
* `compute_signal` (`A/hddm_signal_sanity.py`) is said to mirror the job's warm-up and
  normalisation word for word.  It takes deviations from the final mean where the job
  takes them from the running mean (which a comment in it calls negligible), an
  interpolated percentile where the job takes the nearest rank, and it keeps the first
  reference where the job collects a new one after every drift (which
  `run_hddm_on_signal` calls a simplification).  `ReplayAgrees` therefore gives the two
  detectors a signal each, and compares drifts up to the first report only.
* With forests delivered again, the version noted at the end of a COOLDOWN may be an
  older one than was known before, and WAITING then ends with a forest that is not
  new.  In `Retraining` forests arrive once and in order.
* `J/drift/IKS.java` compares with `ca * sqrt(2 / W)`; `KSThresholdForPValue` in
  `A/IKS.py` lacks the square root.

## 7. The plan

Done, in this order: aggregator, coordinator, scoring operator, their composition,
IKS gate and its composition with the aggregator, ingestion, HDDM gate; then the
treap, the offline replays and aggregators with proofs, dataset preparation, score
reports, result files and experiment batches; then theorems about ingestion, the
pools and batches of the scoring operator, the handshake, the peaks of the IKS gate,
and the offline code, the treap last; then the training pool's array and the keys of
rows, checked and proved.  Next:

1. HDDM in `Detection`: reports carry the current row, so detectors write in order
   even with gaps; a refinement like `Refines` without `NoGaps`.
2. Checkpoint and restore of a scoring subtask in `LocalProcessor`, with timers.
3. `ITreeBuilder`: the structure of a built tree (preorder ids, sizes that add up,
   height limit) over an arbitrary choice of splits.  For TLC only.
4. The throughput and scalability modes of `analyze`, and the choice of an operating
   point from the sweep rows.

## 8. What is not modelled

* Scores, path lengths, splits, quantiles, averages and medians: real arithmetic.
* Unused detector variants (`HDDM_A`, `HDDM_A_Windowed`): no job reaches them.
* Kafka helpers, dumpers, the mock publisher: input and output without state of
  their own.  Cluster scripts: administration; what a run leaves behind is modelled.
* Scripts that print a table or a plot or make a one-off check: `A/exp3_*.py`,
  `count_committed.py` (which still expects ABORTED rounds, a state no job writes),
  `insects_feature_audit.py`, `oracle_ceiling_test.py`, `shuffle_csv.py`.
* The wording of verdicts, among them phase 1.5, whose docstring and code differ in
  their cases; headers and feature values of generated files.
* Parameter parsing, logging, plots, rate limiting.
