--------------------------- MODULE ExperimentBatch ---------------------------
(***************************************************************************)
(* Batches of experiments: cfg_query.py expands a plan of                  *)
(* experiment-configs.yml to lines, run-batch.sh runs run-experiment.sh    *)
(* for one line after another, and a batch that was interrupted is started *)
(* again: the runs that have a result are skipped.                         *)
(* clean-failed-results.sh removes the results found incomplete.           *)
(*                                                                         *)
(* What a run does to the cluster is left out; what counts is what it      *)
(* leaves in its result directory, and under which name.                   *)
(***************************************************************************)
EXTENDS Integers, Sequences, FiniteSets, SequencesExt

CONSTANTS
  Plans,         \* name |-> plan, as in experiment-configs.yml
  DefaultPar,    \* JOB_LOCAL_PARALLELISM of .env
  Shuffled,      \* plans that run-batch.sh shuffles: exp2
  Following,     \* plans whose detection follows the parallelism: exp3
  MaxBatches     \* bound: batches started

Unset == "_"

-------------------------------------------------------------------------------
(* cfg_query.py: the lines of a plan.                                      *)

Line(ds, cfg, algo, par, run, extra) ==
  [dataset |-> ds, config |-> cfg, algorithm |-> algo, parallelism |-> par,
   run |-> run, extra |-> extra]

\* One line of f(x) for each x of s, repeats times.
Repeated(repeats, s, f(_, _)) ==
  FlattenSeq([k \in DOMAIN s |-> [r \in 1..repeats |-> f(s[k], r)]])

Product(s, t) == FlattenSeq([i \in DOMAIN s |-> [j \in DOMAIN t |-> <<s[i], t[j]>>]])

FirstAlgorithm(plan) == IF plan.algorithms = <<>> THEN Unset ELSE plan.algorithms[1]

\* One parameter at a time, the extras of the plan after it.
ExpandSensitivity(plan) ==
  Repeated(plan.repeats, plan.points,
           LAMBDA p, r : Line(plan.datasets[1], plan.configs[1], FirstAlgorithm(plan),
                              Unset, r, p \o plan.extras))

\* All parameters of a point together; the extras of the plan are not added.
ExpandConfigurations(plan) ==
  Repeated(plan.repeats, plan.points,
           LAMBDA p, r : Line(plan.datasets[1], plan.configs[1], FirstAlgorithm(plan),
                              Unset, r, p))

ExpandGrid(plan) ==
  LET orElse(s) == IF s = <<>> THEN <<Unset>> ELSE s
      runs == Product(Product(plan.datasets, plan.configs),
                      Product(orElse(plan.algorithms), orElse(plan.grid)))
  IN  Repeated(plan.repeats, runs,
               LAMBDA x, r : Line(x[1][1], x[1][2], x[2][1], x[2][2], r, plan.extras))

ExpandPlan(name) ==
  LET plan == Plans[name]
  IN  CASE plan.kind = "grids" -> ExpandSensitivity(plan)
        [] plan.kind = "configurations" -> ExpandConfigurations(plan)
        [] OTHER -> ExpandGrid(plan)

\* What run-batch.sh asks of run-experiment.sh for a line of the plan.
Asked(name, line) ==
  [line |-> [line EXCEPT !.parallelism = IF @ = Unset THEN DefaultPar ELSE @],
   shuffle |-> name \in Shuffled, follow |-> name \in Following]

\* The name of the result directory: the line, not how it was asked for.
ExpId(asked) == asked.line

-------------------------------------------------------------------------------

ExperimentsOf(name) ==
  {ExpId(Asked(name, ExpandPlan(name)[k])) : k \in DOMAIN ExpandPlan(name)}
Experiments == UNION {ExperimentsOf(name) : name \in DOMAIN Plans}

\* A plan expands to a list of lines, and experiment-configs.yml gives no plan
\* a line twice: a value is listed once, and points differ.
ListsOnce(name) ==
  LET lines == ExpandPlan(name)
  IN  /\ lines \in Seq(Range(lines))
      /\ \A i, j \in DOMAIN lines : Asked(name, lines[i]) = Asked(name, lines[j]) => i = j

ASSUME BatchAssumption ==
  /\ Unset \notin DOMAIN Plans /\ \A name \in DOMAIN Plans : ListsOnce(name)

\* A result directory: scores.jsonl (no file, empty, truncated, all), whether
\* its fields have been mapped, whether job-config.json was written, and how
\* the last run for it was asked for.
NoFile == "no file"
NoResult == [scores |-> NoFile, mapped |-> FALSE, config |-> FALSE, asked |-> {}]

VARIABLES
  results,   \* experiment |-> its result directory
  batch,     \* the plan of the running batch, its lines to do, its log
  step,      \* the run in progress: its stage and the exit status so far
  started    \* batches started

batchVars == <<results, batch, step, started>>

NoBatch == [plan |-> Unset, todo |-> <<>>, ok |-> {}, fail |-> {}]
NoRun == [at |-> "idle", status |-> 1]

BatchInit ==
  /\ results = [e \in Experiments |-> NoResult]
  /\ batch = NoBatch /\ step = NoRun /\ started = 0

StartBatch(name) ==
  /\ batch.plan = Unset /\ started < MaxBatches
  /\ batch' = [NoBatch EXCEPT !.plan = name, !.todo = ExpandPlan(name)]
  /\ started' = started + 1
  /\ UNCHANGED <<results, step>>

CurrentRun == Asked(batch.plan, Head(batch.todo))
Id == ExpId(CurrentRun)

\* run-batch.sh writes the status of the line to its log and takes the next.
Logged(status) ==
  /\ batch' = [batch EXCEPT !.todo = Tail(@),
                            !.ok = IF status = 0 THEN @ \cup {CurrentRun} ELSE @,
                            !.fail = IF status # 0 THEN @ \cup {CurrentRun} ELSE @]
  /\ step' = NoRun

\* Mutant of HasResult: the directory is there, which is made before the run.
HasDirectory(e) == results[e].asked # {}

\* Mutant of HasResult: only what is complete counts as a result.
HasAllScores(e) == results[e].scores = "all"

\* "test -f scores.jsonl": the result of an earlier run.
HasResult(e) == results[e].scores # NoFile

Begin ==
  /\ batch.todo # <<>> /\ step.at = "idle"
  /\ IF HasResult(Id)
     THEN Logged(0) /\ UNCHANGED results
     ELSE /\ step' = [at |-> "clean", status |-> 1]
          /\ UNCHANGED <<results, batch>>
  /\ UNCHANGED started

\* The topics cannot be cleaned, or the data are not on the master: nothing is made.
NotReady(status) ==
  /\ step.at = "clean"
  /\ Logged(status) /\ UNCHANGED <<results, started>>

\* mkdir -p: what a failed run left there stays.
MakeDirectory ==
  /\ step.at = "clean"
  /\ results' = [results EXCEPT ![Id].asked = {CurrentRun}]
  /\ step' = [step EXCEPT !.at = "submit"]
  /\ UNCHANGED <<batch, started>>

SubmitFails ==
  /\ step.at = "submit"
  /\ Logged(2) /\ UNCHANGED <<results, started>>

\* The jobs ran until all was scored, until nothing moved (status 0 both), or
\* until the deadline.
Wait(status) ==
  /\ step.at = "submit"
  /\ step' = [at |-> "collect", status |-> status]
  /\ UNCHANGED <<results, batch, started>>

\* The topic is empty: there is nothing to dump.
NothingScored ==
  /\ step.at = "collect"
  /\ step' = [at |-> "config", status |-> 2]
  /\ UNCHANGED <<results, batch, started>>

\* The console consumer writes scores.jsonl; it may not deliver all.
Dump(scores) ==
  /\ step.at = "collect"
  /\ results' = [results EXCEPT ![Id].scores = scores]
  /\ step' = IF scores = "empty" THEN [at |-> "config", status |-> 2]
             ELSE [step EXCEPT !.at = "map"]
  /\ UNCHANGED <<batch, started>>

\* The fields are renamed in a copy that replaces the file, unless the script
\* stops at a line cut in two; its failure goes unnoticed.
MapFields(success) ==
  /\ step.at = "map"
  /\ success \/ results[Id].scores = "truncated"
  /\ results' = [results EXCEPT ![Id].mapped = success]
  /\ step' = [step EXCEPT !.at = "config"]
  /\ UNCHANGED <<batch, started>>

WriteConfig ==
  /\ step.at = "config"
  /\ results' = [results EXCEPT ![Id].config = TRUE]
  /\ Logged(step.status)
  /\ UNCHANGED started

\* The batch is broken off, whatever the run is doing.
Interrupt ==
  /\ batch.plan # Unset /\ batch.todo # <<>>
  /\ batch' = NoBatch /\ step' = NoRun
  /\ UNCHANGED <<results, started>>

BatchDone ==
  /\ batch.plan # Unset /\ batch.todo = <<>>
  /\ batch' = NoBatch
  /\ UNCHANGED <<results, step, started>>

\* clean-failed-results.sh --delete, between batches.  Whether scores are
\* enough is judged by the job-config.json only.
Incomplete(r) ==
  \/ r.scores \in {NoFile, "empty"}
  \/ r.config /\ r.scores = "truncated"
CleanFailed ==
  /\ batch.plan = Unset
  /\ \E e \in Experiments : results[e] # NoResult /\ Incomplete(results[e])
  /\ results' = [e \in Experiments |-> IF Incomplete(results[e]) THEN NoResult ELSE results[e]]
  /\ UNCHANGED <<batch, step, started>>

BatchNext ==
  \/ \E name \in DOMAIN Plans : StartBatch(name)
  \/ Begin
  \/ \E status \in {2, 3} : NotReady(status)
  \/ MakeDirectory \/ SubmitFails
  \/ \E status \in {0, 1} : Wait(status)
  \/ NothingScored
  \/ \E scores \in {"empty", "truncated", "all"} : Dump(scores)
  \/ \E success \in BOOLEAN : MapFields(success)
  \/ WriteConfig \/ Interrupt \/ BatchDone \/ CleanFailed

BatchSpec == BatchInit /\ [][BatchNext]_batchVars

-------------------------------------------------------------------------------
(* Properties.                                                             *)

\* Every line that the log of a batch calls OK has a scores.jsonl under its
\* name, whether it was run or skipped, after interrupted runs and after the
\* cleaning of failed ones; and no line is both OK and failed.
OkHasScores ==
  /\ \A asked \in batch.ok : results[ExpId(asked)].scores # NoFile
  /\ batch.ok \cap batch.fail = {}

\* A finished result, with its fields mapped and its job-config, stays as it
\* is, unless it was cleaned away because it is truncated: a batch that is
\* started again never runs a finished experiment again.
FinishedStays ==
  [][\A e \in Experiments :
       results[e].mapped /\ results[e].config /\ results'[e] # results[e] =>
         /\ results[e].scores = "truncated"
         /\ results'[e] = NoResult]_batchVars

\* What the plans say of exp3 and exp2: a line that is reported OK has a
\* result that was produced as the line asks, shuffled or not, with the
\* detection parallelism of the run or not.
OkWasRunAsAsked ==
  \A asked \in batch.ok : results[ExpId(asked)].asked = {asked}
===============================================================================
