----------------------------- MODULE MCAnalysis -----------------------------
(***************************************************************************)
(* Instances for TLC of the way of the data through an experiment, one of  *)
(* them per behaviour: how datasets are made (SynthDrift,                  *)
(* InsectsTransform), loaded and parsed (Ingestion) and spread over the    *)
(* scoring subtasks (ParallelismKeys), the HDDM_W detection                *)
(* on a feature with its offline replay (OfflineHDDM), the batches of      *)
(* experiments (ExperimentBatch), the reports from their scores            *)
(* (ScoreReports) and the result files of the prototype (OfflineResults).  *)
(* The others stay in one initial state.                                   *)
(***************************************************************************)
EXTENDS OfflineHDDM, Ingestion, ParallelismKeys, InsectsTransform, SynthDrift, ScoreReports,
        OfflineResults, ExperimentBatch

CONSTANT p1

\* A file with every kind of line that matters, one partition, and jobs with
\* and without a header and an id column.
TheKind == <<"header", "row", "blank", "badId">>
TheJobs == {[hasHeader |-> TRUE, ids |-> "column"], [hasHeader |-> FALSE, ids |-> "auto"]}

\* Returns to the old concept and leaves it again; the last switch may lie
\* beyond the end of the stream.
TheSwitches == <<2, 4, 5>>

TheDrifts == {<<2>>, <<1, 3>>}
TheTargets == {Ratio(1, 3), Ratio(1, 20)}
NinetyFive == Ratio(19, 20)
Ten == Ratio(1, 10)

TheDatasets == <<"synth", "insects">>

\* Plans as in experiment-configs.yml, cut down: exp2 and exp3 share a dataset,
\* a configuration, a parallelism and their extras; the other two have one point.
Plan(kind, ds, grid, repeats, extras, points) ==
  [kind |-> kind, datasets |-> <<ds>>, configs |-> <<"BACKLOG">>, algorithms |-> <<>>,
   grid |-> grid, repeats |-> repeats, extras |-> extras, points |-> points]
ThePlans ==
  [exp2 |-> Plan("grid", "donors", <<"1">>, 2, <<"aggK=2">>, <<>>),
   exp3 |-> Plan("grid", "donors", <<"1">>, 1, <<"aggK=2">>, <<>>),
   sensitivity_iks |-> Plan("grids", "insects", <<>>, 1, <<"aggK=2">>, <<<<"W=1">>>>),
   lambda_sweep |-> Plan("configurations", "insects", <<>>, 1, <<>>,
                         <<<<"lambda=1", "aggK=2">>>>)]

VARIABLE machine  \* the instance that takes the steps

Machines == {"detector", "input", "keys", "transform", "synth", "reports", "results", "batch"}

JobIdle == job = [hasHeader |-> TRUE, ids |-> "column"]
SynthIdle == call.version = 1 /\ call.n = 4 /\ call.name = "synth_abrupt"
ReportsIdle == drifts = <<2>>
ResultsIdle == \A d \in Datasets : data[d] = "ok"

AllInit ==
  /\ machine \in Machines
  /\ BothInit
  /\ IngestionInit /\ (machine # "input" => JobIdle)
  /\ KeysInit
  /\ TransformInit
  /\ SynthInit /\ (machine # "synth" => SynthIdle)
  /\ ReportsInit /\ (machine # "reports" => ReportsIdle)
  /\ ResultsInit /\ (machine # "results" => ResultsIdle)
  /\ BatchInit

AllNext ==
  /\ \/ /\ machine = "detector" /\ BothNext
        /\ UNCHANGED <<ingestionVars, keyVars, original, synthVars, reportVars, resultVars, batchVars>>
     \/ /\ machine = "input" /\ IngestionNext
        /\ UNCHANGED <<bothVars, keyVars, original, synthVars, reportVars, resultVars, batchVars>>
     \/ /\ machine = "keys" /\ KeysNext
        /\ UNCHANGED <<bothVars, ingestionVars, original, synthVars, reportVars, resultVars, batchVars>>
     \/ /\ machine = "transform" /\ TransformNext
        /\ UNCHANGED <<bothVars, ingestionVars, keyVars, synthVars, reportVars, resultVars, batchVars>>
     \/ /\ machine = "synth" /\ SynthNext
        /\ UNCHANGED <<bothVars, ingestionVars, keyVars, original, reportVars, resultVars, batchVars>>
     \/ /\ machine = "reports" /\ ReportsNext
        /\ UNCHANGED <<bothVars, ingestionVars, keyVars, original, synthVars, resultVars, batchVars>>
     \/ /\ machine = "results" /\ ResultsNext
        /\ UNCHANGED <<bothVars, ingestionVars, keyVars, original, synthVars, reportVars, batchVars>>
     \/ /\ machine = "batch" /\ BatchNext
        /\ UNCHANGED <<bothVars, ingestionVars, keyVars, original, synthVars, reportVars, resultVars>>
  /\ UNCHANGED machine

AllSpec ==
  AllInit /\ [][AllNext]_<<bothVars, ingestionVars, keyVars, original, synthVars, reportVars,
                           resultVars, batchVars, machine>>
=============================================================================
