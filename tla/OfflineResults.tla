---------------------------- MODULE OfflineResults ----------------------------
(***************************************************************************)
(* derisk_proxy.main: one run after another over the datasets of           *)
(* datasets.yml, or over one of them (--dataset), and the result files     *)
(* they share.  A run evaluates its datasets one by one and writes at the  *)
(* end; with --dataset it merges into what the files already hold.         *)
(*                                                                         *)
(* The rows that a run computes for a dataset are one row here, with the   *)
(* number of the run.  Between the steps of a run, and between runs, CSVs  *)
(* come and go.                                                            *)
(***************************************************************************)
EXTENDS Naturals, Sequences, SequencesExt

CONSTANTS
  DatasetNames,  \* the order of datasets.yml: a sequence without repetitions
  Details,       \* streams besides the summary: ksweep, labeled, precision_sweep
  MaxRuns        \* bound: runs

All == "all"
Datasets == ToSet(DatasetNames)
Files == {"summary", "ksconfirm"} \cup Details

\* A dataset has no CSV, no labelled drift, columns that disagree with its
\* `dimensions`, or can be evaluated.
Data == {"missing", "no_drifts", "bad", "ok"}

ASSUME ResultsAssumption ==
  /\ DatasetNames \in Seq(Datasets) /\ IsInjective(DatasetNames) /\ All \notin Datasets
  /\ "summary" \notin Details /\ "ksconfirm" \notin Details /\ MaxRuns \in Nat

VARIABLES
  data,      \* state of each dataset
  files,     \* per file: its rows; <<>> when it does not exist
  runNo,     \* runs started
  task,       \* the current run: its arguments, the specs to do, its streams
  lastRun,   \* ghost: per file and dataset, the last run that wrote rows of it
  failed     \* ghost: runs that stopped with an exception

resultVars == <<data, files, runNo, task, lastRun, failed>>

NoStreams == [f \in Files |-> <<>>]
Idle == [busy |-> FALSE, sweep |-> FALSE, dataset |-> All, specs |-> <<>>, streams |-> NoStreams]

ResultsInit ==
  /\ data \in [Datasets -> Data]
  /\ files = NoStreams
  /\ runNo = 0 /\ task = Idle
  /\ lastRun = [f \in Files |-> [d \in Datasets |-> 0]]
  /\ failed = {}

\* Somebody copies, removes or repairs a dataset.
ChangeData(d, s) ==
  /\ data[d] # s
  /\ data' = [data EXCEPT ![d] = s]
  /\ UNCHANGED <<files, runNo, task, lastRun, failed>>

\* The command line: --ksconfirm-sweep or not, --dataset or not.
StartRun(sweep, dataset) ==
  /\ ~task.busy /\ runNo < MaxRuns
  /\ runNo' = runNo + 1
  /\ task' = [busy |-> TRUE, sweep |-> sweep, dataset |-> dataset, streams |-> NoStreams,
             specs |-> IF dataset = All THEN DatasetNames ELSE <<dataset>>]
  /\ UNCHANGED <<data, files, lastRun, failed>>

ResultRow(d) == [dataset |-> d, run |-> runNo]
Added(names, d) ==
  [f \in Files |-> IF f \in names THEN Append(task.streams[f], ResultRow(d)) ELSE task.streams[f]]

\* run_dataset, or one turn of the ksconfirm loop, on the first spec left.
\* A skipped dataset has a row in the summary only.
EvaluateDataset ==
  /\ task.busy /\ task.specs # <<>> /\ data[Head(task.specs)] # "bad"
  /\ LET d == Head(task.specs)
         names == IF task.sweep
                  THEN IF data[d] = "ok" THEN {"ksconfirm"} ELSE {}
                  ELSE {"summary"} \cup (IF data[d] = "ok" THEN Details ELSE {})
     IN  task' = [task EXCEPT !.specs = Tail(@), !.streams = Added(names, d)]
  /\ UNCHANGED <<data, files, runNo, lastRun, failed>>

\* load_dataset raises: the run ends without writing anything.
Fail ==
  /\ task.busy /\ task.specs # <<>> /\ data[Head(task.specs)] = "bad"
  /\ task' = Idle
  /\ failed' = failed \cup {runNo}
  /\ UNCHANGED <<data, files, runNo, lastRun>>

\* [r for r in existing if r.get("dataset") != name].
Without(existing, name) ==
  LET kept[i \in 0 .. Len(existing)] ==
        IF i = 0 THEN <<>>
        ELSE IF existing[i].dataset = name THEN kept[i - 1]
        ELSE Append(kept[i - 1], existing[i])
  IN  kept[Len(existing)]

\* Mutants of Merged: the old rows of the dataset stay; they are not read.
MergedTwice(f) == IF task.dataset = All THEN task.streams[f] ELSE files[f] \o task.streams[f]
MergedAlone(f) == task.streams[f]

Merged(f) ==
  IF task.dataset = All THEN task.streams[f]
  ELSE Without(files[f], task.dataset) \o task.streams[f]

\* The sweep looks at its rows before it merges, the other mode after.
Written ==
  IF task.sweep THEN {f \in {"ksconfirm"} : task.streams[f] # <<>>}
  ELSE {"summary"} \cup {f \in Details : Merged(f) # <<>>}

WriteFiles ==
  /\ task.busy /\ task.specs = <<>>
  /\ files' = [f \in Files |-> IF f \in Written THEN Merged(f) ELSE files[f]]
  /\ lastRun' = [f \in Files |-> [d \in Datasets |->
                  IF ResultRow(d) \in Range(task.streams[f]) THEN runNo ELSE lastRun[f][d]]]
  /\ task' = Idle
  /\ UNCHANGED <<data, runNo, failed>>

ResultsNext ==
  \/ \E d \in Datasets, s \in Data : ChangeData(d, s)
  \/ \E sweep \in BOOLEAN, dataset \in Datasets \cup {All} : StartRun(sweep, dataset)
  \/ EvaluateDataset \/ Fail \/ WriteFiles

ResultsSpec == ResultsInit /\ [][ResultsNext]_resultVars

(***************************************************************************)
(* Properties.                                                             *)
(***************************************************************************)

\* A file holds each dataset once, as the last run that had rows of it left
\* it, and never rows of a run that stopped with an exception.  (Rows of a
\* dataset that has since become skipped may stay, see the README.)
RowsAreLatest ==
  \A f \in Files :
    /\ \A i, j \in DOMAIN files[f] : files[f][i].dataset = files[f][j].dataset => i = j
    /\ \A r \in Range(files[f]) : r.run = lastRun[f][r.dataset] /\ r.run \notin failed

\* "merge into existing CSVs so a subsequent INSECTS run on leejean's box
\* augments the synth runs already in the repo" (derisk_proxy:1158): a run
\* with --dataset keeps every row of the others, in order, and what has
\* details has a summary row.
RunAugments ==
  [][/\ task.dataset # All => \A f \in Files :
          Without(files'[f], task.dataset) = Without(files[f], task.dataset)
     /\ \A f \in Details : \A r \in Range(files'[f]) :
          \E s \in Range(files'["summary"]) : s.dataset = r.dataset]_resultVars
=============================================================================
