----------------------------- MODULE Ingestion -----------------------------
(***************************************************************************)
(* From the file to the rows that the scoring and detection operators see: *)
(* the loader (Loader), source-topic and the parser subtasks (CsvParser),  *)
(* each with its failures.                                                 *)
(***************************************************************************)
EXTENDS Loader, FiniteSetsExt

CONSTANTS
  Kind,         \* what each line of the file is
  Jobs,         \* the parameters jobs are submitted with
  MaxRestarts   \* bound: restarts of the job

VARIABLES job, parser, saved, restarts

Csv == INSTANCE CsvParser

ASSUME IngestionAssumption ==
  /\ Kind \in [1 .. Lines -> Csv!Kinds]
  /\ Jobs \subseteq Csv!JobParameters
  /\ MaxRestarts \in Nat

parserVars == <<job, parser, saved, restarts>>
ingestionVars == <<loaderVars, parserVars>>

IngestionInit == LoaderInit /\ Csv!Init

IngestionNext ==
  \/ Load /\ UNCHANGED parserVars
  \/ Csv!Parse /\ UNCHANGED loaderVars

IngestionSpec == IngestionInit /\ [][IngestionNext]_ingestionVars

(***************************************************************************)
(* Properties.                                                             *)
(***************************************************************************)

Rows(q) == parser[q].rows

\* The row numbers a parser gives its rows increase, which the detectors rely
\* on: across restarts if they come from an id column and the loader was not
\* disturbed, and until the first restart if they are counted.
NumbersIncrease ==
  (job.ids = "column" /\ ~disturbed) \/ (job.ids = "auto" /\ restarts = 0) =>
    \A q \in Partitions : \A i, j \in DOMAIN Rows(q) :
      i < j => Rows(q)[i].number < Rows(q)[j].number

\* The data lines that parser q has read, repeats included.
DataRead(q) == {i \in 1 .. parser[q].pos : Kind[topic[q][i]] = "row"}

\* The first line of a partition that is not blank is the header.
HeaderFirst(q) ==
  \E i \in DOMAIN topic[q] :
    /\ Kind[topic[q][i]] = "header"
    /\ \A j \in 1 .. i - 1 : Kind[topic[q][j]] = "blank"

\* A parser loses at most one data line each time it starts, taken for the
\* header, and on its first start none if the header comes first in its
\* partition; a job without --hasHeader loses none.
OneRowLostPerStart ==
  \A q \in Partitions :
    LET headers == IF ~job.hasHeader THEN 0
                   ELSE IF HeaderFirst(q) THEN restarts
                   ELSE restarts + 1
    IN  Cardinality(DataRead(q)) <= Len(Rows(q)) + headers

\* What the operators behind the parser count on.
RowsSurvive == NumbersIncrease /\ OneRowLostPerStart
=============================================================================
