----------------------------- MODULE CsvParser -----------------------------
(***************************************************************************)
(* CsvToDataPointFunction, one subtask per partition of source-topic, with *)
(* the Kafka source in front of it: each line becomes a row with a row     *)
(* number (PARSE_ID), is skipped, or makes the job fail.                   *)
(*                                                                         *)
(* The function has no checkpointed state: headerSkipped and autoId are    *)
(* transient.  A restart takes the source and everything downstream back   *)
(* to the last checkpoint and starts the function afresh.  `rows' are the  *)
(* rows that the downstream operators' state stands for.                   *)
(***************************************************************************)
EXTENDS Integers, Sequences

CONSTANTS
  Partitions,   \* of source-topic
  Kind,         \* what each line of the file is: see Kinds
  Jobs,         \* the parameters jobs are submitted with: see JobParameters
  MaxRestarts   \* bound: restarts of the job

Kinds == {"blank", "header", "row", "short", "malformed", "badId"}

VARIABLES
  topic,     \* by partition: line numbers, written by the loader
  job,       \* the job's parameters
  parser,    \* by partition: position of the source, the function's fields, rows
  saved,     \* by partition: position and rows at the last checkpoint
  restarts   \* history: restarts so far

parserVars == <<job, parser, saved, restarts>>

\* hasId; not hasId and autoIncrementId; neither.
IdSources == {"column", "auto", "zero"}
JobParameters == [hasHeader : BOOLEAN, ids : IdSources]

Parser(pos, rows) ==
  [pos |-> pos, headerSkipped |-> FALSE, autoId |-> 0, rows |-> rows]

Init ==
  /\ job \in Jobs
  /\ parser = [q \in Partitions |-> Parser(0, <<>>)]
  /\ saved = [q \in Partitions |-> [pos |-> 0, rows |-> <<>>]]
  /\ restarts = 0

Pending(q) == parser[q].pos < Len(topic[q])
Line(q) == topic[q][parser[q].pos + 1]
PastHeader(q) == parser[q].headerSkipped \/ ~job.hasHeader
Ahead(p) == [p EXCEPT !.pos = @ + 1]
Continue(q, p) ==
  /\ parser' = [parser EXCEPT ![q] = Ahead(p)]
  /\ UNCHANGED <<job, saved, restarts>>

\* Blank lines, and past the header lines with too few columns.
Ignore(q) ==
  /\ Pending(q)
  /\ Kind[Line(q)] = "blank" \/ (PastHeader(q) /\ Kind[Line(q)] = "short")
  /\ Continue(q, parser[q])

\* Mutant of SkipHeader: the flag is not set.
SkipHeaders(q) ==
  /\ Pending(q) /\ Kind[Line(q)] # "blank"
  /\ ~PastHeader(q)
  /\ Continue(q, parser[q])

\* The first line that is not blank is taken for the header, whatever it is.
SkipHeader(q) ==
  /\ Pending(q) /\ Kind[Line(q)] # "blank"
  /\ ~PastHeader(q)
  /\ Continue(q, [parser[q] EXCEPT !.headerSkipped = TRUE])

\* The id is drawn before the features are parsed.
WithId(p) == IF job.ids = "auto" THEN [p EXCEPT !.autoId = @ + 1] ELSE p

Malformed(q) ==
  /\ Pending(q) /\ PastHeader(q)
  /\ Kind[Line(q)] \in {"header", "malformed"} \/ (Kind[Line(q)] = "badId" /\ job.ids # "column")
  /\ Continue(q, WithId(parser[q]))

RowNumber(q) ==
  CASE job.ids = "column" -> Line(q)
    [] job.ids = "auto" -> parser[q].autoId + 1
    [] job.ids = "zero" -> 0

Emit(q) ==
  /\ Pending(q) /\ PastHeader(q)
  /\ Kind[Line(q)] = "row"
  /\ LET row == [line |-> Line(q), number |-> RowNumber(q)]
     IN  Continue(q, [WithId(parser[q]) EXCEPT !.rows = Append(@, row)])

\* Mutant of Recover: rows emitted since the checkpoint stay.
RecoverPosition ==
  /\ restarts < MaxRestarts
  /\ restarts' = restarts + 1
  /\ parser' = [q \in Partitions |-> Parser(saved[q].pos, parser[q].rows)]
  /\ UNCHANGED <<job, saved>>

\* Mutant of Recover: the source starts from the earliest line.
RecoverFromEarliest ==
  /\ restarts < MaxRestarts
  /\ restarts' = restarts + 1
  /\ parser' = [q \in Partitions |-> Parser(0, saved[q].rows)]
  /\ UNCHANGED <<job, saved>>

Recover ==
  /\ restarts < MaxRestarts
  /\ restarts' = restarts + 1
  /\ parser' = [q \in Partitions |-> Parser(saved[q].pos, saved[q].rows)]
  /\ UNCHANGED <<job, saved>>

\* An id that is not a number: extractSequence's exception fails the job.
BadId(q) ==
  /\ Pending(q) /\ PastHeader(q)
  /\ Kind[Line(q)] = "badId" /\ job.ids = "column"
  /\ Recover

Checkpoint ==
  /\ saved' = [q \in Partitions |-> [pos |-> parser[q].pos, rows |-> parser[q].rows]]
  /\ UNCHANGED <<job, parser, restarts>>

Parse ==
  \/ \E q \in Partitions : Ignore(q) \/ SkipHeader(q) \/ Malformed(q) \/ Emit(q) \/ BadId(q)
  \/ Checkpoint
  \/ Recover
=============================================================================
