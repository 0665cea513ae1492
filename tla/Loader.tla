------------------------------- MODULE Loader -------------------------------
(***************************************************************************)
(* FileToKafkaProducer: the program that writes the lines of a file to     *)
(* source-topic and notes in an offset file how far it got, so that a      *)
(* later run with --fromBeginning false goes on from there.                *)
(*                                                                         *)
(* A line is its number.  KafkaProducer.send only appends to the           *)
(* producer's buffer; a background thread delivers each partition's lines  *)
(* in order, or gives one up, of which the loader hears nothing because it *)
(* drops the future.  A run ends at the end of the file or with a read     *)
(* error, both of which flush the buffer and note the offset, or it is     *)
(* killed, which does neither.                                             *)
(***************************************************************************)
EXTENDS Integers, Sequences, SequencesExt

CONSTANTS
  Lines,             \* lines of the file
  Partitions,        \* of source-topic
  ProgressInterval,  \* lines sent between two notes of the offset
  MaxStarts          \* bound: runs of the loader

ASSUME LoaderAssumption ==
  /\ Lines \in Nat
  /\ ProgressInterval \in Nat \ {0}
  /\ MaxStarts \in Nat

VARIABLES
  running,    \* whether a run is under way
  totalRead,  \* lines it has read
  skipLines,  \* lines it skips, taken from the offset file when it started
  sent,       \* lines it has handed to the producer
  offset,     \* content of the offset file, or NoOffset
  buffer,     \* by partition: lines handed to the producer, not delivered
  topic,      \* source-topic
  starts,     \* history: runs so far
  lost,       \* history: lines handed to the producer and never delivered
  disturbed   \* history: a line was lost, a run was killed, did not resume
              \* where the last one ended, ended before it had skipped the
              \* lines already sent, or failed to note its offset

runVars == <<running, totalRead, skipLines, sent>>
loaderVars == <<runVars, offset, buffer, topic, starts, lost, disturbed>>

NoOffset == -1

LoaderInit ==
  /\ running = FALSE
  /\ totalRead = 0
  /\ skipLines = 0
  /\ sent = 0
  /\ offset = NoOffset
  /\ buffer = [q \in Partitions |-> <<>>]
  /\ topic = [q \in Partitions |-> <<>>]
  /\ starts = 0
  /\ lost = {}
  /\ disturbed = FALSE

\* A run starts.  Without --fromBeginning false, without an offset file, or
\* with one that cannot be read, it starts from the first line.
Start ==
  /\ ~running /\ starts < MaxStarts
  /\ running' = TRUE
  /\ skipLines' \in IF offset = NoOffset THEN {0} ELSE {0, offset}
  /\ starts' = starts + 1
  /\ disturbed' = (disturbed \/ (offset # NoOffset /\ skipLines' # offset))
  /\ UNCHANGED <<totalRead, sent, offset, buffer, topic, lost>>

\* Mutant of SaveOffset: the next line is noted.
SaveNextOffset(line) ==
  offset' = IF line < Lines THEN line + 1 ELSE line

\* A failed write is reported and otherwise ignored.
SaveOffset(line) == offset' \in {line, offset}

SkipLine ==
  /\ running /\ totalRead < Lines
  /\ totalRead < skipLines
  /\ totalRead' = totalRead + 1
  /\ UNCHANGED <<running, skipLines, sent, offset, buffer, topic, starts, lost, disturbed>>

\* Mutant of SendLine: the last line already sent is sent again.
SendSkippedLine(q) ==
  /\ running /\ totalRead < Lines
  /\ totalRead + 1 >= skipLines
  /\ totalRead' = totalRead + 1
  /\ buffer' = [buffer EXCEPT ![q] = Append(@, totalRead + 1)]
  /\ sent' = sent + 1
  /\ UNCHANGED <<running, skipLines, offset, topic, starts, lost, disturbed>>

SendLine(q) ==
  /\ running /\ totalRead < Lines
  /\ totalRead >= skipLines
  /\ totalRead' = totalRead + 1
  /\ buffer' = [buffer EXCEPT ![q] = Append(@, totalRead + 1)]
  /\ sent' = sent + 1
  /\ IF (sent + 1) % ProgressInterval = 0
     THEN SaveOffset(totalRead + 1)
     ELSE UNCHANGED offset
  /\ UNCHANGED <<running, skipLines, topic, starts, lost, disturbed>>

\* The producer's thread.
Deliver(q) ==
  /\ buffer[q] # <<>>
  /\ topic' = [topic EXCEPT ![q] = Append(@, Head(buffer[q]))]
  /\ buffer' = [buffer EXCEPT ![q] = Tail(@)]
  /\ UNCHANGED <<runVars, offset, starts, lost, disturbed>>

GiveUp(q) ==
  /\ buffer[q] # <<>>
  /\ lost' = lost \cup {Head(buffer[q])}
  /\ buffer' = [buffer EXCEPT ![q] = Tail(@)]
  /\ disturbed' = TRUE
  /\ UNCHANGED <<runVars, offset, topic, starts>>

\* The run's variables go with its process.
Exit ==
  /\ running
  /\ running' = FALSE
  /\ totalRead' = 0 /\ skipLines' = 0 /\ sent' = 0
  /\ buffer' = [q \in Partitions |-> <<>>]
  /\ UNCHANGED starts

\* The finally block, at the end of the file or after a read error: the
\* buffer is flushed, then the offset noted.  A run that ends before it has
\* skipped what was sent notes an earlier offset than it found.
Finish ==
  /\ Exit
  /\ topic' = [q \in Partitions |-> topic[q] \o buffer[q]]
  /\ SaveOffset(totalRead)
  /\ disturbed' = (disturbed \/ offset' # totalRead \/ totalRead < skipLines)
  /\ UNCHANGED lost

Kill ==
  /\ Exit
  /\ lost' = lost \cup UNION {ToSet(buffer[q]) : q \in Partitions}
  /\ disturbed' = TRUE
  /\ UNCHANGED <<offset, topic>>

Load ==
  \/ Start \/ SkipLine \/ Finish \/ Kill
  \/ \E q \in Partitions : SendLine(q) \/ Deliver(q) \/ GiveUp(q)

(***************************************************************************)
(* Properties.                                                             *)
(***************************************************************************)

Sent(q) == topic[q] \o buffer[q]

\* "Skip already-sent lines" (FileToKafkaProducer:89): whatever was killed
\* and whichever notes failed, a line that a later run would skip was
\* delivered, is about to be, or was lost in the producer.
SkippedWereSent ==
  \A line \in 1 .. offset :
    line \in lost \/ \E q \in Partitions : line \in ToSet(Sent(q))

\* Without a disturbance, resumed runs and read errors neither lose, repeat
\* nor, within a partition, reorder lines.
SentOnceInOrder ==
  ~disturbed =>
    /\ \A q \in Partitions : \A i, j \in DOMAIN Sent(q) :
         i < j => Sent(q)[i] < Sent(q)[j]
    /\ \A q, r \in Partitions : q # r => ToSet(Sent(q)) \cap ToSet(Sent(r)) = {}
    /\ running => 1 .. totalRead \subseteq UNION {ToSet(Sent(q)) : q \in Partitions}
=============================================================================
