----------------------------- MODULE RingBuffer -----------------------------
(***************************************************************************)
(* RingBuffer: a circular array behind the training pool of a scoring      *)
(* subtask.  Once it is full, the oldest element is overwritten.           *)
(***************************************************************************)
EXTENDS Integers, Sequences, FiniteSets

CONSTANTS
  Capacity,
  Elements,
  Null        \* a cell that was never written

ASSUME RingAssumption == Capacity \in Nat \ {0} /\ Null \notin Elements

VARIABLES
  buffer,
  head,      \* the cell to be written next
  size

ringVars == <<buffer, head, size>>

Cells == 0 .. Capacity - 1

RingInit == buffer = [c \in Cells |-> Null] /\ head = 0 /\ size = 0

\* Mutant of NextCell: one cell too few.
NextCellShort(c) == IF c + 2 >= Capacity THEN 0 ELSE c + 1

NextCell(c) == (c + 1) % Capacity

Write(x) ==
  /\ buffer' = [buffer EXCEPT ![head] = x]
  /\ head' = NextCell(head)
  /\ size' = IF size < Capacity THEN size + 1 ELSE size

\* The operator puts a new buffer in the place of the old one.
Renew == buffer' = [c \in Cells |-> Null] /\ head' = 0 /\ size' = 0

RingNext == Renew \/ \E x \in Elements : Write(x)

RingSpec == RingInit /\ [][RingNext]_ringVars

PeekOldest == IF size < Capacity THEN buffer[0] ELSE buffer[head]

\* In the order of the cells.
Snapshot == [i \in 1 .. size |-> buffer[i - 1]]

(***************************************************************************)
(* Properties.                                                             *)
(***************************************************************************)

\* Type invariant.
RingTypeOK ==
  /\ buffer \in [Cells -> Elements \cup {Null}]
  /\ head \in Cells /\ size \in 0 .. Capacity

\* The elements from the oldest on: from the first cell, or, when the buffer
\* is full, from the head on and around.
Oldest == IF size < Capacity THEN 0 ELSE head
Cell(i) == IF Oldest + i <= Capacity THEN Oldest + i - 1 ELSE Oldest + i - 1 - Capacity
Recent == [i \in 1 .. size |-> buffer[Cell(i)]]

\* The array with its head implements the bounded sequence that trees are
\* grown from (writeToRingBuffer, trainIfReady): an element is added at the
\* end, and when the buffer is full the oldest one gives way, however often
\* the head has gone around.
Pool == INSTANCE TrainingPool WITH pool <- Recent
ImplementsPool == Pool!PoolSpec

\* What a reader gets, snapshot for a new forest and peekOldest for a running
\* sum, is that sequence: the first one every element as often as it was
\* added lately, in another order, and the second one its first element.
Times(s, x) == Cardinality({i \in DOMAIN s : s[i] = x})
ReadsRecent ==
  /\ \A x \in Elements \cup {Null} : Times(Snapshot, x) = Times(Recent, x)
  /\ Times(Recent, Null) = 0
  /\ size > 0 => PeekOldest = Recent[1]
=============================================================================
