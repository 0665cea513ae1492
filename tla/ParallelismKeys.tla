--------------------------- MODULE ParallelismKeys ---------------------------
(***************************************************************************)
(* How rows are spread over the scoring subtasks: ParallelismKeys.generate *)
(* looks for one key per subtask among k-0, k-1, ..., and main of          *)
(* LocalProcessor gives a row the key that the hash code of its id selects. *)
(* A key is here the number of its candidate, from 1, and 0 is null.       *)
(***************************************************************************)
EXTENDS Integers, Sequences, FiniteSets

CONSTANTS
  Parallelism,  \* number of scoring subtasks
  Limit,        \* candidates tried at most: 16 * maxParallelism
  IntRange      \* an int lies in -IntRange .. IntRange - 1: 2^31

ASSUME KeysAssumption ==
  /\ Parallelism \in Nat \ {0} /\ Limit \in Nat /\ IntRange \in Nat
  /\ Parallelism < IntRange

VARIABLES
  keys,      \* subtask |-> its key
  filled,    \* subtasks that have a key
  counter,   \* candidates tried
  routes     \* KeyGroupRangeAssignment: candidate |-> the subtask of its hash

keyVars == <<keys, filled, counter, routes>>

Subtasks == 0 .. Parallelism - 1

KeysInit ==
  /\ keys = [i \in Subtasks |-> 0]
  /\ filled = 0 /\ counter = 0
  /\ routes = <<>>

\* Mutant of Keep: the subtasks get their keys one after the other.
KeepInOrder(subtask) ==
  IF subtask = filled
  THEN keys' = [keys EXCEPT ![subtask] = counter'] /\ filled' = filled + 1
  ELSE UNCHANGED <<keys, filled>>

Keep(subtask) ==
  IF keys[subtask] = 0
  THEN keys' = [keys EXCEPT ![subtask] = counter'] /\ filled' = filled + 1
  ELSE UNCHANGED <<keys, filled>>

TryCandidate(subtask) ==
  /\ filled < Parallelism /\ counter < Limit
  /\ counter' = counter + 1
  /\ routes' = Append(routes, subtask)
  /\ Keep(subtask)

KeysNext == \E subtask \in Subtasks : TryCandidate(subtask)

KeysSpec == KeysInit /\ [][KeysNext]_keyVars

Returned == filled = Parallelism
\* IllegalStateException.
GaveUp == filled < Parallelism /\ counter = Limit

(***************************************************************************)
(* The key of a row: Math.abs(hashCode % length).                          *)
(***************************************************************************)
Hashes == -IntRange .. IntRange - 1

\* The remainder has the sign of the dividend.
Rem(h) == IF h < 0 THEN -((-h) % Parallelism) ELSE h % Parallelism

\* The least int is its own opposite.
Abs(h) == IF h < 0 /\ h # -IntRange THEN -h ELSE h

\* Mutant of Index: the remainder of the absolute value.
IndexOfAbs(h) == Rem(Abs(h))

Index(h) == Abs(Rem(h))

\* The subtask that scores the rows whose id hashes to h.
Scorer(h) == routes[keys[Index(h)]]

(***************************************************************************)
(* Properties.                                                             *)
(***************************************************************************)

\* "keys[i] maps to subtask i": when the search returns, every row whatever
\* its hash code has a key, which takes it to the subtask of its index, and
\* no subtask is without rows.
RowsReachSubtasks ==
  Returned =>
    /\ \A h \in Hashes : /\ Index(h) \in Subtasks
                         /\ keys[Index(h)] \in DOMAIN routes
                         /\ Scorer(h) = Index(h)
    /\ \A i \in Subtasks : \E h \in Hashes : Scorer(h) = i

\* The search fails only when no candidate it was allowed would have gone to
\* some subtask.
GivesUpInVain ==
  GaveUp => \E i \in Subtasks : \A c \in DOMAIN routes : routes[c] # i

\* What the spreading of the rows rests on.
KeysAreSound == RowsReachSubtasks /\ GivesUpInVain
=============================================================================
