---------------------------- MODULE TrainingPool ----------------------------
(***************************************************************************)
(* What RingBuffer promises to the scoring operator: the last Capacity     *)
(* elements, oldest first.  LocalProcessor keeps its pool in this way.     *)
(***************************************************************************)
EXTENDS Integers, Sequences

CONSTANTS Capacity, Elements

VARIABLE pool

Add(ring, x) == IF Len(ring) < Capacity THEN Append(ring, x) ELSE Append(Tail(ring), x)

PoolNext == pool' = <<>> \/ \E x \in Elements : pool' = Add(pool, x)

PoolSpec == pool = <<>> /\ [][PoolNext]_pool
=============================================================================
