--------------------------- MODULE IngestionProofs ---------------------------
(***************************************************************************)
(* Proofs about the way of the lines from the file to the rows (Loader,    *)
(* CsvParser, Ingestion), for every file, any partitions, any job and any  *)
(* number of runs of the loader and restarts of the job; and about the     *)
(* keys that spread the rows over the scoring subtasks (ParallelismKeys).  *)
(***************************************************************************)
EXTENDS Ingestion, ParallelismKeys, FiniteSetTheorems, SequenceTheorems, TLAPS

(***************************************************************************)
(* What is in a sequence.                                                  *)
(***************************************************************************)

LEMMA InSequence ==
  ASSUME NEW S, NEW s \in Seq(S), NEW x
  PROVE  x \in ToSet(s) <=> \E i \in 1 .. Len(s) : s[i] = x
<1>1. DOMAIN s = 1 .. Len(s)
  BY LenProperties
<1> QED BY <1>1 DEF ToSet

LEMMA InConcat ==
  ASSUME NEW S, NEW s \in Seq(S), NEW t \in Seq(S), NEW x
  PROVE  x \in ToSet(s \o t) <=> x \in ToSet(s) \/ x \in ToSet(t)
<1>1. Len(s) \in Nat /\ Len(t) \in Nat
  BY LenProperties
<1>2. /\ s \o t \in Seq(S) /\ Len(s \o t) = Len(s) + Len(t)
      /\ \A i \in 1 .. Len(s) + Len(t) :
           (s \o t)[i] = IF i <= Len(s) THEN s[i] ELSE t[i - Len(s)]
  BY ConcatProperties
<1>3. x \in ToSet(s \o t) <=> \E i \in 1 .. Len(s) + Len(t) : (s \o t)[i] = x
  BY <1>2, InSequence
<1>4. /\ x \in ToSet(s) <=> \E i \in 1 .. Len(s) : s[i] = x
      /\ x \in ToSet(t) <=> \E i \in 1 .. Len(t) : t[i] = x
  BY InSequence
<1>5. ASSUME NEW i \in 1 .. Len(s) + Len(t), (s \o t)[i] = x
      PROVE  x \in ToSet(s) \/ x \in ToSet(t)
  <2>1. CASE i <= Len(s)
    BY <1>1, <1>2, <1>4, <1>5, <2>1
  <2>2. CASE i > Len(s)
    <3>1. i - Len(s) \in 1 .. Len(t) /\ t[i - Len(s)] = x
      BY <1>1, <1>2, <1>5, <2>2
    <3> QED BY <1>4, <3>1
  <2> QED BY <1>1, <2>1, <2>2
<1>6. ASSUME NEW i \in 1 .. Len(s), s[i] = x
      PROVE  x \in ToSet(s \o t)
  BY <1>1, <1>2, <1>3, <1>6
<1>7. ASSUME NEW i \in 1 .. Len(t), t[i] = x
      PROVE  x \in ToSet(s \o t)
  <2>1. Len(s) + i \in 1 .. Len(s) + Len(t) /\ Len(s) + i > Len(s) /\ Len(s) + i - Len(s) = i
    BY <1>1
  <2>2. (s \o t)[Len(s) + i] = x
    BY <1>1, <1>2, <1>7, <2>1
  <2> QED BY <1>3, <2>1, <2>2
<1> QED BY <1>3, <1>4, <1>5, <1>6, <1>7

LEMMA InAppend ==
  ASSUME NEW S, NEW s \in Seq(S), NEW e \in S, NEW x
  PROVE  x \in ToSet(Append(s, e)) <=> x \in ToSet(s) \/ x = e
<1>1. Append(s, e) \in Seq(S) /\ Len(s) \in Nat /\ Len(Append(s, e)) = Len(s) + 1
      /\ Append(s, e)[Len(s) + 1] = e
      /\ \A i \in 1 .. Len(s) : Append(s, e)[i] = s[i]
  OBVIOUS
<1>2. /\ x \in ToSet(s) <=> \E i \in 1 .. Len(s) : s[i] = x
      /\ x \in ToSet(Append(s, e)) <=> \E i \in 1 .. Len(s) + 1 : Append(s, e)[i] = x
  <2> DEFINE t == Append(s, e)
  <2>1. t \in Seq(S) /\ Len(t) = Len(s) + 1
    BY <1>1
  <2> HIDE DEF t
  <2>2. x \in ToSet(t) <=> \E i \in 1 .. Len(t) : t[i] = x
    BY <2>1, InSequence
  <2>3. x \in ToSet(s) <=> \E i \in 1 .. Len(s) : s[i] = x
    BY InSequence
  <2>4. x \in ToSet(t) <=> \E i \in 1 .. Len(s) + 1 : t[i] = x
    BY <2>1, <2>2
  <2> QED BY <2>3, <2>4 DEF t
<1>3. \A i \in 1 .. Len(s) + 1 : i \in 1 .. Len(s) \/ i = Len(s) + 1
  BY <1>1
<1>4. \A i \in 1 .. Len(s) : i \in 1 .. Len(s) + 1
  BY <1>1
<1>5. Len(s) + 1 \in 1 .. Len(s) + 1
  BY <1>1
<1> QED BY <1>1, <1>2, <1>3, <1>4, <1>5, Zenon

LEMMA InTail ==
  ASSUME NEW S, NEW s \in Seq(S), s # <<>>, NEW x
  PROVE  x \in ToSet(s) <=> x = Head(s) \/ x \in ToSet(Tail(s))
<1>1. /\ Tail(s) \in Seq(S) /\ Len(s) \in Nat \ {0} /\ Len(Tail(s)) = Len(s) - 1
      /\ \A i \in 1 .. Len(Tail(s)) : Tail(s)[i] = s[i + 1]
      /\ Head(s) = s[1]
  BY HeadTailProperties, EmptySeq
<1>2. /\ x \in ToSet(s) <=> \E i \in 1 .. Len(s) : s[i] = x
      /\ x \in ToSet(Tail(s)) <=> \E i \in 1 .. Len(s) - 1 : s[i + 1] = x
  <2> DEFINE t == Tail(s)
  <2>1. t \in Seq(S) /\ Len(t) = Len(s) - 1 /\ \A i \in 1 .. Len(t) : t[i] = s[i + 1]
    BY <1>1
  <2> HIDE DEF t
  <2>2. x \in ToSet(t) <=> \E i \in 1 .. Len(t) : t[i] = x
    BY <2>1, InSequence
  <2>3. x \in ToSet(s) <=> \E i \in 1 .. Len(s) : s[i] = x
    BY InSequence
  <2>4. x \in ToSet(t) <=> \E i \in 1 .. Len(s) - 1 : s[i + 1] = x
    BY <2>1, <2>2
  <2> QED BY <2>3, <2>4 DEF t
<1>3. ASSUME NEW i \in 1 .. Len(s), s[i] = x
      PROVE  x = Head(s) \/ x \in ToSet(Tail(s))
  <2>1. CASE i = 1
    BY <1>1, <1>3, <2>1
  <2>2. CASE i # 1
    <3>1. i - 1 \in 1 .. Len(s) - 1 /\ (i - 1) + 1 = i
      BY <1>1, <2>2
    <3> QED BY <1>2, <1>3, <3>1
  <2> QED BY <2>1, <2>2
<1>4. ASSUME NEW i \in 1 .. Len(s) - 1, s[i + 1] = x
      PROVE  x \in ToSet(s)
  <2>1. i + 1 \in 1 .. Len(s)
    BY <1>1
  <2> QED BY <1>2, <1>4, <2>1
<1>5. 1 \in 1 .. Len(s)
  BY <1>1
<1> QED BY <1>1, <1>2, <1>3, <1>4, <1>5

\* How the way from buffer to topic leaves their concatenation.
LEMMA AppendToConcat ==
  ASSUME NEW S, NEW s \in Seq(S), NEW t \in Seq(S), NEW e \in S
  PROVE  s \o Append(t, e) = Append(s \o t, e)
<1>1. <<e>> \in Seq(S) /\ Append(t, e) = t \o <<e>> /\ Append(s \o t, e) = (s \o t) \o <<e>>
  OBVIOUS
<1> QED BY <1>1, ConcatAssociative

LEMMA HeadGoesOver ==
  ASSUME NEW S, NEW s \in Seq(S), NEW t \in Seq(S), t # <<>>
  PROVE  Append(s, Head(t)) \o Tail(t) = s \o t
<1>1. Head(t) \in S /\ Tail(t) \in Seq(S) /\ <<Head(t)>> \in Seq(S)
  BY HeadTailProperties
<1>2. t = <<Head(t)>> \o Tail(t)
  OBVIOUS
<1>3. Append(s, Head(t)) = s \o <<Head(t)>>
  OBVIOUS
<1>4. (s \o <<Head(t)>>) \o Tail(t) = s \o (<<Head(t)>> \o Tail(t))
  BY <1>1, ConcatAssociative
<1> QED BY <1>2, <1>3, <1>4

(***************************************************************************)
(* Types.                                                                  *)
(***************************************************************************)

LineNumbers == 1 .. Lines

LoaderTypes ==
  /\ running \in BOOLEAN /\ disturbed \in BOOLEAN
  /\ totalRead \in 0 .. Lines /\ skipLines \in 0 .. Lines
  /\ sent \in Nat
  /\ offset \in {NoOffset} \cup 0 .. Lines
  /\ buffer \in [Partitions -> Seq(LineNumbers)]
  /\ topic \in [Partitions -> Seq(LineNumbers)]
  /\ ~running => totalRead = 0 /\ skipLines = 0

RowRecord == [line : LineNumbers, number : Nat]
ParserState == [pos : Nat, headerSkipped : BOOLEAN, autoId : Nat, rows : Seq(RowRecord)]
SavedState == [pos : Nat, rows : Seq(RowRecord)]

ParserTypes ==
  /\ job \in Csv!JobParameters
  /\ restarts \in Nat
  /\ parser \in [Partitions -> ParserState]
  /\ saved \in [Partitions -> SavedState]
  /\ \A q \in Partitions : parser[q].pos <= Len(topic[q]) /\ saved[q].pos <= Len(topic[q])

LEMMA NothingBuffered ==
  ASSUME NEW f, f = [q \in Partitions |-> <<>>]
  PROVE  f \in [Partitions -> Seq(LineNumbers)]
<1>1. <<>> \in Seq(LineNumbers)
  BY EmptySeq
<1> QED BY <1>1

LEMMA LoaderTypesStart == LoaderInit => LoaderTypes
<1> SUFFICES ASSUME LoaderInit PROVE LoaderTypes
  OBVIOUS
<1>1. buffer \in [Partitions -> Seq(LineNumbers)] /\ topic \in [Partitions -> Seq(LineNumbers)]
  BY NothingBuffered DEF LoaderInit
<1>2. totalRead = 0 /\ skipLines = 0 /\ sent = 0 /\ offset = NoOffset
      /\ running = FALSE /\ disturbed = FALSE
  BY DEF LoaderInit
<1>3. running \in BOOLEAN /\ disturbed \in BOOLEAN
  BY <1>2, Zenon
<1>4. totalRead \in 0 .. Lines /\ skipLines \in 0 .. Lines /\ sent \in Nat
  BY <1>2, LoaderAssumption
<1> QED BY <1>1, <1>2, <1>3, <1>4 DEF LoaderTypes

\* Each way a line takes.
LEMMA BuffersOfTypes ==
  ASSUME LoaderTypes, NEW q \in Partitions
  PROVE  /\ topic[q] \in Seq(LineNumbers) /\ buffer[q] \in Seq(LineNumbers)
         /\ Sent(q) \in Seq(LineNumbers)
         /\ Len(topic[q]) \in Nat
<1>1. topic[q] \in Seq(LineNumbers) /\ buffer[q] \in Seq(LineNumbers)
  BY DEF LoaderTypes
<1> QED BY <1>1, ConcatProperties, LenProperties DEF Sent

LEMMA LoaderTypesStep ==
  ASSUME LoaderTypes, Load
  PROVE  LoaderTypes'
<1> USE LoaderAssumption DEF LoaderTypes
<1>1. CASE Start
  BY <1>1 DEF Start, NoOffset
<1>2. CASE SkipLine
  BY <1>2 DEF SkipLine
<1>3. CASE Finish \/ Kill
  <2>1. buffer' = [q \in Partitions |-> <<>>]
    BY <1>3 DEF Finish, Kill, Exit
  <2>2. topic' \in [Partitions -> Seq(LineNumbers)]
    <3>1. \A q \in Partitions : topic[q] \o buffer[q] \in Seq(LineNumbers)
      BY BuffersOfTypes DEF Sent
    <3> QED BY <1>3, <3>1 DEF Finish, Kill
  <2>3. offset' \in {NoOffset} \cup 0 .. Lines
    BY <1>3 DEF Finish, Kill, SaveOffset
  <2>4. disturbed' \in BOOLEAN
    BY <1>3 DEF Finish, Kill
  <2>5. buffer' \in [Partitions -> Seq(LineNumbers)]
    BY <2>1, NothingBuffered
  <2>6. running' = FALSE /\ totalRead' = 0 /\ skipLines' = 0 /\ sent' = 0
    BY <1>3 DEF Finish, Kill, Exit
  <2>7. running' \in BOOLEAN
    BY <2>6, Zenon
  <2>8. totalRead' \in 0 .. Lines /\ skipLines' \in 0 .. Lines /\ sent' \in Nat
    BY <2>6
  <2> QED BY <2>2, <2>3, <2>4, <2>5, <2>6, <2>7, <2>8, Zenon
<1>4. ASSUME NEW q \in Partitions, SendLine(q)
      PROVE  LoaderTypes'
  <2>1. totalRead + 1 \in LineNumbers /\ totalRead' = totalRead + 1 /\ sent' = sent + 1
    BY <1>4 DEF SendLine, LineNumbers
  <2>2. Append(buffer[q], totalRead + 1) \in Seq(LineNumbers)
    BY <2>1
  <2>3. buffer' \in [Partitions -> Seq(LineNumbers)]
    BY <1>4, <2>2 DEF SendLine
  <2>4. offset' \in {NoOffset} \cup 0 .. Lines
    BY <1>4 DEF SendLine, SaveOffset
  <2> QED BY <1>4, <2>1, <2>3, <2>4 DEF SendLine, LineNumbers
<1>5. ASSUME NEW q \in Partitions, Deliver(q) \/ GiveUp(q)
      PROVE  LoaderTypes'
  <2>1. buffer[q] \in Seq(LineNumbers) /\ buffer[q] # <<>> /\ topic[q] \in Seq(LineNumbers)
    BY <1>5 DEF Deliver, GiveUp
  <2>2. Head(buffer[q]) \in LineNumbers /\ Tail(buffer[q]) \in Seq(LineNumbers)
        /\ Append(topic[q], Head(buffer[q])) \in Seq(LineNumbers)
    BY <2>1
  <2>3. /\ buffer' \in [Partitions -> Seq(LineNumbers)]
        /\ topic' \in [Partitions -> Seq(LineNumbers)]
    BY <1>5, <2>2 DEF Deliver, GiveUp
  <2> QED BY <1>5, <2>3 DEF Deliver, GiveUp, runVars
<1> QED BY <1>1, <1>2, <1>3, <1>4, <1>5 DEF Load

\* source-topic only grows.
Grown(s, t) == Len(s) <= Len(t) /\ \A i \in 1 .. Len(s) : t[i] = s[i]

LEMMA TopicGrows ==
  ASSUME LoaderTypes, Load
  PROVE  \A q \in Partitions : Grown(topic[q], topic'[q])
<1> SUFFICES ASSUME NEW q \in Partitions
             PROVE  Grown(topic[q], topic'[q])
  OBVIOUS
<1>1. topic[q] \in Seq(LineNumbers) /\ buffer[q] \in Seq(LineNumbers) /\ Len(topic[q]) \in Nat
  BY BuffersOfTypes
<1>2. CASE topic' = topic
  BY <1>1, <1>2 DEF Grown
<1>3. ASSUME NEW p \in Partitions, Deliver(p)
      PROVE  Grown(topic[q], topic'[q])
  <2>1. topic' = [topic EXCEPT ![p] = Append(@, Head(buffer[p]))] /\ buffer[p] # <<>>
    BY <1>3 DEF Deliver
  <2>2. CASE p = q
    <3>1. topic'[q] = Append(topic[q], Head(buffer[q])) /\ Head(buffer[q]) \in LineNumbers
      BY <1>1, <2>1, <2>2 DEF LoaderTypes
    <3> QED BY <1>1, <3>1 DEF Grown
  <2>3. CASE p # q
    BY <1>1, <2>1, <2>3 DEF LoaderTypes, Grown
  <2> QED BY <2>2, <2>3
<1>4. CASE Finish
  <2>1. topic'[q] = topic[q] \o buffer[q]
    BY <1>4 DEF Finish
  <2>2. Len(buffer[q]) \in Nat
    BY <1>1
  <2>3. PICK s \in Seq(LineNumbers), t \in Seq(LineNumbers) : s = topic[q] /\ t = buffer[q]
    BY <1>1
  <2>4. /\ Len(s \o t) = Len(s) + Len(t)
        /\ \A i \in 1 .. Len(s) + Len(t) :
             (s \o t)[i] = IF i <= Len(s) THEN s[i] ELSE t[i - Len(s)]
    BY ConcatProperties
  <2>5. Len(s) \in Nat /\ Len(t) \in Nat
    BY <1>1, <2>2, <2>3
  <2>6. Grown(s, s \o t)
    BY <2>4, <2>5 DEF Grown
  <2> QED BY <2>1, <2>3, <2>6
<1>5. topic' = topic \/ Finish \/ \E p \in Partitions : Deliver(p)
  BY DEF Load, Start, SkipLine, Kill, SendLine, GiveUp
<1> QED BY <1>2, <1>3, <1>4, <1>5

(***************************************************************************)
(* The loader: what has been sent.                                         *)
(***************************************************************************)

\* The producer's thread and the end of a run change nothing of what was sent.
LEMMA SentUnchanged ==
  ASSUME LoaderTypes,
         Start \/ SkipLine \/ Finish \/ \E p \in Partitions : Deliver(p)
  PROVE  \A q \in Partitions : Sent(q)' = Sent(q)
<1> SUFFICES ASSUME NEW q \in Partitions
             PROVE  Sent(q)' = Sent(q)
  OBVIOUS
<1>1. topic[q] \in Seq(LineNumbers) /\ buffer[q] \in Seq(LineNumbers)
      /\ Sent(q) \in Seq(LineNumbers)
  BY BuffersOfTypes
<1>2. CASE Start \/ SkipLine
  BY <1>2 DEF Start, SkipLine, Sent
<1>3. CASE Finish
  <2>1. topic'[q] = topic[q] \o buffer[q] /\ buffer'[q] = <<>>
    BY <1>3 DEF Finish, Exit
  <2>2. Sent(q) \o <<>> = Sent(q)
    BY <1>1, ConcatEmptySeq
  <2> QED BY <2>1, <2>2 DEF Sent
<1>4. ASSUME NEW p \in Partitions, Deliver(p)
      PROVE  Sent(q)' = Sent(q)
  <2>1. CASE p = q
    <3>1. topic'[q] = Append(topic[q], Head(buffer[q])) /\ buffer'[q] = Tail(buffer[q])
          /\ buffer[q] # <<>>
      BY <1>4, <2>1 DEF Deliver, LoaderTypes
    <3>2. Append(topic[q], Head(buffer[q])) \o Tail(buffer[q]) = topic[q] \o buffer[q]
      BY <1>1, <3>1, HeadGoesOver
    <3> QED BY <3>1, <3>2 DEF Sent
  <2>2. CASE p # q
    BY <1>4, <2>2 DEF Deliver, LoaderTypes, Sent
  <2> QED BY <2>1, <2>2
<1> QED BY <1>2, <1>3, <1>4

LEMMA SentLine ==
  ASSUME LoaderTypes, NEW p \in Partitions, SendLine(p)
  PROVE  /\ totalRead + 1 \in LineNumbers
         /\ Sent(p)' = Append(Sent(p), totalRead + 1)
         /\ \A q \in Partitions : q # p => Sent(q)' = Sent(q)
<1>1. totalRead + 1 \in LineNumbers
  BY LoaderAssumption DEF SendLine, LoaderTypes, LineNumbers
<1>2. topic[p] \in Seq(LineNumbers) /\ buffer[p] \in Seq(LineNumbers)
  BY BuffersOfTypes
<1>3. topic' = topic /\ buffer'[p] = Append(buffer[p], totalRead + 1)
      /\ \A q \in Partitions : q # p => buffer'[q] = buffer[q]
  BY DEF SendLine, LoaderTypes
<1>4. topic[p] \o Append(buffer[p], totalRead + 1) = Append(topic[p] \o buffer[p], totalRead + 1)
  <2>1. PICK s \in Seq(LineNumbers), t \in Seq(LineNumbers), e \in LineNumbers :
          s = topic[p] /\ t = buffer[p] /\ e = totalRead + 1
    BY <1>1, <1>2
  <2>2. s \o Append(t, e) = Append(s \o t, e)
    BY AppendToConcat
  <2> QED BY <2>1, <2>2
<1> QED BY <1>1, <1>3, <1>4 DEF Sent

\* The line is in the topic or on its way there, or was lost in the producer.
Reached(line) == line \in lost \/ \E q \in Partitions : line \in ToSet(Sent(q))

LEMMA ReachedStays ==
  ASSUME LoaderTypes, Load, NEW line, Reached(line)
  PROVE  Reached(line)'
<1>1. CASE line \in lost
  BY <1>1
  DEF Load, Start, SkipLine, Finish, Kill, SendLine, Deliver, GiveUp, Reached
<1>2. ASSUME NEW q \in Partitions, line \in ToSet(Sent(q))
      PROVE  Reached(line)'
  <2>1. /\ topic[q] \in Seq(LineNumbers) /\ buffer[q] \in Seq(LineNumbers)
        /\ Sent(q) \in Seq(LineNumbers)
    BY BuffersOfTypes
  <2>2. line \in ToSet(topic[q]) \/ line \in ToSet(buffer[q])
    BY <1>2, <2>1, InConcat DEF Sent
  <2>3. CASE Start \/ SkipLine \/ Finish \/ \E p \in Partitions : Deliver(p)
    BY <1>2, <2>3, SentUnchanged DEF Reached
  <2>4. ASSUME NEW p \in Partitions, SendLine(p)
        PROVE  Reached(line)'
    <3>1. line \in ToSet(Append(Sent(q), totalRead + 1))
      BY <1>2, <2>1, <2>4, SentLine, InAppend
    <3>2. Sent(q)' = Sent(q) \/ Sent(q)' = Append(Sent(q), totalRead + 1)
      BY <2>4, SentLine
    <3> QED BY <1>2, <3>1, <3>2 DEF Reached
  <2>5. ASSUME NEW p \in Partitions, GiveUp(p)
        PROVE  Reached(line)'
    <3>1. /\ topic' = topic /\ lost' = lost \cup {Head(buffer[p])} /\ buffer[p] # <<>>
          /\ buffer'[q] = IF p = q THEN Tail(buffer[q]) ELSE buffer[q]
      BY <2>5 DEF GiveUp, LoaderTypes
    <3>2. line \in lost' \/ line \in ToSet(topic[q]) \/ line \in ToSet(buffer'[q])
      <4>1. CASE p = q
        BY <2>1, <2>2, <3>1, <4>1, InTail
      <4>2. CASE p # q
        BY <2>2, <3>1, <4>2
      <4> QED BY <4>1, <4>2
    <3>3. buffer'[q] \in Seq(LineNumbers)
      BY LoaderTypesStep DEF LoaderTypes
    <3>4. PICK t \in Seq(LineNumbers) : t = buffer'[q]
      BY <3>3
    <3>5. line \in lost' \/ line \in ToSet(topic[q] \o t)
      BY <2>1, <3>2, <3>4, InConcat
    <3> QED BY <3>1, <3>4, <3>5 DEF Reached, Sent
  <2>6. CASE Kill
    <3>1. topic'[q] = topic[q] /\ buffer'[q] = <<>>
          /\ lost' = lost \cup UNION {ToSet(buffer[p]) : p \in Partitions}
      BY <2>6 DEF Kill, Exit
    <3>2. topic[q] \o <<>> = topic[q]
      BY <2>1, ConcatEmptySeq
    <3>3. line \in ToSet(topic[q]) \/ line \in lost'
      BY <2>2, <3>1
    <3> QED BY <3>1, <3>2, <3>3 DEF Reached, Sent
  <2> QED BY <2>3, <2>4, <2>5, <2>6 DEF Load
<1> QED BY <1>1, <1>2 DEF Reached

\* Everything up to a position of the loader has reached that far.
CoverInv ==
  /\ \A line \in 1 .. offset : Reached(line)
  /\ \A line \in 1 .. skipLines : Reached(line)
  /\ \A line \in 1 .. totalRead : Reached(line)

LEMMA CoverStep ==
  ASSUME LoaderTypes, CoverInv, Load
  PROVE  CoverInv'
<1>1. ASSUME NEW n \in Int, \A line \in 1 .. n : Reached(line)
      PROVE  \A line \in 1 .. n : Reached(line)'
  BY <1>1, ReachedStays
<1>2. offset \in Int /\ skipLines \in Int /\ totalRead \in Int
  BY DEF LoaderTypes, NoOffset
<1>3. /\ \A line \in 1 .. offset : Reached(line)'
      /\ \A line \in 1 .. skipLines : Reached(line)'
      /\ \A line \in 1 .. totalRead : Reached(line)'
  BY <1>1, <1>2 DEF CoverInv
<1>4. \A line \in 1 .. 0 : Reached(line)'
  OBVIOUS
<1>5. CASE Start
  <2>1. skipLines' \in {0, offset} /\ offset' = offset /\ totalRead' = totalRead
    BY <1>5 DEF Start
  <2> QED BY <1>3, <1>4, <2>1 DEF CoverInv
<1>6. CASE SkipLine
  <2>1. offset' = offset /\ skipLines' = skipLines /\ totalRead' = totalRead + 1
        /\ totalRead < skipLines
    BY <1>6 DEF SkipLine
  <2>2. \A line \in 1 .. totalRead' : line \in 1 .. skipLines
    BY <1>2, <2>1
  <2> QED BY <1>3, <2>1, <2>2 DEF CoverInv
<1>7. CASE Finish \/ Kill
  <2>1. skipLines' = 0 /\ totalRead' = 0 /\ offset' \in {totalRead, offset}
    BY <1>7 DEF Finish, Kill, Exit, SaveOffset
  <2> QED BY <1>3, <1>4, <2>1 DEF CoverInv
<1>8. ASSUME NEW p \in Partitions, SendLine(p)
      PROVE  CoverInv'
  <2>1. skipLines' = skipLines /\ totalRead' = totalRead + 1
        /\ offset' \in {totalRead + 1, offset}
    BY <1>8 DEF SendLine, SaveOffset
  <2>2. PICK next : next = totalRead + 1
    OBVIOUS
  <2>3. Reached(next)'
    <3>1. next \in ToSet(Append(Sent(p), next))
      BY <1>8, <2>2, SentLine, BuffersOfTypes, InAppend
    <3>2. Sent(p)' = Append(Sent(p), next)
      BY <1>8, <2>2, SentLine
    <3> QED BY <3>1, <3>2 DEF Reached
  <2>4. \A line \in 1 .. totalRead + 1 : Reached(line)'
    <3>1. \A line \in 1 .. totalRead + 1 : line \in 1 .. totalRead \/ line = next
      BY <1>2, <2>2
    <3> QED BY <1>3, <2>3, <3>1
  <2> QED BY <1>3, <2>1, <2>4 DEF CoverInv
<1>9. ASSUME NEW p \in Partitions, Deliver(p) \/ GiveUp(p)
      PROVE  CoverInv'
  BY <1>3, <1>9 DEF Deliver, GiveUp, runVars, CoverInv
<1> QED BY <1>5, <1>6, <1>7, <1>8, <1>9 DEF Load

\* How far the lines sent go, as long as nothing disturbs the loader.
Mark ==
  IF running THEN IF totalRead < skipLines THEN skipLines ELSE totalRead
  ELSE IF offset = NoOffset THEN 0 ELSE offset

Increasing(s) == \A i, j \in 1 .. Len(s) : i < j => s[i] < s[j]

OrderInv ==
  ~disturbed =>
    /\ \A q \in Partitions : Increasing(Sent(q)) /\ \A i \in 1 .. Len(Sent(q)) : Sent(q)[i] <= Mark
    /\ \A q, r \in Partitions : q # r => ToSet(Sent(q)) \cap ToSet(Sent(r)) = {}
    /\ \A line \in 1 .. Mark : \E q \in Partitions : line \in ToSet(Sent(q))

LEMMA IncreasingAppend ==
  ASSUME NEW s \in Seq(Int), NEW e \in Int, Increasing(s), \A i \in 1 .. Len(s) : s[i] < e
  PROVE  /\ Increasing(Append(s, e))
         /\ \A i \in 1 .. Len(Append(s, e)) : Append(s, e)[i] <= e
<1> DEFINE t == Append(s, e)
<1>1. /\ Len(s) \in Nat /\ Len(t) = Len(s) + 1 /\ t[Len(s) + 1] = e
      /\ \A i \in 1 .. Len(s) : t[i] = s[i] /\ s[i] \in Int
  OBVIOUS
<1> HIDE DEF t
<1>2. ASSUME NEW i \in 1 .. Len(t), NEW j \in 1 .. Len(t), i < j
      PROVE  t[i] < t[j]
  <2>1. i \in 1 .. Len(s)
    BY <1>1, <1>2
  <2>2. CASE j \in 1 .. Len(s)
    BY <1>1, <1>2, <2>1, <2>2 DEF Increasing
  <2>3. CASE j = Len(s) + 1
    BY <1>1, <2>1, <2>3
  <2> QED BY <1>1, <2>2, <2>3
<1>3. ASSUME NEW i \in 1 .. Len(t)
      PROVE  t[i] <= e
  <2>1. CASE i \in 1 .. Len(s)
    BY <1>1, <2>1
  <2>2. CASE i = Len(s) + 1
    BY <1>1, <2>2
  <2> QED BY <1>1, <2>1, <2>2
<1>4. Increasing(t) /\ \A i \in 1 .. Len(t) : t[i] <= e
  BY <1>2, <1>3 DEF Increasing
<1> QED BY <1>4 DEF t

LEMMA OrderSend ==
  ASSUME LoaderTypes, OrderInv, NEW p \in Partitions, SendLine(p)
  PROVE  OrderInv'
<1> SUFFICES ASSUME ~disturbed'
             PROVE  OrderInv'
  BY DEF OrderInv
<1>1. ~disturbed
  BY DEF SendLine
<1>2. PICK next : next = totalRead + 1
  OBVIOUS
<1>3. /\ next \in LineNumbers /\ next \in Int /\ Sent(p)' = Append(Sent(p), next)
      /\ \A q \in Partitions : q # p => Sent(q)' = Sent(q)
  BY <1>2, SentLine DEF LineNumbers
<1>4. Mark = next - 1 /\ Mark' = next
  BY <1>2 DEF SendLine, LoaderTypes, Mark
<1>5. ASSUME NEW q \in Partitions
      PROVE  /\ Sent(q) \in Seq(LineNumbers) /\ Sent(q) \in Seq(Int) /\ Len(Sent(q)) \in Nat
             /\ Increasing(Sent(q)) /\ \A i \in 1 .. Len(Sent(q)) : Sent(q)[i] < next
  <2>1. Sent(q) \in Seq(LineNumbers)
    BY BuffersOfTypes
  <2>2. Sent(q) \in Seq(Int) /\ Len(Sent(q)) \in Nat
    <3>1. LineNumbers \subseteq Int
      BY DEF LineNumbers
    <3> QED BY <2>1, <3>1, SeqMonotonic, LenProperties
  <2>3. Increasing(Sent(q)) /\ \A i \in 1 .. Len(Sent(q)) : Sent(q)[i] <= next - 1
    BY <1>1, <1>4 DEF OrderInv
  <2>4. \A i \in 1 .. Len(Sent(q)) : Sent(q)[i] \in Int
    BY <2>2
  <2> QED BY <1>3, <2>1, <2>2, <2>3, <2>4
<1>6. ASSUME NEW q \in Partitions
      PROVE  Increasing(Sent(q)') /\ \A i \in 1 .. Len(Sent(q)') : Sent(q)'[i] <= next
  <2>1. PICK s \in Seq(Int) : s = Sent(q)
    BY <1>5
  <2>2. Increasing(s) /\ \A i \in 1 .. Len(s) : s[i] \in Int /\ s[i] < next
    BY <1>5, <2>1
  <2>3. CASE q = p
    <3>1. Sent(q)' = Append(s, next)
      BY <1>3, <2>1, <2>3
    <3>2. Increasing(Append(s, next)) /\ \A i \in 1 .. Len(Append(s, next)) : Append(s, next)[i] <= next
      BY <1>3, <2>2, IncreasingAppend
    <3> QED BY <3>1, <3>2
  <2>4. CASE q # p
    <3>1. Sent(q)' = s
      BY <1>3, <2>1, <2>4
    <3> QED BY <1>3, <2>2, <3>1
  <2> QED BY <2>3, <2>4
<1>7. ASSUME NEW q \in Partitions
      PROVE  next \notin ToSet(Sent(q))
  <2>1. \A i \in 1 .. Len(Sent(q)) : Sent(q)[i] \in Int /\ Sent(q)[i] < next
    BY <1>5
  <2>2. \A i \in 1 .. Len(Sent(q)) : Sent(q)[i] # next
    BY <1>3, <2>1
  <2> QED BY <1>5, <2>2, InSequence
<1>8. \A x : x \in ToSet(Sent(p)') <=> x \in ToSet(Sent(p)) \/ x = next
  <2>1. PICK s \in Seq(LineNumbers) : s = Sent(p)
    BY <1>5
  <2>2. \A x : x \in ToSet(Append(s, next)) <=> x \in ToSet(s) \/ x = next
    BY <1>3, InAppend
  <2> QED BY <1>3, <2>1, <2>2
<1>9. \A q, r \in Partitions : q # r => ToSet(Sent(q)') \cap ToSet(Sent(r)') = {}
  <2> SUFFICES ASSUME NEW q \in Partitions, NEW r \in Partitions, q # r,
                      NEW x, x \in ToSet(Sent(q)'), x \in ToSet(Sent(r)')
               PROVE  FALSE
    OBVIOUS
  <2>1. ToSet(Sent(q)) \cap ToSet(Sent(r)) = {}
    BY <1>1 DEF OrderInv
  <2>2. (x \in ToSet(Sent(q)) \/ (q = p /\ x = next)) /\ (x \in ToSet(Sent(r)) \/ (r = p /\ x = next))
    BY <1>3, <1>8
  <2> QED BY <1>7, <2>1, <2>2
<1>10. \A line \in 1 .. next : \E q \in Partitions : line \in ToSet(Sent(q)')
  <2> SUFFICES ASSUME NEW line \in 1 .. next
               PROVE  \E q \in Partitions : line \in ToSet(Sent(q)')
    OBVIOUS
  <2>1. CASE line = next
    BY <1>8, <2>1
  <2>2. CASE line # next
    <3>1. line \in 1 .. next - 1
      BY <1>3, <2>2
    <3>2. PICK q \in Partitions : line \in ToSet(Sent(q))
      BY <1>1, <1>4, <3>1 DEF OrderInv
    <3> QED BY <1>3, <1>8, <3>2
  <2> QED BY <2>1, <2>2
<1> QED BY <1>4, <1>6, <1>9, <1>10 DEF OrderInv

LEMMA OrderStep ==
  ASSUME LoaderTypes, OrderInv, Load
  PROVE  OrderInv'
<1> SUFFICES ASSUME ~disturbed'
             PROVE  OrderInv'
  BY DEF OrderInv
<1>1. ~disturbed /\ ~Kill /\ \A p \in Partitions : ~GiveUp(p)
  <2>1. ~Kill /\ \A p \in Partitions : ~GiveUp(p)
    BY Zenon DEF Kill, GiveUp
  <2>2. \/ disturbed' = disturbed
        \/ disturbed' = (disturbed \/ (offset # NoOffset /\ skipLines' # offset))
        \/ disturbed' = (disturbed \/ offset' # totalRead \/ totalRead < skipLines)
    BY <2>1, Zenon DEF Load, Start, SkipLine, Finish, SendLine, Deliver
  <2>3. CASE disturbed' = disturbed
    BY <2>1, <2>3, Zenon
  <2>4. CASE disturbed' = (disturbed \/ (offset # NoOffset /\ skipLines' # offset))
    BY <2>1, <2>4, Zenon
  <2>5. CASE disturbed' = (disturbed \/ offset' # totalRead \/ totalRead < skipLines)
    BY <2>1, <2>5, Zenon
  <2> QED BY <2>2, <2>3, <2>4, <2>5, Zenon
<1>2. CASE Start \/ SkipLine \/ Finish \/ \E p \in Partitions : Deliver(p)
  <2>1. \A q \in Partitions : Sent(q)' = Sent(q)
    BY <1>2, SentUnchanged
  <2>2. Mark' = Mark
    <3>1. CASE Start
      <4>1. ~running /\ running' = TRUE /\ totalRead' = totalRead /\ totalRead = 0
            /\ offset' = offset /\ skipLines' \in IF offset = NoOffset THEN {0} ELSE {0, offset}
        BY <3>1 DEF Start, LoaderTypes
      <4>2. ~(offset # NoOffset /\ skipLines' # offset)
        <5>1. disturbed' = (disturbed \/ (offset # NoOffset /\ skipLines' # offset))
          BY <3>1, Zenon DEF Start
        <5> QED BY <5>1, Zenon
      <4>3. skipLines' = IF offset = NoOffset THEN 0 ELSE offset
        BY <4>1, <4>2
      <4>4. offset = NoOffset \/ offset \in Nat
        BY DEF LoaderTypes
      <4>5. Mark = IF offset = NoOffset THEN 0 ELSE offset
        BY <4>1, Zenon DEF Mark
      <4>6. Mark' = IF totalRead' < skipLines' THEN skipLines' ELSE totalRead'
        BY <4>1, Zenon DEF Mark
      <4>7. totalRead' = 0
        BY <4>1
      <4>8. CASE offset = NoOffset
        BY <4>3, <4>5, <4>6, <4>7, <4>8
      <4>9. CASE offset \in Nat /\ offset # NoOffset
        <5>1. skipLines' = offset /\ Mark = offset
          BY <4>3, <4>5, <4>9
        <5> QED BY <4>6, <4>7, <4>9, <5>1
      <4> QED BY <4>4, <4>8, <4>9
    <3>2. CASE SkipLine
      BY <3>2 DEF SkipLine, Mark, LoaderTypes
    <3>3. CASE Finish
      <4>1. ~(offset' # totalRead \/ totalRead < skipLines)
        <5>1. disturbed' = (disturbed \/ offset' # totalRead \/ totalRead < skipLines)
          BY <3>3, Zenon DEF Finish
        <5> QED BY <5>1, Zenon
      <4>2. running /\ running' = FALSE
        BY <3>3, Zenon DEF Finish, Exit
      <4>3. totalRead \in Nat
        BY DEF LoaderTypes
      <4>4. Mark = IF totalRead < skipLines THEN skipLines ELSE totalRead
        BY <4>2, Zenon DEF Mark
      <4>5. Mark' = IF offset' = NoOffset THEN 0 ELSE offset'
        BY <4>2, Zenon DEF Mark
      <4> QED BY <4>1, <4>3, <4>4, <4>5 DEF NoOffset
    <3>4. ASSUME NEW p \in Partitions, Deliver(p)
          PROVE  Mark' = Mark
      BY <3>4 DEF Deliver, runVars, Mark
    <3> QED BY <1>2, <3>1, <3>2, <3>3, <3>4
  <2> QED BY <1>1, <2>1, <2>2 DEF OrderInv
<1>3. CASE \E p \in Partitions : SendLine(p)
  BY <1>3, OrderSend
<1> QED BY <1>1, <1>2, <1>3 DEF Load

(***************************************************************************)
(* The parser: a line at a time.                                           *)
(***************************************************************************)

ParserTakes(q) == Csv!Ignore(q) \/ Csv!SkipHeader(q) \/ Csv!Malformed(q) \/ Csv!Emit(q)

\* The three things that become of a line: no row, the header, a row.
NoRow(q) ==
  /\ Kind[Csv!Line(q)] # "row"
  /\ Csv!PastHeader(q) \/ Kind[Csv!Line(q)] = "blank"
  /\ parser'[q].rows = parser[q].rows
  /\ parser'[q].headerSkipped = parser[q].headerSkipped
  /\ parser'[q].autoId >= parser[q].autoId

TakenForHeader(q) ==
  /\ Kind[Csv!Line(q)] # "blank"
  /\ job.hasHeader
  /\ parser[q].headerSkipped = FALSE /\ parser'[q].headerSkipped = TRUE
  /\ parser'[q].rows = parser[q].rows
  /\ parser'[q].autoId = parser[q].autoId

RowAdded(q) ==
  /\ Kind[Csv!Line(q)] = "row"
  /\ Csv!PastHeader(q)
  /\ parser'[q].rows = Append(parser[q].rows, [line |-> Csv!Line(q), number |-> Csv!RowNumber(q)])
  /\ parser'[q].headerSkipped = parser[q].headerSkipped
  /\ parser'[q].autoId = IF job.ids = "auto" THEN parser[q].autoId + 1 ELSE parser[q].autoId

LEMMA LineTaken ==
  ASSUME LoaderTypes, ParserTypes, NEW q \in Partitions, ParserTakes(q)
  PROVE  /\ job' = job /\ saved' = saved /\ restarts' = restarts
         /\ parser' \in [Partitions -> ParserState]
         /\ \A r \in Partitions : r # q => parser'[r] = parser[r]
         /\ parser'[q].pos = parser[q].pos + 1
         /\ parser[q].pos < Len(topic[q])
         /\ Csv!Line(q) \in LineNumbers /\ Csv!RowNumber(q) \in Nat
         /\ NoRow(q) \/ TakenForHeader(q) \/ RowAdded(q)
<1>1. PICK p : p = parser[q]
  OBVIOUS
<1>2. p \in ParserState /\ p.pos \in Nat /\ p.headerSkipped \in BOOLEAN /\ p.autoId \in Nat
      /\ p.rows \in Seq(RowRecord)
  BY <1>1 DEF ParserTypes, ParserState
<1>3. job.hasHeader \in BOOLEAN /\ job.ids \in {"column", "auto", "zero"}
  BY DEF ParserTypes, Csv!JobParameters, Csv!IdSources
<1>4. job' = job /\ saved' = saved /\ restarts' = restarts /\ p.pos < Len(topic[q])
  BY <1>1 DEF ParserTakes, Csv!Ignore, Csv!SkipHeader, Csv!Malformed, Csv!Emit, Csv!Continue,
              Csv!Pending
<1>5. Csv!Line(q) \in LineNumbers
  <2>1. topic[q] \in Seq(LineNumbers) /\ Len(topic[q]) \in Nat
    BY BuffersOfTypes
  <2>2. p.pos + 1 \in 1 .. Len(topic[q])
    BY <1>2, <1>4, <2>1
  <2>3. topic[q][p.pos + 1] \in LineNumbers
    BY <2>1, <2>2
  <2> QED BY <1>1, <2>3 DEF Csv!Line
<1>6. Csv!RowNumber(q) \in Nat
  BY <1>1, <1>2, <1>3, <1>5 DEF Csv!RowNumber, LineNumbers
<1> DEFINE Outcome(d) ==
             /\ d \in ParserState /\ d.pos = p.pos
             /\ parser' = [parser EXCEPT ![q] = [d EXCEPT !.pos = @ + 1]]
<1>7. ASSUME NEW d, Outcome(d)
      PROVE  /\ parser' \in [Partitions -> ParserState]
             /\ \A r \in Partitions : r # q => parser'[r] = parser[r]
             /\ parser'[q].pos = p.pos + 1
             /\ parser'[q].headerSkipped = d.headerSkipped /\ parser'[q].autoId = d.autoId
             /\ parser'[q].rows = d.rows
  <2>1. d.pos \in Nat /\ d.headerSkipped \in BOOLEAN /\ d.autoId \in Nat /\ d.rows \in Seq(RowRecord)
    BY <1>7 DEF ParserState
  <2>2. PICK e : e = [d EXCEPT !.pos = @ + 1]
    OBVIOUS
  <2>3. e \in ParserState /\ e.pos = p.pos + 1 /\ e.headerSkipped = d.headerSkipped
        /\ e.autoId = d.autoId /\ e.rows = d.rows
    <3>1. d = [pos |-> d.pos, headerSkipped |-> d.headerSkipped, autoId |-> d.autoId,
               rows |-> d.rows]
      BY <1>7 DEF ParserState
    <3>2. e = [pos |-> d.pos + 1, headerSkipped |-> d.headerSkipped, autoId |-> d.autoId,
               rows |-> d.rows]
      BY <2>2, <3>1
    <3>3. d.pos + 1 \in Nat /\ d.pos = p.pos
      BY <1>7, <2>1
    <3> QED BY <2>1, <3>2, <3>3 DEF ParserState
  <2>4. parser' = [parser EXCEPT ![q] = e]
    BY <1>7, <2>2
  <2> QED BY <2>3, <2>4 DEF ParserTypes
<1>8. CASE Csv!Ignore(q)
  <2>1. Outcome(p)
    BY <1>1, <1>2, <1>8 DEF Csv!Ignore, Csv!Continue, Csv!Ahead
  <2> HIDE DEF Outcome
  <2>2. NoRow(q)
    BY <1>1, <1>2, <1>7, <1>8, <2>1 DEF Csv!Ignore, NoRow
  <2> QED BY <1>1, <1>4, <1>5, <1>6, <1>7, <2>1, <2>2
<1>9. CASE Csv!SkipHeader(q)
  <2>1. PICK d : d = [p EXCEPT !.headerSkipped = TRUE]
    OBVIOUS
  <2>2. d \in ParserState /\ d.pos = p.pos /\ d.headerSkipped = TRUE
        /\ d.rows = p.rows /\ d.autoId = p.autoId
    BY <1>2, <2>1 DEF ParserState
  <2>3. Outcome(d)
    BY <1>1, <1>9, <2>1, <2>2 DEF Csv!SkipHeader, Csv!Continue, Csv!Ahead
  <2> HIDE DEF Outcome
  <2>4. parser[q].headerSkipped = FALSE /\ job.hasHeader
    BY <1>1, <1>2, <1>9, Zenon DEF Csv!SkipHeader, Csv!PastHeader
  <2>5. TakenForHeader(q)
    BY <1>1, <1>7, <1>9, <2>2, <2>3, <2>4, Zenon DEF Csv!SkipHeader, TakenForHeader
  <2> QED BY <1>1, <1>4, <1>5, <1>6, <1>7, <2>3, <2>5
<1>10. PICK w : w = Csv!WithId(p)
  OBVIOUS
<1>11. w \in ParserState /\ w.pos = p.pos /\ w.headerSkipped = p.headerSkipped
       /\ w.rows = p.rows
       /\ w.autoId = IF job.ids = "auto" THEN p.autoId + 1 ELSE p.autoId
  BY <1>2, <1>10 DEF Csv!WithId, ParserState
<1>12. w.autoId >= p.autoId
  BY <1>2, <1>11
<1>13. CASE Csv!Malformed(q)
  <2>1. Outcome(w)
    BY <1>1, <1>10, <1>11, <1>13 DEF Csv!Malformed, Csv!Continue, Csv!Ahead
  <2> HIDE DEF Outcome
  <2>2. Kind[Csv!Line(q)] # "row" /\ Csv!PastHeader(q)
    BY <1>13 DEF Csv!Malformed
  <2>3. NoRow(q)
    BY <1>1, <1>7, <1>11, <1>12, <2>1, <2>2 DEF NoRow
  <2> QED BY <1>1, <1>4, <1>5, <1>6, <1>7, <2>1, <2>3
<1>14. CASE Csv!Emit(q)
  <2>1. PICK row : row = [line |-> Csv!Line(q), number |-> Csv!RowNumber(q)]
    OBVIOUS
  <2>2. row \in RowRecord
    BY <1>5, <1>6, <2>1 DEF RowRecord
  <2>3. PICK d : d = [w EXCEPT !.rows = Append(@, row)]
    OBVIOUS
  <2>4. w.rows \in Seq(RowRecord)
    BY <1>2, <1>11
  <2>5. Append(w.rows, row) \in Seq(RowRecord)
    BY <2>2, <2>4
  <2>6. d \in ParserState /\ d.pos = w.pos /\ d.headerSkipped = w.headerSkipped
        /\ d.autoId = w.autoId /\ d.rows = Append(w.rows, row)
    BY <1>11, <2>3, <2>5 DEF ParserState
  <2>7. Outcome(d)
    BY <1>1, <1>10, <1>11, <1>14, <2>1, <2>3, <2>6 DEF Csv!Emit, Csv!Continue, Csv!Ahead
  <2> HIDE DEF Outcome
  <2>8. Kind[Csv!Line(q)] = "row" /\ Csv!PastHeader(q)
    BY <1>14 DEF Csv!Emit
  <2>9. RowAdded(q)
    BY <1>1, <1>7, <1>11, <2>1, <2>6, <2>7, <2>8 DEF RowAdded
  <2> QED BY <1>1, <1>4, <1>5, <1>6, <1>7, <2>7, <2>9
<1> QED BY <1>8, <1>9, <1>13, <1>14 DEF ParserTakes

LEMMA ParserTypesStart == IngestionInit => ParserTypes
<1> SUFFICES ASSUME IngestionInit PROVE ParserTypes
  OBVIOUS
<1>1. job \in Csv!JobParameters
  BY IngestionAssumption DEF IngestionInit, Csv!Init
<1>2. <<>> \in Seq(RowRecord) /\ <<>> \in Seq(LineNumbers) /\ Len(<<>>) = 0
  BY EmptySeq
<1>3. /\ parser = [q \in Partitions |-> [pos |-> 0, headerSkipped |-> FALSE, autoId |-> 0,
                                         rows |-> <<>>]]
      /\ saved = [q \in Partitions |-> [pos |-> 0, rows |-> <<>>]]
      /\ topic = [q \in Partitions |-> <<>>] /\ restarts = 0
  BY DEF IngestionInit, Csv!Init, Csv!Parser, LoaderInit
<1>4. parser \in [Partitions -> ParserState] /\ saved \in [Partitions -> SavedState]
  BY <1>2, <1>3 DEF ParserState, SavedState
<1> QED BY <1>1, <1>2, <1>3, <1>4 DEF ParserTypes

\* A checkpoint, and a return to it.
LEMMA CheckpointTaken ==
  ASSUME ParserTypes, Csv!Checkpoint
  PROVE  /\ job' = job /\ parser' = parser /\ restarts' = restarts
         /\ saved' \in [Partitions -> SavedState]
         /\ \A q \in Partitions : saved'[q].pos = parser[q].pos /\ saved'[q].rows = parser[q].rows
<1>1. /\ job' = job /\ parser' = parser /\ restarts' = restarts
      /\ saved' = [q \in Partitions |-> [pos |-> parser[q].pos, rows |-> parser[q].rows]]
  BY DEF Csv!Checkpoint
<1>2. \A q \in Partitions : parser[q].pos \in Nat /\ parser[q].rows \in Seq(RowRecord)
  BY DEF ParserTypes, ParserState
<1> QED BY <1>1, <1>2 DEF SavedState

LEMMA Recovered ==
  ASSUME ParserTypes, Csv!Recover
  PROVE  /\ job' = job /\ saved' = saved /\ restarts' = restarts + 1
         /\ parser' \in [Partitions -> ParserState]
         /\ \A q \in Partitions : /\ parser'[q].pos = saved[q].pos
                                  /\ parser'[q].rows = saved[q].rows
                                  /\ parser'[q].headerSkipped = FALSE
<1>1. /\ job' = job /\ saved' = saved /\ restarts' = restarts + 1
      /\ parser' = [q \in Partitions |->
                      [pos |-> saved[q].pos, headerSkipped |-> FALSE, autoId |-> 0,
                       rows |-> saved[q].rows]]
  BY DEF Csv!Recover, Csv!Parser
<1>2. \A q \in Partitions : saved[q].pos \in Nat /\ saved[q].rows \in Seq(RowRecord)
  BY DEF ParserTypes, SavedState
<1>3. parser' \in [Partitions -> ParserState]
  BY <1>1, <1>2 DEF ParserState
<1> QED BY <1>1, <1>3

LEMMA ParseCases ==
  ASSUME Csv!Parse
  PROVE  Csv!Checkpoint \/ Csv!Recover \/ \E q \in Partitions : ParserTakes(q)
BY DEF Csv!Parse, Csv!BadId, ParserTakes

LEMMA ParserTypesStep ==
  ASSUME LoaderTypes, ParserTypes, IngestionNext
  PROVE  ParserTypes'
<1>1. CASE Load /\ UNCHANGED parserVars
  <2>1. ASSUME NEW q \in Partitions, NEW n \in Nat, n <= Len(topic[q])
        PROVE  n <= Len(topic'[q])
    <3>1. LoaderTypes'
      BY <1>1, LoaderTypesStep
    <3>2. Len(topic[q]) \in Nat /\ Len(topic'[q]) \in Nat
      <4>1. topic[q] \in Seq(LineNumbers) /\ topic'[q] \in Seq(LineNumbers)
        BY <3>1 DEF LoaderTypes
      <4> QED BY <4>1
    <3>3. Len(topic[q]) <= Len(topic'[q])
      BY <1>1, TopicGrows DEF Grown
    <3> QED BY <2>1, <3>2, <3>3
  <2>2. \A q \in Partitions : parser[q].pos \in Nat /\ saved[q].pos \in Nat
    BY DEF ParserTypes, ParserState, SavedState
  <2>3. \A q \in Partitions : parser[q].pos <= Len(topic'[q]) /\ saved[q].pos <= Len(topic'[q])
    BY <2>1, <2>2 DEF ParserTypes
  <2> QED BY <1>1, <2>3 DEF parserVars, ParserTypes
<1>2. CASE Csv!Parse /\ UNCHANGED loaderVars
  <2>1. topic' = topic
    BY <1>2 DEF loaderVars
  <2>2. CASE Csv!Checkpoint
    BY <2>1, <2>2, CheckpointTaken DEF ParserTypes
  <2>3. CASE Csv!Recover
    <3>1. /\ job' = job /\ saved' = saved /\ restarts' = restarts + 1
          /\ parser' \in [Partitions -> ParserState]
          /\ \A q \in Partitions : parser'[q].pos = saved[q].pos
      BY <2>3, Recovered
    <3>2. restarts' \in Nat
      BY <3>1 DEF ParserTypes
    <3> QED BY <2>1, <3>1, <3>2 DEF ParserTypes
  <2>4. ASSUME NEW q \in Partitions, ParserTakes(q)
        PROVE  ParserTypes'
    <3>1. parser[q].pos \in Nat /\ Len(topic[q]) \in Nat
      BY BuffersOfTypes DEF ParserTypes, ParserState
    <3>2. parser'[q].pos <= Len(topic[q])
      BY <2>4, <3>1, LineTaken
    <3> QED BY <2>1, <2>4, <3>2, LineTaken DEF ParserTypes
  <2> QED BY <1>2, <2>2, <2>3, <2>4, ParseCases
<1> QED BY <1>1, <1>2 DEF IngestionNext

(***************************************************************************)
(* Numbers: where the rows come from, and what they are called.            *)
(***************************************************************************)

\* About the rows made of the first pos lines of a partition t.
ReadFrom(t, pos, rows) == \A i \in 1 .. Len(rows) : \E p \in 1 .. pos : t[p] = rows[i].line
InOrder(rows) == \A i, j \in 1 .. Len(rows) : i < j => rows[i].line < rows[j].line
Numbered(rows) == \A i \in 1 .. Len(rows) : rows[i].number = rows[i].line
Counted(n, rows) ==
  /\ \A i \in 1 .. Len(rows) : rows[i].number <= n
  /\ \A i, j \in 1 .. Len(rows) : i < j => rows[i].number < rows[j].number

LEMMA RowAppended ==
  ASSUME NEW rows \in Seq(RowRecord), NEW row \in RowRecord,
         NEW more, more = Append(rows, row)
  PROVE  /\ Len(rows) \in Nat /\ Len(more) = Len(rows) + 1 /\ more[Len(rows) + 1] = row
         /\ \A i \in 1 .. Len(rows) :
              more[i] = rows[i] /\ rows[i].line \in Nat /\ rows[i].number \in Nat
         /\ row.line \in Nat /\ row.number \in Nat
         /\ \A i \in 1 .. Len(more) : i \in 1 .. Len(rows) \/ i = Len(rows) + 1
<1>1. \A r \in RowRecord : r.line \in Nat /\ r.number \in Nat
  BY DEF RowRecord, LineNumbers
<1> QED BY <1>1

LEMMA ReadAppend ==
  ASSUME NEW rows \in Seq(RowRecord), NEW row \in RowRecord, NEW pos \in Nat, NEW t,
         ReadFrom(t, pos, rows), row.line = t[pos + 1]
  PROVE  ReadFrom(t, pos + 1, Append(rows, row))
<1>1. PICK more : more = Append(rows, row)
  OBVIOUS
<1> SUFFICES ASSUME NEW i \in 1 .. Len(more)
             PROVE  \E p \in 1 .. pos + 1 : t[p] = more[i].line
  BY <1>1 DEF ReadFrom
<1>2. CASE i \in 1 .. Len(rows)
  <2>1. PICK p \in 1 .. pos : t[p] = rows[i].line
    BY <1>2 DEF ReadFrom
  <2>2. p \in 1 .. pos + 1 /\ more[i] = rows[i]
    BY <1>1, <1>2, RowAppended
  <2> QED BY <2>1, <2>2
<1>3. CASE i = Len(rows) + 1
  <2>1. more[i] = row /\ pos + 1 \in 1 .. pos + 1
    BY <1>1, <1>3, RowAppended
  <2> QED BY <2>1
<1> QED BY <1>1, <1>2, <1>3, RowAppended

LEMMA OrderAppend ==
  ASSUME NEW rows \in Seq(RowRecord), NEW row \in RowRecord, NEW pos \in Nat,
         NEW t \in Seq(LineNumbers), pos + 1 <= Len(t), Increasing(t),
         ReadFrom(t, pos, rows), InOrder(rows), row.line = t[pos + 1]
  PROVE  InOrder(Append(rows, row))
<1>1. PICK more : more = Append(rows, row)
  OBVIOUS
<1>2. \A i \in 1 .. Len(rows) : rows[i].line < row.line
  <2> SUFFICES ASSUME NEW i \in 1 .. Len(rows)
               PROVE  rows[i].line < row.line
    OBVIOUS
  <2>1. PICK p \in 1 .. pos : t[p] = rows[i].line
    BY DEF ReadFrom
  <2>2. p \in 1 .. Len(t) /\ pos + 1 \in 1 .. Len(t) /\ p < pos + 1
    OBVIOUS
  <2> QED BY <2>1, <2>2 DEF Increasing
<1>3. ASSUME NEW i \in 1 .. Len(more), NEW j \in 1 .. Len(more), i < j
      PROVE  more[i].line < more[j].line
  <2>1. i \in 1 .. Len(rows)
    BY <1>1, <1>3, RowAppended
  <2>2. CASE j \in 1 .. Len(rows)
    BY <1>1, <1>3, <2>1, <2>2, RowAppended DEF InOrder
  <2>3. CASE j = Len(rows) + 1
    BY <1>1, <1>2, <2>1, <2>3, RowAppended
  <2> QED BY <1>1, <2>2, <2>3, RowAppended
<1> QED BY <1>1, <1>3 DEF InOrder

LEMMA NumberedAppend ==
  ASSUME NEW rows \in Seq(RowRecord), NEW row \in RowRecord, Numbered(rows), row.number = row.line
  PROVE  Numbered(Append(rows, row))
<1>1. PICK more : more = Append(rows, row)
  OBVIOUS
<1>2. \A i \in 1 .. Len(more) : more[i].number = more[i].line
  BY <1>1, RowAppended DEF Numbered
<1> QED BY <1>1, <1>2 DEF Numbered

LEMMA CountedAppend ==
  ASSUME NEW rows \in Seq(RowRecord), NEW row \in RowRecord, NEW n \in Nat,
         Counted(n, rows), row.number = n + 1
  PROVE  Counted(n + 1, Append(rows, row))
<1>1. PICK more : more = Append(rows, row)
  OBVIOUS
<1>2. \A i \in 1 .. Len(more) : more[i].number <= n + 1
  BY <1>1, RowAppended DEF Counted
<1>3. ASSUME NEW i \in 1 .. Len(more), NEW j \in 1 .. Len(more), i < j
      PROVE  more[i].number < more[j].number
  <2>1. i \in 1 .. Len(rows)
    BY <1>1, <1>3, RowAppended
  <2>2. CASE j \in 1 .. Len(rows)
    BY <1>1, <1>3, <2>1, <2>2, RowAppended DEF Counted
  <2>3. CASE j = Len(rows) + 1
    <3>1. rows[i].number <= n /\ more[j].number = n + 1 /\ more[i] = rows[i]
          /\ rows[i].number \in Nat
      BY <1>1, <2>1, <2>3, RowAppended DEF Counted
    <3> QED BY <3>1
  <2> QED BY <1>1, <2>2, <2>3, RowAppended
<1> QED BY <1>1, <1>2, <1>3 DEF Counted

NumberInv ==
  \A q \in Partitions :
    /\ ReadFrom(topic[q], parser[q].pos, parser[q].rows)
    /\ ReadFrom(topic[q], saved[q].pos, saved[q].rows)
    /\ ~disturbed => InOrder(parser[q].rows) /\ InOrder(saved[q].rows)
    /\ job.ids = "column" => Numbered(parser[q].rows) /\ Numbered(saved[q].rows)
    /\ job.ids = "auto" /\ restarts = 0 => Counted(parser[q].autoId, parser[q].rows)

\* A disturbance is not forgotten.
LEMMA Undisturbed ==
  ASSUME Load, ~disturbed'
  PROVE  ~disturbed
<1>1. ~Kill /\ \A p \in Partitions : ~GiveUp(p)
  BY Zenon DEF Kill, GiveUp
<1>2. \/ disturbed' = disturbed
      \/ disturbed' = (disturbed \/ (offset # NoOffset /\ skipLines' # offset))
      \/ disturbed' = (disturbed \/ offset' # totalRead \/ totalRead < skipLines)
  BY <1>1, Zenon DEF Load, Start, SkipLine, Finish, SendLine, Deliver
<1>3. CASE disturbed' = disturbed
  BY <1>3, Zenon
<1>4. CASE disturbed' = (disturbed \/ (offset # NoOffset /\ skipLines' # offset))
  BY <1>4, Zenon
<1>5. CASE disturbed' = (disturbed \/ offset' # totalRead \/ totalRead < skipLines)
  BY <1>5, Zenon
<1> QED BY <1>2, <1>3, <1>4, <1>5, Zenon

\* What is delivered is in order, being the front of what was sent.
LEMMA TopicInOrder ==
  ASSUME LoaderTypes, OrderInv, ~disturbed, NEW q \in Partitions
  PROVE  Increasing(topic[q])
<1>1. PICK s \in Seq(LineNumbers), t \in Seq(LineNumbers) : s = topic[q] /\ t = buffer[q]
  BY BuffersOfTypes
<1>2. /\ Len(s \o t) = Len(s) + Len(t)
      /\ \A i \in 1 .. Len(s) + Len(t) :
           (s \o t)[i] = IF i <= Len(s) THEN s[i] ELSE t[i - Len(s)]
  BY ConcatProperties
<1>3. Increasing(s \o t)
  BY <1>1 DEF OrderInv, Sent
<1>4. Len(s) \in Nat /\ Len(t) \in Nat
  OBVIOUS
<1>5. \A i \in 1 .. Len(s) : i \in 1 .. Len(s \o t) /\ (s \o t)[i] = s[i]
  BY <1>2, <1>4
<1> QED BY <1>1, <1>3, <1>5 DEF Increasing

LEMMA NumberStart == IngestionInit => NumberInv
<1> SUFFICES ASSUME IngestionInit, NEW q \in Partitions
             PROVE  parser[q].rows = <<>> /\ saved[q].rows = <<>>
  <2>1. Len(<<>>) = 0
    BY EmptySeq
  <2>2. \A t, n : ReadFrom(t, n, <<>>) /\ InOrder(<<>>) /\ Numbered(<<>>) /\ Counted(n, <<>>)
    BY <2>1 DEF ReadFrom, InOrder, Numbered, Counted
  <2> QED BY <2>2 DEF NumberInv
<1> QED BY DEF IngestionInit, Csv!Init, Csv!Parser

LEMMA NumberLoad ==
  ASSUME LoaderTypes, ParserTypes, NumberInv, Load, UNCHANGED parserVars
  PROVE  NumberInv'
<1> SUFFICES ASSUME NEW q \in Partitions
             PROVE  /\ ReadFrom(topic'[q], parser[q].pos, parser[q].rows)
                    /\ ReadFrom(topic'[q], saved[q].pos, saved[q].rows)
  BY Undisturbed DEF NumberInv, parserVars
<1>1. Grown(topic[q], topic'[q])
  BY TopicGrows
<1>2. ASSUME NEW pos \in Nat, pos <= Len(topic[q]), NEW rows, ReadFrom(topic[q], pos, rows)
      PROVE  ReadFrom(topic'[q], pos, rows)
  <2>1. Len(topic[q]) \in Nat
    BY BuffersOfTypes
  <2>2. \A p \in 1 .. pos : topic'[q][p] = topic[q][p]
    BY <1>1, <1>2, <2>1 DEF Grown
  <2> QED BY <1>2, <2>2 DEF ReadFrom
<1>3. parser[q].pos \in Nat /\ saved[q].pos \in Nat
      /\ parser[q].pos <= Len(topic[q]) /\ saved[q].pos <= Len(topic[q])
  BY DEF ParserTypes, ParserState, SavedState
<1> QED BY <1>2, <1>3 DEF NumberInv

LEMMA NumberTake ==
  ASSUME LoaderTypes, OrderInv, ParserTypes, NumberInv, UNCHANGED loaderVars,
         NEW q \in Partitions, ParserTakes(q)
  PROVE  NumberInv'
<1>1. topic' = topic /\ disturbed' = disturbed
  BY DEF loaderVars
<1>2. /\ job' = job /\ saved' = saved /\ restarts' = restarts
      /\ \A r \in Partitions : r # q => parser'[r] = parser[r]
      /\ parser'[q].pos = parser[q].pos + 1
      /\ parser[q].pos < Len(topic[q])
      /\ Csv!Line(q) \in LineNumbers /\ Csv!RowNumber(q) \in Nat
      /\ NoRow(q) \/ TakenForHeader(q) \/ RowAdded(q)
  BY LineTaken
<1>3. PICK pos \in Nat, rows \in Seq(RowRecord), id \in Nat :
        pos = parser[q].pos /\ rows = parser[q].rows /\ id = parser[q].autoId
  BY DEF ParserTypes, ParserState
<1>4. PICK t \in Seq(LineNumbers) : t = topic[q]
  BY BuffersOfTypes
<1>5. /\ ReadFrom(t, pos, rows)
      /\ ~disturbed => InOrder(rows)
      /\ job.ids = "column" => Numbered(rows)
      /\ job.ids = "auto" /\ restarts = 0 => Counted(id, rows)
  BY <1>3, <1>4 DEF NumberInv
<1>6. PICK rows2 : rows2 = parser'[q].rows
  OBVIOUS
<1>7. PICK id2 \in Nat : id2 = parser'[q].autoId
  BY LineTaken DEF ParserState
<1>8. SUFFICES /\ ReadFrom(t, pos + 1, rows2)
               /\ ~disturbed => InOrder(rows2)
               /\ job.ids = "column" => Numbered(rows2)
               /\ job.ids = "auto" /\ restarts = 0 => Counted(id2, rows2)
  BY <1>1, <1>2, <1>3, <1>4, <1>6, <1>7 DEF NumberInv
<1>9. CASE NoRow(q) \/ TakenForHeader(q)
  <2>1. rows2 = rows /\ id2 >= id
    BY <1>3, <1>6, <1>7, <1>9 DEF NoRow, TakenForHeader
  <2>2. ReadFrom(t, pos + 1, rows)
    BY <1>5, SMTT(30) DEF ReadFrom
  <2>3. ASSUME Counted(id, rows)
        PROVE  Counted(id2, rows)
    <3>1. \A i \in 1 .. Len(rows) : rows[i].number \in Nat
      <4>1. \A r \in RowRecord : r.number \in Nat
        BY DEF RowRecord
      <4> QED BY <4>1
    <3> QED BY <2>1, <2>3, <3>1 DEF Counted
  <2> QED BY <1>5, <2>1, <2>2, <2>3
<1>10. CASE RowAdded(q)
  <2>1. PICK row : row = [line |-> Csv!Line(q), number |-> Csv!RowNumber(q)]
    OBVIOUS
  <2>2. row \in RowRecord /\ row.line = t[pos + 1] /\ row.number = Csv!RowNumber(q)
    BY <1>2, <1>3, <1>4, <2>1 DEF RowRecord, Csv!Line
  <2>3. rows2 = Append(rows, row)
        /\ id2 = IF job.ids = "auto" THEN id + 1 ELSE id
    BY <1>3, <1>6, <1>7, <1>10, <2>1 DEF RowAdded
  <2>4. ReadFrom(t, pos + 1, Append(rows, row))
    BY <1>5, <2>2, ReadAppend
  <2>5. ASSUME ~disturbed
        PROVE  InOrder(Append(rows, row))
    <3>1. Increasing(t) /\ pos + 1 <= Len(t)
      BY <1>2, <1>3, <1>4, <2>5, TopicInOrder
    <3> QED BY <1>5, <2>2, <2>5, <3>1, OrderAppend
  <2>6. ASSUME job.ids = "column"
        PROVE  Numbered(Append(rows, row))
    <3>1. row.number = row.line
      BY <1>2, <2>1, <2>2, <2>6 DEF Csv!RowNumber
    <3> QED BY <1>5, <2>2, <2>6, <3>1, NumberedAppend
  <2>7. ASSUME job.ids = "auto", restarts = 0
        PROVE  Counted(id2, Append(rows, row))
    <3>1. row.number = id + 1 /\ id2 = id + 1
      BY <1>3, <2>2, <2>3, <2>7 DEF Csv!RowNumber
    <3>2. Counted(id + 1, Append(rows, row))
      BY <1>5, <2>2, <2>7, <3>1, CountedAppend
    <3> QED BY <3>1, <3>2
  <2> QED BY <2>3, <2>4, <2>5, <2>6, <2>7
<1> QED BY <1>2, <1>9, <1>10

LEMMA NumberStep ==
  ASSUME LoaderTypes, OrderInv, ParserTypes, NumberInv, IngestionNext
  PROVE  NumberInv'
<1>1. CASE Load /\ UNCHANGED parserVars
  BY <1>1, NumberLoad
<1>2. CASE Csv!Parse /\ UNCHANGED loaderVars
  <2>1. topic' = topic /\ disturbed' = disturbed
    BY <1>2 DEF loaderVars
  <2>2. CASE Csv!Checkpoint
    BY <2>1, <2>2, CheckpointTaken DEF NumberInv
  <2>3. CASE Csv!Recover
    <3>1. restarts' # 0
      <4>1. restarts' = restarts + 1
        BY <2>3, Recovered
      <4>2. restarts \in Nat
        BY DEF ParserTypes
      <4> QED BY <4>1, <4>2
    <3> QED BY <2>1, <2>3, <3>1, Recovered DEF NumberInv
  <2> QED BY <1>2, <2>2, <2>3, NumberTake, ParseCases
<1> QED BY <1>1, <1>2 DEF IngestionNext

(***************************************************************************)
(* Rows lost: how many data lines may be missing among the rows.           *)
(***************************************************************************)

DataUpTo(t, pos) == {i \in 1 .. pos : Kind[t[i]] = "row"}
BlankUpTo(t, pos) == \A i \in 1 .. pos : Kind[t[i]] = "blank"
HeaderLeads(t) ==
  \E i \in 1 .. Len(t) : Kind[t[i]] = "header" /\ \A j \in 1 .. i - 1 : Kind[t[j]] = "blank"

LEMMA DataCount ==
  ASSUME NEW t, NEW pos \in Nat
  PROVE  /\ IsFiniteSet(DataUpTo(t, pos)) /\ Cardinality(DataUpTo(t, pos)) \in Nat
         /\ Cardinality(DataUpTo(t, pos + 1))
            = Cardinality(DataUpTo(t, pos)) + (IF Kind[t[pos + 1]] = "row" THEN 1 ELSE 0)
<1>1. IsFiniteSet(DataUpTo(t, pos))
  <2>1. IsFiniteSet(1 .. pos)
    BY FS_Interval
  <2>2. DataUpTo(t, pos) \subseteq 1 .. pos
    BY DEF DataUpTo
  <2> QED BY <2>1, <2>2, FS_Subset
<1>2. Cardinality(DataUpTo(t, pos)) \in Nat
  BY <1>1, FS_CardinalityType
<1>3. pos + 1 \notin DataUpTo(t, pos)
  BY DEF DataUpTo
<1>4. \A i \in 1 .. pos + 1 : i \in 1 .. pos \/ i = pos + 1
  OBVIOUS
<1>5. CASE Kind[t[pos + 1]] = "row"
  <2>1. DataUpTo(t, pos + 1) = DataUpTo(t, pos) \cup {pos + 1}
    BY <1>4, <1>5 DEF DataUpTo
  <2>2. Cardinality(DataUpTo(t, pos) \cup {pos + 1}) = Cardinality(DataUpTo(t, pos)) + 1
    BY <1>1, <1>3, FS_AddElement
  <2> QED BY <1>1, <1>2, <1>5, <2>1, <2>2
<1>6. CASE Kind[t[pos + 1]] # "row"
  <2>1. DataUpTo(t, pos + 1) = DataUpTo(t, pos)
    BY <1>4, <1>6 DEF DataUpTo
  <2> QED BY <1>1, <1>2, <1>6, <2>1
<1> QED BY <1>5, <1>6

\* What a growing partition leaves alone; a header that comes to lead it late
\* has only blank lines before it.
LEMMA DataGrows ==
  ASSUME NEW s \in Seq(LineNumbers), NEW t \in Seq(LineNumbers), Grown(s, t),
         NEW pos \in Nat, pos <= Len(s)
  PROVE  /\ DataUpTo(t, pos) = DataUpTo(s, pos)
         /\ BlankUpTo(s, pos) => BlankUpTo(t, pos)
         /\ HeaderLeads(s) => HeaderLeads(t)
         /\ HeaderLeads(t) => HeaderLeads(s) \/ Cardinality(DataUpTo(t, pos)) = 0
<1>1. Len(s) \in Nat /\ Len(t) \in Nat /\ Len(s) <= Len(t)
  BY DEF Grown
<1>2. \A i \in 1 .. Len(s) : t[i] = s[i] /\ i \in 1 .. Len(t)
  BY <1>1 DEF Grown
<1>3. \A i \in 1 .. pos : i \in 1 .. Len(s)
  BY <1>1
<1>4. DataUpTo(t, pos) = DataUpTo(s, pos)
  BY <1>2, <1>3 DEF DataUpTo
<1>5. BlankUpTo(s, pos) => BlankUpTo(t, pos)
  BY <1>2, <1>3 DEF BlankUpTo
<1>6. ASSUME HeaderLeads(s)
      PROVE  HeaderLeads(t)
  <2>1. PICK i \in 1 .. Len(s) :
          Kind[s[i]] = "header" /\ \A j \in 1 .. i - 1 : Kind[s[j]] = "blank"
    BY <1>6 DEF HeaderLeads
  <2>2. \A j \in 1 .. i - 1 : j \in 1 .. Len(s)
    BY <1>1
  <2> QED BY <1>2, <2>1, <2>2 DEF HeaderLeads
<1>7. ASSUME HeaderLeads(t), ~HeaderLeads(s)
      PROVE  Cardinality(DataUpTo(t, pos)) = 0
  <2>1. PICK i \in 1 .. Len(t) :
          Kind[t[i]] = "header" /\ \A j \in 1 .. i - 1 : Kind[t[j]] = "blank"
    BY <1>7 DEF HeaderLeads
  <2>2. ASSUME i \in 1 .. Len(s) PROVE FALSE
    <3>1. \A j \in 1 .. i - 1 : j \in 1 .. Len(s)
      BY <1>1, <2>2
    <3> QED BY <1>2, <1>7, <2>1, <2>2, <3>1 DEF HeaderLeads
  <2>3. \A j \in 1 .. pos : j \in 1 .. i - 1
    BY <1>1, <2>2
  <2>4. DataUpTo(t, pos) = {}
    BY <2>1, <2>3 DEF DataUpTo
  <2> QED BY <2>4, FS_EmptySet
<1> QED BY <1>4, <1>5, <1>6, <1>7

\* The first line that is not blank is the header, if a header leads.
LEMMA FirstIsHeader ==
  ASSUME NEW t \in Seq(LineNumbers), NEW pos \in Nat, pos + 1 <= Len(t),
         HeaderLeads(t), BlankUpTo(t, pos), Kind[t[pos + 1]] # "blank"
  PROVE  Kind[t[pos + 1]] # "row"
<1>1. PICK i \in 1 .. Len(t) :
        Kind[t[i]] = "header" /\ \A j \in 1 .. i - 1 : Kind[t[j]] = "blank"
  BY DEF HeaderLeads
<1>2. Len(t) \in Nat
  OBVIOUS
<1>3. i \notin 1 .. pos
  BY <1>1 DEF BlankUpTo
<1>4. pos + 1 \notin 1 .. i - 1
  BY <1>1
<1>5. i = pos + 1
  BY <1>2, <1>3, <1>4
<1> QED BY <1>1, <1>5

\* The data lines a parser may have taken for the header so far: one per start
\* with --hasHeader, none on the first start if a header leads.
Flag(skipped) == IF skipped THEN 1 ELSE 0
Misses(leads, n, flag) ==
  IF ~job.hasHeader THEN 0
  ELSE IF leads THEN IF n = 0 THEN 0 ELSE n - 1 + flag
  ELSE n + flag
Within(t, pos, rows, misses) == Cardinality(DataUpTo(t, pos)) <= Len(rows) + misses

CountInv ==
  \A q \in Partitions :
    /\ Within(topic[q], parser[q].pos, parser[q].rows,
              Misses(HeaderLeads(topic[q]), restarts, Flag(parser[q].headerSkipped)))
    /\ Within(topic[q], saved[q].pos, saved[q].rows,
              Misses(HeaderLeads(topic[q]), restarts, 1))
    /\ job.hasHeader /\ restarts = 0 /\ ~parser[q].headerSkipped =>
         BlankUpTo(topic[q], parser[q].pos)

LEMMA MissesNat ==
  ASSUME ParserTypes, NEW leads, NEW n \in Nat, NEW flag \in {0, 1}
  PROVE  Misses(leads, n, flag) \in Nat
BY DEF Misses

LEMMA FlagBit == \A b \in BOOLEAN : Flag(b) \in {0, 1} /\ (b <=> Flag(b) = 1)
BY DEF Flag

LEMMA CountStart == IngestionInit => CountInv
<1> SUFFICES ASSUME IngestionInit PROVE CountInv
  OBVIOUS
<1>1. ParserTypes
  BY ParserTypesStart
<1>2. \A t : Cardinality(DataUpTo(t, 0)) = 0 /\ BlankUpTo(t, 0)
  <2>1. \A t : DataUpTo(t, 0) = {} /\ BlankUpTo(t, 0)
    BY DEF DataUpTo, BlankUpTo
  <2> QED BY <2>1, FS_EmptySet
<1>3. ASSUME NEW q \in Partitions, NEW flag \in {0, 1}
      PROVE  Within(topic[q], 0, <<>>, Misses(HeaderLeads(topic[q]), 0, flag))
  <2>1. PICK misses : misses = Misses(HeaderLeads(topic[q]), 0, flag)
    OBVIOUS
  <2>2. misses \in Nat
    BY <1>1, <2>1, MissesNat
  <2>3. Cardinality(DataUpTo(topic[q], 0)) = 0 /\ Len(<<>>) = 0
    BY <1>2, EmptySeq
  <2> QED BY <2>1, <2>2, <2>3 DEF Within
<1>4. ASSUME NEW q \in Partitions
      PROVE  /\ parser[q].pos = 0 /\ parser[q].rows = <<>>
             /\ parser[q].headerSkipped \in BOOLEAN
             /\ saved[q].pos = 0 /\ saved[q].rows = <<>>
             /\ restarts = 0
  BY <1>1 DEF IngestionInit, Csv!Init, Csv!Parser, ParserTypes, ParserState
<1> QED BY <1>2, <1>3, <1>4, FlagBit DEF CountInv

LEMMA CountLoad ==
  ASSUME LoaderTypes, ParserTypes, CountInv, Load, UNCHANGED parserVars
  PROVE  CountInv'
<1> SUFFICES ASSUME NEW q \in Partitions
             PROVE  /\ Within(topic'[q], parser[q].pos, parser[q].rows,
                              Misses(HeaderLeads(topic'[q]), restarts,
                                     Flag(parser[q].headerSkipped)))
                    /\ Within(topic'[q], saved[q].pos, saved[q].rows,
                              Misses(HeaderLeads(topic'[q]), restarts, 1))
                    /\ BlankUpTo(topic[q], parser[q].pos) =>
                         BlankUpTo(topic'[q], parser[q].pos)
  BY DEF CountInv, parserVars, Misses
<1>1. PICK s \in Seq(LineNumbers), t \in Seq(LineNumbers) : s = topic[q] /\ t = topic'[q]
  BY LoaderTypesStep DEF LoaderTypes
<1>2. Grown(s, t)
  BY <1>1, TopicGrows
<1>3. ASSUME NEW pos \in Nat, pos <= Len(s), NEW rows \in Seq(RowRecord), NEW flag \in {0, 1},
             Within(s, pos, rows, Misses(HeaderLeads(s), restarts, flag))
      PROVE  Within(t, pos, rows, Misses(HeaderLeads(t), restarts, flag))
  <2>1. Misses(HeaderLeads(t), restarts, flag) \in Nat /\ Len(rows) \in Nat
    <3>1. restarts \in Nat
      BY DEF ParserTypes
    <3> QED BY <3>1, MissesNat
  <2>2. CASE HeaderLeads(t) <=> HeaderLeads(s)
    <3>1. Misses(HeaderLeads(t), restarts, flag) = Misses(HeaderLeads(s), restarts, flag)
      BY <2>2 DEF Misses
    <3> QED BY <1>2, <1>3, <3>1, DataGrows DEF Within
  <2>3. CASE ~(HeaderLeads(t) <=> HeaderLeads(s))
    <3>1. Cardinality(DataUpTo(t, pos)) = 0
      BY <1>2, <1>3, <2>3, DataGrows
    <3> QED BY <2>1, <3>1 DEF Within
  <2> QED BY <2>2, <2>3
<1>4. /\ parser[q].pos \in Nat /\ parser[q].pos <= Len(s) /\ parser[q].rows \in Seq(RowRecord)
      /\ saved[q].pos \in Nat /\ saved[q].pos <= Len(s) /\ saved[q].rows \in Seq(RowRecord)
      /\ Flag(parser[q].headerSkipped) \in {0, 1}
  BY <1>1, FlagBit DEF ParserTypes, ParserState, SavedState
<1> QED BY <1>1, <1>2, <1>3, <1>4, DataGrows DEF CountInv

LEMMA CountTake ==
  ASSUME LoaderTypes, ParserTypes, CountInv, UNCHANGED loaderVars,
         NEW q \in Partitions, ParserTakes(q)
  PROVE  CountInv'
<1>1. topic' = topic
  BY DEF loaderVars
<1>2. /\ job' = job /\ saved' = saved /\ restarts' = restarts
      /\ \A r \in Partitions : r # q => parser'[r] = parser[r]
      /\ parser'[q].pos = parser[q].pos + 1
      /\ parser[q].pos < Len(topic[q])
      /\ Csv!Line(q) \in LineNumbers /\ Csv!RowNumber(q) \in Nat
      /\ NoRow(q) \/ TakenForHeader(q) \/ RowAdded(q)
  BY LineTaken
<1>3. PICK pos \in Nat, rows \in Seq(RowRecord), skipped \in BOOLEAN :
        pos = parser[q].pos /\ rows = parser[q].rows /\ skipped = parser[q].headerSkipped
  BY DEF ParserTypes, ParserState
<1>4. PICK rows2 \in Seq(RowRecord), skipped2 \in BOOLEAN :
        rows2 = parser'[q].rows /\ skipped2 = parser'[q].headerSkipped
  BY LineTaken DEF ParserState
<1>5. PICK t \in Seq(LineNumbers) : t = topic[q]
  BY BuffersOfTypes
<1>6. Csv!Line(q) = t[pos + 1] /\ pos + 1 <= Len(t)
  BY <1>2, <1>3, <1>5 DEF Csv!Line
<1> DEFINE leads == HeaderLeads(t)
           f == Flag(skipped)
           f2 == Flag(skipped2)
           c == Cardinality(DataUpTo(t, pos))
<1>7. /\ c <= Len(rows) + Misses(leads, restarts, f)
      /\ job.hasHeader /\ restarts = 0 /\ ~skipped => BlankUpTo(t, pos)
  BY <1>3, <1>5 DEF CountInv, Within
<1>8. SUFFICES /\ Within(t, pos + 1, rows2, Misses(leads, restarts, f2))
               /\ job.hasHeader /\ restarts = 0 /\ ~skipped2 => BlankUpTo(t, pos + 1)
  <2>1. ASSUME NEW r \in Partitions, r # q
        PROVE  topic'[r] = topic[r] /\ parser'[r] = parser[r] /\ saved'[r] = saved[r]
    BY <1>1, <1>2, <2>1
  <2>2. job' = job /\ restarts' = restarts
    BY <1>2
  <2>3. \A b \in BOOLEAN, n \in Nat, g \in {0, 1} : Misses(b, n, g)' = Misses(b, n, g)
    BY <2>2 DEF Misses
  <2> QED BY <1>1, <1>2, <1>3, <1>4, <1>5, <1>8, <2>1, <2>2 DEF CountInv, Misses
<1>9. /\ c \in Nat /\ restarts \in Nat /\ Len(rows) \in Nat
      /\ Cardinality(DataUpTo(t, pos + 1)) = c + (IF Kind[t[pos + 1]] = "row" THEN 1 ELSE 0)
  <2>1. /\ c \in Nat
        /\ Cardinality(DataUpTo(t, pos + 1)) = c + (IF Kind[t[pos + 1]] = "row" THEN 1 ELSE 0)
    BY DataCount, Zenon
  <2>2. restarts \in Nat
    BY DEF ParserTypes
  <2>3. Len(rows) \in Nat
    BY LenProperties
  <2> QED BY <2>1, <2>2, <2>3, Zenon
<1>10. f \in {0, 1} /\ f2 \in {0, 1} /\ (skipped <=> f = 1) /\ (skipped2 <=> f2 = 1)
  BY FlagBit
<1>11. Misses(leads, restarts, f) \in Nat /\ Misses(leads, restarts, f2) \in Nat
  BY <1>9, <1>10, MissesNat DEF HeaderLeads
<1> HIDE DEF c, f, f2, leads
<1>12. CASE NoRow(q)
  <2>1. rows2 = rows /\ f2 = f /\ Kind[t[pos + 1]] # "row"
        /\ (Csv!PastHeader(q) \/ Kind[t[pos + 1]] = "blank")
    BY <1>3, <1>4, <1>6, <1>12 DEF NoRow, f, f2
  <2>2. ASSUME job.hasHeader, restarts = 0, ~skipped2
        PROVE  BlankUpTo(t, pos + 1)
    <3>1. ~skipped /\ ~Csv!PastHeader(q)
      BY <1>3, <1>10, <2>1, <2>2 DEF Csv!PastHeader
    <3>2. \A i \in 1 .. pos + 1 : i \in 1 .. pos \/ i = pos + 1
      OBVIOUS
    <3> QED BY <1>7, <2>1, <2>2, <3>1, <3>2 DEF BlankUpTo
  <2> QED BY <1>7, <1>9, <2>1, <2>2 DEF Within
<1>13. CASE TakenForHeader(q)
  <2>1. rows2 = rows /\ f = 0 /\ f2 = 1 /\ Kind[t[pos + 1]] # "blank" /\ job.hasHeader
        /\ ~skipped
    BY <1>3, <1>4, <1>6, <1>10, <1>13 DEF TakenForHeader
  <2>2. CASE leads /\ restarts = 0
    <3>1. Kind[t[pos + 1]] # "row"
      BY <1>6, <1>7, <2>1, <2>2, FirstIsHeader DEF leads
    <3>2. Misses(leads, restarts, f) = 0 /\ Misses(leads, restarts, f2) = 0
      BY <2>1, <2>2 DEF Misses
    <3>3. Cardinality(DataUpTo(t, pos + 1)) <= Len(rows2) + Misses(leads, restarts, f2)
      BY <1>7, <1>9, <2>1, <3>1, <3>2
    <3> QED BY <1>10, <2>1, <3>3 DEF Within
  <2>3. CASE ~(leads /\ restarts = 0)
    <3>1. Misses(leads, restarts, f2) = Misses(leads, restarts, f) + 1
      BY <1>9, <2>1, <2>3 DEF Misses
    <3>2. Cardinality(DataUpTo(t, pos + 1)) <= c + 1
      BY <1>9
    <3>3. Cardinality(DataUpTo(t, pos + 1)) \in Nat
      BY <1>9
    <3>4. Cardinality(DataUpTo(t, pos + 1)) <= Len(rows2) + Misses(leads, restarts, f2)
      BY <1>7, <1>9, <1>11, <2>1, <3>1, <3>2, <3>3
    <3> QED BY <1>10, <2>1, <3>4 DEF Within
  <2> QED BY <2>2, <2>3
<1>14. CASE RowAdded(q)
  <2>1. f2 = f /\ Len(rows2) = Len(rows) + 1
    BY <1>2, <1>3, <1>4, <1>14 DEF RowAdded, f, f2
  <2>2. ~(job.hasHeader /\ ~skipped2)
    BY <1>3, <1>4, <1>14 DEF RowAdded, Csv!PastHeader
  <2>3. Cardinality(DataUpTo(t, pos + 1)) <= Len(rows2) + Misses(leads, restarts, f2)
    BY <1>7, <1>9, <1>11, <2>1
  <2> QED BY <2>2, <2>3 DEF Within
<1> QED BY <1>2, <1>12, <1>13, <1>14

LEMMA CountStep ==
  ASSUME LoaderTypes, ParserTypes, CountInv, IngestionNext
  PROVE  CountInv'
<1>1. CASE Load /\ UNCHANGED parserVars
  BY <1>1, CountLoad
<1>2. CASE Csv!Parse /\ UNCHANGED loaderVars
  <2>1. topic' = topic
    BY <1>2 DEF loaderVars
  <2>2. restarts \in Nat
    BY DEF ParserTypes
  \* A parser misses no more than one whose header has been taken.
  <2>3. ASSUME NEW q \in Partitions
        PROVE  Within(topic[q], parser[q].pos, parser[q].rows,
                      Misses(HeaderLeads(topic[q]), restarts, 1))
    <3>1. PICK f \in {0, 1}, f1 \in {1} : f = Flag(parser[q].headerSkipped) /\ f1 = 1
      BY FlagBit DEF ParserTypes, ParserState
    <3>2. PICK b : b = HeaderLeads(topic[q])
      OBVIOUS
    <3>3. /\ Misses(b, restarts, f) \in Nat /\ Misses(b, restarts, f1) \in Nat
          /\ Misses(b, restarts, f) <= Misses(b, restarts, f1)
      BY <2>2, <3>1 DEF Misses
    <3>4. Cardinality(DataUpTo(topic[q], parser[q].pos)) \in Nat /\ Len(parser[q].rows) \in Nat
      BY DataCount DEF ParserTypes, ParserState
    <3>5. Within(topic[q], parser[q].pos, parser[q].rows, Misses(b, restarts, f))
      BY <3>1, <3>2 DEF CountInv
    <3>6. Within(topic[q], parser[q].pos, parser[q].rows, Misses(b, restarts, f1))
      BY <3>3, <3>4, <3>5 DEF Within
    <3> QED BY <3>1, <3>2, <3>6
  <2>4. CASE Csv!Checkpoint
    <3>1. job' = job /\ parser' = parser /\ restarts' = restarts
          /\ \A q \in Partitions : saved'[q].pos = parser[q].pos /\ saved'[q].rows = parser[q].rows
      BY <2>4, CheckpointTaken
    <3> QED BY <2>1, <2>3, <3>1 DEF CountInv, Misses
  <2>5. CASE Csv!Recover
    <3>1. job' = job /\ saved' = saved /\ restarts' = restarts + 1
          /\ \A q \in Partitions : /\ parser'[q].pos = saved[q].pos
                                   /\ parser'[q].rows = saved[q].rows
                                   /\ parser'[q].headerSkipped = FALSE
      BY <2>5, Recovered
    <3>2. ASSUME NEW q \in Partitions
          PROVE  /\ Within(topic[q], saved[q].pos, saved[q].rows,
                           Misses(HeaderLeads(topic[q]), restarts + 1, 0))
                 /\ Within(topic[q], saved[q].pos, saved[q].rows,
                           Misses(HeaderLeads(topic[q]), restarts + 1, 1))
      <4>1. PICK b : b = HeaderLeads(topic[q])
        OBVIOUS
      <4>2. PICK m0, m1, m2 : m0 = Misses(b, restarts, 1) /\ m1 = Misses(b, restarts + 1, 0)
                              /\ m2 = Misses(b, restarts + 1, 1)
        OBVIOUS
      <4>3. m0 \in Nat /\ m1 \in Nat /\ m2 \in Nat /\ m0 <= m1 /\ m0 <= m2
        BY <2>2, <4>2 DEF Misses
      <4>4. Cardinality(DataUpTo(topic[q], saved[q].pos)) \in Nat /\ Len(saved[q].rows) \in Nat
        BY DataCount DEF ParserTypes, SavedState
      <4>5. Within(topic[q], saved[q].pos, saved[q].rows, m0)
        BY <4>1, <4>2 DEF CountInv
      <4>6. /\ Within(topic[q], saved[q].pos, saved[q].rows, m1)
            /\ Within(topic[q], saved[q].pos, saved[q].rows, m2)
        BY <4>3, <4>4, <4>5 DEF Within
      <4> QED BY <4>1, <4>2, <4>6
    <3>3. restarts' # 0
      BY <2>2, <3>1
    <3>4. Flag(FALSE) = 0
      BY DEF Flag
    <3> QED BY <2>1, <3>1, <3>2, <3>3, <3>4 DEF CountInv, Misses
  <2> QED BY <1>2, <2>4, <2>5, CountTake, ParseCases
<1> QED BY <1>1, <1>2 DEF IngestionNext

(***************************************************************************)
(* Theorems.                                                               *)
(***************************************************************************)

IngestionInv ==
  LoaderTypes /\ CoverInv /\ OrderInv /\ ParserTypes /\ NumberInv /\ CountInv

LEMMA IngestionStart == IngestionInit => IngestionInv
<1> SUFFICES ASSUME IngestionInit PROVE IngestionInv
  OBVIOUS
<1>1. LoaderInit /\ LoaderTypes /\ ParserTypes /\ NumberInv /\ CountInv
  BY LoaderTypesStart, ParserTypesStart, NumberStart, CountStart DEF IngestionInit
<1>2. /\ totalRead = 0 /\ skipLines = 0 /\ offset = -1 /\ Mark = 0
      /\ \A q \in Partitions : topic[q] = <<>> /\ buffer[q] = <<>>
  <2>1. running = FALSE /\ offset = NoOffset
    BY <1>1 DEF LoaderInit
  <2>2. Mark = 0
    BY <2>1, Zenon DEF Mark
  <2> QED BY <1>1, <2>2 DEF LoaderInit, NoOffset
<1>3. CoverInv
  BY <1>2 DEF CoverInv
<1>4. \A q \in Partitions : Sent(q) = <<>>
  <2>1. <<>> \in Seq(LineNumbers) /\ <<>> \o <<>> = <<>>
    BY EmptySeq, ConcatEmptySeq
  <2> QED BY <1>2, <2>1 DEF Sent
<1>5. ToSet(<<>>) = {} /\ Len(<<>>) = 0
  <2>1. <<>> \in Seq(LineNumbers) /\ Len(<<>>) = 0
    BY EmptySeq
  <2>2. PICK e \in Seq(LineNumbers) : e = <<>> /\ Len(e) = 0
    BY <2>1
  <2>3. \A x : x \in ToSet(e) <=> \E i \in 1 .. Len(e) : e[i] = x
    BY InSequence
  <2>4. ToSet(e) = {}
    BY <2>2, <2>3
  <2> QED BY <2>2, <2>4
<1>6. OrderInv
  BY <1>2, <1>4, <1>5 DEF OrderInv, Increasing
<1> QED BY <1>1, <1>3, <1>6 DEF IngestionInv

LEMMA IngestionStep == IngestionInv /\ [IngestionNext]_ingestionVars => IngestionInv'
<1> SUFFICES ASSUME IngestionInv, [IngestionNext]_ingestionVars
             PROVE  IngestionInv'
  OBVIOUS
<1>1. LoaderTypes /\ CoverInv /\ OrderInv /\ ParserTypes /\ NumberInv /\ CountInv
  BY DEF IngestionInv
<1>2. CASE IngestionNext
  <2>1. ParserTypes' /\ NumberInv' /\ CountInv'
    BY <1>1, <1>2, ParserTypesStep, NumberStep, CountStep
  <2>2. LoaderTypes' /\ CoverInv' /\ OrderInv'
    <3>1. CASE Load
      BY <1>1, <3>1, LoaderTypesStep, CoverStep, OrderStep
    <3>2. CASE UNCHANGED loaderVars
      BY <1>1, <3>2
      DEF loaderVars, runVars, LoaderTypes, CoverInv, Reached, Sent, OrderInv, Mark
    <3> QED BY <1>2, <3>1, <3>2 DEF IngestionNext
  <2> QED BY <2>1, <2>2 DEF IngestionInv
<1>3. CASE UNCHANGED ingestionVars
  <2>1. UNCHANGED loaderVars /\ UNCHANGED parserVars
    BY <1>3 DEF ingestionVars
  <2>2. LoaderTypes' /\ CoverInv' /\ OrderInv'
    BY <1>1, <2>1
    DEF loaderVars, runVars, LoaderTypes, CoverInv, Reached, Sent, OrderInv, Mark
  <2>3. ParserTypes' /\ NumberInv' /\ CountInv'
    BY <1>1, <2>1
    DEF loaderVars, runVars, parserVars, ParserTypes, NumberInv, CountInv, Misses
  <2> QED BY <2>2, <2>3 DEF IngestionInv
<1> QED BY <1>2, <1>3

LEMMA IngestionInductive == IngestionSpec => []IngestionInv
BY IngestionStart, IngestionStep, PTL DEF IngestionSpec

\* Whatever was killed and whichever notes failed, a line that a later run of
\* the loader would skip is in the topic, on its way there, or was lost in the
\* producer (FileToKafkaProducer:89).
THEOREM NothingSkippedUnsent == IngestionSpec => []SkippedWereSent
<1>1. IngestionInv => SkippedWereSent
  BY DEF IngestionInv, CoverInv, Reached, SkippedWereSent
<1> QED BY <1>1, IngestionInductive, PTL

\* Undisturbed, the loader's runs together send every line once and in order,
\* over any number of resumed runs and read errors.
THEOREM OnceInOrder == IngestionSpec => []SentOnceInOrder
<1>1. ASSUME IngestionInv, ~disturbed
      PROVE  /\ \A q \in Partitions : \A i, j \in DOMAIN Sent(q) :
                  i < j => Sent(q)[i] < Sent(q)[j]
             /\ \A q, r \in Partitions : q # r => ToSet(Sent(q)) \cap ToSet(Sent(r)) = {}
             /\ running => 1 .. totalRead \subseteq UNION {ToSet(Sent(q)) : q \in Partitions}
  <2>1. LoaderTypes /\ OrderInv
    BY <1>1 DEF IngestionInv
  <2>2. \A q \in Partitions : DOMAIN Sent(q) = 1 .. Len(Sent(q))
    BY <2>1, BuffersOfTypes, LenProperties
  <2>3. \A q \in Partitions : Increasing(Sent(q))
    BY <1>1, <2>1 DEF OrderInv
  <2>4. ASSUME running, NEW line \in 1 .. totalRead
        PROVE  \E q \in Partitions : line \in ToSet(Sent(q))
    <3>1. Mark = IF totalRead < skipLines THEN skipLines ELSE totalRead
      BY <2>4, Zenon DEF Mark
    <3>2. line \in 1 .. Mark
      BY <2>1, <2>4, <3>1 DEF LoaderTypes
    <3> QED BY <1>1, <2>1, <3>2 DEF OrderInv
  <2> QED BY <1>1, <2>1, <2>2, <2>3, <2>4 DEF OrderInv, Increasing
<1>2. IngestionInv => SentOnceInOrder
  BY <1>1 DEF SentOnceInOrder
<1> QED BY <1>2, IngestionInductive, PTL

\* The numbers of a parser's rows increase, and it loses no more data lines
\* than starts of it may take for the header.
THEOREM RowsArrive == IngestionSpec => []RowsSurvive
<1>1. ASSUME IngestionInv, NEW q \in Partitions
      PROVE  (job.ids = "column" /\ ~disturbed) \/ (job.ids = "auto" /\ restarts = 0) =>
               \A i, j \in DOMAIN Rows(q) : i < j => Rows(q)[i].number < Rows(q)[j].number
  <2>1. PICK rows \in Seq(RowRecord) : rows = Rows(q)
    BY <1>1 DEF IngestionInv, ParserTypes, ParserState, Rows
  <2>2. DOMAIN rows = 1 .. Len(rows)
    OBVIOUS
  <2>3. CASE job.ids = "column" /\ ~disturbed
    BY <1>1, <2>1, <2>2, <2>3 DEF IngestionInv, NumberInv, Rows, InOrder, Numbered
  <2>4. CASE job.ids = "auto" /\ restarts = 0
    BY <1>1, <2>1, <2>2, <2>4 DEF IngestionInv, NumberInv, Rows, Counted
  <2> QED BY <2>3, <2>4
<1>2. ASSUME IngestionInv, NEW q \in Partitions
      PROVE  LET headers == IF ~job.hasHeader THEN 0
                            ELSE IF HeaderFirst(q) THEN restarts
                            ELSE restarts + 1
             IN  Cardinality(DataRead(q)) <= Len(Rows(q)) + headers
  <2>1. LoaderTypes /\ ParserTypes /\ restarts \in Nat
    BY <1>2 DEF IngestionInv, ParserTypes
  <2>2. DOMAIN topic[q] = 1 .. Len(topic[q])
    BY <2>1, BuffersOfTypes, LenProperties
  <2>3. HeaderFirst(q) <=> HeaderLeads(topic[q])
    BY <2>2 DEF HeaderFirst, HeaderLeads
  <2>4. PICK f \in {0, 1} : f = Flag(parser[q].headerSkipped)
    BY <2>1, FlagBit DEF ParserTypes, ParserState
  <2>5a. PICK c \in Nat, n \in Nat : /\ c = Cardinality(DataUpTo(topic[q], parser[q].pos))
                                   /\ n = Len(parser[q].rows)
    BY <2>1, DataCount DEF ParserTypes, ParserState
  <2>5b. PICK m : m = Misses(HeaderLeads(topic[q]), restarts, f)
    OBVIOUS
  <2>5. c \in Nat /\ n \in Nat /\ c = Cardinality(DataUpTo(topic[q], parser[q].pos))
        /\ n = Len(parser[q].rows) /\ m = Misses(HeaderLeads(topic[q]), restarts, f)
    BY <2>5a, <2>5b
  <2>6. c <= n + m
    BY <1>2, <2>4, <2>5 DEF IngestionInv, CountInv, Within
  <2>7. DataRead(q) = DataUpTo(topic[q], parser[q].pos)
    BY DEF DataRead, DataUpTo
  <2>8. m \in Nat /\ m <= IF ~job.hasHeader THEN 0
                          ELSE IF HeaderFirst(q) THEN restarts
                          ELSE restarts + 1
    BY <2>1, <2>3, <2>5 DEF Misses
  <2>9. PICK k : k = IF ~job.hasHeader THEN 0
                     ELSE IF HeaderFirst(q) THEN restarts
                     ELSE restarts + 1
    OBVIOUS
  <2>10. c <= n + k
    <3>1. k \in Nat /\ m \in Nat /\ m <= k
      BY <2>1, <2>8, <2>9
    <3> QED BY <2>6, <3>1
  <2> QED BY <2>5, <2>7, <2>9, <2>10 DEF Rows
<1>3. IngestionInv => RowsSurvive
  BY <1>1, <1>2 DEF RowsSurvive, NumbersIncrease, OneRowLostPerStart
<1> QED BY <1>3, IngestionInductive, PTL

(***************************************************************************)
(* The keys of the scoring subtasks.                                       *)
(***************************************************************************)
Keyed == {i \in Subtasks : keys[i] # 0}

\* A subtask has a key when, and only when, one of the candidates tried went
\* there, and `filled` counts these subtasks.
KeysInv ==
  /\ keys \in [Subtasks -> 0 .. counter]
  /\ routes \in Seq(Subtasks) /\ Len(routes) = counter /\ counter \in Nat
  /\ \A i \in Subtasks : keys[i] # 0 => routes[keys[i]] = i
  /\ \A c \in 1 .. counter : keys[routes[c]] # 0
  /\ filled = Cardinality(Keyed)

LEMMA SubtaskCount ==
  IsFiniteSet(Subtasks) /\ Cardinality(Subtasks) = Parallelism
<1>1. Parallelism \in Nat /\ Parallelism > 0
  BY KeysAssumption
<1> QED BY <1>1, FS_Interval DEF Subtasks

LEMMA KeysInvInit == KeysInit => KeysInv
<1> SUFFICES ASSUME KeysInit PROVE KeysInv
  OBVIOUS
<1>1. Keyed = {} /\ counter = 0 /\ routes = <<>>
  BY DEF KeysInit, Keyed
<1>2. filled = Cardinality(Keyed)
  BY <1>1, FS_EmptySet DEF KeysInit
<1>3. keys \in [Subtasks -> 0 .. counter] /\ \A i \in Subtasks : keys[i] = 0
  BY DEF KeysInit
<1> QED BY <1>1, <1>2, <1>3 DEF KeysInv

LEMMA KeysInvNext == KeysInv /\ [KeysNext]_keyVars => KeysInv'
<1> SUFFICES ASSUME KeysInv, [KeysNext]_keyVars PROVE KeysInv'
  OBVIOUS
<1>1. CASE UNCHANGED keyVars
  BY <1>1 DEF KeysInv, keyVars, Keyed
<1>2. CASE KeysNext
  <2>1. PICK s \in Subtasks : TryCandidate(s)
    BY <1>2 DEF KeysNext
  <2>2. counter' = counter + 1 /\ counter' \in Nat /\ counter \in Nat /\ routes' = Append(routes, s)
    BY <2>1 DEF TryCandidate, KeysInv
  <2>3. /\ routes' \in Seq(Subtasks) /\ Len(routes') = counter'
        /\ \A c \in 1 .. counter : routes'[c] = routes[c] /\ routes[c] \in Subtasks
        /\ routes'[counter'] = s
    BY <2>2, AppendProperties, ElementOfSeq DEF KeysInv
  <2>4. /\ IsFiniteSet(Keyed) /\ Keyed \subseteq Subtasks
        /\ keys \in [Subtasks -> 0 .. counter]
    BY SubtaskCount, FS_Subset DEF Keyed, KeysInv
  <2>5. CASE keys[s] = 0
    <3>1. keys' = [keys EXCEPT ![s] = counter'] /\ filled' = filled + 1
      BY <2>1, <2>5 DEF TryCandidate, Keep
    <3>2. Keyed' = Keyed \cup {s} /\ s \notin Keyed
      BY <2>2, <2>4, <2>5, <3>1 DEF Keyed
    <3>3. filled' = Cardinality(Keyed')
      BY <2>4, <3>1, <3>2, FS_AddElement DEF KeysInv
    <3>4. keys' \in [Subtasks -> 0 .. counter']
      BY <2>2, <2>4, <3>1
    <3>5. ASSUME NEW i \in Subtasks, keys'[i] # 0 PROVE routes'[keys'[i]] = i
      <4>1. CASE i = s
        BY <2>3, <2>4, <3>1, <4>1
      <4>2. CASE i # s
        <5>1. keys'[i] = keys[i] /\ keys[i] \in 1 .. counter
          BY <2>2, <2>4, <3>1, <3>5, <4>2
        <5> QED BY <2>3, <3>5, <5>1 DEF KeysInv
      <4> QED BY <4>1, <4>2
    <3>6. ASSUME NEW c \in 1 .. counter' PROVE keys'[routes'[c]] # 0
      <4>1. CASE c = counter'
        BY <2>2, <2>3, <2>4, <3>1, <4>1
      <4>2. CASE c # counter'
        <5>1. c \in 1 .. counter
          BY <2>2, <4>2
        <5> QED BY <2>2, <2>3, <2>4, <3>1, <5>1 DEF KeysInv
      <4> QED BY <4>1, <4>2
    <3> QED BY <2>2, <2>3, <3>3, <3>4, <3>5, <3>6 DEF KeysInv
  <2>6. CASE keys[s] # 0
    <3>1. UNCHANGED <<keys, filled>> /\ Keyed' = Keyed
      BY <2>1, <2>6 DEF TryCandidate, Keep, Keyed
    <3>2. keys' \in [Subtasks -> 0 .. counter']
      BY <2>2, <2>4, <3>1
    <3>3. ASSUME NEW i \in Subtasks, keys'[i] # 0 PROVE routes'[keys'[i]] = i
      <4>1. keys[i] \in 1 .. counter
        BY <2>2, <2>4, <3>1, <3>3
      <4> QED BY <2>3, <3>1, <3>3, <4>1 DEF KeysInv
    <3>4. ASSUME NEW c \in 1 .. counter' PROVE keys'[routes'[c]] # 0
      <4>1. CASE c = counter'
        BY <2>3, <2>6, <3>1, <4>1
      <4>2. CASE c # counter'
        BY <2>2, <2>3, <3>1, <4>2 DEF KeysInv
      <4> QED BY <4>1, <4>2
    <3> QED BY <2>2, <2>3, <3>1, <3>2, <3>3, <3>4 DEF KeysInv
  <2> QED BY <2>5, <2>6
<1> QED BY <1>1, <1>2

LEMMA RemainderIs ==
  ASSUME NEW h \in Nat
  PROVE  h % Parallelism \in Subtasks /\ (h \in Subtasks => h % Parallelism = h)
BY KeysAssumption DEF Subtasks

LEMMA IndexIs ==
  ASSUME NEW h \in Hashes
  PROVE  Index(h) \in Subtasks /\ (h \in Subtasks => Index(h) = h)
<1>1. /\ Parallelism \in Nat /\ Parallelism > 0 /\ IntRange \in Nat
      /\ Parallelism < IntRange
  BY KeysAssumption
<1>2. h \in Int
  BY <1>1 DEF Hashes
<1>3. CASE h < 0
  <2>1. -h \in Nat
    BY <1>2, <1>3
  <2> DEFINE m == (-h) % Parallelism
  <2>2. m \in Int /\ 0 <= m /\ m < Parallelism
    BY <1>1, <2>1, RemainderIs DEF Subtasks
  <2>3. Rem(h) = -m
    BY <1>3 DEF Rem
  <2> HIDE DEF m
  <2>4. Index(h) = m
    BY <1>1, <2>2, <2>3 DEF Index, Abs
  <2> QED BY <1>1, <1>2, <1>3, <2>2, <2>4 DEF Subtasks
<1>4. CASE ~(h < 0)
  <2>1. h \in Nat
    BY <1>2, <1>4
  <2> DEFINE m == h % Parallelism
  <2>2. m \in Subtasks /\ (h \in Subtasks => m = h)
    BY <2>1, RemainderIs
  <2>3. Rem(h) = m
    BY <1>4 DEF Rem
  <2> HIDE DEF m
  <2>4. Index(h) = m
    BY <1>1, <2>2, <2>3 DEF Index, Abs, Subtasks
  <2> QED BY <2>2, <2>4
<1> QED BY <1>3, <1>4

LEMMA FoundKeysReach == KeysInv => RowsReachSubtasks
<1> SUFFICES ASSUME KeysInv, Returned PROVE RowsReachSubtasks!2
  BY DEF RowsReachSubtasks
<1>1. Keyed \subseteq Subtasks /\ Cardinality(Keyed) = Cardinality(Subtasks)
  BY SubtaskCount DEF Keyed, KeysInv, Returned
<1>2. Keyed = Subtasks
  BY <1>1, SubtaskCount, FS_Subset
<1>3. ASSUME NEW i \in Subtasks
      PROVE  keys[i] \in DOMAIN routes /\ routes[keys[i]] = i
  <2>1. keys[i] # 0
    BY <1>2 DEF Keyed
  <2>2. DOMAIN routes = 1 .. counter
    BY LenProperties DEF KeysInv
  <2> QED BY <2>1, <2>2 DEF KeysInv
<1>4. ASSUME NEW h \in Hashes
      PROVE  Index(h) \in Subtasks /\ keys[Index(h)] \in DOMAIN routes /\ Scorer(h) = Index(h)
  BY <1>3, IndexIs DEF Scorer
<1>5. ASSUME NEW i \in Subtasks PROVE \E h \in Hashes : Scorer(h) = i
  <2>1. i \in Hashes
    BY KeysAssumption DEF Subtasks, Hashes
  <2> QED BY <1>4, <2>1, IndexIs
<1> QED BY <1>4, <1>5

LEMMA NoKeyNoRoute == KeysInv => GivesUpInVain
<1> SUFFICES ASSUME KeysInv, GaveUp
             PROVE  \E i \in Subtasks : \A c \in DOMAIN routes : routes[c] # i
  BY DEF GivesUpInVain
<1>1. Keyed # Subtasks
  BY SubtaskCount, KeysAssumption DEF KeysInv, GaveUp
<1>2. PICK i \in Subtasks : keys[i] = 0
  BY <1>1 DEF Keyed
<1>3. DOMAIN routes = 1 .. counter
  BY LenProperties DEF KeysInv
<1> QED BY <1>2, <1>3 DEF KeysInv

\* For every number of subtasks, every hash of the candidates and every hash
\* code of an id: when generate returns, a row goes to the subtask of its
\* index and every subtask gets rows; when it throws, some subtask is out of
\* reach of the candidates.
THEOREM KeysAreRight == KeysSpec => []KeysAreSound
<1>1. KeysSpec => []KeysInv
  BY KeysInvInit, KeysInvNext, PTL DEF KeysSpec
<1>2. KeysInv => KeysAreSound
  BY FoundKeysReach, NoKeyNoRoute DEF KeysAreSound
<1> QED BY <1>1, <1>2, PTL
=============================================================================
