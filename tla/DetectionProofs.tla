-------------------------- MODULE DetectionProofs --------------------------
(***************************************************************************)
(* Proofs about the detection side.  First its statistic: the treap of     *)
(* IKSWindow stays exact, for every length of the windows and every        *)
(* sequence of observations, random numbers and rebases.  Then             *)
(* the composition Detection: when rows have consecutive numbers the       *)
(* detectors and the topic are the environment that DriftAggregator        *)
(* assumes, so the composition implements it.                              *)
(***************************************************************************)
EXTENDS Detection, IKSWindow, FiniteSetTheorems, SequenceTheorems,
        WellFoundedInduction, NaturalsInduction, TLAPS

LEMMA LeastNumber ==
  ASSUME NEW S \in SUBSET Nat, S # {}
  PROVE  \E x \in S : \A y \in S : x <= y
<1>1. IsWellFoundedOn(OpToRel(<, Nat), Nat)
  BY NatLessThanWellFounded
<1>2. PICK x \in S : \A y \in S : ~(<<y, x>> \in OpToRel(<, Nat))
  BY <1>1, WFMin
<1>3. \A y \in S : ~(y < x)
  BY <1>2 DEF OpToRel
<1> QED
  BY <1>3

(***************************************************************************)
(* Trees level by level.                                                   *)
(***************************************************************************)
LevelsUpTo(f, n) ==
  f = [h \in 0 .. n |-> IF h = 0 THEN {None} ELSE {None} \cup Node(f[h - 1])]

LEMMA LevelsExist ==
  ASSUME NEW n \in Nat
  PROVE  \E f : LevelsUpTo(f, n)
<1> DEFINE bad == {m \in Nat : ~\E f : LevelsUpTo(f, m)}
<1>1. SUFFICES ASSUME bad # {} PROVE FALSE
  OBVIOUS
<1>2. PICK m \in bad : \A k \in bad : m <= k
  BY <1>1, LeastNumber
<1>3. m # 0
  <2> DEFINE f == [h \in 0 .. 0 |-> {None}]
  <2>1. LevelsUpTo(f, 0)
    BY DEF LevelsUpTo
  <2> QED BY <2>1, <1>2
<1>4. PICK g : LevelsUpTo(g, m - 1)
  BY <1>2, <1>3
<1> DEFINE f == [h \in 0 .. m |-> IF h = 0 THEN {None} ELSE {None} \cup Node(g[h - 1])]
<1>5. ASSUME NEW h \in 0 .. m - 1 PROVE f[h] = g[h]
  <2>1. g[h] = IF h = 0 THEN {None} ELSE {None} \cup Node(g[h - 1])
    BY <1>4, Zenon DEF LevelsUpTo
  <2>2. h \in 0 .. m
    BY m \in Nat
  <2>3. f[h] = IF h = 0 THEN {None} ELSE {None} \cup Node(g[h - 1])
    BY <2>2, Zenon
  <2> QED BY <2>1, <2>3
<1>6. LevelsUpTo(f, m)
  <2>1. ASSUME NEW h \in 0 .. m
        PROVE  f[h] = IF h = 0 THEN {None} ELSE {None} \cup Node(f[h - 1])
    <3>1. CASE h = 0
      BY <3>1
    <3>2. CASE h # 0
      <4>1. h - 1 \in 0 .. m - 1
        BY <3>2
      <4>2. f[h - 1] = g[h - 1]
        BY <4>1, <1>5
      <4> QED BY <3>2, <4>2
    <3> QED BY <3>1, <3>2
  <2> QED BY <2>1 DEF LevelsUpTo
<1> QED BY <1>2, <1>6

LEMMA Sizes == MaxNodes \in Nat /\ Length \in Nat /\ Length > 0 /\ MaxNodes = 2 * Length
BY WindowAssumption DEF MaxNodes

LEMMA LevelsAre ==
  /\ Levels[0] = {None}
  /\ \A h \in 1 .. MaxNodes : Levels[h] = {None} \cup Node(Levels[h - 1])
<1>1. LevelsUpTo(Levels, MaxNodes)
  BY Sizes, LevelsExist DEF LevelsUpTo, Levels
<1>2. ASSUME NEW h \in 0 .. MaxNodes
      PROVE  Levels[h] = IF h = 0 THEN {None} ELSE {None} \cup Node(Levels[h - 1])
  BY <1>1, Zenon DEF LevelsUpTo
<1>3. Levels[0] = {None}
  <2>1. 0 \in 0 .. MaxNodes
    BY Sizes
  <2> QED BY <1>2, <2>1, Zenon
<1>4. ASSUME NEW h \in 1 .. MaxNodes PROVE Levels[h] = {None} \cup Node(Levels[h - 1])
  <2>1. h \in 0 .. MaxNodes /\ h # 0
    BY <1>4
  <2> QED BY <1>2, <2>1, Zenon
<1> QED BY <1>3, <1>4, Zenon

LEMMA NodeFields ==
  ASSUME NEW S, NEW t \in Node(S)
  PROVE  /\ t # None
         /\ t.key \in Key /\ t.value \in Int /\ t.priority \in Nat
         /\ t.max \in Int /\ t.min \in Int /\ t.lazy \in Int /\ t.left \in S /\ t.right \in S
<1>1. t # None
  BY DEF Node, None
<1> QED BY <1>1 DEF Node

\* A tree is None or a node with two trees of one level less.
LEMMA LevelCases ==
  ASSUME NEW h \in 0 .. MaxNodes, NEW t \in Levels[h], t # None
  PROVE  h \in 1 .. MaxNodes /\ h - 1 \in 0 .. MaxNodes /\ t \in Node(Levels[h - 1])
<1>1. h # 0
  BY LevelsAre
<1>2. h \in 1 .. MaxNodes /\ h - 1 \in 0 .. MaxNodes
  BY <1>1, Sizes
<1> QED BY <1>2, LevelsAre

LEMMA NoneInLevels ==
  ASSUME NEW h \in 0 .. MaxNodes
  PROVE  None \in Levels[h]
<1>1. CASE h = 0
  BY <1>1, LevelsAre
<1>2. CASE h # 0
  <2>1. h \in 1 .. MaxNodes
    BY <1>2, Sizes
  <2> QED BY <2>1, LevelsAre
<1> QED BY <1>1, <1>2

LEMMA NodeInLevels ==
  ASSUME NEW h \in 0 .. MaxNodes, h # 0, NEW t \in Node(Levels[h - 1])
  PROVE  t \in Levels[h]
<1>1. h \in 1 .. MaxNodes
  BY Sizes
<1> QED BY <1>1, LevelsAre

LEMMA NodeWider ==
  ASSUME NEW S, NEW W, S \subseteq W
  PROVE  Node(S) \subseteq Node(W)
<1> SUFFICES ASSUME NEW t \in Node(S) PROVE t \in Node(W)
  OBVIOUS
<1> QED BY DEF Node

LEMMA LevelsGrow ==
  ASSUME NEW j \in 0 .. MaxNodes, NEW i \in 0 .. j
  PROVE  Levels[i] \subseteq Levels[j]
<1> DEFINE bad == {m \in Nat : m < MaxNodes /\ ~(Levels[m] \subseteq Levels[m + 1])}
<1>1. bad = {}
  <2> SUFFICES ASSUME bad # {} PROVE FALSE
    OBVIOUS
  <2>1. PICK m \in bad : \A k \in bad : m <= k
    BY LeastNumber
  <2>2. m \in 0 .. MaxNodes /\ m + 1 \in 1 .. MaxNodes /\ (m + 1) - 1 = m
    BY <2>1, Sizes
  <2>3. Levels[m + 1] = {None} \cup Node(Levels[m])
    BY <2>2, LevelsAre
  <2>4. CASE m = 0
    BY <2>1, <2>3, <2>4, LevelsAre
  <2>5. CASE m # 0
    <3>1. m \in 1 .. MaxNodes /\ m - 1 \in Nat /\ (m - 1) + 1 = m /\ m - 1 < MaxNodes
      BY <2>2, <2>5, Sizes
    <3>2. Levels[m - 1] \subseteq Levels[m]
      <4>1. m - 1 \notin bad
        BY <2>1, <3>1
      <4> QED BY <3>1, <4>1
    <3>3. Levels[m] = {None} \cup Node(Levels[m - 1])
      BY <3>1, LevelsAre
    <3>4. Node(Levels[m - 1]) \subseteq Node(Levels[m])
      BY <3>2, NodeWider
    <3> QED BY <2>1, <2>3, <3>3, <3>4
  <2> QED BY <2>4, <2>5
<1>2. \A m \in Nat : m < MaxNodes => Levels[m] \subseteq Levels[m + 1]
  BY <1>1
<1> DEFINE far == {m \in Nat : m <= MaxNodes /\ i <= m /\ ~(Levels[i] \subseteq Levels[m])}
<1>3. far = {}
  <2> SUFFICES ASSUME far # {} PROVE FALSE
    OBVIOUS
  <2>1. PICK m \in far : \A k \in far : m <= k
    BY LeastNumber
  <2>2. i \in Nat /\ m # i
    BY <2>1
  <2>3. m - 1 \in Nat /\ m - 1 < MaxNodes /\ i <= m - 1 /\ (m - 1) + 1 = m /\ m - 1 <= MaxNodes
    BY <2>1, <2>2, Sizes
  <2>4. Levels[i] \subseteq Levels[m - 1]
    <3>1. m - 1 \notin far
      BY <2>1, <2>3
    <3> QED BY <2>3, <3>1
  <2>5. Levels[m - 1] \subseteq Levels[m]
    BY <1>2, <2>3
  <2> QED BY <2>1, <2>4, <2>5
<1>4. j \in Nat /\ j <= MaxNodes /\ i <= j
  OBVIOUS
<1>5. j \notin far
  BY <1>3
<1> QED BY <1>4, <1>5

LEMMA InTrees ==
  ASSUME NEW h \in 0 .. MaxNodes
  PROVE  Levels[h] \subseteq Trees
<1>1. MaxNodes \in 0 .. MaxNodes /\ h \in 0 .. MaxNodes
  BY Sizes
<1> QED BY <1>1, LevelsGrow DEF Trees

(***************************************************************************)
(* Sums that are put off.                                                  *)
(***************************************************************************)
LEMMA SumNode ==
  ASSUME NEW S, NEW t \in Node(S), NEW d \in Int
  PROVE  LET s == SumAll(t, d) IN
         /\ s \in Node(S) /\ s # None
         /\ s.key = t.key /\ s.priority = t.priority
         /\ s.value = t.value + d /\ s.max = t.max + d /\ s.min = t.min + d
         /\ s.lazy = t.lazy + d /\ s.left = t.left /\ s.right = t.right
<1> DEFINE s == SumAll(t, d)
<1>1. /\ t # None /\ t.value \in Int /\ t.max \in Int /\ t.min \in Int /\ t.lazy \in Int
      /\ t.key \in Key /\ t.priority \in Nat /\ t.left \in S /\ t.right \in S
  BY NodeFields
<1>2. /\ t.value + d \in Int /\ t.max + d \in Int /\ t.min + d \in Int /\ t.lazy + d \in Int
  BY <1>1
<1>3. s = [t EXCEPT !.value = @ + d, !.max = @ + d, !.min = @ + d, !.lazy = @ + d]
  BY <1>1 DEF SumAll
<1>4. s \in Node(S)
  BY <1>1, <1>2, <1>3 DEF Node
<1>5. /\ s.key = t.key /\ s.priority = t.priority
      /\ s.value = t.value + d /\ s.max = t.max + d /\ s.min = t.min + d
      /\ s.lazy = t.lazy + d /\ s.left = t.left /\ s.right = t.right
  BY <1>1, <1>2, <1>3 DEF Node
<1> HIDE DEF s
<1>6. s # None
  BY <1>4, NodeFields
<1> QED BY <1>4, <1>5, <1>6 DEF s

LEMMA SumNone == ASSUME NEW d PROVE SumAll(None, d) = None
BY DEF SumAll

LEMMA SumLevel ==
  ASSUME NEW h \in 0 .. MaxNodes, NEW t \in Levels[h], NEW d \in Int
  PROVE  SumAll(t, d) \in Levels[h] /\ (SumAll(t, d) = None <=> t = None)
<1>1. CASE t = None
  BY <1>1, SumNone
<1>2. CASE t # None
  <2>1. h \in 1 .. MaxNodes /\ t \in Node(Levels[h - 1])
    BY <1>2, LevelCases
  <2>2. SumAll(t, d) \in Node(Levels[h - 1]) /\ SumAll(t, d) # None
    BY <2>1, SumNode
  <2> QED BY <1>2, <2>1, <2>2, LevelsAre
<1> QED BY <1>1, <1>2

\* Two nodes with the same fields are the same.
LEMMA SameNode ==
  ASSUME NEW S, NEW s \in Node(S), NEW t \in Node(S),
         s.key = t.key, s.value = t.value, s.priority = t.priority, s.max = t.max,
         s.min = t.min, s.lazy = t.lazy, s.left = t.left, s.right = t.right
  PROVE  s = t
BY DEF Node

LEMMA SumZero ==
  ASSUME NEW h \in 0 .. MaxNodes, NEW t \in Levels[h]
  PROVE  SumAll(t, 0) = t
<1>1. CASE t = None
  BY <1>1, SumNone
<1>2. CASE t # None
  <2>1. t \in Node(Levels[h - 1])
    BY <1>2, LevelCases
  <2>2. t.value \in Int /\ t.max \in Int /\ t.min \in Int /\ t.lazy \in Int
    BY <2>1, NodeFields
  <2>3. /\ t.value + 0 = t.value /\ t.max + 0 = t.max /\ t.min + 0 = t.min /\ t.lazy + 0 = t.lazy
    BY <2>2
  <2> QED BY <2>1, <2>3, SumNode, SameNode
<1> QED BY <1>1, <1>2

LEMMA SumTwice ==
  ASSUME NEW h \in 0 .. MaxNodes, NEW t \in Levels[h], NEW d \in Int, NEW e \in Int
  PROVE  SumAll(SumAll(t, d), e) = SumAll(t, d + e)
<1>1. CASE t = None
  BY <1>1, SumNone
<1>2. CASE t # None
  <2> DEFINE a == SumAll(t, d)
             b == SumAll(a, e)
             c == SumAll(t, d + e)
  <2>1. t \in Node(Levels[h - 1])
    BY <1>2, LevelCases
  <2>2. t.value \in Int /\ t.max \in Int /\ t.min \in Int /\ t.lazy \in Int
    BY <2>1, NodeFields
  <2>3. /\ (t.value + d) + e = t.value + (d + e) /\ (t.max + d) + e = t.max + (d + e)
        /\ (t.min + d) + e = t.min + (d + e) /\ (t.lazy + d) + e = t.lazy + (d + e)
    BY <2>2
  <2>4. /\ a \in Node(Levels[h - 1])
        /\ a.key = t.key /\ a.priority = t.priority
        /\ a.value = t.value + d /\ a.max = t.max + d /\ a.min = t.min + d
        /\ a.lazy = t.lazy + d /\ a.left = t.left /\ a.right = t.right
    BY <2>1, SumNode
  <2> HIDE DEF a
  <2>a. a \in Node(Levels[h - 1])
    BY <2>4
  <2>5. /\ b \in Node(Levels[h - 1])
        /\ b.key = a.key /\ b.priority = a.priority
        /\ b.value = a.value + e /\ b.max = a.max + e /\ b.min = a.min + e
        /\ b.lazy = a.lazy + e /\ b.left = a.left /\ b.right = a.right
    BY <2>a, SumNode
  <2>6. d + e \in Int
    OBVIOUS
  <2>7. /\ c \in Node(Levels[h - 1])
        /\ c.key = t.key /\ c.priority = t.priority
        /\ c.value = t.value + (d + e) /\ c.max = t.max + (d + e) /\ c.min = t.min + (d + e)
        /\ c.lazy = t.lazy + (d + e) /\ c.left = t.left /\ c.right = t.right
    BY <2>1, <2>6, SumNode
  <2> HIDE DEF b, c
  <2>8. b = c
    BY <2>3, <2>4, <2>5, <2>7, SameNode
  <2> QED BY <2>8 DEF a, b, c
<1> QED BY <1>1, <1>2

(***************************************************************************)
(* The two subtrees of a node, their sums up to date.                      *)
(***************************************************************************)
Lt(t) == Unlazy(t).left
Rt(t) == Unlazy(t).right

UpToDate(u, t, a, b) ==
  /\ u.key = t.key /\ u.priority = t.priority
  /\ u.value = t.value /\ u.max = t.max /\ u.min = t.min /\ u.lazy = 0
  /\ u.left = a /\ u.right = b

LEMMA NodeWith ==
  ASSUME NEW S, NEW t \in Node(S), NEW a \in S, NEW b \in S,
         NEW u, u = [t EXCEPT !.left = a, !.right = b, !.lazy = 0]
  PROVE  u \in Node(S) /\ UpToDate(u, t, a, b)
<1>1. /\ t.value \in Int /\ t.max \in Int /\ t.min \in Int /\ t.lazy \in Int
      /\ t.key \in Key /\ t.priority \in Nat /\ t.left \in S /\ t.right \in S
  BY NodeFields
<1> DEFINE v == [t EXCEPT !.left = a]
           w == [v EXCEPT !.right = b]
<1>a. v \in Node(S)
  BY <1>1 DEF Node
<1>b. w \in Node(S)
  <2> HIDE DEF v
  <2> QED BY <1>a DEF Node
<1>c. u = [w EXCEPT !.lazy = 0]
  OBVIOUS
<1>2. u \in Node(S)
  <2> HIDE DEF w
  <2>1. 0 \in Int
    OBVIOUS
  <2> QED BY <1>b, <1>c, <2>1 DEF Node
<1>3. /\ u.key = t.key /\ u.priority = t.priority
      /\ u.value = t.value /\ u.max = t.max /\ u.min = t.min /\ u.lazy = 0
      /\ u.left = a /\ u.right = b
  BY <1>1 DEF Node
<1> QED BY <1>2, <1>3 DEF UpToDate

LEMMA UnlazyNode ==
  ASSUME NEW h \in 1 .. MaxNodes, NEW t \in Node(Levels[h - 1])
  PROVE  LET u == Unlazy(t) IN
         /\ u \in Node(Levels[h - 1]) /\ u # None
         /\ u.key = t.key /\ u.priority = t.priority
         /\ u.value = t.value /\ u.max = t.max /\ u.min = t.min /\ u.lazy = 0
         /\ u.left = Lt(t) /\ u.right = Rt(t)
         /\ Lt(t) = SumAll(t.left, t.lazy) /\ Rt(t) = SumAll(t.right, t.lazy)
         /\ Lt(t) \in Levels[h - 1] /\ Rt(t) \in Levels[h - 1]
<1> DEFINE S == Levels[h - 1]
           u == Unlazy(t)
           a == SumAll(t.left, t.lazy)
           b == SumAll(t.right, t.lazy)
<1>1. /\ t.value \in Int /\ t.max \in Int /\ t.min \in Int /\ t.lazy \in Int
      /\ t.key \in Key /\ t.priority \in Nat /\ t.left \in S /\ t.right \in S
  BY NodeFields
<1>2. h - 1 \in 0 .. MaxNodes
  BY Sizes
<1>3. a \in S /\ b \in S
  BY <1>1, <1>2, SumLevel
<1>4. t \in Node(S)
  OBVIOUS
<1>5. u = [t EXCEPT !.left = a, !.right = b, !.lazy = 0]
  BY DEF Unlazy
<1> HIDE DEF S, a, b, u
<1>6. u \in Node(S) /\ UpToDate(u, t, a, b)
  BY <1>3, <1>4, <1>5, NodeWith, Zenon
<1>7. /\ u \in Node(S)
      /\ u.key = t.key /\ u.priority = t.priority
      /\ u.value = t.value /\ u.max = t.max /\ u.min = t.min /\ u.lazy = 0
      /\ u.left = a /\ u.right = b
  BY <1>6 DEF UpToDate
<1>8. u # None
  BY <1>7, NodeFields
<1> QED BY <1>3, <1>7, <1>8 DEF S, a, b, u, Lt, Rt

LEMMA UnlazyFixed ==
  ASSUME NEW h \in 1 .. MaxNodes, NEW t \in Node(Levels[h - 1]), t.lazy = 0
  PROVE  Unlazy(t) = t /\ Lt(t) = t.left /\ Rt(t) = t.right
<1> DEFINE u == Unlazy(t)
<1>1. h - 1 \in 0 .. MaxNodes
  BY Sizes
<1>2. t.left \in Levels[h - 1] /\ t.right \in Levels[h - 1]
  BY NodeFields
<1>3. SumAll(t.left, 0) = t.left /\ SumAll(t.right, 0) = t.right
  BY <1>1, <1>2, SumZero
<1>4. /\ u \in Node(Levels[h - 1])
      /\ u.key = t.key /\ u.priority = t.priority
      /\ u.value = t.value /\ u.max = t.max /\ u.min = t.min /\ u.lazy = t.lazy
      /\ u.left = t.left /\ u.right = t.right
  BY <1>3, UnlazyNode
<1> HIDE DEF u
<1>5. u = t
  BY <1>4, SameNode
<1> QED BY <1>5 DEF u, Lt, Rt

\* A node whose sums are up to date, with another subtree.
Regrown(v, u, a, b) ==
  /\ v.key = u.key /\ v.value = u.value /\ v.priority = u.priority
  /\ Lt(v) = a /\ Rt(v) = b

LEMMA GraftFields ==
  ASSUME NEW h \in 1 .. MaxNodes, NEW u \in Node(Levels[h - 1]), u.lazy = 0,
         NEW x \in Levels[h - 1],
         NEW l, l = [u EXCEPT !.left = x], NEW r, r = [u EXCEPT !.right = x]
  PROVE  /\ l \in Node(Levels[h - 1]) /\ Regrown(l, u, x, u.right)
         /\ r \in Node(Levels[h - 1]) /\ Regrown(r, u, u.left, x)
<1> DEFINE S == Levels[h - 1]
<1>1. /\ u.value \in Int /\ u.max \in Int /\ u.min \in Int /\ u.lazy \in Int
      /\ u.key \in Key /\ u.priority \in Nat /\ u.left \in S /\ u.right \in S
  BY NodeFields
<1>2. u \in Node(S) /\ x \in S
  OBVIOUS
<1> HIDE DEF S
<1>3. /\ l \in Node(S) /\ l.key = u.key /\ l.value = u.value /\ l.priority = u.priority
      /\ l.lazy = 0 /\ l.left = x /\ l.right = u.right
  BY <1>1, <1>2 DEF Node
<1>4. /\ r \in Node(S) /\ r.key = u.key /\ r.value = u.value /\ r.priority = u.priority
      /\ r.lazy = 0 /\ r.right = x /\ r.left = u.left
  BY <1>1, <1>2 DEF Node
<1>5. Lt(l) = x /\ Rt(l) = u.right
  BY <1>3, UnlazyFixed DEF S
<1>6. Lt(r) = u.left /\ Rt(r) = x
  BY <1>4, UnlazyFixed DEF S
<1> QED BY <1>3, <1>4, <1>5, <1>6 DEF Regrown, S

(***************************************************************************)
(* The nodes of a tree.                                                    *)
(***************************************************************************)
NodesOf(s, x, y) == IF s = None THEN {} ELSE {Unlazy(s)} \cup x \cup y

KeepOf(s, key, x, y) ==
  IF s = None THEN [left |-> None, right |-> None]
  ELSE LET u == Unlazy(s) IN
    IF AtMost(key, u.key)
    THEN [left |-> Refresh(x.left), right |-> Refresh([u EXCEPT !.left = x.right])]
    ELSE [left |-> Refresh([u EXCEPT !.right = y.left]), right |-> Refresh(y.right)]

SmallestOf(s, x) ==
  IF s = None THEN [left |-> None, right |-> None]
  ELSE LET u == Unlazy(s) IN
    IF u.left # None
    THEN [left |-> Refresh(x.left), right |-> Refresh([u EXCEPT !.left = x.right])]
    ELSE [left |-> Refresh([u EXCEPT !.right = None]), right |-> Refresh(u.right)]

GreatestOf(s, y) ==
  IF s = None THEN [left |-> None, right |-> None]
  ELSE LET u == Unlazy(s) IN
    IF u.right # None
    THEN [left |-> Refresh([u EXCEPT !.right = y.left]), right |-> Refresh(y.right)]
    ELSE [left |-> Refresh(u.left), right |-> Refresh([u EXCEPT !.left = None])]

\* What each of the four recursive functions makes of a tree, x and y being
\* what it makes of the two subtrees.
Walk(kind, key, s, x, y) ==
  IF kind = "nodes" THEN NodesOf(s, x, y)
  ELSE IF kind = "keepRight" THEN KeepOf(s, key, x, y)
  ELSE IF kind = "smallest" THEN SmallestOf(s, x)
  ELSE GreatestOf(s, y)

WalkUpTo(f, kind, key, n) ==
  f = [s \in Levels[n] |-> Walk(kind, key, s, f[Lt(s)], f[Rt(s)])]

LEMMA WalkOfNone ==
  ASSUME NEW kind, NEW key, NEW x, NEW y, NEW v, NEW w
  PROVE  Walk(kind, key, None, x, y) = Walk(kind, key, None, v, w)
BY DEF Walk, NodesOf, KeepOf, SmallestOf, GreatestOf

LEMMA WalkExists ==
  ASSUME NEW kind, NEW key, NEW n \in 0 .. MaxNodes
  PROVE  \E f : WalkUpTo(f, kind, key, n)
<1> DEFINE bad == {m \in Nat : m <= MaxNodes /\ ~\E f : WalkUpTo(f, kind, key, m)}
<1>1. SUFFICES ASSUME bad # {} PROVE FALSE
  BY Sizes
<1>2. PICK m \in bad : \A k \in bad : m <= k
  BY <1>1, LeastNumber
<1>3. m # 0
  <2> DEFINE f == [s \in Levels[0] |-> Walk(kind, key, s, {}, {})]
  <2>1. WalkUpTo(f, kind, key, 0)
    <3>1. \A s \in Levels[0] :
            Walk(kind, key, s, f[Lt(s)], f[Rt(s)]) = Walk(kind, key, s, {}, {})
      BY LevelsAre, WalkOfNone
    <3> QED BY <3>1 DEF WalkUpTo
  <2> QED BY <2>1, <1>2
<1>4. PICK g : WalkUpTo(g, kind, key, m - 1)
  <2>1. m - 1 \in Nat /\ m - 1 <= MaxNodes /\ m - 1 < m
    BY <1>2, <1>3, Sizes
  <2>2. m - 1 \notin bad
    BY <1>2, <2>1
  <2> QED BY <2>1, <2>2
<1> DEFINE f == [s \in Levels[m] |-> Walk(kind, key, s, g[Lt(s)], g[Rt(s)])]
<1>5. /\ m \in 1 .. MaxNodes /\ m \in 0 .. MaxNodes /\ m - 1 \in 0 .. MaxNodes
      /\ m - 1 \in 0 .. m
  BY <1>2, <1>3, Sizes
<1>6. ASSUME NEW s \in Levels[m - 1] PROVE f[s] = g[s]
  <2>1. g[s] = Walk(kind, key, s, g[Lt(s)], g[Rt(s)])
    BY <1>4, Zenon DEF WalkUpTo
  <2>2. s \in Levels[m]
    BY <1>5, LevelsGrow
  <2> QED BY <2>1, <2>2
<1>7. WalkUpTo(f, kind, key, m)
  <2>1. ASSUME NEW s \in Levels[m]
        PROVE  Walk(kind, key, s, g[Lt(s)], g[Rt(s)]) = Walk(kind, key, s, f[Lt(s)], f[Rt(s)])
    <3>1. CASE s = None
      BY <3>1, WalkOfNone
    <3>2. CASE s # None
      <4>1. s \in Node(Levels[m - 1])
        BY <3>2, <1>5, LevelCases
      <4>2. Lt(s) \in Levels[m - 1] /\ Rt(s) \in Levels[m - 1]
        BY <4>1, <1>5, UnlazyNode
      <4>3. f[Lt(s)] = g[Lt(s)] /\ f[Rt(s)] = g[Rt(s)]
        BY <4>2, <1>6
      <4> HIDE DEF f
      <4> QED BY <4>3
    <3> QED BY <3>1, <3>2
  <2>2. f = [s \in Levels[m] |-> Walk(kind, key, s, f[Lt(s)], f[Rt(s)])]
    BY <2>1
  <2> QED BY <2>2 DEF WalkUpTo
<1> QED BY <1>2, <1>7

LEMMA WalkOnTrees ==
  ASSUME NEW kind, NEW key
  PROVE  \E f : f = [s \in Trees |-> Walk(kind, key, s, f[Lt(s)], f[Rt(s)])]
<1>1. MaxNodes \in 0 .. MaxNodes
  BY Sizes
<1>2. \E f : WalkUpTo(f, kind, key, MaxNodes)
  BY <1>1, WalkExists
<1> QED BY <1>2 DEF WalkUpTo, Trees

LEMMA NodesAre ==
  \A s \in Trees : Nodes[s] = NodesOf(s, Nodes[Lt(s)], Nodes[Rt(s)])
<1>1. \E f : f = [s \in Trees |-> NodesOf(s, f[Lt(s)], f[Rt(s)])]
  <2>1. PICK f : f = [s \in Trees |-> Walk("nodes", 0, s, f[Lt(s)], f[Rt(s)])]
    BY WalkOnTrees
  <2>2. f = [s \in Trees |-> NodesOf(s, f[Lt(s)], f[Rt(s)])]
    BY <2>1 DEF Walk
  <2> QED BY <2>2
<1>2. Nodes = [s \in Trees |-> NodesOf(s, Nodes[Lt(s)], Nodes[Rt(s)])]
  BY <1>1 DEF Nodes, NodesOf, Lt, Rt
<1> QED
  BY <1>2, Zenon

LEMMA NodesOfNode ==
  ASSUME NEW h \in 1 .. MaxNodes, NEW t \in Node(Levels[h - 1])
  PROVE  Nodes[t] = {Unlazy(t)} \cup Nodes[Lt(t)] \cup Nodes[Rt(t)]
<1>1. h \in 0 .. MaxNodes /\ h # 0
  BY Sizes
<1>2. t \in Trees /\ t # None
  BY <1>1, NodeInLevels, InTrees, NodeFields
<1> QED BY <1>2, NodesAre DEF NodesOf

LEMMA NodesOfNone == Nodes[None] = {}
<1>1. 0 \in 0 .. MaxNodes
  BY Sizes
<1>2. None \in Trees
  BY <1>1, NoneInLevels, InTrees
<1> QED BY <1>2, NodesAre DEF NodesOf

(***************************************************************************)
(* A sound tree, by its two subtrees and what they hold.                   *)
(***************************************************************************)
Below(E, k) == \A e \in E : ~AtMost(k, e[1])
Above(E, k) == \A e \in E : ~AtMost(e[1], k)
Bounds(lo, hi, E) ==
  /\ \E e \in E : e[2] = lo
  /\ \E e \in E : e[2] = hi
  /\ \A e \in E : lo <= e[2] /\ e[2] <= hi

Good(t) == Sorted(t) /\ Extremes(t)

LEMMA EntriesNode ==
  ASSUME NEW h \in 1 .. MaxNodes, NEW t \in Node(Levels[h - 1])
  PROVE  Entries(t) = {<<t.key, t.value>>} \cup Entries(Lt(t)) \cup Entries(Rt(t))
<1> DEFINE u == Unlazy(t)
<1>1. u.key = t.key /\ u.value = t.value
  BY UnlazyNode
<1>2. Nodes[t] = {u} \cup Nodes[Lt(t)] \cup Nodes[Rt(t)]
  BY NodesOfNode
<1> HIDE DEF u
<1> QED BY <1>1, <1>2 DEF Entries

LEMMA NoEntries == Entries(None) = {} /\ Good(None)
BY NodesOfNone DEF Entries, Good, Sorted, Extremes

LEMMA NodesUnlazy ==
  ASSUME NEW h \in 1 .. MaxNodes, NEW t \in Node(Levels[h - 1])
  PROVE  Nodes[Unlazy(t)] = Nodes[t]
<1> DEFINE u == Unlazy(t)
<1>1. u \in Node(Levels[h - 1]) /\ u.lazy = 0 /\ u.left = Lt(t) /\ u.right = Rt(t)
  BY UnlazyNode
<1> HIDE DEF u
<1>2. Unlazy(u) = u /\ Lt(u) = u.left /\ Rt(u) = u.right
  BY <1>1, UnlazyFixed
<1>3. Nodes[u] = {u} \cup Nodes[Lt(t)] \cup Nodes[Rt(t)]
  BY <1>1, <1>2, NodesOfNode
<1>4. Nodes[t] = {u} \cup Nodes[Lt(t)] \cup Nodes[Rt(t)]
  BY NodesOfNode DEF u
<1> QED BY <1>3, <1>4 DEF u

LEMMA EntriesAre ==
  ASSUME NEW t
  PROVE  /\ \A v \in Nodes[t] : \E e \in Entries(t) : e[1] = v.key /\ e[2] = v.value
         /\ \A e \in Entries(t) : \E v \in Nodes[t] : e[1] = v.key /\ e[2] = v.value
<1>1. ASSUME NEW v \in Nodes[t] PROVE \E e \in Entries(t) : e[1] = v.key /\ e[2] = v.value
  <2>1. <<v.key, v.value>> \in Entries(t)
    BY DEF Entries
  <2> QED BY <2>1
<1> QED BY <1>1 DEF Entries

LEMMA GoodNode ==
  ASSUME NEW h \in 1 .. MaxNodes, NEW t \in Node(Levels[h - 1])
  PROVE  Good(t) <=> /\ Good(Lt(t)) /\ Good(Rt(t))
                     /\ Below(Entries(Lt(t)), t.key) /\ Above(Entries(Rt(t)), t.key)
                     /\ Bounds(t.min, t.max, Entries(t))
<1> DEFINE u == Unlazy(t)
           a == Lt(t)
           b == Rt(t)
<1>1. u.key = t.key /\ u.min = t.min /\ u.max = t.max /\ u.left = a /\ u.right = b
  BY UnlazyNode
<1>2. Nodes[t] = {u} \cup Nodes[a] \cup Nodes[b] /\ Nodes[u] = Nodes[t]
  BY NodesOfNode, NodesUnlazy
<1> HIDE DEF u, a, b
<1>3. Sorted(t) <=> Sorted(a) /\ Sorted(b) /\ Below(Entries(a), t.key) /\ Above(Entries(b), t.key)
  <2>1. Below(Entries(a), t.key) <=> \A v \in Nodes[a] : ~AtMost(t.key, v.key)
    BY EntriesAre DEF Below
  <2>2. Above(Entries(b), t.key) <=> \A v \in Nodes[b] : ~AtMost(v.key, t.key)
    BY EntriesAre DEF Above
  <2> QED BY <1>1, <1>2, <2>1, <2>2 DEF Sorted
<1>4. Extremes(t) <=> Extremes(a) /\ Extremes(b) /\ Bounds(t.min, t.max, Entries(t))
  <2> DEFINE values == {v.value : v \in Nodes[u]}
  <2>1. Bounds(t.min, t.max, Entries(t)) <=>
          {u.min, u.max} \subseteq values /\ \A x \in values : u.min <= x /\ x <= u.max
    <3>1. values = {v.value : v \in Nodes[t]}
      BY <1>2
    <3> HIDE DEF values
    <3>2. \A e \in Entries(t) : e[2] \in values
      BY <3>1, EntriesAre
    <3>3. \A x \in values : \E e \in Entries(t) : e[2] = x
      BY <3>1, EntriesAre
    <3> QED BY <1>1, <3>2, <3>3 DEF Bounds
  <2> QED BY <1>2, <2>1 DEF Extremes
<1> QED BY <1>3, <1>4 DEF Good, a, b

LEMMA EntriesTyped ==
  ASSUME NEW h \in 0 .. MaxNodes
  PROVE  \A t \in Levels[h] : Entries(t) \subseteq Key \X Int
<1> DEFINE bad == {m \in Nat : m <= MaxNodes /\ ~\A t \in Levels[m] : Entries(t) \subseteq Key \X Int}
<1>1. SUFFICES ASSUME bad # {} PROVE FALSE
  BY Sizes
<1>2. PICK m \in bad : \A k \in bad : m <= k
  BY <1>1, LeastNumber
<1>3. m \in 0 .. MaxNodes
  BY <1>2, Sizes
<1>4. ASSUME NEW t \in Levels[m] PROVE Entries(t) \subseteq Key \X Int
  <2>1. CASE t = None
    BY <2>1, NoEntries
  <2>2. CASE t # None
    <3>1. m \in 1 .. MaxNodes /\ m - 1 \in 0 .. MaxNodes /\ t \in Node(Levels[m - 1])
      BY <1>3, <2>2, LevelCases
    <3>2. m - 1 \in Nat /\ m - 1 <= MaxNodes /\ m - 1 < m
      BY <3>1, Sizes
    <3>3. \A s \in Levels[m - 1] : Entries(s) \subseteq Key \X Int
      <4>1. m - 1 \notin bad
        BY <1>2, <3>2
      <4> QED BY <3>2, <4>1
    <3>4. Lt(t) \in Levels[m - 1] /\ Rt(t) \in Levels[m - 1] /\ t.key \in Key /\ t.value \in Int
      BY <3>1, UnlazyNode, NodeFields
    <3>5. Entries(t) = {<<t.key, t.value>>} \cup Entries(Lt(t)) \cup Entries(Rt(t))
      BY <3>1, EntriesNode
    <3>6. Entries(Lt(t)) \subseteq Key \X Int /\ Entries(Rt(t)) \subseteq Key \X Int
      BY <3>3, <3>4
    <3>7. <<t.key, t.value>> \in Key \X Int
      BY <3>4
    <3> QED BY <3>5, <3>6, <3>7
  <2> QED BY <2>1, <2>2
<1> QED BY <1>2, <1>4

LEMMA EntryIs ==
  ASSUME NEW h \in 0 .. MaxNodes, NEW t \in Levels[h], NEW e \in Entries(t)
  PROVE  e \in Key \X Int /\ e[1] \in Key /\ e[2] \in Int /\ e = <<e[1], e[2]>>
<1>1. e \in Key \X Int
  BY EntriesTyped
<1> QED BY <1>1

(***************************************************************************)
(* A sum over a whole tree.                                                *)
(***************************************************************************)
Shifted(E, d) == {<<e[1], e[2] + d>> : e \in E}

SumSoundIn(h, d) ==
  \A t \in Levels[h] : /\ Entries(SumAll(t, d)) = Shifted(Entries(t), d)
                       /\ Good(t) => Good(SumAll(t, d))

LEMMA BoundsShift ==
  ASSUME NEW E \in SUBSET (Key \X Int), NEW d \in Int, NEW lo \in Int, NEW hi \in Int,
         Bounds(lo, hi, E)
  PROVE  Bounds(lo + d, hi + d, Shifted(E, d))
<1>1. \A e \in E : e[2] \in Int /\ <<e[1], e[2] + d>> \in Shifted(E, d)
  BY DEF Shifted
<1>2. \A f \in Shifted(E, d) : \E e \in E : f[2] = e[2] + d
  BY DEF Shifted
<1>3. \E f \in Shifted(E, d) : f[2] = lo + d
  BY <1>1 DEF Bounds
<1>4. \E f \in Shifted(E, d) : f[2] = hi + d
  BY <1>1 DEF Bounds
<1>5. \A f \in Shifted(E, d) : lo + d <= f[2] /\ f[2] <= hi + d
  BY <1>1, <1>2 DEF Bounds
<1> QED BY <1>3, <1>4, <1>5 DEF Bounds

LEMMA SumSound ==
  ASSUME NEW h \in 0 .. MaxNodes, NEW d \in Int
  PROVE  SumSoundIn(h, d)
<1> DEFINE bad == {m \in Nat : m <= MaxNodes /\ ~SumSoundIn(m, d)}
<1>1. SUFFICES ASSUME bad # {} PROVE FALSE
  BY Sizes
<1>2. PICK m \in bad : \A k \in bad : m <= k
  BY <1>1, LeastNumber
<1>3. m \in 0 .. MaxNodes
  BY <1>2, Sizes
<1>4. ASSUME NEW t \in Levels[m]
      PROVE  Entries(SumAll(t, d)) = Shifted(Entries(t), d) /\ (Good(t) => Good(SumAll(t, d)))
  <2>1. CASE t = None
    BY <2>1, NoEntries, SumNone DEF Shifted
  <2>2. CASE t # None
    <3>1. m \in 1 .. MaxNodes /\ m - 1 \in 0 .. MaxNodes /\ t \in Node(Levels[m - 1])
      BY <1>3, <2>2, LevelCases
    <3>2. m - 1 \in Nat /\ m - 1 <= MaxNodes /\ m - 1 < m
      BY <3>1, Sizes
    <3>3. SumSoundIn(m - 1, d)
      <4>1. m - 1 \notin bad
        BY <1>2, <3>2
      <4> QED BY <3>2, <4>1
    <3> DEFINE s == SumAll(t, d)
               a == Lt(t)
               b == Rt(t)
    <3>4. /\ s \in Node(Levels[m - 1]) /\ s.key = t.key /\ s.value = t.value + d
          /\ s.max = t.max + d /\ s.min = t.min + d /\ s.lazy = t.lazy + d
          /\ s.left = t.left /\ s.right = t.right
      BY <3>1, SumNode
    <3>5. t.lazy \in Int /\ t.left \in Levels[m - 1] /\ t.right \in Levels[m - 1]
      BY <3>1, NodeFields
    <3>6. /\ a = SumAll(t.left, t.lazy) /\ b = SumAll(t.right, t.lazy)
          /\ a \in Levels[m - 1] /\ b \in Levels[m - 1]
      BY <3>1, UnlazyNode
    <3> HIDE DEF s
    <3>7. Lt(s) = SumAll(a, d) /\ Rt(s) = SumAll(b, d)
      <4>1. Lt(s) = SumAll(s.left, s.lazy) /\ Rt(s) = SumAll(s.right, s.lazy)
        BY <3>1, <3>4, UnlazyNode
      <4>2. /\ SumAll(SumAll(t.left, t.lazy), d) = SumAll(t.left, t.lazy + d)
            /\ SumAll(SumAll(t.right, t.lazy), d) = SumAll(t.right, t.lazy + d)
        BY <3>1, <3>5, SumTwice
      <4> QED BY <3>4, <3>6, <4>1, <4>2
    <3> HIDE DEF a, b
    <3>8. /\ Entries(SumAll(a, d)) = Shifted(Entries(a), d) /\ (Good(a) => Good(SumAll(a, d)))
          /\ Entries(SumAll(b, d)) = Shifted(Entries(b), d) /\ (Good(b) => Good(SumAll(b, d)))
      BY <3>3, <3>6 DEF SumSoundIn
    <3>9. Entries(s) = Shifted(Entries(t), d)
      <4>1. Entries(s) = {<<s.key, s.value>>} \cup Entries(Lt(s)) \cup Entries(Rt(s))
        BY <3>1, <3>4, EntriesNode
      <4>2. Entries(t) = {<<t.key, t.value>>} \cup Entries(a) \cup Entries(b)
        BY <3>1, EntriesNode DEF a, b
      <4> DEFINE r == <<t.key, t.value>>
      <4>3. <<s.key, s.value>> = <<r[1], r[2] + d>>
        BY <3>4
      <4> HIDE DEF r
      <4>4. Shifted(Entries(t), d) =
              {<<r[1], r[2] + d>>} \cup Shifted(Entries(a), d) \cup Shifted(Entries(b), d)
        BY <4>2 DEF Shifted, r
      <4> QED BY <4>1, <4>3, <4>4, <3>7, <3>8
    <3>10. ASSUME Good(t) PROVE Good(s)
      <4>1. /\ Good(a) /\ Good(b) /\ Below(Entries(a), t.key) /\ Above(Entries(b), t.key)
            /\ Bounds(t.min, t.max, Entries(t))
        BY <3>1, <3>10, GoodNode DEF a, b
      <4>2. Below(Entries(Lt(s)), s.key)
        <5>1. \A f \in Shifted(Entries(a), d) : \E e \in Entries(a) : f[1] = e[1]
          BY DEF Shifted
        <5> QED BY <5>1, <4>1, <3>4, <3>7, <3>8 DEF Below
      <4>3. Above(Entries(Rt(s)), s.key)
        <5>1. \A f \in Shifted(Entries(b), d) : \E e \in Entries(b) : f[1] = e[1]
          BY DEF Shifted
        <5> QED BY <5>1, <4>1, <3>4, <3>7, <3>8 DEF Above
      <4>4. Bounds(s.min, s.max, Entries(s))
        <5>1. t.min \in Int /\ t.max \in Int /\ Entries(t) \in SUBSET (Key \X Int)
          BY <3>1, <1>3, NodeFields, EntriesTyped
        <5> QED BY <5>1, <3>4, <3>9, <4>1, BoundsShift
      <4>5. Good(Lt(s)) /\ Good(Rt(s))
        BY <3>7, <3>8, <4>1
      <4> QED BY <3>1, <3>4, <4>2, <4>3, <4>4, <4>5, GoodNode
    <3> QED BY <3>9, <3>10 DEF s
  <2> QED BY <2>1, <2>2
<1> QED BY <1>2, <1>4 DEF SumSoundIn

(***************************************************************************)
(* The extremes of a node from those of its subtrees.                      *)
(***************************************************************************)
LEMMA MaxIs ==
  ASSUME NEW S \in SUBSET Int, NEW x \in S, \A y \in S : y <= x
  PROVE  Max(S) = x
<1>1. \A y \in S : x >= y
  OBVIOUS
<1>2. ASSUME NEW z \in S, \A y \in S : z >= y PROVE z = x
  BY <1>2
<1> QED BY <1>1, <1>2 DEF Max

LEMMA MinIs ==
  ASSUME NEW S \in SUBSET Int, NEW x \in S, \A y \in S : x <= y
  PROVE  Min(S) = x
<1>2. ASSUME NEW z \in S, \A y \in S : z <= y PROVE z = x
  BY <1>2
<1> QED BY <1>2 DEF Min

Greatest(x, S) == x \in S /\ \A y \in S : y <= x
Least(x, S) == x \in S /\ \A y \in S : x <= y
OneAtMost(S) == S = {} \/ \E x \in S : S = {x}

LEMMA ThreeMax ==
  ASSUME NEW L \in SUBSET Int, NEW B \in SUBSET Int, NEW v \in Int,
         OneAtMost(L), OneAtMost(B)
  PROVE  /\ Greatest(Max({v} \cup L \cup B), {v} \cup L \cup B)
         /\ Least(Min({v} \cup L \cup B), {v} \cup L \cup B)
<1> DEFINE S == {v} \cup L \cup B
<1>1. \E x \in S : \A y \in S : y <= x
  <2>1. CASE L = {} /\ B = {}
    BY <2>1
  <2>2. ASSUME NEW x \in L, L = {x}, B = {} PROVE \E z \in S : \A y \in S : y <= z
    BY <2>2
  <2>3. ASSUME NEW x \in B, B = {x}, L = {} PROVE \E z \in S : \A y \in S : y <= z
    BY <2>3
  <2>4. ASSUME NEW x \in L, L = {x}, NEW w \in B, B = {w} PROVE \E z \in S : \A y \in S : y <= z
    <3>1. v <= x \/ x <= v
      OBVIOUS
    <3>2. S = {v, x, w} /\ v \in Int /\ x \in Int /\ w \in Int
      BY <2>4
    <3> HIDE DEF S
    <3>3. CASE v <= x /\ w <= x
      BY <3>2, <3>3
    <3>4. CASE x <= v /\ w <= v
      BY <3>2, <3>4
    <3>5. CASE x <= w /\ v <= w
      BY <3>2, <3>5
    <3> QED BY <3>2, <3>3, <3>4, <3>5
  <2> QED BY <2>1, <2>2, <2>3, <2>4 DEF OneAtMost
<1>2. \E x \in S : \A y \in S : x <= y
  <2>1. CASE L = {} /\ B = {}
    BY <2>1
  <2>2. ASSUME NEW x \in L, L = {x}, B = {} PROVE \E z \in S : \A y \in S : z <= y
    BY <2>2
  <2>3. ASSUME NEW x \in B, B = {x}, L = {} PROVE \E z \in S : \A y \in S : z <= y
    BY <2>3
  <2>4. ASSUME NEW x \in L, L = {x}, NEW w \in B, B = {w} PROVE \E z \in S : \A y \in S : z <= y
    <3>2. S = {v, x, w} /\ v \in Int /\ x \in Int /\ w \in Int
      BY <2>4
    <3> HIDE DEF S
    <3>3. CASE x <= v /\ x <= w
      BY <3>2, <3>3
    <3>4. CASE v <= x /\ v <= w
      BY <3>2, <3>4
    <3>5. CASE w <= x /\ w <= v
      BY <3>2, <3>5
    <3> QED BY <3>2, <3>3, <3>4, <3>5
  <2> QED BY <2>1, <2>2, <2>3, <2>4 DEF OneAtMost
<1>3. S \in SUBSET Int
  OBVIOUS
<1> HIDE DEF S
<1>4. Max(S) \in S /\ \A y \in S : y <= Max(S)
  BY <1>1, <1>3, MaxIs
<1>5. Min(S) \in S /\ \A y \in S : Min(S) <= y
  BY <1>2, <1>3, MinIs
<1> QED BY <1>4, <1>5 DEF S, Greatest, Least

\* The extremes of a subtree as a set: empty for None.
Highest(t) == {k.max : k \in {t} \ {None}}
Lowest(t) == {k.min : k \in {t} \ {None}}

LEMMA KidExtremes ==
  ASSUME NEW h \in 0 .. MaxNodes, NEW t \in Levels[h], Good(t)
  PROVE  \/ t = None /\ Highest(t) = {} /\ Lowest(t) = {} /\ Entries(t) = {}
         \/ /\ t.max \in Int /\ t.min \in Int /\ Highest(t) = {t.max} /\ Lowest(t) = {t.min}
            /\ Bounds(t.min, t.max, Entries(t))
<1>1. CASE t = None
  BY <1>1, NoEntries DEF Highest, Lowest
<1>2. CASE t # None
  <2>1. h \in 1 .. MaxNodes /\ t \in Node(Levels[h - 1])
    BY <1>2, LevelCases
  <2>2. Bounds(t.min, t.max, Entries(t))
    BY <2>1, GoodNode
  <2>3. t.max \in Int /\ t.min \in Int
    BY <2>1, NodeFields
  <2> QED BY <1>2, <2>2, <2>3 DEF Highest, Lowest
<1> QED BY <1>1, <1>2

WithExtremes(r, t, lo, hi) ==
  /\ r.key = t.key /\ r.priority = t.priority /\ r.value = t.value
  /\ r.max = hi /\ r.min = lo /\ r.lazy = t.lazy /\ r.left = t.left /\ r.right = t.right

LEMMA RefreshFields ==
  ASSUME NEW S, NEW t \in Node(S), NEW hi \in Int, NEW lo \in Int,
         NEW r, r = [t EXCEPT !.max = hi, !.min = lo]
  PROVE  r \in Node(S) /\ WithExtremes(r, t, lo, hi)
<1>1. /\ t.value \in Int /\ t.max \in Int /\ t.min \in Int /\ t.lazy \in Int
      /\ t.key \in Key /\ t.priority \in Nat /\ t.left \in S /\ t.right \in S
  BY NodeFields
<1> DEFINE v == [t EXCEPT !.max = hi]
<1>2. v \in Node(S)
  BY <1>1 DEF Node
<1>3. r \in Node(S)
  <2>1. r = [v EXCEPT !.min = lo]
    OBVIOUS
  <2> HIDE DEF v
  <2> QED BY <1>2, <2>1 DEF Node
<1>4. /\ r.key = t.key /\ r.priority = t.priority /\ r.value = t.value
      /\ r.max = hi /\ r.min = lo /\ r.lazy = t.lazy /\ r.left = t.left /\ r.right = t.right
  BY <1>1 DEF Node
<1> QED BY <1>3, <1>4 DEF WithExtremes

Refreshed(r, u) ==
  /\ r.key = u.key /\ r.value = u.value /\ r.priority = u.priority
  /\ Entries(r) = {<<u.key, u.value>>} \cup Entries(Lt(u)) \cup Entries(Rt(u))
  /\ Good(r)

LEMMA RefreshSound ==
  ASSUME NEW h \in 1 .. MaxNodes, NEW u \in Node(Levels[h - 1]),
         Good(Lt(u)), Good(Rt(u)), Below(Entries(Lt(u)), u.key), Above(Entries(Rt(u)), u.key)
  PROVE  Refresh(u) \in Node(Levels[h - 1]) /\ Refreshed(Refresh(u), u)
<1> DEFINE a == Lt(u)
           b == Rt(u)
           node == Unlazy(u)
           r == Refresh(u)
           hi == Max({node.value} \cup Highest(a) \cup Highest(b))
           lo == Min({node.value} \cup Lowest(a) \cup Lowest(b))
<1>0. h - 1 \in 0 .. MaxNodes
  BY Sizes
<1>1. /\ node \in Node(Levels[h - 1]) /\ node.key = u.key /\ node.value = u.value
      /\ node.priority = u.priority /\ node.lazy = 0 /\ node.left = a /\ node.right = b
      /\ a \in Levels[h - 1] /\ b \in Levels[h - 1]
  BY UnlazyNode
<1>2. u # None /\ u.value \in Int /\ node.value \in Int
  BY <1>1, NodeFields
<1>3. r = [node EXCEPT !.max = hi, !.min = lo]
  <2> DEFINE kids == {node.left, node.right} \ {None}
  <2>1. r = [node EXCEPT !.max = Max({node.value} \cup {k.max : k \in kids}),
                         !.min = Min({node.value} \cup {k.min : k \in kids})]
    BY <1>2 DEF Refresh
  <2>2. kids = ({a} \ {None}) \cup ({b} \ {None})
    BY <1>1
  <2> HIDE DEF kids, node, r, a, b
  <2>3. {node.value} \cup {k.max : k \in kids} = {node.value} \cup Highest(a) \cup Highest(b)
    BY <2>2 DEF Highest
  <2>4. {node.value} \cup {k.min : k \in kids} = {node.value} \cup Lowest(a) \cup Lowest(b)
    BY <2>2 DEF Lowest
  <2> QED BY <2>1, <2>3, <2>4
<1> HIDE DEF node, r
<1>4. \/ a = None /\ Highest(a) = {} /\ Lowest(a) = {} /\ Entries(a) = {}
      \/ /\ a.max \in Int /\ a.min \in Int /\ Highest(a) = {a.max} /\ Lowest(a) = {a.min}
         /\ Bounds(a.min, a.max, Entries(a))
  BY <1>0, <1>1, KidExtremes
<1>5. \/ b = None /\ Highest(b) = {} /\ Lowest(b) = {} /\ Entries(b) = {}
      \/ /\ b.max \in Int /\ b.min \in Int /\ Highest(b) = {b.max} /\ Lowest(b) = {b.min}
         /\ Bounds(b.min, b.max, Entries(b))
  BY <1>0, <1>1, KidExtremes
<1>6. Good(a) /\ Good(b) /\ Below(Entries(a), u.key) /\ Above(Entries(b), u.key)
  OBVIOUS
<1> HIDE DEF a, b
<1>a. Highest(a) \in SUBSET Int /\ Lowest(a) \in SUBSET Int
  BY <1>4
<1>b. Highest(b) \in SUBSET Int /\ Lowest(b) \in SUBSET Int
  BY <1>5
<1>c. OneAtMost(Highest(a)) /\ OneAtMost(Lowest(a))
  BY <1>4 DEF OneAtMost
<1>d. OneAtMost(Highest(b)) /\ OneAtMost(Lowest(b))
  BY <1>5 DEF OneAtMost
<1>f. Greatest(hi, {node.value} \cup Highest(a) \cup Highest(b))
  BY <1>2, <1>a, <1>b, <1>c, <1>d, ThreeMax, Zenon
<1>g. Least(lo, {node.value} \cup Lowest(a) \cup Lowest(b))
  BY <1>2, <1>a, <1>b, <1>c, <1>d, ThreeMax, Zenon
<1> HIDE DEF hi, lo
<1>7. /\ hi \in {node.value} \cup Highest(a) \cup Highest(b)
      /\ \A y \in {node.value} \cup Highest(a) \cup Highest(b) : y <= hi
  BY <1>f DEF Greatest
<1>8. /\ lo \in {node.value} \cup Lowest(a) \cup Lowest(b)
      /\ \A y \in {node.value} \cup Lowest(a) \cup Lowest(b) : lo <= y
  BY <1>g DEF Least
<1>9. hi \in Int /\ lo \in Int
  BY <1>2, <1>4, <1>5, <1>7, <1>8
<1>e. r \in Node(Levels[h - 1]) /\ WithExtremes(r, node, lo, hi)
  <2>1. node \in Node(Levels[h - 1])
    BY <1>1
  <2> QED BY <1>3, <1>9, <2>1, RefreshFields, Zenon
<1>10. /\ r \in Node(Levels[h - 1])
       /\ r.key = u.key /\ r.priority = u.priority /\ r.value = u.value
       /\ r.max = hi /\ r.min = lo /\ r.lazy = 0 /\ r.left = a /\ r.right = b
  BY <1>1, <1>e DEF WithExtremes
<1>11. Lt(r) = a /\ Rt(r) = b
  BY <1>10, UnlazyFixed
<1>12. Entries(r) = {<<u.key, u.value>>} \cup Entries(a) \cup Entries(b)
  BY <1>10, <1>11, EntriesNode
<1>13. Bounds(lo, hi, Entries(r))
  <2> DEFINE e0 == <<u.key, u.value>>
  <2>1. e0 \in Entries(r) /\ e0[2] = node.value
    BY <1>1, <1>12
  <2>2. \A e \in Entries(a) \cup Entries(b) : e[2] \in Int
    <3>1. \A e \in Entries(a) : e[2] \in Int
      BY <1>0, <1>1, EntryIs
    <3>2. \A e \in Entries(b) : e[2] \in Int
      BY <1>0, <1>1, EntryIs
    <3> QED BY <3>1, <3>2
  <2>3. \A e \in Entries(r) : e = e0 \/ e \in Entries(a) \/ e \in Entries(b)
    BY <1>12
  <2>4. Entries(a) \subseteq Entries(r) /\ Entries(b) \subseteq Entries(r)
    BY <1>12
  <2> HIDE DEF e0
  <2>5. \E e \in Entries(r) : e[2] = hi
    BY <1>4, <1>5, <1>7, <2>1, <2>4 DEF Bounds
  <2>6. \E e \in Entries(r) : e[2] = lo
    BY <1>4, <1>5, <1>8, <2>1, <2>4 DEF Bounds
  <2>7. \A e \in Entries(a) : lo <= e[2] /\ e[2] <= hi
    BY <1>4, <1>7, <1>8, <1>9, <2>2 DEF Bounds
  <2>8. \A e \in Entries(b) : lo <= e[2] /\ e[2] <= hi
    BY <1>5, <1>7, <1>8, <1>9, <2>2 DEF Bounds
  <2>9. lo <= e0[2] /\ e0[2] <= hi
    BY <1>7, <1>8, <2>1
  <2> QED BY <2>3, <2>5, <2>6, <2>7, <2>8, <2>9 DEF Bounds
<1>14. Good(r)
  BY <1>6, <1>10, <1>11, <1>13, GoodNode
<1>15. Refreshed(r, u)
  BY <1>10, <1>12, <1>14 DEF Refreshed, a, b
<1> QED BY <1>10, <1>15 DEF r

LEMMA RefreshSame ==
  ASSUME NEW h \in 0 .. MaxNodes, NEW t \in Levels[h], Good(t)
  PROVE  /\ Refresh(t) \in Levels[h] /\ Good(Refresh(t)) /\ Entries(Refresh(t)) = Entries(t)
         /\ Refresh(t) = None <=> t = None
<1>1. CASE t = None
  BY <1>1 DEF Refresh
<1>2. CASE t # None
  <2>1. h \in 1 .. MaxNodes /\ t \in Node(Levels[h - 1])
    BY <1>2, LevelCases
  <2>2. Good(Lt(t)) /\ Good(Rt(t)) /\ Below(Entries(Lt(t)), t.key) /\ Above(Entries(Rt(t)), t.key)
    BY <2>1, GoodNode
  <2>3. Refresh(t) \in Node(Levels[h - 1]) /\ Refreshed(Refresh(t), t)
    BY <2>1, <2>2, RefreshSound
  <2>4. Entries(t) = {<<t.key, t.value>>} \cup Entries(Lt(t)) \cup Entries(Rt(t))
    BY <2>1, EntriesNode
  <2>5. Refresh(t) # None /\ Refresh(t) \in Levels[h]
    BY <2>1, <2>3, NodeFields, LevelsAre
  <2> QED BY <1>2, <2>3, <2>4, <2>5 DEF Refreshed
<1> QED BY <1>1, <1>2

\* A node of which one subtree is replaced, and refreshed.
Grafted(r, t, L, B) ==
  /\ r # None /\ r.key = t.key /\ r.value = t.value /\ r.priority = t.priority
  /\ Entries(r) = {<<t.key, t.value>>} \cup L \cup B
  /\ Good(r)

LEMMA GraftLeft ==
  ASSUME NEW h \in 1 .. MaxNodes, NEW t \in Node(Levels[h - 1]), NEW x \in Levels[h - 1],
         Good(x), Good(Rt(t)), Below(Entries(x), t.key), Above(Entries(Rt(t)), t.key)
  PROVE  LET r == Refresh([Unlazy(t) EXCEPT !.left = x])
         IN  r \in Levels[h] /\ Grafted(r, t, Entries(x), Entries(Rt(t)))
<1> DEFINE u == Unlazy(t)
           v == [u EXCEPT !.left = x]
           r == Refresh(v)
<1>1. /\ u \in Node(Levels[h - 1]) /\ u.lazy = 0 /\ u.key = t.key /\ u.value = t.value
      /\ u.priority = t.priority /\ u.right = Rt(t)
  BY UnlazyNode
<1> HIDE DEF u
<1>2. /\ v \in Node(Levels[h - 1]) /\ v.key = t.key /\ v.value = t.value
      /\ v.priority = t.priority /\ Lt(v) = x /\ Rt(v) = Rt(t)
  <2>1. v \in Node(Levels[h - 1]) /\ Regrown(v, u, x, u.right)
    BY <1>1, GraftFields, Zenon
  <2> QED BY <1>1, <2>1 DEF Regrown
<1> HIDE DEF v
<1>3. r \in Node(Levels[h - 1]) /\ Refreshed(r, v)
  BY <1>2, RefreshSound
<1> HIDE DEF r
<1>4. r # None /\ r \in Levels[h]
  BY <1>3, NodeFields, LevelsAre
<1>5. Grafted(r, t, Entries(x), Entries(Rt(t)))
  BY <1>2, <1>3, <1>4 DEF Refreshed, Grafted
<1> QED BY <1>4, <1>5 DEF r, v, u

LEMMA GraftRight ==
  ASSUME NEW h \in 1 .. MaxNodes, NEW t \in Node(Levels[h - 1]), NEW x \in Levels[h - 1],
         Good(x), Good(Lt(t)), Below(Entries(Lt(t)), t.key), Above(Entries(x), t.key)
  PROVE  LET r == Refresh([Unlazy(t) EXCEPT !.right = x])
         IN  r \in Levels[h] /\ Grafted(r, t, Entries(Lt(t)), Entries(x))
<1> DEFINE u == Unlazy(t)
           v == [u EXCEPT !.right = x]
           r == Refresh(v)
<1>1. /\ u \in Node(Levels[h - 1]) /\ u.lazy = 0 /\ u.key = t.key /\ u.value = t.value
      /\ u.priority = t.priority /\ u.left = Lt(t)
  BY UnlazyNode
<1> HIDE DEF u
<1>2. /\ v \in Node(Levels[h - 1]) /\ v.key = t.key /\ v.value = t.value
      /\ v.priority = t.priority /\ Lt(v) = Lt(t) /\ Rt(v) = x
  <2>1. v \in Node(Levels[h - 1]) /\ Regrown(v, u, u.left, x)
    BY <1>1, GraftFields, Zenon
  <2> QED BY <1>1, <2>1 DEF Regrown
<1> HIDE DEF v
<1>3. r \in Node(Levels[h - 1]) /\ Refreshed(r, v)
  BY <1>2, RefreshSound
<1> HIDE DEF r
<1>4. r # None /\ r \in Levels[h]
  BY <1>3, NodeFields, LevelsAre
<1>5. Grafted(r, t, Entries(Lt(t)), Entries(x))
  BY <1>2, <1>3, <1>4 DEF Refreshed, Grafted
<1> QED BY <1>4, <1>5 DEF r, v, u

(***************************************************************************)
(* The order of the keys.                                                  *)
(***************************************************************************)
LEMMA KeyOrder ==
  ASSUME NEW a \in Key, NEW b \in Key, NEW c \in Key
  PROVE  /\ AtMost(a, a)
         /\ AtMost(a, b) \/ AtMost(b, a)
         /\ AtMost(a, b) /\ AtMost(b, a) => a = b
         /\ AtMost(a, b) /\ AtMost(b, c) => AtMost(a, c)
<1>1. /\ a[1] \in Int /\ a[2] \in Int /\ a[3] \in Int /\ a = <<a[1], a[2], a[3]>>
      /\ b[1] \in Int /\ b[2] \in Int /\ b[3] \in Int /\ b = <<b[1], b[2], b[3]>>
      /\ c[1] \in Int /\ c[2] \in Int /\ c[3] \in Int
  BY DEF Key, Groups, Cur, Ref
<1>2. AtMost(a, a) /\ (AtMost(a, b) \/ AtMost(b, a))
  BY <1>1 DEF AtMost
<1>3. ASSUME AtMost(a, b), AtMost(b, a) PROVE a = b
  <2>1. a[1] = b[1] /\ a[2] = b[2] /\ a[3] = b[3]
    BY <1>1, <1>3 DEF AtMost
  <2> QED BY <1>1, <2>1
<1>4. ASSUME AtMost(a, b), AtMost(b, c) PROVE AtMost(a, c)
  BY <1>1, <1>4 DEF AtMost
<1> QED BY <1>2, <1>3, <1>4

(***************************************************************************)
(* Splits.                                                                 *)
(***************************************************************************)
LEMMA KeepAre ==
  ASSUME NEW key
  PROVE  /\ SplitKeepRight(None, key) = [left |-> None, right |-> None]
         /\ \A h \in 1 .. MaxNodes : \A t \in Node(Levels[h - 1]) :
              SplitKeepRight(t, key) =
                KeepOf(t, key, SplitKeepRight(Lt(t), key), SplitKeepRight(Rt(t), key))
<1> DEFINE f == CHOOSE f : f = [s \in Trees |-> KeepOf(s, key, f[Lt(s)], f[Rt(s)])]
<1>1. \E g : g = [s \in Trees |-> KeepOf(s, key, g[Lt(s)], g[Rt(s)])]
  <2>1. PICK g : g = [s \in Trees |-> Walk("keepRight", key, s, g[Lt(s)], g[Rt(s)])]
    BY WalkOnTrees
  <2>2. g = [s \in Trees |-> KeepOf(s, key, g[Lt(s)], g[Rt(s)])]
    BY <2>1 DEF Walk
  <2> QED BY <2>2
<1>2. f = [s \in Trees |-> KeepOf(s, key, f[Lt(s)], f[Rt(s)])]
  BY <1>1
<1>3. \A t : SplitKeepRight(t, key) = f[t]
  BY DEF SplitKeepRight, KeepOf, Lt, Rt
<1> HIDE DEF f
<1>4. \A s \in Trees : f[s] = KeepOf(s, key, f[Lt(s)], f[Rt(s)])
  BY <1>2, Zenon
<1>5. None \in Trees
  BY Sizes, NoneInLevels, InTrees, 0 \in 0 .. MaxNodes
<1>6. SplitKeepRight(None, key) = [left |-> None, right |-> None]
  BY <1>3, <1>4, <1>5 DEF KeepOf
<1>7. ASSUME NEW h \in 1 .. MaxNodes, NEW t \in Node(Levels[h - 1])
      PROVE  SplitKeepRight(t, key) =
               KeepOf(t, key, SplitKeepRight(Lt(t), key), SplitKeepRight(Rt(t), key))
  <2>1. t \in Trees
    BY Sizes, LevelsAre, InTrees, h \in 0 .. MaxNodes
  <2> QED BY <2>1, <1>3, <1>4
<1> QED BY <1>6, <1>7

\* The entries of a node on the two sides of a key.
PartedLeft(E, key, r, L, B) ==
  /\ {e \in E : AtMost(key, e[1])} = {r} \cup {e \in L : AtMost(key, e[1])} \cup B
  /\ {e \in E : ~AtMost(key, e[1])} = {e \in L : ~AtMost(key, e[1])}

PartedRight(E, key, r, L, B) ==
  /\ {e \in E : AtMost(key, e[1])} = {e \in B : AtMost(key, e[1])}
  /\ {e \in E : ~AtMost(key, e[1])} = {r} \cup L \cup {e \in B : ~AtMost(key, e[1])}

LEMMA PartAtOrAbove ==
  ASSUME NEW E \in SUBSET (Key \X Int), NEW L, NEW B, NEW r, E = {r} \cup L \cup B,
         NEW key \in Key, AtMost(key, r[1]), Above(B, r[1])
  PROVE  PartedLeft(E, key, r, L, B)
<1>1. \A e \in E : e[1] \in Key
  OBVIOUS
<1>2. \A e \in B : AtMost(key, e[1])
  BY <1>1, KeyOrder DEF Above
<1> QED BY <1>2 DEF PartedLeft

LEMMA PartBelow ==
  ASSUME NEW E \in SUBSET (Key \X Int), NEW L, NEW B, NEW r, E = {r} \cup L \cup B,
         NEW key \in Key, ~AtMost(key, r[1]), Below(L, r[1])
  PROVE  PartedRight(E, key, r, L, B)
<1>1. \A e \in E : e[1] \in Key
  OBVIOUS
<1>2. \A e \in L : ~AtMost(key, e[1])
  BY <1>1, KeyOrder DEF Below
<1> QED BY <1>2 DEF PartedRight

KeepIsSound(h, t, key, s) ==
  /\ s.left \in Levels[h] /\ s.right \in Levels[h]
  /\ Good(s.left) /\ Good(s.right)
  /\ Entries(s.left) = {e \in Entries(t) : ~AtMost(key, e[1])}
  /\ Entries(s.right) = {e \in Entries(t) : AtMost(key, e[1])}

KeepSoundIn(h, key) ==
  \A t \in Levels[h] : Good(t) => KeepIsSound(h, t, key, SplitKeepRight(t, key))

LEMMA KeepSound ==
  ASSUME NEW h \in 0 .. MaxNodes, NEW key \in Key
  PROVE  KeepSoundIn(h, key)
<1> DEFINE bad == {m \in Nat : m <= MaxNodes /\ ~KeepSoundIn(m, key)}
<1>1. SUFFICES ASSUME bad # {} PROVE FALSE
  BY Sizes
<1>2. PICK m \in bad : \A k \in bad : m <= k
  BY <1>1, LeastNumber
<1>3. m \in 0 .. MaxNodes
  BY <1>2, Sizes
<1>4. ASSUME NEW t \in Levels[m], Good(t)
      PROVE  KeepIsSound(m, t, key, SplitKeepRight(t, key))
  <2>1. CASE t = None
    <3>1. SplitKeepRight(t, key) = [left |-> None, right |-> None]
      BY <2>1, KeepAre
    <3>2. Entries(t) = {} /\ Good(None) /\ Entries(None) = {}
      BY <2>1, NoEntries
    <3>3. None \in Levels[m]
      BY <2>1
    <3> QED BY <3>1, <3>2, <3>3 DEF KeepIsSound
  <2>2. CASE t # None
    <3>1. m \in 1 .. MaxNodes /\ m - 1 \in 0 .. MaxNodes /\ t \in Node(Levels[m - 1])
      BY <1>3, <2>2, LevelCases
    <3>2. m - 1 \in Nat /\ m - 1 <= MaxNodes /\ m - 1 < m /\ m - 1 \in 0 .. m
      BY <3>1, Sizes
    <3>3. KeepSoundIn(m - 1, key)
      <4>1. m - 1 \notin bad
        BY <1>2, <3>2
      <4> QED BY <3>2, <4>1
    <3> DEFINE a == Lt(t)
               b == Rt(t)
               s == SplitKeepRight(t, key)
               x == SplitKeepRight(a, key)
               y == SplitKeepRight(b, key)
               u == Unlazy(t)
               r == <<t.key, t.value>>
    <3>4. s = KeepOf(t, key, x, y)
      BY <3>1, KeepAre
    <3>5. u.left = a /\ u.right = b /\ a \in Levels[m - 1] /\ b \in Levels[m - 1] /\ u.key = t.key
      BY <3>1, UnlazyNode
    <3>6. /\ Good(a) /\ Good(b) /\ Below(Entries(a), t.key) /\ Above(Entries(b), t.key)
      BY <3>1, <1>4, GoodNode
    <3>7. /\ Entries(t) \in SUBSET (Key \X Int)
          /\ Entries(t) = {r} \cup Entries(a) \cup Entries(b) /\ r[1] = t.key
      BY <3>1, <1>3, EntriesNode, EntriesTyped
    <3>8. KeepIsSound(m - 1, a, key, x) /\ KeepIsSound(m - 1, b, key, y)
      BY <3>3, <3>5, <3>6 DEF KeepSoundIn
    <3> HIDE DEF s, x, y
    <3>9. CASE AtMost(key, t.key)
      <4> DEFINE v == Refresh([u EXCEPT !.left = x.right])
      <4>1. s = [left |-> Refresh(x.left), right |-> v]
        BY <3>4, <3>5, <3>9, <2>2 DEF KeepOf
      <4>2. /\ Refresh(x.left) \in Levels[m - 1] /\ Good(Refresh(x.left))
            /\ Entries(Refresh(x.left)) = Entries(x.left)
        BY <3>1, <3>8, RefreshSame DEF KeepIsSound
      <4>3. Below(Entries(x.right), t.key)
        BY <3>6, <3>8 DEF KeepIsSound, Below
      <4>4. v \in Levels[m] /\ Grafted(v, t, Entries(x.right), Entries(b))
        BY <3>1, <3>6, <3>8, <4>3, GraftLeft DEF KeepIsSound
      <4> HIDE DEF a, b, u, v, r
      <4>5. /\ {e \in Entries(t) : AtMost(key, e[1])} =
                 {r} \cup {e \in Entries(a) : AtMost(key, e[1])} \cup Entries(b)
            /\ {e \in Entries(t) : ~AtMost(key, e[1])} = {e \in Entries(a) : ~AtMost(key, e[1])}
        <5>1. AtMost(key, r[1]) /\ Above(Entries(b), r[1])
          BY <3>6, <3>7, <3>9
        <5>2. Entries(t) \in SUBSET (Key \X Int) /\ Entries(t) = {r} \cup Entries(a) \cup Entries(b)
          BY <3>7
        <5>3. PartedLeft(Entries(t), key, r, Entries(a), Entries(b))
          BY <5>1, <5>2, PartAtOrAbove, Zenon
        <5> QED BY <5>3 DEF PartedLeft
      <4>6. Entries(v) = {r} \cup Entries(x.right) \cup Entries(b) /\ Good(v)
        BY <4>4 DEF Grafted, r
      <4>7. Refresh(x.left) \in Levels[m]
        BY <4>2, <1>3, <3>2, LevelsGrow
      <4> QED BY <4>1, <4>2, <4>4, <4>5, <4>6, <4>7, <3>8 DEF KeepIsSound, s
    <3>10. CASE ~AtMost(key, t.key)
      <4> DEFINE v == Refresh([u EXCEPT !.right = y.left])
      <4>1. s = [left |-> v, right |-> Refresh(y.right)]
        BY <3>4, <3>5, <3>10, <2>2 DEF KeepOf
      <4>2. /\ Refresh(y.right) \in Levels[m - 1] /\ Good(Refresh(y.right))
            /\ Entries(Refresh(y.right)) = Entries(y.right)
        BY <3>1, <3>8, RefreshSame DEF KeepIsSound
      <4>3. Above(Entries(y.left), t.key)
        BY <3>6, <3>8 DEF KeepIsSound, Above
      <4>4. v \in Levels[m] /\ Grafted(v, t, Entries(a), Entries(y.left))
        BY <3>1, <3>6, <3>8, <4>3, GraftRight DEF KeepIsSound
      <4> HIDE DEF a, b, u, v, r
      <4>5. /\ {e \in Entries(t) : AtMost(key, e[1])} = {e \in Entries(b) : AtMost(key, e[1])}
            /\ {e \in Entries(t) : ~AtMost(key, e[1])} =
                 {r} \cup Entries(a) \cup {e \in Entries(b) : ~AtMost(key, e[1])}
        <5>1. ~AtMost(key, r[1]) /\ Below(Entries(a), r[1])
          BY <3>6, <3>7, <3>10
        <5>2. Entries(t) \in SUBSET (Key \X Int) /\ Entries(t) = {r} \cup Entries(a) \cup Entries(b)
          BY <3>7
        <5>3. PartedRight(Entries(t), key, r, Entries(a), Entries(b))
          BY <5>1, <5>2, PartBelow, Zenon
        <5> QED BY <5>3 DEF PartedRight
      <4>6. Entries(v) = {r} \cup Entries(a) \cup Entries(y.left) /\ Good(v)
        BY <4>4 DEF Grafted, r
      <4>7. Refresh(y.right) \in Levels[m]
        BY <4>2, <1>3, <3>2, LevelsGrow
      <4> QED BY <4>1, <4>2, <4>4, <4>5, <4>6, <4>7, <3>8 DEF KeepIsSound, s
    <3> QED BY <3>9, <3>10 DEF s
  <2> QED BY <2>1, <2>2
<1> QED BY <1>2, <1>4 DEF KeepSoundIn

\* The smallest, or the greatest, entry of a tree by itself.
FirstEntry(E, e) == e \in E /\ \A o \in E : o # e => ~AtMost(o[1], e[1])
LastEntry(E, e) == e \in E /\ \A o \in E : o # e => ~AtMost(e[1], o[1])

FirstLeaves(E, e, r, L, B) == FirstEntry(E, e) /\ E \ {e} = {r} \cup (L \ {e}) \cup B
LastLeaves(E, e, r, L, B) == LastEntry(E, e) /\ E \ {e} = {r} \cup L \cup (B \ {e})

LEMMA FirstOfLeft ==
  ASSUME NEW E \in SUBSET (Key \X Int), NEW L, NEW B, NEW r, E = {r} \cup L \cup B,
         Below(L, r[1]), Above(B, r[1]), NEW e, FirstEntry(L, e)
  PROVE  FirstLeaves(E, e, r, L, B)
<1>1. \A o \in E : o[1] \in Key
  OBVIOUS
<1>2. e \in L /\ e \in E /\ r \in E /\ ~AtMost(r[1], e[1])
  BY DEF FirstEntry, Below
<1>3. e # r
  BY <1>1, <1>2, KeyOrder
<1>4. ASSUME NEW o \in B PROVE ~AtMost(o[1], e[1])
  <2>1. o \in E /\ ~AtMost(o[1], r[1])
    BY DEF Above
  <2>2. AtMost(r[1], o[1])
    BY <1>1, <1>2, <2>1, KeyOrder
  <2> QED BY <1>1, <1>2, <2>1, <2>2, KeyOrder
<1>5. e \notin B
  BY <1>1, <1>2, <1>4, KeyOrder
<1>6. FirstEntry(E, e)
  BY <1>2, <1>4 DEF FirstEntry
<1> QED BY <1>3, <1>5, <1>6 DEF FirstLeaves, LastLeaves

LEMMA FirstIsRoot ==
  ASSUME NEW E \in SUBSET (Key \X Int), NEW B, NEW r, E = {r} \cup B, Above(B, r[1])
  PROVE  FirstEntry(E, r) /\ E \ {r} = B
<1>1. \A o \in E : o[1] \in Key
  OBVIOUS
<1>2. r \notin B
  BY <1>1, KeyOrder DEF Above
<1> QED BY <1>2 DEF FirstEntry, Above

LEMMA LastOfRight ==
  ASSUME NEW E \in SUBSET (Key \X Int), NEW L, NEW B, NEW r, E = {r} \cup L \cup B,
         Below(L, r[1]), Above(B, r[1]), NEW e, LastEntry(B, e)
  PROVE  LastLeaves(E, e, r, L, B)
<1>1. \A o \in E : o[1] \in Key
  OBVIOUS
<1>2. e \in B /\ e \in E /\ r \in E /\ ~AtMost(e[1], r[1])
  BY DEF LastEntry, Above
<1>3. e # r
  BY <1>1, <1>2, KeyOrder
<1>4. ASSUME NEW o \in L PROVE ~AtMost(e[1], o[1])
  <2>1. o \in E /\ ~AtMost(r[1], o[1])
    BY DEF Below
  <2>2. AtMost(o[1], r[1])
    BY <1>1, <1>2, <2>1, KeyOrder
  <2> QED BY <1>1, <1>2, <2>1, <2>2, KeyOrder
<1>5. e \notin L
  BY <1>1, <1>2, <1>4, KeyOrder
<1>6. LastEntry(E, e)
  BY <1>2, <1>4 DEF LastEntry
<1> QED BY <1>3, <1>5, <1>6 DEF FirstLeaves, LastLeaves

LEMMA LastIsRoot ==
  ASSUME NEW E \in SUBSET (Key \X Int), NEW L, NEW r, E = {r} \cup L, Below(L, r[1])
  PROVE  LastEntry(E, r) /\ E \ {r} = L
<1>1. \A o \in E : o[1] \in Key
  OBVIOUS
<1>2. r \notin L
  BY <1>1, KeyOrder DEF Below
<1> QED BY <1>2 DEF LastEntry, Below

LEMMA SmallestAre ==
  /\ SplitSmallest(None) = [left |-> None, right |-> None]
  /\ \A h \in 1 .. MaxNodes : \A t \in Node(Levels[h - 1]) :
       SplitSmallest(t) = SmallestOf(t, SplitSmallest(Lt(t)))
<1> DEFINE f == CHOOSE f : f = [s \in Trees |-> SmallestOf(s, f[Lt(s)])]
<1>1. \E g : g = [s \in Trees |-> SmallestOf(s, g[Lt(s)])]
  <2>1. PICK g : g = [s \in Trees |-> Walk("smallest", 0, s, g[Lt(s)], g[Rt(s)])]
    BY WalkOnTrees
  <2>2. g = [s \in Trees |-> SmallestOf(s, g[Lt(s)])]
    BY <2>1 DEF Walk
  <2> QED BY <2>2
<1>2. f = [s \in Trees |-> SmallestOf(s, f[Lt(s)])]
  BY <1>1
<1>3. \A t : SplitSmallest(t) = f[t]
  BY DEF SplitSmallest, SmallestOf, Lt
<1> HIDE DEF f
<1>4. \A s \in Trees : f[s] = SmallestOf(s, f[Lt(s)])
  BY <1>2, Zenon
<1>5. None \in Trees
  BY Sizes, NoneInLevels, InTrees, 0 \in 0 .. MaxNodes
<1>6. SplitSmallest(None) = [left |-> None, right |-> None]
  BY <1>3, <1>4, <1>5 DEF SmallestOf
<1>7. ASSUME NEW h \in 1 .. MaxNodes, NEW t \in Node(Levels[h - 1])
      PROVE  SplitSmallest(t) = SmallestOf(t, SplitSmallest(Lt(t)))
  <2>1. t \in Trees
    BY Sizes, LevelsAre, InTrees, h \in 0 .. MaxNodes
  <2> QED BY <2>1, <1>3, <1>4
<1> QED BY <1>6, <1>7

LEMMA GreatestAre ==
  /\ SplitGreatest(None) = [left |-> None, right |-> None]
  /\ \A h \in 1 .. MaxNodes : \A t \in Node(Levels[h - 1]) :
       SplitGreatest(t) = GreatestOf(t, SplitGreatest(Rt(t)))
<1> DEFINE f == CHOOSE f : f = [s \in Trees |-> GreatestOf(s, f[Rt(s)])]
<1>1. \E g : g = [s \in Trees |-> GreatestOf(s, g[Rt(s)])]
  <2>1. PICK g : g = [s \in Trees |-> Walk("greatest", 0, s, g[Lt(s)], g[Rt(s)])]
    BY WalkOnTrees
  <2>2. g = [s \in Trees |-> GreatestOf(s, g[Rt(s)])]
    BY <2>1 DEF Walk
  <2> QED BY <2>2
<1>2. f = [s \in Trees |-> GreatestOf(s, f[Rt(s)])]
  BY <1>1
<1>3. \A t : SplitGreatest(t) = f[t]
  BY DEF SplitGreatest, GreatestOf, Rt
<1> HIDE DEF f
<1>4. \A s \in Trees : f[s] = GreatestOf(s, f[Rt(s)])
  BY <1>2, Zenon
<1>5. None \in Trees
  BY Sizes, NoneInLevels, InTrees, 0 \in 0 .. MaxNodes
<1>6. SplitGreatest(None) = [left |-> None, right |-> None]
  BY <1>3, <1>4, <1>5 DEF GreatestOf
<1>7. ASSUME NEW h \in 1 .. MaxNodes, NEW t \in Node(Levels[h - 1])
      PROVE  SplitGreatest(t) = GreatestOf(t, SplitGreatest(Rt(t)))
  <2>1. t \in Trees
    BY Sizes, LevelsAre, InTrees, h \in 0 .. MaxNodes
  <2> QED BY <2>1, <1>3, <1>4
<1> QED BY <1>6, <1>7

LEMMA EntriesOfNode ==
  ASSUME NEW h \in 0 .. MaxNodes, NEW t \in Levels[h], t # None
  PROVE  <<t.key, t.value>> \in Entries(t)
<1>1. h \in 1 .. MaxNodes /\ t \in Node(Levels[h - 1])
  BY LevelCases
<1> QED BY <1>1, EntriesNode

\* `one` is the tree of the entry e alone, `rest` that of the others.
OneAndRest(h, t, e, one, rest) ==
  /\ one \in Levels[h] /\ rest \in Levels[h] /\ one # None
  /\ Good(one) /\ Good(rest)
  /\ Entries(one) = {e} /\ Entries(rest) = Entries(t) \ {e}

LEMMA OneIs ==
  ASSUME NEW h \in 0 .. MaxNodes, NEW t, NEW e, NEW one, NEW rest,
         OneAndRest(h, t, e, one, rest)
  PROVE  e = <<one.key, one.value>>
BY EntriesOfNode DEF OneAndRest

SmallestSoundIn(h) ==
  \A t \in Levels[h] : Good(t) /\ t # None =>
    \E e : FirstEntry(Entries(t), e) /\ OneAndRest(h, t, e, SplitSmallest(t).left, SplitSmallest(t).right)

LEMMA SmallestSound ==
  ASSUME NEW h \in 0 .. MaxNodes
  PROVE  SmallestSoundIn(h)
<1> DEFINE bad == {m \in Nat : m <= MaxNodes /\ ~SmallestSoundIn(m)}
<1>1. SUFFICES ASSUME bad # {} PROVE FALSE
  BY Sizes
<1>2. PICK m \in bad : \A k \in bad : m <= k
  BY <1>1, LeastNumber
<1>3. m \in 0 .. MaxNodes
  BY <1>2, Sizes
<1>4. ASSUME NEW t \in Levels[m], Good(t), t # None
      PROVE  \E e : /\ FirstEntry(Entries(t), e)
                    /\ OneAndRest(m, t, e, SplitSmallest(t).left, SplitSmallest(t).right)
  <2>1. m \in 1 .. MaxNodes /\ m - 1 \in 0 .. MaxNodes /\ t \in Node(Levels[m - 1])
    BY <1>3, <1>4, LevelCases
  <2>2. m - 1 \in Nat /\ m - 1 <= MaxNodes /\ m - 1 < m /\ m - 1 \in 0 .. m
    BY <2>1, Sizes
  <2>3. SmallestSoundIn(m - 1)
    <3>1. m - 1 \notin bad
      BY <1>2, <2>2
    <3> QED BY <2>2, <3>1
  <2> DEFINE a == Lt(t)
             b == Rt(t)
             s == SplitSmallest(t)
             x == SplitSmallest(a)
             u == Unlazy(t)
             r == <<t.key, t.value>>
  <2>4. s = SmallestOf(t, x)
    BY <2>1, SmallestAre
  <2>5. u.left = a /\ u.right = b /\ a \in Levels[m - 1] /\ b \in Levels[m - 1] /\ u.key = t.key
    BY <2>1, UnlazyNode
  <2>6. Good(a) /\ Good(b) /\ Below(Entries(a), t.key) /\ Above(Entries(b), t.key)
    BY <2>1, <1>4, GoodNode
  <2>7. /\ Entries(t) \in SUBSET (Key \X Int)
        /\ Entries(t) = {r} \cup Entries(a) \cup Entries(b) /\ r[1] = t.key
    BY <2>1, <1>3, EntriesNode, EntriesTyped
  <2>8. Levels[m - 1] \subseteq Levels[m]
    BY <1>3, <2>2, LevelsGrow
  <2> HIDE DEF s, x
  <2>9. CASE a # None
    <3>1. PICK e : FirstEntry(Entries(a), e) /\ OneAndRest(m - 1, a, e, x.left, x.right)
      BY <2>3, <2>5, <2>6, <2>9 DEF SmallestSoundIn, x
    <3> DEFINE v == Refresh([u EXCEPT !.left = x.right])
    <3>2. s = [left |-> Refresh(x.left), right |-> v]
      BY <1>4, <2>4, <2>5, <2>9 DEF SmallestOf
    <3>3. /\ Refresh(x.left) \in Levels[m - 1] /\ Good(Refresh(x.left))
          /\ Entries(Refresh(x.left)) = {e} /\ Refresh(x.left) # None
      BY <2>1, <3>1, RefreshSame DEF OneAndRest
    <3>4. Below(Entries(x.right), t.key)
      BY <2>6, <3>1 DEF OneAndRest, Below
    <3>5. v \in Levels[m] /\ Grafted(v, t, Entries(x.right), Entries(b))
      BY <2>1, <2>6, <3>1, <3>4, GraftLeft DEF OneAndRest
    <3> HIDE DEF a, b, u, v, r
    <3>6. FirstEntry(Entries(t), e) /\ Entries(t) \ {e} = {r} \cup (Entries(a) \ {e}) \cup Entries(b)
      <4>1. Below(Entries(a), r[1]) /\ Above(Entries(b), r[1])
        BY <2>6, <2>7
      <4>2. Entries(t) \in SUBSET (Key \X Int) /\ Entries(t) = {r} \cup Entries(a) \cup Entries(b)
        BY <2>7
      <4>3. FirstLeaves(Entries(t), e, r, Entries(a), Entries(b))
        BY <3>1, <4>1, <4>2, FirstOfLeft, Zenon
      <4> QED BY <4>3 DEF FirstLeaves
    <3>7. Entries(v) = Entries(t) \ {e} /\ Good(v)
      BY <3>1, <3>5, <3>6 DEF Grafted, OneAndRest, r
    <3>8. OneAndRest(m, t, e, s.left, s.right)
      BY <2>8, <3>2, <3>3, <3>5, <3>7 DEF OneAndRest
    <3> QED BY <3>6, <3>8 DEF s
  <2>10. CASE a = None
    <3> DEFINE v == Refresh([u EXCEPT !.right = None])
    <3>1. s = [left |-> v, right |-> Refresh(b)]
      BY <1>4, <2>4, <2>5, <2>10 DEF SmallestOf
    <3>2. /\ Refresh(b) \in Levels[m - 1] /\ Good(Refresh(b)) /\ Entries(Refresh(b)) = Entries(b)
      BY <2>1, <2>5, <2>6, RefreshSame
    <3>3. None \in Levels[m - 1] /\ Good(None) /\ Entries(None) = {} /\ Above(Entries(None), t.key)
      BY <2>1, NoneInLevels, NoEntries DEF Above
    <3>4. v \in Levels[m] /\ Grafted(v, t, Entries(a), Entries(None))
      BY <2>1, <2>6, <3>3, GraftRight
    <3> HIDE DEF a, b, u, v, r
    <3>5. Entries(a) = {}
      BY <2>10, NoEntries
    <3>6. FirstEntry(Entries(t), r) /\ Entries(t) \ {r} = Entries(b)
      <4>1. Above(Entries(b), r[1])
        BY <2>6, <2>7
      <4>2. Entries(t) \in SUBSET (Key \X Int) /\ Entries(t) = {r} \cup Entries(b)
        BY <2>7, <3>5
      <4> QED BY <4>1, <4>2, FirstIsRoot, ZenonT(40)
    <3>7. Entries(v) = {r} /\ Good(v) /\ v # None
      BY <3>3, <3>4, <3>5 DEF Grafted, r
    <3>8. OneAndRest(m, t, r, s.left, s.right)
      BY <2>8, <3>1, <3>2, <3>4, <3>6, <3>7 DEF OneAndRest
    <3> QED BY <3>6, <3>8 DEF s
  <2> QED BY <2>9, <2>10
<1> QED BY <1>2, <1>4 DEF SmallestSoundIn

GreatestSoundIn(h) ==
  \A t \in Levels[h] : Good(t) /\ t # None =>
    \E e : LastEntry(Entries(t), e) /\ OneAndRest(h, t, e, SplitGreatest(t).right, SplitGreatest(t).left)

LEMMA GreatestSound ==
  ASSUME NEW h \in 0 .. MaxNodes
  PROVE  GreatestSoundIn(h)
<1> DEFINE bad == {m \in Nat : m <= MaxNodes /\ ~GreatestSoundIn(m)}
<1>1. SUFFICES ASSUME bad # {} PROVE FALSE
  BY Sizes
<1>2. PICK m \in bad : \A k \in bad : m <= k
  BY <1>1, LeastNumber
<1>3. m \in 0 .. MaxNodes
  BY <1>2, Sizes
<1>4. ASSUME NEW t \in Levels[m], Good(t), t # None
      PROVE  \E e : /\ LastEntry(Entries(t), e)
                    /\ OneAndRest(m, t, e, SplitGreatest(t).right, SplitGreatest(t).left)
  <2>1. m \in 1 .. MaxNodes /\ m - 1 \in 0 .. MaxNodes /\ t \in Node(Levels[m - 1])
    BY <1>3, <1>4, LevelCases
  <2>2. m - 1 \in Nat /\ m - 1 <= MaxNodes /\ m - 1 < m /\ m - 1 \in 0 .. m
    BY <2>1, Sizes
  <2>3. GreatestSoundIn(m - 1)
    <3>1. m - 1 \notin bad
      BY <1>2, <2>2
    <3> QED BY <2>2, <3>1
  <2> DEFINE a == Lt(t)
             b == Rt(t)
             s == SplitGreatest(t)
             y == SplitGreatest(b)
             u == Unlazy(t)
             r == <<t.key, t.value>>
  <2>4. s = GreatestOf(t, y)
    BY <2>1, GreatestAre
  <2>5. u.left = a /\ u.right = b /\ a \in Levels[m - 1] /\ b \in Levels[m - 1] /\ u.key = t.key
    BY <2>1, UnlazyNode
  <2>6. Good(a) /\ Good(b) /\ Below(Entries(a), t.key) /\ Above(Entries(b), t.key)
    BY <2>1, <1>4, GoodNode
  <2>7. /\ Entries(t) \in SUBSET (Key \X Int)
        /\ Entries(t) = {r} \cup Entries(a) \cup Entries(b) /\ r[1] = t.key
    BY <2>1, <1>3, EntriesNode, EntriesTyped
  <2>8. Levels[m - 1] \subseteq Levels[m]
    BY <1>3, <2>2, LevelsGrow
  <2> HIDE DEF s, y
  <2>9. CASE b # None
    <3>1. PICK e : LastEntry(Entries(b), e) /\ OneAndRest(m - 1, b, e, y.right, y.left)
      BY <2>3, <2>5, <2>6, <2>9 DEF GreatestSoundIn, y
    <3> DEFINE v == Refresh([u EXCEPT !.right = y.left])
    <3>2. s = [left |-> v, right |-> Refresh(y.right)]
      BY <1>4, <2>4, <2>5, <2>9 DEF GreatestOf
    <3>3. /\ Refresh(y.right) \in Levels[m - 1] /\ Good(Refresh(y.right))
          /\ Entries(Refresh(y.right)) = {e} /\ Refresh(y.right) # None
      BY <2>1, <3>1, RefreshSame DEF OneAndRest
    <3>4. Above(Entries(y.left), t.key)
      BY <2>6, <3>1 DEF OneAndRest, Above
    <3>5. v \in Levels[m] /\ Grafted(v, t, Entries(a), Entries(y.left))
      BY <2>1, <2>6, <3>1, <3>4, GraftRight DEF OneAndRest
    <3> HIDE DEF a, b, u, v, r
    <3>6. LastEntry(Entries(t), e) /\ Entries(t) \ {e} = {r} \cup Entries(a) \cup (Entries(b) \ {e})
      <4>1. Below(Entries(a), r[1]) /\ Above(Entries(b), r[1])
        BY <2>6, <2>7
      <4>2. Entries(t) \in SUBSET (Key \X Int) /\ Entries(t) = {r} \cup Entries(a) \cup Entries(b)
        BY <2>7
      <4>3. LastLeaves(Entries(t), e, r, Entries(a), Entries(b))
        BY <3>1, <4>1, <4>2, LastOfRight, Zenon
      <4> QED BY <4>3 DEF LastLeaves
    <3>7. Entries(v) = Entries(t) \ {e} /\ Good(v)
      BY <3>1, <3>5, <3>6 DEF Grafted, OneAndRest, r
    <3>8. OneAndRest(m, t, e, s.right, s.left)
      BY <2>8, <3>2, <3>3, <3>5, <3>7 DEF OneAndRest
    <3> QED BY <3>6, <3>8 DEF s
  <2>10. CASE b = None
    <3> DEFINE v == Refresh([u EXCEPT !.left = None])
    <3>1. s = [left |-> Refresh(a), right |-> v]
      BY <1>4, <2>4, <2>5, <2>10 DEF GreatestOf
    <3>2. /\ Refresh(a) \in Levels[m - 1] /\ Good(Refresh(a)) /\ Entries(Refresh(a)) = Entries(a)
      BY <2>1, <2>5, <2>6, RefreshSame
    <3>3. None \in Levels[m - 1] /\ Good(None) /\ Entries(None) = {} /\ Below(Entries(None), t.key)
      BY <2>1, NoneInLevels, NoEntries DEF Below
    <3>4. v \in Levels[m] /\ Grafted(v, t, Entries(None), Entries(b))
      BY <2>1, <2>6, <3>3, GraftLeft
    <3> HIDE DEF a, b, u, v, r
    <3>5. Entries(b) = {}
      BY <2>10, NoEntries
    <3>6. LastEntry(Entries(t), r) /\ Entries(t) \ {r} = Entries(a)
      <4>1. Below(Entries(a), r[1])
        BY <2>6, <2>7
      <4>2. Entries(t) \in SUBSET (Key \X Int) /\ Entries(t) = {r} \cup Entries(a)
        BY <2>7, <3>5
      <4> QED BY <4>1, <4>2, LastIsRoot, ZenonT(40)
    <3>7. Entries(v) = {r} /\ Good(v) /\ v # None
      BY <3>3, <3>4, <3>5 DEF Grafted, r
    <3>8. OneAndRest(m, t, r, s.right, s.left)
      BY <2>8, <3>1, <3>2, <3>4, <3>6, <3>7 DEF OneAndRest
    <3> QED BY <3>6, <3>8 DEF s
  <2> QED BY <2>9, <2>10
<1> QED BY <1>2, <1>4 DEF GreatestSoundIn

(***************************************************************************)
(* Merge, on pairs of trees by the sum of their levels.                    *)
(***************************************************************************)
Pairs(n) ==
  {p \in Trees \X Trees :
     \E i, j \in 0 .. MaxNodes : i + j <= n /\ p[1] \in Levels[i] /\ p[2] \in Levels[j]}

MergeOf(p, x, y) ==
  IF p[1] = None THEN p[2]
  ELSE IF p[2] = None THEN p[1]
  ELSE LET u == Unlazy(p[1])
           v == Unlazy(p[2])
       IN  IF u.priority > v.priority THEN Refresh([u EXCEPT !.right = x])
                                      ELSE Refresh([v EXCEPT !.left = y])

MergeUpTo(f, n) ==
  f = [p \in Pairs(n) |-> MergeOf(p, f[<<Rt(p[1]), p[2]>>], f[<<p[1], Lt(p[2])>>])]

LEMMA PairsGrow ==
  ASSUME NEW n \in Nat, NEW k \in 0 .. n
  PROVE  Pairs(k) \subseteq Pairs(n)
BY DEF Pairs

LEMMA PairsBelow ==
  ASSUME NEW n \in Nat, NEW p \in Pairs(n), p[1] # None, p[2] # None
  PROVE  /\ n # 0
         /\ <<Rt(p[1]), p[2]>> \in Pairs(n - 1) /\ <<p[1], Lt(p[2])>> \in Pairs(n - 1)
<1>1. PICK i \in 0 .. MaxNodes, j \in 0 .. MaxNodes :
        i + j <= n /\ p[1] \in Levels[i] /\ p[2] \in Levels[j]
  BY DEF Pairs
<1> DEFINE a == p[1]
           b == p[2]
<1>2. i \in 1 .. MaxNodes /\ i - 1 \in 0 .. MaxNodes /\ a \in Node(Levels[i - 1])
  BY <1>1, LevelCases
<1>3. j \in 1 .. MaxNodes /\ j - 1 \in 0 .. MaxNodes /\ b \in Node(Levels[j - 1])
  BY <1>1, LevelCases
<1>4. Rt(a) \in Levels[i - 1] /\ Lt(b) \in Levels[j - 1]
  BY <1>2, <1>3, UnlazyNode
<1>5. a \in Trees /\ b \in Trees /\ Rt(a) \in Trees /\ Lt(b) \in Trees
  BY <1>1, <1>2, <1>3, <1>4, InTrees
<1>6. n # 0 /\ (i - 1) + j <= n - 1 /\ i + (j - 1) <= n - 1
  BY <1>1, <1>2, <1>3, Sizes
<1> HIDE DEF a, b
<1>7. a \in Levels[i] /\ b \in Levels[j]
  BY <1>1 DEF a, b
<1>8. <<Rt(a), b>> \in Pairs(n - 1)
  BY <1>1, <1>2, <1>4, <1>5, <1>6, <1>7 DEF Pairs
<1>9. <<a, Lt(b)>> \in Pairs(n - 1)
  BY <1>1, <1>3, <1>4, <1>5, <1>6, <1>7 DEF Pairs
<1> QED BY <1>6, <1>8, <1>9 DEF a, b

LEMMA MergeOfSame ==
  ASSUME NEW p, NEW x, NEW y, NEW v, NEW w,
         p[1] # None /\ p[2] # None => x = v /\ y = w
  PROVE  MergeOf(p, x, y) = MergeOf(p, v, w)
BY DEF MergeOf

LEMMA MergeExists ==
  ASSUME NEW n \in Nat
  PROVE  \E f : MergeUpTo(f, n)
<1> DEFINE bad == {m \in Nat : ~\E f : MergeUpTo(f, m)}
<1>1. SUFFICES ASSUME bad # {} PROVE FALSE
  OBVIOUS
<1>2. PICK m \in bad : \A k \in bad : m <= k
  BY <1>1, LeastNumber
<1>3. m # 0
  <2> DEFINE f == [p \in Pairs(0) |-> MergeOf(p, {}, {})]
  <2>1. ASSUME NEW p \in Pairs(0)
        PROVE  MergeOf(p, {}, {}) = MergeOf(p, f[<<Rt(p[1]), p[2]>>], f[<<p[1], Lt(p[2])>>])
    <3>1. ~(p[1] # None /\ p[2] # None)
      BY PairsBelow
    <3> HIDE DEF f
    <3> QED BY <3>1, MergeOfSame
  <2>2. MergeUpTo(f, 0)
    BY <2>1 DEF MergeUpTo
  <2> QED BY <1>2, <2>2
<1>4. m - 1 \in Nat /\ m - 1 \in 0 .. m
  BY <1>2, <1>3
<1>5. PICK g : MergeUpTo(g, m - 1)
  BY <1>2, <1>4
<1> DEFINE f == [p \in Pairs(m) |-> MergeOf(p, g[<<Rt(p[1]), p[2]>>], g[<<p[1], Lt(p[2])>>])]
<1>6. ASSUME NEW p \in Pairs(m - 1) PROVE f[p] = g[p]
  <2>1. g[p] = MergeOf(p, g[<<Rt(p[1]), p[2]>>], g[<<p[1], Lt(p[2])>>])
    BY <1>5, Zenon DEF MergeUpTo
  <2>2. p \in Pairs(m)
    BY <1>2, <1>4, PairsGrow
  <2> QED BY <2>1, <2>2, Zenon
<1>7. ASSUME NEW p \in Pairs(m)
      PROVE  MergeOf(p, g[<<Rt(p[1]), p[2]>>], g[<<p[1], Lt(p[2])>>]) =
               MergeOf(p, f[<<Rt(p[1]), p[2]>>], f[<<p[1], Lt(p[2])>>])
  <2>1. ASSUME p[1] # None, p[2] # None
        PROVE  /\ f[<<Rt(p[1]), p[2]>>] = g[<<Rt(p[1]), p[2]>>]
               /\ f[<<p[1], Lt(p[2])>>] = g[<<p[1], Lt(p[2])>>]
    <3>1. <<Rt(p[1]), p[2]>> \in Pairs(m - 1) /\ <<p[1], Lt(p[2])>> \in Pairs(m - 1)
      BY <1>2, <2>1, PairsBelow
    <3> HIDE DEF f
    <3> QED BY <1>6, <3>1
  <2> HIDE DEF f
  <2> QED BY <2>1, MergeOfSame
<1>8. MergeUpTo(f, m)
  BY <1>7 DEF MergeUpTo
<1> QED BY <1>2, <1>8

LEMMA MergeAre ==
  /\ \A b \in Trees : Merge(None, b) = b
  /\ \A a \in Trees : Merge(a, None) = a
  /\ \A a, b \in Trees : Merge(a, b) = MergeOf(<<a, b>>, Merge(Rt(a), b), Merge(a, Lt(b)))
<1> DEFINE f == CHOOSE f : f = [p \in Trees \X Trees |->
                                  MergeOf(p, f[<<Rt(p[1]), p[2]>>], f[<<p[1], Lt(p[2])>>])]
<1>1. Pairs(2 * MaxNodes) = Trees \X Trees
  <2>1. MaxNodes \in 0 .. MaxNodes /\ MaxNodes + MaxNodes <= 2 * MaxNodes
    BY Sizes
  <2> QED BY <2>1 DEF Pairs, Trees
<1>2. 2 * MaxNodes \in Nat
  BY Sizes
<1>3. PICK g : g = [p \in Trees \X Trees |->
                      MergeOf(p, g[<<Rt(p[1]), p[2]>>], g[<<p[1], Lt(p[2])>>])]
  <2>1. PICK g : MergeUpTo(g, 2 * MaxNodes)
    BY <1>2, MergeExists
  <2>2. g = [p \in Trees \X Trees |-> MergeOf(p, g[<<Rt(p[1]), p[2]>>], g[<<p[1], Lt(p[2])>>])]
    BY <1>1, <2>1 DEF MergeUpTo
  <2> QED BY <2>2
<1>4. f = [p \in Trees \X Trees |-> MergeOf(p, f[<<Rt(p[1]), p[2]>>], f[<<p[1], Lt(p[2])>>])]
  BY <1>3
<1>5. \A a, b : Merge(a, b) = f[<<a, b>>]
  BY DEF Merge, MergeOf, Lt, Rt
<1> HIDE DEF f
<1>6. \A p \in Trees \X Trees :
        f[p] = MergeOf(p, f[<<Rt(p[1]), p[2]>>], f[<<p[1], Lt(p[2])>>])
  BY <1>4, Zenon
<1>7. ASSUME NEW a \in Trees, NEW b \in Trees
      PROVE  Merge(a, b) = MergeOf(<<a, b>>, Merge(Rt(a), b), Merge(a, Lt(b)))
  <2>1. <<a, b>> \in Trees \X Trees /\ <<a, b>>[1] = a /\ <<a, b>>[2] = b
    OBVIOUS
  <2>2. f[<<a, b>>] = MergeOf(<<a, b>>, f[<<Rt(a), b>>], f[<<a, Lt(b)>>])
    BY <1>6, <2>1
  <2> QED BY <1>5, <2>2
<1>8. None \in Trees
  BY Sizes, NoneInLevels, InTrees, 0 \in 0 .. MaxNodes
<1>9. ASSUME NEW b \in Trees PROVE Merge(None, b) = b
  BY <1>7, <1>8 DEF MergeOf
<1>10. ASSUME NEW a \in Trees PROVE Merge(a, None) = a
  BY <1>7, <1>8 DEF MergeOf
<1> QED BY <1>7, <1>9, <1>10

(***************************************************************************)
(* A sound tree needs no more levels than it has entries.                  *)
(***************************************************************************)
LevelIsCountIn(h) ==
  \A t \in Levels[h] : Good(t) =>
    /\ IsFiniteSet(Entries(t))
    /\ \A k \in 0 .. MaxNodes : Cardinality(Entries(t)) <= k => t \in Levels[k]

LEMMA NodeLevel ==
  ASSUME NEW h \in 1 .. MaxNodes, NEW t \in Node(Levels[h - 1]),
         NEW k \in 1 .. MaxNodes, Lt(t) \in Levels[k - 1], Rt(t) \in Levels[k - 1]
  PROVE  t \in Levels[k]
<1>0. h - 1 \in 0 .. MaxNodes /\ k - 1 \in 0 .. MaxNodes /\ k \in 0 .. MaxNodes /\ k # 0
  BY Sizes
<1>1. /\ t.value \in Int /\ t.max \in Int /\ t.min \in Int /\ t.lazy \in Int
      /\ t.key \in Key /\ t.priority \in Nat
      /\ t.left \in Levels[h - 1] /\ t.right \in Levels[h - 1]
  BY NodeFields
<1>2. Lt(t) = SumAll(t.left, t.lazy) /\ Rt(t) = SumAll(t.right, t.lazy)
  BY UnlazyNode
<1>3. -t.lazy \in Int /\ t.lazy + (-t.lazy) = 0
  BY <1>1
<1>4. SumAll(Lt(t), -t.lazy) = t.left /\ SumAll(Rt(t), -t.lazy) = t.right
  <2> DEFINE c == t.lazy
             d == -t.lazy
             l == h - 1
             x == t.left
             y == t.right
  <2>a. c \in Int /\ d \in Int /\ l \in 0 .. MaxNodes /\ x \in Levels[l] /\ y \in Levels[l]
    BY <1>0, <1>1, <1>3
  <2> HIDE DEF c, d, l, x, y
  <2>b. SumAll(SumAll(x, c), d) = SumAll(x, c + d) /\ SumAll(SumAll(y, c), d) = SumAll(y, c + d)
    BY <2>a, SumTwice
  <2>1. /\ SumAll(SumAll(t.left, t.lazy), -t.lazy) = SumAll(t.left, t.lazy + (-t.lazy))
        /\ SumAll(SumAll(t.right, t.lazy), -t.lazy) = SumAll(t.right, t.lazy + (-t.lazy))
    BY <2>b DEF c, d, x, y
  <2>2. SumAll(t.left, 0) = t.left /\ SumAll(t.right, 0) = t.right
    BY <1>0, <1>1, SumZero
  <2> QED BY <1>2, <1>3, <2>1, <2>2
<1>5. SumAll(Lt(t), -t.lazy) \in Levels[k - 1] /\ SumAll(Rt(t), -t.lazy) \in Levels[k - 1]
  BY <1>0, <1>3, SumLevel
<1>6. t.left \in Levels[k - 1] /\ t.right \in Levels[k - 1]
  BY <1>4, <1>5
<1>7. t \in Node(Levels[k - 1])
  BY <1>1, <1>6 DEF Node
<1> QED BY <1>0, <1>7, NodeInLevels

LEMMA LevelIsCount ==
  ASSUME NEW h \in 0 .. MaxNodes
  PROVE  LevelIsCountIn(h)
<1> DEFINE bad == {m \in Nat : m <= MaxNodes /\ ~LevelIsCountIn(m)}
<1>1. SUFFICES ASSUME bad # {} PROVE FALSE
  BY Sizes
<1>2. PICK m \in bad : \A k \in bad : m <= k
  BY <1>1, LeastNumber
<1>3. m \in 0 .. MaxNodes
  BY <1>2, Sizes
<1>4. ASSUME NEW t \in Levels[m], Good(t)
      PROVE  /\ IsFiniteSet(Entries(t))
             /\ \A k \in 0 .. MaxNodes : Cardinality(Entries(t)) <= k => t \in Levels[k]
  <2>1. CASE t = None
    <3>1. Entries(t) = {}
      BY <2>1, NoEntries
    <3>2. \A k \in 0 .. MaxNodes : t \in Levels[k]
      BY <2>1, NoneInLevels
    <3> QED BY <3>1, <3>2, FS_EmptySet
  <2>2. CASE t # None
    <3>1. m \in 1 .. MaxNodes /\ m - 1 \in 0 .. MaxNodes /\ t \in Node(Levels[m - 1])
      BY <1>3, <2>2, LevelCases
    <3>2. m - 1 \in Nat /\ m - 1 <= MaxNodes /\ m - 1 < m
      BY <3>1, Sizes
    <3>3. LevelIsCountIn(m - 1)
      <4>1. m - 1 \notin bad
        BY <1>2, <3>2
      <4> QED BY <3>2, <4>1
    <3> DEFINE a == Lt(t)
               b == Rt(t)
               r == <<t.key, t.value>>
    <3>4. a \in Levels[m - 1] /\ b \in Levels[m - 1] /\ t.key \in Key
      BY <3>1, UnlazyNode, NodeFields
    <3>5. Good(a) /\ Good(b) /\ Below(Entries(a), t.key) /\ Above(Entries(b), t.key)
      BY <3>1, <1>4, GoodNode
    <3>6. Entries(t) = {r} \cup Entries(a) \cup Entries(b) /\ r[1] = t.key
      BY <3>1, EntriesNode
    <3>7. r \notin Entries(a) /\ r \notin Entries(b)
      BY <3>4, <3>5, <3>6, KeyOrder DEF Below, Above
    <3>8. /\ IsFiniteSet(Entries(a))
          /\ \A k \in 0 .. MaxNodes : Cardinality(Entries(a)) <= k => a \in Levels[k]
      BY <3>3, <3>4, <3>5 DEF LevelIsCountIn
    <3>9. /\ IsFiniteSet(Entries(b))
          /\ \A k \in 0 .. MaxNodes : Cardinality(Entries(b)) <= k => b \in Levels[k]
      BY <3>3, <3>4, <3>5 DEF LevelIsCountIn
    <3> HIDE DEF r, a, b
    <3>10. IsFiniteSet(Entries(t))
      <4>1. IsFiniteSet(Entries(a) \cup Entries(b))
        BY <3>8, <3>9, FS_Union
      <4>2. Entries(t) = (Entries(a) \cup Entries(b)) \cup {r}
        BY <3>6
      <4> QED BY <4>1, <4>2, FS_AddElement
    <3> DEFINE rest == Entries(t) \ {r}
    <3>11. /\ IsFiniteSet(rest)
           /\ Cardinality(rest) = Cardinality(Entries(t)) - 1
           /\ Cardinality(rest) \in Nat /\ Cardinality(Entries(t)) \in Nat
      BY <3>6, <3>10, FS_RemoveElement, FS_CardinalityType
    <3>12. /\ Cardinality(Entries(a)) <= Cardinality(rest)
           /\ Cardinality(Entries(b)) <= Cardinality(rest)
           /\ Cardinality(Entries(a)) \in Nat /\ Cardinality(Entries(b)) \in Nat
      <4>1. Entries(a) \subseteq rest /\ Entries(b) \subseteq rest
        BY <3>6, <3>7
      <4> HIDE DEF rest
      <4> QED BY <4>1, <3>11, FS_Subset, FS_CardinalityType
    <3>13. ASSUME NEW k \in 0 .. MaxNodes, Cardinality(Entries(t)) <= k PROVE t \in Levels[k]
      <4>1. k \in 1 .. MaxNodes /\ k - 1 \in 0 .. MaxNodes /\ Cardinality(rest) <= k - 1
        BY <3>11, <3>13, Sizes
      <4>2. a \in Levels[k - 1] /\ b \in Levels[k - 1]
        BY <3>8, <3>9, <3>11, <3>12, <4>1
      <4> QED BY <3>1, <4>1, <4>2, NodeLevel DEF a, b
    <3> QED BY <3>10, <3>13
  <2> QED BY <2>1, <2>2
<1> QED BY <1>2, <1>4 DEF LevelIsCountIn

(***************************************************************************)
(* The merge of two trees, all of one before all of the other.             *)
(***************************************************************************)
Before(L, B) == \A d \in L : \A e \in B : ~AtMost(e[1], d[1])

Joined(h, m, L, B) == m \in Levels[h] /\ Good(m) /\ Entries(m) = L \cup B

MergeSoundIn(n) ==
  \A i, j \in 0 .. MaxNodes : i + j = n =>
    \A a \in Levels[i], b \in Levels[j] :
      Good(a) /\ Good(b) /\ Before(Entries(a), Entries(b)) =>
        Joined(n, Merge(a, b), Entries(a), Entries(b))

LEMMA MergeSound ==
  ASSUME NEW n \in 0 .. MaxNodes
  PROVE  MergeSoundIn(n)
<1> DEFINE bad == {m \in Nat : m <= MaxNodes /\ ~MergeSoundIn(m)}
<1>1. SUFFICES ASSUME bad # {} PROVE FALSE
  BY Sizes
<1>2. PICK m \in bad : \A k \in bad : m <= k
  BY <1>1, LeastNumber
<1>3. m \in 0 .. MaxNodes
  BY <1>2, Sizes
<1>4. ASSUME NEW i \in 0 .. MaxNodes, NEW j \in 0 .. MaxNodes, i + j = m,
             NEW a \in Levels[i], NEW b \in Levels[j],
             Good(a), Good(b), Before(Entries(a), Entries(b))
      PROVE  Joined(m, Merge(a, b), Entries(a), Entries(b))
  <2>1. /\ i \in 0 .. m /\ j \in 0 .. m /\ a \in Trees /\ b \in Trees
        /\ a \in Levels[m] /\ b \in Levels[m]
    BY <1>3, <1>4, LevelsGrow, InTrees
  <2>2. CASE a = None
    BY <2>1, <2>2, <1>4, MergeAre, NoEntries DEF Joined
  <2>3. CASE b = None
    BY <2>1, <2>3, <1>4, MergeAre, NoEntries DEF Joined
  <2>4. CASE a # None /\ b # None
    <3>1. i \in 1 .. MaxNodes /\ i - 1 \in 0 .. MaxNodes /\ a \in Node(Levels[i - 1])
      BY <2>4, LevelCases
    <3>2. j \in 1 .. MaxNodes /\ j - 1 \in 0 .. MaxNodes /\ b \in Node(Levels[j - 1])
      BY <2>4, LevelCases
    <3>3. /\ m \in 1 .. MaxNodes /\ m - 1 \in 0 .. MaxNodes /\ m - 1 \in Nat /\ m - 1 < m
          /\ (i - 1) + j = m - 1 /\ i + (j - 1) = m - 1
          /\ i - 1 \in 0 .. m - 1 /\ j - 1 \in 0 .. m - 1
          /\ m - 1 <= MaxNodes
      BY <1>3, <1>4, <3>1, <3>2, Sizes
    <3>4. MergeSoundIn(m - 1)
      <4>1. m - 1 \notin bad
        BY <1>2, <3>3
      <4> QED BY <3>3, <4>1
    <3> DEFINE al == Lt(a)
               ar == Rt(a)
               bl == Lt(b)
               br == Rt(b)
               ra == <<a.key, a.value>>
               rb == <<b.key, b.value>>
               x == Merge(ar, b)
               y == Merge(a, bl)
    <3>5. /\ al \in Levels[i - 1] /\ ar \in Levels[i - 1]
          /\ Unlazy(a).priority = a.priority /\ Unlazy(b).priority = b.priority
          /\ bl \in Levels[j - 1] /\ br \in Levels[j - 1]
      BY <3>1, <3>2, UnlazyNode
    <3>6. /\ Good(al) /\ Good(ar) /\ Below(Entries(al), a.key) /\ Above(Entries(ar), a.key)
          /\ Good(bl) /\ Good(br) /\ Below(Entries(bl), b.key) /\ Above(Entries(br), b.key)
      BY <1>4, <3>1, <3>2, GoodNode
    <3>7. /\ Entries(a) = {ra} \cup Entries(al) \cup Entries(ar) /\ ra[1] = a.key
          /\ Entries(b) = {rb} \cup Entries(bl) \cup Entries(br) /\ rb[1] = b.key
      BY <3>1, <3>2, EntriesNode
    <3>8. Merge(a, b) = IF a.priority > b.priority THEN Refresh([Unlazy(a) EXCEPT !.right = x])
                                                   ELSE Refresh([Unlazy(b) EXCEPT !.left = y])
      <4>1. Merge(a, b) = MergeOf(<<a, b>>, x, y)
        BY <2>1, MergeAre
      <4> HIDE DEF x, y
      <4> QED BY <2>4, <3>5, <4>1 DEF MergeOf
    <3>9. a \in Node(Levels[m - 1]) /\ b \in Node(Levels[m - 1])
      <4>1. Levels[i - 1] \subseteq Levels[m - 1] /\ Levels[j - 1] \subseteq Levels[m - 1]
        BY <3>3, LevelsGrow
      <4> QED BY <3>1, <3>2, <4>1, NodeWider
    <3> HIDE DEF al, ar, bl, br, ra, rb, x, y
    <3>10. CASE a.priority > b.priority
      <4>1. Before(Entries(ar), Entries(b)) /\ Above(Entries(b), a.key)
        BY <1>4, <3>7 DEF Before, Above
      <4>2. Joined(m - 1, x, Entries(ar), Entries(b))
        BY <1>4, <3>1, <3>3, <3>4, <3>5, <3>6, <4>1 DEF MergeSoundIn, x
      <4>3. Above(Entries(x), a.key)
        BY <3>6, <4>1, <4>2 DEF Joined, Above
      <4>4. x \in Levels[m - 1] /\ Good(x) /\ Entries(x) = Entries(ar) \cup Entries(b)
        BY <4>2 DEF Joined
      <4>5. /\ Refresh([Unlazy(a) EXCEPT !.right = x]) \in Levels[m]
            /\ Grafted(Refresh([Unlazy(a) EXCEPT !.right = x]), a, Entries(al), Entries(x))
        BY <3>3, <3>6, <3>9, <4>3, <4>4, GraftRight DEF al
      <4> QED BY <3>7, <3>8, <3>10, <4>4, <4>5 DEF Grafted, Joined, ra
    <3>11. CASE ~(a.priority > b.priority)
      <4>1. Before(Entries(a), Entries(bl)) /\ Below(Entries(a), b.key)
        BY <1>4, <3>7 DEF Before, Below
      <4>2. Joined(m - 1, y, Entries(a), Entries(bl))
        BY <1>4, <3>2, <3>3, <3>4, <3>5, <3>6, <4>1 DEF MergeSoundIn, y
      <4>3. Below(Entries(y), b.key)
        BY <3>6, <4>1, <4>2 DEF Joined, Below
      <4>4. y \in Levels[m - 1] /\ Good(y) /\ Entries(y) = Entries(a) \cup Entries(bl)
        BY <4>2 DEF Joined
      <4>5. /\ Refresh([Unlazy(b) EXCEPT !.left = y]) \in Levels[m]
            /\ Grafted(Refresh([Unlazy(b) EXCEPT !.left = y]), b, Entries(y), Entries(br))
        BY <3>3, <3>6, <3>9, <4>3, <4>4, GraftLeft DEF br
      <4> QED BY <3>7, <3>8, <3>11, <4>4, <4>5 DEF Grafted, Joined, rb
    <3> QED BY <3>10, <3>11
  <2> QED BY <2>2, <2>3, <2>4
<1> QED BY <1>2, <1>4 DEF MergeSoundIn

(***************************************************************************)
(* The operations on trees by what they store.                             *)
(***************************************************************************)
Stores(t, E) == t \in Trees /\ Good(t) /\ Entries(t) = E

LEMMA TopLevel == MaxNodes \in 0 .. MaxNodes /\ Trees = Levels[MaxNodes]
BY Sizes DEF Trees

LEMMA StoresTyped ==
  ASSUME NEW t, NEW E, Stores(t, E)
  PROVE  /\ IsFiniteSet(E) /\ E \in SUBSET (Key \X Int)
         /\ t = None <=> E = {}
<1>1. t \in Levels[MaxNodes] /\ Good(t) /\ Entries(t) = E
  BY TopLevel DEF Stores
<1>2. IsFiniteSet(E)
  BY <1>1, TopLevel, LevelIsCount DEF LevelIsCountIn
<1>3. E \in SUBSET (Key \X Int)
  BY <1>1, TopLevel, EntriesTyped
<1>4. t = None <=> E = {}
  BY <1>1, TopLevel, NoEntries, EntriesOfNode
<1> QED BY <1>2, <1>3, <1>4

LEMMA StoresSum ==
  ASSUME NEW t, NEW E, Stores(t, E), NEW d \in Int
  PROVE  Stores(SumAll(t, d), Shifted(E, d))
<1>1. t \in Levels[MaxNodes] /\ Good(t) /\ Entries(t) = E
  BY TopLevel DEF Stores
<1> QED BY <1>1, TopLevel, SumSound, SumLevel DEF SumSoundIn, Stores

LEMMA StoresSplit ==
  ASSUME NEW t, NEW E, Stores(t, E), NEW key \in Key
  PROVE  /\ Stores(SplitKeepRight(t, key).left, {e \in E : ~AtMost(key, e[1])})
         /\ Stores(SplitKeepRight(t, key).right, {e \in E : AtMost(key, e[1])})
<1>1. t \in Levels[MaxNodes] /\ Good(t) /\ Entries(t) = E
  BY TopLevel DEF Stores
<1>2. KeepIsSound(MaxNodes, t, key, SplitKeepRight(t, key))
  BY <1>1, TopLevel, KeepSound DEF KeepSoundIn
<1> QED BY <1>1, <1>2, TopLevel DEF KeepIsSound, Stores

\* One node and the rest.
Taken(E, e, one, rest) ==
  /\ Stores(one, {e}) /\ Stores(rest, E \ {e}) /\ one # None /\ e = <<one.key, one.value>>

LEMMA StoresTaken ==
  ASSUME NEW t, NEW E, Stores(t, E), NEW e, NEW one, NEW rest,
         OneAndRest(MaxNodes, t, e, one, rest)
  PROVE  Taken(E, e, one, rest)
<1>1. e = <<one.key, one.value>>
  BY TopLevel, OneIs
<1> QED BY <1>1, TopLevel DEF Taken, Stores, OneAndRest

LEMMA StoresGreatest ==
  ASSUME NEW t, NEW E, Stores(t, E), t # None
  PROVE  \E e : LastEntry(E, e) /\ Taken(E, e, SplitGreatest(t).right, SplitGreatest(t).left)
<1>1. t \in Levels[MaxNodes] /\ Good(t) /\ Entries(t) = E
  BY TopLevel DEF Stores
<1>2. PICK e : /\ LastEntry(E, e)
               /\ OneAndRest(MaxNodes, t, e, SplitGreatest(t).right, SplitGreatest(t).left)
  BY <1>1, TopLevel, GreatestSound DEF GreatestSoundIn
<1>3. Taken(E, e, SplitGreatest(t).right, SplitGreatest(t).left)
  BY <1>2, StoresTaken, Zenon
<1> QED BY <1>2, <1>3

LEMMA StoresSmallest ==
  ASSUME NEW t, NEW E, Stores(t, E), t # None
  PROVE  \E e : FirstEntry(E, e) /\ Taken(E, e, SplitSmallest(t).left, SplitSmallest(t).right)
<1>1. t \in Levels[MaxNodes] /\ Good(t) /\ Entries(t) = E
  BY TopLevel DEF Stores
<1>2. PICK e : /\ FirstEntry(E, e)
               /\ OneAndRest(MaxNodes, t, e, SplitSmallest(t).left, SplitSmallest(t).right)
  BY <1>1, TopLevel, SmallestSound DEF SmallestSoundIn
<1>3. Taken(E, e, SplitSmallest(t).left, SplitSmallest(t).right)
  BY <1>2, StoresTaken, Zenon
<1> QED BY <1>2, <1>3

LEMMA StoresMerge ==
  ASSUME NEW a, NEW L, Stores(a, L), NEW b, NEW B, Stores(b, B), Before(L, B),
         Cardinality(L \cup B) <= MaxNodes
  PROVE  Stores(Merge(a, b), L \cup B)
<1>1. /\ a \in Levels[MaxNodes] /\ Good(a) /\ Entries(a) = L
      /\ b \in Levels[MaxNodes] /\ Good(b) /\ Entries(b) = B
  BY TopLevel DEF Stores
<1>2. /\ IsFiniteSet(L) /\ L \in SUBSET (Key \X Int)
      /\ IsFiniteSet(B) /\ B \in SUBSET (Key \X Int)
  BY StoresTyped
<1>3. L \cap B = {}
  BY <1>2, KeyOrder DEF Before
<1> DEFINE i == Cardinality(L)
           j == Cardinality(B)
<1>4. i \in Nat /\ j \in Nat /\ Cardinality(L \cup B) = i + j
  <2>1. i \in Nat /\ j \in Nat
    BY <1>2, FS_CardinalityType
  <2>2. Cardinality(L \cap B) = 0
    BY <1>3, FS_EmptySet
  <2>3. Cardinality(L \cup B) = Cardinality(L) + Cardinality(B) - Cardinality(L \cap B)
    BY <1>2, FS_Union
  <2> QED BY <2>1, <2>2, <2>3
<1>5. i \in 0 .. MaxNodes /\ j \in 0 .. MaxNodes /\ i + j \in 0 .. MaxNodes
  BY <1>4, Sizes
<1>6. /\ \A k \in 0 .. MaxNodes : i <= k => a \in Levels[k]
      /\ \A k \in 0 .. MaxNodes : j <= k => b \in Levels[k]
  BY <1>1, TopLevel, LevelIsCount DEF LevelIsCountIn
<1> HIDE DEF i, j
<1>7. a \in Levels[i] /\ b \in Levels[j]
  BY <1>5, <1>6, <1>4
<1>8. Joined(i + j, Merge(a, b), L, B)
  BY <1>1, <1>5, <1>7, MergeSound DEF MergeSoundIn
<1> QED BY <1>5, <1>8, InTrees DEF Joined, Stores

LEMMA StoresSingle ==
  ASSUME NEW key \in Key, NEW value \in Int, NEW priority \in Nat
  PROVE  Stores(Treap(key, value, priority), {<<key, value>>})
<1> DEFINE t == Treap(key, value, priority)
<1>1. 1 \in 1 .. MaxNodes /\ 1 \in 0 .. MaxNodes /\ 1 - 1 = 0
  BY Sizes
<1>2. Levels[0] = {None}
  BY LevelsAre
<1>3. /\ t \in Node(Levels[0]) /\ t.key = key /\ t.value = value /\ t.max = value /\ t.min = value
      /\ t.lazy = 0 /\ t.left = None /\ t.right = None
  BY <1>2 DEF Treap, Node
<1> HIDE DEF t
<1>4. Lt(t) = None /\ Rt(t) = None
  BY <1>1, <1>3, UnlazyFixed
<1>5. Entries(t) = {<<key, value>>}
  BY <1>1, <1>3, <1>4, EntriesNode, NoEntries
<1>6. Bounds(value, value, {<<key, value>>})
  BY DEF Bounds
<1>7. Good(t)
  BY <1>1, <1>3, <1>4, <1>5, <1>6, GoodNode, NoEntries DEF Below, Above
<1>8. t \in Trees
  BY <1>1, <1>3, NodeInLevels, InTrees
<1> QED BY <1>5, <1>7, <1>8 DEF Stores, t

(***************************************************************************)
(* The difference of the groups up to a key, key by key.                   *)
(***************************************************************************)
LEMMA UpToKeyFinite ==
  ASSUME NEW S \in SUBSET Key, IsFiniteSet(S), NEW key \in Key, NEW group
  PROVE  /\ IsFiniteSet(UpToKey(S, group, key)) /\ Cardinality(UpToKey(S, group, key)) \in Nat
         /\ GapIn(S, key) \in Int
<1>1. \A g : UpToKey(S, g, key) \subseteq S
  BY DEF UpToKey
<1>2. \A g : IsFiniteSet(UpToKey(S, g, key))
  BY <1>1, FS_Subset
<1>3. \A g : Cardinality(UpToKey(S, g, key)) \in Nat
  BY <1>2, FS_CardinalityType
<1>4. GapIn(S, key) \in Int
  <2>1. Cardinality(UpToKey(S, Cur, key)) \in Nat /\ Cardinality(UpToKey(S, Ref, key)) \in Nat
    BY <1>3
  <2> QED BY <2>1 DEF GapIn
<1> QED BY <1>2, <1>3, <1>4

Ahead(k, key) == IF AtMost(k, key) THEN Weight(k[3]) ELSE 0

LEMMA CountAdd ==
  ASSUME NEW S \in SUBSET Key, IsFiniteSet(S), NEW k \in Key, k \notin S, NEW key \in Key, NEW g
  PROVE  Cardinality(UpToKey(S \cup {k}, g, key)) =
           Cardinality(UpToKey(S, g, key)) + IF AtMost(k, key) /\ k[3] = g THEN 1 ELSE 0
<1> DEFINE U == UpToKey(S, g, key)
<1>1. IsFiniteSet(U) /\ k \notin U /\ Cardinality(U) \in Nat
  BY UpToKeyFinite DEF UpToKey
<1>2. CASE AtMost(k, key) /\ k[3] = g
  <2>1. UpToKey(S \cup {k}, g, key) = U \cup {k}
    BY <1>2 DEF UpToKey
  <2>2. Cardinality(U \cup {k}) = Cardinality(U) + 1
    BY <1>1, FS_AddElement
  <2> QED BY <1>1, <1>2, <2>1, <2>2
<1>3. CASE ~(AtMost(k, key) /\ k[3] = g)
  <2>1. UpToKey(S \cup {k}, g, key) = U
    BY <1>3 DEF UpToKey
  <2> QED BY <1>1, <1>3, <2>1
<1> QED BY <1>2, <1>3

LEMMA GapAdd ==
  ASSUME NEW S \in SUBSET Key, IsFiniteSet(S), NEW k \in Key, k \notin S, NEW key \in Key
  PROVE  GapIn(S \cup {k}, key) = GapIn(S, key) + Ahead(k, key)
<1> DEFINE c == Cardinality(UpToKey(S, Cur, key))
           r == Cardinality(UpToKey(S, Ref, key))
<1>1. /\ Cardinality(UpToKey(S \cup {k}, Cur, key)) =
           c + IF AtMost(k, key) /\ k[3] = Cur THEN 1 ELSE 0
      /\ Cardinality(UpToKey(S \cup {k}, Ref, key)) =
           r + IF AtMost(k, key) /\ k[3] = Ref THEN 1 ELSE 0
  BY CountAdd
<1>2. c \in Nat /\ r \in Nat
  BY UpToKeyFinite
<1>3. k[3] = Cur \/ k[3] = Ref
  BY DEF Key, Groups
<1>4. Cur # Ref
  BY DEF Cur, Ref
<1> HIDE DEF c, r
<1> QED BY <1>1, <1>2, <1>3, <1>4 DEF GapIn, Ahead, Weight, c, r

LEMMA WeightIs ==
  /\ \A k \in Key : Weight(k[3]) \in Int /\ -Weight(k[3]) \in Int
  /\ \A k, key : Ahead(k, key) = IF AtMost(k, key) THEN Weight(k[3]) ELSE 0
BY DEF Weight, Ahead

\* The keys below a key, and the greatest of them.
LEMMA GapOfNone ==
  ASSUME NEW S \in SUBSET Key, NEW key \in Key, \A k \in S : ~AtMost(k, key)
  PROVE  GapIn(S, key) = 0
<1>1. \A g : UpToKey(S, g, key) = {}
  BY DEF UpToKey
<1> QED BY <1>1, FS_EmptySet DEF GapIn

LEMMA GapOfGreatest ==
  ASSUME NEW S \in SUBSET Key, NEW key \in Key, NEW k \in S,
         \A j \in S : AtMost(j, key) <=> AtMost(j, k)
  PROVE  GapIn(S, key) = GapIn(S, k)
<1>1. \A g : UpToKey(S, g, key) = UpToKey(S, g, k)
  BY DEF UpToKey
<1> QED BY <1>1 DEF GapIn

(***************************************************************************)
(* IKS.                                                                    *)
(***************************************************************************)
GapEntries(S) == {<<k, GapIn(S, k)>> : k \in S}

\* The tree holds the keys of S, each with the difference of the groups.
Holds(t, S) ==
  /\ S \in SUBSET Key /\ IsFiniteSet(S) /\ Cardinality(S) <= MaxNodes
  /\ Stores(t, GapEntries(S))

LEMMA GapEntriesAre ==
  ASSUME NEW S \in SUBSET Key
  PROVE  /\ \A e \in GapEntries(S) : e[1] \in S /\ e[2] = GapIn(S, e[1]) /\ e = <<e[1], e[2]>>
         /\ \A k \in S : <<k, GapIn(S, k)>> \in GapEntries(S)
BY DEF GapEntries

LEMMA GapEntriesCount ==
  ASSUME NEW S \in SUBSET Key, IsFiniteSet(S)
  PROVE  /\ IsFiniteSet(GapEntries(S)) /\ Cardinality(GapEntries(S)) <= Cardinality(S)
         /\ Cardinality(GapEntries(S)) \in Nat /\ Cardinality(S) \in Nat
<1> DEFINE f == [k \in S |-> <<k, GapIn(S, k)>>]
           T == GapEntries(S)
<1>1. f \in Surjection(S, T)
  BY DEF GapEntries, Surjection
<1> HIDE DEF f, T
<1>2. IsFiniteSet(T) /\ Cardinality(T) <= Cardinality(S)
  BY <1>1, FS_Surjection
<1>3. Cardinality(T) \in Nat /\ Cardinality(S) \in Nat
  BY <1>2, FS_CardinalityType
<1> QED BY <1>2, <1>3 DEF T

Lower(E, k) == {e \in E : ~AtMost(k, e[1])}
Upper(E, k) == {e \in E : AtMost(k, e[1])}

\* One more key: the entries from there on move by its weight.
LEMMA EntriesAdd ==
  ASSUME NEW S \in SUBSET Key, IsFiniteSet(S), NEW k \in Key, k \notin S,
         NEW E, E = GapEntries(S), NEW c, c = <<k, GapIn(S, k)>>, NEW w, w = Weight(k[3])
  PROVE  Lower(E, k) \cup Shifted({c} \cup Upper(E, k), w) = GapEntries(S \cup {k})
<1> DEFINE T == S \cup {k}
           V == Lower(E, k) \cup Shifted({c} \cup Upper(E, k), w)
<1>1. T \in SUBSET Key /\ k \in T
  OBVIOUS
<1>2. \A j \in T : GapIn(T, j) = GapIn(S, j) + Ahead(k, j)
  BY <1>1, GapAdd
<1>3. \A j \in T : GapIn(S, j) \in Int /\ GapIn(S, j) + 0 = GapIn(S, j)
  BY <1>1, UpToKeyFinite
<1>4. AtMost(k, k) /\ c[1] = k /\ c[2] = GapIn(S, k)
  BY KeyOrder
<1>5. ASSUME NEW e \in V PROVE e \in GapEntries(T)
  <2>1. CASE e \in Lower(E, k)
    <3>1. e[1] \in S /\ e = <<e[1], GapIn(S, e[1])>> /\ ~AtMost(k, e[1])
      BY <2>1, GapEntriesAre DEF Lower
    <3>2. GapIn(T, e[1]) = GapIn(S, e[1])
      BY <1>1, <1>2, <1>3, <3>1 DEF Ahead
    <3> HIDE DEF T
    <3>3. e = <<e[1], GapIn(T, e[1])>> /\ e[1] \in T
      BY <3>1, <3>2 DEF T
    <3> QED BY <3>3, <1>1, GapEntriesAre
  <2>2. CASE e \in Shifted({c} \cup Upper(E, k), w)
    <3>1. PICK o \in {c} \cup Upper(E, k) : e = <<o[1], o[2] + w>>
      BY <2>2 DEF Shifted
    <3>2. o[1] \in T /\ o[2] = GapIn(S, o[1]) /\ AtMost(k, o[1])
      BY <3>1, <1>4, GapEntriesAre DEF Upper
    <3>3. GapIn(T, o[1]) = o[2] + w
      BY <1>2, <3>2 DEF Ahead
    <3> HIDE DEF T
    <3>4. e = <<o[1], GapIn(T, o[1])>>
      BY <3>1, <3>3
    <3> QED BY <3>2, <3>4, <1>1, GapEntriesAre
  <2> QED BY <2>1, <2>2
<1>6. ASSUME NEW e \in GapEntries(T) PROVE e \in V
  <2>1. e[1] \in T /\ e = <<e[1], GapIn(T, e[1])>>
    BY <1>1, GapEntriesAre
  <2> DEFINE o == <<e[1], GapIn(S, e[1])>>
  <2>2. CASE AtMost(k, e[1])
    <3>1. o \in {c} \cup Upper(E, k)
      <4>1. CASE e[1] = k
        BY <4>1
      <4>2. CASE e[1] \in S
        <5>1. o \in E
          BY <4>2, GapEntriesAre
        <5> QED BY <2>2, <5>1 DEF Upper
      <4> QED BY <2>1, <4>1, <4>2
    <3>2. e = <<o[1], o[2] + w>>
      <4>1. GapIn(T, e[1]) = GapIn(S, e[1]) + w
        BY <1>2, <2>1, <2>2 DEF Ahead
      <4> HIDE DEF T
      <4> QED BY <2>1, <4>1
    <3> QED BY <3>1, <3>2 DEF Shifted
  <2>3. CASE ~AtMost(k, e[1])
    <3>1. e[1] \in S
      BY <1>4, <2>1, <2>3
    <3>2. GapIn(T, e[1]) = GapIn(S, e[1])
      BY <1>2, <1>3, <2>1, <2>3 DEF Ahead
    <3>3. e \in E
      <4> HIDE DEF T
      <4> QED BY <2>1, <3>1, <3>2, GapEntriesAre
    <3> QED BY <2>3, <3>3 DEF Lower
  <2> QED BY <2>2, <2>3
<1> QED BY <1>5, <1>6

\* One key less.
LEMMA EntriesRemove ==
  ASSUME NEW S \in SUBSET Key, IsFiniteSet(S), NEW k \in S,
         NEW E, E = GapEntries(S), NEW c, c = <<k, GapIn(S, k)>>, NEW w, w = Weight(k[3])
  PROVE  Lower(E, k) \cup Shifted(Upper(E, k) \ {c}, -w) = GapEntries(S \ {k})
<1> DEFINE T == S \ {k}
           V == Lower(E, k) \cup Shifted(Upper(E, k) \ {c}, -w)
<1>1. T \in SUBSET Key /\ k \notin T /\ IsFiniteSet(T) /\ T \cup {k} = S
  BY FS_RemoveElement
<1>2. \A j \in T : GapIn(S, j) = GapIn(T, j) + Ahead(k, j)
  <2> HIDE DEF T
  <2>1. \A j \in T : GapIn(T \cup {k}, j) = GapIn(T, j) + Ahead(k, j)
    BY <1>1, GapAdd
  <2> QED BY <1>1, <2>1
<1>3. \A j \in T : GapIn(T, j) \in Int
  BY <1>1, UpToKeyFinite
<1>4. w \in Int /\ -w \in Int
  BY WeightIs
<1>5. \A j \in T : IF AtMost(k, j) THEN GapIn(T, j) = GapIn(S, j) + (-w)
                                   ELSE GapIn(T, j) = GapIn(S, j)
  <2> HIDE DEF T
  <2> QED BY <1>2, <1>3, <1>4 DEF Ahead
<1>6. AtMost(k, k) /\ c[1] = k
  BY KeyOrder
<1>7. ASSUME NEW e \in V PROVE e \in GapEntries(T)
  <2>1. CASE e \in Lower(E, k)
    <3>1. e[1] \in S /\ e = <<e[1], GapIn(S, e[1])>> /\ ~AtMost(k, e[1])
      BY <2>1, GapEntriesAre DEF Lower
    <3>2. e[1] \in T
      BY <1>6, <3>1
    <3> HIDE DEF T
    <3>3. e = <<e[1], GapIn(T, e[1])>>
      BY <1>5, <3>1, <3>2
    <3> QED BY <3>2, <3>3, <1>1, GapEntriesAre
  <2>2. CASE e \in Shifted(Upper(E, k) \ {c}, -w)
    <3>1. PICK o \in Upper(E, k) \ {c} : e = <<o[1], o[2] + (-w)>>
      BY <2>2 DEF Shifted
    <3>2. o[1] \in S /\ o = <<o[1], GapIn(S, o[1])>> /\ AtMost(k, o[1]) /\ o # c
      BY <3>1, GapEntriesAre DEF Upper
    <3>3. o[1] \in T
      BY <3>2
    <3> HIDE DEF T
    <3>4. e = <<o[1], GapIn(T, o[1])>>
      BY <1>5, <3>1, <3>2, <3>3
    <3> QED BY <3>3, <3>4, <1>1, GapEntriesAre
  <2> QED BY <2>1, <2>2
<1>8. ASSUME NEW e \in GapEntries(T) PROVE e \in V
  <2>1. e[1] \in T /\ e = <<e[1], GapIn(T, e[1])>>
    BY <1>1, GapEntriesAre
  <2> DEFINE o == <<e[1], GapIn(S, e[1])>>
  <2>2. o \in E /\ o # c
    BY <2>1, GapEntriesAre
  <2>3. CASE AtMost(k, e[1])
    <3>1. o \in Upper(E, k) \ {c}
      BY <2>2, <2>3 DEF Upper
    <3>2. e = <<o[1], o[2] + (-w)>>
      <4> HIDE DEF T
      <4> QED BY <1>5, <2>1, <2>3
    <3> QED BY <3>1, <3>2 DEF Shifted
  <2>4. CASE ~AtMost(k, e[1])
    <3>1. e = o
      <4> HIDE DEF T
      <4> QED BY <1>5, <2>1, <2>4
    <3> QED BY <2>2, <2>4, <3>1 DEF Lower
  <2> QED BY <2>3, <2>4
<1> QED BY <1>7, <1>8

LEMMA AddHolds ==
  ASSUME NEW q, NEW S, Holds(q.treap, S), NEW obs, NEW group, NEW priority \in Nat,
         NEW k \in Key, k = Append(obs, group), k[3] = group, k \notin S,
         Cardinality(S \cup {k}) <= MaxNodes
  PROVE  Holds(AddObservation(q, obs, group, priority).treap, S \cup {k})
<1> DEFINE E == GapEntries(S)
           w == Weight(group)
           split == SplitKeepRight(q.treap, k)
           pred == SplitGreatest(split.left)
           value == IF pred.right = None THEN 0 ELSE pred.right.value
           joined == Merge(pred.left, pred.right)
           c == <<k, value>>
           right == Merge(Treap(k, value, priority), split.right)
<1>1. /\ S \in SUBSET Key /\ IsFiniteSet(S) /\ Cardinality(S) <= MaxNodes
      /\ Stores(q.treap, E)
  BY DEF Holds
<1>2. /\ IsFiniteSet(E) /\ E \in SUBSET (Key \X Int)
      /\ Cardinality(E) \in Nat /\ Cardinality(E) <= Cardinality(S) /\ Cardinality(S) \in Nat
  BY <1>1, GapEntriesCount, StoresTyped
<1>3. Stores(split.left, Lower(E, k)) /\ Stores(split.right, Upper(E, k))
  BY <1>1, StoresSplit DEF Lower, Upper
<1>4. \A e \in E : e[1] \in S /\ e[1] \in Key /\ e[2] = GapIn(S, e[1]) /\ e = <<e[1], e[2]>>
  BY <1>1, GapEntriesAre
<1>5. \A j \in S : <<j, GapIn(S, j)>> \in E /\ j \in Key /\ j # k
  BY <1>1, GapEntriesAre
<1>6. AddObservation(q, obs, group, priority).treap = Merge(joined, SumAll(right, w))
  BY DEF AddObservation
<1> HIDE DEF split, E
<1>7. value = GapIn(S, k) /\ Stores(joined, Lower(E, k))
  <2>1. CASE split.left = None
    <3>1. Lower(E, k) = {}
      BY <1>3, <2>1, StoresTyped
    <3>2. \A j \in S : ~AtMost(j, k)
      <4> SUFFICES ASSUME NEW j \in S PROVE ~AtMost(j, k)
        OBVIOUS
      <4> DEFINE e == <<j, GapIn(S, j)>>
      <4>1. e \in E /\ e[1] = j
        BY <1>5
      <4> HIDE DEF e
      <4>2. AtMost(k, j)
        BY <3>1, <4>1 DEF Lower
      <4> QED BY <1>5, <4>2, KeyOrder
    <3>3. GapIn(S, k) = 0
      BY <1>1, <3>2, GapOfNone
    <3>4. pred.left = None /\ pred.right = None
      BY <2>1, GreatestAre
    <3>5. None \in Trees
      BY TopLevel, NoneInLevels
    <3> HIDE DEF pred
    <3>6. joined = None /\ value = 0
      BY <3>4, <3>5, MergeAre
    <3> QED BY <3>1, <3>3, <3>5, <3>6, NoEntries DEF Stores
  <2>2. CASE split.left # None
    <3>1. PICK e : LastEntry(Lower(E, k), e) /\ Taken(Lower(E, k), e, pred.right, pred.left)
      BY <1>3, <2>2, StoresGreatest
    <3> HIDE DEF pred
    <3>2. /\ e \in E /\ ~AtMost(k, e[1]) /\ pred.right # None /\ e = <<pred.right.key, pred.right.value>>
          /\ Stores(pred.right, {e}) /\ Stores(pred.left, Lower(E, k) \ {e})
          /\ \A o \in Lower(E, k) : o # e => ~AtMost(e[1], o[1])
      BY <3>1 DEF LastEntry, Taken, Lower
    <3>3. value = e[2] /\ e[2] = GapIn(S, e[1]) /\ e[1] \in S
      <4>1. e[2] = pred.right.value
        BY <3>2
      <4> QED BY <1>4, <3>2, <4>1
    <3>4. ASSUME NEW j \in S PROVE AtMost(j, k) <=> AtMost(j, e[1])
      <4> DEFINE o == <<j, GapIn(S, j)>>
      <4>1. o \in E /\ o[1] = j /\ j \in Key /\ e[1] \in Key /\ j # k
        BY <1>4, <1>5, <3>2
      <4> HIDE DEF o
      <4>2. ASSUME AtMost(j, k) PROVE AtMost(j, e[1])
        <5>1. ~AtMost(k, j)
          BY <4>1, <4>2, KeyOrder
        <5>2. o \in Lower(E, k)
          BY <4>1, <5>1 DEF Lower
        <5>3. o = e \/ ~AtMost(e[1], j)
          BY <3>2, <4>1, <5>2
        <5> QED BY <4>1, <5>3, KeyOrder
      <4>3. ASSUME AtMost(j, e[1]) PROVE AtMost(j, k)
        <5>1. AtMost(e[1], k)
          BY <3>2, <4>1, KeyOrder
        <5> QED BY <4>1, <4>3, <5>1, KeyOrder
      <4> QED BY <4>2, <4>3
    <3>5. GapIn(S, k) = GapIn(S, e[1])
      BY <1>1, <3>3, <3>4, GapOfGreatest
    <3>6. Stores(joined, Lower(E, k))
      <4>1. Before(Lower(E, k) \ {e}, {e})
        BY <3>2 DEF Before
      <4>2. (Lower(E, k) \ {e}) \cup {e} = Lower(E, k)
        BY <3>2 DEF Lower
      <4>3. Cardinality(Lower(E, k)) <= MaxNodes
        <5>1. Lower(E, k) \in SUBSET E
          BY DEF Lower
        <5>2. Cardinality(Lower(E, k)) <= Cardinality(E) /\ IsFiniteSet(Lower(E, k))
          BY <1>2, <5>1, FS_Subset
        <5>3. Cardinality(Lower(E, k)) \in Nat
          BY <5>2, FS_CardinalityType
        <5> QED BY <1>1, <1>2, <5>2, <5>3, Sizes
      <4>4. Stores(joined, (Lower(E, k) \ {e}) \cup {e})
        BY <3>2, <4>1, <4>2, <4>3, StoresMerge
      <4> QED BY <4>2, <4>4
    <3> QED BY <3>3, <3>5, <3>6
  <2> QED BY <2>1, <2>2
<1> HIDE DEF joined, value
<1>8. GapIn(S, k) \in Int
  BY <1>1, UpToKeyFinite
<1>c. c[1] = k /\ c = <<k, value>>
  OBVIOUS
<1> HIDE DEF c
<1>9. Stores(right, {c} \cup Upper(E, k))
  <2>1. Stores(Treap(k, value, priority), {c})
    BY <1>7, <1>8, <1>c, StoresSingle
  <2>2. Before({c}, Upper(E, k))
    <3> SUFFICES ASSUME NEW e \in Upper(E, k) PROVE ~AtMost(e[1], k)
      BY <1>c DEF Before
    <3>1. e \in E /\ AtMost(k, e[1])
      BY DEF Upper
    <3>2. e[1] \in Key /\ e[1] # k
      BY <1>4, <3>1
    <3> QED BY <3>1, <3>2, KeyOrder
  <2>3. Cardinality({c} \cup Upper(E, k)) <= MaxNodes
    <3>1. {c} \cup Upper(E, k) \in SUBSET (E \cup {c})
      BY DEF Upper
    <3>2. /\ IsFiniteSet(E \cup {c}) /\ Cardinality(E \cup {c}) <= Cardinality(E) + 1
      <4>1. /\ IsFiniteSet(E \cup {c})
            /\ Cardinality(E \cup {c}) = IF c \in E THEN Cardinality(E) ELSE Cardinality(E) + 1
        BY <1>2, FS_AddElement
      <4> QED BY <1>2, <4>1
    <3>3. Cardinality(S \cup {k}) = Cardinality(S) + 1
      BY <1>1, FS_AddElement
    <3> DEFINE V == {c} \cup Upper(E, k)
    <3>4. Cardinality(V) <= Cardinality(E \cup {c}) /\ IsFiniteSet(V)
      BY <3>1, <3>2, FS_Subset
    <3>5. Cardinality(V) \in Nat /\ Cardinality(E \cup {c}) \in Nat
      BY <3>2, <3>4, FS_CardinalityType
    <3> QED BY <1>2, <3>2, <3>3, <3>4, <3>5, Sizes
  <2> QED BY <1>3, <2>1, <2>2, <2>3, StoresMerge
<1>10. Stores(SumAll(right, w), Shifted({c} \cup Upper(E, k), w))
  <2>1. w \in Int
    BY WeightIs
  <2> HIDE DEF right, w
  <2> QED BY <1>9, <2>1, StoresSum
<1>11. Lower(E, k) \cup Shifted({c} \cup Upper(E, k), w) = GapEntries(S \cup {k})
  BY <1>1, <1>7, EntriesAdd DEF E, c
<1>12. Before(Lower(E, k), Shifted({c} \cup Upper(E, k), w))
  <2> SUFFICES ASSUME NEW d \in Lower(E, k), NEW e \in Shifted({c} \cup Upper(E, k), w)
               PROVE  ~AtMost(e[1], d[1])
    BY DEF Before
  <2>1. PICK o \in {c} \cup Upper(E, k) : e[1] = o[1]
    BY DEF Shifted
  <2>2. o[1] \in Key /\ AtMost(k, o[1])
    <3>1. AtMost(k, k)
      BY KeyOrder
    <3> QED BY <1>4, <1>c, <2>1, <3>1 DEF Upper
  <2>3. d[1] \in Key /\ ~AtMost(k, d[1])
    BY <1>4 DEF Lower
  <2> QED BY <2>1, <2>2, <2>3, KeyOrder
<1>13. S \cup {k} \in SUBSET Key /\ IsFiniteSet(S \cup {k})
  BY <1>1, FS_AddElement
<1>14. Cardinality(GapEntries(S \cup {k})) <= MaxNodes
  <2> DEFINE T == S \cup {k}
  <2>1. T \in SUBSET Key /\ IsFiniteSet(T) /\ Cardinality(T) <= MaxNodes
    BY <1>13
  <2> HIDE DEF T
  <2>2. Cardinality(GapEntries(T)) <= Cardinality(T) /\ Cardinality(GapEntries(T)) \in Nat /\ Cardinality(T) \in Nat
    BY <2>1, GapEntriesCount
  <2> QED BY <2>1, <2>2, Sizes DEF T
<1> HIDE DEF right, w
<1>15. Stores(Merge(joined, SumAll(right, w)), GapEntries(S \cup {k}))
  <2> DEFINE L == Lower(E, k)
             B == Shifted({c} \cup Upper(E, k), w)
             y == SumAll(right, w)
  <2>1. Stores(joined, L) /\ Stores(y, B) /\ Before(L, B) /\ Cardinality(L \cup B) <= MaxNodes
    BY <1>7, <1>10, <1>11, <1>12, <1>14
  <2> HIDE DEF L, B, y
  <2>2. Stores(Merge(joined, y), L \cup B)
    BY <2>1, StoresMerge
  <2> QED BY <2>2, <1>11 DEF L, B, y
<1> QED BY <1>6, <1>13, <1>15 DEF Holds

LEMMA RemoveHolds ==
  ASSUME NEW q, NEW S, Holds(q.treap, S), NEW obs, NEW group,
         NEW k \in S, k = Append(obs, group), k[3] = group
  PROVE  Holds(RemoveObservation(q, obs, group).treap, S \ {k})
<1> DEFINE E == GapEntries(S)
           w == Weight(group)
           c == <<k, GapIn(S, k)>>
           split == SplitKeepRight(q.treap, k)
           first == SplitSmallest(split.right)
           T == S \ {k}
<1>1. /\ S \in SUBSET Key /\ IsFiniteSet(S) /\ Cardinality(S) <= MaxNodes
      /\ Stores(q.treap, E) /\ k \in Key
  BY DEF Holds
<1>2. IsFiniteSet(E) /\ E \in SUBSET (Key \X Int)
  BY <1>1, StoresTyped
<1>3. Stores(split.left, Lower(E, k)) /\ Stores(split.right, Upper(E, k))
  BY <1>1, StoresSplit DEF Lower, Upper
<1>4. \A e \in E : e[1] \in Key /\ e[2] = GapIn(S, e[1]) /\ e = <<e[1], e[2]>>
  BY <1>1, GapEntriesAre
<1>5. c \in E /\ c[1] = k /\ AtMost(k, k)
  BY <1>1, GapEntriesAre, KeyOrder
<1> HIDE DEF split, E
<1>6. c \in Upper(E, k)
  <2> HIDE DEF c
  <2> QED BY <1>5 DEF Upper
<1>7. split.right # None
  BY <1>3, <1>6, StoresTyped
<1>8. PICK e : FirstEntry(Upper(E, k), e) /\ Taken(Upper(E, k), e, first.left, first.right)
  BY <1>3, <1>7, StoresSmallest
<1>9. e = c
  <2>1. e \in E /\ AtMost(k, e[1]) /\ (c # e => ~AtMost(k, e[1]))
    <3> HIDE DEF c
    <3> QED BY <1>5, <1>6, <1>8 DEF FirstEntry, Upper
  <2> QED BY <2>1
<1> HIDE DEF first
<1>10. /\ first.left # None /\ first.left.key = k
       /\ Stores(first.right, Upper(E, k) \ {c})
  <2>1. first.left # None /\ e = <<first.left.key, first.left.value>>
        /\ Stores(first.right, Upper(E, k) \ {e})
    BY <1>8 DEF Taken
  <2>2. e[1] = first.left.key
    BY <2>1
  <2> QED BY <1>5, <1>9, <2>1, <2>2
<1>11. RemoveObservation(q, obs, group).treap = Merge(split.left, SumAll(first.right, -w))
  BY <1>10 DEF RemoveObservation, split, first
<1>12. -w \in Int
  BY <1>1, WeightIs
<1> HIDE DEF w, c
<1>13. Stores(SumAll(first.right, -w), Shifted(Upper(E, k) \ {c}, -w))
  BY <1>10, <1>12, StoresSum
<1>14. Lower(E, k) \cup Shifted(Upper(E, k) \ {c}, -w) = GapEntries(T)
  <2>1. w = Weight(k[3]) /\ E = GapEntries(S) /\ c = <<k, GapIn(S, k)>>
    BY DEF E, c, w
  <2> QED BY <1>1, <2>1, EntriesRemove, ZenonT(40) DEF T
<1>15. Before(Lower(E, k), Shifted(Upper(E, k) \ {c}, -w))
  <2> SUFFICES ASSUME NEW d \in Lower(E, k), NEW f \in Shifted(Upper(E, k) \ {c}, -w)
               PROVE  ~AtMost(f[1], d[1])
    BY DEF Before
  <2>1. PICK o \in Upper(E, k) : f[1] = o[1]
    BY DEF Shifted
  <2>2. o[1] \in Key /\ AtMost(k, o[1])
    BY <1>4, <2>1 DEF Upper
  <2>3. d[1] \in Key /\ ~AtMost(k, d[1])
    BY <1>4 DEF Lower
  <2> QED BY <1>1, <2>1, <2>2, <2>3, KeyOrder
<1>16. T \in SUBSET Key /\ IsFiniteSet(T) /\ Cardinality(T) <= MaxNodes
  <2>1. T \in SUBSET S
    OBVIOUS
  <2>2. IsFiniteSet(T) /\ Cardinality(T) <= Cardinality(S)
    BY <1>1, <2>1, FS_Subset
  <2>3. Cardinality(T) \in Nat /\ Cardinality(S) \in Nat
    BY <1>1, <2>2, FS_CardinalityType
  <2> QED BY <1>1, <2>2, <2>3, Sizes
<1> HIDE DEF T
<1>17. Cardinality(GapEntries(T)) <= MaxNodes
  <2>1. Cardinality(GapEntries(T)) <= Cardinality(T) /\ Cardinality(GapEntries(T)) \in Nat /\ Cardinality(T) \in Nat
    BY <1>16, GapEntriesCount
  <2> QED BY <1>16, <2>1, Sizes
<1>18. Stores(Merge(split.left, SumAll(first.right, -w)), GapEntries(T))
  <2> DEFINE x == split.left
             L == Lower(E, k)
             B == Shifted(Upper(E, k) \ {c}, -w)
             y == SumAll(first.right, -w)
  <2>1. Stores(x, L) /\ Stores(y, B) /\ Before(L, B) /\ Cardinality(L \cup B) <= MaxNodes
    BY <1>3, <1>13, <1>14, <1>15, <1>17
  <2> HIDE DEF L, B, y, x
  <2>2. Stores(Merge(x, y), L \cup B)
    BY <2>1, StoresMerge
  <2> QED BY <2>2, <1>14 DEF L, B, y, x
<1> QED BY <1>11, <1>16, <1>18 DEF Holds, T

(***************************************************************************)
(* The keys of a window.                                                   *)
(***************************************************************************)
Window(s) == s \in [1 .. Length -> Int \X Nat] /\ Injective(s)
KeysTo(s, g, i) == {Append(s[j], g) : j \in 1 .. i}

LEMMA AppendPair ==
  ASSUME NEW o \in Int \X Nat, NEW g \in Groups
  PROVE  /\ Append(o, g) = <<o[1], o[2], g>> /\ Append(o, g) \in Key /\ Append(o, g)[3] = g
         /\ Append(o, g)[1] = o[1] /\ Append(o, g)[2] = o[2]
<1> DEFINE a == o[1]
           b == o[2]
           s == <<a, b>>
           t == Append(s, g)
           u == <<a, b, g>>
<1>1. o = s /\ a \in Int /\ b \in Int /\ g \in Int
  BY DEF Groups, Cur, Ref
<1>2. u \in Key /\ u[1] = a /\ u[2] = b /\ u[3] = g
  BY <1>1 DEF Key
<1>3. s \in Seq(Int) /\ Len(s) = 2 /\ s[1] = a /\ s[2] = b
  BY <1>1
<1>4. u \in Seq(Int) /\ Len(u) = 3
  BY <1>1
<1> HIDE DEF a, b, s
<1>5. t \in Seq(Int) /\ Len(t) = 3 /\ t[1] = a /\ t[2] = b /\ t[3] = g
  <2>1. /\ t \in Seq(Int) /\ Len(t) = Len(s) + 1 /\ \A i \in 1 .. Len(s) : t[i] = s[i]
        /\ t[Len(s) + 1] = g
    <3> DEFINE I == Int
    <3>1. s \in Seq(I)
      BY <1>3
    <3>2. g \in I
      BY <1>1
    <3> HIDE DEF I
    <3>3. /\ t \in Seq(I) /\ Len(t) = Len(s) + 1 /\ \A i \in 1 .. Len(s) : t[i] = s[i]
          /\ t[Len(s) + 1] = g
      BY <3>1, <3>2, AppendProperties
    <3> QED BY <3>3 DEF I
  <2> HIDE DEF t
  <2>2. 1 \in 1 .. Len(s) /\ 2 \in 1 .. Len(s) /\ Len(s) + 1 = 3
    BY <1>3
  <2> QED BY <1>3, <2>1, <2>2
<1> HIDE DEF t, u
<1>6. t = u
  <2>1. \A i \in 1 .. Len(t) : t[i] = u[i]
    <3>1. 1 .. Len(t) = {1, 2, 3}
      BY <1>5
    <3> QED BY <1>2, <1>5, <3>1
  <2> QED BY <1>4, <1>5, <2>1, SeqEqual
<1> QED BY <1>1, <1>2, <1>6 DEF t, u, a, b

LEMMA AppendOnce ==
  \A o, p \in Int \X Nat : \A g, h \in Groups : Append(o, g) = Append(p, h) => o = p /\ g = h
<1> SUFFICES ASSUME NEW o \in Int \X Nat, NEW p \in Int \X Nat, NEW g \in Groups, NEW h \in Groups,
                    Append(o, g) = Append(p, h)
             PROVE  o = p /\ g = h
  OBVIOUS
<1>1. /\ Append(o, g)[1] = o[1] /\ Append(o, g)[2] = o[2] /\ Append(o, g)[3] = g
      /\ Append(p, h)[1] = p[1] /\ Append(p, h)[2] = p[2] /\ Append(p, h)[3] = h
  BY AppendPair
<1> QED BY <1>1

LEMMA WindowKeys ==
  ASSUME NEW s \in [1 .. Length -> Int \X Nat], NEW g \in Groups
  PROVE  /\ Len(s) = Length /\ DOMAIN s = 1 .. Length /\ Range(s) = {s[i] : i \in 1 .. Length}
         /\ {Append(o, g) : o \in Range(s)} = KeysTo(s, g, Length)
         /\ KeysTo(s, g, Length) \in SUBSET Key
         /\ \A i \in 1 .. Length : Append(s[i], g) \in Key /\ Append(s[i], g)[3] = g
         /\ IsFiniteSet(KeysTo(s, g, Length)) /\ Cardinality(KeysTo(s, g, Length)) <= Length
         /\ Cardinality(KeysTo(s, g, Length)) \in Nat
<1>1. /\ DOMAIN s = 1 .. Length /\ Len(s) = Length /\ Range(s) = {s[i] : i \in 1 .. Length}
  BY Sizes DEF Range
<1>2. {Append(o, g) : o \in Range(s)} = KeysTo(s, g, Length)
  BY <1>1 DEF KeysTo
<1>3. \A i \in 1 .. Length : Append(s[i], g) \in Key /\ Append(s[i], g)[3] = g
  BY AppendPair
<1>4. KeysTo(s, g, Length) \in SUBSET Key
  BY <1>3 DEF KeysTo
<1> DEFINE f == [i \in 1 .. Length |-> Append(s[i], g)]
           T == KeysTo(s, g, Length)
<1>5. f \in Surjection(1 .. Length, T)
  BY DEF KeysTo, Surjection
<1>6. IsFiniteSet(1 .. Length) /\ Cardinality(1 .. Length) = Length
  <2>1. 1 \in Int /\ Length \in Int /\ ~(1 > Length)
    BY Sizes
  <2> QED BY <2>1, FS_Interval
<1> HIDE DEF f, T
<1>7. IsFiniteSet(T) /\ Cardinality(T) <= Length
  BY <1>5, <1>6, FS_Surjection
<1>8. Cardinality(T) \in Nat
  BY <1>7, FS_CardinalityType
<1> QED BY <1>1, <1>2, <1>3, <1>4, <1>7, <1>8 DEF T

LEMMA KeysGrow ==
  ASSUME NEW s, Window(s), NEW g \in Groups, NEW i \in 1 .. Length
  PROVE  /\ KeysTo(s, g, i) = KeysTo(s, g, i - 1) \cup {Append(s[i], g)}
         /\ Append(s[i], g) \notin KeysTo(s, g, i - 1)
         /\ Append(s[i], g) \in KeysTo(s, g, Length) /\ KeysTo(s, g, i) \subseteq KeysTo(s, g, Length)
<1>1. 1 .. i = (1 .. i - 1) \cup {i} /\ 1 .. i \subseteq 1 .. Length /\ i \in 1 .. Length
  BY Sizes
<1>2. ASSUME Append(s[i], g) \in KeysTo(s, g, i - 1) PROVE FALSE
  <2>1. PICK j \in 1 .. i - 1 : Append(s[i], g) = Append(s[j], g)
    BY <1>2 DEF KeysTo
  <2>2. j \in 1 .. Length /\ j # i /\ s[i] \in Int \X Nat /\ s[j] \in Int \X Nat
    BY Sizes DEF Window
  <2>3. s[i] = s[j]
    BY <2>1, <2>2, AppendOnce
  <2> QED BY <2>2, <2>3 DEF Window, Injective
<1> QED BY <1>1, <1>2 DEF KeysTo

(***************************************************************************)
(* A whole window added or removed, observation by observation.            *)
(***************************************************************************)
Step(kind, q, o, g, p) ==
  IF kind = "add" THEN AddObservation(q, o, g, p) ELSE RemoveObservation(q, o, g)

StepsTo(f, n, kind, q, obs, g, ps) ==
  f = [i \in 0 .. n |-> IF i = 0 THEN q ELSE Step(kind, f[i - 1], obs[i], g, ps[i])]

LEMMA StepsExist ==
  ASSUME NEW n \in Nat, NEW kind, NEW q, NEW obs, NEW g, NEW ps
  PROVE  \E f : StepsTo(f, n, kind, q, obs, g, ps)
<1> DEFINE bad == {m \in Nat : ~\E f : StepsTo(f, m, kind, q, obs, g, ps)}
<1>1. SUFFICES ASSUME bad # {} PROVE FALSE
  OBVIOUS
<1>2. PICK m \in bad : \A k \in bad : m <= k
  BY <1>1, LeastNumber
<1>3. m # 0
  <2> DEFINE f == [i \in 0 .. 0 |-> q]
  <2>1. StepsTo(f, 0, kind, q, obs, g, ps)
    BY DEF StepsTo
  <2> QED BY <2>1, <1>2
<1>4. PICK e : StepsTo(e, m - 1, kind, q, obs, g, ps)
  BY <1>2, <1>3
<1> DEFINE f == [i \in 0 .. m |-> IF i = 0 THEN q ELSE Step(kind, e[i - 1], obs[i], g, ps[i])]
<1>5. ASSUME NEW i \in 0 .. m - 1 PROVE f[i] = e[i]
  <2>1. e[i] = IF i = 0 THEN q ELSE Step(kind, e[i - 1], obs[i], g, ps[i])
    BY <1>4, Zenon DEF StepsTo
  <2>2. i \in 0 .. m
    BY m \in Nat
  <2>3. f[i] = IF i = 0 THEN q ELSE Step(kind, e[i - 1], obs[i], g, ps[i])
    BY <2>2, Zenon
  <2> QED BY <2>1, <2>3
<1>6. ASSUME NEW i \in 0 .. m
      PROVE  f[i] = IF i = 0 THEN q ELSE Step(kind, f[i - 1], obs[i], g, ps[i])
  <2>1. CASE i = 0
    BY <2>1
  <2>2. CASE i # 0
    <3>1. i - 1 \in 0 .. m - 1
      BY <2>2
    <3>2. f[i - 1] = e[i - 1]
      BY <3>1, <1>5
    <3> QED BY <2>2, <3>2
  <2> QED BY <2>1, <2>2
<1>7. StepsTo(f, m, kind, q, obs, g, ps)
  BY <1>6 DEF StepsTo
<1> QED BY <1>2, <1>7

\* The states on the way, and the last.
Steps(f, kind, q, obs, g, ps) ==
  f[0] = q /\ \A i \in 1 .. Length : f[i] = Step(kind, f[i - 1], obs[i], g, ps[i])

LEMMA StepsAre ==
  ASSUME NEW f, NEW kind, NEW q, NEW obs, NEW g, NEW ps, StepsTo(f, Length, kind, q, obs, g, ps)
  PROVE  Steps(f, kind, q, obs, g, ps)
<1>1. ASSUME NEW i \in 0 .. Length
      PROVE  f[i] = IF i = 0 THEN q ELSE Step(kind, f[i - 1], obs[i], g, ps[i])
  BY Zenon DEF StepsTo
<1>2. 0 \in 0 .. Length /\ 1 .. Length \subseteq 0 .. Length /\ 0 \notin 1 .. Length
  BY Sizes
<1>3. f[0] = q
  BY <1>1, <1>2
<1>4. ASSUME NEW i \in 1 .. Length PROVE f[i] = Step(kind, f[i - 1], obs[i], g, ps[i])
  <2>1. i \in 0 .. Length /\ i # 0
    BY <1>2
  <2> QED BY <1>1, <2>1, Zenon
<1> QED BY <1>3, <1>4 DEF Steps

LEMMA AddAllAre ==
  ASSUME NEW q, NEW obs, Len(obs) = Length, NEW g, NEW ps
  PROVE  \E f : Steps(f, "add", q, obs, g, ps) /\ AddAll(q, obs, g, ps) = f[Length]
<1> DEFINE f == CHOOSE f : f = [i \in 0 .. Length |->
                  IF i = 0 THEN q ELSE AddObservation(f[i - 1], obs[i], g, ps[i])]
<1>1. Length \in Nat
  BY Sizes
<1>2. PICK e : StepsTo(e, Length, "add", q, obs, g, ps)
  BY <1>1, StepsExist
<1>3. e = [i \in 0 .. Length |-> IF i = 0 THEN q ELSE AddObservation(e[i - 1], obs[i], g, ps[i])]
  BY <1>2 DEF StepsTo, Step
<1>4. f = [i \in 0 .. Length |-> IF i = 0 THEN q ELSE AddObservation(f[i - 1], obs[i], g, ps[i])]
  BY <1>3
<1>5. AddAll(q, obs, g, ps) = f[Length]
  BY DEF AddAll
<1> HIDE DEF f
<1>6. StepsTo(f, Length, "add", q, obs, g, ps)
  BY <1>4 DEF StepsTo, Step
<1> QED BY <1>5, <1>6, StepsAre

LEMMA RemoveAllAre ==
  ASSUME NEW q, NEW obs, Len(obs) = Length, NEW g
  PROVE  \E f : Steps(f, "remove", q, obs, g, obs) /\ RemoveAll(q, obs, g) = f[Length]
<1> DEFINE f == CHOOSE f : f = [i \in 0 .. Length |->
                  IF i = 0 THEN q ELSE RemoveObservation(f[i - 1], obs[i], g)]
<1>1. Length \in Nat
  BY Sizes
<1>2. PICK e : StepsTo(e, Length, "remove", q, obs, g, obs)
  BY <1>1, StepsExist
<1>3. e = [i \in 0 .. Length |-> IF i = 0 THEN q ELSE RemoveObservation(e[i - 1], obs[i], g)]
  BY <1>2 DEF StepsTo, Step
<1>4. f = [i \in 0 .. Length |-> IF i = 0 THEN q ELSE RemoveObservation(f[i - 1], obs[i], g)]
  BY <1>3
<1>5. RemoveAll(q, obs, g) = f[Length]
  BY DEF RemoveAll
<1> HIDE DEF f
<1>6. StepsTo(f, Length, "remove", q, obs, g, obs)
  BY <1>4 DEF StepsTo, Step
<1> QED BY <1>5, <1>6, StepsAre

\* The sizes after d more observations of a group.
Resized(r, q, g, d) == r.sizes = [q.sizes EXCEPT ![g] = @ + d]

LEMMA ResizeStep ==
  ASSUME NEW q, q.sizes \in [Groups -> Int], NEW g \in Groups, NEW d \in Int, NEW r,
         Resized(r, q, g, d), NEW o, NEW p
  PROVE  /\ Resized(AddObservation(r, o, g, p), q, g, d + 1)
         /\ Resized(RemoveObservation(r, o, g), q, g, d - 1)
<1>1. /\ AddObservation(r, o, g, p).sizes = [r.sizes EXCEPT ![g] = @ + 1]
      /\ RemoveObservation(r, o, g).sizes = [r.sizes EXCEPT ![g] = @ - 1]
  BY DEF AddObservation, RemoveObservation
<1>2. r.sizes = [q.sizes EXCEPT ![g] = @ + d]
  BY DEF Resized
<1>3. q.sizes[g] \in Int
  OBVIOUS
<1> QED BY <1>1, <1>2, <1>3 DEF Resized

LEMMA AddAllHolds ==
  ASSUME NEW q, NEW S, Holds(q.treap, S), q.sizes \in [Groups -> Int], NEW g \in Groups,
         NEW obs, Window(obs), NEW ps \in [1 .. Length -> Nat],
         S \cap KeysTo(obs, g, Length) = {},
         Cardinality(S \cup KeysTo(obs, g, Length)) <= MaxNodes
  PROVE  /\ Holds(AddAll(q, obs, g, ps).treap, S \cup KeysTo(obs, g, Length))
         /\ Resized(AddAll(q, obs, g, ps), q, g, Length)
<1> DEFINE J == KeysTo(obs, g, Length)
<1>1. Len(obs) = Length /\ IsFiniteSet(J)
      /\ \A i \in 1 .. Length : Append(obs[i], g) \in Key /\ Append(obs[i], g)[3] = g
  BY WindowKeys DEF Window
<1>2. PICK f : Steps(f, "add", q, obs, g, ps) /\ AddAll(q, obs, g, ps) = f[Length]
  BY <1>1, AddAllAre
<1>3. S \in SUBSET Key /\ IsFiniteSet(S) /\ IsFiniteSet(S \cup J)
  BY <1>1, FS_Union DEF Holds
<1> DEFINE Sound(i) == Holds(f[i].treap, S \cup KeysTo(obs, g, i)) /\ Resized(f[i], q, g, i)
           bad == {m \in Nat : m <= Length /\ ~Sound(m)}
<1>4. Sound(0)
  <2>1. f[0] = q /\ KeysTo(obs, g, 0) = {}
    BY <1>2 DEF Steps, KeysTo
  <2>2. Resized(q, q, g, 0)
    BY DEF Resized
  <2> QED BY <2>1, <2>2
<1>5. ASSUME NEW i \in 1 .. Length, Sound(i - 1) PROVE Sound(i)
  <2> DEFINE k == Append(obs[i], g)
             T == S \cup KeysTo(obs, g, i - 1)
             r == f[i - 1]
  <2>1. f[i] = AddObservation(r, obs[i], g, ps[i])
    BY <1>2 DEF Steps, Step
  <2>2. /\ KeysTo(obs, g, i) = KeysTo(obs, g, i - 1) \cup {k} /\ k \notin KeysTo(obs, g, i - 1)
        /\ k \in J /\ KeysTo(obs, g, i) \subseteq J
    BY KeysGrow
  <2>3. k \in Key /\ k[3] = g /\ k \notin S /\ ps[i] \in Nat
    BY <1>1, <2>2
  <2>4. T \cup {k} = S \cup KeysTo(obs, g, i) /\ k \notin T
    BY <2>2, <2>3
  <2>5. Cardinality(T \cup {k}) <= MaxNodes
    <3>1. T \cup {k} \in SUBSET (S \cup J)
      BY <2>2, <2>4
    <3> HIDE DEF T, k
    <3>2. Cardinality(T \cup {k}) <= Cardinality(S \cup J) /\ IsFiniteSet(T \cup {k})
      BY <1>3, <3>1, FS_Subset
    <3>3. Cardinality(T \cup {k}) \in Nat /\ Cardinality(S \cup J) \in Nat
      BY <1>3, <3>2, FS_CardinalityType
    <3> QED BY <3>2, <3>3, Sizes
  <2>6. Holds(r.treap, T) /\ Resized(r, q, g, i - 1)
    BY <1>5
  <2>7. k = Append(obs[i], g)
    OBVIOUS
  <2> HIDE DEF T, k, r
  <2>8. Holds(AddObservation(r, obs[i], g, ps[i]).treap, T \cup {k})
    BY <2>3, <2>4, <2>5, <2>6, <2>7, AddHolds
  <2>9. Resized(AddObservation(r, obs[i], g, ps[i]), q, g, (i - 1) + 1)
    <3>1. i - 1 \in Int
      OBVIOUS
    <3> QED BY <2>6, <3>1, ResizeStep
  <2>10. (i - 1) + 1 = i
    OBVIOUS
  <2> QED BY <2>1, <2>4, <2>8, <2>9, <2>10
<1> HIDE DEF Sound
<1>6. bad = {}
  <2> SUFFICES ASSUME bad # {} PROVE FALSE
    OBVIOUS
  <2>1. PICK m \in bad : \A k \in bad : m <= k
    BY LeastNumber
  <2>2. m \in 1 .. Length /\ m - 1 \in Nat /\ m - 1 <= Length /\ m - 1 < m
    BY <1>4, <2>1, Sizes
  <2>3. Sound(m - 1)
    BY <2>1, <2>2
  <2> QED BY <1>5, <2>1, <2>2, <2>3
<1>7. Sound(Length)
  BY <1>6, Sizes
<1> QED BY <1>2, <1>7 DEF Sound

LEMMA RemoveAllHolds ==
  ASSUME NEW q, NEW S, Holds(q.treap, S), q.sizes \in [Groups -> Int], NEW g \in Groups,
         NEW obs, Window(obs), KeysTo(obs, g, Length) \subseteq S
  PROVE  /\ Holds(RemoveAll(q, obs, g).treap, S \ KeysTo(obs, g, Length))
         /\ Resized(RemoveAll(q, obs, g), q, g, 0 - Length)
<1>1. Len(obs) = Length /\ \A i \in 1 .. Length : Append(obs[i], g)[3] = g
  BY WindowKeys DEF Window
<1>2. PICK f : Steps(f, "remove", q, obs, g, obs) /\ RemoveAll(q, obs, g) = f[Length]
  BY <1>1, RemoveAllAre
<1> DEFINE Sound(i) == Holds(f[i].treap, S \ KeysTo(obs, g, i)) /\ Resized(f[i], q, g, 0 - i)
           bad == {m \in Nat : m <= Length /\ ~Sound(m)}
<1>4. Sound(0)
  <2>1. f[0] = q /\ KeysTo(obs, g, 0) = {}
    BY <1>2 DEF Steps, KeysTo
  <2>3. 0 - 0 = 0
    OBVIOUS
  <2>2. Resized(q, q, g, 0)
    BY DEF Resized
  <2> QED BY <2>1, <2>2, <2>3
<1>5. ASSUME NEW i \in 1 .. Length, Sound(i - 1) PROVE Sound(i)
  <2> DEFINE k == Append(obs[i], g)
             T == S \ KeysTo(obs, g, i - 1)
             r == f[i - 1]
  <2>1. f[i] = RemoveObservation(r, obs[i], g)
    BY <1>2 DEF Steps, Step
  <2>2. /\ KeysTo(obs, g, i) = KeysTo(obs, g, i - 1) \cup {k} /\ k \notin KeysTo(obs, g, i - 1)
        /\ k \in KeysTo(obs, g, Length)
    BY KeysGrow
  <2>3. k[3] = g /\ k \in T
    BY <1>1, <2>2
  <2>4. T \ {k} = S \ KeysTo(obs, g, i)
    BY <2>2
  <2>6. Holds(r.treap, T) /\ Resized(r, q, g, 0 - (i - 1))
    BY <1>5
  <2>7. k = Append(obs[i], g)
    OBVIOUS
  <2> HIDE DEF T, k, r
  <2>8. Holds(RemoveObservation(r, obs[i], g).treap, T \ {k})
    BY <2>3, <2>6, <2>7, RemoveHolds
  <2>9. Resized(RemoveObservation(r, obs[i], g), q, g, (0 - (i - 1)) - 1)
    <3>1. 0 - (i - 1) \in Int
      OBVIOUS
    <3> QED BY <2>6, <3>1, ResizeStep
  <2>10. (0 - (i - 1)) - 1 = 0 - i
    OBVIOUS
  <2> QED BY <2>1, <2>4, <2>8, <2>9, <2>10
<1> HIDE DEF Sound
<1>6. bad = {}
  <2> SUFFICES ASSUME bad # {} PROVE FALSE
    OBVIOUS
  <2>1. PICK m \in bad : \A k \in bad : m <= k
    BY LeastNumber
  <2>2. m \in 1 .. Length /\ m - 1 \in Nat /\ m - 1 <= Length /\ m - 1 < m
    BY <1>4, <2>1, Sizes
  <2>3. Sound(m - 1)
    BY <2>1, <2>2
  <2> QED BY <1>5, <2>1, <2>2, <2>3
<1>7. Sound(Length)
  BY <1>6, Sizes
<1> QED BY <1>2, <1>7 DEF Sound

(***************************************************************************)
(* The two windows and their keys.                                         *)
(***************************************************************************)
Both(s, r) == KeysTo(s, Cur, Length) \cup KeysTo(r, Ref, Length)

LEMMA GroupsAre == Cur \in Groups /\ Ref \in Groups /\ Cur # Ref
BY DEF Groups, Cur, Ref

LEMMA BothAre ==
  ASSUME NEW s, Window(s), NEW r, Window(r)
  PROVE  /\ KeysTo(s, Cur, Length) \cap KeysTo(r, Ref, Length) = {}
         /\ Cardinality(Both(s, r)) <= MaxNodes
<1>1. /\ \A i \in 1 .. Length : Append(s[i], Cur)[3] = Cur
      /\ IsFiniteSet(KeysTo(s, Cur, Length)) /\ Cardinality(KeysTo(s, Cur, Length)) <= Length
      /\ Cardinality(KeysTo(s, Cur, Length)) \in Nat
  BY GroupsAre, WindowKeys DEF Window
<1>2. /\ \A i \in 1 .. Length : Append(r[i], Ref)[3] = Ref
      /\ IsFiniteSet(KeysTo(r, Ref, Length)) /\ Cardinality(KeysTo(r, Ref, Length)) <= Length
      /\ Cardinality(KeysTo(r, Ref, Length)) \in Nat
  BY GroupsAre, WindowKeys DEF Window
<1>3. KeysTo(s, Cur, Length) \cap KeysTo(r, Ref, Length) = {}
  BY <1>1, <1>2, GroupsAre DEF KeysTo
<1> DEFINE L == KeysTo(s, Cur, Length)
           B == KeysTo(r, Ref, Length)
<1>4. Cardinality(L \cup B) = Cardinality(L) + Cardinality(B) - Cardinality(L \cap B)
  BY <1>1, <1>2, FS_Union
<1>5. Cardinality(L \cap B) = 0
  BY <1>3, FS_EmptySet
<1>6. Cardinality(L \cup B) <= MaxNodes
  <2> HIDE DEF L, B
  <2>1. /\ Cardinality(L) \in Nat /\ Cardinality(B) \in Nat
        /\ Cardinality(L) <= Length /\ Cardinality(B) <= Length
    BY <1>1, <1>2 DEF L, B
  <2> QED BY <1>4, <1>5, <2>1, Sizes
<1> QED BY <1>3, <1>6 DEF Both

LEMMA KeysAre ==
  ASSUME Window(sw), Window(reference)
  PROVE  Keys = Both(sw, reference)
<1>1. {Append(o, Cur) : o \in Range(sw)} = KeysTo(sw, Cur, Length)
  BY GroupsAre, WindowKeys DEF Window
<1>2. {Append(o, Ref) : o \in Range(reference)} = KeysTo(reference, Ref, Length)
  BY GroupsAre, WindowKeys DEF Window
<1> QED BY <1>1, <1>2 DEF Keys, Both

LEMMA DrawnWindow ==
  ASSUME NEW values \in [1 .. Length -> Int], NEW draws \in [1 .. Length -> Draws],
         Injective(draws)
  PROVE  Window(Drawn(values, draws))
<1>1. \A i \in 1 .. Length : draws[i] \in Nat
  BY WindowAssumption
<1> DEFINE s == Drawn(values, draws)
<1>2. s = [i \in 1 .. Length |-> <<values[i], draws[i]>>]
  BY DEF Drawn
<1> HIDE DEF s
<1>3. s \in [1 .. Length -> Int \X Nat]
  BY <1>1, <1>2
<1>4. ASSUME NEW i \in 1 .. Length, NEW j \in 1 .. Length, s[i] = s[j] PROVE i = j
  <2>1. draws[i] = draws[j]
    BY <1>2, <1>4
  <2> QED BY <2>1 DEF Injective
<1>5. Injective(s)
  BY <1>3, <1>4 DEF Injective
<1> QED BY <1>3, <1>5 DEF Window, s

\* A window after one more observation.
Slid(s, o, t) ==
  /\ Head(s) = s[1] /\ t \in [1 .. Length -> Int \X Nat]
  /\ \A i \in 1 .. Length : t[i] = IF i < Length THEN s[i + 1] ELSE o
  /\ \A i \in 2 .. Length : s[i] # o

LEMMA SlideIs ==
  ASSUME NEW s, Window(s), NEW o \in Int \X Nat, o \notin Range(Tail(s)),
         NEW t, t = Append(Tail(s), o)
  PROVE  Slid(s, o, t)
<1> DEFINE X == Int \X Nat
           u == Tail(s)
<1>1. s \in [1 .. Length -> X]
  BY DEF Window
<1>2. o \in X
  OBVIOUS
<1> HIDE DEF X, u
<1>3. s \in Seq(X) /\ Len(s) = Length
  <2>1. Length \in Nat
    BY Sizes
  <2>2. s \in Seq(X)
    BY <1>1, <2>1, SeqDef
  <2>3. DOMAIN s = 1 .. Length
    BY <1>1
  <2>4. Len(s) \in Nat /\ DOMAIN s = 1 .. Len(s)
    BY <2>2, LenProperties
  <2> QED BY <2>1, <2>2, <2>3, <2>4
<1>4. s # << >>
  BY <1>3, Sizes
<1>5. /\ u \in Seq(X) /\ Len(u) = Length - 1 /\ \A i \in 1 .. Length - 1 : u[i] = s[i + 1]
  <2>1. /\ u \in Seq(X) /\ Len(u) = Len(s) - 1 /\ \A i \in 1 .. Len(u) : u[i] = s[i + 1]
    BY <1>3, <1>4, HeadTailProperties DEF u
  <2> QED BY <1>3, <2>1
<1>6. Head(s) = s[1]
  BY <1>3, <1>4
<1>7. /\ t \in Seq(X) /\ Len(t) = Length /\ \A i \in 1 .. Length - 1 : t[i] = u[i]
      /\ t[Length] = o
  <2>1. /\ t \in Seq(X) /\ Len(t) = Len(u) + 1 /\ \A i \in 1 .. Len(u) : t[i] = u[i]
        /\ t[Len(u) + 1] = o
    BY <1>2, <1>5, AppendProperties DEF u
  <2>2. (Length - 1) + 1 = Length
    BY Sizes
  <2> QED BY <1>5, <2>1, <2>2
<1>8. t \in [1 .. Length -> X]
  BY <1>7, LenProperties
<1>9. ASSUME NEW i \in 1 .. Length PROVE t[i] = IF i < Length THEN s[i + 1] ELSE o
  <2>1. CASE i < Length
    <3>1. i \in 1 .. Length - 1
      BY <2>1, Sizes
    <3> QED BY <1>5, <1>7, <2>1, <3>1
  <2>2. CASE ~(i < Length)
    <3>1. i = Length
      BY <2>2, Sizes
    <3> QED BY <1>7, <2>2, <3>1
  <2> QED BY <2>1, <2>2
<1>10. ASSUME NEW i \in 2 .. Length PROVE s[i] # o
  <2>1. i - 1 \in 1 .. Length - 1 /\ (i - 1) + 1 = i
    BY Sizes
  <2>2. u[i - 1] = s[i]
    BY <1>5, <2>1
  <2>3. i - 1 \in DOMAIN u
    BY <1>5, <2>1, LenProperties
  <2> QED BY <2>2, <2>3 DEF Range, u
<1> QED BY <1>6, <1>8, <1>9, <1>10 DEF X, Slid

SlidKeys(s, o, t, g) ==
  /\ Window(t) /\ Head(s) \in Int \X Nat
  /\ Append(Head(s), g) \in KeysTo(s, g, Length)
  /\ Append(o, g) \notin KeysTo(s, g, Length) \ {Append(Head(s), g)}
  /\ KeysTo(t, g, Length) = (KeysTo(s, g, Length) \ {Append(Head(s), g)}) \cup {Append(o, g)}

LEMMA SlideKeys ==
  ASSUME NEW s, Window(s), NEW o \in Int \X Nat, o \notin Range(Tail(s)),
         NEW t, t = Append(Tail(s), o), NEW g \in Groups
  PROVE  SlidKeys(s, o, t, g)
<1>1. /\ Head(s) = s[1] /\ t \in [1 .. Length -> Int \X Nat]
      /\ \A i \in 1 .. Length : t[i] = IF i < Length THEN s[i + 1] ELSE o
      /\ \A i \in 2 .. Length : s[i] # o
  <2>1. Slid(s, o, t)
    BY SlideIs, Zenon
  <2> QED BY <2>1 DEF Slid
<1>2. /\ s \in [1 .. Length -> Int \X Nat] /\ 1 \in 1 .. Length /\ Length \in 1 .. Length
      /\ \A i, j \in 1 .. Length : s[i] = s[j] => i = j
  BY Sizes DEF Window, Injective
<1>3. \A i \in 1 .. Length : i < Length => i + 1 \in 2 .. Length /\ i + 1 \in 1 .. Length
  BY Sizes
<1>4. ASSUME NEW i \in 1 .. Length, NEW j \in 1 .. Length, t[i] = t[j] PROVE i = j
  <2>1. CASE i < Length /\ j < Length
    <3>1. s[i + 1] = s[j + 1] /\ i + 1 \in 1 .. Length /\ j + 1 \in 1 .. Length
      BY <1>1, <1>3, <1>4, <2>1
    <3>2. i + 1 = j + 1
      BY <1>2, <3>1
    <3> QED BY <3>2
  <2>2. CASE i < Length /\ ~(j < Length)
    BY <1>1, <1>3, <1>4, <2>2
  <2>3. CASE ~(i < Length) /\ j < Length
    BY <1>1, <1>3, <1>4, <2>3
  <2>4. CASE ~(i < Length) /\ ~(j < Length)
    BY <2>4, Sizes
  <2> QED BY <2>1, <2>2, <2>3, <2>4
<1>5. Window(t)
  BY <1>1, <1>4 DEF Window, Injective
<1>6. \A i \in 1 .. Length : s[i] \in Int \X Nat
  BY <1>2
<1>7. KeysTo(s, g, Length) \ {Append(s[1], g)} = {Append(s[i], g) : i \in 2 .. Length}
  <2>1. ASSUME NEW i \in 2 .. Length PROVE Append(s[i], g) # Append(s[1], g)
    <3>1. i \in 1 .. Length /\ i # 1
      BY Sizes
    <3> QED BY <1>2, <1>6, <3>1, AppendOnce
  <2>2. 1 .. Length = {1} \cup 2 .. Length
    BY Sizes
  <2> QED BY <2>1, <2>2 DEF KeysTo
<1>8. Append(o, g) \notin {Append(s[i], g) : i \in 2 .. Length}
  <2>1. ASSUME NEW i \in 2 .. Length PROVE Append(s[i], g) # Append(o, g)
    <3> DEFINE p == s[i]
    <3>1. i \in 1 .. Length
      BY Sizes
    <3>2. p # o /\ p \in Int \X Nat
      BY <1>1, <1>6, <3>1
    <3>3. o \in Int \X Nat /\ g \in Groups
      OBVIOUS
    <3> HIDE DEF p
    <3>4. Append(p, g) # Append(o, g)
      BY <3>2, <3>3, AppendOnce
    <3> QED BY <3>4 DEF p
  <2> QED BY <2>1
<1>9. KeysTo(t, g, Length) = {Append(s[i], g) : i \in 2 .. Length} \cup {Append(o, g)}
  <2>1. ASSUME NEW k \in KeysTo(t, g, Length)
        PROVE  k \in {Append(s[i], g) : i \in 2 .. Length} \cup {Append(o, g)}
    <3>1. PICK i \in 1 .. Length : k = Append(t[i], g)
      BY DEF KeysTo
    <3> QED BY <1>1, <1>3, <3>1
  <2>2. ASSUME NEW i \in 2 .. Length PROVE Append(s[i], g) \in KeysTo(t, g, Length)
    <3>1. i - 1 \in 1 .. Length /\ i - 1 < Length /\ (i - 1) + 1 = i
      BY Sizes
    <3>2. t[i - 1] = s[i]
      BY <1>1, <3>1
    <3> QED BY <3>1, <3>2 DEF KeysTo
  <2>3. Append(o, g) \in KeysTo(t, g, Length)
    <3>1. t[Length] = o
      BY <1>1, <1>2, Sizes
    <3> QED BY <1>2, <3>1 DEF KeysTo
  <2> QED BY <2>1, <2>2, <2>3
<1>10. Append(Head(s), g) \in KeysTo(s, g, Length) /\ Head(s) \in Int \X Nat
  <2>1. Append(s[1], g) \in KeysTo(s, g, Length)
    BY <1>2 DEF KeysTo
  <2>2. s[1] \in Int \X Nat
    BY <1>2
  <2> QED BY <1>1, <2>1, <2>2, Zenon
<1> QED BY <1>1, <1>5, <1>7, <1>8, <1>9, <1>10 DEF SlidKeys

(***************************************************************************)
(* The inductive invariant.                                                *)
(***************************************************************************)
WindowInv ==
  /\ Window(sw) /\ Window(reference)
  /\ sizes = [g \in Groups |-> Length]
  /\ Holds(treap, Keys)

LEMMA WindowInvInit == WindowInit => WindowInv
<1> SUFFICES ASSUME WindowInit PROVE WindowInv
  OBVIOUS
<1>1. PICK values \in FirstValues :
        \E refDraws, curDraws \in [DOMAIN values -> Draws] :
          \E refPrios, curPrios \in [DOMAIN values -> Priorities] :
            /\ Injective(refDraws) /\ Injective(curDraws)
            /\ reference = Drawn(values, refDraws) /\ sw = Drawn(values, curDraws)
            /\ LET q == AddAll(AddAll(Empty, reference, Ref, refPrios), sw, Cur, curPrios)
               IN  treap = q.treap /\ sizes = q.sizes
  BY DEF WindowInit
<1>2. values \in [1 .. Length -> Int] /\ DOMAIN values = 1 .. Length
  BY WindowAssumption
<1>3. PICK refDraws \in [1 .. Length -> Draws], curDraws \in [1 .. Length -> Draws] :
          \E refPrios, curPrios \in [1 .. Length -> Priorities] :
            /\ Injective(refDraws) /\ Injective(curDraws)
            /\ reference = Drawn(values, refDraws) /\ sw = Drawn(values, curDraws)
            /\ LET q == AddAll(AddAll(Empty, reference, Ref, refPrios), sw, Cur, curPrios)
               IN  treap = q.treap /\ sizes = q.sizes
  BY <1>1, <1>2
<1>4. PICK refPrios \in [1 .. Length -> Priorities], curPrios \in [1 .. Length -> Priorities] :
            /\ Injective(refDraws) /\ Injective(curDraws)
            /\ reference = Drawn(values, refDraws) /\ sw = Drawn(values, curDraws)
            /\ LET q == AddAll(AddAll(Empty, reference, Ref, refPrios), sw, Cur, curPrios)
               IN  treap = q.treap /\ sizes = q.sizes
  BY <1>3
<1>5. Window(reference) /\ Window(sw)
  BY <1>2, <1>4, DrawnWindow
<1>6. refPrios \in [1 .. Length -> Nat] /\ curPrios \in [1 .. Length -> Nat]
  BY WindowAssumption
<1> DEFINE q1 == AddAll(Empty, reference, Ref, refPrios)
           q2 == AddAll(q1, sw, Cur, curPrios)
           L == KeysTo(sw, Cur, Length)
           B == KeysTo(reference, Ref, Length)
<1>7. treap = q2.treap /\ sizes = q2.sizes
  BY <1>4
<1>8. /\ L \cap B = {} /\ Cardinality(B \cup L) <= MaxNodes /\ Keys = B \cup L
      /\ IsFiniteSet(B \cup L) /\ B \subseteq B \cup L
  <2>1. L \cap B = {} /\ Cardinality(L \cup B) <= MaxNodes /\ Keys = L \cup B
    BY <1>5, BothAre, KeysAre DEF Both
  <2>2. IsFiniteSet(L) /\ IsFiniteSet(B)
    BY <1>5, GroupsAre, WindowKeys DEF Window
  <2>3. IsFiniteSet(B \cup L)
    BY <2>2, FS_Union
  <2>4. L \cup B = B \cup L
    OBVIOUS
  <2> QED BY <2>1, <2>3, <2>4
<1>9. Cardinality({} \cup B) <= MaxNodes
  <2>1. {} \cup B = B
    OBVIOUS
  <2>2. Cardinality(B) <= Length /\ Cardinality(B) \in Nat
    BY <1>5, GroupsAre, WindowKeys DEF Window
  <2> QED BY <2>1, <2>2, Sizes
<1>10. Holds(Empty.treap, {}) /\ Empty.sizes \in [Groups -> Int]
  <2>1. GapEntries({}) = {}
    BY DEF GapEntries
  <2>2. Stores(None, {})
    BY TopLevel, NoneInLevels, NoEntries DEF Stores
  <2>3. IsFiniteSet({}) /\ Cardinality({}) <= MaxNodes
    BY FS_EmptySet, Sizes
  <2>4. Empty.treap = None /\ Empty.sizes = [g \in Groups |-> 0]
    BY DEF Empty
  <2>5. {} \in SUBSET Key /\ 0 \in Int
    OBVIOUS
  <2>6. Holds(None, {})
    BY <2>1, <2>2, <2>3, <2>5 DEF Holds
  <2>7. [g \in Groups |-> 0] \in [Groups -> Int]
    BY <2>5
  <2> QED BY <2>4, <2>6, <2>7
<1> HIDE DEF L, B, q2
<1>11. Holds(q1.treap, {} \cup B) /\ Resized(q1, Empty, Ref, Length)
  <2> DEFINE q0 == Empty
             S == {}
             s == reference
             g == Ref
             p == refPrios
  <2>1. Holds(q0.treap, S) /\ q0.sizes \in [Groups -> Int] /\ g \in Groups /\ Window(s)
    BY <1>5, <1>10, GroupsAre
  <2>2. p \in [1 .. Length -> Nat]
    BY <1>6
  <2>3. S \cap KeysTo(s, g, Length) = {} /\ Cardinality(S \cup KeysTo(s, g, Length)) <= MaxNodes
    BY <1>9 DEF B
  <2> HIDE DEF q0, S, s, g, p
  <2>4. /\ Holds(AddAll(q0, s, g, p).treap, S \cup KeysTo(s, g, Length))
        /\ Resized(AddAll(q0, s, g, p), q0, g, Length)
    BY <2>1, <2>2, <2>3, AddAllHolds
  <2> QED BY <2>4 DEF q0, S, s, g, p, B
<1> HIDE DEF q1
<1>12. q1.sizes = [g \in Groups |-> IF g = Ref THEN Length ELSE 0]
  BY <1>11, GroupsAre, Sizes DEF Resized, Empty
<1>13. q1.sizes \in [Groups -> Int] /\ {} \cup B = B /\ B \cap L = {}
  BY <1>8, <1>12, Sizes
<1>14. Holds(q2.treap, B \cup L) /\ Resized(q2, q1, Cur, Length)
  BY <1>5, <1>6, <1>8, <1>11, <1>13, GroupsAre, AddAllHolds DEF L, q2
<1>15. q2.sizes = [g \in Groups |-> Length]
  <2>1. q2.sizes = [q1.sizes EXCEPT ![Cur] = @ + Length]
    BY <1>14 DEF Resized
  <2>2. /\ Cur # Ref /\ 0 + Length = Length /\ \A g \in Groups : g = Cur \/ g = Ref
        /\ Cur \in Groups /\ Ref \in Groups
    BY GroupsAre, Sizes DEF Groups
  <2>3. q2.sizes = [g \in Groups |-> IF g = Cur THEN 0 + Length ELSE q1.sizes[g]]
    BY <1>12, <2>1, <2>2
  <2>4. \A g \in Groups : (IF g = Cur THEN 0 + Length ELSE q1.sizes[g]) = Length
    BY <1>12, <2>2
  <2> QED BY <2>3, <2>4
<1> QED BY <1>5, <1>7, <1>8, <1>14, <1>15 DEF WindowInv

LEMMA KeysAreAfter ==
  ASSUME Window(sw'), Window(reference')
  PROVE  Keys' = Both(sw', reference')
<1>1. {Append(o, Cur) : o \in Range(sw')} = KeysTo(sw', Cur, Length)
  BY GroupsAre, WindowKeys DEF Window
<1>2. {Append(o, Ref) : o \in Range(reference')} = KeysTo(reference', Ref, Length)
  BY GroupsAre, WindowKeys DEF Window
<1> QED BY <1>1, <1>2 DEF Keys, Both

LEMMA IKSIs == IKS.treap = treap /\ IKS.sizes = sizes
BY DEF IKS

LEMMA BalancedSizes ==
  ASSUME sizes = [g \in Groups |-> Length]
  PROVE  sizes \in [Groups -> Int] /\ \A g \in Groups : sizes[g] = Length
BY Sizes

\* The sizes of the groups after d more and e more observations of one.
LEMMA ResizedTwice ==
  ASSUME sizes = [h \in Groups |-> Length], NEW g \in Groups, NEW d \in Int, NEW e \in Int,
         d + e = 0, NEW q, NEW r, Resized(q, IKS, g, d), Resized(r, q, g, e)
  PROVE  q.sizes \in [Groups -> Int] /\ r.sizes = [h \in Groups |-> Length]
<1>1. Length \in Int /\ Length + d \in Int /\ (Length + d) + e = Length
  BY Sizes
<1>2. q.sizes = [h \in Groups |-> IF h = g THEN Length + d ELSE Length]
  <2>1. q.sizes = [sizes EXCEPT ![g] = @ + d]
    BY IKSIs DEF Resized
  <2>2. q.sizes = [h \in Groups |-> IF h = g THEN sizes[g] + d ELSE sizes[h]]
    BY <2>1
  <2>3. \A h \in Groups : sizes[h] = Length
    OBVIOUS
  <2>4. \A h \in Groups : (IF h = g THEN sizes[g] + d ELSE sizes[h]) = (IF h = g THEN Length + d ELSE Length)
    BY <2>3
  <2> QED BY <2>2, <2>4
<1>3. q.sizes \in [Groups -> Int]
  BY <1>1, <1>2
<1>4. r.sizes = [h \in Groups |-> IF h = g THEN q.sizes[g] + e ELSE q.sizes[h]]
  BY <1>3 DEF Resized
<1>5. \A h \in Groups : (IF h = g THEN q.sizes[g] + e ELSE q.sizes[h]) = Length
  BY <1>1, <1>2
<1> QED BY <1>3, <1>4, <1>5

LEMMA ResizeOne ==
  ASSUME NEW q, q.sizes \in [Groups -> Int], NEW g \in Groups, NEW o, NEW p
  PROVE  /\ Resized(AddObservation(q, o, g, p), q, g, 1)
         /\ Resized(RemoveObservation(q, o, g), q, g, 0 - 1)
BY DEF Resized, AddObservation, RemoveObservation

LEMMA WindowInvIncrement ==
  ASSUME WindowInv, NEW value \in Values, NEW draw \in Draws, NEW priority \in Priorities,
         Increment(value, draw, priority)
  PROVE  WindowInv'
<1> DEFINE o == <<value, draw>>
           h == Append(Head(sw), Cur)
           k == Append(o, Cur)
           q1 == RemoveObservation(IKS, Head(sw), Cur)
           q2 == AddObservation(q1, o, Cur, priority)
           L == KeysTo(sw, Cur, Length)
           B == KeysTo(reference, Ref, Length)
           S == Keys \ {h}
<1>1. o \in Int \X Nat /\ priority \in Nat
  BY WindowAssumption
<1>2. /\ o \notin Range(Tail(sw)) /\ treap' = q2.treap /\ sizes' = q2.sizes
      /\ sw' = Append(Tail(sw), o) /\ reference' = reference
  BY DEF Increment, Use
<1>3. /\ Window(sw) /\ Window(reference) /\ sizes = [g \in Groups |-> Length]
      /\ Holds(treap, Keys)
  BY DEF WindowInv
<1>4. Keys = L \cup B /\ L \cap B = {}
  BY <1>3, KeysAre, BothAre DEF Both
<1> HIDE DEF o
<1>5. /\ Window(sw') /\ Head(sw) \in Int \X Nat /\ h \in L /\ k \notin L \ {h}
      /\ KeysTo(sw', Cur, Length) = (L \ {h}) \cup {k}
  <2> DEFINE s == sw
             t == sw'
             g == Cur
  <2>1. Window(s)
    BY <1>3
  <2>2. o \in Int \X Nat
    BY <1>1
  <2>3. o \notin Range(Tail(s))
    BY <1>2
  <2>4. t = Append(Tail(s), o)
    BY <1>2
  <2>5. g \in Groups
    BY GroupsAre
  <2> HIDE DEF s, t, g
  <2>6. SlidKeys(s, o, t, g)
    BY <2>1, <2>2, <2>3, <2>4, <2>5, SlideKeys, Zenon
  <2> QED BY <2>6 DEF SlidKeys, s, t, g
<1>6. h[3] = Cur /\ k[3] = Cur /\ k \in Key /\ h \in Keys
  BY <1>1, <1>4, <1>5, GroupsAre, AppendPair
<1>7. k \notin B /\ h \notin B
  <2>1. \A j \in B : j[3] = Ref
    <3>1. \A i \in 1 .. Length : Append(reference[i], Ref)[3] = Ref
      BY <1>3, GroupsAre, WindowKeys DEF Window
    <3> QED BY <3>1 DEF KeysTo
  <2> HIDE DEF B, h, k
  <2> QED BY <1>6, <2>1, GroupsAre
<1>8. h = Append(Head(sw), Cur) /\ k = Append(o, Cur)
  OBVIOUS
<1> HIDE DEF h, k, L, B
<1>9. Keys' = S \cup {k} /\ k \notin S
  <2>1. Keys' = Both(sw', reference')
    BY <1>2, <1>3, <1>5, KeysAreAfter
  <2> QED BY <2>1, <1>2, <1>4, <1>5, <1>7 DEF Both, B
<1>10. Cardinality(S \cup {k}) <= MaxNodes
  <2>1. Cardinality(Both(sw', reference')) <= MaxNodes
    BY <1>2, <1>3, <1>5, BothAre
  <2>2. Keys' = Both(sw', reference')
    BY <1>2, <1>3, <1>5, KeysAreAfter
  <2> QED BY <2>1, <2>2, <1>9
<1>11. Holds(q1.treap, S)
  <2>1. Holds(IKS.treap, Keys)
    BY <1>3, IKSIs
  <2> QED BY <2>1, <1>6, <1>8, RemoveHolds
<1> HIDE DEF q1, S
<1>12. Holds(q2.treap, S \cup {k})
  BY <1>1, <1>6, <1>8, <1>9, <1>10, <1>11, AddHolds
<1>13. sizes' = [g \in Groups |-> Length]
  <2>1. IKS.sizes \in [Groups -> Int]
    BY <1>3, IKSIs, BalancedSizes
  <2>2. Resized(q1, IKS, Cur, 0 - 1)
    BY <2>1, GroupsAre, ResizeOne DEF q1
  <2>3. q1.sizes \in [Groups -> Int]
    <3>1. q1.sizes = [IKS.sizes EXCEPT ![Cur] = @ + (0 - 1)]
      BY <2>2 DEF Resized
    <3>2. IKS.sizes[Cur] + (0 - 1) \in Int
      BY <2>1, GroupsAre
    <3> QED BY <2>1, <3>1, <3>2
  <2>4. Resized(q2, q1, Cur, 1)
    BY <2>3, GroupsAre, ResizeOne
  <2>5. 0 - 1 \in Int /\ 1 \in Int /\ (0 - 1) + 1 = 0
    OBVIOUS
  <2> HIDE DEF q2
  <2>6. q2.sizes = [g \in Groups |-> Length]
    BY <1>3, <2>2, <2>4, <2>5, GroupsAre, ResizedTwice
  <2> QED BY <1>2, <2>6 DEF q2
<1> HIDE DEF q2
<1>14. Holds(treap', Keys')
  BY <1>2, <1>9, <1>12 DEF q2
<1>15. Window(reference')
  BY <1>2, <1>3
<1> QED BY <1>5, <1>13, <1>14, <1>15 DEF WindowInv

LEMMA WindowInvUpdate ==
  ASSUME WindowInv, NEW draws \in [DOMAIN sw -> Draws], NEW priorities \in [DOMAIN sw -> Priorities],
         UpdateWindow(draws, priorities)
  PROVE  WindowInv'
<1> DEFINE r == reference'
           q1 == RemoveAll(IKS, reference, Ref)
           q2 == AddAll(q1, r, Ref, priorities)
           L == KeysTo(sw, Cur, Length)
           B == KeysTo(reference, Ref, Length)
           C == KeysTo(r, Ref, Length)
<1>1. /\ Window(sw) /\ Window(reference) /\ sizes = [g \in Groups |-> Length]
      /\ Holds(treap, Keys)
  BY DEF WindowInv
<1>2. sw \in [1 .. Length -> Int \X Nat] /\ DOMAIN sw = 1 .. Length
  BY <1>1 DEF Window
<1>3. draws \in [1 .. Length -> Draws] /\ priorities \in [1 .. Length -> Nat]
  BY <1>2, WindowAssumption
<1>4. /\ Injective(draws) /\ r = Drawn([i \in DOMAIN sw |-> sw[i][1]], draws)
      /\ treap' = q2.treap /\ sizes' = q2.sizes /\ sw' = sw
  BY DEF UpdateWindow, Use
<1>5. Window(r)
  <2> DEFINE values == [i \in 1 .. Length |-> sw[i][1]]
  <2>1. values \in [1 .. Length -> Int] /\ r = Drawn(values, draws)
    BY <1>2, <1>4
  <2> HIDE DEF values, r
  <2> QED BY <1>3, <1>4, <2>1, DrawnWindow
<1>6. Keys = L \cup B /\ L \cap B = {}
  BY <1>1, KeysAre, BothAre DEF Both
<1>7. Keys' = L \cup C /\ L \cap C = {} /\ Cardinality(L \cup C) <= MaxNodes
  <2>1. Keys' = Both(sw', r)
    BY <1>1, <1>4, <1>5, KeysAreAfter
  <2>2. L \cap C = {} /\ Cardinality(Both(sw, r)) <= MaxNodes
    <3> HIDE DEF r
    <3> QED BY <1>1, <1>5, BothAre
  <2> QED BY <1>4, <2>1, <2>2 DEF Both
<1>8. IKS.sizes \in [Groups -> Int] /\ Holds(IKS.treap, Keys)
  BY <1>1, IKSIs, BalancedSizes
<1>9. Holds(q1.treap, L) /\ Resized(q1, IKS, Ref, 0 - Length)
  <2>1. B \subseteq Keys /\ Keys \ B = L
    BY <1>6
  <2>2. Holds(q1.treap, Keys \ B) /\ Resized(q1, IKS, Ref, 0 - Length)
    BY <1>1, <1>8, <2>1, GroupsAre, RemoveAllHolds
  <2> QED BY <2>1, <2>2
<1> HIDE DEF q1, L, B
<1>10. 0 - Length \in Int /\ Length \in Int /\ (0 - Length) + Length = 0
  BY Sizes
<1>11. q1.sizes \in [Groups -> Int]
  <2>1. q1.sizes = [IKS.sizes EXCEPT ![Ref] = @ + (0 - Length)]
    BY <1>9 DEF Resized
  <2>2. IKS.sizes[Ref] + (0 - Length) \in Int
    BY <1>8, <1>10, GroupsAre
  <2> QED BY <1>8, <2>1, <2>2
<1>12. Holds(q2.treap, L \cup C) /\ Resized(q2, q1, Ref, Length)
  <2> DEFINE g == Ref
             ps == priorities
  <2>1. /\ Holds(q1.treap, L) /\ q1.sizes \in [Groups -> Int] /\ g \in Groups /\ Window(r)
        /\ L \cap KeysTo(r, g, Length) = {} /\ Cardinality(L \cup KeysTo(r, g, Length)) <= MaxNodes
    BY <1>5, <1>7, <1>9, <1>11, GroupsAre
  <2>2. ps \in [1 .. Length -> Nat]
    BY <1>3
  <2> HIDE DEF g, ps, r
  <2>3. /\ Holds(AddAll(q1, r, g, ps).treap, L \cup KeysTo(r, g, Length))
        /\ Resized(AddAll(q1, r, g, ps), q1, g, Length)
    BY <2>1, <2>2, AddAllHolds
  <2> QED BY <2>3 DEF g, ps
<1> HIDE DEF q2, C, r
<1>13. q2.sizes = [g \in Groups |-> Length]
  BY <1>1, <1>9, <1>10, <1>12, GroupsAre, ResizedTwice
<1>14. sizes' = [g \in Groups |-> Length] /\ Holds(treap', Keys')
  BY <1>4, <1>7, <1>12, <1>13
<1>15. Window(sw') /\ Window(reference')
  BY <1>1, <1>4, <1>5 DEF r
<1> QED BY <1>14, <1>15 DEF WindowInv

LEMMA WindowInvNext == WindowInv /\ [WindowNext]_windowVars => WindowInv'
<1> SUFFICES ASSUME WindowInv, [WindowNext]_windowVars PROVE WindowInv'
  OBVIOUS
<1>1. CASE WindowNext
  BY <1>1, WindowInvIncrement, WindowInvUpdate DEF WindowNext
<1>2. CASE UNCHANGED windowVars
  <2>1. /\ treap' = treap /\ sizes' = sizes /\ reference' = reference /\ sw' = sw
    BY <1>2 DEF windowVars
  <2>2. Keys' = Keys
    BY <2>1 DEF Keys
  <2> QED BY <2>1, <2>2 DEF WindowInv
<1> QED BY <1>1, <1>2

(***************************************************************************)
(* What the invariant says of the statistic.                               *)
(***************************************************************************)
LEMMA WindowInvSound == WindowInv => TreapSound
<1> SUFFICES ASSUME WindowInv PROVE TreapSound
  OBVIOUS
<1>1. Len(sw) = Length /\ Len(reference) = Length
  BY GroupsAre, WindowKeys DEF WindowInv, Window
<1>2. sizes[Cur] = Length /\ sizes[Ref] = Length
  BY GroupsAre DEF WindowInv
<1>3. Stores(treap, GapEntries(Keys))
  BY DEF WindowInv, Holds
<1>4. Sorted(treap) /\ Extremes(treap) /\ Entries(treap) = GapEntries(Keys)
  BY <1>3 DEF Stores, Good
<1>5. GapEntries(Keys) = {<<k, Gap(k)>> : k \in Keys}
  BY DEF GapEntries, Gap
<1> QED BY <1>1, <1>2, <1>4, <1>5 DEF TreapSound

\* The extremes of the root: the statistic bounds every gap, and is one.
LEMMA KSIs ==
  ASSUME WindowInv
  PROVE  /\ KS \in Int /\ Keys # {}
         /\ \A k \in Keys : Gap(k) \in Int /\ Distance(Gap(k), 0) <= KS
         /\ \E k \in Keys : Distance(Gap(k), 0) = KS
<1>1. /\ Keys \in SUBSET Key /\ IsFiniteSet(Keys)
      /\ treap \in Levels[MaxNodes] /\ Good(treap) /\ Entries(treap) = GapEntries(Keys)
  BY TopLevel DEF WindowInv, Holds, Stores
<1>2. Keys # {}
  <2>1. sw[1] \in Range(sw)
    BY GroupsAre, WindowKeys, Sizes DEF WindowInv, Window, Range
  <2> QED BY <2>1 DEF Keys
<1>3. /\ \A e \in Entries(treap) : e[1] \in Keys /\ e[2] = Gap(e[1])
      /\ \A k \in Keys : <<k, Gap(k)>> \in Entries(treap)
  BY <1>1, GapEntriesAre DEF Gap
<1>4. treap # None
  BY <1>2, <1>3, NoEntries
<1>5. /\ treap \in Node(Levels[MaxNodes - 1]) /\ MaxNodes \in 1 .. MaxNodes
  BY <1>1, <1>4, TopLevel, LevelCases
<1> DEFINE hi == treap.max
           lo == treap.min
<1>6. hi \in Int /\ lo \in Int /\ Bounds(lo, hi, Entries(treap))
  BY <1>1, <1>5, NodeFields, GoodNode
<1>7. KS = Max({hi, -lo})
  <2>1. sizes[Cur] = Length /\ Length # 0
    BY GroupsAre, Sizes DEF WindowInv
  <2> QED BY <2>1 DEF KS
<1>8. \A k \in Keys : Gap(k) \in Int
  BY <1>1, UpToKeyFinite DEF Gap
<1> HIDE DEF hi, lo
<1>9. \A k \in Keys : lo <= Gap(k) /\ Gap(k) <= hi
  <2> SUFFICES ASSUME NEW k \in Keys PROVE lo <= Gap(k) /\ Gap(k) <= hi
    OBVIOUS
  <2> DEFINE e == <<k, Gap(k)>>
  <2>1. e \in Entries(treap) /\ e[2] = Gap(k)
    BY <1>3
  <2> HIDE DEF e
  <2> QED BY <2>1, <1>6 DEF Bounds
<1>10. /\ \E k \in Keys : Gap(k) = lo
       /\ \E k \in Keys : Gap(k) = hi
  BY <1>3, <1>6 DEF Bounds
<1>11. lo <= hi
  BY <1>2, <1>6, <1>8, <1>9
<1>12. CASE hi >= -lo
  <2>1. Max({hi, -lo}) = hi
    <3> DEFINE S == {hi, -lo}
    <3>1. S \in SUBSET Int /\ hi \in S /\ \A y \in S : y <= hi
      BY <1>6, <1>12
    <3> HIDE DEF S
    <3> QED BY <3>1, MaxIs DEF S
  <2>2. \A k \in Keys : Distance(Gap(k), 0) <= hi
    BY <1>6, <1>8, <1>9, <1>12 DEF Distance
  <2>3. \E k \in Keys : Distance(Gap(k), 0) = hi
    BY <1>6, <1>10, <1>11, <1>12 DEF Distance
  <2> QED BY <1>2, <1>6, <1>7, <1>8, <2>1, <2>2, <2>3
<1>13. CASE ~(hi >= -lo)
  <2>1. Max({hi, -lo}) = -lo
    <3> DEFINE S == {hi, -lo}
               m == -lo
    <3>1. S \in SUBSET Int /\ m \in S /\ \A y \in S : y <= m
      BY <1>6, <1>13
    <3> HIDE DEF S, m
    <3>2. Max(S) = m
      BY <3>1, MaxIs
    <3> QED BY <3>2 DEF S, m
  <2>2. \A k \in Keys : Distance(Gap(k), 0) <= -lo
    BY <1>6, <1>8, <1>9, <1>13 DEF Distance
  <2>3. \E k \in Keys : Distance(Gap(k), 0) = -lo
    BY <1>6, <1>10, <1>11, <1>13 DEF Distance
  <2>4. -lo \in Int
    BY <1>6
  <2> QED BY <1>2, <1>7, <1>8, <2>1, <2>2, <2>3, <2>4
<1> QED BY <1>12, <1>13

LEMMA WindowInvExact == WindowInv => KSIsExact
<1> SUFFICES ASSUME WindowInv PROVE KSIsExact
  OBVIOUS
<1> DEFINE D == {Distance(Gap(k), 0) : k \in Keys}
<1>1. /\ KS \in Int /\ \A k \in Keys : Gap(k) \in Int /\ Distance(Gap(k), 0) <= KS
      /\ \E k \in Keys : Distance(Gap(k), 0) = KS
  BY KSIs
<1>2. D \in SUBSET Int /\ KS \in D /\ \A y \in D : y <= KS
  BY <1>1 DEF Distance
<1> HIDE DEF D
<1>3. Max(D) = KS
  BY <1>2, MaxIs
<1> QED BY <1>3 DEF KSIsExact, D

(***************************************************************************)
(* The statistic of the values alone.                                      *)
(***************************************************************************)
Valued(S, v) == {k \in S : k[1] <= v}

LEMMA CountKeys ==
  ASSUME NEW s, Window(s), NEW g \in Groups, NEW v \in Int
  PROVE  UpTo(s, v) = Cardinality(Valued(KeysTo(s, g, Length), v)) /\ UpTo(s, v) \in Nat
<1> DEFINE D == {i \in 1 .. Length : s[i][1] <= v}
           T == Valued(KeysTo(s, g, Length), v)
           f == [i \in D |-> Append(s[i], g)]
<1>1. /\ \A i \in 1 .. Length : s[i] \in Int \X Nat
      /\ \A i, j \in 1 .. Length : s[i] = s[j] => i = j
      /\ DOMAIN s = 1 .. Length
  BY DEF Window, Injective
<1>2. \A i \in 1 .. Length : Append(s[i], g)[1] = s[i][1]
  <2> SUFFICES ASSUME NEW i \in 1 .. Length PROVE Append(s[i], g)[1] = s[i][1]
    OBVIOUS
  <2> DEFINE o == s[i]
  <2>1. o \in Int \X Nat
    BY <1>1
  <2> HIDE DEF o
  <2>2. Append(o, g)[1] = o[1]
    BY <2>1, AppendPair
  <2> QED BY <2>2 DEF o
<1>3. \A i \in D : Append(s[i], g) \in T
  BY <1>2 DEF KeysTo, Valued
<1>4. \A k \in T : \E i \in D : Append(s[i], g) = k
  BY <1>2 DEF KeysTo, Valued
<1>5. \A i, j \in D : Append(s[i], g) = Append(s[j], g) => i = j
  BY <1>1, AppendOnce
<1>6. IsFiniteSet(D)
  <2>1. IsFiniteSet(1 .. Length)
    BY Sizes, FS_Interval
  <2>2. D \in SUBSET (1 .. Length)
    OBVIOUS
  <2> HIDE DEF D
  <2> QED BY <2>1, <2>2, FS_Subset
<1>7. UpTo(s, v) = Cardinality(D)
  BY <1>1 DEF UpTo
<1> HIDE DEF D, T
<1>8. f \in Surjection(D, T)
  BY <1>3, <1>4 DEF Surjection
<1>9. f \in Injection(D, T)
  BY <1>3, <1>5 DEF Injection, IsInjective
<1> HIDE DEF f
<1>10. Cardinality(T) = Cardinality(D)
  BY <1>6, <1>8, <1>9, FS_Surjection
<1>11. Cardinality(D) \in Nat
  BY <1>6, FS_CardinalityType
<1> QED BY <1>7, <1>10, <1>11 DEF T

\* The keys of small values are those up to some key.
LEMMA ValueGap ==
  ASSUME WindowInv, NEW v \in Int, NEW k0 \in Keys, k0[1] <= v
  PROVE  \E m \in Keys : /\ Gap(m) = UpTo(sw, v) - UpTo(reference, v)
                         /\ UpTo(sw, v) \in Nat /\ UpTo(reference, v) \in Nat
<1> DEFINE key == <<v + 1, 0, Cur>>
           E == GapEntries(Keys)
           below == {e \in E : ~AtMost(key, e[1])}
           t == SplitKeepRight(treap, key).left
           L == KeysTo(sw, Cur, Length)
           B == KeysTo(reference, Ref, Length)
<1>1. /\ Window(sw) /\ Window(reference) /\ Keys \in SUBSET Key /\ Stores(treap, E)
  BY DEF WindowInv, Holds
<1>2. Keys = L \cup B
  BY <1>1, KeysAre DEF Both
<1>3. \A k \in Keys : k \in Int \X Nat \X Groups
  <2>1. ASSUME NEW s, Window(s), NEW g \in Groups, NEW k \in KeysTo(s, g, Length)
        PROVE  k[1] \in Int /\ k[2] \in Nat /\ k[3] = g /\ k = <<k[1], k[2], k[3]>>
    <3>1. PICK i \in 1 .. Length : k = Append(s[i], g)
      BY <2>1 DEF KeysTo
    <3> DEFINE o == s[i]
    <3>2. o \in Int \X Nat
      BY <2>1 DEF Window
    <3>3. k = Append(o, g)
      BY <3>1
    <3> HIDE DEF o
    <3>4. k = <<o[1], o[2], g>>
      BY <3>2, <3>3, AppendPair
    <3>5. o[1] \in Int /\ o[2] \in Nat
      BY <3>2
    <3> QED BY <3>4, <3>5
  <2>2. \A k \in L : k[1] \in Int /\ k[2] \in Nat /\ k[3] = Cur /\ k = <<k[1], k[2], k[3]>>
    BY <1>1, <2>1, GroupsAre
  <2>3. \A k \in B : k[1] \in Int /\ k[2] \in Nat /\ k[3] = Ref /\ k = <<k[1], k[2], k[3]>>
    BY <1>1, <2>1, GroupsAre
  <2> HIDE DEF L, B
  <2>4. ASSUME NEW k \in Keys PROVE k \in Int \X Nat \X Groups
    <3>1. k[1] \in Int /\ k[2] \in Nat /\ k[3] \in Groups /\ k = <<k[1], k[2], k[3]>>
      BY <1>2, <2>2, <2>3, GroupsAre
    <3> QED BY <3>1
  <2> QED BY <2>4
<1>4. key \in Key
  BY GroupsAre DEF Key
<1>5. \A k \in Keys : ~AtMost(key, k) <=> k[1] <= v
  <2> SUFFICES ASSUME NEW k \in Keys PROVE ~AtMost(key, k) <=> k[1] <= v
    OBVIOUS
  <2>1. k[1] \in Int /\ k[2] \in Nat /\ 0 <= k[3]
    BY <1>3 DEF Groups, Cur, Ref
  <2> QED BY <2>1 DEF AtMost, Cur
<1> HIDE DEF key
<1>6. Stores(t, below)
  BY <1>1, <1>4, StoresSplit
<1>7. below # {}
  <2>1. <<k0, GapIn(Keys, k0)>> \in E
    BY <1>1, GapEntriesAre
  <2> DEFINE e == <<k0, GapIn(Keys, k0)>>
  <2>2. e[1] = k0
    OBVIOUS
  <2> HIDE DEF e, E
  <2> QED BY <1>5, <2>1, <2>2 DEF e
<1>8. t # None
  BY <1>6, <1>7, StoresTyped
<1>9. PICK e : LastEntry(below, e)
  <2> HIDE DEF t, below
  <2> QED BY <1>6, <1>8, StoresGreatest DEF t
<1> DEFINE m == e[1]
<1>10. m \in Keys /\ m[1] <= v
  <2>1. e \in E /\ ~AtMost(key, m)
    BY <1>9 DEF LastEntry
  <2>2. m \in Keys
    BY <1>1, <2>1, GapEntriesAre
  <2> QED BY <1>5, <2>1, <2>2
<1>11. ASSUME NEW k \in Keys PROVE AtMost(k, m) <=> k[1] <= v
  <2> DEFINE d == <<k, GapIn(Keys, k)>>
  <2>1. d \in E /\ d[1] = k
    BY <1>1, GapEntriesAre
  <2>2. e \in E /\ e = <<m, GapIn(Keys, m)>>
    <3>1. e \in E
      BY <1>9 DEF LastEntry
    <3> QED BY <1>1, <3>1, GapEntriesAre
  <2> HIDE DEF d
  <2>3. ASSUME k[1] <= v PROVE AtMost(k, m)
    <3>1. d \in below
      BY <1>5, <2>1, <2>3
    <3>2. CASE d = e
      BY <1>1, <2>1, <3>2, KeyOrder
    <3>3. CASE d # e
      <4>1. ~AtMost(m, k)
        BY <1>9, <2>1, <3>1, <3>3 DEF LastEntry
      <4> HIDE DEF m
      <4> QED BY <1>1, <1>10, <4>1, KeyOrder
    <3> QED BY <3>2, <3>3
  <2>4. ASSUME AtMost(k, m) PROVE k[1] <= v
    <3> HIDE DEF m
    <3>1. k[1] \in Int /\ m[1] \in Int /\ m[1] <= v
      BY <1>3, <1>10
    <3>2. k[1] <= m[1]
      BY <2>4, <3>1 DEF AtMost
    <3> QED BY <3>1, <3>2
  <2> QED BY <2>3, <2>4
<1> HIDE DEF m
<1>12. /\ \A k \in L : k[3] = Cur
       /\ \A k \in B : k[3] = Ref
  <2>1. \A i \in 1 .. Length : Append(sw[i], Cur)[3] = Cur
    BY <1>1, GroupsAre, WindowKeys DEF Window
  <2>2. \A i \in 1 .. Length : Append(reference[i], Ref)[3] = Ref
    BY <1>1, GroupsAre, WindowKeys DEF Window
  <2> QED BY <2>1, <2>2 DEF KeysTo
<1> HIDE DEF L, B, E, below, t
<1>13. UpToKey(Keys, Cur, m) = Valued(L, v) /\ UpToKey(Keys, Ref, m) = Valued(B, v)
  BY <1>2, <1>11, <1>12, GroupsAre DEF UpToKey, Valued
<1>14. UpTo(sw, v) = Cardinality(Valued(L, v)) /\ UpTo(sw, v) \in Nat
  BY <1>1, GroupsAre, CountKeys DEF L
<1>15. UpTo(reference, v) = Cardinality(Valued(B, v)) /\ UpTo(reference, v) \in Nat
  BY <1>1, GroupsAre, CountKeys DEF B
<1>16. Gap(m) = UpTo(sw, v) - UpTo(reference, v)
  BY <1>13, <1>14, <1>15 DEF Gap, GapIn
<1> QED BY <1>10, <1>14, <1>15, <1>16

LEMMA GreatestNumber ==
  ASSUME NEW S \in SUBSET Nat, S # {}, NEW b \in Int, \A x \in S : x <= b
  PROVE  \E x \in S : \A y \in S : y <= x
<1> DEFINE short == {b - x : x \in S}
<1>1. short \in SUBSET Nat /\ short # {}
  <2>1. \A x \in S : x \in Nat /\ b - x \in Nat
    OBVIOUS
  <2>2. \E x \in S : b - x \in short
    OBVIOUS
  <2> QED BY <2>1, <2>2
<1>2. PICK d \in short : \A e \in short : d <= e
  <2> HIDE DEF short
  <2> QED BY <1>1, LeastNumber
<1>3. PICK x \in S : d = b - x
  OBVIOUS
<1>4. ASSUME NEW y \in S PROVE y <= x
  <2>1. b - x <= b - y
    BY <1>2, <1>3
  <2> QED BY <2>1
<1> QED BY <1>4

LEMMA WindowInvBelow == WindowInv => ValueKSIsBelow
<1> SUFFICES ASSUME WindowInv PROVE ValueKSIsBelow
  OBVIOUS
<1> DEFINE observations == Range(sw) \cup Range(reference)
           gap(o) == Distance(UpTo(sw, o[1]), UpTo(reference, o[1]))
           S == {gap(o) : o \in observations}
<1>1. /\ KS \in Int /\ \A k \in Keys : Gap(k) \in Int /\ Distance(Gap(k), 0) <= KS
  BY KSIs
<1>2. Window(sw) /\ Window(reference)
  BY DEF WindowInv
<1>3. sw[1] \in observations
  <2>1. Range(sw) = {sw[i] : i \in 1 .. Length}
    BY <1>2, GroupsAre, WindowKeys DEF Window
  <2> QED BY <2>1, Sizes
<1>4. ASSUME NEW o \in observations PROVE gap(o) \in Nat /\ gap(o) <= KS
  <2>1. o \in Int \X Nat
    <3>1. Range(sw) = {sw[i] : i \in 1 .. Length} /\ Range(reference) = {reference[i] : i \in 1 .. Length}
      BY <1>2, GroupsAre, WindowKeys DEF Window
    <3> QED BY <1>2, <3>1 DEF Window
  <2> DEFINE v == o[1]
  <2>2. v \in Int
    BY <2>1
  <2>3. PICK g \in Groups : Append(o, g) \in Keys
    BY GroupsAre DEF Keys
  <2> DEFINE k0 == Append(o, g)
  <2>4. k0 \in Keys /\ k0[1] = v
    BY <2>1, <2>3, AppendPair
  <2> HIDE DEF v, k0
  <2>5. k0[1] <= v
    BY <2>2, <2>4
  <2>6. PICK m \in Keys : /\ Gap(m) = UpTo(sw, v) - UpTo(reference, v)
                          /\ UpTo(sw, v) \in Nat /\ UpTo(reference, v) \in Nat
    BY <2>2, <2>4, <2>5, ValueGap
  <2>7. /\ Distance(UpTo(sw, v), UpTo(reference, v)) = Distance(Gap(m), 0)
        /\ Distance(UpTo(sw, v), UpTo(reference, v)) \in Nat
    BY <2>6 DEF Distance
  <2>8. Distance(Gap(m), 0) <= KS
    BY <1>1
  <2> QED BY <2>7, <2>8 DEF v
<1>5. S \in SUBSET Nat /\ S # {} /\ \A x \in S : x <= KS
  <2> HIDE DEF gap, observations
  <2> QED BY <1>3, <1>4
<1>6. ValueKS = Max(S)
  BY DEF ValueKS
<1> HIDE DEF S
<1>7. PICK x \in S : \A y \in S : y <= x
  BY <1>1, <1>5, GreatestNumber
<1>8. Max(S) = x
  BY <1>5, <1>7, MaxIs
<1> QED BY <1>5, <1>6, <1>7, <1>8 DEF ValueKSIsBelow

LEMMA WindowInvIsExact == WindowInv => WindowIsExact
BY WindowInvSound, WindowInvExact, WindowInvBelow DEF WindowIsExact

\* The treap of IKS.py, under any sequence of Increment and UpdateWindow.
THEOREM TreapStaysExact == WindowSpec => []WindowIsExact
BY WindowInvInit, WindowInvNext, WindowInvIsExact, PTL DEF WindowSpec

(***************************************************************************)
(* The composition.                                                        *)
(***************************************************************************)
P == INSTANCE PerFeatureIKSProofs
Q == INSTANCE DriftAggregatorProofs WITH Writers <- Detectors, WriterOf <- DetectorOf

LEMMA SameDetectors == Spec => P!Spec
<1>1. Init => P!Init
  BY DEF Init, G!Init, P!Init, G!Null, P!Null
<1>2. ASSUME NEW f \in Features, G!Detect(f) PROVE P!Detect(f)
  <2>1. P!Turn(f)
    BY <1>2 DEF G!Detect, G!Turn, P!Turn
  <2>2. G!ProcessElement(f)
    BY <1>2 DEF G!Detect
  <2>3. ASSUME G!WarmUp(f) PROVE P!WarmUp(f)
    BY <2>3 DEF G!WarmUp, P!WarmUp, G!Warm, P!Warm, G!Update, P!Update, G!Null, P!Null
  <2>4. G!Ks = P!Ks
    BY DEF G!Ks, P!Ks
  <2>5. ASSUME NEW k \in G!Ks, G!StayQuiet(f, k) PROVE P!StayQuiet(f, k)
    BY <2>5 DEF G!StayQuiet, P!StayQuiet, G!Warm, P!Warm, G!Update, P!Update
  <2>6. ASSUME NEW k \in G!Ks, G!StartConfirm(f, k) PROVE P!StartConfirm(f, k)
    BY <2>6 DEF G!StartConfirm, P!StartConfirm, G!Warm, P!Warm, G!Update, P!Update,
                G!Seq0, P!Seq0
  <2>7. ASSUME NEW k \in G!Ks, G!KeepConfirming(f, k) PROVE P!KeepConfirming(f, k)
    BY <2>7 DEF G!KeepConfirming, P!KeepConfirming, G!Warm, P!Warm, G!Update, P!Update,
                G!Seq0, P!Seq0, G!Expired, P!Expired, G!Peak, P!Peak
  <2>8. ASSUME NEW k \in G!Ks, G!Confirm(f, k) PROVE P!Confirm(f, k)
    BY <2>8 DEF G!Confirm, P!Confirm, G!Warm, P!Warm, G!Update, P!Update,
                G!Seq0, P!Seq0, G!Expired, P!Expired, G!Peak, P!Peak, G!Null, P!Null,
                G!Rebase, P!Rebase, G!LeaveConfirming, P!LeaveConfirming
  <2>9. ASSUME NEW k \in G!Ks, G!DiscardTransient(f, k) PROVE P!DiscardTransient(f, k)
    BY <2>9 DEF G!DiscardTransient, P!DiscardTransient, G!Warm, P!Warm, G!Update, P!Update,
                G!Seq0, P!Seq0, G!Expired, P!Expired, G!Peak, P!Peak, G!Null, P!Null,
                G!LeaveConfirming, P!LeaveConfirming
  <2> QED
    BY <2>1, <2>2, <2>3, <2>4, <2>5, <2>6, <2>7, <2>8, <2>9
       DEF G!ProcessElement, P!ProcessElement, P!Detect
<1>3. [Next]_vars => [P!Next]_P!vars
  BY <1>2 DEF Next, Detect, Aggregate, P!Next, vars, detectionVars, P!vars, P!gateVars
<1> QED
  BY <1>1, <1>3, PTL DEF Spec, P!Spec

(***************************************************************************)
(* The topic.  Every report is with the detector of its feature, and the   *)
(* progress of a feature is its last report that was consumed.             *)
(***************************************************************************)
NoGaps == \A i, j \in 1 .. Len(Rows) : Rows[j] - Rows[i] = j - i

Ordered == P!TypeOK /\ P!OnsetsApart /\ P!ReportsInOrder

RightDetector ==
  \A d \in Detectors : \A i \in 1 .. Len(reports[d]) :
    DetectorOf[reports[d][i].featureId] = d

Progress ==
  /\ DOMAIN progress = Features
  /\ \A f \in Features :
       \/ progress[f] = A!NoSeq
       \/ \E i \in 1 .. consumed[DetectorOf[f]] :
            /\ reports[DetectorOf[f]][i].featureId = f
            /\ reports[DetectorOf[f]][i].seq = progress[f]

TopicInv ==
  /\ consumed \in [Detectors -> Nat]
  /\ TypeOK
  /\ RightDetector
  /\ Progress

LEMMA ReportsAre ==
  ASSUME P!TypeOK, NEW d \in Detectors
  PROVE  /\ Len(reports[d]) \in Nat
         /\ \A i \in 1 .. Len(reports[d]) :
              /\ reports[d][i].featureId \in Features
              /\ reports[d][i].seq \in A!Seqs
              /\ reports[d][i].seq \in Nat
<1>1. reports[d] \in Seq(P!FeatureDrift)
  BY DEF P!TypeOK
<1>2. \A i \in 1 .. Len(Rows) : Rows[i] \in Nat /\ Rows[i] <= MaxSeq
  BY JoinAssumption DEF G!DetectionAssumption
<1>3. MaxSeq \in Nat
  BY JoinAssumption DEF A!AggregatorAssumption
<1>4. \A r \in P!FeatureDrift : r.featureId \in Features /\ r.seq \in A!Seqs /\ r.seq \in Nat
  BY <1>2, <1>3 DEF P!FeatureDrift, P!Seqs, A!Seqs
<1> QED
  BY <1>1, <1>4

\* A detector's reports only grow, by reports of its own features.
LEMMA ReportsGrow ==
  ASSUME P!TypeOK, NEW f \in Features, G!Detect(f), NEW d \in Detectors
  PROVE  /\ Len(reports'[d]) \in Nat
         /\ Len(reports'[d]) >= Len(reports[d])
         /\ \A i \in 1 .. Len(reports[d]) : reports'[d][i] = reports[d][i]
         /\ \A i \in 1 .. Len(reports'[d]) :
              \/ i \in 1 .. Len(reports[d])
              \/ DetectorOf[reports'[d][i].featureId] = d
<1>1. reports \in [Detectors -> Seq(P!FeatureDrift)] /\ Len(reports[d]) \in Nat
  BY ReportsAre DEF P!TypeOK
<1>2. CASE reports' = reports
  BY <1>1, <1>2
<1>3. ASSUME NEW k \in G!Ks, G!Confirm(f, k)
      PROVE  \/ reports'[d] = reports[d]
             \/ \E r : r.featureId = f /\ d = DetectorOf[f] /\ reports'[d] = Append(reports[d], r)
  <2>1. reports' = [reports EXCEPT ![DetectorOf[f]] =
          Append(@, [featureId |-> f, seq |-> startSeq[f], peak |-> G!Peak(f, k)])]
    BY <1>3 DEF G!Confirm
  <2>2. CASE d = DetectorOf[f]
    <3> DEFINE new == [featureId |-> f, seq |-> startSeq[f], peak |-> G!Peak(f, k)]
    <3>1. new.featureId = f
      OBVIOUS
    <3>2. reports'[d] = Append(reports[d], new)
      BY <1>1, <2>1, <2>2
    <3> QED
      BY <2>2, <3>1, <3>2
  <2>3. CASE d # DetectorOf[f]
    BY <1>1, <2>1, <2>3
  <2> QED
    BY <2>2, <2>3
<1>4. ASSUME NEW r, r.featureId = f, d = DetectorOf[f], reports'[d] = Append(reports[d], r)
      PROVE  /\ Len(reports'[d]) = Len(reports[d]) + 1
             /\ \A i \in 1 .. Len(reports[d]) : reports'[d][i] = reports[d][i]
             /\ DetectorOf[reports'[d][Len(reports[d]) + 1].featureId] = d
  <2>1. reports[d] \in Seq(P!FeatureDrift)
    BY <1>1
  <2> QED
    BY <1>4, <2>1
<1>5. \A i : i \in 1 .. Len(reports[d]) + 1 =>
        i \in 1 .. Len(reports[d]) \/ i = Len(reports[d]) + 1
  BY <1>1
<1>6. reports' = reports \/ \E k \in G!Ks : G!Confirm(f, k)
  BY DEF G!Detect, G!ProcessElement, G!WarmUp, G!StayQuiet, G!StartConfirm,
         G!KeepConfirming, G!DiscardTransient
<1>7. CASE reports'[d] = reports[d]
  BY <1>1, <1>7
<1>8. CASE \E r : r.featureId = f /\ d = DetectorOf[f] /\ reports'[d] = Append(reports[d], r)
  BY <1>1, <1>4, <1>5, <1>8
<1> QED
  BY <1>2, <1>3, <1>6, <1>7, <1>8

LEMMA TopicInductive ==
  /\ Init => TopicInv
  /\ TopicInv /\ P!TypeOK /\ [Next]_vars => TopicInv'
<1>1. Init => TopicInv
  BY DEF Init, G!Init, A!Init, TopicInv, TypeOK, RightDetector, Progress
<1>2. ASSUME TopicInv, P!TypeOK, [Next]_vars PROVE TopicInv'
  <2>1. CASE UNCHANGED vars
    BY <1>2, <2>1 DEF vars, detectionVars, aggregatorVars, TopicInv, TypeOK, RightDetector, Progress
  <2>2. ASSUME NEW f \in Features, Detect(f) PROVE TopicInv'
    <3>1. P!TypeOK /\ G!Detect(f) /\ consumed' = consumed /\ progress' = progress
      BY <1>2, <2>2 DEF Detect, aggregatorVars
    <3>2. /\ consumed \in [Detectors -> Nat]
          /\ \A d \in Detectors : consumed[d] \in 0 .. Len(reports[d])
      BY <1>2 DEF TopicInv, TypeOK
    <3>3. TypeOK'
      <4> SUFFICES ASSUME NEW d \in Detectors PROVE consumed'[d] \in 0 .. Len(reports'[d])
        BY DEF TypeOK
      <4>1. Len(reports[d]) \in Nat /\ Len(reports'[d]) \in Nat
            /\ Len(reports'[d]) >= Len(reports[d])
        BY <3>1, ReportsAre, ReportsGrow
      <4> QED
        BY <3>1, <3>2, <4>1
    <3>4. RightDetector'
      BY <1>2, <3>1, ReportsGrow DEF TopicInv, RightDetector
    <3>5. Progress'
      <4>1. \A d \in Detectors : \A i \in 1 .. consumed[d] : reports'[d][i] = reports[d][i]
        <5> SUFFICES ASSUME NEW d \in Detectors, NEW i \in 1 .. consumed[d]
                     PROVE  reports'[d][i] = reports[d][i]
          OBVIOUS
        <5>1. Len(reports[d]) \in Nat
          BY <3>1, ReportsAre
        <5>2. i \in 1 .. Len(reports[d])
          BY <3>2, <5>1
        <5> QED
          BY <3>1, <5>2, ReportsGrow
      <4>2. \A g \in Features : DetectorOf[g] \in Detectors
        BY JoinAssumption DEF G!DetectionAssumption
      <4> QED
        BY <1>2, <3>1, <4>1, <4>2 DEF TopicInv, Progress
    <3> QED
      BY <1>2, <3>1, <3>3, <3>4, <3>5 DEF TopicInv
  <2>3. ASSUME NEW d \in Detectors, Aggregate(d) PROVE TopicInv'
    <3> DEFINE n == consumed[d] + 1
               r == reports[d][n]
    <3>1. /\ consumed[d] \in Nat /\ consumed[d] < Len(reports[d])
          /\ consumed \in [Detectors -> Nat]
          /\ consumed' = [consumed EXCEPT ![d] = n]
          /\ reports' = reports
      BY <1>2, <2>3 DEF Aggregate, Advance, detectionVars, TopicInv
    <3>2. n \in 1 .. Len(reports[d]) /\ n \in Nat
      BY <1>2, <3>1, ReportsAre
    <3>3. r.featureId \in Features /\ DetectorOf[r.featureId] = d
      BY <1>2, <3>2, ReportsAre DEF TopicInv, RightDetector
    <3>4. progress' = [progress EXCEPT ![r.featureId] = r.seq]
      BY <2>3 DEF Aggregate
    <3>5. TypeOK' /\ consumed' \in [Detectors -> Nat]
      BY <1>2, <3>1, <3>2 DEF TopicInv, TypeOK
    <3>6. RightDetector'
      BY <1>2, <3>1 DEF TopicInv, RightDetector
    <3>7. Progress'
      <4>1. \A e \in Detectors : 1 .. consumed[e] \subseteq 1 .. consumed'[e]
        BY <3>1
      <4>2. n \in 1 .. consumed'[d]
        BY <3>1
      <4>3. \A g \in Features : DetectorOf[g] \in Detectors
        BY JoinAssumption DEF G!DetectionAssumption
      <4> HIDE DEF n
      <4>4. ASSUME NEW g \in Features, g # r.featureId
            PROVE  \/ progress'[g] = A!NoSeq
                   \/ \E i \in 1 .. consumed'[DetectorOf[g]] :
                        /\ reports'[DetectorOf[g]][i].featureId = g
                        /\ reports'[DetectorOf[g]][i].seq = progress'[g]
        BY <1>2, <3>1, <3>3, <3>4, <4>1, <4>3, <4>4 DEF TopicInv, Progress
      <4>5. /\ reports'[d][n].featureId = r.featureId
            /\ reports'[d][n].seq = progress'[r.featureId]
        BY <1>2, <3>1, <3>3, <3>4 DEF TopicInv, Progress
      <4> QED
        BY <1>2, <3>3, <3>4, <4>2, <4>4, <4>5 DEF TopicInv, Progress
    <3> QED
      BY <3>5, <3>6, <3>7 DEF TopicInv
  <2> QED
    BY <1>2, <2>1, <2>2, <2>3 DEF Next
<1> QED
  BY <1>1, <1>2

\* Detectors keep their types and lay their onsets apart, whatever the rows.
LEMMA DetectorsAlways == Spec => []P!TypeOK /\ []P!OnsetsApart
<1>1. P!DetectionAssumption
  BY JoinAssumption DEF G!DetectionAssumption, P!DetectionAssumption
<1>2. P!Spec => []P!OnsetsApart
  BY <1>1, P!OnsetsLieApart, PTL
<1>3. P!Spec => []P!TypeOK
  BY <1>1, P!TypeCorrect, PTL
<1> QED
  BY <1>2, <1>3, SameDetectors, PTL

LEMMA TopicAlways == Spec => []TopicInv
  BY TopicInductive, DetectorsAlways, PTL DEF Spec

\* Type correctness: no offset runs ahead of the reports.
THEOREM TypeCorrect == Spec => []TypeOK
<1>1. TopicInv => TypeOK
  BY DEF TopicInv
<1> QED
  BY <1>1, TopicAlways, PTL

LEMMA OrderedAlways == ASSUME NoGaps PROVE Spec => []Ordered
<1>1. P!NoGaps
  BY DEF NoGaps, P!NoGaps
<1>2. P!DetectionAssumption
  BY JoinAssumption DEF G!DetectionAssumption, P!DetectionAssumption
<1>3. P!Spec => []P!ReportsInOrder
  BY <1>1, <1>2, P!ReportsAreOrdered
<1> QED
  BY <1>3, DetectorsAlways, SameDetectors, PTL DEF Ordered

(***************************************************************************)
(* The refinement: what the aggregator reads next is a report that the     *)
(* environment of DriftAggregator may send.                                *)
(***************************************************************************)
LEMMA NextReport ==
  ASSUME TopicInv, Ordered, NEW d \in Detectors, Aggregate(d)
  PROVE  \E fd \in A!FeatureDrift : A!Report(fd)
<1> DEFINE n == consumed[d] + 1
           r == reports[d][n]
           fd == [featureId |-> r.featureId, seq |-> r.seq]
<1>1. consumed[d] \in Nat /\ consumed[d] < Len(reports[d]) /\ Len(reports[d]) \in Nat
  BY ReportsAre DEF Aggregate, TopicInv, Ordered
<1>2. n \in 1 .. Len(reports[d])
  BY <1>1
<1>3. /\ r.featureId \in Features /\ r.seq \in A!Seqs /\ r.seq \in Nat
      /\ DetectorOf[r.featureId] = d
  BY <1>2, ReportsAre DEF Ordered, TopicInv, RightDetector
<1>4. /\ A!ProcessElement(fd)
      /\ progress' = [progress EXCEPT ![fd.featureId] = fd.seq]
      /\ latest' = fd
  BY DEF Aggregate
<1>5. fd \in A!FeatureDrift /\ fd.featureId = r.featureId /\ fd.seq = r.seq
  BY <1>3 DEF A!FeatureDrift
<1>6. ConfirmWin \in Nat /\ WindowSize \in Nat /\ ConfirmWin + WindowSize > 0
  BY JoinAssumption DEF G!DetectionAssumption
\* The last consumed report of a feature of this detector.
<1>7. ASSUME NEW g \in Features, DetectorOf[g] = d, progress[g] # A!NoSeq
      PROVE  \E i \in 1 .. Len(reports[d]) :
               i < n /\ reports[d][i].featureId = g /\ reports[d][i].seq = progress[g]
  <2>1. PICK i \in 1 .. consumed[d] :
          reports[d][i].featureId = g /\ reports[d][i].seq = progress[g]
    BY <1>7 DEF TopicInv, Progress
  <2>2. i \in 1 .. Len(reports[d]) /\ i < n
    BY <1>1
  <2> QED
    BY <2>1, <2>2
<1> HIDE DEF n
<1>8. ASSUME NEW g \in Features, DetectorOf[g] = d PROVE r.seq >= progress[g]
  <2>1. CASE progress[g] = A!NoSeq
    BY <1>3, <2>1 DEF A!NoSeq
  <2>2. CASE progress[g] # A!NoSeq
    <3>1. PICK i \in 1 .. Len(reports[d]) : i < n /\ reports[d][i].seq = progress[g]
      BY <1>7, <1>8, <2>2
    <3>2. reports[d][i].seq <= reports[d][n].seq
      BY <1>2, <3>1 DEF Ordered, P!ReportsInOrder
    <3>3. reports[d][i].seq \in Nat
      BY ReportsAre DEF Ordered
    <3> QED
      BY <1>3, <3>1, <3>2, <3>3
  <2> QED
    BY <2>1, <2>2
<1>9. r.seq > progress[r.featureId]
  <2>1. CASE progress[r.featureId] = A!NoSeq
    BY <1>3, <2>1 DEF A!NoSeq
  <2>2. CASE progress[r.featureId] # A!NoSeq
    <3>1. PICK i \in 1 .. Len(reports[d]) :
            /\ i < n
            /\ reports[d][i].featureId = r.featureId
            /\ reports[d][i].seq = progress[r.featureId]
      BY <1>3, <1>7, <2>2
    <3>2. reports[d][n].seq - reports[d][i].seq >= ConfirmWin + WindowSize
      BY <1>2, <1>3, <3>1 DEF Ordered, P!OnsetsApart
    <3>3. reports[d][i].seq \in Nat
      BY ReportsAre DEF Ordered
    <3> QED
      BY <1>3, <1>6, <3>1, <3>2, <3>3
  <2> QED
    BY <2>1, <2>2
<1> HIDE DEF r, fd
<1>10. \A g \in Features : DetectorOf[g] = DetectorOf[fd.featureId] => fd.seq >= progress[g]
  BY <1>3, <1>5, <1>8
<1>11. fd.seq > progress[fd.featureId]
  BY <1>5, <1>9
<1>12. A!Report(fd)
  BY <1>4, <1>10, <1>11 DEF A!Report
<1> QED
  BY <1>5, <1>12

LEMMA StepRefines ==
  TopicInv /\ Ordered /\ [Next]_vars => [A!Next]_A!vars
<1> SUFFICES ASSUME TopicInv, Ordered, [Next]_vars PROVE [A!Next]_A!vars
  OBVIOUS
<1>1. CASE UNCHANGED vars
  BY <1>1 DEF vars, aggregatorVars, A!vars
<1>2. ASSUME NEW f \in Features, Detect(f) PROVE [A!Next]_A!vars
  BY <1>2 DEF Detect, aggregatorVars, A!vars
<1>3. ASSUME NEW d \in Detectors, Aggregate(d) PROVE [A!Next]_A!vars
  BY <1>3, NextReport DEF A!Next
<1> QED
  BY <1>1, <1>2, <1>3 DEF Next

\* Rows being numbered without a gap, the detectors and the topic are an
\* environment as DriftAggregator assumes it: every behaviour of the
\* composition is one of the aggregator (PerFeatureIKSFunction, its Kafka
\* sink and DriftAggregatorFunction).
THEOREM Refines == ASSUME NoGaps PROVE Spec => ImplementsAggregator
<1>1. Init => A!Init
  BY DEF Init
<1> QED
  BY <1>1, StepRefines, TopicAlways, OrderedAlways, PTL DEF Spec, ImplementsAggregator, A!Spec

LEMMA SameSets ==
  \A S : /\ A!Cardinality(S) = Cardinality(S)
         /\ Q!Cardinality(S) = Cardinality(S)
         /\ A!IsFiniteSet(S) = Q!IsFiniteSet(S)
BY DEF Cardinality, A!Cardinality, Q!Cardinality, A!IsFiniteSet, Q!IsFiniteSet

LEMMA SameAggregator == A!Spec => Q!Spec
<1>1. A!Init => Q!Init
  BY DEF A!Init, Q!Init, A!NoOnsets, Q!NoOnsets, A!NoReport, Q!NoReport, A!NoSeq, Q!NoSeq
<1>2. ASSUME NEW fd \in A!FeatureDrift, A!Report(fd) PROVE Q!Report(fd)
  <2>1. /\ A!Slide(fd) = Q!Slide(fd)
        /\ A!InRefractory(fd.seq) = Q!InRefractory(fd.seq)
        /\ A!NoOnsets = Q!NoOnsets
    BY DEF A!Slide, Q!Slide, A!InRefractory, Q!InRefractory, A!NoOnsets, Q!NoOnsets,
           A!NoSeq, Q!NoSeq
  <2>2. \A w : A!Quorum(w) = Q!Quorum(w)
    BY SameSets DEF A!Quorum, Q!Quorum
  <2>3. \A id, now, w : A!Round(id, now, w) = Q!Round(id, now, w)
    BY DEF A!Round, Q!Round
  <2>4. A!Remember(fd) => Q!Remember(fd)
    BY <2>1, <2>2 DEF A!Remember, Q!Remember
  <2>5. A!Commit(fd) => Q!Commit(fd)
    BY <2>1, <2>2, <2>3 DEF A!Commit, Q!Commit
  <2> QED
    BY <1>2, <2>4, <2>5 DEF A!Report, Q!Report, A!ProcessElement, Q!ProcessElement
<1>3. A!FeatureDrift = Q!FeatureDrift
  BY DEF A!FeatureDrift, Q!FeatureDrift, A!Seqs, Q!Seqs
<1>4. [A!Next]_A!vars => [Q!Next]_Q!vars
  BY <1>2, <1>3 DEF A!Next, Q!Next, A!vars, Q!vars
<1> QED
  BY <1>1, <1>4, PTL DEF A!Spec, Q!Spec

(***************************************************************************)
(* Rounds rest on drift.  Every vote is a report, and every report is an   *)
(* excess that its detector saw.                                           *)
(***************************************************************************)
OneDetector == \A f, g \in Features : DetectorOf[f] = DetectorOf[g]

Reported(f, s) ==
  /\ f \in Features
  /\ \E i \in 1 .. Len(reports[DetectorOf[f]]) :
       /\ reports[DetectorOf[f]][i].featureId = f
       /\ reports[DetectorOf[f]][i].seq = s

VotesReported ==
  /\ \A f \in DOMAIN recent : Reported(f, recent[f])
  /\ \A n \in 1 .. Len(rounds) : \A f \in DOMAIN rounds[n].onsets :
       Reported(f, rounds[n].onsets[f])

\* A vote of the window is the report at hand or was remembered.
LEMMA SlideFacts ==
  ASSUME NEW fd, NEW f \in DOMAIN A!Slide(fd)
  PROVE  \/ f = fd.featureId /\ A!Slide(fd)[f] = fd.seq
         \/ f \in DOMAIN recent /\ A!Slide(fd)[f] = recent[f]
BY DEF A!Slide

LEMMA VotesInductive ==
  /\ Init => VotesReported
  /\ /\ VotesReported /\ TopicInv /\ P!TypeOK /\ Q!TypeOK
     /\ [Next]_vars
     => VotesReported'
<1>1. Init => VotesReported
  BY DEF Init, A!Init, A!NoOnsets, VotesReported
<1>2. ASSUME VotesReported, TopicInv, P!TypeOK, Q!TypeOK, [Next]_vars PROVE VotesReported'
  <2>1. CASE UNCHANGED vars
    BY <1>2, <2>1 DEF vars, detectionVars, aggregatorVars, VotesReported, Reported
  <2>2. \A f \in Features : DetectorOf[f] \in Detectors
    BY JoinAssumption DEF G!DetectionAssumption
  <2>3. ASSUME NEW f \in Features, Detect(f) PROVE VotesReported'
    <3>1. G!Detect(f) /\ recent' = recent /\ rounds' = rounds
      BY <2>3 DEF Detect, aggregatorVars
    <3>2. ASSUME NEW g, NEW s, Reported(g, s) PROVE Reported(g, s)'
      <4>1. PICK i \in 1 .. Len(reports[DetectorOf[g]]) :
              /\ reports[DetectorOf[g]][i].featureId = g
              /\ reports[DetectorOf[g]][i].seq = s
        BY <3>2 DEF Reported
      <4>2. PICK d \in Detectors : d = DetectorOf[g]
        BY <2>2, <3>2 DEF Reported
      <4>3. Len(reports[d]) \in Nat /\ Len(reports'[d]) \in Nat
            /\ Len(reports'[d]) >= Len(reports[d])
            /\ reports'[d][i] = reports[d][i]
        BY <1>2, <3>1, <4>1, <4>2, ReportsAre, ReportsGrow
      <4>4. i \in 1 .. Len(reports'[d])
        BY <4>1, <4>2, <4>3
      <4> QED
        BY <3>2, <4>1, <4>2, <4>3, <4>4 DEF Reported
    <3>3. ASSUME NEW f2 \in DOMAIN recent PROVE \E s : s = recent[f2] /\ Reported(f2, s)'
      <4>1. PICK s : s = recent[f2]
        OBVIOUS
      <4> QED
        BY <1>2, <3>2, <4>1 DEF VotesReported
    <3>4. ASSUME NEW n \in 1 .. Len(rounds), NEW g \in DOMAIN rounds[n].onsets
          PROVE  \E s : s = rounds[n].onsets[g] /\ Reported(g, s)'
      <4>1. PICK s : s = rounds[n].onsets[g]
        OBVIOUS
      <4> QED
        BY <1>2, <3>2, <4>1 DEF VotesReported
    <3> QED
      BY <3>1, <3>3, <3>4 DEF VotesReported, Reported
  <2>4. ASSUME NEW d \in Detectors, Aggregate(d) PROVE VotesReported'
    <3> DEFINE n == consumed[d] + 1
               r == reports[d][n]
               fd == [featureId |-> r.featureId, seq |-> r.seq]
    <3>1. n \in 1 .. Len(reports[d]) /\ reports' = reports
      BY <1>2, <2>4, ReportsAre DEF Aggregate, detectionVars, TopicInv
    <3>2. r.featureId \in Features /\ DetectorOf[r.featureId] = d
      BY <1>2, <3>1, ReportsAre DEF TopicInv, RightDetector
    <3>3. fd.featureId = r.featureId /\ fd.seq = r.seq /\ A!ProcessElement(fd)
      BY <2>4 DEF Aggregate
    <3>4. Reported(fd.featureId, fd.seq)
      BY <3>1, <3>2, <3>3 DEF Reported
    <3> HIDE DEF n, r, fd
    <3>5. \A f \in DOMAIN A!Slide(fd) : Reported(f, A!Slide(fd)[f])
      BY <1>2, <3>4, SlideFacts DEF VotesReported
    <3>6. \A f, s : Reported(f, s) => Reported(f, s)'
      BY <3>1 DEF Reported
    <3>7. CASE A!Remember(fd)
      BY <1>2, <3>1, <3>5, <3>7 DEF A!Remember, VotesReported, Reported
    <3>8. CASE A!Commit(fd)
      <4> DEFINE w == A!Slide(fd)
                 new == A!Round(roundCounter + 1, fd.seq, w)
      <4>1. recent' = A!NoOnsets /\ rounds' = Append(rounds, new)
        BY <3>8 DEF A!Commit
      <4>2. new.onsets = w
        BY DEF A!Round
      <4>3. rounds \in Seq([roundId : Nat, seq : Q!Seqs, onsets : Q!Memory])
        BY <1>2 DEF Q!TypeOK
      <4> HIDE DEF w, new
      <4>4. /\ Len(rounds) \in Nat /\ Len(rounds') = Len(rounds) + 1
            /\ rounds'[Len(rounds) + 1] = new
            /\ \A k \in 1 .. Len(rounds) : rounds'[k] = rounds[k]
        BY <4>1, <4>3
      <4>5. \A f \in DOMAIN w : Reported(f, w[f])
        BY <3>5 DEF w
      <4>6. ASSUME NEW k \in 1 .. Len(rounds'), NEW f \in DOMAIN rounds'[k].onsets
            PROVE  Reported(f, rounds'[k].onsets[f])
        <5>1. CASE k \in 1 .. Len(rounds)
          BY <1>2, <4>4, <4>6, <5>1 DEF VotesReported
        <5>2. CASE k = Len(rounds) + 1
          BY <4>2, <4>4, <4>5, <4>6, <5>2
        <5> QED
          BY <4>4, <5>1, <5>2
      <4>7. DOMAIN recent' = {}
        BY <4>1 DEF A!NoOnsets
      <4> QED
        BY <3>1, <4>6, <4>7 DEF VotesReported, Reported
    <3> QED
      BY <3>3, <3>7, <3>8 DEF A!ProcessElement
  <2> QED
    BY <1>2, <2>1, <2>3, <2>4 DEF Next
<1> QED
  BY <1>1, <1>2

\* One detector subtask and rows numbered without a gap: every COMMITTED
\* round has K voters within the window, and each of them is a feature whose
\* ks exceeded the threshold at the onset it votes with.
THEOREM RoundsAreFounded == ASSUME NoGaps, OneDetector PROVE Spec => []RoundsRestOnDrift
<1>1. P!DetectionAssumption /\ Q!AggregatorAssumption /\ Q!OrderedDelivery
  BY JoinAssumption, SameSets DEF G!DetectionAssumption, P!DetectionAssumption,
     A!AggregatorAssumption, Q!AggregatorAssumption, OneDetector, Q!OrderedDelivery
<1>2. Spec => Q!Spec
  BY Refines, SameAggregator, PTL DEF ImplementsAggregator
<1>3. Q!Spec => []Q!WindowQuorum
  BY <1>1, Q!RoundsHaveQuorum
<1>4. Q!Spec => []Q!TypeOK
  BY <1>1, Q!TypeCorrect
<1>5. P!Spec => []P!OnsetsExceeded
  BY <1>1, P!OnsetsAreExcesses
<1>6. /\ Q!WindowQuorum /\ VotesReported /\ P!OnsetsExceeded /\ P!TypeOK
      => RoundsRestOnDrift
  <2> SUFFICES ASSUME Q!WindowQuorum, VotesReported, P!OnsetsExceeded, P!TypeOK,
                      NEW i \in 1 .. Len(rounds)
               PROVE  \E voters \in SUBSET DOMAIN rounds[i].onsets :
                        /\ Cardinality(voters) >= K
                        /\ \A f, g \in voters :
                             rounds[i].onsets[f] - rounds[i].onsets[g] <= AggWin
                        /\ \A f \in voters : \E j \in 1 .. read[f] :
                             Rows[j] = rounds[i].onsets[f] /\ history[f][j] > Threshold
    BY DEF RoundsRestOnDrift
  <2>1. PICK voters \in SUBSET DOMAIN rounds[i].onsets :
          /\ Cardinality(voters) >= K
          /\ \A f, g \in voters : rounds[i].onsets[f] - rounds[i].onsets[g] <= AggWin
    BY SameSets DEF Q!WindowQuorum
  <2>2. ASSUME NEW f \in voters
        PROVE  \E j \in 1 .. read[f] :
                 Rows[j] = rounds[i].onsets[f] /\ history[f][j] > Threshold
    <3>1. Reported(f, rounds[i].onsets[f])
      BY <2>2 DEF VotesReported
    <3>2. PICK m \in 1 .. Len(reports[DetectorOf[f]]) :
            /\ reports[DetectorOf[f]][m].featureId = f
            /\ reports[DetectorOf[f]][m].seq = rounds[i].onsets[f]
      BY <3>1 DEF Reported
    <3>3. DetectorOf[f] \in Detectors
      BY <3>1, JoinAssumption DEF Reported, G!DetectionAssumption
    <3>4. P!Exceeded(f, rounds[i].onsets[f])
      BY <3>2, <3>3 DEF P!OnsetsExceeded
    <3> QED
      BY <3>4 DEF P!Exceeded
  <2> QED
    BY <2>1, <2>2
<1> QED
  BY <1>2, <1>3, <1>4, <1>5, <1>6, SameDetectors, DetectorsAlways, TopicAlways,
     VotesInductive, PTL DEF Spec
=============================================================================
