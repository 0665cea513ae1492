------------------------------- MODULE IKSWindow -------------------------------
(***************************************************************************)
(* IKSSW: a Kolmogorov-Smirnov test between a reference and a sliding      *)
(* window, kept incrementally in a treap.  A key is <<value, random, group>> *)
(* in lexicographic order; group 1 is the reference, 0 the sliding window. *)
(* The value of a node is the difference of the two groups up to its key,  *)
(* changed for whole subtrees at once and pushed down late (`lazy`).       *)
(*                                                                         *)
(* The replays of OfflineGate test with it, or with _VFastIKSSW, which     *)
(* compares the values without the random numbers.                         *)
(* drift/IKS.java and drift/Treap.java are ports of these classes.         *)
(***************************************************************************)
EXTENDS Integers, Sequences, FiniteSets, FiniteSetsExt, SequencesExt

CONSTANTS
  Length,       \* W: the length of a window
  FirstValues,  \* sequences the window can be built from
  Values,       \* later observations
  Draws,        \* random() of an observation
  Priorities,   \* random() of a node
  MaxSlides     \* bound: calls of Increment and UpdateWindow

ASSUME WindowAssumption ==
  /\ Length \in Nat \ {0}
  /\ FirstValues \subseteq [1 .. Length -> Int] /\ Values \subseteq Int
  /\ Draws \subseteq Nat /\ Priorities \subseteq Nat /\ MaxSlides \in Nat

VARIABLES
  treap, sizes,   \* IKS
  reference, sw,  \* IKSSW: sequences of observations <<value, random>>
  slides

windowVars == <<treap, sizes, reference, sw, slides>>

Cur == 0
Ref == 1
Groups == {Cur, Ref}

(***************************************************************************)
(* Treap.  Two windows are MaxNodes nodes, on as many levels at most.      *)
(***************************************************************************)
None == [none |-> TRUE]
Key == Int \X Int \X Groups

Node(S) ==
  [key : Key, value : Int, priority : Nat, max : Int, min : Int, lazy : Int, left : S, right : S]

MaxNodes == 2 * Length

Levels[h \in 0 .. MaxNodes] == IF h = 0 THEN {None} ELSE {None} \cup Node(Levels[h - 1])
Trees == Levels[MaxNodes]

Treap(key, value, priority) ==
  [key |-> key, value |-> value, priority |-> priority, max |-> value, min |-> value,
   lazy |-> 0, left |-> None, right |-> None]

SumAll(t, d) ==
  IF t = None THEN t
  ELSE [t EXCEPT !.value = @ + d, !.max = @ + d, !.min = @ + d, !.lazy = @ + d]

Unlazy(t) ==
  [t EXCEPT !.left = SumAll(@, t.lazy), !.right = SumAll(@, t.lazy), !.lazy = 0]

\* Treap.Update: size and height, which nothing reads, are left out.
Refresh(t) ==
  IF t = None THEN t
  ELSE LET node == Unlazy(t)
           kids == {node.left, node.right} \ {None}
       IN  [node EXCEPT !.max = Max({node.value} \cup {k.max : k \in kids}),
                        !.min = Min({node.value} \cup {k.min : k \in kids})]

AtMost(a, b) ==
  \/ a[1] < b[1]
  \/ a[1] = b[1] /\ (a[2] < b[2] \/ (a[2] = b[2] /\ a[3] <= b[3]))

\* The keys below `key`, and the others.
SplitKeepRight(t, key) ==
  LET split[s \in Trees] ==
        IF s = None THEN [left |-> None, right |-> None]
        ELSE LET u == Unlazy(s) IN
          IF AtMost(key, u.key)
          THEN LET inner == split[u.left]
               IN  [left |-> Refresh(inner.left), right |-> Refresh([u EXCEPT !.left = inner.right])]
          ELSE LET inner == split[u.right]
               IN  [left |-> Refresh([u EXCEPT !.right = inner.left]), right |-> Refresh(inner.right)]
  IN  split[t]

\* Mutant of Merge: the root that stays on top keeps its lazy sum.
MergeLazily(a, b) ==
  LET merge[p \in Trees \X Trees] ==
        IF p[1] = None THEN p[2]
        ELSE IF p[2] = None THEN p[1]
        ELSE IF p[1].priority > p[2].priority
             THEN Refresh([p[1] EXCEPT !.right = merge[<<p[1].right, p[2]>>]])
             ELSE Refresh([p[2] EXCEPT !.left = merge[<<p[1], p[2].left>>]])
  IN  merge[<<a, b>>]

Merge(a, b) ==
  LET merge[p \in Trees \X Trees] ==
        IF p[1] = None THEN p[2]
        ELSE IF p[2] = None THEN p[1]
        ELSE LET u == Unlazy(p[1])
                 v == Unlazy(p[2])
             IN  IF u.priority > v.priority
                 THEN Refresh([u EXCEPT !.right = merge[<<u.right, p[2]>>]])
                 ELSE Refresh([v EXCEPT !.left = merge[<<p[1], v.left>>]])
  IN  merge[<<a, b>>]

\* The smallest node alone, and the rest.
SplitSmallest(t) ==
  LET split[s \in Trees] ==
        IF s = None THEN [left |-> None, right |-> None]
        ELSE LET u == Unlazy(s) IN
          IF u.left # None
          THEN LET inner == split[u.left]
               IN  [left |-> Refresh(inner.left), right |-> Refresh([u EXCEPT !.left = inner.right])]
          ELSE [left |-> Refresh([u EXCEPT !.right = None]), right |-> Refresh(u.right)]
  IN  split[t]

\* The rest, and the greatest node alone.
SplitGreatest(t) ==
  LET split[s \in Trees] ==
        IF s = None THEN [left |-> None, right |-> None]
        ELSE LET u == Unlazy(s) IN
          IF u.right # None
          THEN LET inner == split[u.right]
               IN  [left |-> Refresh([u EXCEPT !.right = inner.left]), right |-> Refresh(inner.right)]
          ELSE [left |-> Refresh(u.left), right |-> Refresh([u EXCEPT !.left = None])]
  IN  split[t]

\* _ToList: the nodes of a tree, their values up to date.
Nodes[s \in Trees] ==
  IF s = None THEN {}
  ELSE LET u == Unlazy(s) IN {u} \cup Nodes[u.left] \cup Nodes[u.right]

(***************************************************************************)
(* IKS: a record of the tree and the sizes of the two groups.              *)
(***************************************************************************)
Weight(group) == IF group = Cur THEN 1 ELSE -1

AddObservation(q, obs, group, priority) ==
  LET key == Append(obs, group)
      split == SplitKeepRight(q.treap, key)
      pred == SplitGreatest(split.left)
      value == IF pred.right = None THEN 0 ELSE pred.right.value
      right == Merge(Treap(key, value, priority), split.right)
  IN  [treap |-> Merge(Merge(pred.left, pred.right), SumAll(right, Weight(group))),
       sizes |-> [q.sizes EXCEPT ![group] = @ + 1]]

RemoveObservation(q, obs, group) ==
  LET key == Append(obs, group)
      split == SplitKeepRight(q.treap, key)
      first == SplitSmallest(split.right)
      found == first.left # None /\ first.left.key = key
  IN  [treap |-> Merge(split.left, IF found THEN SumAll(first.right, -Weight(group))
                                   ELSE Merge(first.left, first.right)),
       sizes |-> [q.sizes EXCEPT ![group] = @ - 1]]

\* The statistic times the size of a window.
KS == IF sizes[Cur] = 0 THEN 0 ELSE Max({treap.max, -treap.min})

(***************************************************************************)
(* IKSSW                                                                   *)
(***************************************************************************)
\* Observations with fresh random numbers.
Drawn(values, draws) == [i \in DOMAIN values |-> <<values[i], draws[i]>>]

AddAll(q, obs, group, priorities) ==
  LET added[i \in 0 .. Len(obs)] ==
        IF i = 0 THEN q ELSE AddObservation(added[i - 1], obs[i], group, priorities[i])
  IN  added[Len(obs)]

RemoveAll(q, obs, group) ==
  LET removed[i \in 0 .. Len(obs)] ==
        IF i = 0 THEN q ELSE RemoveObservation(removed[i - 1], obs[i], group)
  IN  removed[Len(obs)]

IKS == [treap |-> treap, sizes |-> sizes]
Use(q) == treap' = q.treap /\ sizes' = q.sizes

Empty == [treap |-> None, sizes |-> [g \in Groups |-> 0]]

\* No two observations of a group draw the same number.
Injective(f) == \A i, j \in DOMAIN f : f[i] = f[j] => i = j

WindowInit ==
  \E values \in FirstValues :
    \E refDraws, curDraws \in [DOMAIN values -> Draws] :
      \E refPrios, curPrios \in [DOMAIN values -> Priorities] :
        /\ Injective(refDraws) /\ Injective(curDraws)
        /\ reference = Drawn(values, refDraws) /\ sw = Drawn(values, curDraws)
        /\ LET q == AddAll(AddAll(Empty, reference, Ref, refPrios), sw, Cur, curPrios)
           IN  treap = q.treap /\ sizes = q.sizes
        /\ slides = 0

Increment(value, draw, priority) ==
  /\ slides < MaxSlides /\ slides' = slides + 1
  /\ <<value, draw>> \notin Range(Tail(sw))
  /\ Use(AddObservation(RemoveObservation(IKS, Head(sw), Cur), <<value, draw>>, Cur, priority))
  /\ sw' = Append(Tail(sw), <<value, draw>>)
  /\ UNCHANGED reference

\* The sliding window becomes the reference, with new random numbers.
UpdateWindow(draws, priorities) ==
  /\ slides < MaxSlides /\ slides' = slides + 1
  /\ Injective(draws)
  /\ reference' = Drawn([i \in DOMAIN sw |-> sw[i][1]], draws)
  /\ Use(AddAll(RemoveAll(IKS, reference, Ref), reference', Ref, priorities))
  /\ UNCHANGED sw

WindowNext ==
  \/ \E value \in Values, draw \in Draws, priority \in Priorities : Increment(value, draw, priority)
  \/ \E draws \in [DOMAIN sw -> Draws], priorities \in [DOMAIN sw -> Priorities] :
       UpdateWindow(draws, priorities)

WindowSpec == WindowInit /\ [][WindowNext]_windowVars

(***************************************************************************)
(* _VFastIKSSW.KS on the same two windows, times their size.               *)
(***************************************************************************)
UpTo(window, v) == Cardinality({i \in DOMAIN window : window[i][1] <= v})

Distance(a, b) == IF a > b THEN a - b ELSE b - a

ValueKS ==
  Max({Distance(UpTo(sw, o[1]), UpTo(reference, o[1])) : o \in Range(sw) \cup Range(reference)})

(***************************************************************************)
(* Properties.                                                             *)
(***************************************************************************)
\* The observations of the two windows, and by how many the sliding window
\* is ahead in a set of them up to a key.
Keys == {Append(o, Cur) : o \in Range(sw)} \cup {Append(o, Ref) : o \in Range(reference)}

UpToKey(S, group, key) == {k \in S : AtMost(k, key) /\ k[3] = group}
GapIn(S, key) == Cardinality(UpToKey(S, Cur, key)) - Cardinality(UpToKey(S, Ref, key))
Gap(key) == GapIn(Keys, key)

Entries(t) == {<<u.key, u.value>> : u \in Nodes[t]}

\* A search tree of different keys.
Sorted(t) ==
  \A u \in Nodes[t] : /\ \A v \in Nodes[u.left] : ~AtMost(u.key, v.key)
                      /\ \A v \in Nodes[u.right] : ~AtMost(v.key, u.key)

\* Every node knows the extremes of its subtree.
Extremes(t) ==
  \A u \in Nodes[t] : LET values == {v.value : v \in Nodes[u]}
                      IN  /\ {u.min, u.max} \subseteq values
                          /\ \A x \in values : u.min <= x /\ x <= u.max

\* After any sequence of splits and merges the treap still holds the two
\* windows: the keys in order, each once, the difference of the groups in
\* every node once the late sums are pushed down, and the extremes.
TreapSound ==
  /\ sizes[Cur] = Len(sw) /\ sizes[Ref] = Len(reference)
  /\ Sorted(treap) /\ Extremes(treap)
  /\ Entries(treap) = {<<k, Gap(k)>> : k \in Keys}

\* "D = max(treap.max_value, -treap.min_value)" (IKS.KS) is the
\* Kolmogorov-Smirnov distance of the two windows in the order of the keys,
\* and never less than that of the values alone, which _VFastIKSSW computes.
KSIsExact == KS = Max({Distance(Gap(k), 0) : k \in Keys})
ValueKSIsBelow == ValueKS <= KS

\* Both together, and with them what the treap is for.
WindowIsExact == TreapSound /\ KSIsExact /\ ValueKSIsBelow
=============================================================================
