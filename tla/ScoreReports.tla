----------------------------- MODULE ScoreReports -----------------------------
(***************************************************************************)
(* The reports drawn from the scores.jsonl of one run: analysis/analyze.py *)
(* (modes drift and stationary), exp2_distributed_accuracy.py and          *)
(* exp2_false_alarm.py.                                                    *)
(*                                                                         *)
(* The run's records come in the order of their sequence numbers, as       *)
(* load_scores sorts them; rows that were never scored leave gaps.  The    *)
(* subtasks change their forests one by one, so versions do not come in    *)
(* order.  Ratios are pairs of a numerator and a denominator.              *)
(***************************************************************************)
EXTENDS Integers, Sequences, FiniteSets, FiniteSetsExt

CONSTANTS
  ScoreValues,    \* anomaly scores
  Half,           \* the least score predicted an anomaly (0.5)
  ForestVersions, \* forest versions, from 1
  DriftLists,     \* the start lines of the drift events, increasing
  TargetFpr,      \* false positive rates asked of find_threshold_at_fpr
  RecoveryShare,  \* 95%: share of the baseline AUC that counts as recovered
  StableFpr,      \* 10%: false positive rate that counts as stable
  SlideWin,       \* 1000: sequence numbers of a sliding window
  SlideStep,      \* 100: distance of the windows
  MinInWindow,    \* 100: records without which a window is left out
  MaxRecords,     \* bound: records
  MaxSeq          \* bound: sequence numbers

ASSUME ReportsAssumption ==
  /\ ForestVersions \subseteq Nat \ {0} /\ MaxSeq \in Nat /\ MaxRecords \in Nat
  /\ ScoreValues \subseteq Nat /\ SlideWin \in Nat \ {0}
  /\ \A target \in TargetFpr : target.num \in Nat /\ target.den \in Nat \ {0}
  /\ \A ds \in DriftLists :
       /\ ds \in Seq(Nat \ {0}) /\ Len(ds) > 0
       /\ \A i, j \in 1 .. Len(ds) : i < j => ds[i] < ds[j]

VARIABLES
  records,        \* the data frame
  drifts          \* drift_events of the driftspec

reportVars == <<records, drifts>>

ReportsInit == records = <<>> /\ drifts \in DriftLists

ReadRecord(record) ==
  /\ Len(records) < MaxRecords
  /\ records # <<>> => record.seq > records[Len(records)].seq
  /\ records' = Append(records, record)
  /\ UNCHANGED drifts

ReportsNext ==
  \E s \in 0..MaxSeq, l \in {0, 1}, v \in ScoreValues, f \in ForestVersions :
    ReadRecord([seq |-> s, label |-> l, score |-> v, version |-> f])

ReportsSpec == ReportsInit /\ [][ReportsNext]_reportVars

-------------------------------------------------------------------------------
(* A segment of the data frame is a set of its rows.                       *)

RowsOf(df) == DOMAIN df
OfLabel(df, rows, l) == {i \in rows : df[i].label = l}
\* A sum of naturals is the number of points under their graph.
Sum(f(_), S) == Cardinality(UNION {{x} \X (1 .. f(x)) : x \in S})

NoRatio == [num |-> 0, den |-> 0]
Ratio(n, d) == [num |-> n, den |-> d]
AtLeast(a, b) == a.num * b.den >= b.num * a.den
Times(a, b) == Ratio(a.num * b.num, a.den * b.den)

\* Rank after a stable sort by score; rows of one score share the mean of
\* their ranks.  TwiceRank is twice that mean.
Rank(df, rows, i) ==
  Cardinality({j \in rows : df[j].score < df[i].score \/ (df[j].score = df[i].score /\ j <= i)})
\* Mutant of TwiceRank: rows of one score keep their own ranks.
PlainTwiceRank(df, rows, i) == 2 * Rank(df, rows, i)

TwiceRank(df, rows, i) ==
  LET ties == {j \in rows : df[j].score = df[i].score}
  IN  (2 * Sum(LAMBDA j : Rank(df, rows, j), ties)) \div Cardinality(ties)

\* analyze.compute_auc: Mann-Whitney U from the ranks.
RankAuc(df, rows) ==
  LET pos == OfLabel(df, rows, 1)
      p == Cardinality(pos)
      q == Cardinality(rows) - p
      twiceU == Sum(LAMBDA i : TwiceRank(df, rows, i), pos) - p * (p + 1)
  IN  IF p = 0 \/ q = 0 THEN NoRatio ELSE Ratio(twiceU, 2 * p * q)

\* exp2_distributed_accuracy.compute_auc: every anomaly against every normal
\* row, half a win for a draw.
PairAuc(df, rows) ==
  LET pos == OfLabel(df, rows, 1)
      neg == OfLabel(df, rows, 0)
      below(i) == Cardinality({j \in neg : df[j].score < df[i].score})
      notAbove(i) == Cardinality({j \in neg : df[j].score <= df[i].score})
  IN  IF pos = {} \/ neg = {} THEN NoRatio
      ELSE Ratio(Sum(LAMBDA i : 2 * below(i) + (notAbove(i) - below(i)), pos),
                 2 * Cardinality(pos) * Cardinality(neg))

\* compute_fpr_fnr, the false positive rate.
Fpr(df, rows, threshold) ==
  LET neg == OfLabel(df, rows, 0)
  IN  IF neg = {} THEN NoRatio
      ELSE Ratio(Cardinality({i \in neg : df[i].score >= threshold}), Cardinality(neg))

\* find_threshold_at_fpr: the scores in ascending order, as far as the first
\* whose rate is within the target; of these the first that is nearest.
Distance(a, b) ==
  LET d == a.num * b.den - b.num * a.den IN IF d < 0 THEN -d ELSE d
Candidates(df, rows) == {df[i].score : i \in rows}
Within(df, rows, target) ==
  {t \in Candidates(df, rows) : AtLeast(target, Fpr(df, rows, t))}
\* Mutant of UpToFirstWithin: the first rate within the target is left out.
BeforeFirstWithin(df, rows, target) ==
  LET le == Within(df, rows, target)
  IN  IF le = {} \/ Min(le) = Min(Candidates(df, rows)) THEN Candidates(df, rows)
      ELSE {t \in Candidates(df, rows) : t < Min(le)}

UpToFirstWithin(df, rows, target) ==
  LET le == Within(df, rows, target)
  IN  IF le = {} THEN Candidates(df, rows)
      ELSE {t \in Candidates(df, rows) : t <= Min(le)}
ThresholdAtFpr(df, rows, target) ==
  LET scanned == UpToFirstWithin(df, rows, target)
      gap(t) == Distance(Fpr(df, rows, t), target)
  IN  Min({t \in scanned : \A u \in scanned : gap(t) <= gap(u)})

-------------------------------------------------------------------------------
(* Mode drift.                                                             *)

MaxVersion(df, rows) == Max({df[i].version : i \in rows})

\* The initial stable part: the baseline of every drift.
PreV1(df) == {i \in RowsOf(df) : df[i].seq < drifts[1] /\ df[i].version = 1}
BaselineAuc(df) == RankAuc(df, PreV1(df))
BaselineFpr(df) == Fpr(df, PreV1(df), Half)

\* Mutant of Upper: the scan of every drift goes on to the end.
UpToTheEnd(df, i) == Len(df)

\* The scan of a drift ends at the next one, that of the last at the number
\* of records.
Upper(df, i) == IF i < Len(drifts) THEN drifts[i + 1] ELSE Len(df)

\* Mutant of VersionBefore: the test of a single drift, version > 1.
VersionOne(df, i) == 1

VersionBefore(df, i) ==
  LET before == {k \in RowsOf(df) : df[k].seq < drifts[i]}
  IN  IF before = {} THEN 1 ELSE MaxVersion(df, before)

\* Definition 1: the rows scored by a forest newer than any before the drift.
NewVersionRows(df, i) ==
  {k \in RowsOf(df) : /\ drifts[i] <= df[k].seq /\ df[k].seq < Upper(df, i)
                    /\ df[k].version > VersionBefore(df, i)}
FirstNewVersion(df, i) ==
  IF NewVersionRows(df, i) = {} THEN 0 ELSE Min(NewVersionRows(df, i))

\* The windows of definitions 2 and 3, by their first sequence number.
Starts(df, i) ==
  {s \in drifts[i]..(Upper(df, i) - SlideWin - 1) : (s - drifts[i]) % SlideStep = 0}
InWindow(df, s) == {k \in RowsOf(df) : s <= df[k].seq /\ df[k].seq < s + SlideWin}
Scanned(df, i) == {s \in Starts(df, i) : Cardinality(InWindow(df, s)) >= MinInWindow}

FirstOrNone(S) == IF S = {} THEN -1 ELSE Min(S)

\* Definition 2: the AUC is back at RecoveryShare of the baseline.
AucRecovery(df, i) ==
  IF BaselineAuc(df) = NoRatio THEN -1
  ELSE LET target == Times(BaselineAuc(df), RecoveryShare)
           auc(s) == RankAuc(df, InWindow(df, s))
       IN  FirstOrNone({s \in Scanned(df, i) : auc(s).num > 0 /\ AtLeast(auc(s), target)})

\* Definition 3: the false positive rate is down at StableFpr.
FprStable(df, i) ==
  IF BaselineFpr(df) = NoRatio THEN -1
  ELSE LET fpr(s) == Fpr(df, InWindow(df, s), Half)
       IN  FirstOrNone({s \in Scanned(df, i) : fpr(s) # NoRatio /\ AtLeast(StableFpr, fpr(s))})

Delays(df, i) == <<FirstNewVersion(df, i), AucRecovery(df, i), FprStable(df, i)>>

NRetrains(df) == MaxVersion(df, RowsOf(df)) - 1

-------------------------------------------------------------------------------
(* Mode stationary and the EXP2 scripts.                                   *)

Versions(df) == {df[i].version : i \in RowsOf(df)}
NTriggers(df) == Max({Cardinality(Versions(df)) - 1, 0})

\* A pair of consecutive versions whose segments both have an AUC.
RetrainDeltas(df) ==
  LET auc(v) == PairAuc(df, {i \in RowsOf(df) : df[i].version = v})
      next(v) == Min({w \in Versions(df) : w > v})
  IN  {v \in Versions(df) : /\ v # Max(Versions(df))
                            /\ auc(v) # NoRatio /\ auc(next(v)) # NoRatio}

-------------------------------------------------------------------------------
(* Properties.                                                             *)

\* The two AUC computations of the analysis scripts, one by mean ranks and
\* one by comparing pairs, agree on every segment, ties included.
AucIsPairCount ==
  LET all == RowsOf(records)
  IN  /\ RankAuc(records, all) = PairAuc(records, all)
      /\ RankAuc(records, PreV1(records)) = PairAuc(records, PreV1(records))

\* The scan for a threshold stops at the first rate within the target and
\* still finds a threshold whose rate is nearest among all the scores.
ThresholdIsNearest ==
  LET all == RowsOf(records)
      gap(t, target) == Distance(Fpr(records, all, t), target)
  IN  OfLabel(records, all, 0) # {} /\ OfLabel(records, all, 1) # {} =>
        \A target \in TargetFpr, u \in Candidates(records, all) :
          gap(ThresholdAtFpr(records, all, target), target) <= gap(u, target)

\* The measures the reports are built from.
MeasuresAreExact == AucIsPairCount /\ ThresholdIsNearest

\* A forest answers for one drift only: the versions credited to the drifts
\* increase, and there are no more answers than retrains; the other count of
\* retrains, by the versions seen, is never larger.
ResponsesAdvance ==
  LET answered == {i \in DOMAIN drifts : FirstNewVersion(records, i) # 0}
      credited(i) == records[FirstNewVersion(records, i)].version
  IN  records # <<>> =>
        /\ \A i, j \in answered : i < j => credited(i) < credited(j)
        /\ Cardinality(answered) <= NRetrains(records)
        /\ Cardinality(RetrainDeltas(records)) <= NTriggers(records)
        /\ NTriggers(records) <= NRetrains(records)

\* What is reported of a drift does not change any more once the records
\* have reached the next drift: later records do not spoil it.
DelaysAreFinal ==
  [][\A i \in 1..(Len(drifts) - 1) :
       records # <<>> /\ records[Len(records)].seq >= drifts[i + 1] - 1 =>
         Delays(records, i) = Delays(records', i)]_reportVars

================================================================================
