----------------------------- MODULE OfflineGate -----------------------------
(***************************************************************************)
(* The two offline replays of one feature that the peak gate is tuned with: *)
(* derisk_proxy.per_feature_iks (evaluates every `stride` samples; with a   *)
(* confirmation window, or without one as in phase 1) and                   *)
(* calibrate_ksconfirm.replay_feature (evaluates every sample).  Both       *)
(* rebase with Update, which turns the current window into the reference    *)
(* at once: there is no second warm-up, unlike in PerFeatureIKS.            *)
(*                                                                          *)
(* The statistic of a test is free; two tests of the same column that were  *)
(* rebased at the same samples have the same windows, hence the same one.   *)
(***************************************************************************)
EXTENDS Integers, Sequences

CONSTANTS
  Stats,       \* values of the statistic, integers
  KsThreshold, \* ca * sqrt(2 / W)
  Strides,     \* eval_stride
  Confirms,    \* confirm_window; 0 for none
  MaxSample    \* bound: samples after the first W

ASSUME GateAssumption ==
  /\ Stats \subseteq Nat /\ 0 \in Stats
  /\ KsThreshold \in Nat
  /\ Strides \subseteq Nat \ {0}
  /\ Confirms \subseteq Nat
  /\ MaxSample \in Nat

VARIABLES
  stride, confirmWindow, rebaseOnFire,   \* arguments of the call
  sample,     \* samples after the first W that both replays have seen
  gate,       \* per_feature_iks: locals of its state machine
  onsets,     \* per_feature_iks: its three results
  crossings,
  ksSeq,
  replay,     \* replay_feature: locals of its state machine
  events      \* replay_feature: its result

gateCall == <<stride, confirmWindow, rebaseOnFire>>
protoVars == <<gate, onsets, crossings, ksSeq>>
calibVars == <<replay, events>>
gateVarsOffline == <<gateCall, sample, protoVars, calibVars>>

\* `rebased` is the sample of the last Update, which its windows depend on.
NoGate == [confirming |-> FALSE, crossSeq |-> 0, peak |-> 0, confLeft |-> 0,
           lastFired |-> FALSE, rebased |-> 0, nextEp |-> 1]
NoReplay == [confirming |-> FALSE, crossSeq |-> 0, peak |-> 0, cc |-> 0,
             rebased |-> 0]

GateInit ==
  /\ stride \in Strides /\ confirmWindow \in Confirms /\ rebaseOnFire \in BOOLEAN
  /\ sample = 0
  /\ gate = NoGate /\ onsets = <<>> /\ crossings = <<>> /\ ksSeq = <<>>
  /\ replay = NoReplay /\ events = <<>>

Higher(a, b) == IF a > b THEN a ELSE b

(***************************************************************************)
(* per_feature_iks on sample number sample + 1, with the statistic k.      *)
(***************************************************************************)

\* range(W, n, eval_stride): the first sample after the window is one.
IsEval == sample + 1 = gate.nextEp

Evaluated(k) == ksSeq' = Append(ksSeq, [seq |-> sample + 1, ks |-> k])

\* The gate after an evaluation that left it as `g`.
NextEp(g) == gate' = [g EXCEPT !.nextEp = @ + stride]

\* Increment alone.
GateSlide ==
  /\ ~IsEval
  /\ UNCHANGED protoVars

GateQuiet(k) ==
  /\ IsEval /\ confirmWindow > 0 /\ ~gate.confirming /\ k <= KsThreshold
  /\ Evaluated(k)
  /\ NextEp(gate)
  /\ UNCHANGED <<onsets, crossings>>

GateCross(k) ==
  /\ IsEval /\ confirmWindow > 0 /\ ~gate.confirming /\ k > KsThreshold
  /\ Evaluated(k)
  /\ onsets' = Append(onsets, sample + 1)
  /\ NextEp([gate EXCEPT !.confirming = TRUE, !.crossSeq = sample + 1, !.peak = k,
                          !.confLeft = confirmWindow])
  /\ UNCHANGED crossings

\* Mutant of GateLast: one evaluation late.
GateLastLate == gate.confLeft < 1

GateLast == gate.confLeft - 1 <= 0

GateChase(k) ==
  /\ IsEval /\ gate.confirming /\ ~GateLast
  /\ Evaluated(k)
  /\ NextEp([gate EXCEPT !.peak = Higher(@, k), !.confLeft = @ - 1])
  /\ UNCHANGED <<onsets, crossings>>

GateRecord(k) ==
  /\ IsEval /\ gate.confirming /\ GateLast
  /\ Evaluated(k)
  /\ crossings' = Append(crossings, [seq |-> gate.crossSeq, peak |-> Higher(gate.peak, k)])
  /\ NextEp([gate EXCEPT !.confirming = FALSE, !.crossSeq = 0, !.peak = 0,
                          !.confLeft = @ - 1, !.rebased = sample + 1])
  /\ UNCHANGED onsets

\* Mutant of Fired: the Update does not clear the flag.
FiredStays(k) == k > KsThreshold

\* What last_fired becomes: a rebase at a rising edge clears it.
Fired(k) == k > KsThreshold /\ ~(~gate.lastFired /\ rebaseOnFire)

\* No confirmation window: rebase at once, or not at all.
GateFire(k) ==
  /\ IsEval /\ confirmWindow = 0
  /\ Evaluated(k)
  /\ LET rising == k > KsThreshold /\ ~gate.lastFired
     IN  /\ onsets' = IF rising THEN Append(onsets, sample + 1) ELSE onsets
         /\ NextEp([gate EXCEPT !.lastFired = Fired(k),
                       !.rebased = IF rising /\ rebaseOnFire THEN sample + 1 ELSE @])
  /\ UNCHANGED crossings

PerFeatureIks(k) ==
  GateSlide \/ GateQuiet(k) \/ GateCross(k) \/ GateChase(k) \/ GateRecord(k) \/ GateFire(k)

(***************************************************************************)
(* replay_feature on the same sample, with the statistic k.  It is called  *)
(* with C > 0 only.                                                        *)
(***************************************************************************)
ReplayQuiet(k) ==
  /\ ~replay.confirming /\ k <= KsThreshold
  /\ UNCHANGED calibVars

ReplayCross(k) ==
  /\ ~replay.confirming /\ k > KsThreshold
  /\ replay' = [replay EXCEPT !.confirming = TRUE, !.peak = k, !.cc = 0, !.crossSeq = sample + 1]
  /\ UNCHANGED events

ReplayChase(k) ==
  /\ replay.confirming /\ replay.cc + 1 < confirmWindow
  /\ replay' = [replay EXCEPT !.peak = Higher(@, k), !.cc = @ + 1]
  /\ UNCHANGED events

ReplayRecord(k) ==
  /\ replay.confirming /\ replay.cc + 1 >= confirmWindow
  /\ events' = Append(events, [seq |-> replay.crossSeq, peak |-> Higher(replay.peak, k)])
  /\ replay' = [replay EXCEPT !.confirming = FALSE, !.peak = 0, !.cc = @ + 1,
                              !.rebased = sample + 1]

ReplayFeature(k) ==
  \/ confirmWindow = 0 /\ UNCHANGED calibVars
  \/ confirmWindow > 0 /\ (ReplayQuiet(k) \/ ReplayCross(k) \/ ReplayChase(k) \/ ReplayRecord(k))

\* Both take the next value of the column.
GateNext ==
  /\ sample < MaxSample
  /\ sample' = sample + 1
  /\ \E k, r \in Stats :
       /\ gate.rebased = replay.rebased => k = r
       /\ PerFeatureIks(k)
       /\ ReplayFeature(r)
  /\ UNCHANGED gateCall

GateSpec == GateInit /\ [][GateNext]_gateVarsOffline

(***************************************************************************)
(* rising_edges_at: the onsets as they are up to the deployed threshold,   *)
(* else the crossings of ks_min in the recorded statistics.                *)
(***************************************************************************)
RisingEdgesAt(ksMin) ==
  IF ksMin <= KsThreshold THEN {onsets[i] : i \in 1 .. Len(onsets)}
  ELSE {ksSeq[i].seq : i \in {j \in 1 .. Len(ksSeq) :
          ksSeq[j].ks > ksMin /\ (j = 1 \/ ksSeq[j - 1].ks <= ksMin)}}

(***************************************************************************)
(* Properties.                                                             *)
(***************************************************************************)

\* "同一套" (calibrate_ksconfirm:8): evaluated at every sample, the prototype
\* and the calibration record the same crossings with the same peaks, and
\* rebase at the same samples, whatever the statistics are.
SameCrossings ==
  stride = 1 /\ confirmWindow > 0 => crossings = events /\ gate.rebased = replay.rebased

\* A feature is silent for a whole confirmation after each crossing: its next
\* one comes at the earliest one evaluation after the window.  calibrate's
\* quorum counts crossings, so this is all that keeps one excess of a feature
\* from counting twice.
CrossingsApart ==
  \A i, j \in 1 .. Len(crossings) :
    i < j => crossings[j].seq - crossings[i].seq >= (confirmWindow + 1) * stride

\* "the ks_seq trajectory already reflects deployed-IKS-with-rebase"
\* (derisk_proxy, rising_edges_at): filtering by a higher amplitude invents
\* no onset that the replay with rebase did not fire, so the sweep over ks_min
\* only ever removes evidence.
EdgesAreFires ==
  confirmWindow = 0 /\ rebaseOnFire =>
    \A ksMin \in Stats : RisingEdgesAt(ksMin) \subseteq RisingEdgesAt(0)

\* What the calibration of ksConfirm rests on: the scripts replay one gate.
GateReplaysAgree == SameCrossings /\ CrossingsApart /\ EdgesAreFires
=============================================================================
