-------------------------------- MODULE Judge --------------------------------
(***************************************************************************)
(* The verdict on a scenario run: crates/oxlab-judge/src/lib.rs and        *)
(* thresholds.rs.  Layer 1 asks whether a checkpoint failed; Layer 2       *)
(* compares every participant's receive metrics with the baseline, the     *)
(* metrics of an earlier run; the report's verdict is of both.             *)
(*                                                                         *)
(* A RecvInput is [packets, lost, ooo, jitters], with the jitters of the   *)
(* streams as a set.  The f64 loss rate is a pair, numerator and           *)
(* denominator, and is compared exactly; the thresholds are in tenths.     *)
(* Baselines and inputs are functions of the participants they know.       *)
(***************************************************************************)
EXTENDS Integers, FiniteSets

CONSTANTS
  Judgements  (* the readable files of judgements/: name to thresholds     *)

Thresholds == [loss : Nat, jitter : Nat, ooo : Nat]

ASSUME JudgeAssumption == \A name \in DOMAIN Judgements : Judgements[name] \in Thresholds

\* RegressionThresholds: tenths of a percent of loss; tenths of the previous
\* value for jitter and out of order.  No name, or one that is neither builtin
\* nor a readable file, is the default.
default == [loss |-> 20, jitter |-> 5, ooo |-> 10]
strict == [loss |-> 5, jitter |-> 2, ooo |-> 5]

Resolve(name) ==
  CASE name = "default" -> default
    [] name = "strict" -> strict
    [] OTHER -> IF name \in DOMAIN Judgements THEN Judgements[name] ELSE default

\* What Layer 2 keeps of a participant, and the baseline with it.
Metrics == [loss : Nat \X Nat, jitter : Nat, ooo : Nat]

LossRate(recv) ==
  IF recv.packets + recv.lost > 0 THEN <<recv.lost, recv.packets + recv.lost>> ELSE <<0, 1>>

MaxJitter(recv) ==
  CHOOSE j \in recv.jitters \cup {0} : \A k \in recv.jitters \cup {0} : k <= j

ParticipantMetrics(recv) ==
  [loss |-> LossRate(recv), jitter |-> MaxJitter(recv), ooo |-> recv.ooo]

\* The rise of the loss rate, times both denominators, in tenths of a percent.
LossDelta(cur, prev) == 1000 * (cur[1] * prev[2] - prev[1] * cur[2])

LossVerdict(cur, prev, threshold) ==
  LET bound == threshold * cur[2] * prev[2] IN
  IF LossDelta(cur, prev) > bound THEN "regressed"
  ELSE IF LossDelta(cur, prev) < -bound THEN "improved" ELSE "stable"

\* The relative rise of a metric whose previous value is not zero.
RatioVerdict(cur, prev, threshold) ==
  IF 10 * (cur - prev) > threshold * prev THEN "regressed"
  ELSE IF 10 * (cur - prev) < -(threshold * prev) THEN "improved" ELSE "stable"

JitterVerdict(cur, prev, threshold) ==
  IF prev > 0 THEN RatioVerdict(cur, prev, threshold) ELSE "stable"

OooVerdict(cur, prev, threshold) ==
  IF prev > 0 THEN RatioVerdict(cur, prev, threshold)
  ELSE IF cur > 0 THEN "regressed" ELSE "stable"

\* The verdicts of the three metrics.  baseline is NoBaseline or a function.
Regression(cur, prev, t) ==
  {LossVerdict(cur.loss, prev.loss, t.loss),
   JitterVerdict(cur.jitter, prev.jitter, t.jitter),
   OooVerdict(cur.ooo, prev.ooo, t.ooo)}

\* A baseline that does not know the participant compares nothing.
Compared(id, inputs, baseline, t) ==
  IF id \in DOMAIN baseline
  THEN Regression(ParticipantMetrics(inputs[id]), baseline[id], t) ELSE {}

Outcome(verdicts, hasBaseline) ==
  IF "regressed" \in verdicts THEN "regressed"
  ELSE IF ~hasBaseline THEN "no_baseline"
  ELSE IF "improved" \in verdicts THEN "improved" ELSE "stable"

\* judge_layer2: hasBaseline is false when no baseline could be read.
Layer2(inputs, hasBaseline, baseline, t, failed) ==
  LET verdicts == UNION {Compared(id, inputs, baseline, t) : id \in DOMAIN inputs} IN
  IF failed THEN "regressed" ELSE Outcome(verdicts, hasBaseline)

\* judge_layer1, of the results of the checkpoints that applied.
Layer1(checkpoints) ==
  IF \E id \in DOMAIN checkpoints : checkpoints[id] = "FAIL" THEN "FAIL" ELSE "PASS"

\* judge(): the overall verdict.
Overall(layer1, layer2) ==
  IF layer1 = "FAIL" \/ layer2 = "regressed" THEN "FAIL" ELSE "PASS"

\* create_baseline
CreateBaseline(inputs) == [id \in DOMAIN inputs |-> ParticipantMetrics(inputs[id])]

-----------------------------------------------------------------------------

\* cur is no worse than prev by more than the thresholds, except for a jitter
\* that was zero, which nothing bounds.
WithinThresholds(cur, prev, t) ==
  /\ LossDelta(cur.loss, prev.loss) <= t.loss * cur.loss[2] * prev.loss[2]
  /\ prev.jitter > 0 => 10 * (cur.jitter - prev.jitter) <= t.jitter * prev.jitter
  /\ 10 * (cur.ooo - prev.ooo) <= t.ooo * prev.ooo

\* Wherever cur is worse than a prev that is not zero, by less than the threshold.
BelowThresholds(cur, prev, t) ==
  /\ LossDelta(cur.loss, prev.loss) > 0 =>
       LossDelta(cur.loss, prev.loss) < t.loss * cur.loss[2] * prev.loss[2]
  /\ prev.jitter > 0 /\ cur.jitter > prev.jitter =>
       10 * (cur.jitter - prev.jitter) < t.jitter * prev.jitter
  /\ prev.ooo > 0 /\ cur.ooo > prev.ooo => 10 * (cur.ooo - prev.ooo) < t.ooo * prev.ooo

=============================================================================
