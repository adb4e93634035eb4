---------------------------- MODULE GateEvaluation ----------------------------
(***************************************************************************)
(* Scorecards of runs and the quality gate that compares two of them: how  *)
(* a scorecard is built from what is known of a run (crates/               *)
(* orchestrator-core/src/scorecard.rs), how several are averaged           *)
(* (shared-types/src/scorecard.rs), the gate's policies and verdict, the   *)
(* freshness of a baseline and the recommendation on replacing it          *)
(* (shared-types/src/gate.rs).                                             *)
(*                                                                         *)
(* Scores, thresholds and deltas of one dimension are percentages, overall *)
(* scores hundredths of a percent: the exact value under the default       *)
(* weights, rounded down under others and for averages and ratios.  The    *)
(* wording of reasons and reports is left out.                             *)
(***************************************************************************)
EXTENDS Integers, Sequences, Functions

CONSTANT Unknown     \* what nobody told the builder, and an age not known

(* In the order of ScorecardDimension::all(). *)
Dimensions == {"success", "trust", "coverage", "continuity", "cost",
               "stability", "errors"}

Critical == {"success", "trust"}

Verdicts == {"pass", "warn", "fail"}

-----------------------------------------------------------------------------
(* Building a scorecard.  A field of the data is Unknown when no source     *)
(* gave it: success, trust, files (modified and verified), verified (the    *)
(* fallback of files), mission, tokens (thousands), replans, errors (and    *)
(* steps).                                                                  *)

CapAt100(n) == IF n > 100 THEN 100 ELSE n

ScoreSuccess(success) == IF success = TRUE THEN 100 ELSE 0

ScoreTrust(trust) ==
  CASE trust = "high" -> 100 [] trust = "medium" -> 66 [] trust = "low" -> 33
    [] OTHER -> 0

ScoreCoverage(files, passed) ==
  CASE files # Unknown /\ files.modified > 0 ->
         CapAt100((100 * files.verified) \div files.modified)
    [] files # Unknown /\ files.modified = 0 -> 100
    [] files = Unknown /\ passed = TRUE -> 100
    [] files = Unknown /\ passed = FALSE -> 0
    [] OTHER -> 50

ScoreContinuity(mission) ==
  CASE mission = TRUE -> 100 [] mission = FALSE -> 0 [] OTHER -> 50

ScoreCost(tokens) == 100 - CapAt100(IF tokens = Unknown THEN 0 ELSE tokens)

ScoreStability(replans) ==
  CASE replans \in {Unknown, 0} -> 100 [] replans = 1 -> 66 [] replans = 2 -> 33
    [] OTHER -> 0

ScoreErrors(errors) ==
  IF errors = Unknown \/ errors.steps = 0 THEN 100
  ELSE 100 - CapAt100((100 * errors.count) \div errors.steps)

DefaultWeight ==
  [success |-> 6, trust |-> 4, coverage |-> 3, continuity |-> 2, cost |-> 2,
   stability |-> 1, errors |-> 2]      \* in halves

(* Per-repository overrides apply where they are given. *)
WeightFor(overrides, d) ==
  IF d \in DOMAIN overrides THEN overrides[d] ELSE DefaultWeight[d]

NoOverrides == <<>>

SumOfDimensions(f) ==
  f["success"] + f["trust"] + f["coverage"] + f["continuity"] + f["cost"]
    + f["stability"] + f["errors"]

Overall(scores, overrides) ==
  LET weight   == [d \in Dimensions |-> WeightFor(overrides, d)]
      weighted == [d \in Dimensions |-> scores[d] * weight[d]]
      total    == SumOfDimensions(weight)
  IN  IF total = 0 THEN 0 ELSE (100 * SumOfDimensions(weighted)) \div total

Scorecard(scores, overrides) ==
  [scores |-> scores, overall |-> Overall(scores, overrides)]

Build(data, overrides) ==
  Scorecard([success    |-> ScoreSuccess(data.success),
             trust      |-> ScoreTrust(data.trust),
             coverage   |-> ScoreCoverage(data.files, data.verified),
             continuity |-> ScoreContinuity(data.mission),
             cost       |-> ScoreCost(data.tokens),
             stability  |-> ScoreStability(data.replans),
             errors     |-> ScoreErrors(data.errors)], overrides)

NoData ==
  [success |-> Unknown, trust |-> Unknown, files |-> Unknown,
   verified |-> Unknown, mission |-> Unknown, tokens |-> Unknown,
   replans |-> Unknown, errors |-> Unknown]

(* A mission's verdict only stands in for one that was not given. *)
WithMission(data, content, trust) ==
  [data EXCEPT !.mission = content,
               !.trust = IF @ = Unknown THEN trust ELSE @]

(* The average of a suite's scorecards, under the default weights. *)
Aggregate(cards) ==
  LET Mean(d) == FoldFunction(LAMBDA c, sum : c.scores[d] + sum, 0, cards)
                   \div Len(cards)
  IN  Scorecard([success    |-> Mean("success"),
                 trust      |-> Mean("trust"),
                 coverage   |-> Mean("coverage"),
                 continuity |-> Mean("continuity"),
                 cost       |-> Mean("cost"),
                 stability  |-> Mean("stability"),
                 errors     |-> Mean("errors")], NoOverrides)

-----------------------------------------------------------------------------
(* Comparing two scorecards. *)

Delta(base, cand, d) == cand.scores[d] - base.scores[d]

OverallDelta(base, cand) == cand.overall - base.overall

Severity(delta) ==
  IF delta <= -50 THEN "critical" ELSE IF delta <= -20 THEN "warning" ELSE "minor"

-----------------------------------------------------------------------------
(* The gate. *)

Thresholds(min, drop) == [min |-> min, drop |-> drop]

BalancedPolicy ==
  [strategy |-> "balanced", minOverall |-> 4000, maxDrop |-> -1500,
   thresholds |->
     [success |-> Thresholds(50, -50), trust |-> Thresholds(30, -30),
      coverage |-> Thresholds(30, -30), continuity |-> Thresholds(0, -50),
      cost |-> Thresholds(0, -50), stability |-> Thresholds(0, -50),
      errors |-> Thresholds(30, -30)]]

StrictPolicy ==
  [strategy |-> "strict", minOverall |-> 6000, maxDrop |-> -1000,
   thresholds |->
     [success |-> Thresholds(100, -1), trust |-> Thresholds(60, -20),
      coverage |-> Thresholds(50, -20), continuity |-> Thresholds(30, -30),
      cost |-> Thresholds(20, -30), stability |-> Thresholds(20, -30),
      errors |-> Thresholds(50, -20)]]

LenientPolicy ==
  [strategy |-> "lenient", minOverall |-> 0, maxDrop |-> -5000,
   thresholds |-> [d \in Dimensions |-> Thresholds(0, -100)]]

(* The preset that oco.toml names, with its overrides. *)
ResolvePolicy(cfg) ==
  LET preset == CASE cfg.policy = "strict" -> StrictPolicy
                  [] cfg.policy = "lenient" -> LenientPolicy
                  [] OTHER -> BalancedPolicy
  IN  [preset EXCEPT !.minOverall = IF cfg.minOverall = Unknown THEN @ ELSE cfg.minOverall,
                     !.maxDrop = IF cfg.maxDrop = Unknown THEN @ ELSE cfg.maxDrop]

ValidConfig(cfg) ==
  /\ cfg.policy \in {"strict", "balanced", "lenient"}
  /\ cfg.minOverall # Unknown => cfg.minOverall \in 0..10000
  /\ cfg.maxDrop # Unknown => cfg.maxDrop <= 0
  /\ cfg.fresh # Unknown /\ cfg.stale # Unknown => cfg.fresh <= cfg.stale
  /\ \A d \in DOMAIN cfg.weights : cfg.weights[d] > 0

(* What a dimension that misses its threshold comes to. *)
DimensionVerdict(policy, base, cand, d) ==
  LET limit   == policy.thresholds[d]
      tooLow  == cand.scores[d] < limit.min
      dropped == Delta(base, cand, d) < limit.drop
      blocks  ==
        \/ policy.strategy = "strict"
        \/ policy.strategy = "balanced" /\ d \in Critical
        \/ /\ policy.strategy = "lenient" /\ ~tooLow
           /\ Severity(Delta(base, cand, d)) = "critical"
  IN  IF ~tooLow /\ ~dropped THEN "pass" ELSE IF blocks THEN "fail" ELSE "warn"

OverallFails(policy, base, cand) ==
  \/ cand.overall < policy.minOverall
  \/ OverallDelta(base, cand) < policy.maxDrop

GateVerdict(policy, base, cand) ==
  LET found == {DimensionVerdict(policy, base, cand, d) : d \in Dimensions}
  IN  IF "fail" \in found \/ OverallFails(policy, base, cand) THEN "fail"
      ELSE IF "warn" \in found THEN "warn" ELSE "pass"

ExitCode(verdict) == CASE verdict = "pass" -> 0 [] verdict = "warn" -> 1 [] OTHER -> 2

(* How old a baseline is; Unknown when it carries no time or one to come.   *)
Freshness(created, now, fresh, stale) ==
  IF created = Unknown \/ now < created THEN Unknown
  ELSE IF now - created <= fresh THEN "fresh"
  ELSE IF now - created <= stale THEN "aging" ELSE "stale"

Recommendation(verdict, freshness) ==
  IF verdict = "fail" THEN "reject"
  ELSE IF verdict = "warn" \/ freshness = "stale" THEN "review" ELSE "promote"
=============================================================================
