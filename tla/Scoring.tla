------------------------------- MODULE Scoring -------------------------------
(***************************************************************************)
(* Risk, impact and priority of a skill: build_risk_report with the scores *)
(* of analysis/analyzer.py, and analysis/impact.py.  Findings and feed     *)
(* observations are given by what the scores tell apart; how they are found*)
(* in a text is left out.  Fractions are computed exactly.                 *)
(***************************************************************************)
EXTENDS Integers, FiniteSets, Functions

CONSTANT Unknown  \* None, NULL

ASSUME UnknownAssumption == Unknown \notin Int

Least(a, b) == IF a < b THEN a ELSE b
Greatest(a, b) == IF a > b THEN a ELSE b

-----------------------------------------------------------------------------
(* Risk *)

Categories ==
  {"remote_code_execution", "data_exfiltration", "credential_transmission", "prompt_injection", "obfuscation"}

Contexts == {"direct_operational", "reference_example"}

HighRiskCategories == {"remote_code_execution", "data_exfiltration"}

Severities == {"none", "medium", "high", "critical"}

Confidences == {"suspected", "likely", "confirmed"}

Weight(c, x) ==
  IF x = "reference_example" THEN (IF c = "data_exfiltration" THEN 10 ELSE 5)
  ELSE CASE c = "remote_code_execution"   -> 35
         [] c = "data_exfiltration"       -> 55
         [] c = "credential_transmission" -> 18
         [] c = "prompt_injection"        -> 15
         [] c = "obfuscation"             -> 8

Cap(c, x) ==
  IF x = "reference_example"
    THEN CASE c = "remote_code_execution"   -> 5
           [] c = "data_exfiltration"       -> 15
           [] c = "credential_transmission" -> 8
           [] c = "prompt_injection"        -> 5
           [] c = "obfuscation"             -> 8
    ELSE IF c = "obfuscation" THEN 12 ELSE 100

(* What a risk report is made from: how many findings there are of each     *)
(* category in each context, whether the skill is a catalog, and what the   *)
(* feeds say of its indicators.                                             *)
IsEvidence(e) ==
  /\ e.found \in [Categories -> [Contexts -> Nat]]
  /\ e.router \in BOOLEAN
  /\ IsFiniteSet(DOMAIN e.matches)

(* found: how many findings there are, without repetitions, of a category in*)
(* a context.                                                               *)
GroupScore(found, c, x) == Least(found[c][x] * Weight(c, x), Cap(c, x))

ContextScore(found, x) ==
  GroupScore(found, "remote_code_execution", x)
    + GroupScore(found, "data_exfiltration", x)
    + GroupScore(found, "credential_transmission", x)
    + GroupScore(found, "prompt_injection", x)
    + GroupScore(found, "obfuscation", x)

HasDirectHighRisk(found) == \E c \in HighRiskCategories : found[c]["direct_operational"] > 0

(* router: the skill is a catalog of others. *)
BehaviorScore(found, router) ==
  LET total == ContextScore(found, "direct_operational") + ContextScore(found, "reference_example")
  IN Least(100, IF router /\ ~HasDirectHighRisk(found) THEN Least(total, 35) ELSE total)

(* platform: the indicator is the domain of a shared platform. *)
IsPositiveObservation(o, platform) ==
  /\ ~(platform /\ o.urlhaus)
  /\ ~o.benign
  /\ o.malicious \/ o.high

IsPositive(match) == \E o \in match.observations : IsPositiveObservation(o, match.platform)

(* A high confidence counts, also that of an observation that is not positive.*)
HasHighConfidence(match) == \E o \in match.observations : o.high

(* 20 for an indicator with a high confidence, 10 for another. *)
IntelScore(matches) ==
  LET high == {n \in DOMAIN matches : HasHighConfidence(matches[n])}
  IN Least(40, 20 * Cardinality(high) + 10 * Cardinality((DOMAIN matches) \ high))

SeverityOf(score) ==
  CASE score >= 45                -> "critical"
    [] score >= 25 /\ score < 45  -> "high"
    [] score >= 10 /\ score < 25  -> "medium"
    [] score < 10                 -> "none"

ConfidenceOf(behavior, corroborated, severity) ==
  CASE corroborated /\ severity = "critical" /\ behavior >= 35 -> "confirmed"
    [] (corroborated \/ behavior >= 25) /\ ~(corroborated /\ severity = "critical" /\ behavior >= 35) -> "likely"
    [] ~corroborated /\ behavior < 25 -> "suspected"

(* build_risk_report: evidence is what was found in the files, and the      *)
(* observations of the indicators in them.                                  *)
RiskReport(evidence) ==
  LET behavior == BehaviorScore(evidence.found, evidence.router)
      positive == Restrict(evidence.matches, {n \in DOMAIN evidence.matches : IsPositive(evidence.matches[n])})
      score    == Least(100, behavior + IntelScore(positive))
  IN [score      |-> score,
      severity   |-> SeverityOf(score),
      confidence |-> ConfidenceOf(behavior, DOMAIN positive # {}, SeverityOf(score))]

-----------------------------------------------------------------------------
(* Impact and priority *)

BucketWeeklyInstalls(n) ==
  CASE n <= 0                    -> 0
    [] n > 0 /\ n < 10           -> 5
    [] n >= 10 /\ n < 100        -> 15
    [] n >= 100 /\ n < 1000      -> 30
    [] n >= 1000 /\ n < 10000    -> 50
    [] n >= 10000 /\ n < 50000   -> 70
    [] n >= 50000                -> 90

Reach(current) == IF current = Unknown THEN 0 ELSE BucketWeeklyInstalls(current)

InstallDelta(current, previous) ==
  IF Unknown \in {current, previous} THEN Unknown ELSE current - previous

MomentumAdjustment(current, previous) ==
  CASE current >= 2 * previous                                  -> 20
    [] current < 2 * previous /\ 10 * current >= 11 * previous  -> 10
    [] 2 * current <= previous                                  -> -10
    [] 10 * current < 11 * previous /\ 2 * current > previous   -> 0

ImpactScore_Unclamped(current, previous) ==
  IF Unknown \in {current, previous} THEN Reach(current)
  ELSE IF previous <= 0 THEN Reach(current) + (IF current > 0 THEN 20 ELSE 0)
  ELSE Reach(current) + MomentumAdjustment(current, previous)

ImpactScore(current, previous) ==
  IF Unknown \in {current, previous} THEN Reach(current)
  ELSE IF previous <= 0 THEN Least(100, Reach(current) + (IF current > 0 THEN 20 ELSE 0))
  ELSE Greatest(0, Least(100, Reach(current) + MomentumAdjustment(current, previous)))

(* In tenths. *)
SeverityMultiplier(severity) ==
  CASE severity = "none" -> 5 [] severity = "medium" -> 9 [] severity = "high" -> 10 [] severity = "critical" -> 11

ConfidenceMultiplier(confidence) ==
  CASE confidence = "suspected" -> 9 [] confidence = "confirmed" -> 11 [] confidence \in {"likely", Unknown} -> 10

(* To the nearest, and to the even one of two.                              *)
Round(n, d) ==
  LET q == n \div d
      r == n % d
  IN IF 2 * r > d \/ (2 * r = d /\ q % 2 = 1) THEN q + 1 ELSE q

(* risk * severity * confidence * (1 + impact / 200), in 20000ths. *)
Weighted(report, impact) ==
  report.score * SeverityMultiplier(report.severity) * ConfidenceMultiplier(report.confidence) * (200 + impact)

PriorityScore(report, impact) == Greatest(0, Least(100, Round(Weighted(report, impact), 20000)))
=============================================================================
