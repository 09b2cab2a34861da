---------------------------- MODULE RankingProofs ----------------------------
(* Theorems about the scores of Scoring, the order of Ranking and its reader.*)
EXTENDS Ranking, SetLemmas, SequenceTheorems, TLAPS

Found == [Categories -> [Contexts -> Nat]]

-----------------------------------------------------------------------------
(* Risk *)

LEMMA GroupScoreType ==
  ASSUME NEW found \in Found, NEW c \in Categories, NEW x \in Contexts
  PROVE  GroupScore(found, c, x) \in 0 .. Cap(c, x)
<1>1. found[c][x] \in Nat
  BY DEF Found
<1>2. Weight(c, x) \in 0 .. 55 /\ Cap(c, x) \in 0 .. 100
  BY DEF Weight, Cap, Categories, Contexts
<1>3. found[c][x] * Weight(c, x) \in Nat
  <2> DEFINE n == found[c][x]
             w == Weight(c, x)
  <2>1. n \in Nat /\ w \in Nat
    BY <1>1, <1>2
  <2> HIDE DEF n, w
  <2>2. n * w \in Nat
    BY <2>1
  <2> QED BY <2>2 DEF n, w
<1> DEFINE p == found[c][x] * Weight(c, x)
           k == Cap(c, x)
<1>4. p \in Nat /\ k \in Nat
  BY <1>2, <1>3
<1> HIDE DEF p, k
<1>5. Least(p, k) \in 0 .. k
  BY <1>4 DEF Least
<1> QED BY <1>5 DEF p, k, GroupScore

(* Findings in reference material alone weigh at most the sum of their caps. *)
LEMMA ContextScoreType ==
  ASSUME NEW found \in Found
  PROVE  /\ \A x \in Contexts : ContextScore(found, x) \in Nat
         /\ ContextScore(found, "reference_example") <= 41
<1>1. \A c \in Categories, x \in Contexts : GroupScore(found, c, x) \in 0 .. Cap(c, x)
  BY GroupScoreType
<1>2. \A c \in Categories, x \in Contexts : GroupScore(found, c, x) \in Nat
  <2> SUFFICES ASSUME NEW c \in Categories, NEW x \in Contexts
               PROVE  GroupScore(found, c, x) \in Nat
    OBVIOUS
  <2>1. Cap(c, x) \in Nat
    BY DEF Cap, Categories, Contexts
  <2> QED BY <2>1, <1>1
<1>3. \A x \in Contexts : ContextScore(found, x) \in Nat
  <2> SUFFICES ASSUME NEW x \in Contexts PROVE ContextScore(found, x) \in Nat
    OBVIOUS
  <2>1. /\ GroupScore(found, "remote_code_execution", x) \in Nat
        /\ GroupScore(found, "data_exfiltration", x) \in Nat
        /\ GroupScore(found, "credential_transmission", x) \in Nat
        /\ GroupScore(found, "prompt_injection", x) \in Nat
        /\ GroupScore(found, "obfuscation", x) \in Nat
    BY <1>2 DEF Categories
  <2> QED BY <2>1 DEF ContextScore
<1>4. ContextScore(found, "reference_example") <= 41
  <2> DEFINE x == "reference_example"
  <2>1. /\ GroupScore(found, "remote_code_execution", x) \in 0 .. 5
        /\ GroupScore(found, "data_exfiltration", x) \in 0 .. 15
        /\ GroupScore(found, "credential_transmission", x) \in 0 .. 8
        /\ GroupScore(found, "prompt_injection", x) \in 0 .. 5
        /\ GroupScore(found, "obfuscation", x) \in 0 .. 8
    <3>1. /\ Cap("remote_code_execution", x) = 5
          /\ Cap("data_exfiltration", x) = 15
          /\ Cap("credential_transmission", x) = 8
          /\ Cap("prompt_injection", x) = 5
          /\ Cap("obfuscation", x) = 8
      BY DEF Cap
    <3> QED BY <3>1, <1>1 DEF Categories, Contexts
  <2> QED BY <2>1 DEF ContextScore
<1> QED BY <1>3, <1>4

LEMMA BehaviorScoreType ==
  ASSUME NEW found \in Found, NEW router \in BOOLEAN
  PROVE  /\ BehaviorScore(found, router) \in 0 .. 100
         /\ router /\ ~HasDirectHighRisk(found) => BehaviorScore(found, router) <= 35
<1> DEFINE a == ContextScore(found, "direct_operational")
           b == ContextScore(found, "reference_example")
<1>1. a \in Nat /\ b \in Nat
  BY ContextScoreType DEF Contexts
<1>2. BehaviorScore(found, router) =
        Least(100, IF router /\ ~HasDirectHighRisk(found) THEN Least(a + b, 35) ELSE a + b)
  BY DEF BehaviorScore
<1> HIDE DEF a, b
<1> QED BY <1>1, <1>2 DEF Least

LEMMA IntelScoreType ==
  ASSUME NEW matches, IsFiniteSet(DOMAIN matches)
  PROVE  /\ IntelScore(matches) \in 0 .. 40
         /\ DOMAIN matches = {} => IntelScore(matches) = 0
<1> DEFINE high == {n \in DOMAIN matches : HasHighConfidence(matches[n])}
           rest == (DOMAIN matches) \ high
<1>1. IsFiniteSet(high) /\ IsFiniteSet(rest)
  BY FS_Subset
<1>2. Cardinality(high) \in Nat /\ Cardinality(rest) \in Nat
  BY <1>1, FS_CardinalityType
<1>3. DOMAIN matches = {} => Cardinality(high) = 0 /\ Cardinality(rest) = 0
  BY FS_EmptySet
<1>4. IntelScore(matches) = Least(40, 20 * Cardinality(high) + 10 * Cardinality(rest))
  BY DEF IntelScore
<1> DEFINE h == Cardinality(high)
           r == Cardinality(rest)
<1> HIDE DEF high, rest, h, r
<1>5. /\ h \in Nat /\ r \in Nat
      /\ DOMAIN matches = {} => h = 0 /\ r = 0
      /\ IntelScore(matches) = Least(40, 20 * h + 10 * r)
  BY <1>2, <1>3, <1>4 DEF h, r
<1>6. Least(40, 20 * h + 10 * r) \in 0 .. 40 /\ (h = 0 /\ r = 0 => Least(40, 20 * h + 10 * r) = 0)
  BY <1>5 DEF Least
<1> QED BY <1>5, <1>6

LEMMA SeverityType ==
  ASSUME NEW n \in Nat
  PROVE  /\ SeverityOf(n) \in Severities
         /\ SeverityOf(n) = "critical" <=> n >= 45
BY DEF SeverityOf, Severities

LEMMA ConfidenceType ==
  ASSUME NEW behavior \in Nat, NEW corroborated \in BOOLEAN, NEW severity
  PROVE  /\ ConfidenceOf(behavior, corroborated, severity) \in Confidences
         /\ ConfidenceOf(behavior, corroborated, severity) = "confirmed"
              => corroborated /\ severity = "critical" /\ behavior >= 35
BY DEF ConfidenceOf, Confidences

(* The matches of an evidence that count. *)
Positive(e) == Restrict(e.matches, {n \in DOMAIN e.matches : IsPositive(e.matches[n])})

LEMMA PositiveDomain ==
  ASSUME NEW e, IsEvidence(e)
  PROVE  /\ DOMAIN Positive(e) = {n \in DOMAIN e.matches : IsPositive(e.matches[n])}
         /\ IsFiniteSet(DOMAIN Positive(e))
<1>1. DOMAIN Positive(e) = {n \in DOMAIN e.matches : IsPositive(e.matches[n])}
  BY DEF Positive, Restrict
<1> QED BY <1>1, FS_Subset DEF IsEvidence, Found

LEMMA ReportParts ==
  ASSUME NEW e, IsEvidence(e)
  PROVE  LET behavior == BehaviorScore(e.found, e.router)
             intel    == IntelScore(Positive(e))
         IN /\ behavior \in 0 .. 100 /\ intel \in 0 .. 40
            /\ RiskReport(e).score = Least(100, behavior + intel)
            /\ RiskReport(e).severity = SeverityOf(RiskReport(e).score)
            /\ RiskReport(e).confidence =
                 ConfidenceOf(behavior, DOMAIN Positive(e) # {}, RiskReport(e).severity)
            /\ RiskReport(e) = [score |-> RiskReport(e).score, severity |-> RiskReport(e).severity,
                                confidence |-> RiskReport(e).confidence]
<1>1. BehaviorScore(e.found, e.router) \in 0 .. 100
  BY BehaviorScoreType DEF IsEvidence, Found
<1>2. IntelScore(Positive(e)) \in 0 .. 40
  BY PositiveDomain, IntelScoreType
<1> QED BY <1>1, <1>2 DEF RiskReport, Positive

(* Every evidence gives a score between 0 and 100, a severity and a          *)
(* confidence that the impact and the listing know (build_risk_report).      *)
THEOREM ReportIsWellFormed ==
  ASSUME NEW e, IsEvidence(e)
  PROVE  RiskReport(e) \in Report
<1> DEFINE behavior == BehaviorScore(e.found, e.router)
           intel    == IntelScore(Positive(e))
           score    == RiskReport(e).score
<1>1. /\ behavior \in 0 .. 100 /\ intel \in 0 .. 40
      /\ score = Least(100, behavior + intel)
      /\ RiskReport(e).severity = SeverityOf(score)
      /\ RiskReport(e).confidence = ConfidenceOf(behavior, DOMAIN Positive(e) # {}, RiskReport(e).severity)
      /\ RiskReport(e) = [score |-> score, severity |-> RiskReport(e).severity,
                          confidence |-> RiskReport(e).confidence]
  BY ReportParts
<1> HIDE DEF behavior, intel, score
<1>2. score \in 0 .. 100
  BY <1>1 DEF Least
<1>3. RiskReport(e).severity \in Severities
  BY <1>1, <1>2, SeverityType
<1>4. RiskReport(e).confidence \in Confidences
  <2>1. behavior \in Nat /\ (DOMAIN Positive(e) # {}) \in BOOLEAN
    BY <1>1
  <2> QED BY <1>1, <2>1, ConfidenceType
<1> QED BY <1>1, <1>2, <1>3, <1>4 DEF Report

(* What is found in reference material only does not make a skill critical,  *)
(* nor do prompts and credentials in a catalog of skills, however much is    *)
(* found, as long as no feed confirms it: the caps of _behavior_score keep   *)
(* the sum below the threshold of _severity_from_score.                      *)
THEOREM SupportingEvidenceIsNotCritical ==
  ASSUME NEW e, IsEvidence(e),
         DOMAIN Positive(e) = {},
         \/ \A c \in Categories : e.found[c]["direct_operational"] = 0
         \/ e.router /\ ~HasDirectHighRisk(e.found)
  PROVE  RiskReport(e).severity # "critical"
<1> DEFINE behavior == BehaviorScore(e.found, e.router)
           score    == RiskReport(e).score
<1>1. behavior \in 0 .. 100 /\ score = Least(100, behavior + IntelScore(Positive(e)))
  BY ReportParts
<1>2. IntelScore(Positive(e)) = 0
  BY PositiveDomain, IntelScoreType
<1>3. behavior <= 41
  <2>1. CASE e.router /\ ~HasDirectHighRisk(e.found)
    <3>1. e.found \in Found /\ e.router \in BOOLEAN
      BY DEF IsEvidence, Found
    <3>2. behavior <= 35
      BY <2>1, <3>1, BehaviorScoreType
    <3> HIDE DEF behavior
    <3> QED BY <1>1, <3>2
  <2>2. CASE \A c \in Categories : e.found[c]["direct_operational"] = 0
    <3> DEFINE a == ContextScore(e.found, "direct_operational")
               b == ContextScore(e.found, "reference_example")
    <3>1. \A c \in Categories : GroupScore(e.found, c, "direct_operational") = 0
      <4> SUFFICES ASSUME NEW c \in Categories
                   PROVE  GroupScore(e.found, c, "direct_operational") = 0
        OBVIOUS
      <4>1. Weight(c, "direct_operational") \in Nat /\ Cap(c, "direct_operational") \in Nat
        BY DEF Weight, Cap, Categories
      <4>2. 0 * Weight(c, "direct_operational") = 0
        BY <4>1
      <4> QED BY <4>1, <4>2, <2>2 DEF GroupScore, Least
    <3>2. a = 0
      BY <3>1 DEF ContextScore, Categories
    <3>3. b \in Nat /\ b <= 41
      BY ContextScoreType DEF IsEvidence, Contexts, Found
    <3>4. behavior = Least(100, IF e.router /\ ~HasDirectHighRisk(e.found) THEN Least(a + b, 35) ELSE a + b)
      BY DEF BehaviorScore
    <3>5. a + b \in Nat /\ a + b <= 41
      <4> HIDE DEF a, b
      <4> QED BY <3>2, <3>3
    <3> HIDE DEF a, b, behavior
    <3>6. CASE e.router /\ ~HasDirectHighRisk(e.found)
      <4>1. behavior = Least(100, Least(a + b, 35))
        BY <3>4, <3>6
      <4> QED BY <3>5, <4>1 DEF Least
    <3>7. CASE ~(e.router /\ ~HasDirectHighRisk(e.found))
      <4>1. behavior = Least(100, a + b)
        BY <3>4, <3>7
      <4> QED BY <3>5, <4>1 DEF Least
    <3> QED BY <3>6, <3>7
  <2> QED BY <2>1, <2>2
<1> HIDE DEF behavior, score
<1>4. score \in Nat /\ score < 45
  BY <1>1, <1>2, <1>3 DEF Least
<1>5. RiskReport(e).severity = SeverityOf(score)
  BY ReportParts DEF score
<1> QED BY <1>4, <1>5, SeverityType

(* The feeds alone do not make a skill critical, and only what is found in   *)
(* it and in a feed is confirmed.                                            *)
THEOREM CriticalNeedsFindings ==
  ASSUME NEW e, IsEvidence(e)
  PROVE  /\ RiskReport(e).severity = "critical" => BehaviorScore(e.found, e.router) >= 5
         /\ RiskReport(e).confidence = "confirmed"
              => DOMAIN Positive(e) # {} /\ BehaviorScore(e.found, e.router) >= 35
<1> DEFINE behavior == BehaviorScore(e.found, e.router)
           intel    == IntelScore(Positive(e))
           score    == RiskReport(e).score
<1>1. /\ behavior \in 0 .. 100 /\ intel \in 0 .. 40
      /\ score = Least(100, behavior + intel)
      /\ RiskReport(e).severity = SeverityOf(score)
      /\ RiskReport(e).confidence = ConfidenceOf(behavior, DOMAIN Positive(e) # {}, RiskReport(e).severity)
  BY ReportParts
<1> HIDE DEF behavior, intel, score
<1>2. RiskReport(e).severity = "critical" => behavior >= 5
  BY <1>1, SeverityType DEF Least
<1>3. RiskReport(e).confidence = "confirmed" => DOMAIN Positive(e) # {} /\ behavior >= 35
  <2>1. behavior \in Nat /\ (DOMAIN Positive(e) # {}) \in BOOLEAN
    BY <1>1
  <2> QED BY <1>1, <2>1, ConfidenceType
<1> QED BY <1>2, <1>3 DEF behavior
-----------------------------------------------------------------------------
(* Impact and priority *)

LEMMA BucketsAgree ==
  ASSUME NEW n \in Nat
  PROVE  /\ BucketSql(n) = BucketWeeklyInstalls(n)
         /\ BucketSql(n) \in 0 .. 90
<1>1. n # Unknown
  BY UnknownAssumption
<1> QED BY <1>1 DEF BucketSql, BucketWeeklyInstalls

(* The CASE of the query computes the impact that is shown, for any counts.  *)
THEOREM ImpactsAgree ==
  ASSUME NEW current \in Count, NEW previous \in Count
  PROVE  /\ ImpactSql(current, previous) = ImpactScore(current, previous)
         /\ ImpactScore(current, previous) \in 0 .. 100
<1>1. CASE current = Unknown
  <2>1. ImpactSql(current, previous) = 0
    BY <1>1 DEF ImpactSql, BucketSql
  <2>2. ImpactScore(current, previous) = 0
    BY <1>1 DEF ImpactScore, Reach
  <2> QED BY <2>1, <2>2
<1>2. CASE current \in Nat
  <2> DEFINE b == BucketSql(current)
  <2>1. b \in 0 .. 90 /\ Reach(current) = b /\ current # Unknown
    BY <1>2, BucketsAgree, UnknownAssumption DEF Reach
  <2> HIDE DEF b
  <2>2. CASE previous = Unknown
    <3>1. ImpactSql(current, previous) = b
      BY <2>2 DEF ImpactSql, b
    <3>2. ImpactScore(current, previous) = b
      BY <2>1, <2>2 DEF ImpactScore
    <3> QED BY <2>1, <3>1, <3>2
  <2>3. CASE previous \in Nat
    <3>1. previous # Unknown
      BY <2>3, UnknownAssumption
    <3>2. ImpactSql(current, previous) =
            IF previous <= 0 THEN Least(100, b + (IF current > 0 THEN 20 ELSE 0))
            ELSE IF current >= 2 * previous THEN Least(100, b + 20)
            ELSE IF 10 * current >= 11 * previous THEN Least(100, b + 10)
            ELSE IF 2 * current <= previous THEN Greatest(0, b - 10)
            ELSE b
      BY <2>1, <3>1 DEF ImpactSql, b
    <3>3. ImpactScore(current, previous) =
            IF previous <= 0 THEN Least(100, b + (IF current > 0 THEN 20 ELSE 0))
            ELSE Greatest(0, Least(100, b + MomentumAdjustment(current, previous)))
      BY <2>1, <3>1 DEF ImpactScore
    <3>4. previous > 0 => MomentumAdjustment(current, previous) =
            IF current >= 2 * previous THEN 20
            ELSE IF 10 * current >= 11 * previous THEN 10
            ELSE IF 2 * current <= previous THEN -10
            ELSE 0
      BY <1>2, <2>3 DEF MomentumAdjustment
    <3> QED BY <1>2, <2>1, <2>3, <3>2, <3>3, <3>4 DEF Least, Greatest
  <2> QED BY <2>2, <2>3 DEF Count
<1> QED BY <1>1, <1>2 DEF Count

LEMMA WeightedType ==
  ASSUME NEW report \in Report, NEW impact \in 0 .. 100
  PROVE  Weighted(report, impact) \in Nat
<1> DEFINE a == report.score
           m == SeverityMultiplier(report.severity)
           c == ConfidenceMultiplier(report.confidence)
           i == 200 + impact
<1>1. a \in Nat /\ i \in Nat
  BY DEF Report
<1>2. m \in Nat
  BY DEF Report, SeverityMultiplier, Severities
<1>3. c \in Nat
  <2>1. report.confidence \in Confidences \cup {Unknown}
    BY DEF Report
  <2> QED BY <2>1 DEF ConfidenceMultiplier, Confidences
<1>4. Weighted(report, impact) = a * m * c * i
  BY DEF Weighted
<1> HIDE DEF a, m, c, i
<1>5. a * m \in Nat
  BY <1>1, <1>2
<1>6. a * m * c \in Nat
  <2> DEFINE am == a * m
  <2>1. am \in Nat
    BY <1>5
  <2> HIDE DEF am
  <2>2. am * c \in Nat
    BY <2>1, <1>3
  <2> QED BY <2>2 DEF am
<1>7. a * m * c * i \in Nat
  <2> DEFINE amc == a * m * c
  <2>1. amc \in Nat
    BY <1>6
  <2> HIDE DEF amc
  <2>2. amc * i \in Nat
    BY <2>1, <1>1
  <2> QED BY <2>2 DEF amc
<1> QED BY <1>4, <1>7

(* Clamping before or after rounding is the same.                            *)
LEMMA ClampedRounds ==
  ASSUME NEW n \in Nat
  PROVE  /\ Round(Least(100 * 20000, Greatest(0, n)), 20000) = Greatest(0, Least(100, Round(n, 20000)))
         /\ Greatest(0, Least(100, Round(n, 20000))) \in 0 .. 100
<1> DEFINE q == n \div 20000
           r == n % 20000
<1>1. q \in Nat /\ r \in 0 .. 19999 /\ n = 20000 * q + r
  BY SMTT(30)
<1>2. Round(n, 20000) = IF 2 * r > 20000 \/ (2 * r = 20000 /\ q % 2 = 1) THEN q + 1 ELSE q
  BY DEF Round
<1>3. Round(2000000, 20000) = 100
  BY DEF Round
<1>4. Greatest(0, n) = n /\ 100 * 20000 = 2000000
  BY DEF Greatest
<1>5. CASE n <= 2000000
  <2>1. Least(2000000, n) = n
    BY <1>5 DEF Least
  <2>2. Round(n, 20000) \in 0 .. 100
    BY <1>1, <1>2, <1>5, SMTT(30)
  <2> DEFINE k == Round(n, 20000)
  <2>3. Greatest(0, Least(100, k)) = k
    <3> HIDE DEF k, q, r
    <3>1. k \in 0 .. 100
      BY <2>2 DEF k
    <3> QED BY <3>1 DEF Least, Greatest
  <2> QED BY <1>4, <2>1, <2>2, <2>3
<1>6. CASE n > 2000000
  <2>1. Least(2000000, n) = 2000000
    BY <1>6 DEF Least
  <2>2. Round(n, 20000) \in Nat /\ Round(n, 20000) >= 100
    BY <1>1, <1>2, <1>6, SMTT(30)
  <2> DEFINE k == Round(n, 20000)
  <2>3. Greatest(0, Least(100, k)) = 100
    <3> HIDE DEF k, q, r
    <3>1. k \in Nat /\ k >= 100
      BY <2>2 DEF k
    <3> QED BY <3>1 DEF Least, Greatest
  <2> QED BY <1>3, <1>4, <2>1, <2>3
<1> QED BY <1>5, <1>6

(* The query orders by the priority that is shown, for any report.           *)
THEOREM PrioritiesAgree ==
  ASSUME NEW report \in Report, NEW impact \in 0 .. 100
  PROVE  /\ PrioritySql(report, impact) = PriorityScore(report, impact)
         /\ PriorityScore(report, impact) \in 0 .. 100
<1> DEFINE n == Weighted(report, impact)
<1>1. n \in Nat
  BY WeightedType
<1>2. /\ PrioritySql(report, impact) = Round(Least(100 * 20000, Greatest(0, n)), 20000)
      /\ PriorityScore(report, impact) = Greatest(0, Least(100, Round(n, 20000)))
  BY DEF PrioritySql, PriorityScore
<1> HIDE DEF n
<1> QED BY <1>1, <1>2, ClampedRounds

-----------------------------------------------------------------------------
(* More evidence *)

(* f has all that e has and maybe more: findings, indicators of the feeds and *)
(* observations of them; it is no catalog and no platform where e is none.   *)
NoLess(f, e) ==
  /\ f.router => e.router
  /\ \A c \in Categories, x \in Contexts : f.found[c][x] >= e.found[c][x]
  /\ DOMAIN e.matches \subseteq DOMAIN f.matches
  /\ \A n \in DOMAIN e.matches :
       /\ f.matches[n].platform => e.matches[n].platform
       /\ e.matches[n].observations \subseteq f.matches[n].observations

LEMMA ProductsRise ==
  ASSUME NEW a \in Nat, NEW b \in Nat, NEW c \in Nat, NEW d \in Nat, a <= b, c <= d
  PROVE  a * c \in Nat /\ b * d \in Nat /\ a * c <= b * d
<1> DEFINE x == b - a
           y == d - c
<1>1. x \in Nat /\ y \in Nat /\ b = a + x /\ d = c + y
  OBVIOUS
<1> HIDE DEF x, y
<1>2. b * d = a * c + (a * y + (x * c + x * y))
  BY <1>1
<1>3. a * c \in Nat /\ a * y \in Nat /\ x * c \in Nat /\ x * y \in Nat
  BY <1>1
<1>4. \A p, q, r, s \in Nat : p <= p + (q + (r + s)) /\ p + (q + (r + s)) \in Nat
  OBVIOUS
<1> QED BY <1>2, <1>3, <1>4

LEMMA BehaviorRises ==
  ASSUME NEW e, NEW f, IsEvidence(e), IsEvidence(f), NoLess(f, e)
  PROVE  BehaviorScore(e.found, e.router) <= BehaviorScore(f.found, f.router)
<1>1. \A c \in Categories, x \in Contexts : GroupScore(e.found, c, x) <= GroupScore(f.found, c, x)
  <2> SUFFICES ASSUME NEW c \in Categories, NEW x \in Contexts
               PROVE  GroupScore(e.found, c, x) <= GroupScore(f.found, c, x)
    OBVIOUS
  <2>1. e.found[c][x] \in Nat /\ f.found[c][x] \in Nat /\ e.found[c][x] <= f.found[c][x]
    BY DEF IsEvidence, NoLess
  <2>2. Weight(c, x) \in Nat /\ Cap(c, x) \in Nat
    BY DEF Weight, Cap, Categories, Contexts
  <2> DEFINE p == e.found[c][x] * Weight(c, x)
             q == f.found[c][x] * Weight(c, x)
             k == Cap(c, x)
  <2>3. p \in Nat /\ q \in Nat /\ p <= q /\ k \in Nat
    BY <2>1, <2>2, ProductsRise
  <2> HIDE DEF p, q, k
  <2>4. Least(p, k) <= Least(q, k)
    BY <2>3 DEF Least
  <2> QED BY <2>4 DEF p, q, k, GroupScore
<1>2. e.found \in Found /\ f.found \in Found /\ e.router \in BOOLEAN /\ f.router \in BOOLEAN
  BY DEF IsEvidence, Found
<1>3. \A x \in Contexts : ContextScore(e.found, x) <= ContextScore(f.found, x)
  <2> SUFFICES ASSUME NEW x \in Contexts PROVE ContextScore(e.found, x) <= ContextScore(f.found, x)
    OBVIOUS
  <2>1. \A c \in Categories : GroupScore(e.found, c, x) \in Nat /\ GroupScore(f.found, c, x) \in Nat
    <3> SUFFICES ASSUME NEW c \in Categories
                 PROVE  GroupScore(e.found, c, x) \in Nat /\ GroupScore(f.found, c, x) \in Nat
      OBVIOUS
    <3>1. Cap(c, x) \in Nat
      BY DEF Cap, Categories, Contexts
    <3> QED BY <1>2, <3>1, GroupScoreType
  <2>2. \A c \in Categories : GroupScore(e.found, c, x) <= GroupScore(f.found, c, x)
    BY <1>1
  <2> QED BY <2>1, <2>2 DEF ContextScore, Categories
<1>4. HasDirectHighRisk(e.found) => HasDirectHighRisk(f.found)
  <2>1. \A c \in HighRiskCategories :
          /\ e.found[c]["direct_operational"] \in Nat /\ f.found[c]["direct_operational"] \in Nat
          /\ f.found[c]["direct_operational"] >= e.found[c]["direct_operational"]
    BY DEF IsEvidence, NoLess, HighRiskCategories, Categories, Contexts
  <2> QED BY <2>1 DEF HasDirectHighRisk
<1> DEFINE a == ContextScore(e.found, "direct_operational") + ContextScore(e.found, "reference_example")
           b == ContextScore(f.found, "direct_operational") + ContextScore(f.found, "reference_example")
           capE == e.router /\ ~HasDirectHighRisk(e.found)
           capF == f.router /\ ~HasDirectHighRisk(f.found)
<1>5. a \in Nat /\ b \in Nat /\ a <= b
  <2>1. \A x \in Contexts : ContextScore(e.found, x) \in Nat /\ ContextScore(f.found, x) \in Nat
    BY <1>2, ContextScoreType
  <2> QED BY <2>1, <1>3 DEF Contexts
<1>6. capF => capE
  BY <1>4 DEF NoLess
<1>7. /\ BehaviorScore(e.found, e.router) = Least(100, IF capE THEN Least(a, 35) ELSE a)
      /\ BehaviorScore(f.found, f.router) = Least(100, IF capF THEN Least(b, 35) ELSE b)
  BY DEF BehaviorScore
<1> HIDE DEF a, b, capE, capF
<1>8. CASE capF
  BY <1>5, <1>6, <1>7, <1>8 DEF Least
<1>9. CASE ~capF
  BY <1>5, <1>7, <1>9 DEF Least
<1> QED BY <1>8, <1>9

LEMMA IntelParts ==
  ASSUME NEW m, IsFiniteSet(DOMAIN m)
  PROVE  LET high == {n \in DOMAIN m : HasHighConfidence(m[n])}
         IN /\ IsFiniteSet(high) /\ Cardinality(high) \in Nat /\ Cardinality(DOMAIN m) \in Nat
            /\ IntelScore(m) = Least(40, 10 * Cardinality(DOMAIN m) + 10 * Cardinality(high))
<1> DEFINE D == DOMAIN m
           high == {n \in D : HasHighConfidence(m[n])}
<1>1. IsFiniteSet(high) /\ Cardinality(high) \in Nat /\ Cardinality(D) \in Nat
  BY FS_Subset, FS_CardinalityType
<1>2. Cardinality(D \ high) = Cardinality(D) - Cardinality(high)
  <2>1. Cardinality(D \ high) = Cardinality(D) - Cardinality(D \cap high)
    BY <1>1, FS_Difference
  <2>2. D \cap high = high
    OBVIOUS
  <2> QED BY <2>1, <2>2
<1>3. IntelScore(m) = Least(40, 20 * Cardinality(high) + 10 * Cardinality(D \ high))
  BY DEF IntelScore
<1> DEFINE h == Cardinality(high)
           d == Cardinality(D)
<1>4. IntelScore(m) = Least(40, 20 * h + 10 * (d - h))
  BY <1>2, <1>3
<1>5. h \in Nat /\ d \in Nat
  BY <1>1
<1> HIDE DEF h, d
<1>6. 20 * h + 10 * (d - h) = 10 * d + 10 * h
  BY <1>5
<1>7. IntelScore(m) = Least(40, 10 * d + 10 * h)
  BY <1>4, <1>6
<1> QED BY <1>1, <1>7 DEF h, d

LEMMA IntelRises ==
  ASSUME NEW e, NEW f, IsEvidence(e), IsEvidence(f), NoLess(f, e)
  PROVE  /\ DOMAIN Positive(e) \subseteq DOMAIN Positive(f)
         /\ IntelScore(Positive(e)) <= IntelScore(Positive(f))
<1>1. \A n \in DOMAIN e.matches : IsPositive(e.matches[n]) => IsPositive(f.matches[n])
  BY DEF NoLess, IsPositive, IsPositiveObservation
<1>2. DOMAIN Positive(e) \subseteq DOMAIN Positive(f)
  BY <1>1, PositiveDomain DEF NoLess
<1> DEFINE p == Positive(e)
           q == Positive(f)
           highP == {n \in DOMAIN p : HasHighConfidence(p[n])}
           highQ == {n \in DOMAIN q : HasHighConfidence(q[n])}
<1>3. highP \subseteq highQ
  <2> SUFFICES ASSUME NEW n \in DOMAIN p, HasHighConfidence(p[n]) PROVE HasHighConfidence(q[n])
    BY <1>2
  <2>1. p[n] = e.matches[n] /\ q[n] = f.matches[n] /\ n \in DOMAIN e.matches
    BY <1>2, PositiveDomain DEF Positive, Restrict
  <2> QED BY <2>1 DEF HasHighConfidence, NoLess
<1>4. IsFiniteSet(DOMAIN p) /\ IsFiniteSet(DOMAIN q)
  BY PositiveDomain
<1> HIDE DEF p, q
<1>5. /\ IsFiniteSet(highQ) /\ Cardinality(highP) \in Nat /\ Cardinality(DOMAIN p) \in Nat
      /\ Cardinality(highQ) \in Nat /\ Cardinality(DOMAIN q) \in Nat
      /\ IntelScore(p) = Least(40, 10 * Cardinality(DOMAIN p) + 10 * Cardinality(highP))
      /\ IntelScore(q) = Least(40, 10 * Cardinality(DOMAIN q) + 10 * Cardinality(highQ))
  BY <1>4, IntelParts
<1>6. Cardinality(DOMAIN p) <= Cardinality(DOMAIN q) /\ Cardinality(highP) <= Cardinality(highQ)
  BY <1>2, <1>3, <1>4, <1>5, FS_Subset DEF p, q
<1> HIDE DEF highP, highQ
<1>7. IntelScore(p) <= IntelScore(q)
  BY <1>5, <1>6 DEF Least
<1> QED BY <1>2, <1>7 DEF p, q

LEMMA RoundRises ==
  ASSUME NEW m \in Nat, NEW n \in Nat, m <= n
  PROVE  /\ Round(m, 20000) \in Nat /\ Round(n, 20000) \in Nat
         /\ Round(m, 20000) <= Round(n, 20000)
<1> DEFINE p == m \div 20000
           r == m % 20000
           q == n \div 20000
           s == n % 20000
<1>1. /\ p \in Nat /\ r \in 0 .. 19999 /\ m = 20000 * p + r
      /\ q \in Nat /\ s \in 0 .. 19999 /\ n = 20000 * q + s
  BY SMTT(30)
<1>2. /\ Round(m, 20000) = IF 2 * r > 20000 \/ (2 * r = 20000 /\ p % 2 = 1) THEN p + 1 ELSE p
      /\ Round(n, 20000) = IF 2 * s > 20000 \/ (2 * s = 20000 /\ q % 2 = 1) THEN q + 1 ELSE q
  BY DEF Round
<1> HIDE DEF p, q, r, s
<1>3. CASE p = q
  BY <1>1, <1>2, <1>3, SMTT(30)
<1>4. CASE p + 1 <= q
  BY <1>1, <1>2, <1>4, SMTT(30)
<1>5. CASE q + 1 <= p
  <2>1. m >= 20000 * q + 20000
    BY <1>1, <1>5, SMTT(30)
  <2>2. n < 20000 * q + 20000
    BY <1>1, SMTT(30)
  <2> QED BY <1>1, <2>1, <2>2, SMTT(30)
<1>6. p = q \/ p + 1 <= q \/ q + 1 <= p
  BY <1>1, SMTT(30)
<1>7. Round(m, 20000) \in Nat /\ Round(n, 20000) \in Nat
  BY <1>1, <1>2, SMTT(30)
<1> QED BY <1>3, <1>4, <1>5, <1>6, <1>7

(* Whoever finds more of what counts against a skill, in its files or in the *)
(* feeds, gives it no lower score, severity, confidence or priority: no step *)
(* of the scores takes back what another has added, also where they cap,     *)
(* multiply and round; nor does a larger impact rank it lower.  Severities    *)
(* and confidences are compared by their multipliers, which rise with them.  *)
THEOREM MoreEvidenceNeverRanksLower ==
  ASSUME NEW e, NEW f, IsEvidence(e), IsEvidence(f), NoLess(f, e),
         NEW i \in 0 .. 100, NEW j \in 0 .. 100, i <= j
  PROVE  /\ RiskReport(e).score <= RiskReport(f).score
         /\ SeverityMultiplier(RiskReport(e).severity) <= SeverityMultiplier(RiskReport(f).severity)
         /\ ConfidenceMultiplier(RiskReport(e).confidence) <= ConfidenceMultiplier(RiskReport(f).confidence)
         /\ PriorityScore(RiskReport(e), i) <= PriorityScore(RiskReport(f), j)
<1> DEFINE be == BehaviorScore(e.found, e.router)
           bf == BehaviorScore(f.found, f.router)
           ce == DOMAIN Positive(e) # {}
           cf == DOMAIN Positive(f) # {}
           se == RiskReport(e).score
           sf == RiskReport(f).score
<1>1. be \in 0 .. 100 /\ bf \in 0 .. 100 /\ be <= bf /\ ce \in BOOLEAN /\ cf \in BOOLEAN /\ (ce => cf)
  BY ReportParts, BehaviorRises, IntelRises
<1>2. se \in Nat /\ sf \in Nat /\ se <= sf
  <2> DEFINE ie == IntelScore(Positive(e))
             if == IntelScore(Positive(f))
  <2>1. ie \in 0 .. 40 /\ if \in 0 .. 40 /\ ie <= if /\ se = Least(100, be + ie) /\ sf = Least(100, bf + if)
    BY ReportParts, IntelRises
  <2> HIDE DEF ie, if, be, bf, se, sf
  <2> QED BY <1>1, <2>1 DEF Least
<1>3. /\ RiskReport(e).severity = SeverityOf(se) /\ RiskReport(f).severity = SeverityOf(sf)
      /\ RiskReport(e).confidence = ConfidenceOf(be, ce, SeverityOf(se))
      /\ RiskReport(f).confidence = ConfidenceOf(bf, cf, SeverityOf(sf))
  BY ReportParts
<1> DEFINE me == SeverityMultiplier(SeverityOf(se))
           mf == SeverityMultiplier(SeverityOf(sf))
           ke == ConfidenceMultiplier(ConfidenceOf(be, ce, SeverityOf(se)))
           kf == ConfidenceMultiplier(ConfidenceOf(bf, cf, SeverityOf(sf)))
<1>4. SeverityOf(se) = "critical" => SeverityOf(sf) = "critical"
  <2> HIDE DEF se, sf
  <2> QED BY <1>2, SeverityType
<1>5. me \in Nat /\ mf \in Nat /\ me <= mf
  <2> HIDE DEF se, sf
  <2> QED BY <1>2 DEF SeverityOf, SeverityMultiplier
<1> DEFINE x == SeverityOf(se)
           y == SeverityOf(sf)
           suretyE == ConfidenceOf(be, ce, x)
           suretyF == ConfidenceOf(bf, cf, y)
<1>6. /\ suretyE = "confirmed" => suretyF = "confirmed"
      /\ suretyE = "likely" => suretyF \in {"likely", "confirmed"}
      /\ suretyE \in Confidences /\ suretyF \in Confidences
  <2> HIDE DEF be, bf, ce, cf, x, y
  <2>1. x = "critical" => y = "critical"
    BY <1>4 DEF x, y
  <2> QED BY <1>1, <2>1 DEF ConfidenceOf, Confidences
<1>7. ke \in Nat /\ kf \in Nat /\ ke <= kf
  <2>1. ke = ConfidenceMultiplier(suretyE) /\ kf = ConfidenceMultiplier(suretyF)
    OBVIOUS
  <2> HIDE DEF suretyE, suretyF, ke, kf
  <2> QED BY <1>6, <2>1 DEF ConfidenceMultiplier, Confidences
<1> DEFINE we == Weighted(RiskReport(e), i)
           wf == Weighted(RiskReport(f), j)
<1>8. we \in Nat /\ wf \in Nat /\ we <= wf
  <2>1. we = se * me * ke * (200 + i) /\ wf = sf * mf * kf * (200 + j)
    BY <1>3 DEF Weighted
  <2> HIDE DEF se, sf, me, mf, ke, kf, we, wf
  <2>2. se * me \in Nat /\ sf * mf \in Nat /\ se * me <= sf * mf
    BY <1>2, <1>5, ProductsRise
  <2>3. se * me * ke \in Nat /\ sf * mf * kf \in Nat /\ se * me * ke <= sf * mf * kf
    BY <1>7, <2>2, ProductsRise
  <2>4. 200 + i \in Nat /\ 200 + j \in Nat /\ 200 + i <= 200 + j
    OBVIOUS
  <2>5. /\ se * me * ke * (200 + i) \in Nat /\ sf * mf * kf * (200 + j) \in Nat
        /\ se * me * ke * (200 + i) <= sf * mf * kf * (200 + j)
    BY <2>3, <2>4, ProductsRise
  <2> QED BY <2>1, <2>5
<1>9. PriorityScore(RiskReport(e), i) <= PriorityScore(RiskReport(f), j)
  <2> DEFINE a == Round(we, 20000)
             b == Round(wf, 20000)
  <2>1. /\ PriorityScore(RiskReport(e), i) = Greatest(0, Least(100, a))
        /\ PriorityScore(RiskReport(f), j) = Greatest(0, Least(100, b))
    BY DEF PriorityScore
  <2> HIDE DEF we, wf
  <2>2. a \in Nat /\ b \in Nat /\ a <= b
    BY <1>8, RoundRises
  <2> HIDE DEF a, b
  <2> QED BY <2>1, <2>2 DEF Least, Greatest
<1> QED BY <1>2, <1>3, <1>5, <1>7, <1>9

(* The more a skill is installed now, and the less it was before, the larger *)
(* its impact: the thresholds of the buckets and of the momentum do not      *)
(* cross (compute_impact_score).                                             *)
THEOREM ImpactRisesWithInstalls ==
  ASSUME NEW m \in Nat, NEW n \in Nat, m <= n, NEW p \in Nat, NEW q \in Nat, p >= q
  PROVE  /\ ImpactScore(m, Unknown) <= ImpactScore(n, Unknown)
         /\ ImpactScore(m, p) <= ImpactScore(n, q)
<1>1. m # Unknown /\ n # Unknown /\ p # Unknown /\ q # Unknown
  BY UnknownAssumption
<1> DEFINE a == BucketWeeklyInstalls(m)
           b == BucketWeeklyInstalls(n)
<1>2. a \in 0 .. 90 /\ b \in 0 .. 90 /\ a <= b /\ (m > 0 => a >= 5) /\ (m = 0 => a = 0)
  BY DEF BucketWeeklyInstalls
<1>3. Reach(m) = a /\ Reach(n) = b
  BY <1>1 DEF Reach
<1> HIDE DEF a, b
<1>4. ImpactScore(m, Unknown) = a /\ ImpactScore(n, Unknown) = b
  BY <1>3 DEF ImpactScore
<1>5. /\ ImpactScore(m, p) = IF p <= 0 THEN Least(100, a + (IF m > 0 THEN 20 ELSE 0))
                             ELSE Greatest(0, Least(100, a + MomentumAdjustment(m, p)))
      /\ ImpactScore(n, q) = IF q <= 0 THEN Least(100, b + (IF n > 0 THEN 20 ELSE 0))
                             ELSE Greatest(0, Least(100, b + MomentumAdjustment(n, q)))
  BY <1>1, <1>3 DEF ImpactScore
<1>6. \A c, v \in Nat : v > 0 => MomentumAdjustment(c, v) =
        IF c >= 2 * v THEN 20 ELSE IF 10 * c >= 11 * v THEN 10 ELSE IF 2 * c <= v THEN -10 ELSE 0
  BY DEF MomentumAdjustment
<1>7. ImpactScore(m, p) <= ImpactScore(n, q)
  <2>1. CASE p = 0
    <3>1. q = 0
      BY <2>1
    <3> QED BY <1>2, <1>5, <2>1, <3>1 DEF Least
  <2>2. CASE p > 0 /\ q = 0
    <3> DEFINE k == MomentumAdjustment(m, p)
    <3>1. k \in Int /\ k <= 20 /\ (m = 0 => k <= 0)
      BY <1>6, <2>2
    <3> HIDE DEF k
    <3>2. /\ ImpactScore(m, p) = Greatest(0, Least(100, a + k))
          /\ ImpactScore(n, q) = Least(100, b + (IF n > 0 THEN 20 ELSE 0))
      BY <1>5, <2>2 DEF k
    <3> QED BY <1>2, <3>1, <3>2 DEF Least, Greatest
  <2>3. CASE p > 0 /\ q > 0
    <3> DEFINE k == MomentumAdjustment(m, p)
               l == MomentumAdjustment(n, q)
    <3>1. k \in Int /\ l \in Int /\ k <= l
      BY <1>6, <2>3
    <3> HIDE DEF k, l
    <3>2. ImpactScore(m, p) = Greatest(0, Least(100, a + k)) /\ ImpactScore(n, q) = Greatest(0, Least(100, b + l))
      BY <1>5, <2>3 DEF k, l
    <3> QED BY <1>2, <3>1, <3>2 DEF Least, Greatest
  <2> QED BY <2>1, <2>2, <2>3
<1> QED BY <1>2, <1>4, <1>7

-----------------------------------------------------------------------------
(* The order *)

(* The count before the last fetch is the one the query takes, or neither    *)
(* knows one.                                                                *)
LEMMA PreviousAgree ==
  ASSUME NEW s \in Skills, fetches[s] \in Seq(Count), Telling(s)
  PROVE  Previous(s) = PreviousSql(s) /\ Previous(s) \in Count
<1> DEFINE f == fetches[s]
           known == {n \in 1 .. Len(f) - 1 : f[n] # Unknown}
<1>1. Len(f) \in Nat /\ \A n \in 1 .. Len(f) : f[n] \in Count
  OBVIOUS
<1>2. Previous(s) = IF known = {} THEN Unknown ELSE f[Max(known)]
  BY DEF Previous
<1>3. PreviousSql(s) = IF Len(f) < 2 THEN Unknown ELSE f[Len(f) - 1]
  BY DEF PreviousSql
<1>4. PreviousSql(s) # Unknown \/ \A n \in 1 .. Len(f) - 1 : f[n] = Unknown
  BY DEF Telling
<1> HIDE DEF f
<1>5. CASE known = {}
  <2>1. Previous(s) = Unknown
    BY <1>2, <1>5
  <2>2. Len(f) >= 2 => f[Len(f) - 1] = Unknown
    <3> SUFFICES ASSUME Len(f) >= 2 PROVE f[Len(f) - 1] = Unknown
      OBVIOUS
    <3>1. Len(f) - 1 \in 1 .. Len(f) - 1
      BY <1>1
    <3> QED BY <3>1, <1>5
  <2>3. PreviousSql(s) = Unknown
    BY <1>1, <1>3, <2>2
  <2> QED BY <2>1, <2>3 DEF Count
<1>6. CASE known # {}
  <2>1. PreviousSql(s) # Unknown
    BY <1>4, <1>6
  <2>2. Len(f) >= 2 /\ f[Len(f) - 1] # Unknown /\ PreviousSql(s) = f[Len(f) - 1]
    BY <1>1, <1>3, <2>1
  <2>3. Len(f) - 1 \in known /\ \A n \in known : n <= Len(f) - 1
    BY <1>1, <2>2
  <2>4. Max(known) = Len(f) - 1
    <3>1. known \subseteq Int
      BY <1>1
    <3>2. Max(known) = CHOOSE x \in known : \A y \in known : x >= y
      BY DEF Max
    <3> HIDE DEF known
    <3>3. Max(known) \in known /\ \A y \in known : Max(known) >= y
      BY <2>3, <3>1, <3>2
    <3> DEFINE m == Max(known)
    <3>4. m \in Int /\ m >= Len(f) - 1 /\ m <= Len(f) - 1
      BY <2>3, <3>1, <3>3
    <3> HIDE DEF m
    <3>5. m = Len(f) - 1
      BY <1>1, <3>4
    <3> QED BY <3>5 DEF m
  <2>5. Previous(s) = f[Len(f) - 1]
    BY <1>2, <1>6, <2>4
  <2>6. f[Len(f) - 1] \in Count
    BY <1>1, <2>2
  <2> QED BY <2>2, <2>5, <2>6
<1> QED BY <1>5, <1>6

(* Whatever has been fetched and found of a skill, what the database orders  *)
(* it by is what the listing shows of it, and the ids, unless its count is   *)
(* unknown in the fetch before the last alone: ShownInOrder in general, for  *)
(* one statement.                                                            *)
THEOREM KeysAgree ==
  ASSUME NEW s \in Skills, NEW sort \in Sorts,
         fetches[s] \in Seq(Count), latest[s] \in Snapshot, Current(s) \in Count, Telling(s)
  PROVE  KeySql(s, sort) = Append(KeyShown(Shown(Columns(s)), sort), s)
<1> DEFINE current  == Current(s)
           previous == Previous(s)
           impact   == ImpactScore(current, previous)
           report   == latest[s].report
           item     == Shown(Columns(s))
<1>1. previous \in Count /\ PreviousSql(s) = previous
  BY PreviousAgree
<1>2. report \in Report
  BY DEF Snapshot
<1>3. ImpactSql(current, PreviousSql(s)) = impact /\ impact \in 0 .. 100
  BY <1>1, ImpactsAgree
<1>4. PrioritySql(report, ImpactSql(current, PreviousSql(s))) = PriorityScore(report, impact)
  BY <1>2, <1>3, PrioritiesAgree
<1>5. /\ item.current = current
      /\ item.delta = InstallDelta(current, previous)
      /\ item.priority = PriorityScore(report, impact)
      /\ item.snapshot = latest[s]
  BY DEF Shown, Columns
<1>6. CASE sort = "priority"
  <2>1. KeySql(s, sort) = <<PriorityScore(report, impact), Installs(current), report.score, latest[s].id, s>>
    BY <1>6, <1>4 DEF KeySql
  <2>2. KeyShown(item, sort) = <<PriorityScore(report, impact), Installs(current), report.score, latest[s].id>>
    BY <1>6, <1>5 DEF KeyShown
  <2> QED BY <2>1, <2>2
<1>7. CASE sort = "risk"
  <2>1. KeySql(s, sort) = <<report.score, PriorityScore(report, impact), latest[s].id, s>>
    BY <1>7, <1>4 DEF KeySql
  <2>2. KeyShown(item, sort) = <<report.score, PriorityScore(report, impact), latest[s].id>>
    BY <1>7, <1>5 DEF KeyShown
  <2> QED BY <2>1, <2>2
<1>8. CASE sort = "installs"
  <2>1. KeySql(s, sort) = <<Installs(current), PriorityScore(report, impact), latest[s].id, s>>
    BY <1>8, <1>4 DEF KeySql
  <2>2. KeyShown(item, sort) = <<Installs(current), PriorityScore(report, impact), latest[s].id>>
    BY <1>8, <1>5 DEF KeyShown
  <2> QED BY <2>1, <2>2
<1>9. CASE sort = "growth"
  <2>1. KeySql(s, sort) = <<Growth(InstallDelta(current, previous)), Installs(current), latest[s].id, s>>
    BY <1>9, <1>1 DEF KeySql
  <2>2. KeyShown(item, sort) = <<Growth(InstallDelta(current, previous)), Installs(current), latest[s].id>>
    BY <1>9, <1>5 DEF KeyShown
  <2> QED BY <2>1, <2>2
<1> QED BY <1>6, <1>7, <1>8, <1>9 DEF Sorts

-----------------------------------------------------------------------------
(* The order of the database is one *)

(* What the database holds has its types. *)
Database ==
  /\ entry \in [Skills -> [Sources -> Count \cup {NotListed}]]
  /\ weekly \in [Skills -> Count]
  /\ fetches \in [Skills -> Seq(Count)]
  /\ latest \in [Skills -> Snapshot]

(* What is known of a skill adds up to a count, or nothing is known.         *)
LEMMA SumOfKnownType ==
  ASSUME NEW f \in [Sources -> Count \cup {NotListed}]
  PROVE  SumOfKnown(f) \in Count
<1> DEFINE K == {x \in DOMAIN f : f[x] \notin {Unknown, NotListed}}
<1>1. IsFiniteSet(K)
  BY SourcesAssumption, FS_Subset
<1>2. \A x \in K : f[x] \in Nat
  BY DEF Count
<1>3. SumFunctionOnSet(f, K) \in Nat
  BY <1>1, <1>2, FunctionSum, SumType
<1> QED BY <1>3 DEF SumOfKnown, Count

LEMMA CurrentType ==
  ASSUME Database, NEW s \in Skills
  PROVE  Current(s) \in Count /\ PreviousSql(s) \in Count
<1>1. entry[s] \in [Sources -> Count \cup {NotListed}] /\ weekly[s] \in Count /\ fetches[s] \in Seq(Count)
  BY DEF Database
<1>2. SumOfKnown(entry[s]) \in Count
  BY <1>1, SumOfKnownType
<1>3. PreviousSql(s) \in Count
  <2> DEFINE h == fetches[s]
  <2>1. h \in Seq(Count)
    BY <1>1
  <2>2. PreviousSql(s) = IF Len(h) < 2 THEN Unknown ELSE h[Len(h) - 1]
    BY DEF PreviousSql
  <2> HIDE DEF h
  <2>3. Len(h) \in Nat
    BY <2>1
  <2>4. Len(h) >= 2 => h[Len(h) - 1] \in Count
    BY <2>1
  <2> QED BY <2>2, <2>3, <2>4 DEF Count
<1> QED BY <1>1, <1>2, <1>3 DEF Current

(* The keys of a sort are lists of as many numbers, with the id at the end.  *)
KeyLength(sort) == IF sort = "priority" THEN 5 ELSE 4

LEMMA DeltaType ==
  ASSUME NEW current \in Count, NEW previous \in Count
  PROVE  InstallDelta(current, previous) \in Int \cup {Unknown}
BY DEF InstallDelta, Count

LEMMA KeyType ==
  ASSUME Database, NEW s \in Skills, NEW sort \in Sorts
  PROVE  /\ KeySql(s, sort) \in [1 .. KeyLength(sort) -> Int]
         /\ KeySql(s, sort)[KeyLength(sort)] = s
<1> DEFINE current  == Installs(Current(s))
           priority == PrioritySql(latest[s].report, ImpactSql(Current(s), PreviousSql(s)))
           risk     == latest[s].report.score
           growth   == Growth(InstallDelta(Current(s), PreviousSql(s)))
           id       == latest[s].id
<1>1. Current(s) \in Count /\ PreviousSql(s) \in Count
  BY CurrentType
<1>2. current \in Int
  BY <1>1 DEF Installs, Count
<1>3. latest[s].report \in Report /\ id \in Int
  BY DEF Database, Snapshot
<1>4. priority \in Int
  <2>1. ImpactSql(Current(s), PreviousSql(s)) \in 0 .. 100
    BY <1>1, ImpactsAgree
  <2>2. priority \in 0 .. 100
    BY <1>3, <2>1, PrioritiesAgree
  <2> HIDE DEF priority
  <2> QED BY <2>2
<1>5. risk \in Int
  BY <1>3 DEF Report
<1>6. growth \in Int
  <2>1. InstallDelta(Current(s), PreviousSql(s)) \in Int \cup {Unknown}
    BY <1>1, DeltaType
  <2> QED BY <2>1 DEF Growth
<1>7. s \in Int
  BY SkillsAssumption
<1>8. KeySql(s, sort) =
        CASE sort = "priority" -> <<priority, current, risk, id, s>>
          [] sort = "risk"     -> <<risk, priority, id, s>>
          [] sort = "installs" -> <<current, priority, id, s>>
          [] sort = "growth"   -> <<growth, current, id, s>>
  BY DEF KeySql
<1> HIDE DEF current, priority, risk, growth, id
<1>9. CASE sort = "priority"
  BY <1>2, <1>3, <1>4, <1>5, <1>6, <1>7, <1>8, <1>9 DEF KeyLength
<1>10. CASE sort = "risk"
  BY <1>2, <1>3, <1>4, <1>5, <1>6, <1>7, <1>8, <1>10 DEF KeyLength
<1>11. CASE sort = "installs"
  BY <1>2, <1>3, <1>4, <1>5, <1>6, <1>7, <1>8, <1>11 DEF KeyLength
<1>12. CASE sort = "growth"
  BY <1>2, <1>3, <1>4, <1>5, <1>6, <1>7, <1>8, <1>12 DEF KeyLength
<1> QED BY <1>9, <1>10, <1>11, <1>12 DEF Sorts

(* Keys of one length are in the order of their first difference.            *)
LEMMA AboveIsAnOrder ==
  ASSUME NEW N \in {4, 5}, NEW k \in [1 .. N -> Int], NEW l \in [1 .. N -> Int], NEW j \in [1 .. N -> Int]
  PROVE  /\ ~Above(k, k)
         /\ Above(k, l) => ~Above(l, k)
         /\ Above(k, l) /\ Above(l, j) => Above(k, j)
         /\ k[N] # l[N] => Above(k, l) \/ Above(l, k)
<1>1. /\ Above(k, k) <=> \E n \in 1 .. N : k[n] > k[n] /\ \A m \in 1 .. n - 1 : k[m] = k[m]
      /\ Above(k, l) <=> \E n \in 1 .. N : k[n] > l[n] /\ \A m \in 1 .. n - 1 : k[m] = l[m]
      /\ Above(l, k) <=> \E n \in 1 .. N : l[n] > k[n] /\ \A m \in 1 .. n - 1 : l[m] = k[m]
      /\ Above(l, j) <=> \E n \in 1 .. N : l[n] > j[n] /\ \A m \in 1 .. n - 1 : l[m] = j[m]
      /\ Above(k, j) <=> \E n \in 1 .. N : k[n] > j[n] /\ \A m \in 1 .. n - 1 : k[m] = j[m]
  BY DEF Above
<1>2. /\ N \in Nat
      /\ \A n \in 1 .. N : n \in Nat /\ k[n] \in Int /\ l[n] \in Int /\ j[n] \in Int
      /\ \A n \in 1 .. N : \A m \in 1 .. n - 1 : m \in 1 .. N
  OBVIOUS
<1>3. ~Above(k, k)
  BY <1>1, <1>2
<1>4. Above(k, l) => ~Above(l, k)
  <2> SUFFICES ASSUME Above(k, l), Above(l, k) PROVE FALSE
    OBVIOUS
  <2>1. PICK n \in 1 .. N : k[n] > l[n] /\ \A m \in 1 .. n - 1 : k[m] = l[m]
    BY <1>1
  <2>2. PICK p \in 1 .. N : l[p] > k[p] /\ \A m \in 1 .. p - 1 : l[m] = k[m]
    BY <1>1
  <2>3. n < p \/ p < n \/ n = p
    BY <1>2
  <2>4. CASE n < p
    <3>1. n \in 1 .. p - 1
      BY <2>4
    <3> QED BY <1>2, <2>1, <2>2, <3>1
  <2>5. CASE p < n
    <3>1. p \in 1 .. n - 1
      BY <2>5
    <3> QED BY <1>2, <2>1, <2>2, <3>1
  <2>6. CASE n = p
    BY <1>2, <2>1, <2>2, <2>6
  <2> QED BY <2>3, <2>4, <2>5, <2>6
<1>5. Above(k, l) /\ Above(l, j) => Above(k, j)
  <2> SUFFICES ASSUME Above(k, l), Above(l, j) PROVE Above(k, j)
    OBVIOUS
  <2>1. PICK n \in 1 .. N : k[n] > l[n] /\ \A m \in 1 .. n - 1 : k[m] = l[m]
    BY <1>1
  <2>2. PICK p \in 1 .. N : l[p] > j[p] /\ \A m \in 1 .. p - 1 : l[m] = j[m]
    BY <1>1
  <2>3. CASE n < p
    <3>1. n \in 1 .. p - 1 /\ \A m \in 1 .. n - 1 : m \in 1 .. p - 1
      BY <2>3
    <3>2. k[n] > j[n] /\ \A m \in 1 .. n - 1 : k[m] = j[m]
      BY <1>2, <2>1, <2>2, <3>1
    <3> QED BY <1>1, <3>2
  <2>4. CASE p <= n
    <3>1. \A m \in 1 .. p - 1 : m \in 1 .. n - 1
      BY <2>4
    <3>2. k[p] >= l[p]
      <4>1. p = n \/ p \in 1 .. n - 1
        BY <2>4
      <4> QED BY <1>2, <2>1, <4>1
    <3>3. k[p] > j[p]
      BY <1>2, <2>2, <3>2
    <3>4. \A m \in 1 .. p - 1 : k[m] = j[m]
      BY <2>1, <2>2, <3>1
    <3> QED BY <1>1, <3>3, <3>4
  <2> QED BY <1>2, <2>3, <2>4
<1>6. k[N] # l[N] => Above(k, l) \/ Above(l, k)
  <2> SUFFICES ASSUME k[N] # l[N] PROVE Above(k, l) \/ Above(l, k)
    OBVIOUS
  <2> DEFINE Differs(n) == n \in 1 .. N /\ k[n] # l[n] /\ \A m \in 1 .. n - 1 : k[m] = l[m]
  <2>1. \E n : Differs(n)
    <3>1. CASE N = 4
      <4>1. Differs(1) \/ Differs(2) \/ Differs(3) \/ Differs(4)
        BY <3>1
      <4> QED BY <4>1
    <3>2. CASE N = 5
      <4>1. Differs(1) \/ Differs(2) \/ Differs(3) \/ Differs(4) \/ Differs(5)
        BY <3>2
      <4> QED BY <4>1
    <3> QED BY <3>1, <3>2
  <2>2. PICK n : Differs(n)
    BY <2>1
  <2>3. k[n] > l[n] \/ l[n] > k[n]
    BY <1>2, <2>2
  <2> QED BY <1>1, <2>2, <2>3
<1> QED BY <1>3, <1>4, <1>5, <1>6

(* A finite set can be sorted by any strict and total order R.               *)
LEMMA FiniteSetsCanBeSorted ==
  ASSUME NEW S, IsFiniteSet(S), NEW R,
         \A s \in S : <<s, s>> \notin R,
         \A s, t, u \in S : <<s, t>> \in R /\ <<t, u>> \in R => <<s, u>> \in R,
         \A s, t \in S : s # t => <<s, t>> \in R \/ <<t, s>> \in R
  PROVE  \E o \in SetToSeqs(S) : \A m, n \in DOMAIN o : m < n => <<o[m], o[n]>> \in R
<1> DEFINE N == Cardinality(S)
           Ahead(s) == {t \in S : <<t, s>> \in R}
           Place(s) == Cardinality(Ahead(s))
           T == 0 .. N - 1
           f == [s \in S |-> Place(s)]
           o == [n \in 1 .. N |-> CHOOSE s \in S : Place(s) = n - 1]
<1>1. N \in Nat /\ \A s \in S : IsFiniteSet(Ahead(s)) /\ Place(s) \in Nat
  BY FS_Subset, FS_CardinalityType
<1>2. \A s \in S : Place(s) \in T
  <2> SUFFICES ASSUME NEW s \in S PROVE Place(s) \in T
    OBVIOUS
  <2>1. Ahead(s) \in SUBSET S /\ Ahead(s) # S
    OBVIOUS
  <2>2. Place(s) <= N /\ Place(s) # N
    BY <2>1, FS_Subset
  <2>3. Place(s) \in Nat
    BY <1>1
  <2> HIDE DEF N, Place
  <2> QED BY <1>1, <2>2, <2>3
<1>3. \A s, t \in S : <<s, t>> \in R => Place(s) < Place(t)
  <2> SUFFICES ASSUME NEW s \in S, NEW t \in S, <<s, t>> \in R PROVE Place(s) < Place(t)
    OBVIOUS
  <2>1. Ahead(s) \in SUBSET Ahead(t) /\ Ahead(s) # Ahead(t)
    OBVIOUS
  <2>2. IsFiniteSet(Ahead(t))
    BY <1>1
  <2> HIDE DEF Ahead
  <2>3. Place(s) <= Place(t) /\ Place(s) # Place(t)
    BY <2>1, <2>2, FS_Subset
  <2>4. Place(s) \in Nat /\ Place(t) \in Nat
    BY <1>1
  <2> HIDE DEF Place
  <2> QED BY <2>3, <2>4
<1> HIDE DEF Ahead, Place
<1>4. \A s, t \in S : s # t => Place(s) # Place(t)
  <2> SUFFICES ASSUME NEW s \in S, NEW t \in S, s # t PROVE Place(s) # Place(t)
    OBVIOUS
  <2>1. Place(s) \in Nat /\ Place(t) \in Nat
    BY <1>1
  <2>2. Place(s) < Place(t) \/ Place(t) < Place(s)
    BY <1>3
  <2> QED BY <2>1, <2>2
<1>5. \A n \in 1 .. N : \E s \in S : Place(s) = n - 1
  <2>1. IsFiniteSet(T) /\ Cardinality(T) = N
    <3> HIDE DEF N
    <3> QED BY <1>1, FS_Interval
  <2>2. f \in Injection(S, T)
    BY <1>2, <1>4 DEF Injection, IsInjective
  <2>3. f \in Surjection(S, T)
    <3> HIDE DEF f, T
    <3> QED BY <2>1, <2>2, FS_Injection
  <2>4. \A t \in T : \E s \in S : f[s] = t
    BY <2>3 DEF Surjection
  <2> SUFFICES ASSUME NEW n \in 1 .. N PROVE \E s \in S : Place(s) = n - 1
    OBVIOUS
  <2>5. n - 1 \in T
    BY <1>1
  <2>6. PICK s \in S : f[s] = n - 1
    BY <2>4, <2>5
  <2> QED BY <2>6
<1>6. \A n \in 1 .. N : o[n] \in S /\ Place(o[n]) = n - 1
  BY <1>5
<1>7. o \in [1 .. N -> S] /\ DOMAIN o = 1 .. N
  BY <1>6
<1> HIDE DEF o
<1>8. \A m, n \in 1 .. N : m # n => o[m] # o[n]
  BY <1>1, <1>6
<1>9. o \in SetToSeqs(S)
  BY <1>7, <1>8 DEF SetToSeqs
<1>10. \A m, n \in 1 .. N : m < n => <<o[m], o[n]>> \in R
  <2> SUFFICES ASSUME NEW m \in 1 .. N, NEW n \in 1 .. N, m < n, <<o[m], o[n]>> \notin R
               PROVE  FALSE
    OBVIOUS
  <2>1. o[m] \in S /\ o[n] \in S /\ o[m] # o[n] /\ Place(o[m]) = m - 1 /\ Place(o[n]) = n - 1
    BY <1>6, <1>8
  <2>2. <<o[n], o[m]>> \in R
    BY <2>1
  <2>3. Place(o[n]) < Place(o[m])
    BY <1>3, <2>1, <2>2
  <2> QED BY <1>1, <2>1, <2>3
<1> QED BY <1>7, <1>9, <1>10

(* Every arrangement of a finite set has all its members.                    *)
LEMMA ArrangementsAreComplete ==
  ASSUME NEW S, IsFiniteSet(S), NEW o \in SetToSeqs(S)
  PROVE  /\ Cardinality(S) \in Nat
         /\ o \in [1 .. Cardinality(S) -> S]
         /\ \A m, n \in 1 .. Cardinality(S) : m # n => o[m] # o[n]
         /\ \A s \in S : \E n \in 1 .. Cardinality(S) : o[n] = s
<1> DEFINE D == 1 .. Cardinality(S)
<1>1. Cardinality(S) \in Nat
  BY FS_CardinalityType
<1>2. o \in [D -> S] /\ \A m, n \in D : m # n => o[m] # o[n]
  BY DEF SetToSeqs
<1>3. IsFiniteSet(D) /\ Cardinality(D) = Cardinality(S)
  BY <1>1, FS_Interval
<1>4. o \in Injection(D, S)
  BY <1>2 DEF Injection, IsInjective
<1>5. o \in Surjection(D, S)
  <2> HIDE DEF D
  <2> QED BY <1>3, <1>4, FS_Injection
<1>6. \A s \in S : \E n \in D : o[n] = s
  BY <1>5 DEF Surjection
<1> QED BY <1>1, <1>2, <1>6

(* What the database answers: all matching skills, each once, and those with *)
(* the higher keys first.                                                    *)
LEMMA OrderedIsRight ==
  ASSUME Database, NEW v, v.sort \in Sorts
  PROVE  LET o == Ordered(v)
         IN  /\ o \in Seq(Skills)
             /\ Len(o) = Cardinality(Matching(v))
             /\ \A n \in 1 .. Len(o) : o[n] \in Matching(v)
             /\ \A m, n \in 1 .. Len(o) : m # n => o[m] # o[n]
             /\ \A s \in Matching(v) : \E n \in 1 .. Len(o) : o[n] = s
             /\ \A m, n \in 1 .. Len(o) : m < n => Above(KeySql(o[m], v.sort), KeySql(o[n], v.sort))
<1> DEFINE M == Matching(v)
           Key(s) == KeySql(s, v.sort)
           N == KeyLength(v.sort)
           R == {p \in M \X M : Above(Key(p[1]), Key(p[2]))}
           o == Ordered(v)
<1>1. M \subseteq Skills /\ IsFiniteSet(M)
  BY SkillsAssumption, FS_Subset DEF Matching
<1>2. N \in {4, 5}
  BY DEF KeyLength
<1>3. \A s \in M : Key(s) \in [1 .. N -> Int] /\ Key(s)[N] = s
  BY <1>1, KeyType
<1>4. \A s, t \in M : <<s, t>> \in R <=> Above(Key(s), Key(t))
  OBVIOUS
<1>5. o = CHOOSE q \in SetToSeqs(M) : \A m, n \in DOMAIN q : m < n => Above(Key(q[m]), Key(q[n]))
  BY DEF Ordered
<1> HIDE DEF M, Key, N, R
<1>6. \A s \in M : <<s, s>> \notin R
  BY <1>2, <1>3, <1>4, AboveIsAnOrder
<1>7. \A s, t, u \in M : <<s, t>> \in R /\ <<t, u>> \in R => <<s, u>> \in R
  BY <1>2, <1>3, <1>4, AboveIsAnOrder
<1>8. \A s, t \in M : s # t => <<s, t>> \in R \/ <<t, s>> \in R
  <2> SUFFICES ASSUME NEW s \in M, NEW t \in M, s # t PROVE <<s, t>> \in R \/ <<t, s>> \in R
    OBVIOUS
  <2>1. Key(s) \in [1 .. N -> Int] /\ Key(t) \in [1 .. N -> Int] /\ Key(s)[N] # Key(t)[N]
    BY <1>3
  <2>2. Above(Key(s), Key(t)) \/ Above(Key(t), Key(s))
    BY <1>2, <2>1, AboveIsAnOrder
  <2> QED BY <1>4, <2>2
<1>9. PICK q \in SetToSeqs(M) : \A m, n \in DOMAIN q : m < n => <<q[m], q[n]>> \in R
  BY <1>1, <1>6, <1>7, <1>8, FiniteSetsCanBeSorted
<1>10. q \in [1 .. Cardinality(M) -> M]
  BY <1>1, ArrangementsAreComplete
<1>11. \A m, n \in DOMAIN q : m < n => Above(Key(q[m]), Key(q[n]))
  BY <1>4, <1>9, <1>10
<1>12. o \in SetToSeqs(M) /\ \A m, n \in DOMAIN o : m < n => Above(Key(o[m]), Key(o[n]))
  BY <1>5, <1>11
<1> HIDE DEF o
<1>13. /\ Cardinality(M) \in Nat
       /\ o \in [1 .. Cardinality(M) -> M]
       /\ \A m, n \in 1 .. Cardinality(M) : m # n => o[m] # o[n]
       /\ \A s \in M : \E n \in 1 .. Cardinality(M) : o[n] = s
  BY <1>1, <1>12, ArrangementsAreComplete
<1>14. o \in Seq(Skills) /\ Len(o) = Cardinality(M)
  BY <1>1, <1>13
<1>15. /\ \A n \in 1 .. Len(o) : o[n] \in M
       /\ \A m, n \in 1 .. Len(o) : m # n => o[m] # o[n]
       /\ \A s \in M : \E n \in 1 .. Len(o) : o[n] = s
       /\ \A m, n \in 1 .. Len(o) : m < n => Above(Key(o[m]), Key(o[n]))
  BY <1>12, <1>13, <1>14
<1> QED BY <1>14, <1>15 DEF o, M, Key

-----------------------------------------------------------------------------
(* The reader: types *)

LEMMA SortIsKnown == ASSUME TypeOK PROVE view.sort \in Sorts
BY ViewsAssumption DEF TypeOK, NoView, Sorts

LEMMA DatabaseIsTyped == ASSUME TypeOK PROVE Database
BY DEF TypeOK, Database

LEMMA PreviousType ==
  ASSUME NEW s, fetches[s] \in Seq(Count)
  PROVE  Previous(s) \in Count
<1> DEFINE f == fetches[s]
           known == {n \in 1 .. Len(f) - 1 : f[n] # Unknown}
<1>1. Previous(s) = IF known = {} THEN Unknown ELSE f[Max(known)]
  BY DEF Previous
<1>2. f \in Seq(Count)
  OBVIOUS
<1> HIDE DEF f
<1>3. known # {} => f[Max(known)] \in Count
  <2> SUFFICES ASSUME known # {} PROVE f[Max(known)] \in Count
    OBVIOUS
  <2>1. Len(f) \in Nat /\ known \subseteq 1 .. Len(f) - 1
    BY <1>2
  <2>2. IsFiniteSet(known) /\ known \subseteq Int
    <3>1. IsFiniteSet(1 .. Len(f) - 1)
      BY <2>1, FS_Interval
    <3>2. IsFiniteSet(known)
      BY <2>1, <3>1, FS_Subset
    <3> QED BY <2>1, <3>2
  <2>3. \E x \in known : \A y \in known : x >= y
    <3> HIDE DEF known
    <3> QED BY <2>1, <2>2, GreatestExists
  <2>4. Max(known) \in known
    <3> HIDE DEF known
    <3> QED BY <2>3 DEF Max
  <2>5. Max(known) \in 1 .. Len(f)
    <3> DEFINE m == Max(known)
    <3>1. m \in 1 .. Len(f) - 1
      BY <2>4
    <3> HIDE DEF m, known
    <3>2. m \in 1 .. Len(f)
      BY <2>1, <3>1
    <3> QED BY <3>2 DEF m
  <2> QED BY <1>2, <2>5
<1> QED BY <1>1, <1>3 DEF Count

LEMMA ShownType ==
  ASSUME Database, NEW row \in Row
  PROVE  Shown(row) \in Item
<1> DEFINE previous == Previous(row.skill)
           impact   == ImpactScore(row.current, previous)
           priority == PriorityScore(row.snapshot.report, impact)
           delta    == InstallDelta(row.current, previous)
<1>1. row.skill \in Skills /\ row.current \in Count /\ row.snapshot \in Snapshot /\ row.snapshot.report \in Report
  BY DEF Row, Snapshot
<1>2. previous \in Count
  BY <1>1, PreviousType DEF Database
<1> HIDE DEF previous
<1>3. impact \in 0 .. 100
  BY <1>1, <1>2, ImpactsAgree
<1> HIDE DEF impact
<1>4. priority \in 0 .. 100
  BY <1>1, <1>3, PrioritiesAgree
<1>5. delta \in Int \cup {Unknown}
  BY <1>1, <1>2, DeltaType
<1>6. Shown(row) = [skill |-> row.skill, current |-> row.current, delta |-> delta, impact |-> impact,
                    priority |-> priority, snapshot |-> row.snapshot]
  BY DEF Shown, delta, priority, impact, previous
<1> HIDE DEF priority, delta
<1> QED BY <1>1, <1>3, <1>4, <1>5, <1>6 DEF Item

LEMMA ColumnsType ==
  ASSUME Database, NEW s \in Skills
  PROVE  Columns(s) \in Row
<1>1. Current(s) \in Count /\ latest[s] \in Snapshot
  BY CurrentType DEF Database
<1> QED BY <1>1 DEF Columns, Row

(* A page of an answer o. *)
Slice(o) == [n \in 1 .. Least(PageSize, Greatest(0, Len(o) - Offset)) |-> Columns(o[Offset + n])]

LEMMA SliceType ==
  ASSUME Database, page \in Nat, NEW o \in Seq(Skills)
  PROVE  /\ Offset \in Nat
         /\ Slice(o) \in Seq(Row)
         /\ Len(Slice(o)) = Least(PageSize, Greatest(0, Len(o) - Offset))
         /\ \A n \in 1 .. Len(Slice(o)) : Offset + n \in 1 .. Len(o) /\ Slice(o)[n] = Columns(o[Offset + n])
<1> DEFINE k == Least(PageSize, Greatest(0, Len(o) - Offset))
<1>1. Offset \in Nat
  BY BoundsAssumption DEF Offset
<1>2. Len(o) \in Nat /\ PageSize \in Nat
  BY BoundsAssumption
<1> HIDE DEF Offset
<1>3. k \in Nat /\ \A n \in 1 .. k : Offset + n \in 1 .. Len(o)
  BY <1>1, <1>2 DEF Least, Greatest
<1>4. \A n \in 1 .. k : Columns(o[Offset + n]) \in Row
  <2> SUFFICES ASSUME NEW n \in 1 .. k PROVE Columns(o[Offset + n]) \in Row
    OBVIOUS
  <2>1. o[Offset + n] \in Skills
    BY <1>3
  <2> QED BY <2>1, ColumnsType
<1> HIDE DEF k
<1>5. Slice(o) = [n \in 1 .. k |-> Columns(o[Offset + n])]
  BY DEF Slice, k
<1>6. Slice(o) \in [1 .. k -> Row]
  BY <1>4, <1>5
<1>7. Slice(o) \in Seq(Row) /\ Len(Slice(o)) = k
  BY <1>3, <1>6
<1> QED BY <1>1, <1>3, <1>5, <1>7 DEF k

(* A history of fetches with a count put in among them.                      *)
LEMMA InsertedType ==
  ASSUME NEW h \in Seq(Count), NEW k \in 0 .. Len(h), NEW c \in Count
  PROVE  InsertAt(h, k + 1, c) \in Seq(Count)
<1> DEFINE a == SubSeq(h, 1, k)
           b == SubSeq(h, k + 1, Len(h))
<1>1. InsertAt(h, k + 1, c) = a \o <<c>> \o b
  <2>1. (k + 1) - 1 = k
    OBVIOUS
  <2>2. InsertAt(h, k + 1, c) = SubSeq(h, 1, (k + 1) - 1) \o <<c>> \o b
    BY DEF InsertAt
  <2> QED BY <2>1, <2>2
<1>2. a \in Seq(Count) /\ b \in Seq(Count) /\ <<c>> \in Seq(Count)
  OBVIOUS
<1> HIDE DEF a, b
<1>3. (a \o <<c>>) \in Seq(Count)
  BY <1>2
<1> DEFINE d == a \o <<c>>
<1> HIDE DEF d
<1>4. d \o b \in Seq(Count)
  <2>1. d \in Seq(Count)
    BY <1>3 DEF d
  <2> QED BY <1>2, <2>1
<1> QED BY <1>1, <1>4 DEF d

-----------------------------------------------------------------------------
(* The reader: what it has seen *)

(* Between walks the reader has nothing in hand.                             *)
Idle == rpc = "idle" => page = 0 /\ items = <<>>

(* As long as its statements have found one order, what it has been shown is *)
(* where that order begins, full pages of it until the last; its count is    *)
(* that of the order, and the page in hand is the next one.                  *)
Placed ==
  settled /\ rpc # "idle" =>
    /\ Len(items) <= Len(order)
    /\ \A n \in 1 .. Len(items) : items[n].skill = order[n]
    /\ rpc # "done" => Len(items) = Offset
    /\ rpc \in {"rows", "observations"} => total = Len(order)
    /\ rpc = "observations" =>
         /\ Len(rows) = Least(PageSize, Greatest(0, Len(order) - Offset))
         /\ \A n \in 1 .. Len(rows) : rows[n].skill = order[Offset + n]
    /\ rpc = "done" => Len(items) = Len(order)

(* As long as nothing is written the order is the one there is, and all that *)
(* it has been shown is as it is now.                                        *)
Fresh ==
  steady =>
    /\ settled /\ rpc # "idle"
    /\ order = Ordered(view)
    /\ \A n \in 1 .. Len(items) : items[n] = Shown(Columns(items[n].skill))
    /\ rpc = "observations" => \A n \in 1 .. Len(rows) : rows[n] = Columns(rows[n].skill)

WalkInv == TypeOK /\ Idle /\ Placed /\ Fresh

LEMMA WalkInit == Init => WalkInv
<1> SUFFICES ASSUME Init PROVE WalkInv
  OBVIOUS
<1>1. None \in Snapshot
  BY DEF None, Snapshot, Report, Severities
<1>2. TypeOK
  <2>1. Database
    BY <1>1 DEF Init, Database, Count
  <2>2. rows \in Seq(Row) /\ items \in Seq(Item) /\ order \in Seq(Skills) /\ Len(rows) = 0
    BY DEF Init
  <2>3. ids \in Nat /\ writes \in 0 .. MaxWrites /\ page \in Nat /\ total \in Nat /\ 0 <= PageSize
    BY BoundsAssumption DEF Init
  <2>4. /\ rpc = "idle" /\ view = NoView /\ steady = FALSE /\ settled = FALSE
    BY DEF Init
  <2> QED BY <2>1, <2>2, <2>3, <2>4 DEF TypeOK, Database
<1>3. Idle /\ Placed /\ Fresh
  BY DEF Init, Idle, Placed, Fresh
<1> QED BY <1>2, <1>3 DEF WalkInv

(* What is computed from the database stays the same while it does.          *)
LEMMA DatabaseIsStill ==
  ASSUME UNCHANGED database
  PROVE  /\ \A v : Ordered(v)' = Ordered(v)
         /\ \A s : Columns(s)' = Columns(s)
         /\ \A row : Shown(row)' = Shown(row)
<1>1. entry' = entry /\ weekly' = weekly /\ fetches' = fetches /\ latest' = latest
  BY DEF database
<1>2. \A s : Current(s)' = Current(s) /\ PreviousSql(s)' = PreviousSql(s) /\ Previous(s)' = Previous(s)
  BY <1>1 DEF Current, PreviousSql, Previous
<1>3. \A s, sort : KeySql(s, sort)' = KeySql(s, sort)
  BY <1>1, <1>2 DEF KeySql
<1>4. \A v : Matching(v)' = Matching(v)
  BY <1>1, <1>2 DEF Matching
<1>5. \A v : Ordered(v)' = Ordered(v)
  BY <1>3, <1>4 DEF Ordered
<1> QED BY <1>1, <1>2, <1>5 DEF Columns, Shown

-----------------------------------------------------------------------------
(* The writers leave the reader and what it has seen alone *)

LEMMA WriteKeeps ==
  ASSUME WalkInv, Write
  PROVE  Idle' /\ Placed' /\ Fresh'
<1>1. UNCHANGED <<rpc, view, page, total, rows, items, order, settled>> /\ steady' = FALSE
  BY DEF Write, reader
<1> QED BY <1>1 DEF WalkInv, Idle, Placed, Fresh, Offset

LEMMA WriteTypes ==
  ASSUME TypeOK, Write, Database', ids' \in Nat
  PROVE  TypeOK'
<1>1. UNCHANGED <<rpc, view, page, total, rows, items, order, settled>> /\ steady' = FALSE
  BY DEF Write, reader
<1>2. writes' \in 0 .. MaxWrites
  BY BoundsAssumption DEF TypeOK, Write
<1> QED BY <1>1, <1>2 DEF TypeOK, Database

LEMMA FetchStep ==
  ASSUME WalkInv, NEW s \in Skills, NEW found \in Listings, NEW k \in 0 .. Len(fetches[s]), Fetch(s, found, k)
  PROVE  WalkInv'
<1>1. TypeOK /\ Write
  BY DEF WalkInv, Fetch
<1>2. found \in [Sources -> Count \cup {NotListed}]
  BY ListingsAssumption DEF Count
<1>3. entry' \in [Skills -> [Sources -> Count \cup {NotListed}]]
  <2> DEFINE new == [r \in Sources |-> IF found[r] = NotListed THEN entry[s][r] ELSE found[r]]
  <2>1. new \in [Sources -> Count \cup {NotListed}]
    BY <1>1, <1>2 DEF TypeOK
  <2>2. entry' = [entry EXCEPT ![s] = new]
    BY DEF Fetch
  <2> HIDE DEF new
  <2> QED BY <1>1, <2>1, <2>2 DEF TypeOK
<1>4. fetches' \in [Skills -> Seq(Count)]
  <2> DEFINE h == InsertAt(fetches[s], k + 1, SumOfKnown(found))
  <2>1. fetches[s] \in Seq(Count)
    BY <1>1 DEF TypeOK
  <2>2. h \in Seq(Count)
    BY <1>2, <2>1, SumOfKnownType, InsertedType
  <2>3. fetches' = [fetches EXCEPT ![s] = h]
    BY DEF Fetch
  <2> HIDE DEF h
  <2> QED BY <1>1, <2>2, <2>3 DEF TypeOK
<1>5. weekly' \in [Skills -> Count]
  <2>1. PICK r \in Sources : /\ found[r] # NotListed
                             /\ weekly' = IF k = Len(fetches[s]) THEN [weekly EXCEPT ![s] = found[r]] ELSE weekly
    BY DEF Fetch
  <2>2. found[r] \in Count
    BY <1>2, <2>1
  <2> QED BY <1>1, <2>1, <2>2 DEF TypeOK
<1>6. latest' = latest /\ ids' = ids
  BY DEF Fetch
<1>7. Database' /\ ids' \in Nat
  BY <1>1, <1>3, <1>4, <1>5, <1>6 DEF Database, TypeOK
<1> QED BY <1>1, <1>7, WriteTypes, WriteKeeps DEF WalkInv

LEMMA ScanStep ==
  ASSUME WalkInv, NEW s \in Skills, NEW evidence \in Evidence, Scan(s, evidence)
  PROVE  WalkInv'
<1>1. TypeOK /\ Write
  BY DEF WalkInv, Scan
<1>2. RiskReport(evidence) \in Report
  BY EvidenceAssumption, ReportIsWellFormed
<1>3. ids' \in Nat
  BY <1>1 DEF Scan, TypeOK
<1>4. latest' \in [Skills -> Snapshot]
  <2> DEFINE new == [id |-> ids', report |-> RiskReport(evidence)]
  <2>1. new \in Snapshot
    BY <1>2, <1>3 DEF Snapshot
  <2>2. latest' = [latest EXCEPT ![s] = new]
    BY DEF Scan
  <2> HIDE DEF new
  <2> QED BY <1>1, <2>1, <2>2 DEF TypeOK
<1>5. UNCHANGED <<entry, weekly, fetches>>
  BY DEF Scan
<1>6. Database'
  BY <1>1, <1>4, <1>5 DEF Database, TypeOK
<1> QED BY <1>1, <1>3, <1>6, WriteTypes, WriteKeeps DEF WalkInv

-----------------------------------------------------------------------------
(* The steps of the reader *)

LEMMA BeginStep ==
  ASSUME WalkInv, NEW v \in Views, Begin(v)
  PROVE  WalkInv'
<1>1. TypeOK /\ Database /\ v.sort \in Sorts
  BY DatabaseIsTyped, ViewsAssumption DEF WalkInv
<1>2. /\ rpc = "idle" /\ rpc' = "count" /\ view' = v /\ steady' = TRUE /\ order' = Ordered(v) /\ settled' = TRUE
      /\ UNCHANGED database /\ UNCHANGED <<page, total, rows, items>>
  BY DEF Begin
<1>3. order' \in Seq(Skills)
  BY <1>1, <1>2, OrderedIsRight
<1>4. TypeOK'
  BY <1>1, <1>2, <1>3 DEF TypeOK, database
<1>5. page = 0 /\ items = <<>>
  BY <1>2 DEF WalkInv, Idle
<1>6. Idle'
  BY <1>2 DEF Idle
<1>7. Placed'
  <2>1. Len(order') \in Nat
    BY <1>3
  <2>2. Len(items') = 0 /\ Offset' = 0
    BY <1>2, <1>5, BoundsAssumption DEF Offset
  <2> QED BY <1>2, <2>1, <2>2 DEF Placed
<1>8. Fresh'
  <2>1. order' = Ordered(view)'
    <3>1. \A w : Ordered(w)' = Ordered(w)
      BY <1>2, DatabaseIsStill
    <3>2. Ordered(view)' = Ordered(v)'
      BY <1>2 DEF Ordered, Matching
    <3> QED BY <1>2, <3>1, <3>2
  <2>2. Len(items') = 0
    BY <1>2, <1>5
  <2> QED BY <1>2, <2>1, <2>2 DEF Fresh
<1> QED BY <1>4, <1>6, <1>7, <1>8 DEF WalkInv

(* A statement of a reader whose order is the one there is finds it.         *)
LEMMA LookKeeps ==
  ASSUME WalkInv, Look
  PROVE  /\ UNCHANGED <<steady, order>>
         /\ settled' \in BOOLEAN
         /\ settled' => settled /\ order = Ordered(view)
         /\ steady' => settled'
BY DEF WalkInv, Fresh, TypeOK, Look

LEMMA CountRowsStep == ASSUME WalkInv, CountRows PROVE WalkInv'
<1>1. TypeOK /\ Database /\ view.sort \in Sorts
  BY DatabaseIsTyped, SortIsKnown DEF WalkInv
<1>2. /\ rpc = "count" /\ rpc' = "rows" /\ total' = Cardinality(Matching(view))
      /\ UNCHANGED database /\ UNCHANGED <<view, page, rows, items>>
  BY DEF CountRows
<1>3. /\ UNCHANGED <<steady, order>> /\ settled' \in BOOLEAN
      /\ settled' => settled /\ order = Ordered(view)
      /\ steady' => settled'
  BY LookKeeps DEF CountRows
<1>4. Len(Ordered(view)) = total' /\ total' \in Nat
  <2>1. Ordered(view) \in Seq(Skills) /\ Len(Ordered(view)) = Cardinality(Matching(view))
    BY <1>1, OrderedIsRight
  <2> QED BY <1>2, <2>1
<1>5. TypeOK'
  BY <1>1, <1>2, <1>3, <1>4 DEF TypeOK, database
<1>6. Idle'
  BY <1>2 DEF Idle
<1>7. Placed'
  <2> SUFFICES ASSUME settled' PROVE Placed'
    BY DEF Placed
  <2>1. settled /\ order' = order /\ total' = Len(order)
    BY <1>3, <1>4
  <2> QED BY <1>2, <2>1 DEF WalkInv, Placed, Offset
<1>8. Fresh'
  <2> SUFFICES ASSUME steady' PROVE Fresh'
    BY DEF Fresh
  <2>1. steady /\ settled' /\ order' = order
    BY <1>3
  <2>2. order' = Ordered(view)'
    <3>1. Ordered(view)' = Ordered(view)
      BY <1>2, DatabaseIsStill
    <3> QED BY <2>1, <3>1 DEF WalkInv, Fresh
  <2>3. \A n \in 1 .. Len(items') : items'[n] = Shown(Columns(items[n].skill))'
    BY <1>2, <2>1, DatabaseIsStill DEF WalkInv, Fresh
  <2> QED BY <1>2, <2>1, <2>2, <2>3 DEF Fresh
<1> QED BY <1>5, <1>6, <1>7, <1>8 DEF WalkInv


LEMMA FetchRowsStep == ASSUME WalkInv, FetchRows PROVE WalkInv'
<1>1. TypeOK /\ Database /\ view.sort \in Sorts
  BY DatabaseIsTyped, SortIsKnown DEF WalkInv
<1> DEFINE o == Ordered(view)
<1>2. /\ rpc = "rows" /\ rpc' = "observations" /\ rows' = Slice(o)
      /\ UNCHANGED database /\ UNCHANGED <<view, page, total, items>>
  BY DEF FetchRows, Slice
<1>3. /\ UNCHANGED <<steady, order>> /\ settled' \in BOOLEAN
      /\ settled' => settled /\ order = o
      /\ steady' => settled'
  BY LookKeeps DEF FetchRows
<1>4. /\ o \in Seq(Skills) /\ page \in Nat
  BY <1>1, OrderedIsRight DEF TypeOK
<1> HIDE DEF o
<1>5. /\ Offset \in Nat
      /\ Slice(o) \in Seq(Row)
      /\ Len(Slice(o)) = Least(PageSize, Greatest(0, Len(o) - Offset))
      /\ \A n \in 1 .. Len(Slice(o)) : Offset + n \in 1 .. Len(o) /\ Slice(o)[n] = Columns(o[Offset + n])
  BY <1>1, <1>4, SliceType
<1>6. Len(rows') <= PageSize
  <2>1. Len(o) \in Nat
    BY <1>4
  <2> HIDE DEF Offset
  <2> QED BY <1>2, <1>5, <2>1, BoundsAssumption DEF Least, Greatest
<1>7. TypeOK'
  BY <1>1, <1>2, <1>3, <1>5, <1>6 DEF TypeOK, database
<1>8. Idle'
  BY <1>2 DEF Idle
<1>9. Offset' = Offset /\ \A s : Columns(s).skill = s
  BY <1>2 DEF Offset, Columns
<1>10. Placed'
  <2> SUFFICES ASSUME settled' PROVE Placed'
    BY DEF Placed
  <2>1. settled /\ order' = order /\ order = o
    BY <1>3
  <2>2. /\ Len(rows') = Least(PageSize, Greatest(0, Len(order') - Offset'))
        /\ \A n \in 1 .. Len(rows') : rows'[n].skill = order'[Offset' + n]
    BY <1>2, <1>5, <1>9, <2>1
  <2> QED BY <1>2, <1>9, <2>1, <2>2 DEF WalkInv, Placed
<1>11. Fresh'
  <2> SUFFICES ASSUME steady' PROVE Fresh'
    BY DEF Fresh
  <2>1. steady /\ settled' /\ order' = order
    BY <1>3
  <2>2. order' = Ordered(view)'
    <3>1. Ordered(view)' = Ordered(view)
      BY <1>2, DatabaseIsStill
    <3> QED BY <2>1, <3>1 DEF WalkInv, Fresh
  <2>3. \A n \in 1 .. Len(items') : items'[n] = Shown(Columns(items[n].skill))'
    BY <1>2, <2>1, DatabaseIsStill DEF WalkInv, Fresh
  <2>4. \A n \in 1 .. Len(rows') : rows'[n] = Columns(rows[n].skill)'
    <3> SUFFICES ASSUME NEW n \in 1 .. Len(rows') PROVE rows'[n] = Columns(rows[n].skill)'
      OBVIOUS
    <3>1. rows'[n] = Columns(rows'[n].skill)
      BY <1>2, <1>5, <1>9
    <3>2. entry' = entry /\ weekly' = weekly /\ latest' = latest
      BY <1>2 DEF database
    <3> QED BY <3>1, <3>2 DEF Columns, Current
  <2> QED BY <1>2, <2>1, <2>2, <2>3, <2>4 DEF Fresh
<1> QED BY <1>7, <1>8, <1>10, <1>11 DEF WalkInv

LEMMA ShowPageStep == ASSUME WalkInv, ShowPage PROVE WalkInv'
<1> DEFINE more == HasNext /\ rows # <<>>
           new  == [n \in DOMAIN rows |-> Shown(rows[n])]
<1>1. TypeOK /\ Database
  BY DatabaseIsTyped DEF WalkInv
<1>2. /\ rpc = "observations" /\ items' = items \o new
      /\ rpc' = (IF more THEN "count" ELSE "done")
      /\ page' = (IF more THEN page + 1 ELSE page)
      /\ rows' = <<>> /\ total' = 0
      /\ UNCHANGED database /\ UNCHANGED <<view, steady, order, settled>>
  BY DEF ShowPage
<1>3. rows \in Seq(Row) /\ items \in Seq(Item) /\ page \in Nat /\ order \in Seq(Skills)
  BY <1>1 DEF TypeOK
<1>4. /\ new \in Seq(Item) /\ Len(new) = Len(rows)
      /\ \A n \in 1 .. Len(rows) : new[n] = Shown(rows[n])
  <2>1. \A n \in 1 .. Len(rows) : Shown(rows[n]) \in Item
    BY <1>1, <1>3, ShownType
  <2>2. DOMAIN rows = 1 .. Len(rows) /\ Len(rows) \in Nat
    BY <1>3
  <2>3. new = [n \in 1 .. Len(rows) |-> Shown(rows[n])]
    BY <2>2
  <2>4. new \in [1 .. Len(rows) -> Item]
    BY <2>1, <2>3
  <2>5. \A n \in 1 .. Len(rows) : new[n] = Shown(rows[n])
    BY <2>3
  <2> HIDE DEF new
  <2> QED BY <2>2, <2>4, <2>5
<1> HIDE DEF new
<1>5. /\ items' \in Seq(Item) /\ Len(items') = Len(items) + Len(rows)
      /\ \A n \in 1 .. Len(items) : items'[n] = items[n]
      /\ \A n \in 1 .. Len(rows) : items'[Len(items) + n] = Shown(rows[n])
  <2> DEFINE q == items \o new
  <2>1. q \in Seq(Item) /\ Len(q) = Len(items) + Len(new)
    BY <1>3, <1>4, ConcatProperties
  <2>2. \A n \in 1 .. Len(items) : q[n] = items[n]
    BY <1>3, <1>4
  <2>3. \A n \in 1 .. Len(new) : q[Len(items) + n] = new[n]
    BY <1>3, <1>4
  <2>4. items' = q
    BY <1>2
  <2> HIDE DEF q
  <2> QED BY <1>4, <2>1, <2>2, <2>3, <2>4
<1>6. /\ Len(items) \in Nat /\ Len(rows) \in Nat /\ Len(order) \in Nat
      /\ \A n \in 1 .. Len(items') : n \in 1 .. Len(items) \/ \E m \in 1 .. Len(rows) : n = Len(items) + m
  <2>1. Len(items) \in Nat /\ Len(rows) \in Nat /\ Len(order) \in Nat
    BY <1>3
  <2>2. ASSUME NEW n \in 1 .. Len(items'), n \notin 1 .. Len(items)
        PROVE  \E m \in 1 .. Len(rows) : n = Len(items) + m
    <3>1. n - Len(items) \in 1 .. Len(rows) /\ n = Len(items) + (n - Len(items))
      BY <1>5, <2>1, <2>2
    <3> QED BY <3>1
  <2> QED BY <2>1, <2>2
<1>7. TypeOK'
  <2>1. page' \in Nat /\ total' \in Nat /\ rows' \in Seq(Row) /\ Len(rows') = 0 /\ 0 <= PageSize
    BY <1>2, <1>3, BoundsAssumption
  <2>2. rpc' \in {"idle", "count", "rows", "observations", "done"}
    BY <1>2
  <2> QED BY <1>1, <1>2, <1>5, <2>1, <2>2 DEF TypeOK, database
<1>8. Idle'
  BY <1>2 DEF Idle
<1>9. Placed'
  <2> SUFFICES ASSUME settled PROVE Placed'
    BY <1>2 DEF Placed
  <2>1. /\ \A n \in 1 .. Len(items) : items[n].skill = order[n]
        /\ Len(items) = Offset /\ total = Len(order) /\ Len(items) <= Len(order)
        /\ Len(rows) = Least(PageSize, Greatest(0, Len(order) - Offset))
        /\ \A n \in 1 .. Len(rows) : rows[n].skill = order[Offset + n]
    BY <1>2 DEF WalkInv, Placed
  <2>2. \A n \in 1 .. Len(rows) : Shown(rows[n]).skill = rows[n].skill
    BY DEF Shown
  <2>3. \A n \in 1 .. Len(items') : items'[n].skill = order[n]
    <3> SUFFICES ASSUME NEW n \in 1 .. Len(items') PROVE items'[n].skill = order[n]
      OBVIOUS
    <3>1. CASE n \in 1 .. Len(items)
      BY <1>5, <2>1, <3>1
    <3>2. CASE \E m \in 1 .. Len(rows) : n = Len(items) + m
      BY <1>5, <2>1, <2>2, <3>2
    <3> QED BY <1>6, <3>1, <3>2
  <2>4. Offset \in Nat /\ PageSize \in Nat
    BY <1>3, BoundsAssumption DEF Offset
  <2>5. Len(items') <= Len(order)
    <3> HIDE DEF Offset
    <3> QED BY <1>5, <1>6, <2>1, <2>4 DEF Least, Greatest
  <2>6. more => Len(rows) = PageSize
    <3>1. more => Offset + Len(rows) < total
      BY DEF HasNext
    <3> HIDE DEF more, Offset
    <3> QED BY <1>6, <2>1, <2>4, <3>1 DEF Least, Greatest
  <2>7. more => Offset' = Offset + PageSize
    <3> SUFFICES ASSUME more PROVE Offset' = Offset + PageSize
      OBVIOUS
    <3>1. page' = page + 1
      BY <1>2
    <3>2. (page + 1) * PageSize = page * PageSize + PageSize
      BY <1>3, BoundsAssumption
    <3> QED BY <3>1, <3>2 DEF Offset
  <2>8. more => Len(items') = Offset'
    <3> HIDE DEF more, Offset
    <3> QED BY <1>5, <2>1, <2>6, <2>7
  <2>9. ~more => Len(items') = Len(order)
    <3>1. ~more => ~(Offset + Len(rows) < total) \/ Len(rows) = 0
      BY DEF HasNext
    <3> HIDE DEF more, Offset
    <3> QED BY <1>5, <1>6, <2>1, <2>4, <3>1, BoundsAssumption DEF Least, Greatest
  <2>10. CASE more
    BY <1>2, <2>3, <2>5, <2>8, <2>10 DEF Placed
  <2>11. CASE ~more
    BY <1>2, <2>3, <2>5, <2>9, <2>11 DEF Placed
  <2> QED BY <2>10, <2>11
<1>10. Fresh'
  <2> SUFFICES ASSUME steady PROVE Fresh'
    BY <1>2 DEF Fresh
  <2>1. settled' /\ order' = order /\ rpc' \notin {"idle", "observations"}
    BY <1>2 DEF WalkInv, Fresh
  <2>2. order' = Ordered(view)'
    <3>1. Ordered(view)' = Ordered(view)
      BY <1>2, DatabaseIsStill
    <3> QED BY <2>1, <3>1 DEF WalkInv, Fresh
  <2>3. \A n \in 1 .. Len(items') : items'[n] = Shown(Columns(items'[n].skill))
    <3>1. /\ \A n \in 1 .. Len(items) : items[n] = Shown(Columns(items[n].skill))
          /\ \A n \in 1 .. Len(rows) : rows[n] = Columns(rows[n].skill)
      BY <1>2 DEF WalkInv, Fresh
    <3>2. \A n \in 1 .. Len(rows) : Shown(rows[n]).skill = rows[n].skill
      BY DEF Shown
    <3> SUFFICES ASSUME NEW n \in 1 .. Len(items') PROVE items'[n] = Shown(Columns(items'[n].skill))
      OBVIOUS
    <3>3. CASE n \in 1 .. Len(items)
      BY <1>5, <3>1, <3>3
    <3>4. CASE \E m \in 1 .. Len(rows) : n = Len(items) + m
      <4>1. PICK m \in 1 .. Len(rows) : n = Len(items) + m
        BY <3>4
      <4>2. items'[n] = Shown(rows[m]) /\ items'[n].skill = rows[m].skill
        BY <1>5, <3>2, <4>1
      <4> QED BY <3>1, <4>2
    <3> QED BY <1>6, <3>3, <3>4
  <2>4. \A n \in 1 .. Len(items') : items'[n] = Shown(Columns(items[n].skill))'
    <3> SUFFICES ASSUME NEW n \in 1 .. Len(items')
                 PROVE  items'[n] = Shown(Columns(items[n].skill))'
      OBVIOUS
    <3>1. items'[n] = Shown(Columns(items'[n].skill))
      BY <2>3
    <3>2. entry' = entry /\ weekly' = weekly /\ latest' = latest /\ fetches' = fetches
      BY <1>2 DEF database
    <3> QED BY <3>1, <3>2, ZenonT(30) DEF Shown, Columns, Current, Previous
  <2> QED BY <2>1, <2>2, <2>4 DEF Fresh
<1> QED BY <1>7, <1>8, <1>9, <1>10 DEF WalkInv

LEMMA LeaveStep == ASSUME WalkInv, Leave PROVE WalkInv'
<1>1. /\ rpc' = "idle" /\ view' = NoView /\ page' = 0 /\ items' = <<>> /\ steady' = FALSE
      /\ order' = <<>> /\ settled' = FALSE
      /\ UNCHANGED database /\ UNCHANGED <<total, rows>>
  BY DEF Leave
<1>2. items' \in Seq(Item) /\ order' \in Seq(Skills) /\ page' \in Nat
  BY <1>1
<1>3. TypeOK'
  BY <1>1, <1>2 DEF WalkInv, TypeOK, database
<1>4. Idle' /\ Placed' /\ Fresh'
  BY <1>1 DEF Idle, Placed, Fresh
<1> QED BY <1>3, <1>4 DEF WalkInv

LEMMA WalkStep == WalkInv /\ [Next]_vars => WalkInv'
<1> SUFFICES ASSUME WalkInv, [Next]_vars PROVE WalkInv'
  OBVIOUS
<1>1. ASSUME NEW s \in Skills, NEW found \in Listings, NEW k \in 0 .. Len(fetches[s]), Fetch(s, found, k)
      PROVE  WalkInv'
  BY <1>1, FetchStep
<1>2. ASSUME NEW s \in Skills, NEW evidence \in Evidence, Scan(s, evidence)
      PROVE  WalkInv'
  BY <1>2, ScanStep
<1>3. ASSUME NEW v \in Views, Begin(v) PROVE WalkInv'
  BY <1>3, BeginStep
<1>4. CASE CountRows
  BY <1>4, CountRowsStep
<1>5. CASE FetchRows
  BY <1>5, FetchRowsStep
<1>6. CASE ShowPage
  BY <1>6, ShowPageStep
<1>7. CASE Leave
  BY <1>7, LeaveStep
<1>8. CASE UNCHANGED vars
  <2>1. /\ UNCHANGED database /\ UNCHANGED <<rpc, view, page, total, rows, items, steady, order, settled>>
    BY <1>8 DEF vars, reader
  <2>2. TypeOK'
    BY <2>1 DEF WalkInv, TypeOK, database
  <2>3. Idle' /\ Placed'
    BY <2>1 DEF WalkInv, Idle, Placed, Offset
  <2>4. Fresh'
    <3>1. entry' = entry /\ weekly' = weekly /\ latest' = latest /\ fetches' = fetches
      BY <2>1 DEF database
    <3>2. Ordered(view)' = Ordered(view)
      BY <2>1, DatabaseIsStill
    <3>3. /\ \A n \in 1 .. Len(items) : Shown(Columns(items[n].skill))' = Shown(Columns(items[n].skill))
          /\ \A n \in 1 .. Len(rows) : Columns(rows[n].skill)' = Columns(rows[n].skill)
      BY <2>1, <3>1 DEF Shown, Columns, Current, Previous
    <3> QED BY <2>1, <3>2, <3>3 DEF WalkInv, Fresh
  <2> QED BY <2>2, <2>3, <2>4 DEF WalkInv
<1> QED BY <1>1, <1>2, <1>3, <1>4, <1>5, <1>6, <1>7, <1>8 DEF Next

-----------------------------------------------------------------------------
(* What a walk through the pages shows *)

LEMMA KeyShownType ==
  ASSUME NEW item \in Item, NEW sort \in Sorts
  PROVE  /\ KeyShown(item, sort) \in Seq(Int)
         /\ Len(KeyShown(item, sort)) = KeyLength(sort) - 1
<1> DEFINE current == Installs(item.current)
           risk    == item.snapshot.report.score
           growth  == Growth(item.delta)
           id      == item.snapshot.id
           p       == item.priority
<1>1. item.current \in Count /\ item.delta \in Int \cup {Unknown} /\ p \in Int /\ item.snapshot \in Snapshot
  BY DEF Item
<1>2. current \in Int /\ growth \in Int /\ p \in Int
  BY <1>1 DEF Installs, Growth, Count
<1>3. risk \in Int /\ id \in Int
  BY <1>1 DEF Snapshot, Report
<1>4. KeyShown(item, sort) =
        CASE sort = "priority" -> <<p, current, risk, id>>
          [] sort = "risk"     -> <<risk, p, id>>
          [] sort = "installs" -> <<current, p, id>>
          [] sort = "growth"   -> <<growth, current, id>>
  BY DEF KeyShown
<1> HIDE DEF current, risk, growth, id, p
<1>5. CASE sort = "priority"
  BY <1>2, <1>3, <1>4, <1>5 DEF KeyLength
<1>6. CASE sort = "risk"
  BY <1>2, <1>3, <1>4, <1>6 DEF KeyLength
<1>7. CASE sort = "installs"
  BY <1>2, <1>3, <1>4, <1>7 DEF KeyLength
<1>8. CASE sort = "growth"
  BY <1>2, <1>3, <1>4, <1>8 DEF KeyLength
<1> QED BY <1>5, <1>6, <1>7, <1>8 DEF Sorts

(* A key stays above another when both are made longer. *)
LEMMA LongerKeys ==
  ASSUME NEW k \in Seq(Int), NEW l \in Seq(Int), Len(k) = Len(l), NEW a \in Int, NEW b \in Int, Above(l, k)
  PROVE  Above(Append(l, b), Append(k, a))
<1>1. PICK n \in DOMAIN l : l[n] > k[n] /\ \A m \in 1 .. n - 1 : l[m] = k[m]
  BY DEF Above
<1>2. n \in 1 .. Len(l) /\ Len(l) \in Nat /\ n \in DOMAIN Append(l, b)
  OBVIOUS
<1>3. \A m \in 1 .. Len(l) : Append(l, b)[m] = l[m] /\ Append(k, a)[m] = k[m]
  OBVIOUS
<1>4. \A m \in 1 .. n - 1 : m \in 1 .. Len(l)
  BY <1>2
<1> QED BY <1>1, <1>2, <1>3, <1>4 DEF Above

(* Counts, scores and pages keep their types, whatever is fetched, found and *)
(* asked for.                                                                *)
THEOREM TypeCorrect == Spec => []TypeOK
<1>1. WalkInv => TypeOK
  BY DEF WalkInv
<1> QED BY <1>1, WalkInit, WalkStep, PTL DEF Spec

(* A reader who goes through the pages of list_skills_page while the         *)
(* database keeps its order is shown every skill that matches, each once, in *)
(* that order, however many skills there are, how long the pages are and     *)
(* what its filters; and what was written meanwhile, if anything, is all     *)
(* that can make the filters differ from what is shown.                      *)
THEOREM WalksAreComplete == Spec => []WalkIsComplete
<1>1. WalkInv => WalkIsComplete
  <2> SUFFICES ASSUME WalkInv, rpc = "done", settled PROVE WalkIsComplete
    BY DEF WalkIsComplete
  <2>1. TypeOK /\ Database /\ view.sort \in Sorts /\ items \in Seq(Item) /\ order \in Seq(Skills)
    BY DatabaseIsTyped, SortIsKnown DEF WalkInv, TypeOK
  <2>2. Len(items) = Len(order) /\ \A n \in 1 .. Len(items) : items[n].skill = order[n]
    BY DEF WalkInv, Placed
  <2>3. [n \in DOMAIN items |-> items[n].skill] = order
    BY <2>1, <2>2
  <2>4. ASSUME steady, NEW s \in Skills
        PROVE  LET item == Shown(Columns(s))
               IN item \in ToSet(items) <=> Admits(view, item.snapshot.report.severity, item.current)
    <3> DEFINE item == Shown(Columns(s))
    <3>1. /\ order = Ordered(view)
          /\ \A n \in 1 .. Len(items) : items[n] = Shown(Columns(items[n].skill))
      BY <2>4 DEF WalkInv, Fresh
    <3>2. /\ \A n \in 1 .. Len(order) : order[n] \in Matching(view)
          /\ \A t \in Matching(view) : \E n \in 1 .. Len(order) : order[n] = t
      BY <2>1, <3>1, OrderedIsRight
    <3>3. item.skill = s /\ item.snapshot = latest[s] /\ item.current = Current(s)
      BY DEF Shown, Columns
    <3>4. ToSet(items) = {items[n] : n \in 1 .. Len(items)}
      BY <2>1 DEF ToSet
    <3>5. item \in ToSet(items) <=> \E n \in 1 .. Len(order) : order[n] = s
      BY <2>2, <3>1, <3>3, <3>4
    <3>6. (\E n \in 1 .. Len(order) : order[n] = s) <=> s \in Matching(view)
      BY <3>2
    <3>7. s \in Matching(view) <=> Admits(view, latest[s].report.severity, Current(s))
      BY DEF Matching
    <3> QED BY <3>3, <3>5, <3>6, <3>7
  <2> QED BY <2>3, <2>4 DEF WalkIsComplete
<1> QED BY <1>1, WalkInit, WalkStep, PTL DEF Spec

(* What is shown on the way is in the order that was asked for, by the       *)
(* values that Python computes and shows (_sort_skill_listing), though the   *)
(* database has sorted by its own, unless a count is unknown in the fetch    *)
(* before the last alone.                                                    *)
THEOREM ShownAsAsked == Spec => []ShownInOrder
<1>1. WalkInv => ShownInOrder
  <2> SUFFICES ASSUME WalkInv, steady, \A s \in Skills : Telling(s),
                      NEW m \in DOMAIN items, NEW n \in DOMAIN items, m < n,
                      Above(KeyShown(items[n], view.sort), KeyShown(items[m], view.sort))
               PROVE  FALSE
    BY DEF ShownInOrder
  <2> DEFINE a == items[m].skill
             b == items[n].skill
             sort == view.sort
             N == KeyLength(sort)
  <2>1. TypeOK /\ Database /\ sort \in Sorts /\ items \in Seq(Item) /\ order \in Seq(Skills)
    BY DatabaseIsTyped, SortIsKnown DEF WalkInv, TypeOK
  <2>2. m \in 1 .. Len(items) /\ n \in 1 .. Len(items)
    BY <2>1
  <2>3. /\ settled /\ rpc # "idle" /\ order = Ordered(view)
        /\ items[m] = Shown(Columns(a)) /\ items[n] = Shown(Columns(b))
    BY <2>2 DEF WalkInv, Fresh
  <2>4. Len(items) <= Len(order) /\ a = order[m] /\ b = order[n]
    BY <2>2, <2>3 DEF WalkInv, Placed
  <2>5. m \in 1 .. Len(order) /\ n \in 1 .. Len(order)
    BY <2>1, <2>2, <2>4
  <2>6. a \in Skills /\ b \in Skills
    BY <2>1, <2>4, <2>5
  <2>7. Above(KeySql(a, sort), KeySql(b, sort))
    <3>1. \A i, j \in 1 .. Len(order) : i < j => Above(KeySql(order[i], sort), KeySql(order[j], sort))
      BY <2>1, <2>3, OrderedIsRight
    <3> QED BY <2>4, <2>5, <3>1
  <2> DEFINE k == KeyShown(items[m], sort)
             l == KeyShown(items[n], sort)
  <2>8. KeySql(a, sort) = Append(k, a) /\ KeySql(b, sort) = Append(l, b)
    <3>1. \A s \in {a, b} : fetches[s] \in Seq(Count) /\ latest[s] \in Snapshot /\ Current(s) \in Count
      BY <2>1, <2>6, CurrentType DEF Database
    <3>2. Telling(a) /\ Telling(b)
      BY <2>6
    <3> QED BY <2>1, <2>3, <2>6, <3>1, <3>2, KeysAgree
  <2>9. KeySql(a, sort) \in [1 .. N -> Int] /\ KeySql(b, sort) \in [1 .. N -> Int] /\ N \in {4, 5}
    BY <2>1, <2>6, KeyType DEF KeyLength
  <2>10. ~Above(KeySql(b, sort), KeySql(a, sort))
    BY <2>7, <2>9, AboveIsAnOrder
  <2>11. k \in Seq(Int) /\ l \in Seq(Int) /\ Len(k) = Len(l) /\ a \in Int /\ b \in Int
    <3>1. items[m] \in Item /\ items[n] \in Item
      BY <2>1, <2>2
    <3>2. k \in Seq(Int) /\ l \in Seq(Int) /\ Len(k) = Len(l)
      BY <2>1, <3>1, KeyShownType
    <3> HIDE DEF a, b, k, l
    <3>3. a \in Int /\ b \in Int
      BY <2>6, SkillsAssumption
    <3> QED BY <3>2, <3>3
  <2>12. Above(l, k)
    OBVIOUS
  <2> HIDE DEF a, b, k, l
  <2>13. Above(Append(l, b), Append(k, a))
    BY <2>11, <2>12, LongerKeys
  <2> QED BY <2>8, <2>10, <2>13
<1> QED BY <1>1, WalkInit, WalkStep, PTL DEF Spec
=============================================================================
