--------------------------- MODULE DecisionRules ---------------------------
(***************************************************************************)
(* What the five agents of FraudLiveSystem compute from a transaction:     *)
(* app/services/agent.py of agent-context, agent-risk-ml, agent-policy,    *)
(* agent-llm-explainer and agent-aggregate, with the rulesets of           *)
(* agent-policy.                                                           *)
(*                                                                         *)
(* Numbers are exact: a risk score is a number of ten-thousandths, which   *)
(* is what round(risk_score, 4) leaves of it; an amount is a number of     *)
(* twos, each worth one ten-thousandth in amount / 20000; a merchant risk  *)
(* is a percentage.  A flag is 0 or 1.                                     *)
(***************************************************************************)
EXTENDS Integers

CONSTANT NoValue    (* None: a field that the client left out *)

Flag == 0..1
Tier == {"LOW", "MEDIUM", "HIGH"}
Action == {"ALLOW", "REVIEW", "BLOCK"}

\* Free-form metadata; whatever is not there has the default of the agents.
Metadata == [country : Tier \cup {NoValue}, merchant : Int \cup {NoValue},
             chargeback : Flag, newDevice : Flag, velocity : Flag,
             mismatch : Flag, trusted : Flag, age : Int]

\* A country stands for its tier, "known" for "known_device_ids lists it".
Transaction == [amount : Nat, country : Tier \cup {NoValue},
                merchant : 0..100 \cup {NoValue}, chargeback : Flag \cup {NoValue},
                known : Flag \cup {NoValue}, metadata : Metadata]

OrElse(x, default) == IF x = NoValue THEN default ELSE x
AtMost(x, bound) == IF x > bound THEN bound ELSE x
AtLeast(x, bound) == IF x < bound THEN bound ELSE x

-----------------------------------------------------------------------------
(***************************************************************************)
(* agent-context and agent-risk-ml.                                        *)
(***************************************************************************)
Context(t) ==
  [tier |-> OrElse(OrElse(t.country, t.metadata.country), "LOW"),
   newDevice |-> IF t.known = NoValue THEN t.metadata.newDevice ELSE 1 - t.known,
   velocity |-> t.metadata.velocity,
   mismatch |-> t.metadata.mismatch,
   trusted |-> t.metadata.trusted,
   age |-> t.metadata.age]

TierPoints(tier) == IF tier = "HIGH" THEN 1200 ELSE IF tier = "MEDIUM" THEN 600 ELSE 0
AgePoints(age) == IF age <= 7 THEN 500 ELSE IF age <= 30 THEN 200 ELSE 0

MerchantRisk(t) ==
  AtLeast(AtMost(OrElse(OrElse(t.merchant, t.metadata.merchant), 0), 100), 0)

Chargeback(t) == OrElse(t.chargeback, t.metadata.chargeback)

DefaultRiskScore == 4200

SignalScore(t, c) ==
  AtMost(t.amount, 2500) + 45 * MerchantRisk(t) + 2000 * Chargeback(t)
    + TierPoints(c.tier) + 1000 * c.newDevice + 800 * c.velocity + 800 * c.mismatch
    + 500 * (1 - c.trusted) + AgePoints(c.age)

Risk(t, c) ==
  [risk_score |-> AtLeast(AtMost(AtLeast(SignalScore(t, c), DefaultRiskScore), 9900), 100)]

-----------------------------------------------------------------------------
(***************************************************************************)
(* agent-policy.                                                           *)
(***************************************************************************)
Thresholds == {"block_risk", "review_risk", "review_amount", "merchant_review",
               "chargeback_amount", "geo_block_risk"}
Ruleset == [Thresholds -> Nat]

DefaultRuleset ==
  [block_risk |-> 9000, review_risk |-> 6000, review_amount |-> 2500,
   merchant_review |-> 75, chargeback_amount |-> 500, geo_block_risk |-> 8500]

\* load_ruleset: a threshold that the file does not name has its default.
LoadRuleset(file) ==
  [k \in Thresholds |-> IF k \in DOMAIN file THEN file[k] ELSE DefaultRuleset[k]]

\* The first rule that applies; the later ones ask for action == ALLOW.
FirstRule(rules, t, risk) ==
  IF risk >= rules["block_risk"] THEN "risk_score_block"
  ELSE IF risk >= rules["review_risk"] THEN "risk_score_review"
  ELSE IF t.amount >= rules["review_amount"] THEN "high_amount_review"
  ELSE IF OrElse(t.merchant, 0) >= rules["merchant_review"] THEN "merchant_risk_review"
  ELSE IF OrElse(t.chargeback, 0) = 1 /\ t.amount >= rules["chargeback_amount"]
       THEN "chargeback_amount_review"
  ELSE "none"

GeoDevice(c) == c.tier = "HIGH" /\ c.newDevice = 1

\* Mutant: the rule on country and device starts over from REVIEW.
PolicyGeoResets(rules, t, c, risk) ==
  LET first == FirstRule(rules, t, risk)
      block == GeoDevice(c) /\ risk >= rules["geo_block_risk"]
      review == GeoDevice(c) /\ ~ block
  IN [action |-> IF block \/ (first = "risk_score_block" /\ ~ review) THEN "BLOCK"
                 ELSE IF review \/ first # "none" THEN "REVIEW"
                 ELSE "ALLOW",
      violations |-> ({first} \ {"none"}) \cup
        IF block THEN {"high_risk_country_new_device_block"}
        ELSE IF review THEN {"high_risk_country_new_device_review"} ELSE {}]

Policy(rules, t, c, risk) ==
  LET first == FirstRule(rules, t, risk)
      block == GeoDevice(c) /\ risk >= rules["geo_block_risk"]
      review == GeoDevice(c) /\ ~ block /\ first # "risk_score_block"
  IN [action |-> IF block \/ first = "risk_score_block" THEN "BLOCK"
                 ELSE IF review \/ first # "none" THEN "REVIEW"
                 ELSE "ALLOW",
      violations |-> ({first} \ {"none"}) \cup
        IF block THEN {"high_risk_country_new_device_block"}
        ELSE IF review THEN {"high_risk_country_new_device_review"} ELSE {}]

-----------------------------------------------------------------------------
(***************************************************************************)
(* agent-llm-explainer and agent-aggregate.                                *)
(***************************************************************************)
\* Both providers put risk, action and reasons into words.
Explain(risk, policy) ==
  [risk |-> risk, action |-> policy.action, reasons |-> policy.violations]

Recommendation(risk, policy) ==
  IF policy.action = "BLOCK" THEN "BLOCK"
  ELSE IF policy.action = "REVIEW" \/ risk >= 6000 THEN "REVIEW"
  ELSE "ALLOW"

Aggregate(risk, policy, explain) ==
  LET recommendation == Recommendation(risk, policy) IN
  [recommendation |-> recommendation,
   requires_human_review |-> recommendation = "REVIEW",
   reason_codes |-> policy.violations \cup
     IF recommendation = "REVIEW" THEN {"HUMAN_REVIEW_REQUIRED"} ELSE {},
   policy |-> policy, explain |-> explain]

\* The five agents one after the other, under one ruleset.
Verdict(rules, t) ==
  LET c == Context(t) risk == Risk(t, c).risk_score
  IN Recommendation(risk, Policy(rules, t, c, risk))

\* build_demo_scenarios, by name.
Demo ==
  LET known == [country |-> NoValue, merchant |-> NoValue, chargeback |-> 0, newDevice |-> 0,
                velocity |-> 0, mismatch |-> 0, trusted |-> 1, age |-> 500]
      new == [known EXCEPT !.newDevice = 1, !.trusted = 0]
  IN [ALLOW |-> [amount |-> 90, country |-> "LOW", merchant |-> 12, chargeback |-> 0,
                 known |-> NoValue, metadata |-> known],
      REVIEW |-> [amount |-> 2100, country |-> "MEDIUM", merchant |-> 62, chargeback |-> 0,
                  known |-> NoValue, metadata |-> [new EXCEPT !.age = 5]],
      BLOCK |-> [amount |-> 11000, country |-> "HIGH", merchant |-> 95, chargeback |-> 1,
                 known |-> NoValue, metadata |-> [new EXCEPT !.age = 1, !.velocity = 1]]]

-----------------------------------------------------------------------------
Severity(action) == IF action = "BLOCK" THEN 2 ELSE IF action = "REVIEW" THEN 1 ELSE 0
TierRank(tier) == IF tier = "HIGH" THEN 2 ELSE IF tier = "MEDIUM" THEN 1 ELSE 0

\* Left out in both, or not larger in the first.
NoMore(x, y) == IF x = NoValue \/ y = NoValue THEN x = y ELSE x <= y

\* u says the same as t or something worse, in the same places.
Riskier(t, u) ==
  /\ t.amount <= u.amount
  /\ NoMore(t.merchant, u.merchant)
  /\ NoMore(t.chargeback, u.chargeback)
  /\ NoMore(u.known, t.known)
  /\ IF NoValue \in {t.country, u.country} THEN t.country = u.country
     ELSE TierRank(t.country) <= TierRank(u.country)
  /\ LET m == t.metadata n == u.metadata IN
     /\ IF NoValue \in {m.country, n.country} THEN m.country = n.country
        ELSE TierRank(m.country) <= TierRank(n.country)
     /\ NoMore(m.merchant, n.merchant)
     /\ m.chargeback <= n.chargeback /\ m.newDevice <= n.newDevice
     /\ m.velocity <= n.velocity /\ m.mismatch <= n.mismatch
     /\ n.trusted <= m.trusted /\ n.age <= m.age
=============================================================================
