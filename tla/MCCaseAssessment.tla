-------------------------- MODULE MCCaseAssessment --------------------------
(***************************************************************************)
(* Finite instances of CaseAssessment: the demo scenarios and transactions *)
(* next to a threshold, under the shipped ruleset and one that is milder   *)
(* on risk and stricter on amounts.                                        *)
(***************************************************************************)
EXTENDS CaseAssessment

RulesetV1 == [block_risk |-> 9000, review_risk |-> 6000, review_amount |-> 2500]

MCRulesets ==
  {LoadRuleset(RulesetV1),
   LoadRuleset([review_risk |-> 7000, geo_block_risk |-> 9950, review_amount |-> 2100])}

Quiet == Demo["ALLOW"]
Foreign == [Demo["BLOCK"] EXCEPT !.country = "LOW"]

MCTransactions ==
  {Demo[name] : name \in DOMAIN Demo} \cup
  {Foreign,
   [Quiet EXCEPT !.amount = 2499, !.merchant = 74],
   [Quiet EXCEPT !.amount = 2500],
   [Quiet EXCEPT !.merchant = 75],
   [Quiet EXCEPT !.merchant = NoValue, !.metadata.merchant = 150],
   [Quiet EXCEPT !.amount = 500, !.chargeback = 1],
   [Quiet EXCEPT !.country = "HIGH", !.known = 0],
   \* Scores 8650: blocked by country and device alone.
   [Demo["BLOCK"] EXCEPT !.amount = 2400, !.merchant = 50, !.chargeback = 0],
   \* Scores 6000 and 5955: on and just below the threshold of agent-aggregate.
   [Quiet EXCEPT !.amount = 2050, !.merchant = 70, !.metadata.velocity = 1],
   [Quiet EXCEPT !.amount = 2050, !.merchant = 69, !.metadata.velocity = 1]}
=============================================================================
