CONSTANTS
  NoValue = NoValue
  NoResult = NoResult
  Transactions <- MCTransactions
  Rulesets <- MCRulesets
  MaxReruns = 1
SPECIFICATION Spec
INVARIANTS TypeOK VerdictDerived RiskierNotMilder ExplanationMatches
CHECK_DEADLOCK FALSE
