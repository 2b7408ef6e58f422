------------------------ MODULE CaseAssessmentProofs ------------------------
(***************************************************************************)
(* Theorems about DecisionRules, for every ruleset and every transaction,  *)
(* and about CaseAssessment, for every set of transactions and rulesets    *)
(* and any number of redeliveries and retries.                             *)
(*                                                                         *)
(* A riskier transaction never gets a milder verdict: one lemma per agent, *)
(* in the order of the pipeline.                                           *)
(*                                                                         *)
(* Derived is the inductive invariant behind VerdictDerived: whatever      *)
(* message or row a handler may pick up, its content was computed from the *)
(* transaction, by a ruleset that is deployed.  Single is the one behind   *)
(* ExplanationMatches: until something is delivered or retried again, a    *)
(* step has one command and one result.                                    *)
(***************************************************************************)
EXTENDS CaseAssessment, TLAPS

-----------------------------------------------------------------------------
(***************************************************************************)
(* What the agents compute.                                                *)
(***************************************************************************)
\* agent-context hands on something worse for something worse.
LEMMA ContextMonotone ==
  ASSUME NEW t \in Transaction, NEW u \in Transaction, Riskier(t, u)
  PROVE  LET c == Context(t) d == Context(u) IN
         /\ TierRank(c.tier) <= TierRank(d.tier)
         /\ c.newDevice \in Flag /\ d.newDevice \in Flag /\ c.newDevice <= d.newDevice
         /\ c.velocity \in Flag /\ d.velocity \in Flag /\ c.velocity <= d.velocity
         /\ c.mismatch \in Flag /\ d.mismatch \in Flag /\ c.mismatch <= d.mismatch
         /\ c.trusted \in Flag /\ d.trusted \in Flag /\ d.trusted <= c.trusted
         /\ c.age \in Int /\ d.age \in Int /\ d.age <= c.age
<1>1. TierRank(Context(t).tier) <= TierRank(Context(u).tier)
  <2>1. /\ t.country \in Tier \cup {NoValue} /\ u.country \in Tier \cup {NoValue}
        /\ t.metadata.country \in Tier \cup {NoValue}
        /\ u.metadata.country \in Tier \cup {NoValue}
    BY DEF Transaction, Metadata
  <2>2. /\ IF NoValue \in {t.country, u.country} THEN t.country = u.country
           ELSE TierRank(t.country) <= TierRank(u.country)
        /\ IF NoValue \in {t.metadata.country, u.metadata.country}
           THEN t.metadata.country = u.metadata.country
           ELSE TierRank(t.metadata.country) <= TierRank(u.metadata.country)
    BY DEF Riskier
  <2>. QED  BY <2>1, <2>2 DEF Context, OrElse, TierRank
<1>2. /\ Context(t).newDevice \in Flag /\ Context(u).newDevice \in Flag
      /\ Context(t).newDevice <= Context(u).newDevice
  <2>1. /\ t.known \in Flag \cup {NoValue} /\ u.known \in Flag \cup {NoValue}
        /\ t.metadata.newDevice \in Flag /\ u.metadata.newDevice \in Flag
    BY DEF Transaction, Metadata
  <2>2. /\ NoMore(u.known, t.known)
        /\ t.metadata.newDevice <= u.metadata.newDevice
    BY DEF Riskier
  <2>. QED  BY <2>1, <2>2 DEF Context, NoMore, Flag
<1>3. /\ t.metadata.velocity \in Flag /\ u.metadata.velocity \in Flag
      /\ t.metadata.mismatch \in Flag /\ u.metadata.mismatch \in Flag
      /\ t.metadata.trusted \in Flag /\ u.metadata.trusted \in Flag
      /\ t.metadata.age \in Int /\ u.metadata.age \in Int
  BY DEF Transaction, Metadata
<1>4. /\ t.metadata.velocity <= u.metadata.velocity
      /\ t.metadata.mismatch <= u.metadata.mismatch
      /\ u.metadata.trusted <= t.metadata.trusted
      /\ u.metadata.age <= t.metadata.age
  BY DEF Riskier
<1>. QED  BY <1>1, <1>2, <1>3, <1>4 DEF Context

\* agent-risk-ml adds up points that do not fall.
LEMMA RiskMonotone ==
  ASSUME NEW t \in Transaction, NEW u \in Transaction, Riskier(t, u)
  PROVE  LET r == Risk(t, Context(t)).risk_score
             s == Risk(u, Context(u)).risk_score
         IN r \in Nat /\ s \in Nat /\ r <= s
<1>. DEFINE c == Context(t)
            d == Context(u)
<1>1. t.amount \in Nat /\ u.amount \in Nat /\ t.amount <= u.amount
  BY DEF Transaction, Riskier
<1>2. MerchantRisk(t) \in 0..100 /\ MerchantRisk(u) \in 0..100 /\ MerchantRisk(t) <= MerchantRisk(u)
  <2>1. /\ t.merchant \in 0..100 \cup {NoValue} /\ u.merchant \in 0..100 \cup {NoValue}
        /\ t.metadata.merchant \in Int \cup {NoValue}
        /\ u.metadata.merchant \in Int \cup {NoValue}
    BY DEF Transaction, Metadata
  <2>2. NoMore(t.merchant, u.merchant) /\ NoMore(t.metadata.merchant, u.metadata.merchant)
    BY DEF Riskier
  <2>. QED  BY <2>1, <2>2 DEF MerchantRisk, OrElse, AtMost, AtLeast, NoMore
<1>3. Chargeback(t) \in Flag /\ Chargeback(u) \in Flag /\ Chargeback(t) <= Chargeback(u)
  <2>1. /\ t.chargeback \in Flag \cup {NoValue} /\ u.chargeback \in Flag \cup {NoValue}
        /\ t.metadata.chargeback \in Flag /\ u.metadata.chargeback \in Flag
    BY DEF Transaction, Metadata
  <2>2. NoMore(t.chargeback, u.chargeback) /\ t.metadata.chargeback <= u.metadata.chargeback
    BY DEF Riskier
  <2>. QED  BY <2>1, <2>2 DEF Chargeback, OrElse, NoMore, Flag
<1>4. /\ TierRank(c.tier) <= TierRank(d.tier)
      /\ c.newDevice \in Flag /\ d.newDevice \in Flag /\ c.newDevice <= d.newDevice
      /\ c.velocity \in Flag /\ d.velocity \in Flag /\ c.velocity <= d.velocity
      /\ c.mismatch \in Flag /\ d.mismatch \in Flag /\ c.mismatch <= d.mismatch
      /\ c.trusted \in Flag /\ d.trusted \in Flag /\ d.trusted <= c.trusted
      /\ c.age \in Int /\ d.age \in Int /\ d.age <= c.age
  BY ContextMonotone
<1>. HIDE DEF c, d
<1>5. /\ AtMost(t.amount, 2500) \in Nat /\ AtMost(u.amount, 2500) \in Nat
      /\ AtMost(t.amount, 2500) <= AtMost(u.amount, 2500)
  BY <1>1 DEF AtMost
<1>6. /\ TierPoints(c.tier) \in Nat /\ TierPoints(d.tier) \in Nat
      /\ TierPoints(c.tier) <= TierPoints(d.tier)
  BY <1>4 DEF TierPoints, TierRank
<1>7. /\ AgePoints(c.age) \in Nat /\ AgePoints(d.age) \in Nat
      /\ AgePoints(c.age) <= AgePoints(d.age)
  BY <1>4 DEF AgePoints
<1>8. /\ SignalScore(t, c) \in Int /\ SignalScore(u, d) \in Int
      /\ SignalScore(t, c) <= SignalScore(u, d)
  <2>. DEFINE a1 == AtMost(t.amount, 2500)   a2 == AtMost(u.amount, 2500)
              m1 == MerchantRisk(t)          m2 == MerchantRisk(u)
              b1 == Chargeback(t)            b2 == Chargeback(u)
              p1 == TierPoints(c.tier)       p2 == TierPoints(d.tier)
              w1 == c.newDevice              w2 == d.newDevice
              v1 == c.velocity               v2 == d.velocity
              x1 == c.mismatch               x2 == d.mismatch
              q1 == c.trusted                q2 == d.trusted
              g1 == AgePoints(c.age)         g2 == AgePoints(d.age)
  <2>1. /\ SignalScore(t, c) = a1 + 45 * m1 + 2000 * b1 + p1 + 1000 * w1 + 800 * v1 + 800 * x1
                                + 500 * (1 - q1) + g1
        /\ SignalScore(u, d) = a2 + 45 * m2 + 2000 * b2 + p2 + 1000 * w2 + 800 * v2 + 800 * x2
                                + 500 * (1 - q2) + g2
    BY DEF SignalScore
  <2>2. /\ a1 \in Int /\ a2 \in Int /\ m1 \in Int /\ m2 \in Int /\ b1 \in Int /\ b2 \in Int
        /\ p1 \in Int /\ p2 \in Int /\ w1 \in Int /\ w2 \in Int /\ v1 \in Int /\ v2 \in Int
        /\ x1 \in Int /\ x2 \in Int /\ q1 \in Int /\ q2 \in Int /\ g1 \in Int /\ g2 \in Int
    BY <1>2, <1>3, <1>4, <1>5, <1>6, <1>7 DEF Flag
  <2>3. /\ a1 <= a2 /\ m1 <= m2 /\ b1 <= b2 /\ p1 <= p2 /\ w1 <= w2 /\ v1 <= v2
        /\ x1 <= x2 /\ q2 <= q1 /\ g1 <= g2
    BY <1>2, <1>3, <1>4, <1>5, <1>6, <1>7
  <2>. HIDE DEF a1, a2, m1, m2, b1, b2, p1, p2, w1, w2, v1, v2, x1, x2, q1, q2, g1, g2
  <2>. QED  BY <2>1, <2>2, <2>3
<1>9. LET r == Risk(t, c).risk_score s == Risk(u, d).risk_score IN
      r \in Nat /\ s \in Nat /\ r <= s
  BY <1>8 DEF Risk, AtLeast, AtMost, DefaultRiskScore
<1>. QED  BY <1>9 DEF c, d

\* agent-policy, whatever its thresholds: the rules after the first one are
\* only asked while nothing else applied, and the rule on country and device
\* replaces the action; neither lowers it.
LEMMA PolicyMonotone ==
  ASSUME NEW rules \in Ruleset, NEW t \in Transaction, NEW u \in Transaction, Riskier(t, u),
         NEW c, NEW d, NEW r \in Nat, NEW s \in Nat, r <= s,
         TierRank(c.tier) <= TierRank(d.tier),
         c.newDevice \in Flag, d.newDevice \in Flag, c.newDevice <= d.newDevice
  PROVE  Severity(Policy(rules, t, c, r).action) <= Severity(Policy(rules, u, d, s).action)
<1>1. GeoDevice(c) => GeoDevice(d)
  BY DEF GeoDevice, TierRank, Flag
<1>2. \A k \in Thresholds : rules[k] \in Nat
  BY DEF Ruleset
<1>3. t.amount \in Nat /\ u.amount \in Nat /\ t.amount <= u.amount
  BY DEF Transaction, Riskier
<1>4. OrElse(t.merchant, 0) \in Nat /\ OrElse(u.merchant, 0) \in Nat
        /\ OrElse(t.merchant, 0) <= OrElse(u.merchant, 0)
  <2>1. /\ t.merchant \in 0..100 \cup {NoValue} /\ u.merchant \in 0..100 \cup {NoValue}
        /\ NoMore(t.merchant, u.merchant)
    BY DEF Transaction, Riskier
  <2>. QED  BY <2>1 DEF OrElse, NoMore
<1>5. OrElse(t.chargeback, 0) = 1 => OrElse(u.chargeback, 0) = 1
  <2>1. /\ t.chargeback \in Flag \cup {NoValue} /\ u.chargeback \in Flag \cup {NoValue}
        /\ NoMore(t.chargeback, u.chargeback)
    BY DEF Transaction, Riskier
  <2>. QED  BY <2>1 DEF OrElse, NoMore, Flag
<1>6. /\ rules["block_risk"] \in Nat /\ rules["review_risk"] \in Nat
      /\ rules["review_amount"] \in Nat /\ rules["merchant_review"] \in Nat
      /\ rules["chargeback_amount"] \in Nat /\ rules["geo_block_risk"] \in Nat
  BY <1>2 DEF Thresholds
<1>7. FirstRule(rules, t, r) = "risk_score_block" => FirstRule(rules, u, s) = "risk_score_block"
  BY <1>6 DEF FirstRule
<1>8. FirstRule(rules, t, r) # "none" => FirstRule(rules, u, s) # "none"
  BY <1>3, <1>4, <1>5, <1>6 DEF FirstRule
<1>. QED  BY <1>1, <1>6, <1>7, <1>8 DEF Policy, Severity

\* A transaction that is riskier in every respect never gets a milder verdict,
\* under any ruleset (agent.py of the five agents).
THEOREM VerdictMonotone ==
  ASSUME NEW rules \in Ruleset, NEW t \in Transaction, NEW u \in Transaction, Riskier(t, u)
  PROVE  Severity(Verdict(rules, t)) <= Severity(Verdict(rules, u))
<1>. DEFINE c == Context(t)
            d == Context(u)
            r == Risk(t, c).risk_score
            s == Risk(u, d).risk_score
<1>1. /\ TierRank(c.tier) <= TierRank(d.tier)
      /\ c.newDevice \in Flag /\ d.newDevice \in Flag /\ c.newDevice <= d.newDevice
  BY ContextMonotone
<1>2. r \in Nat /\ s \in Nat /\ r <= s
  BY RiskMonotone
<1>3. Verdict(rules, t) = Recommendation(r, Policy(rules, t, c, r))
      /\ Verdict(rules, u) = Recommendation(s, Policy(rules, u, d, s))
  BY DEF Verdict
<1>. HIDE DEF c, d, r, s
<1>4. Severity(Policy(rules, t, c, r).action) <= Severity(Policy(rules, u, d, s).action)
  BY <1>1, <1>2, PolicyMonotone
<1>. QED  BY <1>2, <1>3, <1>4 DEF Recommendation, Severity

-----------------------------------------------------------------------------
(***************************************************************************)
(* Results on their way through the pipeline.                              *)
(***************************************************************************)
TheContext == Context(txn)
TheRisk == Risk(txn, TheContext)
ThePolicy(rules) == Policy(rules, txn, TheContext, TheRisk.risk_score)
SomePolicy(p) == \E rules \in deployed : p = ThePolicy(rules)
SomeAction(a) == \E rules \in deployed : a = ThePolicy(rules).action
SomeVerdict(v) == \E rules \in deployed : v = Verdict(rules, txn)

AggregateOk(c) ==
  /\ SomeVerdict(c.recommendation)
  /\ SomePolicy(c.policy) /\ SomeAction(c.explain.action)

ResultDerived(m) ==
  /\ m.step = "context" => m.content = TheContext
  /\ m.step = "risk" => m.content = TheRisk
  /\ m.step = "policy" => SomePolicy(m.content)
  /\ m.step = "explain" => SomeAction(m.content.action)
  /\ m.step = "aggregate" => AggregateOk(m.content)

CommandDerived(m) ==
  /\ m.step \in {"risk", "policy"} => m.content["context"] = TheContext
  /\ m.step \in {"policy", "explain", "aggregate"} => m.content["risk"] = TheRisk
  /\ m.step \in {"explain", "aggregate"} => SomePolicy(m.content["policy"])
  /\ m.step = "aggregate" => SomeAction(m.content["explain"].action)

Wellformed(m) ==
  /\ m = Message(m.kind, m.step, m.branch, m.content)
  /\ m.kind \in {"command", "result"} /\ m.step \in Steps

MessageDerived(m) ==
  /\ Wellformed(m)
  /\ m.kind = "command" => CommandDerived(m)
  /\ m.kind = "result" => ResultDerived(m)

Derived ==
  /\ \A m \in messages : MessageDerived(m)
  /\ rows \subseteq {m \in messages : m.kind = "result"}
  /\ \A d \in decisions : AggregateOk(d.payload)

-----------------------------------------------------------------------------
\* The aggregate of derived results is a verdict.
LEMMA AggregateDerived ==
  ASSUME NEW risk, NEW p, NEW explain, SomePolicy(p), SomeAction(explain.action),
         risk = TheRisk.risk_score
  PROVE  AggregateOk(Aggregate(risk, p, explain))
<1>. DEFINE a == Aggregate(risk, p, explain)
<1>1. a.recommendation = Recommendation(risk, p) /\ a.policy = p /\ a.explain = explain
  BY DEF Aggregate
<1>2. SomeVerdict(Recommendation(risk, p))
  BY DEF SomePolicy, SomeVerdict, ThePolicy, TheRisk, TheContext, Verdict
<1>. HIDE DEF a
<1>3. AggregateOk(a)
  BY <1>1, <1>2 DEF AggregateOk
<1>. QED  BY <1>3 DEF a

\* A message says of itself what it was made of.
LEMMA MessageFields ==
  ASSUME NEW kind \in {"command", "result"}, NEW step \in Steps, NEW branch, NEW content,
         NEW x, x = Message(kind, step, branch, content)
  PROVE  /\ x.kind = kind /\ x.step = step /\ x.branch = branch /\ x.content = content
         /\ Wellformed(x)
  BY DEF Message, Wellformed

\* What an agent publishes is derived when what it was sent is.
LEMMA OutputDerived ==
  ASSUME NEW m, Wellformed(m), CommandDerived(m), NEW rules \in deployed
  PROVE  MessageDerived(Message("result", m.step, m.branch, Output(m.step, m.content, rules)))
<1>. DEFINE out == Output(m.step, m.content, rules)
            res == Message("result", m.step, m.branch, out)
<1>1. m.step \in Steps
  BY DEF Wellformed
<1>2. m.step = "context" => out = TheContext
  BY DEF Output, TheContext
<1>3. m.step = "risk" => out = TheRisk
  BY DEF Output, TheRisk, CommandDerived
<1>4. m.step = "policy" => SomePolicy(out)
  <2>1. m.step = "policy" => out = ThePolicy(rules)
    BY DEF Output, ThePolicy, CommandDerived
  <2>. QED  BY <2>1 DEF SomePolicy
<1>5. m.step = "aggregate" => AggregateOk(out)
  <2>1. m.step = "aggregate" =>
          out = Aggregate(m.content["risk"].risk_score, m.content["policy"], m.content["explain"])
    BY DEF Output
  <2>. QED  BY <2>1, AggregateDerived DEF CommandDerived
<1>8. m.step = "explain" => SomeAction(out.action)
  <2>1. m.step = "explain" => out.action = m.content["policy"].action
    BY DEF Output, Explain
  <2>. QED  BY <2>1 DEF CommandDerived, SomePolicy, SomeAction
<1>. HIDE DEF out
<1>6. /\ res.kind = "result" /\ res.step = m.step /\ res.content = out
      /\ Wellformed(res)
  BY <1>1, MessageFields
<1>. HIDE DEF res
<1>7. MessageDerived(res)
  BY <1>2, <1>3, <1>4, <1>5, <1>6, <1>8 DEF MessageDerived, ResultDerived
<1>. QED  BY <1>7 DEF res, out

\* What the orchestrator reads back is derived, and so is its next command.
LEMMA InputDerived ==
  ASSUME NEW m, MessageDerived(m), m.kind = "result", m.step \in Earlier,
         NEW stored, \A x \in stored : MessageDerived(x) /\ x.kind = "result",
         NEW found, DOMAIN found = Reads[m.step],
         \A s \in Reads[m.step] : found[s] \in Found(stored, s)
  PROVE  MessageDerived(Message("command", NextStep[m.step], m.branch, Input(m, found)))
<1>. DEFINE in == Input(m, found)
            next == NextStep[m.step]
<1>1. m.step \in {"context", "risk", "policy", "explain"} /\ ResultDerived(m)
  BY DEF Earlier, MessageDerived
<1>2. ASSUME NEW s \in Reads[m.step]
      PROVE  /\ s = "context" => found[s] = TheContext
             /\ s = "risk" => found[s] = TheRisk
             /\ s = "policy" => SomePolicy(found[s])
  <2>1. PICK x \in stored : x.step = s /\ found[s] = x.content
    BY DEF Found
  <2>. QED  BY <2>1 DEF MessageDerived, ResultDerived
<1>3. /\ m.step = "context" => in["context"] = TheContext
      /\ m.step = "risk" => in["context"] = TheContext /\ in["risk"] = TheRisk
      /\ m.step = "policy" => in["risk"] = TheRisk /\ SomePolicy(in["policy"])
      /\ m.step = "explain" => in["risk"] = TheRisk /\ SomePolicy(in["policy"])
                              /\ SomeAction(in["explain"].action)
  BY <1>1, <1>2 DEF Input, Reads, Earlier, ResultDerived
<1>4. /\ m.step = "context" => next = "risk"
      /\ m.step = "risk" => next = "policy"
      /\ m.step = "policy" => next = "explain"
      /\ m.step = "explain" => next = "aggregate"
  BY <1>1 DEF NextStep
<1>. DEFINE req == Message("command", next, m.branch, in)
<1>. HIDE DEF in, next
<1>5. next \in Steps
  BY <1>1, <1>4 DEF Steps, Earlier
<1>6. /\ req.kind = "command" /\ req.step = next /\ req.content = in
      /\ Wellformed(req)
  BY <1>5, MessageFields
<1>. HIDE DEF req
<1>7. MessageDerived(req)
  BY <1>1, <1>3, <1>4, <1>6 DEF MessageDerived, CommandDerived
<1>. QED  BY <1>7 DEF req, in, next

\* A retry carries on what failed.
LEMMA RetryDerived ==
  ASSUME NEW m, MessageDerived(m), NEW b
  PROVE  MessageDerived([m EXCEPT !.branch = b])
<1>. DEFINE x == [m EXCEPT !.branch = b]
<1>1. x = Message(m.kind, m.step, b, m.content)
  BY DEF MessageDerived, Wellformed, Message
<1>2. x.kind = m.kind /\ x.step = m.step /\ x.content = m.content /\ Wellformed(x)
  BY <1>1, MessageFields DEF MessageDerived, Wellformed
<1>. HIDE DEF x
<1>3. MessageDerived(x)
  BY <1>2 DEF MessageDerived, CommandDerived, ResultDerived
<1>. QED  BY <1>3 DEF x

\* One row per identifier, or one more.
LEMMA StoredRows ==
  ASSUME NEW m
  PROVE  rows \subseteq Stored(m) /\ Stored(m) \subseteq rows \cup {m}
  BY DEF Stored

-----------------------------------------------------------------------------
\* Recorded recommendations are verdicts of a deployed ruleset.
LEMMA DerivedInit == Init => Derived
<1>. SUFFICES ASSUME Init PROVE Derived
  OBVIOUS
<1>. DEFINE m == Message("command", "context", 0, [s \in Earlier |-> NoResult])
<1>1. messages = {m} /\ rows = {} /\ decisions = {}
  BY DEF Init
<1>2. m.kind = "command" /\ m.step = "context" /\ Wellformed(m)
  BY MessageFields DEF Steps, Earlier
<1>. HIDE DEF m
<1>. QED  BY <1>1, <1>2 DEF Derived, MessageDerived, CommandDerived

LEMMA DerivedNext == Derived /\ [Next]_vars => Derived'
<1>. SUFFICES ASSUME Derived, [Next]_vars PROVE Derived'
  OBVIOUS
<1>1. CASE UNCHANGED vars
  BY <1>1 DEF Derived, vars, MessageDerived, Wellformed, CommandDerived, ResultDerived,
     AggregateOk, SomePolicy, SomeAction, SomeVerdict, ThePolicy, TheRisk, TheContext
<1>2. CASE Next
  <2>1. PICK m \in messages : RunAgent(m) \/ Advance(m) \/ Decide(m) \/ Retry(m)
    BY <1>2 DEF Next
  <2>2. MessageDerived(m)
    BY DEF Derived
  <2>3. txn' = txn /\ deployed' = deployed
    BY <2>1 DEF RunAgent, Advance, Decide, Retry
  <2>4. SUFFICES /\ \A x \in messages' : MessageDerived(x)
                 /\ rows' \subseteq {x \in messages' : x.kind = "result"}
                 /\ \A d \in decisions' : AggregateOk(d.payload)
    BY <2>3 DEF Derived, MessageDerived, Wellformed, CommandDerived, ResultDerived,
       AggregateOk, SomePolicy, SomeAction, SomeVerdict, ThePolicy, TheRisk, TheContext
  <2>5. CASE RunAgent(m)
    <3>1. PICK rules \in deployed :
            LET result == Message("result", m.step, m.branch, Output(m.step, m.content, rules)) IN
            messages' = messages \cup {result} /\ rows' \in {rows, Stored(result)}
      BY <2>5 DEF RunAgent
    <3>. DEFINE result == Message("result", m.step, m.branch, Output(m.step, m.content, rules))
    <3>2. MessageDerived(result)
      BY <2>2, <2>5, OutputDerived DEF RunAgent, MessageDerived
    <3>3. result.kind = "result"
      BY DEF Message
    <3>4. messages' = messages \cup {result} /\ rows' \in {rows, Stored(result)}
      BY <3>1
    <3>. HIDE DEF result
    <3>. QED  BY <2>5, <3>2, <3>3, <3>4, StoredRows DEF RunAgent, Derived
  <2>6. CASE Advance(m)
    <3>1. PICK found \in [Reads[m.step] -> UNION {Found(rows', s) : s \in Reads[m.step]}] :
            /\ \A s \in Reads[m.step] : found[s] \in Found(rows', s)
            /\ messages' = messages \cup
                 {Message("command", NextStep[m.step], m.branch, Input(m, found))}
      BY <2>6 DEF Advance
    <3>2. rows' \subseteq {x \in messages : x.kind = "result"}
      BY <2>6, StoredRows DEF Advance, Derived
    <3>3. MessageDerived(Message("command", NextStep[m.step], m.branch, Input(m, found)))
      BY <2>2, <2>6, <3>1, <3>2, InputDerived DEF Advance, Derived
    <3>. QED  BY <2>6, <3>1, <3>2, <3>3 DEF Advance, Derived
  <2>7. CASE Decide(m)
    <3>1. AggregateOk(m.content)
      BY <2>2, <2>7 DEF Decide, MessageDerived, ResultDerived
    <3>2. rows' \subseteq {x \in messages : x.kind = "result"}
      BY <2>7, StoredRows DEF Decide, Derived
    <3>3. \A d \in decisions' : d \in decisions \/ d = [branch |-> m.branch, payload |-> m.content]
      BY <2>7 DEF Decide
    <3>. QED  BY <2>7, <3>1, <3>2, <3>3 DEF Decide, Derived
  <2>8. CASE Retry(m)
    <3>1. messages' = messages \cup {[m EXCEPT !.branch = reruns + 1]}
          /\ rows' = rows /\ decisions' = decisions
      BY <2>8 DEF Retry
    <3>2. MessageDerived([m EXCEPT !.branch = reruns + 1])
      BY <2>2, RetryDerived
    <3>. QED  BY <3>1, <3>2 DEF Derived
  <2>. QED  BY <2>1, <2>5, <2>6, <2>7, <2>8
<1>. QED  BY <1>1, <1>2

\* However results of different branches meet, a recorded recommendation is
\* what a deployed ruleset says of the transaction (worker.py of
\* decision-orchestrator, agent.py of the agents).
THEOREM VerdictDerivedHolds == Spec => []VerdictDerived
<1>1. Derived => VerdictDerived
  BY DEF Derived, VerdictDerived, AggregateOk, SomeVerdict
<1>. QED  BY <1>1, DerivedInit, DerivedNext, PTL DEF Spec

-----------------------------------------------------------------------------
\* The shape of the state, for the theorems that follow.
LEMMA TypeNext == TypeOK /\ Derived /\ [Next]_vars => TypeOK'
<1>. SUFFICES ASSUME TypeOK, Derived, [Next]_vars PROVE TypeOK'
  OBVIOUS
<1>1. CASE UNCHANGED vars
  BY <1>1 DEF TypeOK, vars, Id
<1>2. CASE Next
  <2>1. PICK m \in messages : RunAgent(m) \/ Advance(m) \/ Decide(m) \/ Retry(m)
    BY <1>2 DEF Next
  <2>2. /\ Wellformed(m) /\ m.branch \in 0..MaxReruns /\ reruns \in 0..MaxReruns
        /\ MaxReruns \in Nat
    BY AssessmentAssumption DEF TypeOK, Derived, MessageDerived
  <2>3. txn' = txn /\ deployed' = deployed
    BY <2>1 DEF RunAgent, Advance, Decide, Retry
  <2>4. /\ messages \subseteq messages' /\ handled' = handled \cup {Id(m)}
        /\ reruns' \in 0..MaxReruns
    BY <2>1, <2>2 DEF RunAgent, Advance, Decide, Retry, Deliver
  <2>5. \A x \in messages' :
          x.kind \in {"command", "result"} /\ x.step \in Steps /\ x.branch \in 0..MaxReruns
    <3>1. CASE Retry(m)
      <4>1. reruns + 1 \in 0..MaxReruns
        BY <2>2, <3>1 DEF Retry
      <4>2. [m EXCEPT !.branch = reruns + 1] = Message(m.kind, m.step, reruns + 1, m.content)
        BY <2>2 DEF Wellformed, Message
      <4>3. messages' = messages \cup {Message(m.kind, m.step, reruns + 1, m.content)}
        BY <3>1, <4>2 DEF Retry
      <4>. QED  BY <2>2, <4>1, <4>3, MessageFields DEF Wellformed, TypeOK
    <3>2. CASE RunAgent(m) \/ Advance(m) \/ Decide(m)
      <4>1. \A x \in messages' : x \in messages \/
              \E kind \in {"command", "result"}, step \in Steps : \E content :
                x = Message(kind, step, m.branch, content)
        <5>1. CASE RunAgent(m)
          BY <2>2, <5>1 DEF RunAgent, Wellformed
        <5>2. CASE Advance(m)
          <6>1. NextStep[m.step] \in Steps
            BY <5>2 DEF Advance, NextStep, Steps, Earlier
          <6>2. \E found : messages' = messages \cup
                  {Message("command", NextStep[m.step], m.branch, Input(m, found))}
            BY <5>2 DEF Advance
          <6>. QED  BY <6>1, <6>2
        <5>3. CASE Decide(m)
          BY <5>3 DEF Decide
        <5>. QED  BY <3>2, <5>1, <5>2, <5>3
      <4>. QED  BY <2>2, <4>1, MessageFields DEF TypeOK
    <3>. QED  BY <2>1, <3>1, <3>2
  <2>6. /\ rows' \subseteq {x \in messages' : x.kind = "result"}
        /\ \A r, x \in rows' : Id(r) = Id(x) => r = x
    <3>1. ASSUME NEW res \in messages', res.kind = "result", rows' \in {rows, Stored(res)}
          PROVE  /\ rows' \subseteq {x \in messages' : x.kind = "result"}
                 /\ \A r, x \in rows' : Id(r) = Id(x) => r = x
      BY <2>4, <3>1 DEF TypeOK, Stored
    <3>2. CASE RunAgent(m)
      <4>1. PICK rules \in deployed :
              LET result == Message("result", m.step, m.branch, Output(m.step, m.content, rules)) IN
              messages' = messages \cup {result} /\ rows' \in {rows, Stored(result)}
        BY <3>2 DEF RunAgent
      <4>. DEFINE result == Message("result", m.step, m.branch, Output(m.step, m.content, rules))
      <4>2. result.kind = "result"
        BY DEF Message
      <4>3. result \in messages' /\ rows' \in {rows, Stored(result)}
        BY <4>1
      <4>. HIDE DEF result
      <4>. QED  BY <3>1, <4>2, <4>3
    <3>3. CASE Advance(m) \/ Decide(m)
      BY <2>4, <3>1, <3>3 DEF Advance, Decide
    <3>4. CASE Retry(m)
      BY <2>4, <3>4 DEF Retry, TypeOK
    <3>. QED  BY <2>1, <3>2, <3>3, <3>4
  <2>7. \A d \in decisions' :
          d.payload \in {r.content : r \in {x \in messages' : x.step = "aggregate"}}
    <3>1. \A d \in decisions' : d \in decisions \/
            (m.step = "aggregate" /\ d = [branch |-> m.branch, payload |-> m.content])
      BY <2>1 DEF RunAgent, Advance, Decide, Retry
    <3>. QED  BY <2>4, <3>1 DEF TypeOK
  <2>8. handled' \subseteq {Id(x) : x \in messages'}
    BY <2>4 DEF TypeOK
  <2>. HIDE DEF Id, Steps
  <2>. QED  BY <2>3, <2>4, <2>5, <2>6, <2>7, <2>8 DEF TypeOK, Id
<1>. QED  BY <1>1, <1>2

\* An identifier has one row, and only published results have one
\* (append_case_event of database.py).
THEOREM TypeCorrect == Spec => []TypeOK
<1>1. Init => TypeOK
  BY AssessmentAssumption, MessageFields DEF Init, TypeOK, Steps, Earlier
<1>. QED  BY <1>1, TypeNext, DerivedInit, DerivedNext, PTL DEF Spec

\* A transaction that is riskier in every respect is not treated more mildly
\* than a recorded recommendation treats this one.
THEOREM RiskierNotMilderHolds == Spec => []RiskierNotMilder
<1>1. TypeOK /\ VerdictDerived => RiskierNotMilder
  <2>. SUFFICES ASSUME TypeOK, VerdictDerived,
                       NEW d \in decisions, NEW t \in Transactions, Riskier(txn, t)
                PROVE  \E rules \in deployed :
                         Severity(Verdict(rules, t)) >= Severity(d.payload.recommendation)
    BY DEF RiskierNotMilder
  <2>1. PICK rules \in deployed : d.payload.recommendation = Verdict(rules, txn)
    BY DEF VerdictDerived
  <2>2. rules \in Ruleset /\ txn \in Transaction /\ t \in Transaction
    BY AssessmentAssumption DEF TypeOK
  <2>3. Severity(Verdict(rules, txn)) <= Severity(Verdict(rules, t))
    BY <2>2, VerdictMonotone
  <2>4. Severity(Verdict(rules, txn)) \in Int /\ Severity(Verdict(rules, t)) \in Int
    BY DEF Severity
  <2>. QED  BY <2>1, <2>3, <2>4
<1>. QED  BY <1>1, TypeCorrect, VerdictDerivedHolds, PTL
-----------------------------------------------------------------------------
IsResult(x, step) == x.kind = "result" /\ x.step = step
IsCommand(x, step) == x.kind = "command" /\ x.step = step

\* Until something is delivered or retried again, a step has one command and
\* one result, and what follows a policy verdict is about that one.
Single ==
  /\ \A x \in messages : x.branch = 0
  /\ \A x, y \in messages : (x.kind = y.kind /\ x.step = y.step) => x = y
  /\ \A x \in messages, s \in Steps :
       IsResult(x, s) => [kind |-> "command", step |-> s, branch |-> 0] \in handled
  /\ \A x \in messages, s \in Earlier :
       IsCommand(x, NextStep[s]) => [kind |-> "result", step |-> s, branch |-> 0] \in handled

About(x) ==
  /\ IsCommand(x, "explain") =>
       \E p \in messages : IsResult(p, "policy") /\ x.content["policy"].action = p.content.action
  /\ IsResult(x, "explain") =>
       \E p \in messages : IsResult(p, "policy") /\ x.content.action = p.content.action
  /\ IsCommand(x, "aggregate") => x.content["explain"].action = x.content["policy"].action
  /\ IsResult(x, "aggregate") => x.content.explain.action = x.content.policy.action

Explained ==
  reruns = 0 =>
    /\ Single
    /\ \A x \in messages : About(x)
    /\ \A d \in decisions : d.payload.explain.action = d.payload.policy.action

LEMMA ExplainedInit == Init => Explained
<1>. SUFFICES ASSUME Init PROVE Explained
  OBVIOUS
<1>. DEFINE m == Message("command", "context", 0, [s \in Earlier |-> NoResult])
<1>1. messages = {m} /\ decisions = {} /\ handled = {}
  BY DEF Init
<1>2. m.kind = "command" /\ m.step = "context" /\ m.branch = 0
  BY MessageFields DEF Steps, Earlier
<1>3. \A s \in Earlier : NextStep[s] # "context"
  BY DEF Earlier, NextStep
<1>. HIDE DEF m
<1>. QED  BY <1>1, <1>2, <1>3 DEF Explained, Single, About, IsCommand, IsResult

\* One more message: the first of its kind and step, and about the verdict.
LEMMA OneMore ==
  ASSUME Explained, reruns = 0,
         NEW x, Wellformed(x), x.branch = 0, messages' = messages \cup {x},
         handled \subseteq handled',
         \A y \in messages : ~ (y.kind = x.kind /\ y.step = x.step),
         \A s \in Steps :
           IsResult(x, s) => [kind |-> "command", step |-> s, branch |-> 0] \in handled',
         \A s \in Earlier :
           IsCommand(x, NextStep[s]) => [kind |-> "result", step |-> s, branch |-> 0] \in handled',
         About(x)
  PROVE  Single' /\ \A y \in messages' : About(y)'
<1>1. Single'
  BY DEF Explained, Single, IsResult, IsCommand
<1>2. \A y \in messages : About(y)'
  BY DEF Explained, About, IsResult, IsCommand
<1>3. About(x)'
  BY DEF About, IsResult, IsCommand
<1>. QED  BY <1>1, <1>2, <1>3

LEMMA ExplainedNext == Explained /\ Derived /\ TypeOK /\ [Next]_vars => Explained'
<1>. SUFFICES ASSUME Explained, Derived, TypeOK, [Next]_vars, reruns' = 0
              PROVE  /\ Single'
                     /\ \A x \in messages' : About(x)'
                     /\ \A d \in decisions' : d.payload.explain.action = d.payload.policy.action
  BY DEF Explained
<1>1. CASE UNCHANGED vars
  BY <1>1 DEF Explained, Single, About, IsCommand, IsResult, vars
<1>2. CASE Next
  <2>1. PICK m \in messages : RunAgent(m) \/ Advance(m) \/ Decide(m) \/ Retry(m)
    BY <1>2 DEF Next
  <2>2. reruns \in Nat /\ Wellformed(m) /\ m.step \in Steps
    BY AssessmentAssumption DEF TypeOK, Derived, MessageDerived, Wellformed
  <2>3. ~ Retry(m) /\ reruns = 0
    BY <2>1, <2>2 DEF Retry, RunAgent, Advance, Decide, Deliver
  <2>4. /\ Id(m) \notin handled /\ handled' = handled \cup {Id(m)}
        /\ Id(m) = [kind |-> m.kind, step |-> m.step, branch |-> 0] /\ m.branch = 0
    BY <2>1, <2>2, <2>3 DEF RunAgent, Advance, Decide, Deliver, Id, Explained, Single
  <2>5. CASE RunAgent(m)
    <3>1. PICK rules \in deployed :
            LET result == Message("result", m.step, m.branch, Output(m.step, m.content, rules)) IN
            messages' = messages \cup {result}
      BY <2>5 DEF RunAgent
    <3>. DEFINE out == Output(m.step, m.content, rules)
                result == Message("result", m.step, m.branch, out)
    <3>2. messages' = messages \cup {result}
      BY <3>1
    <3>3. /\ m.step = "explain" => out.action = m.content["policy"].action
          /\ m.step = "aggregate" => /\ out.policy = m.content["policy"]
                                     /\ out.explain = m.content["explain"]
      BY DEF Output, Explain, Aggregate
    <3>. HIDE DEF out
    <3>4. /\ result.kind = "result" /\ result.step = m.step /\ result.branch = 0
          /\ result.content = out /\ Wellformed(result)
      BY <2>2, <2>4, MessageFields
    <3>. HIDE DEF result
    <3>5. m.kind = "command"
      BY <2>5 DEF RunAgent
    <3>6. \A y \in messages : ~ (y.kind = result.kind /\ y.step = result.step)
      BY <2>2, <2>3, <2>4, <3>4, <3>5 DEF Explained, Single, IsResult
    <3>7. About(result)
      BY <2>3, <3>3, <3>4, <3>5 DEF Explained, About, IsCommand, IsResult
    <3>8. \A s \in Steps :
            IsResult(result, s) => [kind |-> "command", step |-> s, branch |-> 0] \in handled'
      BY <2>4, <3>4, <3>5 DEF IsResult
    <3>9. \A s \in Earlier : ~ IsCommand(result, NextStep[s])
      BY <3>4 DEF IsCommand
    <3>10. Single' /\ \A y \in messages' : About(y)'
      BY <2>3, <2>4, <3>2, <3>4, <3>6, <3>7, <3>8, <3>9, OneMore
    <3>. QED  BY <2>3, <2>5, <3>10 DEF RunAgent, Explained
  <2>6. CASE Advance(m)
    <3>1. PICK found \in [Reads[m.step] -> UNION {Found(rows', s) : s \in Reads[m.step]}] :
            /\ \A s \in Reads[m.step] : found[s] \in Found(rows', s)
            /\ messages' = messages \cup
                 {Message("command", NextStep[m.step], m.branch, Input(m, found))}
      BY <2>6 DEF Advance
    <3>. DEFINE in == Input(m, found)
                next == NextStep[m.step]
                req == Message("command", next, m.branch, in)
    <3>2. m.kind = "result" /\ m.step \in {"context", "risk", "policy", "explain"}
      BY <2>6 DEF Advance, Earlier
    <3>3. next \in Steps /\ \A s \in Earlier : NextStep[s] = next => s = m.step
      BY <3>2 DEF NextStep, Earlier, Steps
    <3>4. /\ next = "explain" => m.step = "policy"
          /\ next = "aggregate" => m.step = "explain"
      BY <3>2 DEF NextStep
    <3>5. /\ m.step = "policy" => in["policy"] = m.content
          /\ m.step = "explain" => in["explain"] = m.content /\ in["policy"] = found["policy"]
      BY <3>1 DEF Input, Reads, Earlier
    <3>6. m.step = "explain" =>
            \E p \in messages : IsResult(p, "policy") /\ p.content = found["policy"]
      <4>1. rows' \subseteq {x \in messages : x.kind = "result"}
        BY <2>6, StoredRows DEF Advance, Derived
      <4>2. m.step = "explain" => found["policy"] \in Found(rows', "policy")
        BY <3>1 DEF Reads
      <4>. QED  BY <4>1, <4>2 DEF Found, IsResult
    <3>7. messages' = messages \cup {req}
      BY <3>1
    <3>. HIDE DEF in, next
    <3>8. /\ req.kind = "command" /\ req.step = next /\ req.branch = 0 /\ req.content = in
          /\ Wellformed(req)
      BY <2>4, <3>3, MessageFields
    <3>. HIDE DEF req
    <3>9. \A y \in messages : ~ (y.kind = req.kind /\ y.step = req.step)
      BY <2>3, <2>4, <3>2, <3>8 DEF Explained, Single, IsCommand, Earlier, next
    <3>10. About(req)
      <4>1. next = "explain" =>
              \E p \in messages : IsResult(p, "policy") /\ in["policy"].action = p.content.action
        BY <3>2, <3>4, <3>5 DEF IsResult
      <4>2. next = "aggregate" => in["explain"].action = in["policy"].action
        <5>. SUFFICES ASSUME next = "aggregate" PROVE in["explain"].action = in["policy"].action
          OBVIOUS
        <5>1. PICK p \in messages : IsResult(p, "policy") /\ m.content.action = p.content.action
          BY <2>3, <3>2, <3>4 DEF Explained, About, IsResult
        <5>2. PICK q \in messages : IsResult(q, "policy") /\ q.content = found["policy"]
          BY <3>4, <3>6
        <5>3. p = q
          BY <2>3, <5>1, <5>2 DEF Explained, Single, IsResult
        <5>. QED  BY <3>4, <3>5, <5>1, <5>2, <5>3
      <4>. QED  BY <3>8, <4>1, <4>2 DEF About, IsCommand, IsResult
    <3>11. \A s \in Steps : ~ IsResult(req, s)
      BY <3>8 DEF IsResult
    <3>12. \A s \in Earlier :
             IsCommand(req, NextStep[s]) => [kind |-> "result", step |-> s, branch |-> 0] \in handled'
      BY <2>4, <3>2, <3>3, <3>8 DEF IsCommand
    <3>13. Single' /\ \A y \in messages' : About(y)'
      BY <2>3, <2>4, <3>7, <3>8, <3>9, <3>10, <3>11, <3>12, OneMore
    <3>. QED  BY <2>3, <2>6, <3>13 DEF Advance, Explained
  <2>7. CASE Decide(m)
    <3>1. messages' = messages /\ handled \subseteq handled'
      BY <2>4, <2>7 DEF Decide
    <3>2. Single' /\ \A y \in messages' : About(y)'
      BY <2>3, <3>1 DEF Explained, Single, About, IsResult, IsCommand
    <3>3. \A d \in decisions' : d \in decisions \/ d = [branch |-> m.branch, payload |-> m.content]
      BY <2>7 DEF Decide
    <3>4. m.content.explain.action = m.content.policy.action
      BY <2>3, <2>7 DEF Decide, Explained, About, IsResult
    <3>. QED  BY <2>3, <3>2, <3>3, <3>4 DEF Explained
  <2>. QED  BY <2>1, <2>3, <2>5, <2>6, <2>7
<1>. QED  BY <1>1, <1>2

\* The stored explanation is about the policy verdict that made the
\* recommendation, unless replicas run different rulesets and something was
\* redelivered or retried (worker.py:144 of decision-orchestrator).
THEOREM ExplanationMatchesHolds == Spec => []ExplanationMatches
<1>1. TypeOK /\ Derived /\ Explained => ExplanationMatches
  <2>. SUFFICES ASSUME TypeOK, Derived, Explained, NEW d \in decisions,
                       d.payload.explain.action # d.payload.policy.action
                PROVE  reruns > 0 /\ \E rules, other \in deployed : rules # other
    BY DEF ExplanationMatches
  <2>1. reruns > 0
    BY AssessmentAssumption DEF Explained, TypeOK
  <2>2. \E rules, other \in deployed : rules # other
    BY DEF Derived, AggregateOk, SomePolicy, SomeAction
  <2>. QED  BY <2>1, <2>2
<1>. QED  BY <1>1, TypeCorrect, DerivedInit, DerivedNext, ExplainedInit, ExplainedNext, PTL DEF Spec
=============================================================================
