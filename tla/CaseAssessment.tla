--------------------------- MODULE CaseAssessment ---------------------------
(***************************************************************************)
(* How decision-orchestrator carries the results of the agents from step   *)
(* to step for one case, while commands and results are redelivered,       *)
(* retried under new identifiers, and replicas of agent-policy run         *)
(* different rulesets during a rollout.                                    *)
(*                                                                         *)
(* CasePipeline has the awaits of these handlers and takes the verdict as  *)
(* given; here a handler is one step, what it publishes is computed by     *)
(* DecisionRules, and the hazard is which results meet in one command: an  *)
(* identifier is deterministic, the content behind it need not be.         *)
(***************************************************************************)
EXTENDS DecisionRules

CONSTANTS
  Transactions,   (* initial_payload of the case                             *)
  Rulesets,       (* ruleset files that replicas of agent-policy may load    *)
  NoResult,       (* a result that a command does not carry                  *)
  MaxReruns       (* bound: redeliveries and retries                         *)

ASSUME AssessmentAssumption ==
  /\ Transactions \subseteq Transaction
  /\ Rulesets \subseteq Ruleset
  /\ MaxReruns \in Nat

VARIABLES
  txn,        (* cases.initial_payload                                       *)
  deployed,   (* rulesets in use                                             *)
  messages,   (* commands and results on the streams                         *)
  rows,       (* results in case_events, one per identifier                  *)
  handled,    (* identifiers whose handler ran                               *)
  decisions,  (* SYSTEM_RECOMMENDATION rows, one per source event            *)
  reruns      (* history: redeliveries and retries                           *)

vars == <<txn, deployed, messages, rows, handled, decisions, reruns>>

Earlier == {"context", "risk", "policy", "explain"}
Steps == Earlier \cup {"aggregate"}

\* A retry hashes its attempt into the identifier, and so into those of all
\* that follows: it starts a branch.
Id(m) == [kind |-> m.kind, step |-> m.step, branch |-> m.branch]
Message(kind, step, branch, content) ==
  [kind |-> kind, step |-> step, branch |-> branch, content |-> content]

NextStep == [context |-> "risk", risk |-> "policy", policy |-> "explain",
             explain |-> "aggregate"]

\* Results that the orchestrator reads back to build the next command.
Reads == [context |-> {}, risk |-> {"context"}, policy |-> {"risk"},
          explain |-> {"context", "risk", "policy"}]

Init ==
  /\ txn \in Transactions
  /\ deployed \in SUBSET Rulesets \ {{}}
  /\ messages = {Message("command", "context", 0, [s \in Earlier |-> NoResult])}
  /\ rows = {} /\ handled = {} /\ decisions = {}
  /\ reruns = 0

\* Mutant: the handler of agent-policy looks for the score one level too high
\* and goes on with its default.
OutputScoreless(step, input, rules) ==
  CASE step = "context" -> Context(txn)
    [] step = "risk" -> Risk(txn, input["context"])
    [] step = "policy" -> Policy(rules, txn, input["context"], 0)
    [] step = "explain" -> Explain(input["risk"].risk_score, input["policy"])
    [] step = "aggregate" ->
         Aggregate(input["risk"].risk_score, input["policy"], input["explain"])

\* Mutant: the handler of agent-llm-explainer does the same with the action.
OutputActionless(step, input, rules) ==
  CASE step = "context" -> Context(txn)
    [] step = "risk" -> Risk(txn, input["context"])
    [] step = "policy" -> Policy(rules, txn, input["context"], input["risk"].risk_score)
    [] step = "explain" ->
         Explain(input["risk"].risk_score, [input["policy"] EXCEPT !.action = "REVIEW"])
    [] step = "aggregate" ->
         Aggregate(input["risk"].risk_score, input["policy"], input["explain"])

\* What an agent makes of the input of a command.
Output(step, input, rules) ==
  CASE step = "context" -> Context(txn)
    [] step = "risk" -> Risk(txn, input["context"])
    [] step = "policy" -> Policy(rules, txn, input["context"], input["risk"].risk_score)
    [] step = "explain" -> Explain(input["risk"].risk_score, input["policy"])
    [] step = "aggregate" ->
         Aggregate(input["risk"].risk_score, input["policy"], input["explain"])

\* consumer_dedup stops all but redeliveries that race with the outcome.
Deliver(m) ==
  /\ handled' = handled \cup {Id(m)}
  /\ \/ Id(m) \notin handled /\ UNCHANGED reruns
     \/ reruns < MaxReruns /\ reruns' = reruns + 1

\* Mutant: without the ON CONFLICT clause.
StoredAgain(m) == rows \cup {m}

\* append_case_event: ON CONFLICT (event_id) DO NOTHING.
Stored(m) == IF \E r \in rows : Id(r) = Id(m) THEN rows ELSE rows \cup {m}

\* _handle of an agent; it may die between XADD and append_case_event.
RunAgent(m) ==
  /\ m.kind = "command"
  /\ Deliver(m)
  /\ \E rules \in deployed :
       LET result == Message("result", m.step, m.branch, Output(m.step, m.content, rules)) IN
       /\ messages' = messages \cup {result}
       /\ rows' \in {rows, Stored(result)}
  /\ UNCHANGED <<txn, deployed, decisions>>

\* occurred_at is the clock of the replica that built an event, so any result
\* of a step may be the latest one.
Found(stored, step) == {r.content : r \in {x \in stored : x.step = step}}

Input(m, found) ==
  [s \in Earlier |-> IF s = m.step THEN m.content
                     ELSE IF s \in DOMAIN found THEN found[s] ELSE NoResult]

\* _handle_event on the result of a step: record it, read, request the next.
Advance(m) ==
  /\ m.kind = "result" /\ m.step \in Earlier
  /\ Deliver(m)
  /\ rows' = Stored(m)
  /\ \E found \in [Reads[m.step] -> UNION {Found(rows', s) : s \in Reads[m.step]}] :
       /\ \A s \in Reads[m.step] : found[s] \in Found(rows', s)
       /\ messages' = messages \cup
            {Message("command", NextStep[m.step], m.branch, Input(m, found))}
  /\ UNCHANGED <<txn, deployed, decisions>>

\* _handle_event on agent.aggregate.completed: ON CONFLICT (decision_id) DO
\* NOTHING keeps the first row of an event.
Decide(m) ==
  /\ m.kind = "result" /\ m.step = "aggregate"
  /\ Deliver(m)
  /\ rows' = Stored(m)
  /\ decisions' = IF \E d \in decisions : d.branch = m.branch THEN decisions
                  ELSE decisions \cup {[branch |-> m.branch, payload |-> m.content]}
  /\ UNCHANGED <<txn, deployed, messages>>

\* The handler raised, before or after it published: retry_event, or an
\* operator's replay of the dead letter.
Retry(m) ==
  /\ reruns < MaxReruns
  /\ reruns' = reruns + 1
  /\ messages' = messages \cup {[m EXCEPT !.branch = reruns + 1]}
  /\ handled' = handled \cup {Id(m)}
  /\ UNCHANGED <<txn, deployed, rows, decisions>>

Next == \E m \in messages : RunAgent(m) \/ Advance(m) \/ Decide(m) \/ Retry(m)

Spec == Init /\ [][Next]_vars

-----------------------------------------------------------------------------
(***************************************************************************)
(* Properties.                                                             *)
(***************************************************************************)
\* The shape of the state: an identifier has one row, and only results that
\* were published have one.
TypeOK ==
  /\ txn \in Transactions
  /\ deployed \in SUBSET Rulesets \ {{}}
  /\ \A m \in messages :
       m.kind \in {"command", "result"} /\ m.step \in Steps /\ m.branch \in 0..MaxReruns
  /\ rows \subseteq {m \in messages : m.kind = "result"}
  /\ \A r, x \in rows : Id(r) = Id(x) => r = x
  /\ handled \subseteq {Id(m) : m \in messages}
  /\ \A d \in decisions :
       d.payload \in {r.content : r \in {x \in messages : x.step = "aggregate"}}
  /\ reruns \in 0..MaxReruns

\* However results of different branches and redeliveries meet, a recorded
\* recommendation is what one of the deployed rulesets says of the
\* transaction.  With one ruleset all branches of a case agree, which is why
\* CasePipeline has one verdict.
VerdictDerived ==
  \A d \in decisions : \E rules \in deployed :
    d.payload.recommendation = Verdict(rules, txn)

\* A transaction that is riskier in every respect is not treated more mildly.
RiskierNotMilder ==
  \A d \in decisions, t \in Transactions :
    Riskier(txn, t) =>
      \E rules \in deployed :
        Severity(Verdict(rules, t)) >= Severity(d.payload.recommendation)

\* The explanation stored with a recommendation is about the policy verdict
\* that made it.  It takes a rollout and a redelivery or retry at once to mix
\* them: the orchestrator reads the latest result of a step, not the one its
\* event descends from.
ExplanationMatches ==
  \A d \in decisions :
    \/ d.payload.explain.action = d.payload.policy.action
    \/ reruns > 0 /\ \E rules, other \in deployed : rules # other
=============================================================================
