---------------------------- MODULE CasePipeline ----------------------------
(***************************************************************************)
(* One case of FraudLiveSystem from case.created to its final decision:    *)
(* decision-orchestrator, the five agents, human-review-api and            *)
(* dlq-ops-api over Redis streams and PostgreSQL.                          *)
(*                                                                         *)
(* A handler is the list of its awaits, and one action runs one await.     *)
(* Stream delivery is what EventDelivery promises and StreamWorker         *)
(* implements: an event is handed to its service until an outcome is       *)
(* recorded in consumer_dedup.  No handler touches another case, so one    *)
(* case is enough.                                                         *)
(*                                                                         *)
(* Identifiers are UUIDv5 hashes of an ancestry: case, type and step, the  *)
(* causing event, the attempt, what was replayed.  An event therefore      *)
(* carries its own attempt and tag and, as "past", those of its ancestors  *)
(* that were retried or tagged; type and step imply the other ancestors.   *)
(* Two events are equal exactly when their identifiers are.                *)
(***************************************************************************)
EXTENDS Naturals, Sequences, FiniteSets

CONSTANTS
  Actors,              (* replicas of the services, and API clients         *)
  Serves,              (* the service each actor is a replica or client of  *)
  Reviews,             (* decisions a reviewer may send: reviewer, outcome  *)
  Verdicts,            (* recommendations the agents may come to            *)
  NoTag,               (* tag of a hop that is neither review nor replay    *)
  RetryLimits,         (* values of settings.max_retry_attempts             *)
  Databases,           (* "PostgreSQL" with SCHEMA_SQL, or "FakeDB": the    *)
                       (* database of the end-to-end tests, no foreign keys *)
  MaxRaises,           (* bound: handlers that raise                        *)
  MaxInterruptions,    (* bound: crashes, loop errors and late reclaims     *)
  MaxReplays,          (* bound: calls of the DLQ replay endpoint           *)
  MaxBusy              (* bound: handlers in progress at the same time      *)

AgentStep == {"context", "risk", "policy", "explain", "aggregate"}
Step == AgentStep \cup {"review"}
Clients == {"reviewer", "operator"}
Service == Step \cup Clients \cup {"orchestrator", "dlq-ops"}

ASSUME PipelineAssumption ==
  /\ Serves \in [Actors -> Service]
  /\ Verdicts \subseteq {"ALLOW", "BLOCK", "REVIEW"}
  /\ NoTag \notin Reviews \cup Nat /\ \A v \in Reviews : v \notin Nat
  /\ RetryLimits \subseteq Nat \ {0}
  /\ Databases \subseteq {"PostgreSQL", "FakeDB"}
  /\ {MaxRaises, MaxInterruptions, MaxReplays, MaxBusy} \subseteq Nat

VARIABLES
  database,       (* what stores the tables below                           *)
  verdict,        (* what the agents, being deterministic, recommend        *)
  maxRetryAttempts,  (* settings.max_retry_attempts of the services         *)
  published,      (* events on the streams, dead letters included           *)
  settled,        (* events with a row in consumer_dedup                    *)
  caseEvents,     (* table case_events                                      *)
  decisions,      (* table decision_records                                 *)
  latest,         (* kind of its row that was created last                  *)
  agentRuns,      (* table agent_runs: input events                         *)
  actions,        (* table human_review_actions: source events              *)
  phase,          (* where each actor is                                    *)
  job,            (* the event it handles, or NoEvent                       *)
  todo,           (* awaits of the handler that are left                    *)
  answers,        (* history: answers of the review endpoint                *)
  raises, interruptions, replays  (* history: how often each happened       *)

tables == <<caseEvents, decisions, latest, agentRuns, actions>>
history == <<answers, raises, interruptions, replays>>
setting == <<database, verdict, maxRetryAttempts>>
vars == <<setting, published, settled, tables, phase, job, todo, history>>

-----------------------------------------------------------------------------
(***************************************************************************)
(* Events.                                                                 *)
(***************************************************************************)
Type == {"created", "requested", "completed", "required", "finalized", "dead"}
Tag == Reviews \cup Nat \cup {NoTag}
Hop == [type : Type, step : Step \cup {"case"}, attempt : 1..maxRetryAttempts, tag : Tag]
Event == [type : Type, step : Step \cup {"case"}, attempt : 1..maxRetryAttempts, tag : Tag,
          past : Seq(Hop)]

Ev(type, step, tag, past) ==
  [type |-> type, step |-> step, attempt |-> 1, tag |-> tag, past |-> past]

\* The ancestry that e hands to what it causes.
HopOf(e) == [type |-> e.type, step |-> e.step, attempt |-> e.attempt, tag |-> e.tag]
Past(e) == IF e.attempt = 1 /\ e.tag = NoTag THEN e.past ELSE Append(e.past, HopOf(e))

\* What an idle actor has in hand.
NoEvent == Ev("created", "case", 0, <<>>)

Created == Ev("created", "case", NoTag, <<>>)

Requested(step, e) == Ev("requested", step, NoTag, Past(e))
Completed(e) == Ev("completed", e.step, NoTag, Past(e))
ReviewRequired(e) == Ev("required", "case", NoTag, Past(e))
Finalized(e) == Ev("finalized", "case", NoTag, Past(e))
ReviewCompleted(v) == Ev("completed", "review", v, <<>>)

\* retry_event keeps the content and hashes the next attempt into the id.
Retry(e) == [e EXCEPT !.attempt = @ + 1]

\* A dead letter carries the failed event.  Its own id is random: the serial
\* number stands for it.
DeadLetter(e, serial) == Ev("dead", "case", serial, Append(e.past, HopOf(e)))
IsDead(e) == e.type = "dead"

FailedEvent(d) ==
  LET n == Len(d.past) hop == d.past[n] IN
  [type |-> hop.type, step |-> hop.step, attempt |-> hop.attempt, tag |-> hop.tag,
   past |-> SubSeq(d.past, 1, n - 1)]

\* Mutant: the replayed event keeps its identifier.
ReplayUnchanged(d, reset) ==
  [FailedEvent(d) EXCEPT !.attempt = IF reset THEN 1 ELSE @]

\* replay_dlq_event hashes the dead letter into the id of the failed event.
Replay(d, reset) ==
  [FailedEvent(d) EXCEPT !.tag = d.tag, !.attempt = IF reset THEN 1 ELSE @]

\* The consumer group of the stream an event is published to.
ServiceOf(e) ==
  IF e.type = "requested" THEN e.step
  ELSE IF IsDead(e) THEN "dlq-ops" ELSE "orchestrator"

-----------------------------------------------------------------------------
(***************************************************************************)
(* Handlers.                                                               *)
(***************************************************************************)
Do(what, e) == [do |-> what, event |-> e]

\* Mutant: the event is recorded before it is on the stream.
EmitRecorded(e) == <<Do("record", e), Do("publish", e)>>

\* Every publisher XADDs first and appends to case_events next.
Emit(e) == <<Do("publish", e), Do("record", e)>>

\* The step the orchestrator requests once another one is completed.
NextStep == [context |-> "risk", risk |-> "policy", policy |-> "explain",
             explain |-> "aggregate"]

\* Earlier results it reads from case_events to build that request.
Reads == [context |-> {}, risk |-> {"context"}, policy |-> {"risk"},
          explain |-> {"context", "risk", "policy"}]

\* Mutant: case.finalized is announced, the FINAL row is not written.
FinalizeDropped(e) ==
  <<Do("recommend", e)>> \o
    IF verdict = "REVIEW"
    THEN Emit(ReviewRequired(e)) \o Emit(Requested("review", e))
    ELSE Emit(Finalized(e))

\* Mutant: the final decision is announced before it is recommended.
FinalizeFirst(e) ==
  IF verdict = "REVIEW"
  THEN <<Do("recommend", e)>> \o Emit(ReviewRequired(e)) \o Emit(Requested("review", e))
  ELSE Emit(Finalized(e)) \o <<Do("recommend", e), Do("finalize", e)>>

\* _handle_event on agent.aggregate.completed.
OnRecommendation(e) ==
  <<Do("recommend", e)>> \o
    IF verdict = "REVIEW"
    THEN Emit(ReviewRequired(e)) \o Emit(Requested("review", e))
    ELSE Emit(Finalized(e)) \o <<Do("finalize", e)>>

\* Mutant: the orchestrator does not record what it consumes.
OrchestrateUnrecorded(e) ==
  CASE e.type = "created" -> Emit(Requested("context", e))
    [] e.type = "completed" /\ e.step \in DOMAIN NextStep ->
         <<Do("read", e)>> \o Emit(Requested(NextStep[e.step], e))
    [] e.type = "completed" /\ e.step = "aggregate" -> OnRecommendation(e)
    [] e.type = "completed" /\ e.step = "review" -> <<Do("finalize", e)>>
    [] OTHER -> <<>>

\* OrchestrationWorker._handle_event.
Orchestrate(e) ==
  <<Do("record", e)>> \o
    CASE e.type = "created" -> Emit(Requested("context", e))
      [] e.type = "completed" /\ e.step \in DOMAIN NextStep ->
           <<Do("read", e)>> \o Emit(Requested(NextStep[e.step], e))
      [] e.type = "completed" /\ e.step = "aggregate" -> OnRecommendation(e)
      [] e.type = "completed" /\ e.step = "review" -> <<Do("finalize", e)>>
      [] OTHER -> <<>>

\* Mutant: agents do not record the command they run.
RunAgentUnrecorded(e) == Emit(Completed(e)) \o <<Do("run", e)>>

\* The _handle of the five agents.
RunAgent(e) == <<Do("record", e)>> \o Emit(Completed(e)) \o <<Do("run", e)>>

\* The _handle of human-review-api.
QueueReview(e) == <<Do("record", e), Do("act", e)>>

\* What a replica runs for an event of its stream.
Handler(e) ==
  CASE ServiceOf(e) \in AgentStep -> RunAgent(e)
    [] ServiceOf(e) = "review" -> QueueReview(e)
    [] ServiceOf(e) = "dlq-ops" -> <<Do("record", e)>>
    [] ServiceOf(e) = "orchestrator" -> Orchestrate(e)

\* Mutant: the HUMAN_REVIEW row is not written.
AddDecisionUnrecorded(v) ==
  LET e == ReviewCompleted(v) IN <<Do("act", e)>> \o Emit(e)

\* Mutant: the decision stays in the tables.
AddDecisionSilent(v) ==
  LET e == ReviewCompleted(v) IN
  <<Do("act", e), Do("human", e), Do("record", e)>>

\* Mutant: the completed review is published before it is stored.
AddDecisionPublished(v) ==
  LET e == ReviewCompleted(v) IN
  <<Do("publish", e), Do("act", e), Do("human", e), Do("record", e)>>

\* POST /v1/cases/{case_id}/decision.
AddDecision(v) ==
  LET e == ReviewCompleted(v) IN
  <<Do("act", e), Do("human", e)>> \o Emit(e)

-----------------------------------------------------------------------------
Init ==
  /\ database \in Databases
  /\ verdict \in Verdicts
  /\ maxRetryAttempts \in RetryLimits
  /\ published = {Created}
  /\ settled = {}
  /\ caseEvents = {} /\ decisions = {} /\ latest = "none"
  /\ agentRuns = {} /\ actions = {}
  /\ phase = [a \in Actors |-> "idle"]
  /\ job = [a \in Actors |-> NoEvent]
  /\ todo = [a \in Actors |-> <<>>]
  /\ answers = {}
  /\ raises = 0 /\ interruptions = 0 /\ replays = 0

Free(a) ==
  /\ phase[a] = "idle"
  /\ Cardinality({b \in Actors : phase[b] # "idle"}) < MaxBusy

Begin(a, e, plan) ==
  /\ phase' = [phase EXCEPT ![a] = "handler"]
  /\ job' = [job EXCEPT ![a] = e]
  /\ todo' = [todo EXCEPT ![a] = plan]

Leave(a) ==
  /\ phase' = [phase EXCEPT ![a] = "idle"]
  /\ job' = [job EXCEPT ![a] = NoEvent]
  /\ todo' = [todo EXCEPT ![a] = <<>>]

\* Entries of its stream whose event has no outcome yet.
Pending(a) == {e \in published \ settled : ServiceOf(e) = Serves[a]}
InHand(e) == \E a \in Actors : Serves[a] \notin Clients /\ job[a] = e

\* A replica picks up an entry that no replica works on.
Take(a) ==
  /\ Free(a)
  /\ \E e \in Pending(a) : ~ InHand(e) /\ Begin(a, e, Handler(e))
  /\ UNCHANGED <<setting, published, settled, tables, history>>

\* Another replica still works on it, slowly: XAUTOCLAIM hands it over.
Reclaim(a) ==
  /\ Free(a)
  /\ interruptions < MaxInterruptions
  /\ interruptions' = interruptions + 1
  /\ \E e \in Pending(a) : InHand(e) /\ Begin(a, e, Handler(e))
  /\ UNCHANGED <<setting, published, settled, tables, answers, raises, replays>>

\* A reviewer decides: whatever the case has come to, and as often as wanted.
SubmitReview(a) ==
  /\ Free(a)
  /\ Serves[a] = "reviewer"
  /\ \E v \in Reviews : Begin(a, ReviewCompleted(v), AddDecision(v))
  /\ UNCHANGED <<setting, published, settled, tables, history>>

\* POST /v1/dlq/replay/{event_id} of a dead letter that is listed.
SubmitReplay(a) ==
  /\ Free(a)
  /\ Serves[a] = "operator"
  /\ replays < MaxReplays
  /\ replays' = replays + 1
  /\ \E d \in caseEvents, reset \in BOOLEAN :
       IsDead(d) /\ Begin(a, d, Emit(Replay(d, reset)))
  /\ UNCHANGED <<setting, published, settled, tables, answers, raises, interruptions>>

-----------------------------------------------------------------------------
(***************************************************************************)
(* One await of a handler.                                                 *)
(***************************************************************************)
Perform(a, what) ==
  /\ phase[a] = "handler"
  /\ todo[a] # <<>>
  /\ Head(todo[a]).do = what
  /\ todo' = [todo EXCEPT ![a] = Tail(@)]
  /\ UNCHANGED <<setting, settled, phase, job, history>>

Subject(a) == Head(todo[a]).event

\* A row may name an event only if the event has a row of its own.
SourceExists(e) == database = "PostgreSQL" => e \in caseEvents

\* broker.publish.
PublishEvent(a) ==
  /\ Perform(a, "publish")
  /\ published' = published \cup {Subject(a)}
  /\ UNCHANGED tables

\* append_case_event: ON CONFLICT (event_id) DO NOTHING.
RecordEvent(a) ==
  /\ Perform(a, "record")
  /\ caseEvents' = caseEvents \cup {Subject(a)}
  /\ UNCHANGED <<published, decisions, latest, agentRuns, actions>>

\* get_case and get_latest_event_payload.  ReadsFindResults shows that the
\* reads find what they look for, so their default {} is left out.
ReadResults(a) ==
  /\ Perform(a, "read")
  /\ UNCHANGED <<published, tables>>

\* append_decision_record: the decision_id is a hash of kind and source event.
DecisionKind == [recommend |-> "SYSTEM_RECOMMENDATION", finalize |-> "FINAL",
                 human |-> "HUMAN_REVIEW"]

\* Mutant: the decision_id is random, and so is the column that has to be
\* unique with it.
RecordDecisionRandom(a) ==
  \E what \in DOMAIN DecisionKind :
    LET source == [Subject(a) EXCEPT !.tag = Cardinality(decisions)]
        row == [kind |-> DecisionKind[what], source |-> source] IN
    /\ Perform(a, what)
    /\ SourceExists(Subject(a))
    /\ decisions' = decisions \cup {row}
    /\ latest' = row.kind
    /\ UNCHANGED <<published, caseEvents, agentRuns, actions>>

\* Mutant: a row that is there already is written over.
RecordDecisionAgain(a) ==
  \E what \in DOMAIN DecisionKind :
    LET row == [kind |-> DecisionKind[what], source |-> Subject(a)] IN
    /\ Perform(a, what)
    /\ SourceExists(Subject(a))
    /\ decisions' = decisions \cup {row}
    /\ latest' = row.kind
    /\ UNCHANGED <<published, caseEvents, agentRuns, actions>>

RecordDecision(a) ==
  \E what \in DOMAIN DecisionKind :
    LET row == [kind |-> DecisionKind[what], source |-> Subject(a)] IN
    /\ Perform(a, what)
    /\ SourceExists(Subject(a))
    /\ decisions' = decisions \cup {row}
    /\ latest' = IF row \in decisions THEN latest ELSE row.kind
    /\ UNCHANGED <<published, caseEvents, agentRuns, actions>>

\* append_agent_run: ON CONFLICT (case_id, step_name, attempt) DO NOTHING.
RecordRun(a) ==
  LET SameKey(e) == e.step = Subject(a).step /\ e.attempt = Subject(a).attempt IN
  /\ Perform(a, "run")
  /\ SourceExists(Subject(a)) /\ SourceExists(Completed(Subject(a)))
  /\ agentRuns' = IF \E e \in agentRuns : SameKey(e) THEN agentRuns
                  ELSE agentRuns \cup {Subject(a)}
  /\ UNCHANGED <<published, caseEvents, decisions, latest, actions>>

\* append_human_review_action.
RecordAction(a) ==
  /\ Perform(a, "act")
  /\ SourceExists(Subject(a))
  /\ actions' = actions \cup {Subject(a)}
  /\ UNCHANGED <<published, caseEvents, decisions, latest, agentRuns>>

Await(a) ==
  \/ PublishEvent(a) \/ RecordEvent(a) \/ ReadResults(a)
  \/ RecordDecision(a) \/ RecordRun(a) \/ RecordAction(a)

-----------------------------------------------------------------------------
(***************************************************************************)
(* How a handler ends.                                                     *)
(***************************************************************************)
\* An API client gets an answer; a stream entry gets an outcome.
Answer(a, status) ==
  /\ Leave(a)
  /\ answers' = IF Serves[a] = "reviewer"
                THEN answers \cup {[review |-> job[a].tag, status |-> status]}
                ELSE answers

Goto(a, where) ==
  /\ phase' = [phase EXCEPT ![a] = where]
  /\ todo' = [todo EXCEPT ![a] = <<>>]
  /\ UNCHANGED <<job, answers>>

Return(a) ==
  /\ phase[a] = "handler"
  /\ todo[a] = <<>>
  /\ IF Serves[a] \in Clients THEN Answer(a, "created") ELSE Goto(a, "mark")
  /\ UNCHANGED <<setting, published, settled, tables, raises, interruptions, replays>>

Fail(a) == IF Serves[a] \in Clients THEN Answer(a, "error") ELSE Goto(a, "fail")

\* The service code or one of its calls raises; a call that took effect and
\* lost its reply is the call, then this.
Raise(a) ==
  /\ phase[a] = "handler"
  /\ raises < MaxRaises
  /\ raises' = raises + 1
  /\ Fail(a)
  /\ UNCHANGED <<setting, published, settled, tables, interruptions, replays>>

\* PostgreSQL refuses a row whose source event it does not know.
RaiseForeignKey(a) ==
  /\ phase[a] = "handler"
  /\ todo[a] # <<>>
  /\ Head(todo[a]).do \notin {"publish", "record", "read"}
  /\ ~ SourceExists(Subject(a))
  /\ Fail(a)
  /\ UNCHANGED <<setting, published, settled, tables, raises, interruptions, replays>>

\* _handle_failure.
PublishRetry(a) ==
  /\ phase[a] = "fail"
  /\ job[a].attempt < maxRetryAttempts
  /\ published' = published \cup {Retry(job[a])}
  /\ Goto(a, "mark")
  /\ UNCHANGED <<setting, settled, tables, raises, interruptions, replays>>

\* Mutant: the dead letter is not published.
DropDeadLetter(a) ==
  /\ phase[a] = "fail"
  /\ job[a].attempt >= maxRetryAttempts
  /\ Goto(a, "mark")
  /\ UNCHANGED <<setting, published, settled, tables, raises, interruptions, replays>>

PublishDeadLetter(a) ==
  /\ phase[a] = "fail"
  /\ job[a].attempt >= maxRetryAttempts
  /\ LET serial == Cardinality({d \in published : IsDead(d)}) + 1
     IN published' = published \cup {DeadLetter(job[a], serial)}
  /\ Goto(a, "mark")
  /\ UNCHANGED <<setting, settled, tables, raises, interruptions, replays>>

\* mark_consumer_processed, then XACK.
MarkProcessed(a) ==
  /\ phase[a] = "mark"
  /\ settled' = settled \cup {job[a]}
  /\ Leave(a)
  /\ UNCHANGED <<setting, published, tables, history>>

\* The replica crashes, or its loop breaks on an error: the entry stays
\* pending.  A client is cut off without an answer.
Interrupt(a) ==
  /\ phase[a] # "idle"
  /\ interruptions < MaxInterruptions
  /\ interruptions' = interruptions + 1
  /\ Leave(a)
  /\ UNCHANGED <<setting, published, settled, tables, answers, raises, replays>>

Proceed(a) ==
  \/ Await(a) \/ Return(a) \/ RaiseForeignKey(a)
  \/ PublishRetry(a) \/ PublishDeadLetter(a) \/ MarkProcessed(a)

Next ==
  \E a \in Actors :
    \/ Take(a) \/ Reclaim(a) \/ Proceed(a) \/ Raise(a) \/ Interrupt(a)
    \/ SubmitReview(a) \/ SubmitReplay(a)

Spec == Init /\ [][Next]_vars

\* Streams deliver and begun handlers run on; clients owe nothing.
Fairness ==
  /\ \A a \in Actors : WF_vars(Proceed(a))
  /\ WF_vars(\E a \in Actors : Take(a))

FairSpec == Spec /\ Fairness

-----------------------------------------------------------------------------
(***************************************************************************)
(* Properties.                                                             *)
(***************************************************************************)
Call == [do : {"publish", "record", "read", "run", "act"} \cup DOMAIN DecisionKind,
           event : Event]

\* The shape of the state; only begun handlers have something in hand.
TypeOK ==
  /\ database \in Databases /\ verdict \in Verdicts /\ maxRetryAttempts \in RetryLimits
  /\ published \subseteq Event /\ settled \subseteq published
  /\ caseEvents \subseteq published
  /\ decisions \subseteq [kind : {DecisionKind[k] : k \in DOMAIN DecisionKind}, source : Event]
  /\ latest \in {d.kind : d \in decisions} \cup {"none"}
  /\ agentRuns \subseteq caseEvents
  /\ actions \subseteq Event
  /\ phase \in [Actors -> {"idle", "handler", "fail", "mark"}]
  /\ job \in [Actors -> Event]
  /\ todo \in [Actors -> Seq(Call)]
  /\ answers \subseteq [review : Reviews, status : {"created", "error"}]
  /\ \A a \in Actors : phase[a] = "idle" <=> job[a] = NoEvent
  /\ \A a \in Actors : phase[a] # "handler" => todo[a] = <<>>
  /\ <<raises, interruptions, replays>> \in
       (0..MaxRaises) \X (0..MaxInterruptions) \X (0..MaxReplays)

IsResult(e, step) == e.type = "completed" /\ e.step = step

\* When the orchestrator builds a step request, the earlier results it reads
\* back from case_events are there, whichever service and replica wrote them
\* and whatever was retried: no agent ever runs on the default {}.
ReadsFindResults ==
  \A a \in Actors : todo[a] # <<>> =>
    (Head(todo[a]).do = "read" =>
      \A s \in Reads[Subject(a).step] : \E e \in caseEvents : IsResult(e, s))

Recommendations == {d \in decisions : d.kind = "SYSTEM_RECOMMENDATION"}
HumanReviews == {d \in decisions : d.kind = "HUMAN_REVIEW"}
Finals == {d \in decisions : d.kind = "FINAL"}
Decided(kind, e) == [kind |-> kind, source |-> e] \in decisions
IsHuman(e) == IsResult(e, "review")

\* Human-in-the-loop is enforced for REVIEW (STAN_PROJEKTU_I_FLOW_TECHNICZNY.md
\* :99, README.md:18): a final decision rests either on the recorded decision
\* and action of a reviewer, though it may be drawn from a retry of his event,
\* or on a recorded recommendation other than REVIEW that was announced first.
BackedByReviewer(e) ==
  \E v \in Reviews :
    /\ e.tag \in Reviews => v = e.tag
    /\ Decided("HUMAN_REVIEW", ReviewCompleted(v))
    /\ ReviewCompleted(v) \in actions

FinalsAreBacked ==
  \A d \in decisions : d.kind = "FINAL" =>
    IF IsHuman(d.source)
    THEN BackedByReviewer(d.source)
    ELSE /\ verdict # "REVIEW"
         /\ Decided("SYSTEM_RECOMMENDATION", d.source)
         /\ Finalized(d.source) \in published

\* Identifiers are deterministic, so crashes, late reclaims and repeated
\* publications never duplicate a recommendation: each handler that raised and
\* each replay adds one at most.
ForksBounded ==
  Cardinality(Recommendations) <= 1 + raises + replays

\* A case has one final decision (tests/test_e2e_pipeline.py:389) unless more
\* than one reviewer decided, a handler raised or a dead letter was replayed,
\* each of which adds one at most; the system's own needs a verdict other than
\* REVIEW.
FinalsBounded ==
  Cardinality(Finals)
    <= (IF verdict = "REVIEW" THEN 0 ELSE 1) + Cardinality(HumanReviews) + raises + replays

\* What CaseLifecycle promises of a case, read off tables and streams.  The
\* ancestry that a result hands on identifies its branch.
Lifecycle == INSTANCE CaseLifecycle WITH
  recommended <- {Past(d.source) : d \in Recommendations},
  announced <- {e.past : e \in {x \in published : x.type = "finalized"}},
  waiting <- {e.past : e \in {x \in actions : x.type = "requested"}},
  reviewed <- HumanReviews,
  final <- {Past(d.source) : d \in Finals},
  disturbances <- raises + replays

\* Whatever replicas, crashes and redeliveries do, each branch of a case is
\* recommended first, then announced or put in the review queue as its verdict
\* says, and final decisions follow from announcements and recorded reviews
\* only, as many as these and the raises and replays allow.
ImplementsLifecycle == Lifecycle!Spec

Original(e) == [e EXCEPT !.attempt = 1, !.tag = NoTag]
Published(plan) == {plan[i].event : i \in {j \in DOMAIN plan : plan[j].do = "publish"}}

\* The audit trail is closed: what caused a recorded event is recorded, though
\* publisher and consumer record the same event in either order.
TrailConnected ==
  LET caused == UNION {Published(Handler(c)) : c \in caseEvents} IN
  \A e \in caseEvents :
    IsDead(e) \/ e.type = "created" \/ IsHuman(e) \/ Original(e) \in caused

\* 201 to a reviewer means that the decision is stored and on its way.
AnswerIsDurable ==
  \A x \in answers : x.status = "created" =>
    LET e == ReviewCompleted(x.review) IN
    Decided("HUMAN_REVIEW", e) /\ e \in actions \cap published \cap caseEvents

\* What an await leaves behind; agent_runs keeps one row per step and attempt.
Effective(x) ==
  CASE x.do = "publish" -> x.event \in published
    [] x.do = "record" -> x.event \in caseEvents
    [] x.do \in DOMAIN DecisionKind -> Decided(DecisionKind[x.do], x.event)
    [] x.do = "act" -> x.event \in actions
    [] x.do = "run" -> \E e \in agentRuns : e.step = x.event.step /\ e.attempt = x.event.attempt
    [] OTHER -> TRUE

\* A row in consumer_dedup is never a lie: every await of the handler took
\* effect, or the retry or the dead letter that takes over is on its stream.
SettledIsComplete ==
  \A e \in settled :
    LET plan == Handler(e) IN
    \/ \A i \in DOMAIN plan : Effective(plan[i])
    \/ Retry(e) \in published
    \/ \E d \in published : IsDead(d) /\ FailedEvent(d) = e

\* list_cases shows the decision created last as the latest_decision of a case
\* (clocks of replicas that agree are assumed): once it is FINAL, redelivered
\* recommendations do not put an older one in front of it, unless a handler
\* that raised, a replay or a review adds decisions of its own.
LatestIsFinal ==
  /\ raises = 0 /\ replays = 0
  /\ \A d \in decisions : d.kind # "HUMAN_REVIEW"
  /\ \E d \in decisions : d.kind = "FINAL"
  => latest = "FINAL"

\* A review that PostgreSQL refuses leaves nothing behind, so that no final
\* decision can follow from it.
RefusedReviewLeavesNothing ==
  \A x \in answers : x.status = "error" /\ raises = 0 =>
    LET e == ReviewCompleted(x.review) IN
    /\ e \notin actions \cup published \cup caseEvents
    /\ \A d \in decisions : d.source # e

\* Some attempt of the work of e was given up.
GivenUp(e) ==
  \E d \in published : IsDead(d) /\ Original(FailedEvent(d)) = Original(e)

Replayed(d) == \E reset \in BOOLEAN : Replay(d, reset) \in published
Dead == {d \in published : IsDead(d)}

Resolved ==
  \/ \E d \in decisions : d.kind = "FINAL"
  \/ \E e \in actions : e.type = "requested"

Unreplayed == \E d \in Dead : ~ Replayed(d)

\* When nothing is left to consume, no case has stopped silently on its way
\* through eleven events of seven services, whatever was retried, dead-lettered
\* and replayed: it waits for a reviewer or is decided, the latter if that was
\* announced, or an operator finds a dead letter that was not replayed yet.
DrainedIsResolved ==
  published \subseteq settled =>
    \/ Unreplayed
    \/ /\ Resolved
       /\ (\E e \in published : e.type = "finalized") => Finals # {}

\* A case never stops silently: it is decided, waits for a reviewer, or an
\* operator finds a dead letter that was not replayed yet.
NeverStuck == <>[](Resolved \/ Unreplayed)

\* case.finalized is published before the FINAL row is written: the row
\* follows, or a dead letter tells that it did not.
AnnouncedIsRecorded ==
  (\E e \in published : e.type = "finalized") ~>
    \/ \E d \in decisions : d.kind = "FINAL"
    \/ Dead # {}

\* A review that was answered 201 becomes a final decision of the case, or a
\* dead letter tells that this review did not; whatever the agents do.
AcceptedReviewFinalizes ==
  \A v \in Reviews :
    ([review |-> v, status |-> "created"] \in answers) ~>
      \/ \E d \in decisions : d.kind = "FINAL" /\ d.source.tag = v
      \/ \E d \in Dead : FailedEvent(d).tag = v

\* tests/test_e2e_pipeline.py:389 and STAN_PROJEKTU_I_FLOW_TECHNICZNY.md:14: a
\* case ends in one final decision.
OneFinal == \A d, x \in decisions : d.kind = "FINAL" /\ x.kind = "FINAL" => d = x

\* STAN_PROJEKTU_I_FLOW_TECHNICZNY.md:91: human-review-api stores the decision
\* a reviewer sends and publishes case.human_review.completed.
ReviewSucceeds == \A x \in answers : x.status = "error" => raises > 0
=============================================================================
