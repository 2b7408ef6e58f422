------------------------- MODULE CasePipelineProofs -------------------------
(***************************************************************************)
(* Theorems about CasePipeline, for any number of replicas, reviews,       *)
(* raises, crashes and replays, and for any number of attempts.            *)
(*                                                                         *)
(* The argument has two halves.  Halfway: what a handler has left is the   *)
(* rest of its plan, and what is gone took effect; tables and streams only *)
(* grow, so it stays in effect.  Admissible: whatever is on a stream is    *)
(* explained by what is recorded, and a handler publishes only such        *)
(* events, because the awaits before the publication took effect.          *)
(***************************************************************************)
EXTENDS CasePipeline, FiniteSetTheorems, TLAPS

-----------------------------------------------------------------------------
(***************************************************************************)
(* Concatenations of short tuples.                                         *)
(***************************************************************************)
LEMMA Concat ==
  ASSUME NEW S, NEW s \in Seq(S), NEW t \in Seq(S), NEW u \in Seq(S),
         Len(u) = Len(s) + Len(t),
         \A i \in 1..Len(s) : u[i] = s[i],
         \A i \in 1..Len(t) : u[Len(s) + i] = t[i]
  PROVE  s \o t = u
<1>1. s \o t \in Seq(S) /\ Len(s \o t) = Len(u)
  OBVIOUS
<1>2. \A i \in 1..Len(u) : (s \o t)[i] = u[i]
  OBVIOUS
<1>. QED  BY <1>1, <1>2

LEMMA Concat10 ==
  ASSUME NEW a
  PROVE  <<a>> \o <<>> = <<a>>
<1>. DEFINE S == {a}  s == <<a>>  t == <<>>  u == <<a>>
<1>1. s \in Seq(S) /\ t \in Seq(S) /\ u \in Seq(S)
  OBVIOUS
<1>2. Len(u) = Len(s) + Len(t) /\ \A i \in 1..Len(s) : u[i] = s[i]
  OBVIOUS
<1>3. \A i \in 1..Len(t) : u[Len(s) + i] = t[i]
  OBVIOUS
<1>. HIDE DEF S, s, t, u
<1>4. s \o t = u
  BY <1>1, <1>2, <1>3, Concat
<1>. QED  BY <1>4 DEF s, t, u

LEMMA Concat11 ==
  ASSUME NEW a, NEW b
  PROVE  <<a>> \o <<b>> = <<a, b>>
<1>. DEFINE S == {a, b}  s == <<a>>  t == <<b>>  u == <<a, b>>
<1>1. s \in Seq(S) /\ t \in Seq(S) /\ u \in Seq(S)
  OBVIOUS
<1>2. Len(u) = Len(s) + Len(t) /\ \A i \in 1..Len(s) : u[i] = s[i]
  OBVIOUS
<1>3. \A i \in 1..Len(t) : u[Len(s) + i] = t[i]
  OBVIOUS
<1>. HIDE DEF S, s, t, u
<1>4. s \o t = u
  BY <1>1, <1>2, <1>3, Concat
<1>. QED  BY <1>4 DEF s, t, u

LEMMA Concat12 ==
  ASSUME NEW a, NEW b, NEW c
  PROVE  <<a>> \o <<b, c>> = <<a, b, c>>
<1>. DEFINE S == {a, b, c}  s == <<a>>  t == <<b, c>>  u == <<a, b, c>>
<1>1. s \in Seq(S) /\ t \in Seq(S) /\ u \in Seq(S)
  OBVIOUS
<1>2. Len(u) = Len(s) + Len(t) /\ \A i \in 1..Len(s) : u[i] = s[i]
  OBVIOUS
<1>3. \A i \in 1..Len(t) : u[Len(s) + i] = t[i]
  OBVIOUS
<1>. HIDE DEF S, s, t, u
<1>4. s \o t = u
  BY <1>1, <1>2, <1>3, Concat
<1>. QED  BY <1>4 DEF s, t, u

LEMMA Concat21 ==
  ASSUME NEW a, NEW b, NEW c
  PROVE  <<a, b>> \o <<c>> = <<a, b, c>>
<1>. DEFINE S == {a, b, c}  s == <<a, b>>  t == <<c>>  u == <<a, b, c>>
<1>1. s \in Seq(S) /\ t \in Seq(S) /\ u \in Seq(S)
  OBVIOUS
<1>2. Len(u) = Len(s) + Len(t) /\ \A i \in 1..Len(s) : u[i] = s[i]
  OBVIOUS
<1>3. \A i \in 1..Len(t) : u[Len(s) + i] = t[i]
  OBVIOUS
<1>. HIDE DEF S, s, t, u
<1>4. s \o t = u
  BY <1>1, <1>2, <1>3, Concat
<1>. QED  BY <1>4 DEF s, t, u

LEMMA Concat31 ==
  ASSUME NEW a, NEW b, NEW c, NEW d
  PROVE  <<a, b, c>> \o <<d>> = <<a, b, c, d>>
<1>. DEFINE S == {a, b, c, d}  s == <<a, b, c>>  t == <<d>>  u == <<a, b, c, d>>
<1>1. s \in Seq(S) /\ t \in Seq(S) /\ u \in Seq(S)
  OBVIOUS
<1>2. Len(u) = Len(s) + Len(t) /\ \A i \in 1..Len(s) : u[i] = s[i]
  OBVIOUS
<1>3. \A i \in 1..Len(t) : u[Len(s) + i] = t[i]
  OBVIOUS
<1>. HIDE DEF S, s, t, u
<1>4. s \o t = u
  BY <1>1, <1>2, <1>3, Concat
<1>. QED  BY <1>4 DEF s, t, u

LEMMA Concat13 ==
  ASSUME NEW a, NEW b, NEW c, NEW d
  PROVE  <<a>> \o <<b, c, d>> = <<a, b, c, d>>
<1>. DEFINE S == {a, b, c, d}  s == <<a>>  t == <<b, c, d>>  u == <<a, b, c, d>>
<1>1. s \in Seq(S) /\ t \in Seq(S) /\ u \in Seq(S)
  OBVIOUS
<1>2. Len(u) = Len(s) + Len(t) /\ \A i \in 1..Len(s) : u[i] = s[i]
  OBVIOUS
<1>3. \A i \in 1..Len(t) : u[Len(s) + i] = t[i]
  OBVIOUS
<1>. HIDE DEF S, s, t, u
<1>4. s \o t = u
  BY <1>1, <1>2, <1>3, Concat
<1>. QED  BY <1>4 DEF s, t, u

LEMMA Concat22 ==
  ASSUME NEW a, NEW b, NEW c, NEW d
  PROVE  <<a, b>> \o <<c, d>> = <<a, b, c, d>>
<1>. DEFINE S == {a, b, c, d}  s == <<a, b>>  t == <<c, d>>  u == <<a, b, c, d>>
<1>1. s \in Seq(S) /\ t \in Seq(S) /\ u \in Seq(S)
  OBVIOUS
<1>2. Len(u) = Len(s) + Len(t) /\ \A i \in 1..Len(s) : u[i] = s[i]
  OBVIOUS
<1>3. \A i \in 1..Len(t) : u[Len(s) + i] = t[i]
  OBVIOUS
<1>. HIDE DEF S, s, t, u
<1>4. s \o t = u
  BY <1>1, <1>2, <1>3, Concat
<1>. QED  BY <1>4 DEF s, t, u

LEMMA Concat14 ==
  ASSUME NEW a, NEW b, NEW c, NEW d, NEW e
  PROVE  <<a>> \o <<b, c, d, e>> = <<a, b, c, d, e>>
<1>. DEFINE S == {a, b, c, d, e}  s == <<a>>  t == <<b, c, d, e>>  u == <<a, b, c, d, e>>
<1>1. s \in Seq(S) /\ t \in Seq(S) /\ u \in Seq(S)
  OBVIOUS
<1>2. Len(u) = Len(s) + Len(t) /\ \A i \in 1..Len(s) : u[i] = s[i]
  OBVIOUS
<1>3. \A i \in 1..Len(t) : u[Len(s) + i] = t[i]
  OBVIOUS
<1>. HIDE DEF S, s, t, u
<1>4. s \o t = u
  BY <1>1, <1>2, <1>3, Concat
<1>. QED  BY <1>4 DEF s, t, u

LEMMA Concat15 ==
  ASSUME NEW a, NEW b, NEW c, NEW d, NEW e, NEW f
  PROVE  <<a>> \o <<b, c, d, e, f>> = <<a, b, c, d, e, f>>
<1>. DEFINE S == {a, b, c, d, e, f}  s == <<a>>  t == <<b, c, d, e, f>>  u == <<a, b, c, d, e, f>>
<1>1. s \in Seq(S) /\ t \in Seq(S) /\ u \in Seq(S)
  OBVIOUS
<1>2. Len(u) = Len(s) + Len(t) /\ \A i \in 1..Len(s) : u[i] = s[i]
  OBVIOUS
<1>3. \A i \in 1..Len(t) : u[Len(s) + i] = t[i]
  OBVIOUS
<1>. HIDE DEF S, s, t, u
<1>4. s \o t = u
  BY <1>1, <1>2, <1>3, Concat
<1>. QED  BY <1>4 DEF s, t, u

-----------------------------------------------------------------------------
(***************************************************************************)
(* Events and plans.                                                       *)
(***************************************************************************)
\* A replayed dead letter has a serial number from 1 on, so that no event is
\* NoEvent, and it names the event that failed.
Wellformed(e) ==
  /\ e \in Event
  /\ e.type \in {"requested", "completed"} => e.step \in Step
  /\ e.type = "created" => e.tag # 0
  /\ IsDead(e) => e.tag \in Nat \ {0} /\ e.past # <<>>

\* Steps whose results are there when a step is requested.
Before == [context |-> {}, risk |-> {"context"}, policy |-> {"context", "risk"},
           explain |-> {"context", "risk", "policy"},
           aggregate |-> {"context", "risk", "policy", "explain"}]

\* An event that a handler of c builds.
Caused(c, x) ==
  /\ Wellformed(x) /\ x.attempt = 1 /\ x.tag = NoTag
  /\ ~ IsDead(x) /\ ~ IsHuman(x) /\ x.type # "created"
  /\ x.type \in {"requested", "completed"} /\ x.step \in AgentStep =>
       \/ x.step = "context"
       \/ c.type = "requested" /\ c.step = x.step
       \/ c.type = "completed" /\ c.step \in DOMAIN NextStep /\ x.step = NextStep[c.step]

LEMMA Attempts ==
  ASSUME maxRetryAttempts \in RetryLimits
  PROVE  maxRetryAttempts \in Nat /\ 1 \in 1..maxRetryAttempts
  BY PipelineAssumption

LEMMA TagsDiffer == NoTag \in Tag /\ NoTag \notin Reviews /\ NoTag \notin Nat /\ Reviews \cap Nat = {}
  BY PipelineAssumption DEF Tag

LEMMA PastTyped ==
  ASSUME NEW e \in Event
  PROVE  Past(e) \in Seq(Hop) /\ HopOf(e) \in Hop
<1>1. HopOf(e) \in Hop
  BY DEF HopOf, Event, Hop
<1>. QED  BY <1>1 DEF Past, Event

LEMMA BuiltTyped ==
  ASSUME maxRetryAttempts \in RetryLimits, NEW e \in Event, NEW type \in Type,
         NEW step \in Step \cup {"case"}, NEW tag \in Tag
  PROVE  Ev(type, step, tag, Past(e)) \in Event
  BY Attempts, PastTyped DEF Ev, Event

\* What each handler is made of.
LEMMA RunAgentPlan ==
  ASSUME NEW e
  PROVE  RunAgent(e) = <<Do("record", e), Do("publish", Completed(e)),
                         Do("record", Completed(e)), Do("run", e)>>
<1>1. <<Do("record", e)>> \o Emit(Completed(e)) =
        <<Do("record", e), Do("publish", Completed(e)), Do("record", Completed(e))>>
  BY Concat12 DEF Emit
<1>. QED  BY <1>1, Concat31 DEF RunAgent

LEMMA AddDecisionPlan ==
  ASSUME NEW v
  PROVE  AddDecision(v) = <<Do("act", ReviewCompleted(v)), Do("human", ReviewCompleted(v)),
                            Do("publish", ReviewCompleted(v)), Do("record", ReviewCompleted(v))>>
  BY Concat22 DEF AddDecision, Emit

LEMMA OnRecommendationPlan ==
  ASSUME NEW e
  PROVE  OnRecommendation(e) =
           IF verdict = "REVIEW"
           THEN <<Do("recommend", e), Do("publish", ReviewRequired(e)),
                  Do("record", ReviewRequired(e)), Do("publish", Requested("review", e)),
                  Do("record", Requested("review", e))>>
           ELSE <<Do("recommend", e), Do("publish", Finalized(e)),
                  Do("record", Finalized(e)), Do("finalize", e)>>
<1>1. Emit(ReviewRequired(e)) \o Emit(Requested("review", e)) =
        <<Do("publish", ReviewRequired(e)), Do("record", ReviewRequired(e)),
          Do("publish", Requested("review", e)), Do("record", Requested("review", e))>>
  BY Concat22 DEF Emit
<1>2. Emit(Finalized(e)) \o <<Do("finalize", e)>> =
        <<Do("publish", Finalized(e)), Do("record", Finalized(e)), Do("finalize", e)>>
  BY Concat21 DEF Emit
<1>3. CASE verdict = "REVIEW"
  <2>1. OnRecommendation(e) =
          <<Do("recommend", e)>> \o (Emit(ReviewRequired(e)) \o Emit(Requested("review", e)))
    BY <1>3 DEF OnRecommendation
  <2>. QED  BY <1>1, <1>3, <2>1, Concat14
<1>4. CASE verdict # "REVIEW"
  <2>1. OnRecommendation(e) =
          <<Do("recommend", e)>> \o (Emit(Finalized(e)) \o <<Do("finalize", e)>>)
    BY <1>4 DEF OnRecommendation
  <2>. QED  BY <1>2, <1>4, <2>1, Concat13
<1>. QED  BY <1>3, <1>4

LEMMA OrchestratePlan ==
  ASSUME NEW e
  PROVE  /\ e.type = "created" => Orchestrate(e) =
              <<Do("record", e), Do("publish", Requested("context", e)),
                Do("record", Requested("context", e))>>
         /\ e.type = "completed" /\ e.step \in DOMAIN NextStep => Orchestrate(e) =
              <<Do("record", e), Do("read", e), Do("publish", Requested(NextStep[e.step], e)),
                Do("record", Requested(NextStep[e.step], e))>>
         /\ e.type = "completed" /\ e.step = "aggregate" => Orchestrate(e) =
              IF verdict = "REVIEW"
              THEN <<Do("record", e), Do("recommend", e), Do("publish", ReviewRequired(e)),
                     Do("record", ReviewRequired(e)), Do("publish", Requested("review", e)),
                     Do("record", Requested("review", e))>>
              ELSE <<Do("record", e), Do("recommend", e), Do("publish", Finalized(e)),
                     Do("record", Finalized(e)), Do("finalize", e)>>
         /\ e.type = "completed" /\ e.step = "review" => Orchestrate(e) =
              <<Do("record", e), Do("finalize", e)>>
         /\ e.type \notin {"created", "completed"} => Orchestrate(e) = <<Do("record", e)>>
<1>1. CASE e.type = "created"
  BY <1>1, Concat12 DEF Orchestrate, Emit
<1>2. CASE e.type = "completed" /\ e.step \in DOMAIN NextStep
  <2>1. e.step # "aggregate" /\ e.step # "review"
    BY <1>2 DEF NextStep
  <2>2. <<Do("read", e)>> \o Emit(Requested(NextStep[e.step], e)) =
          <<Do("read", e), Do("publish", Requested(NextStep[e.step], e)),
            Do("record", Requested(NextStep[e.step], e))>>
    BY Concat12 DEF Emit
  <2>3. Orchestrate(e) =
          <<Do("record", e)>> \o (<<Do("read", e)>> \o Emit(Requested(NextStep[e.step], e)))
    BY <1>2, <2>1 DEF Orchestrate
  <2>. QED  BY <1>2, <2>1, <2>2, <2>3, Concat13
<1>3. CASE e.type = "completed" /\ e.step = "aggregate"
  <2>1. e.step \notin DOMAIN NextStep
    BY <1>3 DEF NextStep
  <2>2. Orchestrate(e) = <<Do("record", e)>> \o OnRecommendation(e)
    BY <1>3, <2>1 DEF Orchestrate
  <2>3. CASE verdict = "REVIEW"
    BY <1>3, <2>1, <2>2, <2>3, OnRecommendationPlan, Concat15
  <2>4. CASE verdict # "REVIEW"
    BY <1>3, <2>1, <2>2, <2>4, OnRecommendationPlan, Concat14
  <2>. QED  BY <2>3, <2>4
<1>4. CASE e.type = "completed" /\ e.step = "review"
  <2>1. e.step \notin DOMAIN NextStep
    BY <1>4 DEF NextStep
  <2>. QED  BY <1>4, <2>1, Concat11 DEF Orchestrate
<1>5. CASE e.type \notin {"created", "completed"}
  BY <1>5, Concat10 DEF Orchestrate
<1>. QED  BY <1>1, <1>2, <1>3, <1>4, <1>5

\* What a handler of c builds is caused by c.
LEMMA BuildsCaused ==
  ASSUME maxRetryAttempts \in RetryLimits, NEW c, Wellformed(c)
  PROVE  /\ c.type = "requested" /\ c.step \in AgentStep => Caused(c, Completed(c))
         /\ Caused(c, Requested("context", c))
         /\ c.type = "completed" /\ c.step \in DOMAIN NextStep =>
              Caused(c, Requested(NextStep[c.step], c))
         /\ Caused(c, ReviewRequired(c)) /\ Caused(c, Requested("review", c))
         /\ Caused(c, Finalized(c))
<1>1. \A type \in Type, step \in Step \cup {"case"} :
        LET x == Ev(type, step, NoTag, Past(c)) IN
        /\ x \in Event /\ x.type = type /\ x.step = step /\ x.attempt = 1 /\ x.tag = NoTag
  BY BuiltTyped, TagsDiffer DEF Wellformed, Ev
<1>2. \A type \in Type \ {"created", "dead"}, step \in Step \cup {"case"} :
        (type \in {"requested", "completed"} => step \in Step) /\ ~ (type = "completed" /\ step = "review")
          => LET x == Ev(type, step, NoTag, Past(c)) IN
             /\ Wellformed(x) /\ x.attempt = 1 /\ x.tag = NoTag
             /\ ~ IsDead(x) /\ ~ IsHuman(x) /\ x.type # "created"
  BY <1>1 DEF Wellformed, IsDead, IsHuman, IsResult
<1>3. ASSUME c.type = "requested", c.step \in AgentStep  PROVE Caused(c, Completed(c))
  <2>1. c.step \in Step /\ c.step # "review"
    BY <1>3 DEF AgentStep, Step
  <2>. QED  BY <1>1, <1>2, <1>3, <2>1 DEF Caused, Completed, Type
<1>4. Caused(c, Requested("context", c))
  BY <1>1, <1>2 DEF Caused, Requested, Type, AgentStep, Step
<1>5. ASSUME c.type = "completed", c.step \in DOMAIN NextStep
      PROVE  Caused(c, Requested(NextStep[c.step], c))
  <2>1. NextStep[c.step] \in AgentStep
    BY <1>5 DEF NextStep, AgentStep
  <2>. QED  BY <1>1, <1>2, <1>5, <2>1 DEF Caused, Requested, Type, Step
<1>6. Caused(c, ReviewRequired(c)) /\ Caused(c, Finalized(c))
  BY <1>1, <1>2 DEF Caused, ReviewRequired, Finalized, Type
<1>7. Caused(c, Requested("review", c))
  BY <1>1, <1>2 DEF Caused, Requested, Type, AgentStep, Step
<1>. QED  BY <1>3, <1>4, <1>5, <1>6, <1>7

LEMMA Tuple2 ==
  ASSUME NEW S, NEW a \in S, NEW b \in S
  PROVE  /\ <<a, b>> \in Seq(S) /\ Len(<<a, b>>) = 2
         /\ <<a, b>>[1] = a /\ <<a, b>>[2] = b
  OBVIOUS

LEMMA Tuple3 ==
  ASSUME NEW S, NEW a \in S, NEW b \in S, NEW c \in S
  PROVE  /\ <<a, b, c>> \in Seq(S) /\ Len(<<a, b, c>>) = 3
         /\ <<a, b, c>>[1] = a /\ <<a, b, c>>[2] = b /\ <<a, b, c>>[3] = c
  OBVIOUS

LEMMA Tuple4 ==
  ASSUME NEW S, NEW a \in S, NEW b \in S, NEW c \in S, NEW d \in S
  PROVE  /\ <<a, b, c, d>> \in Seq(S) /\ Len(<<a, b, c, d>>) = 4
         /\ <<a, b, c, d>>[1] = a /\ <<a, b, c, d>>[2] = b
         /\ <<a, b, c, d>>[3] = c /\ <<a, b, c, d>>[4] = d
  OBVIOUS

LEMMA Tuple5 ==
  ASSUME NEW S, NEW a \in S, NEW b \in S, NEW c \in S, NEW d \in S, NEW e \in S
  PROVE  /\ <<a, b, c, d, e>> \in Seq(S) /\ Len(<<a, b, c, d, e>>) = 5
         /\ <<a, b, c, d, e>>[1] = a /\ <<a, b, c, d, e>>[2] = b /\ <<a, b, c, d, e>>[3] = c
         /\ <<a, b, c, d, e>>[4] = d /\ <<a, b, c, d, e>>[5] = e
  OBVIOUS

LEMMA Tuple6 ==
  ASSUME NEW S, NEW a \in S, NEW b \in S, NEW c \in S, NEW d \in S, NEW e \in S, NEW f \in S
  PROVE  /\ <<a, b, c, d, e, f>> \in Seq(S) /\ Len(<<a, b, c, d, e, f>>) = 6
         /\ <<a, b, c, d, e, f>>[1] = a /\ <<a, b, c, d, e, f>>[2] = b /\ <<a, b, c, d, e, f>>[3] = c
         /\ <<a, b, c, d, e, f>>[4] = d /\ <<a, b, c, d, e, f>>[5] = e /\ <<a, b, c, d, e, f>>[6] = f
  OBVIOUS

\* The plan of a handler of c: c is recorded first, an event is published
\* before it is recorded, and announced before the FINAL row.
Ordered(c, p) ==
  /\ p \in Seq(Call) /\ Len(p) >= 1 /\ p[1] = Do("record", c)
  /\ \A k \in 2..Len(p) :
       /\ p[k].do = "record" => k > 2 /\ p[k - 1] = Do("publish", p[k].event)
       /\ p[k].do = "publish" => Caused(c, p[k].event)
       /\ p[k].do \notin {"record", "publish"} => p[k].event = c
       /\ p[k].do # "human"
       /\ p[k].do = "finalize" =>
            \/ IsHuman(c)
            \/ /\ verdict # "REVIEW" /\ k > 3
               /\ p[2] = Do("recommend", c) /\ p[3] = Do("publish", Finalized(c))
       /\ p[k].do = "read" => c.type = "completed" /\ c.step \in DOMAIN NextStep

LEMMA CallTyped ==
  ASSUME NEW e \in Event
  PROVE  \A do \in {"publish", "record", "read", "run", "act", "recommend", "finalize", "human"} :
           Do(do, e) \in Call /\ Do(do, e).do = do /\ Do(do, e).event = e
  BY DEF Do, Call, DecisionKind

LEMMA HandlerOrdered ==
  ASSUME maxRetryAttempts \in RetryLimits, NEW c, Wellformed(c)
  PROVE  Ordered(c, Handler(c)) /\ ServiceOf(c) \notin Clients
<1>1. c \in Event /\ c.type \in Type
  BY DEF Wellformed, Event
<1>2. \A do \in {"publish", "record", "read", "run", "act", "recommend", "finalize", "human"} :
        Do(do, c) \in Call /\ Do(do, c).do = do /\ Do(do, c).event = c
  BY <1>1, CallTyped
<1>3. \A x : Caused(c, x) =>
        /\ Do("publish", x) \in Call /\ Do("publish", x).do = "publish" /\ Do("publish", x).event = x
        /\ Do("record", x) \in Call /\ Do("record", x).do = "record" /\ Do("record", x).event = x
  BY CallTyped DEF Caused, Wellformed
<1>4. CASE c.type = "requested" /\ c.step \in AgentStep
  <2>1. Handler(c) = RunAgent(c) /\ ServiceOf(c) = c.step
    BY <1>4 DEF Handler, ServiceOf, AgentStep
  <2>2. Caused(c, Completed(c))
    BY <1>4, BuildsCaused
  <2>. DEFINE p == Handler(c)  x == Completed(c)
  <2>3. p = <<Do("record", c), Do("publish", x), Do("record", x), Do("run", c)>>
    BY <2>1, RunAgentPlan
  <2>. HIDE DEF p, x
  <2>5. Caused(c, x)
    BY <2>2 DEF x
  <2>6. p \in Seq(Call) /\ Len(p) = 4 /\ p[1] = Do("record", c) /\ p[2] = Do("publish", x)
          /\ p[3] = Do("record", x) /\ p[4] = Do("run", c)
    BY <1>2, <1>3, <2>5, <2>3, Tuple4
  <2>4. Ordered(c, p)
    BY <1>2, <1>3, <2>5, <2>6 DEF Ordered
  <2>. QED  BY <1>4, <2>1, <2>4 DEF p, Clients, AgentStep
<1>5. CASE c.type = "requested" /\ c.step = "review"
  <2>1. Handler(c) = <<Do("record", c), Do("act", c)>> /\ ServiceOf(c) = "review"
    BY <1>5 DEF Handler, ServiceOf, QueueReview, AgentStep
  <2>. QED  BY <1>2, <2>1 DEF Ordered, Clients
<1>6. CASE c.type = "dead"
  <2>1. Handler(c) = <<Do("record", c)>> /\ ServiceOf(c) = "dlq-ops"
    BY <1>6 DEF Handler, ServiceOf, AgentStep, IsDead
  <2>. QED  BY <1>2, <2>1 DEF Ordered, Clients
<1>7. CASE c.type \notin {"requested", "dead"}
  <2>1. Handler(c) = Orchestrate(c) /\ ServiceOf(c) = "orchestrator"
    BY <1>7 DEF Handler, ServiceOf, AgentStep, IsDead
  <2>2. CASE c.type = "created"
    <3>. DEFINE p == Handler(c)  x == Requested("context", c)
    <3>1. Caused(c, x)
      BY BuildsCaused
    <3>2. p = <<Do("record", c), Do("publish", x), Do("record", x)>>
      BY <2>1, <2>2, OrchestratePlan
    <3>. HIDE DEF p, x
    <3>3. p \in Seq(Call) /\ Len(p) = 3 /\ p[1] = Do("record", c)
            /\ p[2] = Do("publish", x) /\ p[3] = Do("record", x)
      BY <1>2, <1>3, <3>1, <3>2, Tuple3
    <3>4. Ordered(c, p)
      BY <1>2, <1>3, <3>1, <3>3 DEF Ordered
    <3>. QED  BY <2>1, <3>4 DEF p, Clients
  <2>3. CASE c.type = "completed" /\ c.step \in DOMAIN NextStep
    <3>. DEFINE p == Handler(c)  x == Requested(NextStep[c.step], c)
    <3>1. Caused(c, x)
      BY <2>3, BuildsCaused
    <3>2. p = <<Do("record", c), Do("read", c), Do("publish", x), Do("record", x)>>
      BY <2>1, <2>3, OrchestratePlan
    <3>. HIDE DEF p, x
    <3>3. p \in Seq(Call) /\ Len(p) = 4 /\ p[1] = Do("record", c) /\ p[2] = Do("read", c)
            /\ p[3] = Do("publish", x) /\ p[4] = Do("record", x)
      BY <1>2, <1>3, <3>1, <3>2, Tuple4
    <3>4. Ordered(c, p)
      BY <1>2, <1>3, <2>3, <3>1, <3>3 DEF Ordered
    <3>. QED  BY <2>1, <3>4 DEF p, Clients
  <2>4. CASE c.type = "completed" /\ c.step = "aggregate"
    <3>1. CASE verdict = "REVIEW"
      <4>. DEFINE p == Handler(c)  x == ReviewRequired(c)  y == Requested("review", c)
      <4>1. Caused(c, x) /\ Caused(c, y)
        BY BuildsCaused
      <4>2. p = <<Do("record", c), Do("recommend", c), Do("publish", x), Do("record", x),
                  Do("publish", y), Do("record", y)>>
        BY <2>1, <2>4, <3>1, OrchestratePlan
      <4>. HIDE DEF p, x, y
      <4>3. p \in Seq(Call) /\ Len(p) = 6 /\ p[1] = Do("record", c) /\ p[2] = Do("recommend", c)
              /\ p[3] = Do("publish", x) /\ p[4] = Do("record", x)
              /\ p[5] = Do("publish", y) /\ p[6] = Do("record", y)
        BY <1>2, <1>3, <4>1, <4>2, Tuple6
      <4>4. Ordered(c, p)
        BY <1>2, <1>3, <4>1, <4>3 DEF Ordered
      <4>. QED  BY <2>1, <4>4 DEF p, Clients
    <3>2. CASE verdict # "REVIEW"
      <4>. DEFINE p == Handler(c)  x == Finalized(c)
      <4>1. Caused(c, x)
        BY BuildsCaused
      <4>2. p = <<Do("record", c), Do("recommend", c), Do("publish", x), Do("record", x),
                  Do("finalize", c)>>
        BY <2>1, <2>4, <3>2, OrchestratePlan
      <4>. HIDE DEF p
      <4>3. p \in Seq(Call) /\ Len(p) = 5 /\ p[1] = Do("record", c) /\ p[2] = Do("recommend", c)
              /\ p[3] = Do("publish", x) /\ p[4] = Do("record", x) /\ p[5] = Do("finalize", c)
        BY <1>2, <1>3, <4>1, <4>2, Tuple5
      <4>4. Ordered(c, p)
        BY <1>2, <1>3, <3>2, <4>1, <4>3 DEF Ordered
      <4>. QED  BY <2>1, <4>4 DEF p, Clients
    <3>. QED  BY <3>1, <3>2
  <2>5. CASE c.type = "completed" /\ c.step = "review"
    <3>. DEFINE p == Handler(c)
    <3>1. p = <<Do("record", c), Do("finalize", c)>>
      BY <2>1, <2>5, OrchestratePlan
    <3>. HIDE DEF p
    <3>2. p \in Seq(Call) /\ Len(p) = 2 /\ p[1] = Do("record", c) /\ p[2] = Do("finalize", c)
      BY <1>2, <3>1, Tuple2
    <3>3. Ordered(c, p)
      BY <1>2, <2>5, <3>2 DEF Ordered, IsHuman, IsResult
    <3>. QED  BY <2>1, <3>3 DEF p, Clients
  <2>6. CASE c.type \notin {"created", "completed"}
    <3>1. Handler(c) = <<Do("record", c)>>
      BY <2>1, <2>6, OrchestratePlan
    <3>. QED  BY <1>2, <2>1, <3>1 DEF Ordered, Clients
  <2>7. c.type = "completed" => c.step \in DOMAIN NextStep \cup {"aggregate", "review"}
    BY DEF Wellformed, NextStep, Step, AgentStep
  <2>. QED  BY <2>2, <2>3, <2>4, <2>5, <2>6, <2>7
<1>8. c.type = "requested" => c.step \in AgentStep \/ c.step = "review"
  BY DEF Wellformed, Step
<1>. QED  BY <1>4, <1>5, <1>6, <1>7, <1>8

-----------------------------------------------------------------------------
(***************************************************************************)
(* What is on the streams is explained by what is recorded.                *)
(***************************************************************************)
Traced(x) ==
  IsDead(x) \/ x.type = "created" \/ IsHuman(x)
    \/ \E c \in caseEvents : Original(x) \in Published(Handler(c))

Chained(x) ==
  x.type \in {"requested", "completed"} /\ x.step \in AgentStep =>
    \A s \in Before[x.step] : \E e \in caseEvents : IsResult(e, s)

\* A dead letter names an event that was published, an event follows from a
\* recorded one, an agent's step from the steps before it, and a completed
\* review from a stored one; PostgreSQL lets no completed review through.
Admissible(x) ==
  /\ Wellformed(x)
  /\ IsDead(x) => FailedEvent(x) \in published
  /\ Traced(x) /\ Chained(x)
  /\ IsHuman(x) => BackedByReviewer(x)
  /\ database = "PostgreSQL" => \A v \in Reviews : x # ReviewCompleted(v)

\* Nothing is ever taken back.
Grows ==
  /\ UNCHANGED setting
  /\ published \subseteq published' /\ settled \subseteq settled'
  /\ caseEvents \subseteq caseEvents' /\ decisions \subseteq decisions'
  /\ agentRuns \subseteq agentRuns' /\ actions \subseteq actions'

LEMMA HandlerFixed ==
  ASSUME NEW c, UNCHANGED setting
  PROVE  Handler(c)' = Handler(c)
  BY DEF Handler, Orchestrate, OnRecommendation, setting

LEMMA EffectiveStays ==
  ASSUME Grows, NEW x, Effective(x)
  PROVE  Effective(x)'
  BY DEF Grows, Effective, Decided, DecisionKind

LEMMA AdmissibleStays ==
  ASSUME Grows, NEW x, Admissible(x)
  PROVE  Admissible(x)'
<1>1. Wellformed(x)'
  BY DEF Grows, setting, Admissible, Wellformed, Event, Hop
<1>2. IsDead(x) => FailedEvent(x) \in published'
  BY DEF Grows, Admissible
<1>3. Traced(x)'
  BY HandlerFixed DEF Grows, Admissible, Traced
<1>4. Chained(x)'
  BY DEF Grows, Admissible, Chained
<1>5. (IsHuman(x) => BackedByReviewer(x))'
  BY DEF Grows, Admissible, BackedByReviewer, Decided
<1>6. database' = database
  BY DEF Grows, setting
<1>. QED  BY <1>1, <1>2, <1>3, <1>4, <1>5, <1>6 DEF Admissible

LEMMA RetryAdmissible ==
  ASSUME maxRetryAttempts \in RetryLimits, NEW e, Admissible(e), e.attempt < maxRetryAttempts
  PROVE  Admissible(Retry(e))
<1>. DEFINE x == Retry(e)
<1>1. e \in Event /\ e.attempt \in 1..maxRetryAttempts /\ Wellformed(e)
  BY DEF Admissible, Wellformed, Event
<1>2. /\ x \in Event /\ x.type = e.type /\ x.step = e.step /\ x.tag = e.tag /\ x.past = e.past
      /\ x.attempt = e.attempt + 1
  BY <1>1, Attempts DEF Retry, Event
<1>3. FailedEvent(x) = FailedEvent(e)
  BY <1>2 DEF FailedEvent
<1>4. Original(x) = Original(e)
  BY <1>1 DEF Original, Retry, Event
<1>. HIDE DEF x
<1>5. Wellformed(x)
  BY <1>1, <1>2 DEF Wellformed, IsDead
<1>6. Traced(x) /\ Chained(x)
  BY <1>2, <1>4 DEF Admissible, Traced, Chained, IsDead, IsHuman, IsResult
<1>7. IsHuman(x) => BackedByReviewer(x)
  BY <1>2 DEF Admissible, IsHuman, IsResult, BackedByReviewer
<1>8. \A v \in Reviews : x # ReviewCompleted(v)
  BY <1>1, <1>2, Attempts DEF ReviewCompleted, Ev
<1>. QED  BY <1>2, <1>3, <1>5, <1>6, <1>7, <1>8 DEF Admissible, IsDead, x

LEMMA DeadLetterAdmissible ==
  ASSUME maxRetryAttempts \in RetryLimits, NEW e \in published, Admissible(e),
         NEW n \in Nat \ {0}
  PROVE  /\ Admissible(DeadLetter(e, n)) /\ IsDead(DeadLetter(e, n))
         /\ FailedEvent(DeadLetter(e, n)) = e
<1>. DEFINE x == DeadLetter(e, n)
<1>1. e \in Event
  BY DEF Admissible, Wellformed
<1>2. FailedEvent(x) = e
  BY <1>1 DEF FailedEvent, DeadLetter, Ev, HopOf, Event, Hop
<1>3. Append(e.past, HopOf(e)) \in Seq(Hop) \ {<<>>}
  BY <1>1, PastTyped DEF Event
<1>4. x.type = "dead" /\ x.tag = n /\ x.past # <<>> /\ x \in Event
  BY <1>1, <1>3, Attempts DEF DeadLetter, Ev, Event, Type, Tag
<1>. HIDE DEF x
<1>5. Wellformed(x)
  BY <1>4 DEF Wellformed, IsDead
<1>. QED  BY <1>2, <1>4, <1>5 DEF Admissible, Traced, Chained, IsDead, IsHuman, IsResult,
                                 ReviewCompleted, Ev, x

LEMMA ReplayAdmissible ==
  ASSUME maxRetryAttempts \in RetryLimits, NEW d, Admissible(d), IsDead(d),
         \A e \in published : Admissible(e), NEW reset \in BOOLEAN
  PROVE  Admissible(Replay(d, reset))
<1>. DEFINE e == FailedEvent(d)  x == Replay(d, reset)
<1>1. e \in published /\ Admissible(e) /\ d.tag \in Nat \ {0}
  BY DEF Admissible, Wellformed
<1>2. x = [e EXCEPT !.tag = d.tag, !.attempt = IF reset THEN 1 ELSE @]
  BY DEF Replay
<1>. HIDE DEF e, x
<1>3. e \in Event /\ e.attempt \in 1..maxRetryAttempts /\ Wellformed(e)
  BY <1>1 DEF Admissible, Wellformed, Event
<1>4. x \in Event /\ x.type = e.type /\ x.step = e.step /\ x.tag = d.tag /\ x.past = e.past
  BY <1>1, <1>2, <1>3, Attempts DEF Event, Tag
<1>5. FailedEvent(x) = FailedEvent(e)
  BY <1>4 DEF FailedEvent
<1>6. Original(x) = Original(e)
  BY <1>2, <1>3 DEF Original, Event
<1>7. Wellformed(x)
  BY <1>1, <1>3, <1>4 DEF Wellformed, IsDead
<1>8. Traced(x) /\ Chained(x)
  BY <1>1, <1>4, <1>6 DEF Admissible, Traced, Chained, IsDead, IsHuman, IsResult
<1>9. x.tag \notin Reviews
  BY <1>1, <1>4, TagsDiffer
<1>10. IsHuman(x) => BackedByReviewer(x)
  BY <1>1, <1>4, <1>9 DEF Admissible, IsHuman, IsResult, BackedByReviewer
<1>11. \A v \in Reviews : x # ReviewCompleted(v)
  BY <1>9 DEF ReviewCompleted, Ev
<1>. QED  BY <1>1, <1>4, <1>5, <1>7, <1>8, <1>10, <1>11 DEF Admissible, IsDead, x

LEMMA CausedAdmissible ==
  ASSUME NEW c \in caseEvents, Admissible(c), NEW x, Caused(c, x), x \in Published(Handler(c))
  PROVE  Admissible(x)
<1>1. Original(x) = x
  BY DEF Caused, Wellformed, Event, Original
<1>2. Chained(x)
  <2>1. CASE x.step = "context"
    BY <2>1 DEF Chained, Before
  <2>2. CASE c.type = "requested" /\ c.step = x.step
    BY <2>2 DEF Chained, Admissible
  <2>3. CASE c.type = "completed" /\ c.step \in DOMAIN NextStep /\ x.step = NextStep[c.step]
    <3>1. c.step \in AgentStep /\ Before[x.step] \subseteq Before[c.step] \cup {c.step}
      BY <2>3 DEF NextStep, AgentStep, Before
    <3>. QED  BY <2>3, <3>1 DEF Chained, Admissible, IsResult
  <2>. QED  BY <2>1, <2>2, <2>3 DEF Caused, Chained
<1>3. \A v \in Reviews : x # ReviewCompleted(v)
  BY DEF Caused, ReviewCompleted, Ev, IsHuman, IsResult
<1>. QED  BY <1>1, <1>2, <1>3 DEF Admissible, Caused, Traced

-----------------------------------------------------------------------------
(***************************************************************************)
(* What a handler has left is the rest of its plan.                        *)
(***************************************************************************)
PlanOf(a, p) ==
  \/ /\ Serves[a] \notin Clients /\ job[a] \in published
     /\ p = Handler(job[a])
  \/ /\ Serves[a] = "reviewer"
     /\ \E v \in Reviews : job[a] = ReviewCompleted(v) /\ p = AddDecision(v)
  \/ /\ Serves[a] = "operator" /\ job[a] \in caseEvents /\ IsDead(job[a])
     /\ \E reset \in BOOLEAN : p = Emit(Replay(job[a], reset))

\* s is what is left of p, and the calls before it took effect.
RestFrom(s, p, k) ==
  /\ k \in 1..(Len(p) + 1) /\ Len(s) = Len(p) + 1 - k
  /\ \A i \in 1..Len(s) : s[i] = p[k - 1 + i]

Halfway(s, p) ==
  \E k \in 1..(Len(p) + 1) : RestFrom(s, p, k) /\ \A i \in 1..(k - 1) : Effective(p[i])

Handling(a) ==
  phase[a] = "handler" => \E p \in Seq(Call) : PlanOf(a, p) /\ Halfway(todo[a], p)

\* The outcome of e that a replica is about to record is no lie.
Settleable(e) ==
  \/ \A i \in DOMAIN Handler(e) : Effective(Handler(e)[i])
  \/ Retry(e) \in published
  \/ \E d \in published : IsDead(d) /\ FailedEvent(d) = e

Outcome(a) ==
  /\ phase[a] \in {"fail", "mark"} => Serves[a] \notin Clients /\ job[a] \in published
  /\ phase[a] = "mark" => Settleable(job[a])

\* PostgreSQL's rows name recorded events.
Referenced ==
  database = "PostgreSQL" =>
    /\ actions \subseteq caseEvents
    /\ \A d \in decisions : d.source \in caseEvents

IInv ==
  /\ TypeOK /\ IsFiniteSet(published)
  /\ \A x \in published : Admissible(x)
  /\ \A a \in Actors : Handling(a) /\ Outcome(a)
  /\ Referenced

LEMMA HalfwayStart ==
  ASSUME NEW p \in Seq(Call)
  PROVE  Halfway(p, p)
  BY DEF Halfway, RestFrom

LEMMA RestNext ==
  ASSUME NEW S, NEW s \in Seq(S), NEW p \in Seq(S), NEW k, RestFrom(s, p, k), s # <<>>
  PROVE  k \in 1..Len(p) /\ Head(s) = p[k] /\ RestFrom(Tail(s), p, k + 1)
<1>1. Len(s) >= 1 /\ Head(s) = s[1] /\ Len(Tail(s)) = Len(s) - 1
        /\ \A i \in 1..Len(Tail(s)) : Tail(s)[i] = s[i + 1]
  OBVIOUS
<1>2. k \in 1..Len(p) /\ Head(s) = p[k]
  BY <1>1 DEF RestFrom
<1>3. k + 1 \in 1..(Len(p) + 1) /\ Len(Tail(s)) = Len(p) + 1 - (k + 1)
  BY <1>1, <1>2 DEF RestFrom
<1>4. ASSUME NEW i \in 1..Len(Tail(s))
      PROVE  Tail(s)[i] = p[(k + 1) - 1 + i]
  <2>1. Tail(s)[i] = s[i + 1]
    BY <1>1
  <2>2. i + 1 \in 1..Len(s) /\ k - 1 + (i + 1) = (k + 1) - 1 + i
    <3>1. i \in Nat /\ k \in Nat /\ Len(s) \in Nat /\ i >= 1 /\ i <= Len(s) - 1
      BY <1>1, <1>2
    <3>. QED  BY <3>1
  <2>3. s[i + 1] = p[k - 1 + (i + 1)]
    BY <2>2 DEF RestFrom
  <2>. QED  BY <2>1, <2>2, <2>3
<1>. QED  BY <1>2, <1>3, <1>4 DEF RestFrom

LEMMA HalfwayEnd ==
  ASSUME NEW p \in Seq(Call), Halfway(<<>>, p)
  PROVE  \A i \in DOMAIN p : Effective(p[i])
<1>1. PICK k \in 1..(Len(p) + 1) :
        Len(<<>>) = Len(p) + 1 - k /\ \A i \in 1..(k - 1) : Effective(p[i])
  BY DEF Halfway, RestFrom
<1>2. DOMAIN p = 1..(k - 1)
  BY <1>1
<1>. QED  BY <1>1, <1>2

LEMMA HalfwayStays ==
  ASSUME Grows, NEW s, NEW p, Halfway(s, p)
  PROVE  Halfway(s, p)'
  BY EffectiveStays DEF Halfway

LEMMA PlanStays ==
  ASSUME Grows, NEW a, NEW p, PlanOf(a, p), job'[a] = job[a]
  PROVE  PlanOf(a, p)'
  BY HandlerFixed DEF Grows, PlanOf

LEMMA SettleableStays ==
  ASSUME Grows, NEW e, Settleable(e)
  PROVE  Settleable(e)'
  BY HandlerFixed, EffectiveStays DEF Grows, Settleable

-----------------------------------------------------------------------------
(***************************************************************************)
(* What a call may rely on when it is its turn.                            *)
(***************************************************************************)
\* A FINAL row with source e has what it must rest on.
Backed(e) ==
  IF IsHuman(e)
  THEN BackedByReviewer(e)
  ELSE /\ verdict # "REVIEW"
       /\ Decided("SYSTEM_RECOMMENDATION", e)
       /\ Finalized(e) \in published

Ready(x) ==
  /\ x \in Call
  /\ x.do = "publish" => Admissible(x.event)
  /\ x.do = "record" => x.event \in published
  /\ x.do = "run" => x.event \in caseEvents
  /\ x.do = "finalize" => Backed(x.event)
  /\ x.do = "read" =>
       \A s \in Reads[x.event.step] : \E e \in caseEvents : IsResult(e, s)

LEMMA Effects ==
  ASSUME NEW e
  PROVE  /\ Effective(Do("publish", e)) <=> e \in published
         /\ Effective(Do("record", e)) <=> e \in caseEvents
         /\ Effective(Do("act", e)) <=> e \in actions
         /\ Effective(Do("human", e)) <=> Decided("HUMAN_REVIEW", e)
         /\ Effective(Do("recommend", e)) <=> Decided("SYSTEM_RECOMMENDATION", e)
         /\ Effective(Do("finalize", e)) <=> Decided("FINAL", e)
<1>1. Effective(Do("publish", e)) <=> e \in published
  BY DEF Effective, Do, DecisionKind
<1>2. Effective(Do("record", e)) <=> e \in caseEvents
  BY DEF Effective, Do, DecisionKind
<1>3. Effective(Do("act", e)) <=> e \in actions
  BY DEF Effective, Do, DecisionKind
<1>4. Effective(Do("human", e)) <=> Decided("HUMAN_REVIEW", e)
  BY DEF Effective, Do, DecisionKind
<1>5. Effective(Do("recommend", e)) <=> Decided("SYSTEM_RECOMMENDATION", e)
  BY DEF Effective, Do, DecisionKind
<1>6. Effective(Do("finalize", e)) <=> Decided("FINAL", e)
  BY DEF Effective, Do, DecisionKind
<1>. QED  BY <1>1, <1>2, <1>3, <1>4, <1>5, <1>6

LEMMA ReadyCases ==
  ASSUME NEW x \in Call,
         \/ x.do = "publish" /\ Admissible(x.event)
         \/ x.do = "record" /\ x.event \in published
         \/ x.do \in {"act", "human", "recommend"}
  PROVE  Ready(x)
<1>1. CASE x.do = "publish" /\ Admissible(x.event)
  BY <1>1 DEF Ready
<1>2. CASE x.do = "record" /\ x.event \in published
  BY <1>2 DEF Ready
<1>3. CASE x.do \in {"act", "human", "recommend"}
  BY <1>3 DEF Ready
<1>. QED  BY <1>1, <1>2, <1>3

LEMMA ServiceReady ==
  ASSUME IInv, NEW c \in published, NEW k \in 1..Len(Handler(c)),
         \A i \in 1..(k - 1) : Effective(Handler(c)[i])
  PROVE  Ready(Handler(c)[k])
<1>. DEFINE p == Handler(c)  x == p[k]
<1>1. Admissible(c) /\ Wellformed(c) /\ maxRetryAttempts \in RetryLimits
  BY DEF IInv, TypeOK, Admissible
<1>2. Ordered(c, p)
  BY <1>1, HandlerOrdered
<1>. SUFFICES Ready(x)
  OBVIOUS
<1>. HIDE DEF p
<1>3. x \in Call /\ k \in 1..Len(p) /\ Len(p) \in Nat
  BY <1>2 DEF Ordered, p
<1>4. Do("record", c).do = "record" /\ Do("record", c).event = c
  BY DEF Do
<1>5. CASE k = 1
  BY <1>2, <1>3, <1>4, <1>5, ReadyCases DEF Ordered
<1>6. CASE k # 1
  <2>1. k \in 2..Len(p) /\ p[1] = Do("record", c)
    BY <1>2, <1>3, <1>6 DEF Ordered
  <2>2. Effective(p[1]) /\ 1 \in 1..(k - 1)
    BY <2>1 DEF p
  <2>3. c \in caseEvents
    BY <2>1, <2>2, Effects
  <2>4. ASSUME x.do = "publish"  PROVE Admissible(x.event)
    <3>1. Caused(c, x.event)
      BY <1>2, <2>1, <2>4 DEF Ordered
    <3>2. x.event \in Published(p)
      BY <1>2, <1>3, <2>4 DEF Published, Ordered
    <3>. QED  BY <1>1, <2>3, <3>1, <3>2, CausedAdmissible DEF p
  <2>5. ASSUME x.do = "record"  PROVE x.event \in published
    <3>1. k > 2 /\ p[k - 1] = Do("publish", x.event)
      BY <1>2, <2>1, <2>5 DEF Ordered
    <3>2. Effective(p[k - 1])
      BY <2>1, <3>1 DEF p
    <3>. QED  BY <3>1, <3>2, Effects
  <2>6. x.do \notin {"record", "publish"} => x.event = c
    BY <1>2, <2>1 DEF Ordered
  <2>7. ASSUME x.do = "finalize"  PROVE Backed(x.event)
    <3>1. x.event = c
      BY <2>6, <2>7
    <3>2. CASE IsHuman(c)
      BY <1>1, <3>1, <3>2 DEF Backed, Admissible
    <3>3. CASE ~ IsHuman(c)
      <4>1. /\ verdict # "REVIEW" /\ k > 3
            /\ p[2] = Do("recommend", c) /\ p[3] = Do("publish", Finalized(c))
        BY <1>2, <2>1, <2>7, <3>3 DEF Ordered
      <4>2. Effective(p[2]) /\ Effective(p[3])
        BY <2>1, <4>1 DEF p
      <4>3. Decided("SYSTEM_RECOMMENDATION", c)
        BY <4>1, <4>2, Effects
      <4>4. Finalized(c) \in published
        BY <4>1, <4>2, Effects
      <4>. QED  BY <3>1, <3>3, <4>1, <4>3, <4>4 DEF Backed
    <3>. QED  BY <3>2, <3>3
  <2>8. ASSUME x.do = "read"
        PROVE  \A s \in Reads[x.event.step] : \E e \in caseEvents : IsResult(e, s)
    <3>1. x.event = c /\ c.type = "completed" /\ c.step \in DOMAIN NextStep
      BY <1>2, <2>1, <2>6, <2>8 DEF Ordered
    <3>2. c.step \in AgentStep /\ Reads[c.step] \subseteq Before[c.step]
      BY <3>1 DEF NextStep, AgentStep, Reads, Before
    <3>. QED  BY <1>1, <3>1, <3>2 DEF Admissible, Chained
  <2>9. x.do = "run" => x.event \in caseEvents
    BY <2>3, <2>6
  <2>. HIDE DEF x
  <2>. QED  BY <1>3, <2>4, <2>5, <2>7, <2>8, <2>9 DEF Ready
<1>. QED  BY <1>5, <1>6 DEF p, x

LEMMA ReviewReady ==
  ASSUME IInv, NEW v \in Reviews, NEW k \in 1..Len(AddDecision(v)),
         \A i \in 1..(k - 1) : Effective(AddDecision(v)[i])
  PROVE  Ready(AddDecision(v)[k])
<1>. DEFINE e == ReviewCompleted(v)  p == AddDecision(v)
<1>1. /\ e.type = "completed" /\ e.step = "review" /\ e.tag = v
      /\ e \in Event /\ Wellformed(e)
  BY Attempts DEF IInv, TypeOK, ReviewCompleted, Ev, Event, Type, Tag, Step, Wellformed, IsDead
<1>2. p = <<Do("act", e), Do("human", e), Do("publish", e), Do("record", e)>>
  BY AddDecisionPlan
<1>3. \A w \in Reviews : e = ReviewCompleted(w) <=> w = v
  BY DEF ReviewCompleted, Ev
<1>. SUFFICES Ready(p[k])
  OBVIOUS
<1>. HIDE DEF p, e
<1>4. \A do \in {"publish", "record", "act", "human"} :
        Do(do, e) \in Call /\ Do(do, e).do = do /\ Do(do, e).event = e
  BY <1>1, CallTyped
<1>5. /\ Len(p) = 4 /\ p[1] = Do("act", e) /\ p[2] = Do("human", e)
      /\ p[3] = Do("publish", e) /\ p[4] = Do("record", e)
  BY <1>2, <1>4, Tuple4
<1>6. k \in 1..4 /\ \A i \in 1..(k - 1) : Effective(p[i])
  BY <1>5 DEF p
<1>7. CASE k \in {1, 2}
  BY <1>4, <1>5, <1>7, ReadyCases
<1>8. CASE k = 3
  <2>1. Effective(Do("act", e)) /\ Effective(Do("human", e))
    BY <1>5, <1>6, <1>8
  <2>2. e \in actions /\ Decided("HUMAN_REVIEW", e)
    BY <2>1, Effects
  <2>3. BackedByReviewer(e)
    BY <1>1, <2>2 DEF BackedByReviewer, e
  <2>4. database # "PostgreSQL"
    <3>1. SUFFICES ASSUME database = "PostgreSQL"  PROVE FALSE
      OBVIOUS
    <3>2. e \in published
      BY <2>2, <3>1 DEF IInv, Referenced, TypeOK
    <3>. QED  BY <3>1, <3>2 DEF IInv, Admissible, e
  <2>5. Admissible(e)
    BY <1>1, <2>3, <2>4 DEF Admissible, Traced, Chained, IsDead, IsHuman, IsResult, AgentStep
  <2>. QED  BY <1>4, <1>5, <1>8, <2>5, ReadyCases
<1>9. CASE k = 4
  <2>1. e \in published
    BY <1>4, <1>5, <1>6, <1>9, Effects
  <2>. QED  BY <1>4, <1>5, <1>9, <2>1, ReadyCases
<1>. QED  BY <1>6, <1>7, <1>8, <1>9 DEF p

LEMMA ReplayReady ==
  ASSUME IInv, NEW d \in caseEvents, IsDead(d), NEW reset \in BOOLEAN,
         NEW k \in 1..Len(Emit(Replay(d, reset))),
         \A i \in 1..(k - 1) : Effective(Emit(Replay(d, reset))[i])
  PROVE  Ready(Emit(Replay(d, reset))[k])
<1>. DEFINE e == Replay(d, reset)  p == Emit(e)
<1>1. Admissible(e)
  BY ReplayAdmissible DEF IInv, TypeOK
<1>2. p = <<Do("publish", e), Do("record", e)>>
  BY DEF Emit
<1>. SUFFICES Ready(p[k])
  OBVIOUS
<1>. HIDE DEF p, e
<1>3. \A do \in {"publish", "record"} :
        Do(do, e) \in Call /\ Do(do, e).do = do /\ Do(do, e).event = e
  BY <1>1, CallTyped DEF Admissible, Wellformed
<1>4. Len(p) = 2 /\ p[1] = Do("publish", e) /\ p[2] = Do("record", e)
  BY <1>2, <1>3, Tuple2
<1>5. k \in {1, 2} /\ \A i \in 1..(k - 1) : Effective(p[i])
  BY <1>4 DEF p, e
<1>6. CASE k = 1
  BY <1>1, <1>3, <1>4, <1>6, ReadyCases
<1>7. CASE k = 2
  <2>1. e \in published
    BY <1>3, <1>4, <1>5, <1>7, Effects
  <2>. QED  BY <1>3, <1>4, <1>7, <2>1, ReadyCases
<1>. QED  BY <1>5, <1>6, <1>7 DEF p, e

\* The call whose turn it is is ready, and once it took effect the handler
\* is halfway still.
LEMMA CallReady ==
  ASSUME IInv, NEW a \in Actors, phase[a] = "handler", todo[a] # <<>>
  PROVE  Ready(Head(todo[a]))
<1>1. PICK p \in Seq(Call) : PlanOf(a, p) /\ Halfway(todo[a], p)
  BY DEF IInv, Handling
<1>2. todo[a] \in Seq(Call)
  BY DEF IInv, TypeOK
<1>3. PICK k \in 1..Len(p) : Head(todo[a]) = p[k] /\ \A i \in 1..(k - 1) : Effective(p[i])
  BY <1>1, <1>2, RestNext DEF Halfway
<1>. QED  BY <1>1, <1>3, ServiceReady, ReviewReady, ReplayReady DEF PlanOf

-----------------------------------------------------------------------------
(***************************************************************************)
(* The steps.                                                              *)
(***************************************************************************)
Starts(a) == Take(a) \/ Reclaim(a) \/ SubmitReview(a) \/ SubmitReplay(a)

Control ==
  /\ phase \in [Actors -> {"idle", "handler", "fail", "mark"}]
  /\ job \in [Actors -> Event] /\ todo \in [Actors -> Seq(Call)]
  /\ \A a \in Actors : phase[a] = "idle" <=> job[a] = NoEvent
  /\ \A a \in Actors : phase[a] # "handler" => todo[a] = <<>>

Untouched(a) ==
  \A b \in Actors \ {a} : phase'[b] = phase[b] /\ job'[b] = job[b] /\ todo'[b] = todo[b]

LEMMA Nothing ==
  ASSUME IInv
  PROVE  /\ NoEvent \in Event /\ <<>> \in Seq(Call)
         /\ \A e \in published : e \in Event /\ e # NoEvent
<1>1. maxRetryAttempts \in RetryLimits
  BY DEF IInv, TypeOK
<1>2. 0 \in Tag /\ "created" \in Type
  BY DEF Tag, Type
<1>3. NoEvent \in Event
  BY <1>1, <1>2, Attempts DEF NoEvent, Ev, Event
<1>4. NoEvent.type = "created" /\ NoEvent.tag = 0
  BY DEF NoEvent, Ev
<1>5. ASSUME NEW e \in published  PROVE e \in Event /\ e # NoEvent
  <2>1. Wellformed(e)
    BY DEF IInv, Admissible
  <2>. QED  BY <1>4, <2>1 DEF Wellformed
<1>. QED  BY <1>3, <1>5

LEMMA BeginControl ==
  ASSUME IInv, UNCHANGED setting, NEW a \in Actors, NEW e \in Event, e # NoEvent,
         NEW p \in Seq(Call), Begin(a, e, p)
  PROVE  /\ Control' /\ Untouched(a)
         /\ phase'[a] = "handler" /\ job'[a] = e /\ todo'[a] = p
<1>1. Event' = Event /\ Call' = Call /\ NoEvent' = NoEvent
  BY DEF setting, Event, Hop, Call, NoEvent
<1>2. Control
  BY DEF IInv, TypeOK, Control
<1>3. /\ phase' \in [Actors -> {"idle", "handler", "fail", "mark"}]
      /\ job' \in [Actors -> Event] /\ todo' \in [Actors -> Seq(Call)]
  BY <1>2 DEF Control, Begin
<1>4. Untouched(a) /\ phase'[a] = "handler" /\ job'[a] = e /\ todo'[a] = p
  BY <1>2 DEF Control, Begin, Untouched
<1>. QED  BY <1>1, <1>2, <1>3, <1>4 DEF Control, Untouched

LEMMA PerformControl ==
  ASSUME IInv, UNCHANGED setting, NEW a \in Actors, NEW what, Perform(a, what)
  PROVE  /\ Control' /\ Untouched(a)
         /\ phase[a] = "handler" /\ todo[a] # <<>>
         /\ phase'[a] = "handler" /\ job'[a] = job[a] /\ todo'[a] = Tail(todo[a])
<1>1. Event' = Event /\ Call' = Call /\ NoEvent' = NoEvent
  BY DEF setting, Event, Hop, Call, NoEvent
<1>2. Control /\ phase[a] = "handler" /\ todo[a] # <<>> /\ phase' = phase /\ job' = job
  BY DEF IInv, TypeOK, Control, Perform
<1>3. todo' = [todo EXCEPT ![a] = Tail(todo[a])] /\ Tail(todo[a]) \in Seq(Call)
  BY <1>2 DEF Control, Perform
<1>4. todo' \in [Actors -> Seq(Call)] /\ Untouched(a) /\ todo'[a] = Tail(todo[a])
  BY <1>2, <1>3 DEF Control, Untouched
<1>. QED  BY <1>1, <1>2, <1>4 DEF Control, Untouched

LEMMA GotoControl ==
  ASSUME IInv, UNCHANGED setting, NEW a \in Actors, phase[a] # "idle",
         NEW where \in {"fail", "mark"}, Goto(a, where)
  PROVE  /\ Control' /\ Untouched(a)
         /\ phase'[a] = where /\ job'[a] = job[a]
<1>1. Event' = Event /\ Call' = Call /\ NoEvent' = NoEvent
  BY DEF setting, Event, Hop, Call, NoEvent
<1>2. Control /\ job' = job
  BY DEF IInv, TypeOK, Control, Goto
<1>3. /\ phase' \in [Actors -> {"idle", "handler", "fail", "mark"}]
      /\ todo' \in [Actors -> Seq(Call)]
  BY <1>2, Nothing DEF Control, Goto
<1>4. Untouched(a) /\ phase'[a] = where /\ todo'[a] = <<>>
  BY <1>2 DEF Control, Goto, Untouched
<1>. QED  BY <1>1, <1>2, <1>3, <1>4 DEF Control, Untouched

LEMMA LeaveControl ==
  ASSUME IInv, UNCHANGED setting, NEW a \in Actors, Leave(a)
  PROVE  Control' /\ Untouched(a) /\ phase'[a] = "idle"
<1>1. Event' = Event /\ Call' = Call /\ NoEvent' = NoEvent
  BY DEF setting, Event, Hop, Call, NoEvent
<1>2. Control
  BY DEF IInv, TypeOK, Control
<1>3. /\ phase' \in [Actors -> {"idle", "handler", "fail", "mark"}]
      /\ job' \in [Actors -> Event] /\ todo' \in [Actors -> Seq(Call)]
  BY <1>2, Nothing DEF Control, Leave
<1>4. Untouched(a) /\ phase'[a] = "idle" /\ job'[a] = NoEvent /\ todo'[a] = <<>>
  BY <1>2 DEF Control, Leave, Untouched
<1>. QED  BY <1>1, <1>2, <1>3, <1>4 DEF Control, Untouched

\* Whoever starts has a plan for what he starts on.
LEMMA StartPlans ==
  ASSUME IInv, NEW a \in Actors, Starts(a)
  PROVE  /\ \E e \in Event, p \in Seq(Call) :
              Begin(a, e, p) /\ e # NoEvent /\ (job'[a] = e => PlanOf(a, p)')
         /\ UNCHANGED <<setting, published, settled, tables, answers, raises>>
<1>1. UNCHANGED <<setting, published, settled, tables, answers, raises>>
  BY DEF Starts, Take, Reclaim, SubmitReview, SubmitReplay, history
<1>2. UNCHANGED setting /\ published' = published /\ caseEvents' = caseEvents
  BY <1>1 DEF tables
<1>3. maxRetryAttempts \in RetryLimits /\ caseEvents \subseteq published
  BY DEF IInv, TypeOK
<1>4. CASE Take(a) \/ Reclaim(a)
  <2>1. PICK e \in Pending(a) : Begin(a, e, Handler(e))
    BY <1>4 DEF Take, Reclaim
  <2>2. e \in published /\ Serves[a] = ServiceOf(e) /\ Wellformed(e)
    BY <2>1 DEF Pending, IInv, Admissible
  <2>3. Handler(e) \in Seq(Call) /\ Serves[a] \notin Clients
    BY <1>3, <2>2, HandlerOrdered DEF Ordered
  <2>4. PICK p \in Seq(Call) : p = Handler(e)
    BY <2>3
  <2>5. job'[a] = e => PlanOf(a, p)'
    BY <1>2, <2>2, <2>3, <2>4, HandlerFixed DEF PlanOf
  <2>6. e \in Event /\ e # NoEvent
    BY <2>2, Nothing
  <2>. QED  BY <1>1, <2>1, <2>4, <2>5, <2>6
<1>5. CASE SubmitReview(a)
  <2>1. PICK v \in Reviews : Begin(a, ReviewCompleted(v), AddDecision(v)) /\ Serves[a] = "reviewer"
    BY <1>5 DEF SubmitReview
  <2>2. ReviewCompleted(v) \in Event /\ ReviewCompleted(v) # NoEvent
    BY <1>3, Attempts DEF ReviewCompleted, NoEvent, Ev, Event, Type, Tag, Step
  <2>3. AddDecision(v) \in Seq(Call)
    BY <2>2, CallTyped, AddDecisionPlan, Tuple4
  <2>4. job'[a] = ReviewCompleted(v) => PlanOf(a, AddDecision(v))'
    BY <2>1 DEF PlanOf
  <2>. QED  BY <1>1, <2>1, <2>2, <2>3, <2>4
<1>6. CASE SubmitReplay(a)
  <2>1. PICK d \in caseEvents, reset \in BOOLEAN :
          IsDead(d) /\ Begin(a, d, Emit(Replay(d, reset))) /\ Serves[a] = "operator"
    BY <1>6 DEF SubmitReplay
  <2>2. d \in published /\ Admissible(d) /\ d \in Event /\ d # NoEvent
    BY <1>3, <2>1, Nothing DEF IInv
  <2>3. Replay(d, reset) \in Event
    BY <1>3, <2>1, <2>2, ReplayAdmissible DEF IInv, Admissible, Wellformed
  <2>4. Emit(Replay(d, reset)) \in Seq(Call)
    BY <2>3, CallTyped, Tuple2 DEF Emit
  <2>5. job'[a] = d => PlanOf(a, Emit(Replay(d, reset)))'
    BY <1>2, <2>1 DEF PlanOf
  <2>. QED  BY <1>1, <2>1, <2>2, <2>4, <2>5
<1>. QED  BY <1>4, <1>5, <1>6 DEF Starts

\* The tables, and how they relate to each other and to the streams.
Stored ==
  /\ caseEvents \subseteq published
  /\ decisions \subseteq [kind : {DecisionKind[k] : k \in DOMAIN DecisionKind}, source : Event]
  /\ latest \in {d.kind : d \in decisions} \cup {"none"}
  /\ agentRuns \subseteq caseEvents
  /\ actions \subseteq Event
  /\ Referenced

\* What a step publishes is admissible.
Admits ==
  /\ IsFiniteSet(published')
  /\ \A y \in published' : y \in published \/ Admissible(y)

LEMMA StoredStays ==
  ASSUME IInv, UNCHANGED <<setting, tables>>, published \subseteq published'
  PROVE  Stored'
<1>1. Event' = Event
  BY DEF setting, Event, Hop
<1>2. Stored
  BY DEF IInv, TypeOK, Stored
<1>. QED  BY <1>1, <1>2 DEF Stored, setting, tables, Referenced

\* An await takes effect, and leaves the tables and the streams sound.
LEMMA AwaitTakesEffect ==
  ASSUME IInv, NEW a \in Actors, Await(a)
  PROVE  /\ Grows /\ Admits /\ Stored'
         /\ \E x : x = Head(todo[a]) /\ Effective(x)'
         /\ UNCHANGED <<setting, settled, history>>
         /\ Control' /\ Untouched(a)
         /\ phase[a] = "handler" /\ todo[a] # <<>>
         /\ phase'[a] = "handler" /\ job'[a] = job[a] /\ todo'[a] = Tail(todo[a])
<1>1. PICK what : Perform(a, what)
  BY DEF Await, PublishEvent, RecordEvent, ReadResults, RecordDecision, RecordRun, RecordAction
<1>2. UNCHANGED <<setting, settled, history>>
  BY <1>1 DEF Perform
<1>3. /\ Control' /\ Untouched(a)
      /\ phase[a] = "handler" /\ todo[a] # <<>>
      /\ phase'[a] = "handler" /\ job'[a] = job[a] /\ todo'[a] = Tail(todo[a])
  BY <1>1, <1>2, PerformControl
<1>4. PICK x : x = Head(todo[a])
  OBVIOUS
<1>5. Ready(x) /\ x \in Call
  BY <1>3, <1>4, CallReady DEF Ready
<1>6. x.event \in Event /\ Event' = Event
  BY <1>2, <1>5 DEF Call, setting, Event, Hop
<1>7. Stored /\ IsFiniteSet(published)
  BY DEF IInv, TypeOK, Stored
<1>8. SUFFICES Grows /\ Admits /\ Stored' /\ Effective(x)'
  BY <1>2, <1>3, <1>4
<1>9. x.do \in DOMAIN DecisionKind <=> x.do \in {"recommend", "finalize", "human"}
  BY DEF DecisionKind
<1>10. CASE PublishEvent(a)
  <2>1. x.do = "publish" /\ published' = published \cup {x.event} /\ UNCHANGED tables
    BY <1>4, <1>10 DEF PublishEvent, Perform, Subject
  <2>2. Admits
    BY <1>5, <1>7, <2>1, FS_AddElement DEF Ready, Admits
  <2>3. Grows
    BY <1>2, <2>1 DEF Grows, tables
  <2>4. Effective(x)'
    BY <1>9, <2>1 DEF Effective
  <2>. QED  BY <1>2, <2>1, <2>2, <2>3, <2>4, StoredStays
<1>11. CASE RecordEvent(a)
  <2>1. /\ x.do = "record" /\ caseEvents' = caseEvents \cup {x.event}
        /\ UNCHANGED <<published, decisions, latest, agentRuns, actions>>
    BY <1>4, <1>11 DEF RecordEvent, Perform, Subject
  <2>2. Stored'
    BY <1>2, <1>5, <1>6, <1>7, <2>1 DEF Ready, Stored, Referenced, setting
  <2>3. Effective(x)'
    BY <1>9, <2>1 DEF Effective
  <2>. QED  BY <1>2, <1>7, <2>1, <2>2, <2>3 DEF Grows, Admits
<1>12. CASE ReadResults(a)
  <2>1. x.do = "read" /\ UNCHANGED <<published, tables>>
    BY <1>4, <1>12 DEF ReadResults, Perform
  <2>2. Effective(x)'
    BY <1>9, <2>1 DEF Effective
  <2>. QED  BY <1>2, <1>7, <2>1, <2>2, StoredStays DEF Grows, Admits, tables
<1>13. CASE RecordDecision(a)
  <2>1. PICK k \in DOMAIN DecisionKind : LET row == [kind |-> DecisionKind[k], source |-> x.event] IN
          /\ Perform(a, k) /\ SourceExists(x.event)
          /\ decisions' = decisions \cup {row}
          /\ latest' = IF row \in decisions THEN latest ELSE row.kind
          /\ UNCHANGED <<published, caseEvents, agentRuns, actions>>
    BY <1>4, <1>13 DEF RecordDecision, Subject
  <2>2. x.do = k
    BY <1>4, <2>1 DEF Perform
  <2>. DEFINE row == [kind |-> DecisionKind[k], source |-> x.event]
  <2>3. /\ row.kind = DecisionKind[k] /\ row.source = x.event
        /\ row \in [kind : {DecisionKind[j] : j \in DOMAIN DecisionKind}, source : Event]
    BY <1>6
  <2>4. /\ decisions' = decisions \cup {row} /\ SourceExists(x.event)
        /\ latest' = IF row \in decisions THEN latest ELSE row.kind
        /\ UNCHANGED <<published, caseEvents, agentRuns, actions>>
    BY <2>1
  <2>5. Effective(x)'
    BY <2>2, <2>4 DEF Effective, Decided, DecisionKind
  <2>. HIDE DEF row
  <2>6. decisions' \subseteq [kind : {DecisionKind[j] : j \in DOMAIN DecisionKind}, source : Event]
    BY <1>7, <2>3, <2>4 DEF Stored
  <2>7. latest' \in {d.kind : d \in decisions'} \cup {"none"}
    BY <1>7, <2>3, <2>4 DEF Stored
  <2>8. Referenced'
    BY <1>2, <1>7, <2>3, <2>4 DEF Stored, Referenced, SourceExists, setting
  <2>9. Stored'
    BY <1>6, <1>7, <2>4, <2>6, <2>7, <2>8 DEF Stored
  <2>. QED  BY <1>2, <1>7, <2>4, <2>5, <2>9 DEF Grows, Admits
<1>14. CASE RecordRun(a)
  <2>. DEFINE SameKey(e) == e.step = x.event.step /\ e.attempt = x.event.attempt
  <2>1. /\ x.do = "run"
        /\ agentRuns' = IF \E e \in agentRuns : SameKey(e) THEN agentRuns
                        ELSE agentRuns \cup {x.event}
        /\ UNCHANGED <<published, caseEvents, decisions, latest, actions>>
    BY <1>4, <1>14 DEF RecordRun, Perform, Subject
  <2>2. agentRuns \subseteq agentRuns' /\ agentRuns' \subseteq agentRuns \cup {x.event}
          /\ \E e \in agentRuns' : SameKey(e)
    BY <2>1
  <2>3. Effective(x)'
    BY <1>9, <2>1, <2>2 DEF Effective
  <2>4. Stored'
    BY <1>2, <1>5, <1>6, <1>7, <2>1, <2>2 DEF Ready, Stored, Referenced, setting
  <2>. QED  BY <1>2, <1>7, <2>1, <2>2, <2>3, <2>4 DEF Grows, Admits
<1>15. CASE RecordAction(a)
  <2>1. /\ x.do = "act" /\ SourceExists(x.event) /\ actions' = actions \cup {x.event}
        /\ UNCHANGED <<published, caseEvents, decisions, latest, agentRuns>>
    BY <1>4, <1>15 DEF RecordAction, Perform, Subject
  <2>2. Stored'
    BY <1>2, <1>6, <1>7, <2>1 DEF Stored, Referenced, SourceExists, setting
  <2>3. Effective(x)'
    BY <1>9, <2>1 DEF Effective
  <2>. QED  BY <1>2, <1>7, <2>1, <2>2, <2>3 DEF Grows, Admits
<1>. QED  BY <1>10, <1>11, <1>12, <1>13, <1>14, <1>15 DEF Await

Ends(a) ==
  \/ Return(a) \/ Raise(a) \/ RaiseForeignKey(a) \/ PublishRetry(a)
  \/ PublishDeadLetter(a) \/ MarkProcessed(a) \/ Interrupt(a)

Answers == answers \subseteq [review : Reviews, status : {"created", "error"}]
Counters ==
  <<raises, interruptions, replays>> \in (0..MaxRaises) \X (0..MaxInterruptions) \X (0..MaxReplays)

LEMMA TypeParts ==
  TypeOK <=> /\ database \in Databases /\ verdict \in Verdicts
             /\ maxRetryAttempts \in RetryLimits
             /\ published \subseteq Event /\ settled \subseteq published
             /\ caseEvents \subseteq published
             /\ decisions \subseteq [kind : {DecisionKind[k] : k \in DOMAIN DecisionKind},
                                     source : Event]
             /\ latest \in {d.kind : d \in decisions} \cup {"none"}
             /\ agentRuns \subseteq caseEvents /\ actions \subseteq Event
             /\ Control /\ Answers /\ Counters
  BY DEF TypeOK, Control, Answers, Counters

LEMMA InHandler ==
  ASSUME IInv, NEW a \in Actors, phase[a] = "handler"
  PROVE  /\ Serves[a] \notin Clients => job[a] \in published
         /\ Serves[a] \notin Clients /\ todo[a] = <<>> => Settleable(job[a])
         /\ Serves[a] = "reviewer" => job[a].tag \in Reviews
<1>1. PICK p \in Seq(Call) : PlanOf(a, p) /\ Halfway(todo[a], p)
  BY DEF IInv, Handling
<1>2. ASSUME Serves[a] \notin Clients  PROVE job[a] \in published /\ p = Handler(job[a])
  BY <1>1, <1>2 DEF PlanOf, Clients
<1>3. ASSUME Serves[a] \notin Clients, todo[a] = <<>>  PROVE Settleable(job[a])
  BY <1>1, <1>2, <1>3, HalfwayEnd DEF Settleable
<1>4. ASSUME Serves[a] = "reviewer"  PROVE job[a].tag \in Reviews
  <2>1. PICK v \in Reviews : job[a] = ReviewCompleted(v)
    BY <1>1, <1>4 DEF PlanOf, Clients
  <2>2. ReviewCompleted(v).tag = v
    BY DEF ReviewCompleted, Ev
  <2>. QED  BY <2>1, <2>2
<1>. QED  BY <1>2, <1>3, <1>4

\* How a handler ends: an outcome is recorded only after what it stands for.
LEMMA EndIsSound ==
  ASSUME IInv, NEW a \in Actors, Ends(a)
  PROVE  /\ Grows /\ Admits /\ Stored' /\ settled' \subseteq published'
         /\ Control' /\ Untouched(a) /\ phase'[a] # "handler" /\ Outcome(a)'
         /\ Answers'
<1>1. UNCHANGED <<setting, tables>>
  BY DEF Ends, Return, Raise, RaiseForeignKey, PublishRetry, PublishDeadLetter, MarkProcessed,
         Interrupt
<1>2. /\ settled \subseteq published /\ Answers /\ maxRetryAttempts \in RetryLimits
      /\ Control /\ UNCHANGED setting /\ IsFiniteSet(published)
      /\ \A e \in published : Admissible(e)
  BY <1>1, TypeParts DEF IInv
<1>3. ASSUME published \subseteq published', settled \subseteq settled'  PROVE Grows /\ Stored'
  BY <1>1, <1>3, StoredStays DEF Grows, tables
<1>4. ASSUME UNCHANGED published  PROVE Admits
  BY <1>2, <1>4 DEF Admits
<1>5. ASSUME Leave(a)
      PROVE  Control' /\ Untouched(a) /\ phase'[a] # "handler" /\ Outcome(a)'
  BY <1>2, <1>5, LeaveControl DEF Outcome
<1>6. ASSUME phase[a] = "handler", NEW status \in {"created", "error"}, Answer(a, status)
      PROVE  Answers'
  BY <1>2, <1>6, InHandler DEF Answers, Answer
<1>7. CASE Return(a)
  <2>1. phase[a] = "handler" /\ todo[a] = <<>> /\ UNCHANGED <<published, settled>>
    BY <1>7 DEF Return
  <2>2. Grows /\ Admits /\ Stored' /\ settled' \subseteq published'
    BY <1>2, <1>3, <1>4, <2>1
  <2>3. CASE Serves[a] \in Clients
    <3>1. Answer(a, "created") /\ Leave(a)
      BY <1>7, <2>3 DEF Return, Answer
    <3>. QED  BY <1>5, <1>6, <2>1, <2>2, <3>1
  <2>4. CASE Serves[a] \notin Clients
    <3>1. Goto(a, "mark")
      BY <1>7, <2>4 DEF Return
    <3>2. Control' /\ Untouched(a) /\ phase'[a] = "mark" /\ job'[a] = job[a]
      BY <1>2, <2>1, <3>1, GotoControl
    <3>3. PICK e \in published : e = job[a] /\ Settleable(e)
      BY <2>1, <2>4, InHandler
    <3>4. Settleable(e)'
      BY <2>2, <3>3, SettleableStays
    <3>5. Outcome(a)'
      BY <2>1, <2>4, <3>2, <3>3, <3>4 DEF Outcome
    <3>. QED  BY <1>2, <2>2, <3>1, <3>2, <3>5 DEF Goto, Answers
  <2>. QED  BY <2>3, <2>4
<1>8. CASE Raise(a) \/ RaiseForeignKey(a)
  <2>1. phase[a] = "handler" /\ Fail(a) /\ UNCHANGED <<published, settled>>
    BY <1>8 DEF Raise, RaiseForeignKey
  <2>2. Grows /\ Admits /\ Stored' /\ settled' \subseteq published'
    BY <1>2, <1>3, <1>4, <2>1
  <2>3. CASE Serves[a] \in Clients
    <3>1. Answer(a, "error") /\ Leave(a)
      BY <2>1, <2>3 DEF Fail, Answer
    <3>. QED  BY <1>5, <1>6, <2>1, <2>2, <3>1
  <2>4. CASE Serves[a] \notin Clients
    <3>1. Goto(a, "fail")
      BY <2>1, <2>4 DEF Fail
    <3>2. Control' /\ Untouched(a) /\ phase'[a] = "fail" /\ job'[a] = job[a]
      BY <1>2, <2>1, <3>1, GotoControl
    <3>3. Outcome(a)'
      BY <2>1, <2>4, <3>2, InHandler DEF Outcome
    <3>. QED  BY <1>2, <2>2, <3>1, <3>2, <3>3 DEF Goto, Answers
  <2>. QED  BY <2>3, <2>4
<1>9. CASE Interrupt(a)
  <2>1. Leave(a) /\ UNCHANGED <<published, settled, answers>>
    BY <1>9 DEF Interrupt
  <2>. QED  BY <1>2, <1>3, <1>4, <1>5, <2>1 DEF Answers
<1>10. CASE MarkProcessed(a)
  <2>1. /\ phase[a] = "mark" /\ settled' = settled \cup {job[a]} /\ Leave(a)
        /\ UNCHANGED <<published, history>>
    BY <1>10 DEF MarkProcessed
  <2>2. job[a] \in published
    BY <2>1 DEF IInv, Outcome
  <2>. QED  BY <1>2, <1>3, <1>4, <1>5, <2>1, <2>2 DEF Answers, history
<1>11. CASE PublishRetry(a) \/ PublishDeadLetter(a)
  <2>1. /\ phase[a] = "fail" /\ Goto(a, "mark") /\ settled' = settled
        /\ Serves[a] \notin Clients
    BY <1>11 DEF PublishRetry, PublishDeadLetter, IInv, Outcome
  <2>2. Control' /\ Untouched(a) /\ phase'[a] = "mark" /\ job'[a] = job[a]
    BY <1>2, <2>1, GotoControl
  <2>3. PICK e \in published : e = job[a]
    BY <2>1 DEF IInv, Outcome
  <2>4. PICK y : /\ published' = published \cup {y} /\ Admissible(y)
                 /\ y = Retry(e) \/ (IsDead(y) /\ FailedEvent(y) = e)
    <3>1. CASE PublishRetry(a)
      BY <1>2, <2>3, <3>1, RetryAdmissible DEF PublishRetry
    <3>2. CASE PublishDeadLetter(a)
      <4>. DEFINE D == {d \in published : IsDead(d)}
      <4>1. Cardinality(D) + 1 \in Nat \ {0}
        <5>1. IsFiniteSet(D)
          BY <1>2, FS_Subset
        <5>. QED  BY <5>1, FS_CardinalityType
      <4>2. published' = published \cup {DeadLetter(e, Cardinality(D) + 1)}
        BY <2>3, <3>2 DEF PublishDeadLetter
      <4>. HIDE DEF D
      <4>. QED  BY <1>2, <2>3, <4>1, <4>2, DeadLetterAdmissible
    <3>. QED  BY <1>11, <3>1, <3>2
  <2>5. Grows /\ Stored'
    BY <1>3, <2>1, <2>4
  <2>6. Admits
    BY <1>2, <2>4, FS_AddElement DEF Admits
  <2>7. Settleable(e)'
    BY <2>4 DEF Settleable
  <2>8. Outcome(a)'
    BY <2>1, <2>2, <2>3, <2>4, <2>7 DEF Outcome
  <2>. QED  BY <1>2, <2>1, <2>2, <2>4, <2>5, <2>6, <2>8 DEF Goto, Answers
<1>. QED  BY <1>7, <1>8, <1>9, <1>10, <1>11 DEF Ends

-----------------------------------------------------------------------------
LEMMA StepParts ==
  ASSUME NEW a \in Actors,
         \/ Take(a) \/ Reclaim(a) \/ Proceed(a) \/ Raise(a) \/ Interrupt(a)
         \/ SubmitReview(a) \/ SubmitReplay(a)
  PROVE  Starts(a) \/ Await(a) \/ Ends(a)
  BY DEF Starts, Ends, Proceed

LEMMA Counted ==
  ASSUME IInv, Next
  PROVE  Counters' /\ raises' \in Nat /\ raises <= raises'
<1>1. Counters
  BY DEF IInv, TypeOK, Counters
<1>2. {MaxRaises, MaxInterruptions, MaxReplays} \subseteq Nat
  BY PipelineAssumption
<1>3. PICK a \in Actors :
        \/ Take(a) \/ Reclaim(a) \/ Proceed(a) \/ Raise(a) \/ Interrupt(a)
        \/ SubmitReview(a) \/ SubmitReplay(a)
  BY DEF Next
<1>4. CASE Take(a) \/ SubmitReview(a)
  BY <1>1, <1>2, <1>4 DEF Take, SubmitReview, history, Counters
<1>5. CASE Reclaim(a) \/ Interrupt(a)
  BY <1>1, <1>2, <1>5 DEF Reclaim, Interrupt, Counters
<1>6. CASE SubmitReplay(a)
  BY <1>1, <1>2, <1>6 DEF SubmitReplay, Counters
<1>7. CASE Raise(a)
  BY <1>1, <1>2, <1>7 DEF Raise, Counters
<1>8. CASE Await(a)
  BY <1>1, <1>2, <1>8, AwaitTakesEffect DEF history, Counters
<1>9. CASE Return(a) \/ RaiseForeignKey(a) \/ PublishRetry(a) \/ PublishDeadLetter(a)
  BY <1>1, <1>2, <1>9 DEF Return, RaiseForeignKey, PublishRetry, PublishDeadLetter, Counters
<1>10. CASE MarkProcessed(a)
  BY <1>1, <1>2, <1>10 DEF MarkProcessed, history, Counters
<1>. QED  BY <1>3, <1>4, <1>5, <1>6, <1>7, <1>8, <1>9, <1>10 DEF Proceed

\* The replicas and clients that a step leaves alone stay where they are.
LEMMA OthersStay ==
  ASSUME IInv, Grows, NEW b \in Actors,
         phase'[b] = phase[b], job'[b] = job[b], todo'[b] = todo[b]
  PROVE  Handling(b)' /\ Outcome(b)'
<1>1. Handling(b) /\ Outcome(b) /\ Call' = Call
  BY DEF IInv, Grows, setting, Call, Event, Hop
<1>2. ASSUME phase[b] = "handler"  PROVE \E p \in Seq(Call) : PlanOf(b, p)' /\ Halfway(todo[b], p)'
  <2>1. PICK p \in Seq(Call), s \in Seq(Call) : s = todo[b] /\ PlanOf(b, p) /\ Halfway(s, p)
    BY <1>1, <1>2 DEF Handling, IInv, TypeOK
  <2>2. PlanOf(b, p)' /\ Halfway(s, p)'
    BY <2>1, PlanStays, HalfwayStays
  <2>. QED  BY <2>1, <2>2
<1>3. Handling(b)'
  BY <1>1, <1>2 DEF Handling
<1>4. ASSUME phase[b] = "mark"  PROVE Settleable(job[b])'
  <2>1. PICK e : e = job[b] /\ Settleable(e)
    BY <1>1, <1>4 DEF Outcome
  <2>2. Settleable(e)'
    BY <2>1, SettleableStays
  <2>. QED  BY <2>1, <2>2
<1>5. Outcome(b)'
  BY <1>1, <1>4 DEF Outcome, Grows
<1>. QED  BY <1>3, <1>5

-----------------------------------------------------------------------------
(***************************************************************************)
(* The inductive invariant.                                                *)
(***************************************************************************)
LEMMA IInvInit == Init => IInv
<1>. SUFFICES ASSUME Init  PROVE IInv
  OBVIOUS
<1>1. maxRetryAttempts \in RetryLimits /\ NoTag \in Tag /\ 0 \in Tag
  BY TagsDiffer DEF Init, Tag
<1>2. NoEvent \in Event /\ Created \in Event
  BY <1>1, Attempts DEF NoEvent, Created, Ev, Event, Type
<1>3. Created.type = "created" /\ Created.tag = NoTag
  BY DEF Created, Ev
<1>4. Wellformed(Created)
  BY <1>2, <1>3, TagsDiffer DEF Wellformed, IsDead
<1>5. Admissible(Created)
  BY <1>3, <1>4 DEF Admissible, IsDead, Traced, Chained, IsHuman, IsResult, ReviewCompleted, Ev
<1>6. IsFiniteSet(published)
  BY FS_Singleton DEF Init
<1>7. TypeOK
  <2>1. Control
    BY <1>2 DEF Init, Control
  <2>2. Counters
    BY PipelineAssumption DEF Init, Counters
  <2>. QED  BY <1>1, <1>2, <2>1, <2>2, TypeParts DEF Init, Answers
<1>. QED  BY <1>5, <1>6, <1>7 DEF Init, IInv, Handling, Outcome, Referenced

\* What a step does: nothing is taken back, what it publishes is admissible,
\* and the actor that moves keeps to its plan.
LEMMA StepIsSound ==
  ASSUME IInv, Next
  PROVE  /\ Grows /\ Admits /\ Stored' /\ settled' \subseteq published'
         /\ Control' /\ Answers'
         /\ \A a \in Actors : Handling(a)' /\ Outcome(a)'
<1>1. PICK a \in Actors : Starts(a) \/ Await(a) \/ Ends(a)
  BY StepParts DEF Next
<1>2. settled \subseteq published /\ Answers /\ IsFiniteSet(published)
  BY TypeParts DEF IInv
<1>3. CASE Starts(a)
  <2>1. UNCHANGED <<setting, published, settled, tables, answers>>
    BY <1>3, StartPlans
  <2>2. Grows /\ Admits /\ Stored' /\ settled' \subseteq published' /\ Answers'
    BY <1>2, <2>1, StoredStays DEF Grows, Admits, tables, Answers
  <2>3. PICK e \in Event, p \in Seq(Call) :
          Begin(a, e, p) /\ e # NoEvent /\ (job'[a] = e => PlanOf(a, p)')
    BY <1>3, StartPlans
  <2>4. /\ Control' /\ Untouched(a)
        /\ phase'[a] = "handler" /\ job'[a] = e /\ todo'[a] = p
    BY <2>1, <2>3, BeginControl
  <2>5. PlanOf(a, p)' /\ Halfway(p, p)' /\ Call' = Call
    BY <2>1, <2>2, <2>3, <2>4, HalfwayStart, HalfwayStays DEF setting, Call, Event, Hop
  <2>6. Handling(a)' /\ Outcome(a)'
    BY <2>4, <2>5 DEF Handling, Outcome
  <2>. QED  BY <2>2, <2>4, <2>6, OthersStay DEF Untouched
<1>4. CASE Await(a)
  <2>1. /\ Grows /\ Admits /\ Stored' /\ UNCHANGED <<setting, settled, history>>
        /\ Control' /\ Untouched(a) /\ phase[a] = "handler" /\ todo[a] # <<>>
        /\ phase'[a] = "handler" /\ job'[a] = job[a] /\ todo'[a] = Tail(todo[a])
    BY <1>4, AwaitTakesEffect
  <2>2. PICK p \in Seq(Call), s \in Seq(Call) :
          s = todo[a] /\ PlanOf(a, p) /\ Halfway(s, p)
    BY <2>1 DEF IInv, TypeOK, Handling
  <2>3. PICK x, t : x = Head(s) /\ t = Tail(s) /\ Effective(x)'
    BY <1>4, <2>2, AwaitTakesEffect
  <2>4. PlanOf(a, p)' /\ Call' = Call
    BY <2>1, <2>2, PlanStays DEF setting, Call, Event, Hop
  <2>5. Halfway(t, p)'
    <3>1. PICK k : RestFrom(s, p, k) /\ \A i \in 1..(k - 1) : Effective(p[i])
      BY <2>2 DEF Halfway
    <3>2. k \in 1..Len(p) /\ x = p[k] /\ RestFrom(t, p, k + 1)
      BY <2>1, <2>2, <2>3, <3>1, RestNext
    <3>3. ASSUME NEW i \in 1..k  PROVE Effective(p[i])'
      <4>1. PICK y : y = p[i] /\ (i = k \/ Effective(y))
        BY <3>1, <3>2
      <4>2. Effective(y)'
        BY <2>1, <2>3, <3>2, <4>1, EffectiveStays
      <4>. QED  BY <4>1, <4>2
    <3>4. k + 1 \in 1..(Len(p) + 1) /\ (k + 1) - 1 = k
      BY <3>2
    <3>. QED  BY <3>2, <3>3, <3>4 DEF Halfway
  <2>6. Handling(a)' /\ Outcome(a)'
    BY <2>1, <2>2, <2>3, <2>4, <2>5 DEF Handling, Outcome
  <2>7. settled' \subseteq published' /\ Answers'
    BY <1>2, <2>1 DEF Grows, Answers, history
  <2>. QED  BY <2>1, <2>6, <2>7, OthersStay DEF Untouched
<1>5. CASE Ends(a)
  <2>1. /\ Grows /\ Admits /\ Stored' /\ settled' \subseteq published'
        /\ Control' /\ Untouched(a) /\ phase'[a] # "handler" /\ Outcome(a)' /\ Answers'
    BY <1>5, EndIsSound
  <2>2. Handling(a)'
    BY <2>1 DEF Handling
  <2>. QED  BY <2>1, <2>2, OthersStay DEF Untouched
<1>. QED  BY <1>1, <1>3, <1>4, <1>5

LEMMA IInvNext == IInv /\ [Next]_vars => IInv'
<1>1. ASSUME IInv, Next  PROVE IInv'
  <2>1. /\ Grows /\ Admits /\ Stored' /\ settled' \subseteq published' /\ Control' /\ Answers'
        /\ \A a \in Actors : Handling(a)' /\ Outcome(a)'
    BY <1>1, StepIsSound
  <2>2. \A y \in published' : Admissible(y)'
    BY <1>1, <2>1, AdmissibleStays DEF IInv, Admits
  <2>3. published' \subseteq Event'
    BY <2>2 DEF Admissible, Wellformed
  <2>4. database' \in Databases /\ verdict' \in Verdicts /\ maxRetryAttempts' \in RetryLimits
    BY <1>1, <2>1 DEF IInv, TypeOK, Grows, setting
  <2>5. Counters'
    BY <1>1, Counted
  <2>6. TypeOK'
    BY <2>1, <2>3, <2>4, <2>5 DEF Stored, TypeOK, Control, Answers, Counters
  <2>. QED  BY <2>1, <2>2, <2>6 DEF IInv, Admits, Stored
<1>2. ASSUME IInv, UNCHANGED vars  PROVE IInv'
  <2>1. Grows /\ UNCHANGED <<setting, tables, published>>
    BY <1>2 DEF vars, setting, tables, Grows
  <2>2. TypeOK'
    BY <1>2, <2>1 DEF IInv, TypeOK, vars, setting, tables, history, Event, Hop, Call, NoEvent
  <2>3. \A y \in published' : Admissible(y)'
    BY <1>2, <2>1, AdmissibleStays DEF IInv
  <2>4. \A a \in Actors : Handling(a)' /\ Outcome(a)'
    BY <1>2, <2>1, OthersStay DEF vars
  <2>5. Referenced'
    BY <1>2, <2>1, StoredStays DEF Stored
  <2>. QED  BY <1>2, <2>1, <2>2, <2>3, <2>4, <2>5 DEF IInv
<1>. QED  BY <1>1, <1>2

LEMMA AlwaysIInv == Spec => []IInv
  BY IInvInit, IInvNext, PTL DEF Spec

\* Type correctness, and that the events of case_events and the outcomes of
\* consumer_dedup were on a stream before: what database.py:264 stores and
\* worker.py:132 settles was published, however handlers interleave and crash.
THEOREM TypeCorrect == Spec => []TypeOK
<1>1. IInv => TypeOK
  BY DEF IInv
<1>. QED  BY <1>1, AlwaysIInv, PTL

\* When the orchestrator reads earlier results to build a step request, they are
\* in case_events, for any number of replicas, retries, crashes and replays.
THEOREM ReadsAlwaysFindResults == Spec => []ReadsFindResults
<1>1. IInv => ReadsFindResults
  <2>. SUFFICES ASSUME IInv, NEW a \in Actors, todo[a] # <<>>, Head(todo[a]).do = "read",
                       NEW s \in Reads[Subject(a).step]
                PROVE  \E e \in caseEvents : IsResult(e, s)
    BY DEF ReadsFindResults
  <2>1. phase[a] = "handler"
    BY DEF IInv, TypeOK
  <2>2. Ready(Head(todo[a]))
    BY <2>1, CallReady
  <2>. QED  BY <2>2 DEF Ready, Subject
<1>. QED  BY <1>1, AlwaysIInv, PTL

\* The audit trail of a case is closed: what caused a recorded event is recorded.
THEOREM TrailIsConnected == Spec => []TrailConnected
<1>1. IInv => TrailConnected
  <2>. SUFFICES ASSUME IInv, NEW e \in caseEvents
                PROVE  \/ IsDead(e) \/ e.type = "created" \/ IsHuman(e)
                       \/ Original(e) \in UNION {Published(Handler(c)) : c \in caseEvents}
    BY DEF TrailConnected
  <2>1. Traced(e)
    BY DEF IInv, TypeOK, Admissible
  <2>. QED  BY <2>1 DEF Traced
<1>. QED  BY <1>1, AlwaysIInv, PTL

LEMMA BackedStays ==
  ASSUME Grows, NEW e, Backed(e)
  PROVE  Backed(e)'
  BY DEF Grows, setting, Backed, BackedByReviewer, Decided

\* A row of decision_records is written by an await whose turn it was.
LEMMA FinalIsBacked ==
  ASSUME IInv, Next, NEW d \in decisions', d \notin decisions, d.kind = "FINAL"
  PROVE  Backed(d.source)
<1>1. PICK a \in Actors : Starts(a) \/ Await(a) \/ Ends(a)
  BY StepParts DEF Next
<1>2. Starts(a) => decisions' = decisions
  BY StartPlans DEF tables
<1>3. Ends(a) => decisions' = decisions
  BY DEF Ends, Return, Raise, RaiseForeignKey, PublishRetry, PublishDeadLetter, MarkProcessed,
         Interrupt, tables
<1>4. RecordDecision(a)
  BY <1>1, <1>2, <1>3
     DEF Await, PublishEvent, RecordEvent, ReadResults, RecordRun, RecordAction, tables
<1>5. PICK k \in DOMAIN DecisionKind :
        Perform(a, k) /\ d = [kind |-> DecisionKind[k], source |-> Subject(a)]
  BY <1>4 DEF RecordDecision
<1>6. k = "finalize" /\ d.source = Subject(a)
  BY <1>5 DEF DecisionKind
<1>7. phase[a] = "handler" /\ todo[a] # <<>> /\ Head(todo[a]).do = "finalize"
  BY <1>5, <1>6 DEF Perform
<1>8. Ready(Head(todo[a]))
  BY <1>7, CallReady
<1>. QED  BY <1>6, <1>7, <1>8 DEF Ready, Subject

\* Human-in-the-loop: whatever is retried, replayed or interrupted, a final
\* decision rests on a reviewer's recorded decision and action or on a recorded
\* and announced recommendation other than REVIEW.
THEOREM FinalsAreAlwaysBacked == Spec => []FinalsAreBacked
<1>1. FinalsAreBacked <=> \A d \in decisions : d.kind = "FINAL" => Backed(d.source)
  BY DEF FinalsAreBacked, Backed
<1>2. Init => FinalsAreBacked
  BY DEF Init, FinalsAreBacked
<1>3. FinalsAreBacked /\ IInv /\ [Next]_vars => FinalsAreBacked'
  <2>1. ASSUME FinalsAreBacked, IInv, Next  PROVE FinalsAreBacked'
    <3>1. \A d \in decisions' : d.kind = "FINAL" => Backed(d.source)
      BY <1>1, <2>1, FinalIsBacked
    <3>2. \A d \in decisions' : d.kind = "FINAL" => Backed(d.source)'
      BY <2>1, <3>1, StepIsSound, BackedStays
    <3>. QED  BY <3>2 DEF FinalsAreBacked, Backed
  <2>2. ASSUME FinalsAreBacked, UNCHANGED vars  PROVE FinalsAreBacked'
    BY <2>2 DEF FinalsAreBacked, BackedByReviewer, Decided, vars, setting, tables
  <2>. QED  BY <2>1, <2>2
<1>. QED  BY <1>2, <1>3, AlwaysIInv, PTL DEF Spec

\* A row in consumer_dedup (worker.py:132) is never a lie: every await of the
\* handler took effect, or a retry or a dead letter takes over.
THEOREM SettledIsAlwaysComplete == Spec => []SettledIsComplete
<1>1. SettledIsComplete <=> \A e \in settled : Settleable(e)
  BY DEF SettledIsComplete, Settleable
<1>2. Init => SettledIsComplete
  BY DEF Init, SettledIsComplete
<1>3. SettledIsComplete /\ IInv /\ [Next]_vars => SettledIsComplete'
  <2>1. ASSUME SettledIsComplete, IInv, Next  PROVE SettledIsComplete'
    <3>1. PICK a \in Actors : Starts(a) \/ Await(a) \/ Ends(a)
      BY <2>1, StepParts DEF Next
    <3>2. Starts(a) \/ Await(a) => settled' = settled
      BY <2>1, StartPlans, AwaitTakesEffect
    <3>3. Ends(a) => settled' = settled \/ (phase[a] = "mark" /\ settled' = settled \cup {job[a]})
      BY DEF Ends, Return, Raise, RaiseForeignKey, PublishRetry, PublishDeadLetter, MarkProcessed,
             Interrupt
    <3>4. phase[a] = "mark" => Settleable(job[a])
      BY <2>1 DEF IInv, Outcome
    <3>5. \A e \in settled' : Settleable(e)
      BY <1>1, <2>1, <3>1, <3>2, <3>3, <3>4
    <3>6. \A e \in settled' : Settleable(e)'
      BY <2>1, <3>5, StepIsSound, SettleableStays
    <3>. QED  BY <3>6 DEF SettledIsComplete, Settleable
  <2>2. ASSUME SettledIsComplete, IInv, UNCHANGED vars  PROVE SettledIsComplete'
    <3>1. Grows /\ settled' = settled
      BY <2>2 DEF vars, setting, tables, Grows
    <3>2. \A e \in settled' : Settleable(e)'
      BY <1>1, <2>2, <3>1, SettleableStays
    <3>. QED  BY <3>2 DEF SettledIsComplete, Settleable
  <2>. QED  BY <2>1, <2>2
<1>. QED  BY <1>2, <1>3, AlwaysIInv, PTL DEF Spec

-----------------------------------------------------------------------------
(***************************************************************************)
(* What the review endpoint answers.                                       *)
(***************************************************************************)
Durable(v) ==
  LET e == ReviewCompleted(v) IN
  Decided("HUMAN_REVIEW", e) /\ e \in actions \cap published \cap caseEvents

LEMMA DurableStays ==
  ASSUME Grows, NEW v, Durable(v)
  PROVE  Durable(v)'
  BY DEF Grows, Durable, Decided

\* When the endpoint returns, everything it had to do took effect.
LEMMA ReturnIsDurable ==
  ASSUME IInv, NEW a \in Actors, phase[a] = "handler", todo[a] = <<>>, Serves[a] = "reviewer"
  PROVE  Durable(job[a].tag)
<1>1. PICK p \in Seq(Call) : PlanOf(a, p) /\ Halfway(todo[a], p)
  BY DEF IInv, Handling
<1>2. PICK v \in Reviews : job[a] = ReviewCompleted(v) /\ p = AddDecision(v)
  BY <1>1 DEF PlanOf, Clients
<1>. DEFINE e == ReviewCompleted(v)
<1>3. e \in Event /\ job[a].tag = v
  BY <1>2, Attempts DEF IInv, TypeOK, ReviewCompleted, Ev, Event, Type, Tag, Step
<1>4. p = <<Do("act", e), Do("human", e), Do("publish", e), Do("record", e)>>
  BY <1>2, AddDecisionPlan
<1>5. \A i \in DOMAIN p : Effective(p[i])
  BY <1>1, HalfwayEnd
<1>. HIDE DEF e
<1>6. \A do \in {"publish", "record", "act", "human"} : Do(do, e) \in Call
  BY <1>3, CallTyped
<1>7. /\ DOMAIN p = 1..4 /\ p[1] = Do("act", e) /\ p[2] = Do("human", e)
      /\ p[3] = Do("publish", e) /\ p[4] = Do("record", e)
  BY <1>4, <1>6, Tuple4
<1>8. /\ Effective(Do("act", e)) /\ Effective(Do("human", e))
      /\ Effective(Do("publish", e)) /\ Effective(Do("record", e))
  BY <1>5, <1>7
<1>. QED  BY <1>3, <1>8, Effects DEF Durable, e

\* Only the end of a handler of the endpoint answers, with 201 if it returned.
LEMMA AnswersCome ==
  ASSUME IInv, Next, NEW x \in answers', x \notin answers
  PROVE  /\ x.status = "created" => Durable(x.review)
         /\ x.status = "error" => raises' > raises \/ database = "PostgreSQL"
<1>1. PICK a \in Actors : Starts(a) \/ Await(a) \/ Ends(a)
  BY StepParts DEF Next
<1>2. Starts(a) \/ Await(a) => answers' = answers
  BY StartPlans, AwaitTakesEffect DEF history
<1>3. Return(a) \/ Raise(a) \/ RaiseForeignKey(a)
  BY <1>1, <1>2 DEF Ends, PublishRetry, PublishDeadLetter, MarkProcessed, Interrupt, Goto, history
<1>4. CASE Return(a)
  <2>1. /\ Serves[a] = "reviewer" /\ phase[a] = "handler" /\ todo[a] = <<>>
        /\ x = [review |-> job[a].tag, status |-> "created"]
    BY <1>4 DEF Return, Answer, Goto
  <2>. QED  BY <2>1, ReturnIsDurable
<1>5. CASE Raise(a) \/ RaiseForeignKey(a)
  <2>1. Serves[a] = "reviewer" /\ x = [review |-> job[a].tag, status |-> "error"]
    BY <1>5 DEF Raise, RaiseForeignKey, Fail, Answer, Goto
  <2>2. raises \in Nat
    BY DEF IInv, TypeOK
  <2>. QED  BY <1>5, <2>1, <2>2 DEF Raise, RaiseForeignKey, SourceExists
<1>. QED  BY <1>3, <1>4, <1>5

\* 201 to a reviewer means that the decision and the action are stored and that
\* the completed review is published and recorded.
THEOREM AnswerIsAlwaysDurable == Spec => []AnswerIsDurable
<1>1. AnswerIsDurable <=> \A x \in answers : x.status = "created" => Durable(x.review)
  BY DEF AnswerIsDurable, Durable
<1>2. Init => AnswerIsDurable
  BY DEF Init, AnswerIsDurable
<1>3. AnswerIsDurable /\ IInv /\ [Next]_vars => AnswerIsDurable'
  <2>1. ASSUME AnswerIsDurable, IInv, Next  PROVE AnswerIsDurable'
    <3>1. \A x \in answers' : x.status = "created" => Durable(x.review)
      BY <1>1, <2>1, AnswersCome
    <3>2. \A x \in answers' : x.status = "created" => Durable(x.review)'
      BY <2>1, <3>1, StepIsSound, DurableStays
    <3>. QED  BY <3>2 DEF AnswerIsDurable, Durable
  <2>2. ASSUME AnswerIsDurable, UNCHANGED vars  PROVE AnswerIsDurable'
    BY <2>2 DEF AnswerIsDurable, Decided, vars, tables, history
  <2>. QED  BY <2>1, <2>2
<1>. QED  BY <1>2, <1>3, AlwaysIInv, PTL DEF Spec

\* An answer other than 201 comes from the database as long as nothing raised.
RefusedByDatabase ==
  \A x \in answers : x.status = "error" /\ raises = 0 => database = "PostgreSQL"

\* A review that PostgreSQL refuses (human-review-api stores the action before
\* the event exists) leaves no action, no decision and no event behind.
THEOREM RefusedReviewsLeaveNothing == Spec => []RefusedReviewLeavesNothing
<1>1. Init => RefusedByDatabase
  BY DEF Init, RefusedByDatabase
<1>2. RefusedByDatabase /\ IInv /\ [Next]_vars => RefusedByDatabase'
  <2>1. ASSUME RefusedByDatabase, IInv, Next  PROVE RefusedByDatabase'
    <3>1. database' = database
      BY <2>1, StepIsSound DEF Grows, setting
    <3>2. raises \in Nat /\ raises' \in Nat /\ raises <= raises'
      BY <2>1, Counted DEF IInv, TypeOK
    <3>3. ASSUME NEW x \in answers', x.status = "error", raises' = 0
          PROVE  database = "PostgreSQL"
      <4>1. raises = 0
        BY <3>2, <3>3
      <4>. QED  BY <2>1, <3>2, <3>3, <4>1, AnswersCome DEF RefusedByDatabase
    <3>. QED  BY <3>1, <3>3 DEF RefusedByDatabase
  <2>2. ASSUME RefusedByDatabase, UNCHANGED vars  PROVE RefusedByDatabase'
    BY <2>2 DEF RefusedByDatabase, vars, setting, history
  <2>. QED  BY <2>1, <2>2
<1>3. IInv /\ RefusedByDatabase => RefusedReviewLeavesNothing
  <2>. SUFFICES ASSUME IInv, RefusedByDatabase, NEW x \in answers,
                       x.status = "error", raises = 0
                PROVE  LET e == ReviewCompleted(x.review) IN
                       /\ e \notin actions \cup published \cup caseEvents
                       /\ \A d \in decisions : d.source # e
    BY DEF RefusedReviewLeavesNothing
  <2>. DEFINE e == ReviewCompleted(x.review)
  <2>1. database = "PostgreSQL" /\ x.review \in Reviews
    BY DEF RefusedByDatabase, IInv, TypeOK
  <2>2. e \notin published
    BY <2>1 DEF IInv, Admissible
  <2>3. /\ caseEvents \subseteq published /\ actions \subseteq caseEvents
        /\ \A d \in decisions : d.source \in caseEvents
    BY <2>1 DEF IInv, TypeOK, Referenced
  <2>. HIDE DEF e
  <2>. QED  BY <2>2, <2>3 DEF e
<1>. QED  BY <1>1, <1>2, <1>3, AlwaysIInv, PTL DEF Spec
=============================================================================
