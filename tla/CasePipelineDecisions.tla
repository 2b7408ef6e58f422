------------------------ MODULE CasePipelineDecisions ------------------------
(***************************************************************************)
(* How many decisions a case may get, that CasePipeline implements         *)
(* CaseLifecycle, and that no case stops silently.                         *)
(*                                                                         *)
(* A fork is an event that was retried or replayed.  Each fork is paid for *)
(* by a handler that raised or by a replay (Paid), and two results that do *)
(* not descend from different forks are the same event (Branched), so      *)
(* decisions are as many as forks, but for the first branch and the        *)
(* reviews.                                                                *)
(***************************************************************************)
EXTENDS CasePipelineProofs, WellFoundedInduction

Fork(x) == ~ IsDead(x) /\ (x.attempt > 1 \/ x.tag \in Nat)
Forks == {x \in published : Fork(x)}

\* What ends the path of a case as far as the agents are concerned.
Concluding(x) ==
  x.type \in {"required", "finalized"} \/ (x.type = "requested" /\ x.step = "review")

\* How far the case has come with an event: an agent's request, its result.
Position == [context |-> 1, risk |-> 3, policy |-> 5, explain |-> 7, aggregate |-> 9]
Place(x) ==
  IF x.type = "created" THEN 0
  ELSE IF Concluding(x) THEN 11
  ELSE IF x.type = "requested" THEN Position[x.step] ELSE Position[x.step] + 1
Precedes(c, x) == Place(c) \in Nat /\ Place(x) \in Nat /\ Place(c) < Place(x)

\* The last hop of an event is the fork it descends from, at an earlier place.
Branched(x) ==
  ~ IsDead(x) =>
    IF IsHuman(x)
    THEN Fork(x) \/ \E v \in Reviews : x = ReviewCompleted(v)
    ELSE /\ x.tag \in Nat \cup {NoTag}
         /\ x.past # <<>> =>
              /\ FailedEvent(x) \in Forks /\ ~ IsHuman(FailedEvent(x))
              /\ Precedes(FailedEvent(x), x)

\* What a decision is about.
Sourced(d) ==
  /\ d.kind = "SYSTEM_RECOMMENDATION" =>
       d.source \in published /\ IsResult(d.source, "aggregate")
  /\ d.kind = "FINAL" =>
       d.source \in published /\ (IsResult(d.source, "aggregate") \/ IsHuman(d.source))

\* Who is about to publish a fork: whoever failed, and a replay that began.
Spare ==
  {a \in Actors :
     \/ phase[a] = "fail"
     \/ /\ Serves[a] = "operator" /\ phase[a] = "handler"
        /\ todo[a] # <<>> /\ Head(todo[a]).do = "publish"}

Paid ==
  /\ IsFiniteSet(Spare)
  /\ Cardinality(Forks) + Cardinality(Spare) <= raises + replays

ForkInv ==
  /\ \A x \in published : Branched(x)
  /\ \A d \in decisions : Sourced(d)
  /\ IsFiniteSet(decisions)
  /\ Paid
-----------------------------------------------------------------------------
(***************************************************************************)
(* What handlers publish and decide about.                                 *)
(***************************************************************************)
\* An event that a handler of c publishes.
Derived(c, x) ==
  /\ x.attempt = 1 /\ x.tag = NoTag /\ x.past = Past(c)
  /\ ~ IsHuman(x) /\ ~ IsDead(c) /\ ~ IsHuman(c) /\ ~ Concluding(c)
  /\ Precedes(c, x)

\* The recommendation it follows, and what the verdict makes of it.
Concludes(c, p, k) ==
  /\ \E i \in 1..(k - 1) : p[i] = Do("recommend", c)
  /\ p[k].event.type = "finalized" <=> verdict # "REVIEW"

Derives(c, p) ==
  \A k \in 1..Len(p) :
    /\ p[k].do = "publish" => Derived(c, p[k].event)
    /\ p[k].do = "publish" /\ Concluding(p[k].event) => Concludes(c, p, k)
    /\ p[k].do = "act" => p[k].event = c /\ c.type = "requested" /\ c.step = "review"
    /\ p[k].do \in {"recommend", "finalize"} =>
         p[k].event = c /\ (IsResult(c, "aggregate") \/ (IsHuman(c) /\ p[k].do = "finalize"))

LEMMA EventFields ==
  ASSUME NEW type, NEW step, NEW tag, NEW past
  PROVE  LET x == Ev(type, step, tag, past) IN
         /\ x.type = type /\ x.step = step /\ x.attempt = 1 /\ x.tag = tag /\ x.past = past
  BY DEF Ev

LEMMA CallFields ==
  ASSUME NEW do, NEW e
  PROVE  Do(do, e).do = do /\ Do(do, e).event = e
  BY DEF Do

LEMMA HandlerDerives ==
  ASSUME NEW c, Wellformed(c)
  PROVE  Derives(c, Handler(c))
<1>. USE DEF IsDead, IsHuman, IsResult, Concluding
<1>1. CASE c.type = "requested" /\ c.step \in AgentStep
  <2>1. Handler(c) = RunAgent(c) /\ c.step # "review"
    BY <1>1 DEF Handler, ServiceOf, AgentStep
  <2>. DEFINE p == Handler(c)  x == Completed(c)
  <2>2. Derived(c, x) /\ ~ Concluding(x)
    BY <1>1, <2>1, EventFields DEF Derived, Completed, Precedes, Place, Position, AgentStep
  <2>3. p = <<Do("record", c), Do("publish", x), Do("record", x), Do("run", c)>>
    BY <2>1, RunAgentPlan
  <2>. HIDE DEF p, x
  <2>4. /\ Len(p) = 4 /\ p[1].do = "record" /\ p[2].do = "publish" /\ p[2].event = x
        /\ p[3].do = "record" /\ p[4].do = "run"
    BY <2>3, CallFields
  <2>5. \A k \in 1..Len(p) : k \in {1, 2, 3, 4}
    BY <2>4
  <2>. QED  BY <2>2, <2>4, <2>5 DEF Derives, p
<1>2. CASE c.type = "requested" /\ c.step = "review"
  <2>1. Handler(c) = <<Do("record", c), Do("act", c)>>
    BY <1>2 DEF Handler, ServiceOf, QueueReview, AgentStep
  <2>. QED  BY <1>2, <2>1, CallFields DEF Derives
<1>3. CASE c.type = "dead"
  <2>1. Handler(c) = <<Do("record", c)>>
    BY <1>3 DEF Handler, ServiceOf, AgentStep
  <2>. QED  BY <2>1, CallFields DEF Derives
<1>4. CASE c.type = "created"
  <2>1. Handler(c) = Orchestrate(c)
    BY <1>4 DEF Handler, ServiceOf, AgentStep
  <2>. DEFINE p == Handler(c)  x == Requested("context", c)
  <2>2. Derived(c, x) /\ ~ Concluding(x)
    BY <1>4, EventFields DEF Derived, Requested, Precedes, Place, Position
  <2>3. p = <<Do("record", c), Do("publish", x), Do("record", x)>>
    BY <1>4, <2>1, OrchestratePlan
  <2>. HIDE DEF p, x
  <2>4. /\ Len(p) = 3 /\ p[1].do = "record" /\ p[2].do = "publish" /\ p[2].event = x
        /\ p[3].do = "record"
    BY <2>3, CallFields
  <2>5. \A k \in 1..Len(p) : k \in {1, 2, 3}
    BY <2>4
  <2>. QED  BY <2>2, <2>4, <2>5 DEF Derives, p
<1>5. CASE c.type = "completed" /\ c.step \in DOMAIN NextStep
  <2>1. Handler(c) = Orchestrate(c) /\ c.step \notin {"aggregate", "review"}
    BY <1>5 DEF Handler, ServiceOf, AgentStep, NextStep
  <2>. DEFINE p == Handler(c)  x == Requested(NextStep[c.step], c)
  <2>2. Derived(c, x) /\ ~ Concluding(x)
    BY <1>5, <2>1, EventFields
       DEF Derived, Requested, NextStep, Precedes, Place, Position
  <2>3. p = <<Do("record", c), Do("read", c), Do("publish", x), Do("record", x)>>
    BY <1>5, <2>1, OrchestratePlan
  <2>. HIDE DEF p, x
  <2>4. /\ Len(p) = 4 /\ p[1].do = "record" /\ p[2].do = "read"
        /\ p[3].do = "publish" /\ p[3].event = x /\ p[4].do = "record"
    BY <2>3, CallFields
  <2>5. \A k \in 1..Len(p) : k \in {1, 2, 3, 4}
    BY <2>4
  <2>. QED  BY <2>2, <2>4, <2>5 DEF Derives, p
<1>6. CASE c.type = "completed" /\ c.step = "aggregate" /\ verdict = "REVIEW"
  <2>1. Handler(c) = Orchestrate(c)
    BY <1>6 DEF Handler, ServiceOf, AgentStep
  <2>. DEFINE p == Handler(c)  x == ReviewRequired(c)  y == Requested("review", c)
  <2>2. Derived(c, x) /\ Derived(c, y) /\ x.type # "finalized" /\ y.type # "finalized"
    BY <1>6, EventFields DEF Derived, ReviewRequired, Requested, Precedes, Place, Position
  <2>3. p = <<Do("record", c), Do("recommend", c), Do("publish", x), Do("record", x),
              Do("publish", y), Do("record", y)>>
    BY <1>6, <2>1, OrchestratePlan
  <2>. HIDE DEF p, x, y
  <2>4. /\ Len(p) = 6 /\ p[1].do = "record" /\ p[2].do = "recommend" /\ p[2].event = c
        /\ p[3].do = "publish" /\ p[3].event = x /\ p[4].do = "record"
        /\ p[5].do = "publish" /\ p[5].event = y /\ p[6].do = "record"
    BY <2>3, CallFields
  <2>5. \A k \in 1..Len(p) : k \in {1, 2, 3, 4, 5, 6}
    BY <2>4
  <2>6. p[2] = Do("recommend", c)
    BY <2>3
  <2>7. ASSUME NEW k \in 1..Len(p), p[k].do = "publish"  PROVE Concludes(c, p, k)
    <3>1. k \in {3, 5} /\ 2 \in 1..(k - 1)
      BY <2>4, <2>5, <2>7
    <3>. QED  BY <1>6, <2>2, <2>4, <2>6, <3>1 DEF Concludes
  <2>. QED  BY <1>6, <2>2, <2>4, <2>5, <2>7 DEF Derives, p
<1>7. CASE c.type = "completed" /\ c.step = "aggregate" /\ verdict # "REVIEW"
  <2>1. Handler(c) = Orchestrate(c)
    BY <1>7 DEF Handler, ServiceOf, AgentStep
  <2>. DEFINE p == Handler(c)  x == Finalized(c)
  <2>2. Derived(c, x) /\ x.type = "finalized"
    BY <1>7, EventFields DEF Derived, Finalized, Precedes, Place, Position
  <2>3. p = <<Do("record", c), Do("recommend", c), Do("publish", x), Do("record", x),
              Do("finalize", c)>>
    BY <1>7, <2>1, OrchestratePlan
  <2>. HIDE DEF p, x
  <2>4. /\ Len(p) = 5 /\ p[1].do = "record" /\ p[2].do = "recommend" /\ p[2].event = c
        /\ p[3].do = "publish" /\ p[3].event = x /\ p[4].do = "record"
        /\ p[5].do = "finalize" /\ p[5].event = c
    BY <2>3, CallFields
  <2>5. \A k \in 1..Len(p) : k \in {1, 2, 3, 4, 5}
    BY <2>4
  <2>6. p[2] = Do("recommend", c)
    BY <2>3
  <2>7. ASSUME NEW k \in 1..Len(p), p[k].do = "publish"  PROVE Concludes(c, p, k)
    <3>1. k \in {3} /\ 2 \in 1..(k - 1)
      BY <2>4, <2>5, <2>7
    <3>. QED  BY <1>7, <2>2, <2>4, <2>6, <3>1 DEF Concludes
  <2>. QED  BY <1>7, <2>2, <2>4, <2>5, <2>7 DEF Derives, p
<1>8. CASE c.type = "completed" /\ c.step = "review"
  <2>1. Handler(c) = Orchestrate(c)
    BY <1>8 DEF Handler, ServiceOf, AgentStep
  <2>2. Handler(c) = <<Do("record", c), Do("finalize", c)>>
    BY <1>8, <2>1, OrchestratePlan
  <2>. QED  BY <1>8, <2>2, CallFields DEF Derives
<1>9. CASE c.type \notin {"requested", "dead", "created", "completed"}
  <2>1. Handler(c) = Orchestrate(c)
    BY <1>9 DEF Handler, ServiceOf, AgentStep
  <2>2. Handler(c) = <<Do("record", c)>>
    BY <1>9, <2>1, OrchestratePlan
  <2>. QED  BY <2>2, CallFields DEF Derives
<1>10. /\ c.type = "requested" => c.step \in AgentStep \/ c.step = "review"
       /\ c.type = "completed" => c.step \in DOMAIN NextStep \cup {"aggregate", "review"}
  BY DEF Wellformed, Step, AgentStep, NextStep
<1>. QED  BY <1>1, <1>2, <1>3, <1>4, <1>5, <1>6, <1>7, <1>8, <1>9, <1>10
-----------------------------------------------------------------------------
(***************************************************************************)
(* Forks and what descends from them.                                      *)
(***************************************************************************)
LEMMA BranchedStays ==
  ASSUME Grows, NEW x, Branched(x)
  PROVE  Branched(x)'
  BY DEF Grows, Branched, Forks

LEMMA DerivedBranched ==
  ASSUME IInv, NEW c \in published, Branched(c), NEW x, Derived(c, x)
  PROVE  Branched(x) /\ ~ Fork(x)
<1>1. c \in Event /\ c.past \in Seq(Hop)
  BY DEF IInv, TypeOK, Event
<1>2. ~ Fork(x)
  BY TagsDiffer DEF Derived, Fork
<1>3. ASSUME x.past # <<>>
      PROVE  /\ FailedEvent(x) \in Forks /\ ~ IsHuman(FailedEvent(x))
             /\ Precedes(FailedEvent(x), x)
  <2>1. CASE Fork(c)
    <3>1. c.attempt # 1 \/ c.tag # NoTag
      BY <2>1, TagsDiffer DEF Fork
    <3>2. x.past = Append(c.past, HopOf(c))
      BY <3>1 DEF Derived, Past
    <3>3. FailedEvent(x) = c
      BY <1>1, <3>2 DEF FailedEvent, HopOf, Event
    <3>. QED  BY <2>1, <3>3 DEF Derived, Forks
  <2>2. CASE ~ Fork(c)
    <3>1. c.attempt = 1 /\ c.tag = NoTag
      BY <1>1, <2>2 DEF Derived, Branched, Fork, Event
    <3>2. x.past = c.past
      BY <3>1 DEF Derived, Past
    <3>3. FailedEvent(x) = FailedEvent(c)
      BY <3>2 DEF FailedEvent
    <3>. QED  BY <1>3, <3>2, <3>3 DEF Derived, Branched, Precedes
  <2>. QED  BY <2>1, <2>2
<1>. QED  BY <1>2, <1>3 DEF Derived, Branched

LEMMA ReviewBranched ==
  ASSUME NEW v \in Reviews
  PROVE  Branched(ReviewCompleted(v)) /\ ~ Fork(ReviewCompleted(v))
<1>1. /\ IsHuman(ReviewCompleted(v)) /\ ReviewCompleted(v).attempt = 1
      /\ ReviewCompleted(v).tag = v
  BY EventFields DEF ReviewCompleted, IsHuman, IsResult
<1>2. v \notin Nat
  BY PipelineAssumption
<1>. QED  BY <1>1, <1>2 DEF Branched, Fork

\* Changing attempt or tag of a branched event gives a fork of the same branch.
LEMMA ForkBranched ==
  ASSUME NEW e, Branched(e), NEW x, x.type = e.type, x.step = e.step, x.past = e.past,
         x.tag \in Nat \/ (x.tag = e.tag /\ x.attempt > 1)
  PROVE  Branched(x)
<1>1. FailedEvent(x) = FailedEvent(e)
  BY DEF FailedEvent
<1>2. (IsDead(x) <=> IsDead(e)) /\ (IsHuman(x) <=> IsHuman(e)) /\ Place(x) = Place(e)
  BY DEF IsDead, IsHuman, IsResult, Concluding, Place
<1>3. ~ IsDead(x) => Fork(x)
  BY DEF Fork
<1>. QED  BY <1>1, <1>2, <1>3 DEF Branched, Precedes

LEMMA RetryBranched ==
  ASSUME IInv, NEW e \in published, Branched(e)
  PROVE  Branched(Retry(e))
<1>1. e \in Event /\ e.attempt \in Nat /\ e.attempt >= 1
  BY Attempts DEF IInv, TypeOK, Event
<1>2. PICK x : x = Retry(e)
  OBVIOUS
<1>3. /\ x.type = e.type /\ x.step = e.step /\ x.past = e.past /\ x.tag = e.tag
      /\ x.attempt = e.attempt + 1
  BY <1>1, <1>2 DEF Retry, Event
<1>4. x.attempt > 1
  BY <1>1, <1>3
<1>. QED  BY <1>2, <1>3, <1>4, ForkBranched

LEMMA ReplayBranched ==
  ASSUME IInv, \A y \in published : Branched(y), NEW d \in published, IsDead(d),
         NEW reset \in BOOLEAN
  PROVE  Branched(Replay(d, reset))
<1>1. PICK e, x : e = FailedEvent(d) /\ x = Replay(d, reset)
  OBVIOUS
<1>2. e \in published /\ e \in Event /\ d.tag \in Nat
  BY <1>1 DEF IInv, Admissible, Wellformed
<1>3. x.type = e.type /\ x.step = e.step /\ x.past = e.past /\ x.tag = d.tag
  BY <1>1, <1>2 DEF Replay, Event
<1>. QED  BY <1>1, <1>2, <1>3, ForkBranched

LEMMA HopFields ==
  ASSUME NEW g \in Hop, NEW h \in Hop,
         g.type = h.type, g.step = h.step, g.attempt = h.attempt, g.tag = h.tag
  PROVE  g = h
  BY DEF Hop

\* An ancestry is determined by its last hop and what comes before.
LEMMA SamePast ==
  ASSUME NEW x \in Event, NEW y \in Event, x.past # <<>>, y.past # <<>>,
         FailedEvent(x) = FailedEvent(y)
  PROVE  x.past = y.past
<1>1. PICK p \in Seq(Hop), q \in Seq(Hop) : p = x.past /\ q = y.past
  BY DEF Event
<1>2. Len(p) \in Nat \ {0} /\ Len(q) \in Nat \ {0}
  BY <1>1
<1>3. PICK m, n : m = Len(p) - 1 /\ n = Len(q) - 1
  OBVIOUS
<1>4. m \in Nat /\ n \in Nat /\ Len(p) = m + 1 /\ Len(q) = n + 1
  BY <1>2, <1>3
<1>5. SubSeq(p, 1, m) = SubSeq(q, 1, n)
  BY <1>1, <1>3 DEF FailedEvent
<1>6. /\ p[m + 1].type = q[n + 1].type /\ p[m + 1].step = q[n + 1].step
      /\ p[m + 1].attempt = q[n + 1].attempt /\ p[m + 1].tag = q[n + 1].tag
  BY <1>1, <1>4 DEF FailedEvent
<1>7. p[m + 1] \in Hop /\ q[n + 1] \in Hop
  BY <1>4
<1>8. p[m + 1] = q[n + 1]
  BY <1>6, <1>7, HopFields
<1>9. Len(SubSeq(p, 1, m)) = m /\ Len(SubSeq(q, 1, n)) = n
  BY <1>4
<1>10. m = n
  BY <1>5, <1>9
<1>11. ASSUME NEW i \in 1..m  PROVE p[i] = q[i]
  <2>1. SubSeq(p, 1, m)[i] = p[i] /\ SubSeq(q, 1, n)[i] = q[i]
    BY <1>4, <1>10
  <2>. QED  BY <1>5, <2>1
<1>12. \A i \in 1..(m + 1) : p[i] = q[i]
  <2>1. \A i \in 1..(m + 1) : i \in 1..m \/ i = m + 1
    BY <1>4
  <2>. QED  BY <1>8, <1>10, <1>11, <2>1
<1>13. p = q
  BY <1>4, <1>10, <1>12
<1>. QED  BY <1>1, <1>13

\* Results and completed reviews are told apart by the branch they end.
Branch(e) ==
  IF Fork(e) \/ IsHuman(e) THEN e
  ELSE IF e.past = <<>> THEN Created
  ELSE FailedEvent(e)

LEMMA BranchTyped ==
  ASSUME NEW e \in published, Branched(e), IsResult(e, "aggregate") \/ IsHuman(e)
  PROVE  Branch(e) \in Forks \cup {Created} \/ (IsHuman(e) /\ ~ Fork(e) /\ Branch(e) = e)
<1>1. ~ IsDead(e)
  BY DEF IsHuman, IsResult, IsDead
<1>. QED  BY <1>1 DEF Branch, Branched, Forks

LEMMA BranchInjective ==
  ASSUME IInv, NEW e \in published, Branched(e), IsResult(e, "aggregate") \/ IsHuman(e),
         NEW x \in published, Branched(x), IsResult(x, "aggregate") \/ IsHuman(x),
         Branch(e) = Branch(x)
  PROVE  e = x
<1>. DEFINE Kept(y) == Fork(y) \/ IsHuman(y)
<1>1. e \in Event /\ x \in Event
  BY DEF IInv, TypeOK
<1>2. ~ Fork(Created) /\ ~ IsHuman(Created)
  BY TagsDiffer, EventFields DEF Created, Fork, IsHuman, IsResult
<1>3. ASSUME NEW y \in published, Branched(y), IsResult(y, "aggregate") \/ IsHuman(y), ~ Kept(y)
      PROVE  /\ y.type = "completed" /\ y.step = "aggregate" /\ y.attempt = 1 /\ y.tag = NoTag
             /\ y \in Event
             /\ y.past = <<>> => Branch(y) = Created
             /\ y.past # <<>> => /\ Branch(y) = FailedEvent(y) /\ FailedEvent(y) \in Forks
                                 /\ ~ IsHuman(FailedEvent(y))
                                 /\ ~ IsResult(FailedEvent(y), "aggregate")
  <2>1. IsResult(y, "aggregate") /\ ~ IsDead(y) /\ ~ Concluding(y) /\ y \in Event
    BY <1>3 DEF IsHuman, IsResult, IsDead, Concluding, IInv, TypeOK
  <2>2. y.attempt \in Nat /\ y.attempt >= 1
    BY <2>1, Attempts DEF IInv, TypeOK, Event
  <2>3. y.attempt = 1 /\ y.tag = NoTag
    BY <1>3, <2>1, <2>2 DEF Fork, Branched
  <2>. QED  BY <1>3, <2>1, <2>3 DEF Branched, Branch, IsResult, Precedes, Place, Concluding
<1>4. ASSUME NEW y \in published, Branched(y), IsResult(y, "aggregate") \/ IsHuman(y), ~ Kept(y),
             NEW z, Kept(z), IsResult(z, "aggregate") \/ IsHuman(z)
      PROVE  Branch(y) # z
  BY <1>2, <1>3, <1>4
<1>5. CASE Kept(e) /\ Kept(x)
  BY <1>5 DEF Branch
<1>6. CASE Kept(e) /\ ~ Kept(x)
  BY <1>4, <1>6 DEF Branch
<1>7. CASE ~ Kept(e) /\ Kept(x)
  BY <1>4, <1>7 DEF Branch
<1>8. CASE ~ Kept(e) /\ ~ Kept(x)
  <2>1. e.past = x.past
    <3>1. CASE e.past = <<>> /\ x.past = <<>>
      BY <3>1
    <3>2. CASE e.past # <<>> /\ x.past # <<>>
      BY <1>1, <1>3, <1>8, <3>2, SamePast
    <3>3. CASE e.past = <<>> /\ x.past # <<>>
      BY <1>2, <1>3, <1>8, <3>3 DEF Forks
    <3>4. CASE e.past # <<>> /\ x.past = <<>>
      BY <1>2, <1>3, <1>8, <3>4 DEF Forks
    <3>. QED  BY <3>1, <3>2, <3>3, <3>4
  <2>2. /\ e.type = x.type /\ e.step = x.step /\ e.attempt = x.attempt /\ e.tag = x.tag
    BY <1>3, <1>8
  <2>. QED  BY <1>1, <2>1, <2>2 DEF Event
<1>. QED  BY <1>5, <1>6, <1>7, <1>8
-----------------------------------------------------------------------------
(***************************************************************************)
(* Forks are paid for.                                                     *)
(***************************************************************************)
\* The call whose turn it is.
LEMMA CallOrigin ==
  ASSUME IInv, \A y \in published : Branched(y),
         NEW a \in Actors, phase[a] = "handler", todo[a] # <<>>,
         NEW x, x = Head(todo[a])
  PROVE  /\ x.do = "publish" => Branched(x.event) /\ (Fork(x.event) => Serves[a] = "operator")
         /\ x.do = "recommend" => x.event \in published /\ IsResult(x.event, "aggregate")
         /\ x.do = "finalize" =>
              x.event \in published /\ (IsResult(x.event, "aggregate") \/ IsHuman(x.event))
         /\ x.do \notin {"publish", "record", "read"} =>
              Serves[a] \in Clients \/ x.event \in caseEvents
         /\ Serves[a] = "operator" /\ Tail(todo[a]) # <<>> => Head(Tail(todo[a])).do # "publish"
<1>1. PICK p \in Seq(Call), s \in Seq(Call) : s = todo[a] /\ PlanOf(a, p) /\ Halfway(s, p)
  BY DEF IInv, TypeOK, Handling
<1>2. PICK k \in 1..Len(p) : /\ x = p[k] /\ RestFrom(Tail(s), p, k + 1)
                             /\ \A i \in 1..(k - 1) : Effective(p[i])
  BY <1>1, RestNext DEF Halfway
<1>3. CASE Serves[a] \notin Clients
  <2>1. PICK c \in published : p = Handler(c)
    BY <1>1, <1>3 DEF PlanOf, Clients
  <2>2. Wellformed(c) /\ Branched(c) /\ maxRetryAttempts \in RetryLimits
    BY DEF IInv, TypeOK, Admissible
  <2>3. Derives(c, p) /\ Ordered(c, p)
    BY <2>1, <2>2, HandlerDerives, HandlerOrdered
  <2>4. x.do = "publish" => Branched(x.event) /\ ~ Fork(x.event)
    BY <1>2, <2>2, <2>3, DerivedBranched DEF Derives
  <2>5. x.do \in {"recommend", "finalize"} =>
          x.event = c /\ (IsResult(c, "aggregate") \/ (IsHuman(c) /\ x.do = "finalize"))
    BY <1>2, <2>3 DEF Derives
  <2>6. ASSUME x.do \notin {"publish", "record", "read"}  PROVE x.event \in caseEvents
    <3>1. p[1] = Do("record", c) /\ k # 1
      BY <1>2, <2>3, <2>6, CallFields DEF Ordered
    <3>2. k \in 2..Len(p) /\ 1 \in 1..(k - 1)
      BY <1>2, <3>1
    <3>3. Effective(Do("record", c))
      BY <1>2, <3>1, <3>2
    <3>4. c \in caseEvents
      BY <3>3, Effects
    <3>. QED  BY <1>2, <2>3, <2>6, <3>2, <3>4 DEF Ordered
  <2>. QED  BY <1>3, <2>4, <2>5, <2>6 DEF Clients
<1>4. CASE Serves[a] = "reviewer"
  <2>1. PICK v \in Reviews : p = AddDecision(v)
    BY <1>1, <1>4 DEF PlanOf, Clients
  <2>. DEFINE e == ReviewCompleted(v)
  <2>2. p = <<Do("act", e), Do("human", e), Do("publish", e), Do("record", e)>>
    BY <2>1, AddDecisionPlan
  <2>3. Branched(e) /\ ~ Fork(e)
    BY ReviewBranched
  <2>. HIDE DEF e
  <2>4. x \in {Do("act", e), Do("human", e), Do("publish", e), Do("record", e)}
    <3>1. k \in {1, 2, 3, 4}
      BY <1>2, <2>2
    <3>. QED  BY <1>2, <2>2, <3>1
  <2>5. x.event = e /\ x.do \in {"act", "human", "publish", "record"}
    BY <2>4, CallFields
  <2>. QED  BY <1>4, <2>3, <2>5 DEF Clients
<1>5. CASE Serves[a] = "operator"
  <2>1. PICK d \in published, reset \in BOOLEAN : IsDead(d) /\ p = Emit(Replay(d, reset))
    BY <1>1, <1>5 DEF PlanOf, Clients, IInv, TypeOK
  <2>. DEFINE e == Replay(d, reset)
  <2>2. p = <<Do("publish", e), Do("record", e)>> /\ Branched(e)
    BY <2>1, ReplayBranched DEF Emit
  <2>. HIDE DEF e
  <2>3. /\ p[1].do = "publish" /\ p[1].event = e /\ p[2].do = "record" /\ Len(p) = 2
    BY <2>2, CallFields
  <2>4. k \in {1, 2}
    BY <1>2, <2>3
  <2>5. ASSUME Tail(s) # <<>>  PROVE Head(Tail(s)).do # "publish"
    <3>1. Tail(s) \in Seq(Call)
      BY <1>1
    <3>2. k + 1 \in 1..Len(p) /\ Head(Tail(s)) = p[k + 1]
      BY <1>2, <2>5, <3>1, RestNext
    <3>3. k + 1 = 2
      BY <2>3, <2>4, <3>2
    <3>. QED  BY <2>3, <3>2, <3>3
  <2>. QED  BY <1>1, <1>2, <1>5, <2>2, <2>3, <2>4, <2>5 DEF Clients
<1>. QED  BY <1>3, <1>4, <1>5 DEF Clients

\* The database never refuses the rows of a stream handler.
LEMMA RowsAccepted ==
  ASSUME IInv, \A y \in published : Branched(y), NEW a \in Actors, RaiseForeignKey(a)
  PROVE  Serves[a] \in Clients
<1>1. /\ phase[a] = "handler" /\ todo[a] # <<>> /\ Subject(a) \notin caseEvents
      /\ Head(todo[a]).do \notin {"publish", "record", "read"}
  BY DEF RaiseForeignKey, SourceExists
<1>. QED  BY <1>1, CallOrigin DEF Subject

LEMMA OneMore ==
  ASSUME NEW S, IsFiniteSet(S), NEW x
  PROVE  /\ IsFiniteSet(S \cup {x}) /\ Cardinality(S \cup {x}) \in Nat
         /\ Cardinality(S \cup {x}) <= Cardinality(S) + 1
<1>1. PICK n \in Nat : n = Cardinality(S)
  BY FS_CardinalityType
<1>2. PICK T : T = S \cup {x}
  OBVIOUS
<1>3. CASE x \in S
  <2>1. T = S
    BY <1>2, <1>3
  <2>2. IsFiniteSet(T) /\ Cardinality(T) = n
    BY <1>1, <2>1
  <2>. QED  BY <1>1, <1>2, <2>2
<1>4. CASE x \notin S
  <2>1. IsFiniteSet(T) /\ Cardinality(T) = n + 1
    BY <1>1, <1>2, <1>4, FS_AddElement
  <2>. QED  BY <1>1, <1>2, <2>1
<1>. QED  BY <1>3, <1>4

LEMMA UnionCounted ==
  ASSUME NEW S, IsFiniteSet(S), NEW T, IsFiniteSet(T)
  PROVE  /\ IsFiniteSet(S \cup T) /\ Cardinality(S \cup T) \in Nat
         /\ Cardinality(S \cup T) <= Cardinality(S) + Cardinality(T)
<1>1. IsFiniteSet(S \cup T) /\ IsFiniteSet(S \cap T)
  BY FS_Union, FS_Intersection
<1>2. Cardinality(S \cup T) = Cardinality(S) + Cardinality(T) - Cardinality(S \cap T)
  BY FS_Union
<1>3. PICK s, t, u, v : /\ s = Cardinality(S) /\ t = Cardinality(T)
                        /\ u = Cardinality(S \cup T) /\ v = Cardinality(S \cap T)
  OBVIOUS
<1>4. s \in Nat /\ t \in Nat /\ u \in Nat /\ v \in Nat
  BY <1>1, <1>3, FS_CardinalityType
<1>5. u <= s + t
  BY <1>2, <1>3, <1>4
<1>. QED  BY <1>1, <1>3, <1>4, <1>5

LEMMA Budget ==
  ASSUME NEW F, NEW G, NEW S, NEW T, NEW a, NEW y, NEW m \in Nat, NEW n \in Nat, m <= n,
         IsFiniteSet(F), IsFiniteSet(S), Cardinality(F) + Cardinality(S) <= m,
         \/ G = F /\ T \subseteq S
         \/ G = F /\ T \subseteq S \cup {a} /\ n = m + 1
         \/ G \subseteq F \cup {y} /\ a \in S /\ T \subseteq S \ {a}
  PROVE  IsFiniteSet(T) /\ Cardinality(G) + Cardinality(T) <= n
<1>1. Cardinality(F) \in Nat /\ Cardinality(S) \in Nat
  BY FS_CardinalityType
<1>2. CASE G = F /\ T \subseteq S
  <2>1. IsFiniteSet(T) /\ Cardinality(T) <= Cardinality(S) /\ Cardinality(T) \in Nat
    BY <1>2, FS_Subset, FS_CardinalityType
  <2>. QED  BY <1>1, <1>2, <2>1
<1>3. CASE G = F /\ T \subseteq S \cup {a} /\ n = m + 1
  <2>1. IsFiniteSet(S \cup {a}) /\ Cardinality(S \cup {a}) <= Cardinality(S) + 1
        /\ Cardinality(S \cup {a}) \in Nat
    BY OneMore
  <2>2. IsFiniteSet(T) /\ Cardinality(T) <= Cardinality(S \cup {a}) /\ Cardinality(T) \in Nat
    BY <1>3, <2>1, FS_Subset, FS_CardinalityType
  <2>. QED  BY <1>1, <1>3, <2>1, <2>2
<1>4. CASE G \subseteq F \cup {y} /\ a \in S /\ T \subseteq S \ {a}
  <2>1. IsFiniteSet(F \cup {y}) /\ Cardinality(F \cup {y}) <= Cardinality(F) + 1
        /\ Cardinality(F \cup {y}) \in Nat
    BY OneMore
  <2>2. /\ IsFiniteSet(G) /\ Cardinality(G) <= Cardinality(F \cup {y}) /\ Cardinality(G) \in Nat
    BY <1>4, <2>1, FS_Subset, FS_CardinalityType
  <2>3. IsFiniteSet(S \ {a}) /\ Cardinality(S \ {a}) = Cardinality(S) - 1
    BY <1>4, FS_RemoveElement
  <2>4. IsFiniteSet(T) /\ Cardinality(T) <= Cardinality(S \ {a}) /\ Cardinality(T) \in Nat
    BY <1>4, <2>3, FS_Subset, FS_CardinalityType
  <2>. QED  BY <1>1, <2>1, <2>2, <2>3, <2>4
<1>. QED  BY <1>2, <1>3, <1>4

LEMMA ForksCounted ==
  ASSUME IInv
  PROVE  IsFiniteSet(Forks) /\ Cardinality(Forks) \in Nat
<1>1. IsFiniteSet(Forks)
  BY FS_Subset DEF IInv, Forks
<1>. QED  BY <1>1, FS_CardinalityType

\* How a step changes who is about to publish a fork, and the forks.
LEMMA SpareElsewhere ==
  ASSUME NEW a, Untouched(a)
  PROVE  Spare' \subseteq Spare \cup {a} /\ (a \notin Spare' => Spare' \subseteq Spare \ {a})
  BY DEF Untouched, Spare

LEMMA PaidStep ==
  ASSUME IInv, ForkInv, Next
  PROVE  Paid'
<1>1. PICK a \in Actors : Starts(a) \/ Await(a) \/ Ends(a)
  BY StepParts DEF Next
<1>2. /\ \A x \in published : Branched(x)
      /\ IsFiniteSet(Forks) /\ IsFiniteSet(Spare)
      /\ Cardinality(Forks) + Cardinality(Spare) <= raises + replays
      /\ raises \in Nat /\ replays \in Nat
  BY ForksCounted DEF ForkInv, Paid, IInv, TypeOK
<1>. DEFINE m == raises + replays  n == raises' + replays'
<1>3. ASSUME NEW y, m \in Nat, n \in Nat, m <= n,
             \/ Forks' = Forks /\ Spare' \subseteq Spare
             \/ Forks' = Forks /\ Spare' \subseteq Spare \cup {a} /\ n = m + 1
             \/ Forks' \subseteq Forks \cup {y} /\ a \in Spare /\ Spare' \subseteq Spare \ {a}
      PROVE  Paid'
  <2>1. PICK F, G, S, T : F = Forks /\ G = Forks' /\ S = Spare /\ T = Spare'
    OBVIOUS
  <2>2. Cardinality(F) + Cardinality(S) <= m /\ IsFiniteSet(F) /\ IsFiniteSet(S)
    BY <1>2, <2>1
  <2>. HIDE DEF m, n
  <2>3. IsFiniteSet(T) /\ Cardinality(G) + Cardinality(T) <= n
    BY <1>3, <2>1, <2>2, Budget
  <2>. QED  BY <2>1, <2>3 DEF Paid, n
<1>8. m \in Nat
  BY <1>2
<1>9. ASSUME UNCHANGED <<raises, replays>>  PROVE n \in Nat /\ m <= n
  BY <1>8, <1>9
<1>10. ASSUME \/ raises' = raises + 1 /\ UNCHANGED replays
              \/ replays' = replays + 1 /\ UNCHANGED raises
       PROVE  n \in Nat /\ m <= n /\ n = m + 1
  BY <1>2, <1>10
<1>. HIDE DEF m, n
<1>4. CASE Starts(a)
  <2>1. PICK e \in Event, p \in Seq(Call) : Begin(a, e, p) /\ e # NoEvent
    BY <1>4, StartPlans
  <2>2. UNCHANGED <<setting, published, raises>>
    BY <1>4, StartPlans
  <2>3. /\ Untouched(a) /\ phase'[a] = "handler" /\ Forks' = Forks
        /\ Spare' \subseteq Spare \cup {a}
    BY <2>1, <2>2, BeginControl, SpareElsewhere DEF Forks
  <2>4. CASE SubmitReplay(a)
    <3>1. replays' = replays + 1
      BY <2>4 DEF SubmitReplay
    <3>. QED  BY <1>3, <1>8, <1>10, <2>2, <2>3, <3>1
  <2>5. CASE Take(a) \/ Reclaim(a) \/ SubmitReview(a)
    <3>1. UNCHANGED replays
      BY <2>5 DEF Take, Reclaim, SubmitReview, history
    <3>2. Serves[a] # "operator"
      <4>1. CASE SubmitReview(a)
        BY <4>1 DEF SubmitReview
      <4>2. CASE Take(a) \/ Reclaim(a)
        <5>1. PICK c \in published : ServiceOf(c) = Serves[a]
          BY <4>2 DEF Take, Reclaim, Pending
        <5>2. Wellformed(c) /\ maxRetryAttempts \in RetryLimits
          BY DEF IInv, TypeOK, Admissible
        <5>. QED  BY <5>1, <5>2, HandlerOrdered DEF Clients
      <4>. QED  BY <2>5, <4>1, <4>2
    <3>3. a \notin Spare'
      BY <2>3, <3>2 DEF Spare
    <3>. QED  BY <1>3, <1>8, <1>9, <2>2, <2>3, <3>1, <3>3
  <2>. QED  BY <1>4, <2>4, <2>5 DEF Starts
<1>5. CASE Await(a)
  <2>1. /\ UNCHANGED <<setting, settled, history>> /\ Untouched(a)
        /\ phase[a] = "handler" /\ todo[a] # <<>>
        /\ phase'[a] = "handler" /\ todo'[a] = Tail(todo[a])
    BY <1>5, AwaitTakesEffect
  <2>2. UNCHANGED <<raises, replays>>
    BY <2>1 DEF history
  <2>3. a \notin Spare'
    BY <1>2, <2>1, CallOrigin DEF Spare
  <2>4. Spare' \subseteq Spare \ {a}
    BY <2>1, <2>3, SpareElsewhere
  <2>5. CASE PublishEvent(a)
    <3>1. PICK x : x = Head(todo[a]) /\ x.do = "publish" /\ published' = published \cup {x.event}
      BY <2>5 DEF PublishEvent, Perform, Subject
    <3>2. Forks' \subseteq Forks \cup {x.event}
      BY <3>1 DEF Forks, Fork
    <3>3. CASE Fork(x.event)
      <4>1. Serves[a] = "operator"
        BY <1>2, <2>1, <3>1, <3>3, CallOrigin
      <4>2. a \in Spare
        BY <2>1, <3>1, <4>1 DEF Spare
      <4>. QED  BY <1>3, <1>8, <1>9, <2>2, <2>4, <3>2, <4>2
    <3>4. CASE ~ Fork(x.event)
      <4>1. Forks' = Forks
        BY <3>1, <3>4 DEF Forks
      <4>. QED  BY <1>3, <1>8, <1>9, <2>2, <2>4, <4>1
    <3>. QED  BY <3>3, <3>4
  <2>6. CASE UNCHANGED published
    <3>1. Forks' = Forks
      BY <2>6 DEF Forks
    <3>. QED  BY <1>3, <1>8, <1>9, <2>2, <2>4, <3>1
  <2>. QED  BY <1>5, <2>5, <2>6
            DEF Await, RecordEvent, ReadResults, RecordDecision, RecordRun, RecordAction
<1>6. CASE Ends(a)
  <2>1. Untouched(a) /\ phase'[a] # "handler" /\ Spare' \subseteq Spare \cup {a} /\ UNCHANGED setting
    BY <1>6, EndIsSound, SpareElsewhere DEF Grows
  <2>2. phase'[a] # "fail" => Spare' \subseteq Spare \ {a}
    BY <2>1, SpareElsewhere DEF Spare
  <2>3. Control
    BY DEF IInv, TypeOK, Control
  <2>4. CASE Raise(a)
    <3>1. raises' = raises + 1 /\ UNCHANGED <<published, replays>>
      BY <2>4 DEF Raise
    <3>2. Forks' = Forks
      BY <3>1 DEF Forks
    <3>. QED  BY <1>3, <1>8, <1>10, <2>1, <3>1, <3>2
  <2>5. CASE Return(a) \/ RaiseForeignKey(a) \/ MarkProcessed(a) \/ Interrupt(a)
    <3>1. UNCHANGED <<published, raises, replays>>
      BY <2>5 DEF Return, RaiseForeignKey, MarkProcessed, Interrupt, history
    <3>2. Leave(a) \/ Goto(a, "mark")
      BY <1>2, <2>5, RowsAccepted DEF Return, RaiseForeignKey, MarkProcessed, Interrupt, Fail, Answer
    <3>3. phase'[a] # "fail"
      BY <2>3, <3>2 DEF Control, Leave, Goto
    <3>4. Forks' = Forks
      BY <3>1 DEF Forks
    <3>. QED  BY <1>3, <1>8, <1>9, <2>2, <3>1, <3>3, <3>4
  <2>6. CASE PublishRetry(a) \/ PublishDeadLetter(a)
    <3>1. PICK y : published' = published \cup {y}
      BY <2>6 DEF PublishRetry, PublishDeadLetter
    <3>2. UNCHANGED <<raises, replays>> /\ phase[a] = "fail" /\ Goto(a, "mark")
      BY <2>6 DEF PublishRetry, PublishDeadLetter
    <3>3. phase'[a] # "fail" /\ a \in Spare
      BY <2>3, <3>2 DEF Control, Goto, Spare
    <3>4. Forks' \subseteq Forks \cup {y}
      BY <3>1 DEF Forks, Fork
    <3>. QED  BY <1>3, <1>8, <1>9, <2>2, <3>2, <3>3, <3>4
  <2>. QED  BY <1>6, <2>4, <2>5, <2>6 DEF Ends
<1>. QED  BY <1>1, <1>4, <1>5, <1>6
-----------------------------------------------------------------------------
(***************************************************************************)
(* The inductive invariant.                                                *)
(***************************************************************************)
LEMMA PublishesBranched ==
  ASSUME IInv, \A x \in published : Branched(x), Next, NEW y \in published', y \notin published
  PROVE  Branched(y)
<1>1. PICK a \in Actors : Starts(a) \/ Await(a) \/ Ends(a)
  BY StepParts DEF Next
<1>2. ~ Starts(a)
  BY StartPlans
<1>3. CASE Await(a)
  <2>1. phase[a] = "handler" /\ todo[a] # <<>>
    BY <1>3, AwaitTakesEffect
  <2>2. PublishEvent(a)
    BY <1>3 DEF Await, RecordEvent, ReadResults, RecordDecision, RecordRun, RecordAction
  <2>3. PICK x : x = Head(todo[a]) /\ x.do = "publish" /\ y = x.event
    BY <2>2 DEF PublishEvent, Perform, Subject
  <2>. QED  BY <2>1, <2>3, CallOrigin
<1>4. CASE Ends(a)
  <2>1. PublishRetry(a) \/ PublishDeadLetter(a)
    BY <1>4 DEF Ends, Return, Raise, RaiseForeignKey, MarkProcessed, Interrupt
  <2>2. PICK e \in published : e = job[a]
    BY <2>1 DEF PublishRetry, PublishDeadLetter, IInv, Outcome
  <2>3. CASE PublishRetry(a)
    BY <2>2, <2>3, RetryBranched DEF PublishRetry
  <2>4. CASE PublishDeadLetter(a)
    <3>1. PICK n : y = DeadLetter(e, n)
      BY <2>2, <2>4 DEF PublishDeadLetter
    <3>2. IsDead(y)
      BY <3>1, EventFields DEF DeadLetter, IsDead
    <3>. QED  BY <3>2 DEF Branched
  <2>. QED  BY <2>1, <2>3, <2>4
<1>. QED  BY <1>1, <1>2, <1>3, <1>4

\* A step adds one row at most, and it is the latest then.
LEMMA RowAdded ==
  ASSUME IInv, Next
  PROVE  \/ UNCHANGED <<decisions, latest>>
         \/ \E a \in Actors, k \in DOMAIN DecisionKind : \E row :
              /\ phase[a] = "handler" /\ todo[a] # <<>> /\ Head(todo[a]).do = k
              /\ row = [kind |-> DecisionKind[k], source |-> Head(todo[a]).event]
              /\ decisions' = decisions \cup {row} /\ row \notin decisions
              /\ latest' = row.kind
              /\ UNCHANGED <<setting, published, history>>
<1>1. PICK a \in Actors : Starts(a) \/ Await(a) \/ Ends(a)
  BY StepParts DEF Next
<1>2. CASE Starts(a)
  BY <1>2, StartPlans DEF tables
<1>3. CASE Ends(a)
  BY <1>3 DEF Ends, Return, Raise, RaiseForeignKey, PublishRetry, PublishDeadLetter,
              MarkProcessed, Interrupt, tables
<1>4. CASE Await(a)
  <2>1. CASE RecordDecision(a)
    <3>. DEFINE Row(k) == [kind |-> DecisionKind[k], source |-> Subject(a)]
    <3>0. PICK k \in DOMAIN DecisionKind :
            /\ Perform(a, k)
            /\ decisions' = decisions \cup {Row(k)}
            /\ latest' = IF Row(k) \in decisions THEN latest ELSE Row(k).kind
            /\ UNCHANGED published
      BY <2>1 DEF RecordDecision
    <3>1. PICK row :
            /\ Perform(a, k) /\ row = [kind |-> DecisionKind[k], source |-> Subject(a)]
            /\ decisions' = decisions \cup {row}
            /\ latest' = IF row \in decisions THEN latest ELSE row.kind
            /\ UNCHANGED published
      BY <3>0
    <3>2. CASE row \in decisions
      <4>1. decisions' = decisions /\ latest' = latest
        BY <3>1, <3>2
      <4>. QED  BY <4>1
    <3>3. CASE row \notin decisions
      BY <3>1, <3>3 DEF Perform, Subject
    <3>. QED  BY <3>2, <3>3
  <2>2. CASE ~ RecordDecision(a)
    BY <1>4, <2>2 DEF Await, PublishEvent, RecordEvent, ReadResults, RecordRun, RecordAction, tables
  <2>. QED  BY <2>1, <2>2
<1>. QED  BY <1>1, <1>2, <1>3, <1>4

LEMMA ForkInvInit == Init => ForkInv
<1>. SUFFICES ASSUME Init  PROVE ForkInv
  OBVIOUS
<1>1. Branched(Created)
  BY EventFields DEF Created, Branched, IsHuman, IsResult
<1>2. ~ Fork(Created)
  BY TagsDiffer, EventFields DEF Created, Fork
<1>3. Forks = {}
  BY <1>2 DEF Init, Forks
<1>4. Spare = {}
  BY DEF Init, Spare
<1>5. Paid
  BY <1>3, <1>4, FS_EmptySet DEF Init, Paid
<1>. QED  BY <1>1, <1>5, FS_EmptySet DEF Init, ForkInv

LEMMA ForkInvNext == IInv /\ ForkInv /\ [Next]_vars => ForkInv'
<1>1. ASSUME IInv, ForkInv, Next  PROVE ForkInv'
  <2>1. Grows
    BY <1>1, StepIsSound
  <2>2. \A x \in published : Branched(x)
    BY <1>1 DEF ForkInv
  <2>3. \A x \in published' : Branched(x)
    BY <1>1, <2>2, PublishesBranched
  <2>4. \A x \in published' : Branched(x)'
    BY <2>1, <2>3, BranchedStays
  <2>5. ASSUME NEW d \in decisions'  PROVE Sourced(d)'
    <3>1. CASE d \in decisions
      BY <1>1, <2>1, <3>1 DEF ForkInv, Sourced, Grows
    <3>2. CASE d \notin decisions
      <4>1. PICK a \in Actors, k \in DOMAIN DecisionKind : \E x :
              /\ phase[a] = "handler" /\ todo[a] # <<>> /\ x = Head(todo[a]) /\ x.do = k
              /\ d = [kind |-> DecisionKind[k], source |-> x.event]
        BY <1>1, <3>2, RowAdded
      <4>2. PICK x :
              /\ phase[a] = "handler" /\ todo[a] # <<>> /\ x = Head(todo[a]) /\ x.do = k
              /\ d = [kind |-> DecisionKind[k], source |-> x.event]
        BY <4>1
      <4>3. /\ k = "recommend" => d.source \in published /\ IsResult(d.source, "aggregate")
            /\ k = "finalize" =>
                 d.source \in published /\ (IsResult(d.source, "aggregate") \/ IsHuman(d.source))
        BY <1>1, <2>2, <4>2, CallOrigin
      <4>4. d.kind = "SYSTEM_RECOMMENDATION" => k = "recommend"
        BY <4>2 DEF DecisionKind
      <4>5. d.kind = "FINAL" => k = "finalize"
        BY <4>2 DEF DecisionKind
      <4>. QED  BY <2>1, <4>3, <4>4, <4>5 DEF Sourced, Grows
    <3>. QED  BY <3>1, <3>2
  <2>6. IsFiniteSet(decisions')
    <3>1. CASE UNCHANGED decisions
      BY <1>1, <3>1 DEF ForkInv
    <3>2. CASE \E row : decisions' = decisions \cup {row}
      BY <1>1, <3>2, OneMore DEF ForkInv
    <3>. QED  BY <1>1, <3>1, <3>2, RowAdded
  <2>. QED  BY <1>1, <2>4, <2>5, <2>6, PaidStep DEF ForkInv
<1>2. ASSUME ForkInv, UNCHANGED vars  PROVE ForkInv'
  <2>1. Forks' = Forks /\ Spare' = Spare
    BY <1>2 DEF vars, Forks, Spare
  <2>2. Paid'
    BY <1>2, <2>1 DEF ForkInv, Paid, vars, history
  <2>3. \A x \in published' : Branched(x)'
    BY <1>2, <2>1 DEF ForkInv, Branched, vars
  <2>4. \A d \in decisions' : Sourced(d)'
    BY <1>2 DEF ForkInv, Sourced, vars, tables
  <2>5. IsFiniteSet(decisions')
    BY <1>2 DEF ForkInv, vars, tables
  <2>. QED  BY <2>2, <2>3, <2>4, <2>5 DEF ForkInv
<1>. QED  BY <1>1, <1>2

\* What the theorems below rest on.
Countable == IInv /\ ForkInv /\ FinalsAreBacked

LEMMA AlwaysCountable == Spec => []Countable
<1>1. IInv /\ ForkInv /\ FinalsAreBacked => Countable
  BY DEF Countable
<1>. QED  BY <1>1, AlwaysIInv, ForkInvInit, ForkInvNext, FinalsAreAlwaysBacked, PTL DEF Spec

-----------------------------------------------------------------------------
(***************************************************************************)
(* Decisions are as many as branches.                                      *)
(***************************************************************************)
\* Rows of one kind, at most as many as branches that end in them.
LEMMA RowsOfBranches ==
  ASSUME IInv, ForkInv, NEW R, R \subseteq decisions, NEW kind \in {"SYSTEM_RECOMMENDATION", "FINAL"},
         \A d \in R : d.kind = kind,
         NEW B, IsFiniteSet(B), \A d \in R : Branch(d.source) \in B
  PROVE  IsFiniteSet(R) /\ Cardinality(R) <= Cardinality(B)
<1>. DEFINE f == [d \in R |-> Branch(d.source)]
<1>1. ASSUME NEW d \in R
      PROVE  /\ d.source \in published /\ Branched(d.source)
             /\ IsResult(d.source, "aggregate") \/ IsHuman(d.source)
  BY DEF ForkInv, Sourced
<1>2. ASSUME NEW d \in R, NEW x \in R, f[d] = f[x]  PROVE d = x
  <2>1. d.source = x.source
    BY <1>1, <1>2, BranchInjective
  <2>2. d \in [kind : {DecisionKind[k] : k \in DOMAIN DecisionKind}, source : Event]
        /\ x \in [kind : {DecisionKind[k] : k \in DOMAIN DecisionKind}, source : Event]
    BY DEF IInv, TypeOK
  <2>. QED  BY <2>1, <2>2
<1>3. f \in Injection(R, B)
  <2>1. f \in [R -> B]
    OBVIOUS
  <2>. QED  BY <1>2, <2>1 DEF Injection, IsInjective
<1>4. IsFiniteSet(R)
  BY FS_Subset DEF ForkInv
<1>. HIDE DEF f
<1>. QED  BY <1>3, <1>4, FS_Injection

LEMMA ForkInvCountsForks == IInv /\ ForkInv => ForksBounded
<1>. SUFFICES ASSUME IInv, ForkInv  PROVE ForksBounded
  OBVIOUS
<1>. DEFINE R == {d \in decisions : d.kind = "SYSTEM_RECOMMENDATION"}
<1>1. \A d \in R : Branch(d.source) \in Forks \cup {Created}
  <2>. SUFFICES ASSUME NEW d \in decisions, d.kind = "SYSTEM_RECOMMENDATION"
                PROVE  Branch(d.source) \in Forks \cup {Created}
    OBVIOUS
  <2>1. d.source \in published /\ IsResult(d.source, "aggregate") /\ Branched(d.source)
    BY DEF ForkInv, Sourced
  <2>. QED  BY <2>1, BranchTyped DEF IsHuman, IsResult
<1>2. /\ IsFiniteSet(Forks \cup {Created}) /\ Cardinality(Forks \cup {Created}) \in Nat
      /\ Cardinality(Forks \cup {Created}) <= Cardinality(Forks) + 1
  BY ForksCounted, OneMore
<1>3. R \subseteq decisions /\ \A d \in R : d.kind = "SYSTEM_RECOMMENDATION"
  OBVIOUS
<1>. HIDE DEF R
<1>4. IsFiniteSet(R) /\ Cardinality(R) <= Cardinality(Forks \cup {Created})
  BY <1>1, <1>2, <1>3, RowsOfBranches
<1>5. /\ Cardinality(R) \in Nat /\ Cardinality(Forks) \in Nat /\ Cardinality(Spare) \in Nat
      /\ Cardinality(Forks) + Cardinality(Spare) <= raises + replays
      /\ raises \in Nat /\ replays \in Nat
  BY <1>4, ForksCounted, FS_CardinalityType DEF ForkInv, Paid, IInv, TypeOK
<1>6. PICK r, b, f, s : /\ r = Cardinality(R) /\ b = Cardinality(Forks \cup {Created})
                        /\ f = Cardinality(Forks) /\ s = Cardinality(Spare)
  OBVIOUS
<1>7. r <= 1 + raises + replays
  BY <1>2, <1>4, <1>5, <1>6
<1>. QED  BY <1>6, <1>7 DEF ForksBounded, Recommendations, R

\* Redeliveries never duplicate a recommendation: each handler that raised and
\* each replay adds one at most.
THEOREM ForksAreBounded == Spec => []ForksBounded
<1>1. Countable => ForksBounded
  BY ForkInvCountsForks DEF Countable
<1>. QED  BY <1>1, AlwaysCountable, PTL

-----------------------------------------------------------------------------
(***************************************************************************)
(* Every stage of the pipeline is as wide as its branches.                 *)
(***************************************************************************)
Stage(type, step) == {e \in published : e.type = type /\ e.step = step}

\* The events of one stage are told apart by their branches: the fork that an
\* event descends from comes earlier in the pipeline.
LEMMA StageInjective ==
  ASSUME IInv, NEW type, type # "dead", NEW step, ~ (type = "completed" /\ step = "review"),
         NEW e \in Stage(type, step), Branched(e), NEW x \in Stage(type, step), Branched(x),
         Branch(e) = Branch(x)
  PROVE  e = x
<1>1. /\ e \in Event /\ x \in Event
      /\ e.type = type /\ x.type = type /\ e.step = step /\ x.step = step
  BY DEF IInv, TypeOK, Stage
<1>2. ~ Fork(Created)
  BY TagsDiffer, EventFields DEF Created, Fork
<1>3. ASSUME NEW y \in Stage(type, step), Branched(y)
      PROVE  /\ ~ IsDead(y) /\ ~ IsHuman(y)
             /\ Fork(y) => Branch(y) = y
             /\ ~ Fork(y) =>
                  /\ y.attempt = 1 /\ y.tag = NoTag
                  /\ y.past = <<>> => Branch(y) = Created
                  /\ y.past # <<>> => /\ Branch(y) = FailedEvent(y) /\ FailedEvent(y) \in Forks
                                      /\ Place(FailedEvent(y)) < Place(y)
                                      /\ Place(FailedEvent(y)) \in Nat /\ Place(y) \in Nat
  <2>1. y \in Event /\ y.type = type /\ y.step = step
    BY <1>3 DEF IInv, TypeOK, Stage
  <2>2. ~ IsDead(y) /\ ~ IsHuman(y)
    BY <2>1 DEF IsDead, IsHuman, IsResult
  <2>3. y.attempt \in Nat /\ y.attempt >= 1
    BY <2>1, Attempts DEF Event
  <2>4. ~ Fork(y) => y.attempt = 1 /\ y.tag = NoTag
    BY <1>3, <2>2, <2>3 DEF Fork, Branched
  <2>. QED  BY <1>3, <2>2, <2>4 DEF Branched, Branch, Precedes
<1>4. ASSUME NEW y \in Stage(type, step), Branched(y), ~ Fork(y),
             NEW z \in Stage(type, step), Fork(z)
      PROVE  Branch(y) # z
  <2>1. Place(y) = Place(z)
    BY <1>4 DEF Stage, Place, Concluding
  <2>. QED  BY <1>2, <1>3, <1>4, <2>1
<1>5. CASE Fork(e) /\ Fork(x)
  BY <1>3, <1>5
<1>6. CASE Fork(e) /\ ~ Fork(x)
  BY <1>3, <1>4, <1>6
<1>7. CASE ~ Fork(e) /\ Fork(x)
  BY <1>3, <1>4, <1>7
<1>8. CASE ~ Fork(e) /\ ~ Fork(x)
  <2>1. e.past = x.past
    <3>1. CASE e.past = <<>> /\ x.past = <<>>
      BY <3>1
    <3>2. CASE e.past # <<>> /\ x.past # <<>>
      BY <1>1, <1>3, <1>8, <3>2, SamePast
    <3>3. CASE e.past = <<>> /\ x.past # <<>>
      BY <1>2, <1>3, <1>8, <3>3 DEF Forks
    <3>4. CASE e.past # <<>> /\ x.past = <<>>
      BY <1>2, <1>3, <1>8, <3>4 DEF Forks
    <3>. QED  BY <3>1, <3>2, <3>3, <3>4
  <2>. QED  BY <1>1, <1>3, <1>8, <2>1 DEF Event
<1>. QED  BY <1>5, <1>6, <1>7, <1>8

\* Each step of each stage is announced once, and once more for each handler
\* that raised and each replay: redelivered messages, workers that die before
\* they acknowledge and stale entries that another worker claims add nothing.
StepsBounded ==
  \A type \in Type \ {"dead"} : \A step : ~ (type = "completed" /\ step = "review") =>
    Cardinality(Stage(type, step)) <= 1 + raises + replays

LEMMA StepsOfBranches == IInv /\ ForkInv => StepsBounded
<1>. SUFFICES ASSUME IInv, ForkInv, NEW type \in Type \ {"dead"}, NEW step,
                     ~ (type = "completed" /\ step = "review")
              PROVE  Cardinality(Stage(type, step)) <= 1 + raises + replays
  BY DEF StepsBounded
<1>. DEFINE S == Stage(type, step)
            B == Forks \cup {Created}
            f == [e \in S |-> Branch(e)]
<1>1. ASSUME NEW e \in S  PROVE e \in published /\ Branched(e) /\ Branch(e) \in B
  <2>1. e \in published /\ Branched(e)
    BY DEF ForkInv, Stage
  <2>2. ~ IsDead(e) /\ ~ IsHuman(e)
    BY DEF Stage, IsDead, IsHuman, IsResult
  <2>. QED  BY <2>1, <2>2 DEF Branched, Branch, Forks
<1>2. \A e, x \in S : f[e] = f[x] => e = x
  BY <1>1, StageInjective
<1>3. f \in Injection(S, B)
  <2>1. f \in [S -> B]
    BY <1>1
  <2>. HIDE DEF f, S, B
  <2>. QED  BY <1>2, <2>1 DEF Injection, IsInjective
<1>4. /\ IsFiniteSet(B) /\ Cardinality(B) \in Nat /\ Cardinality(B) <= Cardinality(Forks) + 1
  BY ForksCounted, OneMore
<1>5. IsFiniteSet(S)
  BY FS_Subset DEF IInv, Stage
<1>. HIDE DEF f, S, B
<1>6. Cardinality(S) <= Cardinality(B) /\ Cardinality(S) \in Nat
  BY <1>3, <1>4, <1>5, FS_Injection, FS_CardinalityType
<1>7. /\ Cardinality(Forks) \in Nat /\ Cardinality(Spare) \in Nat
      /\ Cardinality(Forks) + Cardinality(Spare) <= raises + replays
      /\ raises \in Nat /\ replays \in Nat
  BY ForksCounted, FS_CardinalityType DEF ForkInv, Paid, IInv, TypeOK
<1>8. PICK s, b, k, p : /\ s = Cardinality(S) /\ b = Cardinality(B)
                        /\ k = Cardinality(Forks) /\ p = Cardinality(Spare)
  OBVIOUS
<1>9. s <= 1 + raises + replays
  BY <1>4, <1>6, <1>7, <1>8
<1>. QED  BY <1>8, <1>9 DEF S

\* No stage of the pipeline multiplies: an agent's request or result, a request
\* for review and a final decision are each announced once for every fork.
THEOREM StepsAreBounded == Spec => []StepsBounded
<1>1. Countable => StepsBounded
  BY StepsOfBranches DEF Countable
<1>. QED  BY <1>1, AlwaysCountable, PTL

-----------------------------------------------------------------------------
LEMMA FinalsOfBranches == Countable => FinalsBounded
<1>. SUFFICES ASSUME Countable  PROVE FinalsBounded
  OBVIOUS
<1>. DEFINE R == {d \in decisions : d.kind = "FINAL"}
            H == {d \in decisions : d.kind = "HUMAN_REVIEW"}
            Human == {d.source : d \in H}
            First == IF verdict = "REVIEW" THEN {} ELSE {Created}
            B == Forks \cup First \cup Human
            first == IF verdict = "REVIEW" THEN 0 ELSE 1
<1>1. ASSUME NEW d \in R  PROVE Branch(d.source) \in B
  <2>1. /\ d.source \in published /\ Branched(d.source)
        /\ IsResult(d.source, "aggregate") \/ IsHuman(d.source)
    BY DEF Countable, ForkInv, Sourced
  <2>2. CASE IsHuman(d.source)
    <3>1. Fork(d.source) \/ \E v \in Reviews : d.source = ReviewCompleted(v)
      BY <2>1, <2>2 DEF Branched, IsHuman, IsResult, IsDead
    <3>2. CASE Fork(d.source)
      BY <2>1, <3>2 DEF Branch, Forks
    <3>3. CASE \E v \in Reviews : d.source = ReviewCompleted(v)
      <4>1. PICK v \in Reviews : d.source = ReviewCompleted(v)
        BY <3>3
      <4>2. d.source.tag = v
        BY <4>1, EventFields DEF ReviewCompleted
      <4>3. Decided("HUMAN_REVIEW", d.source)
        BY <2>2, <4>1, <4>2 DEF Countable, FinalsAreBacked, BackedByReviewer
      <4>4. d.source \in Human
        <5>1. PICK row \in decisions : row = [kind |-> "HUMAN_REVIEW", source |-> d.source]
          BY <4>3 DEF Decided
        <5>2. row.kind = "HUMAN_REVIEW" /\ row.source = d.source
          BY <5>1
        <5>. QED  BY <5>2
      <4>. QED  BY <2>2, <4>4 DEF Branch
    <3>. QED  BY <3>1, <3>2, <3>3
  <2>3. CASE ~ IsHuman(d.source)
    <3>1. verdict # "REVIEW"
      BY <2>3 DEF Countable, FinalsAreBacked
    <3>. QED  BY <2>1, <2>3, <3>1, BranchTyped
  <2>. QED  BY <2>2, <2>3
<1>2. IsFiniteSet(R) /\ IsFiniteSet(H) /\ Cardinality(R) \in Nat /\ Cardinality(H) \in Nat
  <2>1. IsFiniteSet(R) /\ IsFiniteSet(H)
    BY FS_Subset DEF Countable, ForkInv
  <2>. QED  BY <2>1, FS_CardinalityType
<1>3. IsFiniteSet(Human) /\ Cardinality(Human) <= Cardinality(H)
  <2>. DEFINE g == [d \in H |-> d.source]
  <2>1. g \in [H -> Human] /\ \A x \in Human : \E d \in H : g[d] = x
    OBVIOUS
  <2>2. g \in Surjection(H, Human)
    BY <2>1 DEF Surjection
  <2>. HIDE DEF g, H, Human
  <2>. QED  BY <1>2, <2>2, FS_Surjection
<1>4. /\ IsFiniteSet(Forks \cup First) /\ Cardinality(Forks \cup First) \in Nat
      /\ Cardinality(Forks \cup First) <= Cardinality(Forks) + first
  <2>1. CASE verdict = "REVIEW"
    <3>1. Forks \cup First = Forks
      BY <2>1
    <3>. QED  BY <2>1, <3>1, ForksCounted DEF Countable
  <2>2. CASE verdict # "REVIEW"
    <3>1. Forks \cup First = Forks \cup {Created}
      BY <2>2
    <3>. QED  BY <2>2, <3>1, ForksCounted, OneMore DEF Countable
  <2>. QED  BY <2>1, <2>2
<1>5. R \subseteq decisions /\ \A d \in R : d.kind = "FINAL"
  OBVIOUS
<1>. HIDE DEF R, H, Human, First
<1>6. /\ IsFiniteSet(B) /\ Cardinality(B) \in Nat
      /\ Cardinality(B) <= Cardinality(Forks \cup First) + Cardinality(Human)
      /\ Cardinality(Human) \in Nat
  BY <1>3, <1>4, UnionCounted, FS_CardinalityType
<1>. HIDE DEF B
<1>7. Cardinality(R) <= Cardinality(B)
  BY <1>1, <1>5, <1>6, RowsOfBranches DEF Countable
<1>8. /\ Cardinality(Forks) \in Nat /\ Cardinality(Spare) \in Nat
      /\ Cardinality(Forks) + Cardinality(Spare) <= raises + replays
      /\ raises \in Nat /\ replays \in Nat
  BY ForksCounted, FS_CardinalityType DEF Countable, ForkInv, Paid, IInv, TypeOK
<1>9. PICK r, h, u, b, c, f, s :
        /\ r = Cardinality(R) /\ h = Cardinality(H) /\ u = Cardinality(Human)
        /\ b = Cardinality(B) /\ c = Cardinality(Forks \cup First)
        /\ f = Cardinality(Forks) /\ s = Cardinality(Spare)
  OBVIOUS
<1>10. /\ r \in Nat /\ h \in Nat /\ u \in Nat /\ b \in Nat /\ c \in Nat /\ f \in Nat /\ s \in Nat
       /\ raises \in Nat /\ replays \in Nat /\ first \in Nat
       /\ r <= b /\ b <= c + u /\ u <= h /\ c <= f + first /\ f + s <= raises + replays
  BY <1>2, <1>3, <1>4, <1>6, <1>7, <1>8, <1>9
<1>. HIDE DEF first
<1>11. r <= first + h + raises + replays
  BY <1>10
<1>. QED  BY <1>9, <1>11 DEF FinalsBounded, Finals, HumanReviews, R, H, first

\* Final decisions are at most one by the system, one for each review, and one
\* for each handler that raised and each replay, whatever is redelivered.
THEOREM FinalsAreBounded == Spec => []FinalsBounded
BY FinalsOfBranches, AlwaysCountable, PTL

-----------------------------------------------------------------------------
(***************************************************************************)
(* The decision that is shown.                                             *)
(***************************************************************************)
LEMMA CountersGrow ==
  ASSUME IInv, [Next]_vars, raises' = 0, replays' = 0
  PROVE  raises = 0 /\ replays = 0
<1>1. raises \in Nat /\ replays \in Nat
  BY DEF IInv, TypeOK
<1>2. CASE UNCHANGED vars
  BY <1>2 DEF vars, history
<1>3. ASSUME NEW a \in Actors, Starts(a)  PROVE raises = 0 /\ replays = 0
  BY <1>1, <1>3 DEF Starts, Take, Reclaim, SubmitReview, SubmitReplay, history
<1>4. ASSUME NEW a \in Actors, Await(a)  PROVE raises = 0 /\ replays = 0
  BY <1>4, AwaitTakesEffect DEF history
<1>5. ASSUME NEW a \in Actors, Ends(a)  PROVE raises = 0 /\ replays = 0
  BY <1>1, <1>5 DEF Ends, Return, Raise, RaiseForeignKey, PublishRetry, PublishDeadLetter,
                    MarkProcessed, Interrupt, history
<1>. QED  BY <1>2, <1>3, <1>4, <1>5, StepParts DEF Next

\* Without anything that adds decisions there is one recommendation only.
OneRecommendation ==
  raises = 0 /\ replays = 0 =>
    \A d, x \in decisions :
      d.kind = "SYSTEM_RECOMMENDATION" /\ x.kind = "SYSTEM_RECOMMENDATION" => d = x

LEMMA RecommendationsAgree ==
  ASSUME Countable, raises = 0, replays = 0,
         NEW d \in decisions, d.kind = "SYSTEM_RECOMMENDATION",
         NEW x \in decisions, x.kind = "SYSTEM_RECOMMENDATION"
  PROVE  d = x
<1>1. PICK R : R = {y \in decisions : y.kind = "SYSTEM_RECOMMENDATION"}
  OBVIOUS
<1>2. Cardinality(R) <= 1 /\ IsFiniteSet(R)
  BY <1>1, ForkInvCountsForks, FS_Subset DEF Countable, ForkInv, ForksBounded, Recommendations
<1>3. ASSUME d # x  PROVE FALSE
  <2>1. PICK D : D = {d}
    OBVIOUS
  <2>2. IsFiniteSet(D) /\ Cardinality(D) = 1 /\ x \notin D
    BY <1>3, <2>1, FS_Singleton
  <2>3. PICK P : P = D \cup {x}
    OBVIOUS
  <2>6. IsFiniteSet(P) /\ Cardinality(P) = 2
    BY <2>2, <2>3, FS_AddElement
  <2>4. P \subseteq R
    BY <1>1, <2>1, <2>3
  <2>5. Cardinality(P) <= Cardinality(R) /\ Cardinality(R) \in Nat
    BY <1>2, <2>4, FS_Subset, FS_CardinalityType
  <2>. QED  BY <1>2, <2>5, <2>6
<1>. QED  BY <1>3

\* Once the decision list_cases shows is the final one it stays in front,
\* whatever is redelivered.
THEOREM LatestIsAlwaysFinal == Spec => []LatestIsFinal
<1>1. Init => LatestIsFinal
  BY DEF Init, LatestIsFinal
<1>2. LatestIsFinal /\ Countable /\ OneRecommendation' /\ [Next]_vars => LatestIsFinal'
  <2>. SUFFICES ASSUME LatestIsFinal, Countable, OneRecommendation', [Next]_vars,
                       raises' = 0, replays' = 0,
                       \A d \in decisions' : d.kind # "HUMAN_REVIEW",
                       NEW f \in decisions', f.kind = "FINAL"
                PROVE  latest' = "FINAL"
    BY DEF LatestIsFinal
  <2>1. IInv /\ raises = 0 /\ replays = 0
    BY CountersGrow DEF Countable
  <2>2. CASE UNCHANGED <<decisions, latest>>
    BY <2>1, <2>2 DEF LatestIsFinal
  <2>3. ASSUME NEW row, decisions' = decisions \cup {row}, row \notin decisions,
               latest' = row.kind, NEW k \in DOMAIN DecisionKind, row.kind = DecisionKind[k]
        PROVE  latest' = "FINAL"
    <3>1. row.kind \in {"SYSTEM_RECOMMENDATION", "FINAL"}
      BY <2>3 DEF DecisionKind
    <3>2. CASE row.kind = "SYSTEM_RECOMMENDATION"
      <4>1. f \in decisions
        BY <2>3, <3>2
      <4>2. ~ IsHuman(f.source)
        <5>1. ASSUME NEW v, Decided("HUMAN_REVIEW", ReviewCompleted(v))  PROVE FALSE
          <6>1. PICK d \in decisions : d = [kind |-> "HUMAN_REVIEW", source |-> ReviewCompleted(v)]
            BY <5>1 DEF Decided
          <6>2. d.kind = "HUMAN_REVIEW" /\ d \in decisions'
            BY <2>3, <6>1
          <6>. QED  BY <6>2
        <5>2. IsHuman(f.source) => BackedByReviewer(f.source)
          BY <4>1 DEF Countable, FinalsAreBacked
        <5>. QED  BY <5>1, <5>2 DEF BackedByReviewer
      <4>3. Decided("SYSTEM_RECOMMENDATION", f.source)
        BY <4>1, <4>2 DEF Countable, FinalsAreBacked
      <4>4. PICK d \in decisions : d = [kind |-> "SYSTEM_RECOMMENDATION", source |-> f.source]
        BY <4>3 DEF Decided
      <4>5. d.kind = "SYSTEM_RECOMMENDATION" /\ d \in decisions' /\ row \in decisions'
        BY <2>3, <4>4
      <4>6. d = row
        BY <3>2, <4>5 DEF OneRecommendation
      <4>. QED  BY <2>3, <4>6
    <3>. QED  BY <2>3, <3>1, <3>2
  <2>4. CASE Next
    BY <2>1, <2>2, <2>3, <2>4, RowAdded
  <2>5. CASE UNCHANGED vars
    BY <2>2, <2>5 DEF vars, tables
  <2>. QED  BY <2>4, <2>5
<1>3. Countable => OneRecommendation
  BY RecommendationsAgree DEF OneRecommendation
<1>. QED  BY <1>1, <1>2, <1>3, AlwaysCountable, PTL DEF Spec

-----------------------------------------------------------------------------
(***************************************************************************)
(* The pipeline implements CaseLifecycle.                                  *)
(***************************************************************************)
Recommended == {Past(d.source) : d \in Recommendations}
Announced == {e.past : e \in {x \in published : x.type = "finalized"}}
Waiting == {e.past : e \in {x \in actions : x.type = "requested"}}
Final == {Past(d.source) : d \in Finals}

\* What ends the path of a case follows a recorded recommendation of the same
\* branch, and is what the verdict asks for.
Concluded(x) ==
  Concluding(x) =>
    /\ x.past \in Recommended
    /\ x.type = "finalized" <=> verdict # "REVIEW"

LifecycleInv == \A x \in published : Concluded(x)

LEMMA ConcludedStays ==
  ASSUME Grows, NEW x, Concluded(x)
  PROVE  Concluded(x)'
BY DEF Grows, setting, Concluded, Recommended, Recommendations

\* The call whose turn it is.
LEMMA ConclusionOrigin ==
  ASSUME IInv, LifecycleInv,
         NEW a \in Actors, phase[a] = "handler", todo[a] # <<>>,
         NEW x, x = Head(todo[a])
  PROVE  /\ x.do = "publish" => Concluded(x.event)
         /\ x.do = "act" /\ x.event.type = "requested" =>
              x.event \in published /\ Concluding(x.event)
<1>1. PICK p \in Seq(Call), s \in Seq(Call) : s = todo[a] /\ PlanOf(a, p) /\ Halfway(s, p)
  BY DEF IInv, TypeOK, Handling
<1>2. PICK k \in 1..Len(p) : x = p[k] /\ \A i \in 1..(k - 1) : Effective(p[i])
  BY <1>1, RestNext DEF Halfway
<1>3. CASE Serves[a] \notin Clients
  <2>1. PICK c \in published : p = Handler(c)
    BY <1>1, <1>3 DEF PlanOf, Clients
  <2>2. Derives(c, p)
    BY <2>1, HandlerDerives DEF IInv, Admissible
  <2>3. ASSUME x.do = "publish", Concluding(x.event)  PROVE Concluded(x.event)
    <3>1. x.event.past = Past(c) /\ Concludes(c, p, k)
      BY <1>2, <2>2, <2>3 DEF Derives, Derived
    <3>2. Decided("SYSTEM_RECOMMENDATION", c)
      BY <1>2, <3>1, Effects DEF Concludes
    <3>3. PICK d \in decisions : d = [kind |-> "SYSTEM_RECOMMENDATION", source |-> c]
      BY <3>2 DEF Decided
    <3>4. d.kind = "SYSTEM_RECOMMENDATION" /\ d.source = c
      BY <3>3
    <3>5. Past(c) \in Recommended
      BY <3>4 DEF Recommended, Recommendations
    <3>. QED  BY <1>2, <3>1, <3>5 DEF Concluded, Concludes
  <2>4. x.do = "act" => x.event \in published /\ Concluding(x.event)
    BY <1>2, <2>1, <2>2 DEF Derives, Concluding
  <2>. QED  BY <2>3, <2>4 DEF Concluded
<1>4. CASE Serves[a] = "reviewer"
  <2>1. PICK v \in Reviews : p = AddDecision(v)
    BY <1>1, <1>4 DEF PlanOf, Clients
  <2>. DEFINE e == ReviewCompleted(v)
  <2>2. p = <<Do("act", e), Do("human", e), Do("publish", e), Do("record", e)>>
    BY <2>1, AddDecisionPlan
  <2>3. e.type = "completed"
    BY EventFields DEF ReviewCompleted
  <2>. HIDE DEF e
  <2>4. x \in {Do("act", e), Do("human", e), Do("publish", e), Do("record", e)}
    <3>1. k \in {1, 2, 3, 4}
      BY <1>2, <2>2
    <3>. QED  BY <1>2, <2>2, <3>1
  <2>5. x.event = e
    BY <2>4, CallFields
  <2>. QED  BY <2>3, <2>5 DEF Concluded, Concluding
<1>5. CASE Serves[a] = "operator"
  <2>1. PICK d \in published, reset \in BOOLEAN : IsDead(d) /\ p = Emit(Replay(d, reset))
    BY <1>1, <1>5 DEF PlanOf, Clients, IInv, TypeOK
  <2>2. PICK e, y : e = FailedEvent(d) /\ y = Replay(d, reset)
    OBVIOUS
  <2>3. e \in published /\ e \in Event
    BY <2>1, <2>2 DEF IInv, Admissible, Wellformed
  <2>4. y.type = e.type /\ y.step = e.step /\ y.past = e.past
    BY <2>2, <2>3 DEF Replay, Event
  <2>5. p = <<Do("publish", y), Do("record", y)>>
    BY <2>1, <2>2 DEF Emit
  <2>6. x \in {Do("publish", y), Do("record", y)}
    <3>1. k \in {1, 2}
      BY <1>2, <2>5
    <3>. QED  BY <1>2, <2>5, <3>1
  <2>7. x.event = y /\ x.do # "act"
    BY <2>6, CallFields
  <2>. QED  BY <2>3, <2>4, <2>7 DEF Concluded, Concluding, LifecycleInv
<1>. QED  BY <1>3, <1>4, <1>5 DEF Clients

LEMMA PublishesConcluded ==
  ASSUME IInv, LifecycleInv, Next, NEW y \in published', y \notin published
  PROVE  Concluded(y)
<1>1. PICK a \in Actors : Starts(a) \/ Await(a) \/ Ends(a)
  BY StepParts DEF Next
<1>2. ~ Starts(a)
  BY StartPlans
<1>3. CASE Await(a)
  <2>1. phase[a] = "handler" /\ todo[a] # <<>>
    BY <1>3, AwaitTakesEffect
  <2>2. PublishEvent(a)
    BY <1>3 DEF Await, RecordEvent, ReadResults, RecordDecision, RecordRun, RecordAction
  <2>3. PICK x : x = Head(todo[a]) /\ x.do = "publish" /\ y = x.event
    BY <2>2 DEF PublishEvent, Perform, Subject
  <2>. QED  BY <2>1, <2>3, ConclusionOrigin
<1>4. CASE Ends(a)
  <2>1. PublishRetry(a) \/ PublishDeadLetter(a)
    BY <1>4 DEF Ends, Return, Raise, RaiseForeignKey, MarkProcessed, Interrupt
  <2>2. PICK e \in published : e = job[a]
    BY <2>1 DEF PublishRetry, PublishDeadLetter, IInv, Outcome
  <2>3. CASE PublishRetry(a)
    <3>1. y = Retry(e) /\ e \in Event
      BY <2>2, <2>3 DEF PublishRetry, IInv, TypeOK
    <3>2. y.type = e.type /\ y.step = e.step /\ y.past = e.past
      BY <3>1 DEF Retry, Event
    <3>. QED  BY <2>2, <3>2 DEF LifecycleInv, Concluded, Concluding
  <2>4. CASE PublishDeadLetter(a)
    <3>1. PICK n : y = DeadLetter(e, n)
      BY <2>2, <2>4 DEF PublishDeadLetter
    <3>2. y.type = "dead"
      BY <3>1, EventFields DEF DeadLetter
    <3>. QED  BY <3>2 DEF Concluded, Concluding
  <2>. QED  BY <2>1, <2>3, <2>4
<1>. QED  BY <1>1, <1>2, <1>3, <1>4

LEMMA LifecycleInvInit == Init => LifecycleInv
BY EventFields DEF Init, Created, LifecycleInv, Concluded, Concluding

LEMMA LifecycleInvNext == IInv /\ LifecycleInv /\ [Next]_vars => LifecycleInv'
<1>1. ASSUME IInv, LifecycleInv, Next  PROVE LifecycleInv'
  <2>1. Grows
    BY <1>1, StepIsSound
  <2>2. \A x \in published' : Concluded(x)
    BY <1>1, PublishesConcluded DEF LifecycleInv
  <2>. QED  BY <2>1, <2>2, ConcludedStays DEF LifecycleInv
<1>2. ASSUME LifecycleInv, UNCHANGED vars  PROVE LifecycleInv'
  BY <1>2 DEF LifecycleInv, Concluded, Recommended, Recommendations, vars, setting, tables
<1>. QED  BY <1>1, <1>2
\* Branches are counted like rows.
LEMMA BranchesCounted ==
  ASSUME NEW R, IsFiniteSet(R)
  PROVE  /\ IsFiniteSet({Past(d.source) : d \in R})
         /\ Cardinality({Past(d.source) : d \in R}) \in Nat
         /\ Cardinality({Past(d.source) : d \in R}) <= Cardinality(R)
<1>. DEFINE B == {Past(d.source) : d \in R}
            f == [d \in R |-> Past(d.source)]
<1>1. f \in [R -> B] /\ \A b \in B : \E d \in R : f[d] = b
  OBVIOUS
<1>2. f \in Surjection(R, B)
  BY <1>1 DEF Surjection
<1>. HIDE DEF f, B
<1>3. IsFiniteSet(B) /\ Cardinality(B) <= Cardinality(R)
  BY <1>2, FS_Surjection
<1>. QED  BY <1>3, FS_CardinalityType DEF B

LEMMA LifecycleInit == Init => Lifecycle!Init
<1>. SUFFICES ASSUME Init  PROVE Lifecycle!Init
  OBVIOUS
<1>1. verdict \in {"ALLOW", "BLOCK", "REVIEW"}
  BY PipelineAssumption DEF Init
<1>2. Created.type = "created"
  BY EventFields DEF Created
<1>. QED  BY <1>1, <1>2 DEF Init, Lifecycle!Init, Recommendations, HumanReviews, Finals

\* The steps that concern the lifecycle.
LEMMA LifecycleSteps ==
  ASSUME IInv, LifecycleInv, Next
  PROVE  \/ UNCHANGED <<published, decisions, actions, raises, replays>>
         \/ \E y : published' = published \cup {y}
                    /\ UNCHANGED <<decisions, actions, raises, replays>>
         \/ \E y : /\ actions' = actions \cup {y}
                   /\ y.type = "requested" => y \in published /\ Concluding(y)
                   /\ UNCHANGED <<published, decisions, raises, replays>>
         \/ \E k \in DOMAIN DecisionKind : \E row :
              /\ row.kind = DecisionKind[k] /\ row \notin decisions
              /\ decisions' = decisions \cup {row}
              /\ UNCHANGED <<published, actions, raises, replays>>
         \/ /\ raises' + replays' = raises + replays + 1
            /\ UNCHANGED <<published, decisions, actions>>
<1>1. PICK a \in Actors : Starts(a) \/ Await(a) \/ Ends(a)
  BY StepParts DEF Next
<1>2. raises \in Nat /\ replays \in Nat
  BY DEF IInv, TypeOK
<1>3. CASE Starts(a)
  BY <1>2, <1>3 DEF Starts, Take, Reclaim, SubmitReview, SubmitReplay, tables, history
<1>4. CASE Await(a)
  <2>1. /\ UNCHANGED <<raises, replays>>
        /\ phase[a] = "handler" /\ todo[a] # <<>>
    BY <1>4, AwaitTakesEffect DEF history
  <2>2. CASE PublishEvent(a)
    BY <2>1, <2>2 DEF PublishEvent, tables
  <2>3. CASE RecordAction(a)
    <3>1. PICK x : x = Head(todo[a]) /\ x.do = "act" /\ actions' = actions \cup {x.event}
                   /\ UNCHANGED <<published, decisions>>
      BY <2>3 DEF RecordAction, Perform, Subject
    <3>2. x.event.type = "requested" => x.event \in published /\ Concluding(x.event)
      BY <2>1, <3>1, ConclusionOrigin
    <3>. QED  BY <2>1, <3>1, <3>2
  <2>4. CASE RecordDecision(a)
    <3>. DEFINE Row(k) == [kind |-> DecisionKind[k], source |-> Subject(a)]
    <3>0. PICK k \in DOMAIN DecisionKind :
            decisions' = decisions \cup {Row(k)} /\ UNCHANGED <<published, actions>>
      BY <2>4 DEF RecordDecision
    <3>1. PICK row :
            /\ row = [kind |-> DecisionKind[k], source |-> Subject(a)]
            /\ decisions' = decisions \cup {row}
            /\ UNCHANGED <<published, actions>>
      BY <3>0
    <3>2. row.kind = DecisionKind[k]
      BY <3>1
    <3>3. CASE row \in decisions
      BY <2>1, <3>1, <3>3
    <3>. QED  BY <2>1, <3>1, <3>2, <3>3
  <2>. QED  BY <1>4, <2>1, <2>2, <2>3, <2>4 DEF Await, RecordEvent, ReadResults, RecordRun, tables
<1>5. CASE Ends(a)
  <2>1. CASE Raise(a)
    BY <1>2, <2>1 DEF Raise, tables
  <2>2. CASE PublishRetry(a) \/ PublishDeadLetter(a)
    BY <2>2 DEF PublishRetry, PublishDeadLetter, tables
  <2>3. CASE Return(a) \/ RaiseForeignKey(a) \/ MarkProcessed(a) \/ Interrupt(a)
    BY <2>3 DEF Return, RaiseForeignKey, MarkProcessed, Interrupt, tables, history
  <2>. QED  BY <1>5, <2>1, <2>2, <2>3 DEF Ends
<1>. QED  BY <1>1, <1>3, <1>4, <1>5

\* The instance has a copy of Cardinality.
LEMMA SameCardinality ==
  ASSUME NEW S
  PROVE  Lifecycle!Cardinality(S) = Cardinality(S)
BY DEF Cardinality, Lifecycle!Cardinality

\* A step maps to a step of the lifecycle or to a stutter.
LEMMA LifecycleStep ==
  ASSUME IInv, LifecycleInv, LifecycleInv', Countable', ForksBounded', FinalsBounded', [Next]_vars
  PROVE  [Lifecycle!Next]_(Lifecycle!vars)
<1>. DEFINE Stutter == UNCHANGED <<verdict, Recommended, Announced, Waiting, HumanReviews, Final>>
<1>. USE DEF Lifecycle!Next, Recommended, Announced, Waiting, Final
<1>1. ASSUME Stutter, UNCHANGED <<raises, replays>>  PROVE [Lifecycle!Next]_(Lifecycle!vars)
  BY <1>1 DEF Lifecycle!vars
<1>2. CASE UNCHANGED vars
  <2>1. UNCHANGED <<verdict, published, decisions, actions, raises, replays>>
    BY <1>2 DEF vars, setting, tables, history
  <2>2. Stutter
    BY <2>1 DEF Recommendations, HumanReviews, Finals
  <2>. QED  BY <1>1, <2>1, <2>2
<1>. SUFFICES ASSUME Next  PROVE [Lifecycle!Next]_(Lifecycle!vars)
  BY <1>2
<1>3. verdict' = verdict
  BY StepIsSound DEF Grows, setting
<1>4. ASSUME UNCHANGED decisions
      PROVE  UNCHANGED <<Recommended, HumanReviews, Final>>
  BY <1>4 DEF Recommendations, HumanReviews, Finals
<1>5. CASE UNCHANGED <<published, decisions, actions, raises, replays>>
  BY <1>1, <1>3, <1>4, <1>5
<1>6. ASSUME NEW y, published' = published \cup {y},
             UNCHANGED <<decisions, actions, raises, replays>>
      PROVE  [Lifecycle!Next]_(Lifecycle!vars)
  <2>1. UNCHANGED <<Recommended, Waiting, HumanReviews, Final>>
    BY <1>4, <1>6
  <2>2. CASE y.type # "finalized" \/ y.past \in Announced
    <3>1. Announced' = Announced
      BY <1>6, <2>2
    <3>. QED  BY <1>1, <1>3, <1>6, <2>1, <3>1
  <2>3. CASE y.type = "finalized" /\ y.past \notin Announced
    <3>1. Announced' = Announced \cup {y.past}
      BY <1>6, <2>3
    <3>2. y.past \in Recommended' /\ verdict' # "REVIEW"
      BY <1>6, <2>3 DEF LifecycleInv, Concluded, Concluding
    <3>3. Lifecycle!Announce
      BY <1>3, <1>6, <2>1, <2>3, <3>1, <3>2 DEF Lifecycle!Announce
    <3>. QED  BY <3>3
  <2>. QED  BY <2>2, <2>3
<1>7. ASSUME NEW y, actions' = actions \cup {y},
             y.type = "requested" => y \in published /\ Concluding(y),
             UNCHANGED <<published, decisions, raises, replays>>
      PROVE  [Lifecycle!Next]_(Lifecycle!vars)
  <2>1. UNCHANGED <<Recommended, Announced, HumanReviews, Final>>
    BY <1>4, <1>7
  <2>2. CASE y.type # "requested" \/ y.past \in Waiting
    <3>1. Waiting' = Waiting
      BY <1>7, <2>2
    <3>. QED  BY <1>1, <1>3, <1>7, <2>1, <3>1
  <2>3. CASE y.type = "requested" /\ y.past \notin Waiting
    <3>1. Waiting' = Waiting \cup {y.past}
      BY <1>7, <2>3
    <3>2. y.past \in Recommended /\ verdict = "REVIEW"
      BY <1>7, <2>3 DEF LifecycleInv, Concluded
    <3>3. Lifecycle!Queue
      BY <1>3, <1>7, <2>1, <2>3, <3>1, <3>2 DEF Lifecycle!Queue
    <3>. QED  BY <3>3
  <2>. QED  BY <2>2, <2>3
<1>8. ASSUME NEW k \in DOMAIN DecisionKind, NEW row, row.kind = DecisionKind[k],
             row \notin decisions, decisions' = decisions \cup {row},
             UNCHANGED <<published, actions, raises, replays>>
      PROVE  [Lifecycle!Next]_(Lifecycle!vars)
  <2>1. UNCHANGED <<Announced, Waiting>>
    BY <1>8
  <2>2. IsFiniteSet(decisions')
    BY DEF Countable, ForkInv
  <2>3. CASE row.kind = "SYSTEM_RECOMMENDATION"
    <3>1. UNCHANGED <<HumanReviews, Final>>
      BY <1>8, <2>3 DEF HumanReviews, Finals
    <3>2. Recommended' = Recommended \cup {Past(row.source)}
      BY <1>8, <2>3 DEF Recommendations
    <3>3. CASE Past(row.source) \in Recommended
      <4>1. Recommended' = Recommended
        BY <3>2, <3>3
      <4>. QED  BY <1>1, <1>3, <1>8, <2>1, <3>1, <4>1
    <3>4. CASE Past(row.source) \notin Recommended
      <4>1. PICK R, B : R = Recommendations' /\ B = Recommended'
        OBVIOUS
      <4>2. B = {Past(d.source) : d \in R}
        BY <4>1
      <4>3. IsFiniteSet(R) /\ Cardinality(R) <= 1 + raises' + replays'
        <5>1. R \subseteq decisions'
          BY <4>1 DEF Recommendations
        <5>. QED  BY <2>2, <4>1, <5>1, FS_Subset DEF ForksBounded
      <4>4. Cardinality(B) \in Nat /\ Cardinality(B) <= Cardinality(R) /\ Cardinality(R) \in Nat
        BY <4>2, <4>3, BranchesCounted, FS_CardinalityType
      <4>5. raises \in Nat /\ replays \in Nat
        BY DEF IInv, TypeOK
      <4>6. PICK m, n : m = Cardinality(B) /\ n = Cardinality(R)
        OBVIOUS
      <4>7. m <= 1 + (raises + replays)
        BY <1>8, <4>3, <4>4, <4>5, <4>6
      <4>8. Cardinality(Recommended') <= 1 + (raises + replays)
        BY <4>1, <4>6, <4>7
      <4>9. \E b \in Recommended' \ Recommended : Recommended' = Recommended \cup {b}
        BY <3>2, <3>4
      <4>10. UNCHANGED <<verdict, Announced, Waiting, HumanReviews, Final, raises, replays>>
        BY <1>3, <1>8, <2>1, <3>1
      <4>11. Lifecycle!Recommend
        BY <4>8, <4>9, <4>10, SameCardinality DEF Lifecycle!Recommend
      <4>. QED  BY <4>11
    <3>. QED  BY <3>3, <3>4
  <2>4. CASE row.kind = "HUMAN_REVIEW"
    <3>1. UNCHANGED <<Recommended, Final>>
      BY <1>8, <2>4 DEF Recommendations, Finals
    <3>2. HumanReviews' = HumanReviews \cup {row} /\ row \notin HumanReviews
      BY <1>8, <2>4 DEF HumanReviews
    <3>3. Lifecycle!Review
      BY <1>3, <1>8, <2>1, <3>1, <3>2 DEF Lifecycle!Review
    <3>. QED  BY <3>3
  <2>5. CASE row.kind = "FINAL"
    <3>. DEFINE b == Past(row.source)
    <3>1. UNCHANGED <<Recommended, HumanReviews>>
      BY <1>8, <2>5 DEF Recommendations, HumanReviews
    <3>2. Final' = Final \cup {b}
      BY <1>8, <2>5 DEF Finals
    <3>3. CASE b \in Final
      <4>1. Final' = Final
        BY <3>2, <3>3
      <4>. QED  BY <1>1, <1>3, <1>8, <2>1, <3>1, <4>1
    <3>4. CASE b \notin Final
      <4>1. Cardinality(Final') <= (IF verdict = "REVIEW" THEN 0 ELSE 1)
                                     + Cardinality(HumanReviews) + (raises + replays)
        <5>1. PICK F, B, H : F = Finals' /\ B = Final' /\ H = HumanReviews
          OBVIOUS
        <5>2. B = {Past(d.source) : d \in F}
          BY <5>1
        <5>3. /\ IsFiniteSet(F) /\ IsFiniteSet(H)
              /\ Cardinality(F) <= (IF verdict' = "REVIEW" THEN 0 ELSE 1)
                                     + Cardinality(HumanReviews') + raises' + replays'
          <6>1. F \subseteq decisions' /\ H \subseteq decisions'
            BY <1>8, <5>1 DEF Finals, HumanReviews
          <6>. QED  BY <2>2, <5>1, <6>1, FS_Subset DEF FinalsBounded
        <5>4. /\ Cardinality(B) \in Nat /\ Cardinality(B) <= Cardinality(F)
              /\ Cardinality(F) \in Nat /\ Cardinality(H) \in Nat
          BY <5>2, <5>3, BranchesCounted, FS_CardinalityType
        <5>5. raises \in Nat /\ replays \in Nat
          BY DEF IInv, TypeOK
        <5>6. PICK m, n, h, s : /\ m = Cardinality(B) /\ n = Cardinality(F) /\ h = Cardinality(H)
                                /\ s = IF verdict = "REVIEW" THEN 0 ELSE 1
          OBVIOUS
        <5>7. n <= s + h + raises + replays
          BY <1>3, <1>8, <3>1, <5>1, <5>3, <5>6
        <5>8. m <= s + h + (raises + replays)
          BY <5>4, <5>5, <5>6, <5>7
        <5>. QED  BY <5>1, <5>6, <5>8
      <4>2. UNCHANGED <<verdict, Recommended, Announced, Waiting, HumanReviews, raises, replays>>
        BY <1>3, <1>8, <2>1, <3>1
      <4>3. row \in decisions'
        BY <1>8
      <4>4. CASE IsHuman(row.source)
        <5>1. BackedByReviewer(row.source)'
          BY <2>5, <4>3, <4>4 DEF Countable, FinalsAreBacked, IsHuman, IsResult
        <5>2. PICK d \in decisions' : d.kind = "HUMAN_REVIEW"
          BY <5>1 DEF BackedByReviewer, Decided
        <5>3. HumanReviews # {}
          BY <3>1, <5>2 DEF HumanReviews
        <5>4. \E f \in Final' \ Final : Final' = Final \cup {f}
          BY <3>2, <3>4
        <5>5. Lifecycle!FinalizeByReviewer
          BY <4>1, <4>2, <5>3, <5>4, SameCardinality
             DEF Lifecycle!FinalizeByReviewer, Lifecycle!Finalize, Lifecycle!FinalsAllowed
        <5>. QED  BY <5>5
      <4>5. CASE ~ IsHuman(row.source)
        <5>1. Finalized(row.source) \in published'
          BY <2>5, <4>3, <4>5 DEF Countable, FinalsAreBacked, IsHuman, IsResult
        <5>2. Finalized(row.source).type = "finalized" /\ Finalized(row.source).past = b
          BY EventFields DEF Finalized
        <5>3. b \in Announced
          BY <1>8, <5>1, <5>2
        <5>4. \E f \in Announced \ Final : Final' = Final \cup {f}
          BY <3>2, <3>4, <5>3
        <5>5. Lifecycle!FinalizeBySystem
          BY <4>1, <4>2, <5>4, SameCardinality
             DEF Lifecycle!FinalizeBySystem, Lifecycle!Finalize, Lifecycle!FinalsAllowed
        <5>. QED  BY <5>5
      <4>. QED  BY <4>4, <4>5
    <3>. QED  BY <3>3, <3>4
  <2>. QED  BY <1>8, <2>3, <2>4, <2>5 DEF DecisionKind
<1>9. CASE raises' + replays' = raises + replays + 1 /\ UNCHANGED <<published, decisions, actions>>
  <2>1. UNCHANGED <<verdict, Recommended, Announced, Waiting, HumanReviews, Final>>
    BY <1>3, <1>4, <1>9
  <2>2. Lifecycle!Disturb
    BY <1>9, <2>1 DEF Lifecycle!Disturb
  <2>. QED  BY <2>2
<1>. QED  BY <1>5, <1>6, <1>7, <1>8, <1>9, LifecycleSteps

\* The pipeline is a refinement of CaseLifecycle, for any replicas, faults,
\* redeliveries, reviews and replays.
THEOREM LifecycleIsImplemented == Spec => ImplementsLifecycle
<1>1. Countable => IInv /\ ForksBounded /\ FinalsBounded
  BY ForkInvCountsForks, FinalsOfBranches DEF Countable
<1>2. Spec => []LifecycleInv
  <2>1. IInv /\ LifecycleInv /\ [Next]_vars => LifecycleInv'
    BY LifecycleInvNext
  <2>. QED  BY <2>1, LifecycleInvInit, AlwaysIInv, PTL DEF Spec
<1>3. /\ IInv /\ LifecycleInv /\ LifecycleInv' /\ Countable' /\ ForksBounded' /\ FinalsBounded'
      /\ [Next]_vars
      => [Lifecycle!Next]_(Lifecycle!vars)
  BY LifecycleStep
<1>. QED  BY <1>1, <1>2, <1>3, LifecycleInit, AlwaysCountable, PTL
          DEF Spec, ImplementsLifecycle, Lifecycle!Spec

-----------------------------------------------------------------------------
(***************************************************************************)
(* Nothing stops silently.  The retries and replays of an event have       *)
(* larger attempts and tags, so the last one of them took its effects.     *)
(***************************************************************************)
\* Serial numbers of dead letters count up, and a replay carries one of them.
Numbered ==
  /\ Created \in published
  /\ \A x \in published : x.tag \in Nat => x.tag <= Cardinality(Dead)
  /\ \A d \in Dead : FailedEvent(d).tag \in Nat => FailedEvent(d).tag < d.tag

LEMMA DeadCounted ==
  ASSUME IInv
  PROVE  IsFiniteSet(Dead) /\ Cardinality(Dead) \in Nat
<1>1. Dead \subseteq published
  BY DEF Dead
<1>. QED  BY <1>1, FS_Subset, FS_CardinalityType DEF IInv

LEMMA DeadTyped ==
  ASSUME IInv, NEW d \in Dead
  PROVE  /\ d \in published /\ d \in Event /\ d.tag \in Nat
         /\ FailedEvent(d) \in published /\ FailedEvent(d) \in Event
  BY DEF Dead, IInv, Admissible, Wellformed

\* What a handler publishes has no serial number that is not known.
LEMMA TagOrigin ==
  ASSUME IInv, Numbered,
         NEW a \in Actors, phase[a] = "handler", todo[a] # <<>>,
         NEW x, x = Head(todo[a]).event, Head(todo[a]).do = "publish"
  PROVE  /\ x.tag \in Nat => x.tag <= Cardinality(Dead)
         /\ IsDead(x) /\ FailedEvent(x).tag \in Nat => FailedEvent(x).tag < x.tag
<1>1. PICK p \in Seq(Call), s \in Seq(Call) : s = todo[a] /\ PlanOf(a, p) /\ Halfway(s, p)
  BY DEF IInv, TypeOK, Handling
<1>2. PICK k \in 1..Len(p) : p[k].do = "publish" /\ p[k].event = x
  BY <1>1, RestNext DEF Halfway
<1>3. CASE Serves[a] \notin Clients
  <2>1. PICK c \in published : p = Handler(c)
    BY <1>1, <1>3 DEF PlanOf, Clients
  <2>2. Ordered(c, p)
    BY <2>1, HandlerOrdered DEF IInv, TypeOK, Admissible
  <2>3. k \in 2..Len(p)
    BY <1>2, <2>2, CallFields DEF Ordered
  <2>4. x.tag = NoTag /\ ~ IsDead(x)
    BY <1>2, <2>2, <2>3 DEF Ordered, Caused
  <2>. QED  BY <2>4, TagsDiffer
<1>4. CASE Serves[a] = "reviewer"
  <2>1. PICK v \in Reviews : p = AddDecision(v)
    BY <1>1, <1>4 DEF PlanOf, Clients
  <2>2. PICK e : e = ReviewCompleted(v)
    OBVIOUS
  <2>3. p = <<Do("act", e), Do("human", e), Do("publish", e), Do("record", e)>>
    BY <2>1, <2>2, AddDecisionPlan
  <2>4. p[k] \in {Do("act", e), Do("human", e), Do("publish", e), Do("record", e)}
    BY <2>3
  <2>5. x = e
    BY <1>2, <2>4, CallFields
  <2>6. x.tag = v /\ x.type = "completed" /\ v \notin Nat
    BY <2>2, <2>5, EventFields, TagsDiffer DEF ReviewCompleted
  <2>. QED  BY <2>6 DEF IsDead
<1>5. CASE Serves[a] = "operator"
  <2>1. PICK d \in Dead, reset \in BOOLEAN : p = Emit(Replay(d, reset))
    BY <1>1, <1>5 DEF PlanOf, Clients, IInv, TypeOK, Dead
  <2>2. PICK e, y : e = FailedEvent(d) /\ y = Replay(d, reset)
    OBVIOUS
  <2>3. e \in published /\ e \in Event /\ d \in published /\ d.tag \in Nat
    BY <2>2, DeadTyped
  <2>4. y.type = e.type /\ y.past = e.past /\ y.tag = d.tag
    BY <2>2, <2>3 DEF Replay, Event
  <2>5. p = <<Do("publish", y), Do("record", y)>>
    BY <2>1, <2>2 DEF Emit
  <2>6. p[k] \in {Do("publish", y), Do("record", y)}
    BY <2>5
  <2>7. x = y
    BY <1>2, <2>6, CallFields
  <2>8. x.tag \in Nat /\ x.tag <= Cardinality(Dead)
    BY <2>3, <2>4, <2>7 DEF Numbered
  <2>9. ASSUME IsDead(x), FailedEvent(x).tag \in Nat  PROVE FailedEvent(x).tag < x.tag
    <3>1. e \in Dead /\ FailedEvent(x) = FailedEvent(e)
      BY <2>3, <2>4, <2>7, <2>9 DEF Dead, IsDead, FailedEvent
    <3>2. e.tag \in Nat /\ FailedEvent(e).tag < e.tag
      BY <2>9, <3>1, DeadTyped DEF Numbered
    <3>3. e.tag < d.tag
      BY <2>1, <2>2, <3>2 DEF Numbered
    <3>. QED  BY <2>3, <2>4, <2>7, <2>9, <3>1, <3>2, <3>3
  <2>. QED  BY <2>8, <2>9
<1>. QED  BY <1>3, <1>4, <1>5 DEF Clients

LEMMA NumberedInit == Init => Numbered
<1>. SUFFICES ASSUME Init  PROVE Numbered
  OBVIOUS
<1>1. Created.type = "created" /\ Created.tag = NoTag
  BY EventFields DEF Created
<1>2. Dead = {}
  BY <1>1 DEF Init, Dead, IsDead
<1>. QED  BY <1>1, <1>2, TagsDiffer DEF Init, Numbered

LEMMA NumberedNext == IInv /\ IInv' /\ Numbered /\ [Next]_vars => Numbered'
<1>. SUFFICES ASSUME IInv, IInv', Numbered, [Next]_vars  PROVE Numbered'
  OBVIOUS
<1>1. published \subseteq published' /\ Dead \subseteq Dead'
  <2>1. published \subseteq published'
    BY StepIsSound DEF Grows, vars
  <2>. QED  BY <2>1 DEF Dead
<1>2. PICK m, n, D, E : m = Cardinality(Dead) /\ n = Cardinality(Dead') /\ D = Dead /\ E = Dead'
  OBVIOUS
<1>3. m \in Nat /\ n \in Nat /\ m <= n /\ IsFiniteSet(D) /\ IsFiniteSet(E)
  <2>1. PICK P : P = published'
    OBVIOUS
  <2>2. E \subseteq P /\ IsFiniteSet(P)
    BY <1>2, <2>1 DEF Dead, IInv
  <2>3. IsFiniteSet(D) /\ IsFiniteSet(E) /\ D \subseteq E
    BY <1>1, <1>2, <2>2, DeadCounted, FS_Subset
  <2>. QED  BY <1>2, <2>3, FS_Subset, FS_CardinalityType
<1>4. ASSUME NEW x \in published', x \notin published
      PROVE  /\ x.tag \in Nat => x.tag <= n
             /\ IsDead(x) /\ FailedEvent(x).tag \in Nat => FailedEvent(x).tag < x.tag
  <2>1. PICK a \in Actors : Starts(a) \/ Await(a) \/ Ends(a)
    BY <1>4, StepParts DEF Next, vars
  <2>2. ~ Starts(a)
    BY <1>4, StartPlans
  <2>3. CASE Await(a)
    <3>1. PublishEvent(a)
      BY <1>4, <2>3 DEF Await, RecordEvent, ReadResults, RecordDecision, RecordRun, RecordAction
    <3>2. /\ phase[a] = "handler" /\ todo[a] # <<>> /\ Head(todo[a]).do = "publish"
          /\ x = Head(todo[a]).event
      BY <1>4, <3>1 DEF PublishEvent, Perform, Subject
    <3>3. /\ x.tag \in Nat => x.tag <= m
          /\ IsDead(x) /\ FailedEvent(x).tag \in Nat => FailedEvent(x).tag < x.tag
      BY <1>2, <3>2, TagOrigin
    <3>. QED  BY <1>3, <3>3
  <2>4. CASE Ends(a)
    <3>1. PublishRetry(a) \/ PublishDeadLetter(a)
      BY <1>4, <2>4 DEF Ends, Return, Raise, RaiseForeignKey, MarkProcessed, Interrupt
    <3>2. PICK e \in published : e = job[a]
      BY <3>1 DEF PublishRetry, PublishDeadLetter, IInv, Outcome
    <3>3. e \in Event /\ Admissible(e) /\ maxRetryAttempts \in RetryLimits
      BY DEF IInv, TypeOK
    <3>4. CASE PublishRetry(a)
      <4>1. x = Retry(e)
        BY <1>4, <3>2, <3>4 DEF PublishRetry
      <4>2. x.type = e.type /\ x.past = e.past /\ x.tag = e.tag
        BY <3>3, <4>1 DEF Retry, Event
      <4>3. FailedEvent(x) = FailedEvent(e) /\ (IsDead(x) <=> e \in Dead)
        BY <4>2 DEF FailedEvent, IsDead, Dead
      <4>. QED  BY <1>2, <1>3, <4>2, <4>3 DEF Numbered
    <3>5. CASE PublishDeadLetter(a)
      <4>1. x = DeadLetter(e, m + 1)
        BY <1>2, <1>4, <3>2, <3>5 DEF PublishDeadLetter, Dead
      <4>2. IsDead(x) /\ FailedEvent(x) = e
        BY <1>3, <3>3, <4>1, DeadLetterAdmissible
      <4>3. x.tag = m + 1
        BY <4>1, EventFields DEF DeadLetter
      <4>4. n >= m + 1
        <5>1. x \notin D /\ D \cup {x} \subseteq E
          BY <1>1, <1>2, <1>4, <4>2 DEF Dead
        <5>2. PICK F : F = D \cup {x}
          OBVIOUS
        <5>3. IsFiniteSet(F) /\ Cardinality(F) = m + 1
          BY <1>2, <1>3, <5>1, <5>2, FS_AddElement
        <5>. QED  BY <1>2, <1>3, <5>1, <5>2, <5>3, FS_Subset
      <4>5. e.tag \in Nat => e.tag <= m
        BY <1>2 DEF Numbered
      <4>. QED  BY <1>3, <4>2, <4>3, <4>4, <4>5
    <3>. QED  BY <3>1, <3>4, <3>5
  <2>. QED  BY <2>1, <2>2, <2>3, <2>4
<1>5. \A x \in published' : x.tag \in Nat => x.tag <= n
  <2>1. \A x \in published : x.tag \in Nat => x.tag <= n
    BY <1>2, <1>3 DEF Numbered
  <2>. QED  BY <1>4, <2>1
<1>6. \A d \in Dead' : FailedEvent(d).tag \in Nat => FailedEvent(d).tag < d.tag
  <2>1. \A d \in Dead' : d \in published' /\ IsDead(d) /\ (d \in published => d \in Dead)
    BY DEF Dead
  <2>. QED  BY <1>4, <2>1 DEF Numbered
<1>. QED  BY <1>1, <1>2, <1>5, <1>6 DEF Numbered

LEMMA HasGreatest ==
  ASSUME NEW T, T \subseteq Nat, T # {}, NEW most \in Nat, \A n \in T : n <= most
  PROVE  \E n \in T : \A k \in T : k <= n
<1>. DEFINE Gaps == {most - n : n \in T}
<1>1. Gaps \subseteq Nat /\ Gaps # {}
  <2>1. \A n \in T : most - n \in Nat
    OBVIOUS
  <2>. QED  BY <2>1
<1>2. PICK g \in Gaps : \A k \in Gaps : ~ (<<k, g>> \in OpToRel(<, Nat))
  BY <1>1, NatLessThanWellFounded, WFMin
<1>3. PICK n \in T : g = most - n
  BY <1>2
<1>4. ASSUME NEW k \in T  PROVE k <= n
  <2>1. most - k \in Gaps /\ most - k \in Nat /\ g \in Nat
    BY <1>1
  <2>2. ~ (most - k < g)
    BY <1>2, <2>1 DEF OpToRel
  <2>. QED  BY <1>3, <2>2
<1>. QED  BY <1>4

\* Of a set of settled events that is closed under retries and has a replay of
\* each dead letter, some event took every effect: the last replay that was
\* tried most often.
LEMMA LastTakesEffect ==
  ASSUME IInv, Numbered, SettledIsComplete,
         NEW S, S # {}, S \subseteq published, S \subseteq settled,
         \A e \in S : Retry(e) \in published => Retry(e) \in S,
         \A e \in S, d \in Dead : FailedEvent(d) = e => \E x \in S : x.tag = d.tag
  PROVE  \E e \in S : Settleable(e) /\ \A i \in DOMAIN Handler(e) : Effective(Handler(e)[i])
<1>. DEFINE Rank(e) == IF e.tag \in Nat THEN e.tag + 1 ELSE 0
            most == Cardinality(Dead) + 1
            T == {Rank(e) : e \in S}
<1>1. /\ \A e \in S : e \in Event /\ e.attempt \in 1..maxRetryAttempts
      /\ maxRetryAttempts \in Nat /\ most \in Nat
  BY DeadCounted, Attempts DEF IInv, TypeOK, Event
<1>2. \A e \in S : Rank(e) \in Nat /\ Rank(e) <= most
  BY <1>1, DeadCounted DEF Numbered
<1>3. PICK r \in T : \A k \in T : k <= r
  <2>1. T \subseteq Nat /\ T # {} /\ \A k \in T : k <= most
    BY <1>2
  <2>. HIDE DEF T, most
  <2>. QED  BY <1>1, <2>1, HasGreatest
<1>. DEFINE A == {e.attempt : e \in {x \in S : Rank(x) = r}}
<1>4. PICK n \in A : \A k \in A : k <= n
  <2>1. A \subseteq Nat /\ A # {} /\ \A k \in A : k <= maxRetryAttempts
    BY <1>1, <1>3
  <2>. HIDE DEF A
  <2>. QED  BY <1>1, <2>1, HasGreatest
<1>5. PICK e \in S : Rank(e) = r /\ e.attempt = n
  BY <1>4
<1>6. Settleable(e)
  BY <1>5 DEF SettledIsComplete, Settleable
<1>7. Retry(e) \notin published
  <2>1. ASSUME Retry(e) \in published  PROVE FALSE
    <3>1. PICK x \in S : x = Retry(e)
      BY <1>5, <2>1
    <3>2. x.tag = e.tag /\ x.attempt = e.attempt + 1
      BY <1>1, <1>5, <3>1 DEF Retry, Event
    <3>3. x.attempt \in A
      BY <1>5, <3>1, <3>2
    <3>4. x.attempt <= e.attempt
      BY <1>4, <1>5, <3>3
    <3>. QED  BY <1>1, <3>2, <3>4
  <2>. QED  BY <2>1
<1>8. ~ \E d \in published : IsDead(d) /\ FailedEvent(d) = e
  <2>1. ASSUME NEW d \in Dead, FailedEvent(d) = e  PROVE FALSE
    <3>1. PICK x \in S : x.tag = d.tag
      BY <1>5, <2>1
    <3>2. d.tag \in Nat /\ (e.tag \in Nat => e.tag < d.tag)
      BY <2>1, DeadTyped DEF Numbered
    <3>3. Rank(x) = d.tag + 1 /\ Rank(x) > Rank(e)
      BY <3>1, <3>2
    <3>4. Rank(x) \in T /\ Rank(x) \in Nat /\ Rank(e) \in Nat
      BY <1>2, <1>5, <3>1
    <3>. HIDE DEF Rank, T
    <3>5. Rank(x) <= r
      BY <1>3, <3>4
    <3>. QED  BY <1>5, <3>3, <3>4, <3>5
  <2>. QED  BY <2>1 DEF Dead
<1>. QED  BY <1>5, <1>6, <1>7, <1>8 DEF Settleable


\* Nothing is left to consume, and nothing to replay.
Quiet ==
  /\ IInv /\ Numbered /\ SettledIsComplete
  /\ published \subseteq settled /\ ~ Unreplayed

\* What one stage of the pipeline leaves to the next one.
LEMMA StageAdvances ==
  ASSUME Quiet, NEW type, type # "dead", NEW step, Stage(type, step) # {}
  PROVE  \E e \in Stage(type, step) :
           \A i \in DOMAIN Handler(e) : Effective(Handler(e)[i])
<1>. DEFINE S == Stage(type, step)
<1>1. S \subseteq published /\ S \subseteq settled
  BY DEF Quiet, Stage
<1>2. ASSUME NEW e \in S, Retry(e) \in published  PROVE Retry(e) \in S
  <2>1. e \in Event
    BY <1>1 DEF Quiet, IInv, TypeOK
  <2>2. Retry(e).type = e.type /\ Retry(e).step = e.step
    BY <2>1 DEF Retry, Event
  <2>. QED  BY <1>2, <2>2 DEF Stage
<1>3. ASSUME NEW e \in S, NEW d \in Dead, FailedEvent(d) = e
      PROVE  \E x \in S : x.tag = d.tag
  <2>1. PICK reset \in BOOLEAN : Replay(d, reset) \in published
    BY DEF Quiet, Unreplayed, Replayed
  <2>2. PICK x : x = Replay(d, reset)
    OBVIOUS
  <2>3. e \in Event
    BY <1>1 DEF Quiet, IInv, TypeOK
  <2>4. x.type = e.type /\ x.step = e.step /\ x.tag = d.tag
    BY <1>3, <2>2, <2>3 DEF Replay, Event
  <2>. QED  BY <2>1, <2>2, <2>4 DEF Stage
<1>4. S # {} /\ IInv /\ Numbered /\ SettledIsComplete
  BY DEF Quiet
<1>. HIDE DEF S
<1>5. \E e \in S : Settleable(e) /\ \A i \in DOMAIN Handler(e) : Effective(Handler(e)[i])
  BY <1>1, <1>2, <1>3, <1>4, LastTakesEffect
<1>. QED  BY <1>5 DEF S

LEMMA CreatedAdvances ==
  ASSUME Quiet
  PROVE  Stage("requested", "context") # {}
<1>1. Created \in Stage("created", "case")
  BY EventFields DEF Quiet, Numbered, Stage, Created
<1>2. PICK e \in Stage("created", "case") : \A i \in DOMAIN Handler(e) : Effective(Handler(e)[i])
  BY <1>1, StageAdvances
<1>3. PICK x : x = Requested("context", e)
  OBVIOUS
<1>4. Handler(e) = <<Do("record", e), Do("publish", x), Do("record", x)>>
  <2>1. e.type = "created"
    BY DEF Stage
  <2>. QED  BY <1>3, <2>1, OrchestratePlan DEF Handler, ServiceOf, IsDead, AgentStep
<1>5. Effective(Do("publish", x))
  BY <1>2, <1>4
<1>. QED  BY <1>3, <1>5, Effects, EventFields DEF Stage, Requested

LEMMA RequestAdvances ==
  ASSUME Quiet, NEW step \in AgentStep, Stage("requested", step) # {}
  PROVE  Stage("completed", step) # {}
<1>1. PICK e \in Stage("requested", step) : \A i \in DOMAIN Handler(e) : Effective(Handler(e)[i])
  BY StageAdvances
<1>2. PICK x : x = Completed(e)
  OBVIOUS
<1>3. e.type = "requested" /\ e.step = step
  BY DEF Stage
<1>4. Handler(e) = <<Do("record", e), Do("publish", x), Do("record", x), Do("run", e)>>
  <2>1. Handler(e) = RunAgent(e)
    BY <1>3 DEF Handler, ServiceOf, AgentStep
  <2>. QED  BY <1>2, <2>1, RunAgentPlan
<1>5. Effective(Do("publish", x))
  BY <1>1, <1>4
<1>. QED  BY <1>2, <1>3, <1>5, Effects, EventFields DEF Stage, Completed

LEMMA ResultAdvances ==
  ASSUME Quiet, NEW step \in DOMAIN NextStep, Stage("completed", step) # {}
  PROVE  Stage("requested", NextStep[step]) # {}
<1>1. PICK e \in Stage("completed", step) : \A i \in DOMAIN Handler(e) : Effective(Handler(e)[i])
  BY StageAdvances
<1>2. PICK x : x = Requested(NextStep[step], e)
  OBVIOUS
<1>3. e.type = "completed" /\ e.step = step
  BY DEF Stage
<1>4. Handler(e) = <<Do("record", e), Do("read", e), Do("publish", x), Do("record", x)>>
  BY <1>2, <1>3, OrchestratePlan DEF Handler, ServiceOf, IsDead, AgentStep
<1>5. Effective(Do("publish", x))
  BY <1>1, <1>4
<1>. QED  BY <1>2, <1>5, Effects, EventFields DEF Stage, Requested

\* The recommendation is followed by the final decision, or by the review
\* request that the verdict asks for.
LEMMA RecommendationAdvances ==
  ASSUME Quiet, Stage("completed", "aggregate") # {}
  PROVE  IF verdict = "REVIEW" THEN Stage("requested", "review") # {} ELSE Finals # {}
<1>1. PICK e \in Stage("completed", "aggregate") :
        \A i \in DOMAIN Handler(e) : Effective(Handler(e)[i])
  BY StageAdvances
<1>2. e.type = "completed" /\ e.step = "aggregate"
  BY DEF Stage
<1>3. Handler(e) = Orchestrate(e)
  BY <1>2 DEF Handler, ServiceOf, IsDead, AgentStep
<1>4. CASE verdict = "REVIEW"
  <2>1. PICK x, y : x = Requested("review", e) /\ y = ReviewRequired(e)
    OBVIOUS
  <2>2. Handler(e) = <<Do("record", e), Do("recommend", e), Do("publish", y), Do("record", y),
                       Do("publish", x), Do("record", x)>>
    BY <1>2, <1>3, <1>4, <2>1, OrchestratePlan
  <2>3. Effective(Do("publish", x))
    BY <1>1, <2>2
  <2>. QED  BY <1>4, <2>1, <2>3, Effects, EventFields DEF Stage, Requested
<1>5. CASE verdict # "REVIEW"
  <2>1. PICK x : x = Finalized(e)
    OBVIOUS
  <2>2. Handler(e) = <<Do("record", e), Do("recommend", e), Do("publish", x), Do("record", x),
                       Do("finalize", e)>>
    BY <1>2, <1>3, <1>5, <2>1, OrchestratePlan
  <2>3. Effective(Do("finalize", e))
    BY <1>1, <2>2
  <2>4. PICK d \in decisions : d = [kind |-> "FINAL", source |-> e]
    BY <2>3, Effects DEF Decided
  <2>5. d.kind = "FINAL"
    BY <2>4
  <2>. QED  BY <1>5, <2>5 DEF Finals
<1>. QED  BY <1>4, <1>5

LEMMA ReviewAdvances ==
  ASSUME Quiet, Stage("requested", "review") # {}
  PROVE  \E e \in actions : e.type = "requested"
<1>1. PICK e \in Stage("requested", "review") :
        \A i \in DOMAIN Handler(e) : Effective(Handler(e)[i])
  BY StageAdvances
<1>2. e.type = "requested" /\ e.step = "review"
  BY DEF Stage
<1>3. Handler(e) = <<Do("record", e), Do("act", e)>>
  BY <1>2 DEF Handler, ServiceOf, QueueReview, AgentStep
<1>4. Effective(Do("act", e))
  BY <1>1, <1>3
<1>. QED  BY <1>2, <1>4, Effects

LEMMA QuietIsResolved ==
  ASSUME Quiet
  PROVE  Resolved
<1>1. /\ NextStep["context"] = "risk" /\ NextStep["risk"] = "policy"
      /\ NextStep["policy"] = "explain" /\ NextStep["explain"] = "aggregate"
      /\ DOMAIN NextStep = {"context", "risk", "policy", "explain"}
  BY DEF NextStep
<1>2. /\ \A step \in AgentStep : Stage("requested", step) # {} => Stage("completed", step) # {}
      /\ \A step \in DOMAIN NextStep :
           Stage("completed", step) # {} => Stage("requested", NextStep[step]) # {}
  BY RequestAdvances, ResultAdvances
<1>3. Stage("completed", "aggregate") # {}
  BY <1>1, <1>2, CreatedAdvances DEF AgentStep
<1>4. CASE verdict = "REVIEW"
  <2>1. \E e \in actions : e.type = "requested"
    BY <1>3, <1>4, RecommendationAdvances, ReviewAdvances
  <2>. QED  BY <2>1 DEF Resolved
<1>5. CASE verdict # "REVIEW"
  <2>1. Finals # {}
    BY <1>3, <1>5, RecommendationAdvances
  <2>. QED  BY <2>1 DEF Resolved, Finals
<1>. QED  BY <1>4, <1>5

\* An announcement follows a recommendation, and no review is asked for then.
LEMMA AnnouncedIsFinal ==
  ASSUME Quiet, ForkInv, LifecycleInv, NEW x \in published, x.type = "finalized"
  PROVE  Finals # {}
<1>1. x.past \in Recommended /\ verdict # "REVIEW"
  BY DEF LifecycleInv, Concluded, Concluding
<1>2. PICK d \in decisions : d.kind = "SYSTEM_RECOMMENDATION"
  BY <1>1 DEF Recommended, Recommendations
<1>3. d.source \in Stage("completed", "aggregate")
  BY <1>2 DEF ForkInv, Sourced, IsResult, Stage
<1>. QED  BY <1>1, <1>3, RecommendationAdvances

\* When nothing is left to consume, no case has stopped silently, although
\* worker.py:121 settles an event whose effects are left to a retry or to a
\* dead letter: it waits for a reviewer or is decided, the latter if that was
\* announced, or a dead letter waits for an operator.
THEOREM DrainedIsAlwaysResolved == Spec => []DrainedIsResolved
<1>1. IInv /\ ForkInv /\ LifecycleInv /\ Numbered /\ SettledIsComplete => DrainedIsResolved
  <2>1. Quiet => Resolved
    BY QuietIsResolved
  <2>2. Quiet /\ ForkInv /\ LifecycleInv /\ (\E x \in published : x.type = "finalized")
          => Finals # {}
    BY AnnouncedIsFinal
  <2>. QED  BY <2>1, <2>2 DEF Quiet, DrainedIsResolved
<1>2. Spec => []Numbered
  BY AlwaysIInv, NumberedInit, NumberedNext, PTL DEF Spec
<1>3. Spec => []LifecycleInv
  BY AlwaysIInv, LifecycleInvInit, LifecycleInvNext, PTL DEF Spec
<1>. QED  BY <1>1, <1>2, <1>3, AlwaysIInv, AlwaysCountable, SettledIsAlwaysComplete, PTL
          DEF Countable


\* A review that was answered 201 is not lost either, whatever the rest of the
\* case is about: once its events are consumed, it is a final decision of the
\* case, or a dead letter tells that it is not.
ReviewsFollowedUp ==
  \A v \in Reviews :
    /\ [review |-> v, status |-> "created"] \in answers
    /\ \A e \in published : IsHuman(e) /\ e.tag = v => e \in settled
    => \/ \E d \in Finals : d.source.tag = v
       \/ \E d \in Dead : FailedEvent(d).tag = v

\* What POST /decision acknowledged (human-review-api) is followed up by the
\* orchestrator, through retries: the part of AcceptedReviewFinalizes that does
\* not depend on fairness.
THEOREM ReviewsAreFollowedUp == Spec => []ReviewsFollowedUp
<1>1. ASSUME IInv, Numbered, SettledIsComplete, AnswerIsDurable  PROVE ReviewsFollowedUp
  <2>. SUFFICES ASSUME NEW v \in Reviews,
                       [review |-> v, status |-> "created"] \in answers,
                       \A e \in published : IsHuman(e) /\ e.tag = v => e \in settled,
                       ~ \E d \in Dead : FailedEvent(d).tag = v
                PROVE  \E d \in Finals : d.source.tag = v
    BY DEF ReviewsFollowedUp
  <2>. DEFINE S == {e \in published : IsHuman(e) /\ e.tag = v}
  <2>1. ReviewCompleted(v) \in S
    <3>1. ReviewCompleted(v) \in published
      BY <1>1 DEF AnswerIsDurable
    <3>. QED  BY <3>1, EventFields DEF ReviewCompleted, IsHuman, IsResult
  <2>2. S # {} /\ S \subseteq published /\ S \subseteq settled
    BY <2>1
  <2>3. ASSUME NEW e \in S, Retry(e) \in published  PROVE Retry(e) \in S
    <3>1. e \in Event
      BY <1>1 DEF IInv, TypeOK
    <3>2. Retry(e).type = e.type /\ Retry(e).step = e.step /\ Retry(e).tag = e.tag
      BY <3>1 DEF Retry, Event
    <3>. QED  BY <2>3, <3>2 DEF IsHuman, IsResult
  <2>4. \A e \in S, d \in Dead : FailedEvent(d) # e
    OBVIOUS
  <2>5. PICK e \in S : \A i \in DOMAIN Handler(e) : Effective(Handler(e)[i])
    <3>. HIDE DEF S
    <3>. QED  BY <1>1, <2>2, <2>3, <2>4, LastTakesEffect
  <2>6. Handler(e) = <<Do("record", e), Do("finalize", e)>>
    <3>1. e.type = "completed" /\ e.step = "review"
      BY DEF IsHuman, IsResult
    <3>2. Handler(e) = Orchestrate(e)
      BY <3>1 DEF Handler, ServiceOf, IsDead, AgentStep
    <3>. QED  BY <3>1, <3>2, OrchestratePlan
  <2>7. Effective(Do("finalize", e))
    BY <2>5, <2>6
  <2>8. PICK d \in decisions : d = [kind |-> "FINAL", source |-> e]
    BY <2>7, Effects DEF Decided
  <2>9. d.kind = "FINAL" /\ d.source = e
    BY <2>8
  <2>. QED  BY <2>9 DEF Finals
<1>2. Spec => []Numbered
  BY AlwaysIInv, NumberedInit, NumberedNext, PTL DEF Spec
<1>. QED  BY <1>1, <1>2, AlwaysIInv, SettledIsAlwaysComplete, AnswerIsAlwaysDurable, PTL

=============================================================================
