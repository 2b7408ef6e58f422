------------------------ MODULE ServiceProcessProofs ------------------------
(***************************************************************************)
(* Theorems about ServiceProcess, for any number of replicas, entries,     *)
(* clients, outages, losses and restarts.                                  *)
(*                                                                         *)
(* The consumer side rests on Ahead: what the group has not handed out was *)
(* never read.  The limiter rests on Deques: what the deque of a serving   *)
(* process has let go is older than the window, and what it holds is of    *)
(* this process, in the order of the clock.                                *)
(***************************************************************************)
EXTENDS ServiceProcess, FiniteSetTheorems, WellFoundedInduction, TLAPS

LEMMA LimitPositive == Limit \in Nat \ {0} /\ Window \in Nat \ {0}
  BY ProcessAssumption DEF Limit, Window, AtLeast

\* A read goes forward, and not past the end of the stream.
LEMMA LastForward ==
  ASSUME TypeOK
  PROVE  /\ Last \in 0..Len(stream) /\ lastDelivered <= Last
         /\ Batch \subseteq Entries
  BY ProcessAssumption DEF TypeOK, Last, Batch

\* The limiter pops and records, or nothing happens to it.
LEMMA AllowSteps ==
  ASSUME NEW r \in Replicas, NEW k \in Clients, NEW token, Allow(r, k, token)
  PROVE  \/ UNCHANGED limiter
         \/ \E n \in 0..Len(recorded[r][k]) :
              /\ Pops(r, k, n)
              /\ popped' = [popped EXCEPT ![r][k] = n]
              /\ \/ UNCHANGED recorded
                 \/ ~ Full(r, k, n) /\ Record(r, k, token)
  BY DEF Allow

\* A guard that lets through knows an entitled token.
LEMMA GuardSteps ==
  ASSUME NEW r, NEW k, NEW token, NEW reachable \in BOOLEAN, Guard(r, k, token, reachable)
  PROVE  UNCHANGED limiter \/ (Entitled(token) /\ Allow(r, k, token))
<1>1. Verify(token, reachable) = Passed => Verify(token, TRUE) = Passed
  BY DEF Verify, Passed
<1>. QED  BY <1>1 DEF Guard, Entitled

-----------------------------------------------------------------------------
\* TypeOK in three parts.
TypeRedis ==
  /\ stream \in Seq(Entries) /\ group \in BOOLEAN
  /\ lastDelivered \in 0..Len(stream) /\ pending \subseteq Entries
  /\ handled \subseteq Entries /\ reads \in [Entries -> Nat]

TypeProcess ==
  /\ service \in Settings /\ backends \in {"up", "down"}
  /\ stage \in [Replicas -> {"down", "serving"}]
  /\ task \in [Replicas -> {"none", "starting", "looping", "dead"}]
  /\ \A r \in Replicas : task[r] # "none" <=> (stage[r] = "serving" /\ service.worker)
  /\ {outages, losses, stops} \subseteq Nat
  /\ lives \in [Replicas -> Nat]

TypeLimiter ==
  /\ clock \in Nat /\ setBack \in BOOLEAN
  /\ recorded \in [Replicas -> [Clients -> Seq(Stamp)]]
  /\ popped \in [Replicas -> [Clients -> Nat]]
  /\ \A r \in Replicas, k \in Clients :
       Len(recorded[r][k]) - Limit <= popped[r][k] /\ popped[r][k] <= Len(recorded[r][k])

LEMMA TypeParts == TypeOK <=> TypeRedis /\ TypeProcess /\ TypeLimiter
  BY DEF TypeOK, TypeRedis, TypeProcess, TypeLimiter

LEMMA TypeInit == Init => TypeOK
<1>. SUFFICES ASSUME Init PROVE TypeOK
  OBVIOUS
<1>1. /\ <<>> \in Seq(Entries) /\ <<>> \in Seq(Stamp) /\ Len(<<>>) = 0
      /\ stream = <<>> /\ lastDelivered = 0
  BY DEF Init
<1>2. \A r \in Replicas, k \in Clients : recorded[r][k] = <<>> /\ popped[r][k] = 0
  BY DEF Init
<1>3. /\ recorded \in [Replicas -> [Clients -> Seq(Stamp)]]
      /\ popped \in [Replicas -> [Clients -> Nat]]
  BY <1>1 DEF Init
<1>4. \A r \in Replicas, k \in Clients :
        Len(recorded[r][k]) - Limit <= popped[r][k] /\ popped[r][k] <= Len(recorded[r][k])
  BY <1>1, <1>2, LimitPositive
<1>5. lastDelivered \in 0..Len(stream) /\ stream \in Seq(Entries)
  BY <1>1
<1>6. TypeRedis
  BY <1>5 DEF Init, TypeRedis
<1>7. TypeProcess
  BY DEF Init, TypeProcess
<1>8. TypeLimiter
  BY <1>3, <1>4 DEF Init, TypeLimiter
<1>. QED  BY <1>6, <1>7, <1>8, TypeParts

LEMMA TypeRequest ==
  ASSUME TypeOK, NEW r \in Replicas, Request(r)
  PROVE  TypeOK'
<1>1. PICK k \in Clients, token \in Token, reachable \in BOOLEAN : Guard(r, k, token, reachable)
  BY DEF Request
<1>2. UNCHANGED <<service, redis, process, time, trouble, consumed>>
  BY DEF Request
<1>3. CASE UNCHANGED limiter
  BY <1>2, <1>3 DEF TypeOK, redis, process, time, trouble, consumed, limiter
<1>4. CASE ~ UNCHANGED limiter
  <2>1. PICK n \in 0..Len(recorded[r][k]) :
          /\ Pops(r, k, n)
          /\ popped' = [popped EXCEPT ![r][k] = n]
          /\ UNCHANGED recorded \/ (~ Full(r, k, n) /\ Record(r, k, token))
    BY <1>1, <1>4, GuardSteps, AllowSteps
  <2>2. /\ popped[r][k] \in Nat /\ recorded[r][k] \in Seq(Stamp)
        /\ Len(recorded[r][k]) - Limit <= popped[r][k] /\ popped[r][k] <= Len(recorded[r][k])
    BY DEF TypeOK
  <2>3. n \in Nat /\ popped[r][k] <= n /\ n <= Len(recorded[r][k])
    BY <2>1, <2>2 DEF Pops
  <2>4. popped' \in [Replicas -> [Clients -> Nat]]
    BY <2>1, <2>3 DEF TypeOK
  <2>5. [at |-> clock, life |-> lives[r], token |-> token] \in Stamp
    BY DEF TypeOK, Stamp
  <2>6. /\ recorded' \in [Replicas -> [Clients -> Seq(Stamp)]]
        /\ \A q \in Replicas, c \in Clients :
             <<q, c>> # <<r, k>> => recorded'[q][c] = recorded[q][c] /\ popped'[q][c] = popped[q][c]
        /\ popped'[r][k] = n
        /\ \/ Len(recorded'[r][k]) = Len(recorded[r][k])
           \/ /\ Len(recorded'[r][k]) = Len(recorded[r][k]) + 1
              /\ Len(recorded[r][k]) - n < Limit
    <3>1. CASE UNCHANGED recorded
      BY <2>1, <3>1 DEF TypeOK
    <3>2. CASE ~ Full(r, k, n) /\ Record(r, k, token)
      <4>1. Append(recorded[r][k], [at |-> clock, life |-> lives[r], token |-> token]) \in Seq(Stamp)
        BY <2>2, <2>5
      <4>2. recorded'[r][k] = Append(recorded[r][k], [at |-> clock, life |-> lives[r], token |-> token])
        BY <3>2 DEF Record, TypeOK
      <4>3. Len(recorded'[r][k]) = Len(recorded[r][k]) + 1
        BY <2>2, <2>5, <4>2
      <4>4. Len(recorded[r][k]) - n < Limit
        BY <3>2, <2>2, <2>3, LimitPositive DEF Full
      <4>. QED  BY <2>1, <3>2, <4>1, <4>3, <4>4 DEF Record, TypeOK
    <3>. QED  BY <2>1, <3>1, <3>2
  <2>7. \A q \in Replicas, c \in Clients :
          /\ Len(recorded'[q][c]) - Limit <= popped'[q][c]
          /\ popped'[q][c] <= Len(recorded'[q][c])
    <3>1. Len(recorded[r][k]) \in Nat
      BY <2>2
    <3>2. /\ Len(recorded'[r][k]) - Limit <= popped'[r][k]
          /\ popped'[r][k] <= Len(recorded'[r][k])
      BY <2>2, <2>3, <2>6, <3>1, LimitPositive
    <3>3. \A q \in Replicas, c \in Clients : <<q, c>> # <<r, k>> =>
            /\ Len(recorded'[q][c]) - Limit <= popped'[q][c]
            /\ popped'[q][c] <= Len(recorded'[q][c])
      BY <2>6 DEF TypeOK
    <3>. QED  BY <3>2, <3>3
  <2>. QED  BY <1>2, <2>4, <2>6, <2>7 DEF TypeOK, redis, process, time, trouble, consumed
<1>. QED  BY <1>3, <1>4

\* A process that ends forgets its deques.
LEMMA TypeForget ==
  ASSUME TypeOK, NEW r \in Replicas, Forget(r), UNCHANGED recorded
  PROVE  /\ popped' \in [Replicas -> [Clients -> Nat]]
         /\ \A q \in Replicas, k \in Clients :
              /\ Len(recorded'[q][k]) - Limit <= popped'[q][k]
              /\ popped'[q][k] <= Len(recorded'[q][k])
<1>1. \A k \in Clients : Len(recorded[r][k]) \in Nat
  BY DEF TypeOK
<1>. QED  BY <1>1, LimitPositive DEF Forget, TypeOK

LEMMA TypeNext == TypeOK /\ [Next]_vars => TypeOK'
<1>. SUFFICES ASSUME TypeOK, [Next]_vars PROVE TypeOK'
  OBVIOUS
<1>. USE DEF redis, process, limiter, time, trouble, consumed
<1>1. CASE UNCHANGED vars
  BY <1>1 DEF TypeOK, vars
<1>2. ASSUME NEW r \in Replicas, Start(r) PROVE TypeOK'
  BY <1>2 DEF Start, TypeOK
<1>3. ASSUME NEW r \in Replicas, Stop(r) PROVE TypeOK'
  BY <1>3, TypeForget DEF Stop, TypeOK
<1>4. ASSUME NEW r \in Replicas, CreateGroup(r) PROVE TypeOK'
  BY <1>4 DEF CreateGroup, TypeOK
<1>5. ASSUME NEW r \in Replicas, CreateGroupRaises(r) PROVE TypeOK'
  BY <1>5 DEF CreateGroupRaises, TypeOK
<1>6. ASSUME NEW r \in Replicas, ReadGroup(r) PROVE TypeOK'
  BY <1>6, LastForward DEF ReadGroup, Deliver, TypeOK
<1>7. ASSUME NEW r \in Replicas, StopReading(r) PROVE TypeOK'
  <2>1. UNCHANGED recorded /\ Forget(r)
    BY <1>7 DEF StopReading
  <2>2. /\ popped' \in [Replicas -> [Clients -> Nat]]
        /\ \A q \in Replicas, k \in Clients :
             /\ Len(recorded'[q][k]) - Limit <= popped'[q][k]
             /\ popped'[q][k] <= Len(recorded'[q][k])
    BY <2>1, TypeForget
  <2>3. TypeLimiter'
    BY <1>7, <2>2, TypeParts DEF StopReading, TypeLimiter
  <2>4. TypeProcess'
    BY <1>7, TypeParts DEF StopReading, TypeProcess
  <2>5. TypeRedis'
    BY <1>7, LastForward, TypeParts DEF StopReading, Deliver, TypeRedis
  <2>. QED  BY <2>3, <2>4, <2>5 DEF TypeOK, TypeRedis, TypeProcess, TypeLimiter
<1>8. ASSUME NEW r \in Replicas, Autoclaim(r) PROVE TypeOK'
  BY <1>8 DEF Autoclaim, TypeOK
<1>9. ASSUME NEW r \in Replicas, Request(r) PROVE TypeOK'
  BY <1>9, TypeRequest
<1>10. CASE Publish
  BY <1>10 DEF Publish, TypeOK
<1>11. CASE Outage
  BY <1>11 DEF Outage, TypeOK
<1>12. CASE OutageWithLoss
  <2>1. <<>> \in Seq(Entries) /\ Len(<<>>) = 0
    OBVIOUS
  <2>2. lastDelivered' \in 0..Len(stream') /\ stream' \in Seq(Entries)
    BY <1>12, <2>1 DEF OutageWithLoss
  <2>3. TypeLimiter'
    BY <1>12, TypeParts DEF OutageWithLoss, TypeLimiter
  <2>4. TypeProcess'
    BY <1>12, TypeParts DEF OutageWithLoss, TypeProcess
  <2>5. TypeRedis'
    BY <1>12, <2>2, TypeParts DEF OutageWithLoss, TypeRedis
  <2>. QED  BY <2>3, <2>4, <2>5 DEF TypeOK, TypeRedis, TypeProcess, TypeLimiter
<1>13. CASE Recover
  BY <1>13 DEF Recover, TypeOK
<1>14. CASE Tick
  BY <1>14 DEF Tick, TypeOK
<1>15. CASE SetBack
  BY <1>15 DEF SetBack, TypeOK
<1>. QED  BY <1>1, <1>2, <1>3, <1>4, <1>5, <1>6, <1>7, <1>8, <1>9, <1>10, <1>11, <1>12,
             <1>13, <1>14, <1>15 DEF Next

\* A deque never holds more than the limit, and only a serving replica of a
\* service with a stream has a task (main.py of every service).
THEOREM TypeCorrect == Spec => []TypeOK
  BY TypeInit, TypeNext, PTL DEF Spec

-----------------------------------------------------------------------------
(***************************************************************************)
(* The consumer group.                                                     *)
(***************************************************************************)
\* An entry of the stream that the group has not handed out was never read;
\* every other one is pending or handled.
Ahead ==
  /\ \A i, j \in DOMAIN stream : stream[i] = stream[j] => i = j
  /\ \A e \in Entries : reads[e] <= 1
  /\ \A i \in DOMAIN stream : lastDelivered < i => reads[stream[i]] = 0
  /\ \A i \in DOMAIN stream : i <= lastDelivered => stream[i] \in pending \cup handled
  /\ ~ group => lastDelivered = 0

\* One call hands out the next entries, and no others.
LEMMA AheadDeliver ==
  ASSUME TypeOK, Ahead, group, group', Deliver, UNCHANGED stream,
         pending' \cup handled' = pending \cup handled \cup Batch
  PROVE  Ahead'
<1>1. /\ Last \in 0..Len(stream) /\ lastDelivered <= Last /\ lastDelivered' = Last
      /\ lastDelivered \in Nat /\ Len(stream) \in Nat /\ DOMAIN stream = 1..Len(stream)
      /\ \A i \in DOMAIN stream : stream[i] \in Entries
  BY LastForward DEF TypeOK, Deliver
<1>2. \A i \in DOMAIN stream : stream[i] \in Batch <=> (lastDelivered < i /\ i <= Last)
  BY <1>1 DEF Ahead, Batch
<1>3. \A e \in Entries : reads'[e] <= 1
  <2>1. \A e \in Batch : reads[e] = 0
    BY <1>1 DEF Batch, Ahead
  <2>. QED  BY <2>1, <1>1 DEF Deliver, Ahead, TypeOK
<1>4. \A i \in DOMAIN stream : Last < i => reads'[stream[i]] = 0
  BY <1>1, <1>2 DEF Deliver, Ahead
<1>5. \A i \in DOMAIN stream : i <= Last => stream[i] \in pending' \cup handled'
  BY <1>1, <1>2 DEF Ahead
<1>. QED  BY <1>1, <1>3, <1>4, <1>5 DEF Ahead

LEMMA AheadNext == TypeOK /\ Ahead /\ [Next]_vars => Ahead'
<1>. SUFFICES ASSUME TypeOK, Ahead, [Next]_vars PROVE Ahead'
  OBVIOUS
<1>. USE DEF redis, process, limiter, time, trouble, consumed
<1>1. CASE UNCHANGED <<redis, consumed>>
  BY <1>1 DEF Ahead
<1>2. ASSUME NEW r \in Replicas, CreateGroup(r) PROVE Ahead'
  BY <1>2 DEF CreateGroup, Ahead
<1>3. ASSUME NEW r \in Replicas, ReadGroup(r) PROVE Ahead'
  <2>1. pending' \cup handled' = pending \cup handled \cup Batch
    BY <1>3 DEF ReadGroup
  <2>. QED  BY <1>3, <2>1, AheadDeliver DEF ReadGroup, Loops
<1>4. ASSUME NEW r \in Replicas, StopReading(r) PROVE Ahead'
  <2>1. pending' \cup handled' = pending \cup handled \cup Batch
    BY <1>4 DEF StopReading
  <2>. QED  BY <1>4, <2>1, AheadDeliver DEF StopReading, Loops
<1>5. ASSUME NEW r \in Replicas, Autoclaim(r) PROVE Ahead'
  <2>1. pending' \cup handled' = pending \cup handled
    BY <1>5 DEF Autoclaim
  <2>. QED  BY <1>5, <2>1 DEF Autoclaim, Ahead
<1>6. CASE Publish
  <2>1. PICK e \in Entries : ~ InStream(e) /\ reads[e] = 0 /\ stream' = Append(stream, e)
    BY <1>6 DEF Publish
  <2>2. /\ DOMAIN stream = 1..Len(stream) /\ DOMAIN stream' = 1..(Len(stream) + 1)
        /\ Len(stream) \in Nat /\ lastDelivered \in 0..Len(stream)
        /\ \A i \in DOMAIN stream : stream'[i] = stream[i] /\ stream[i] # e
        /\ stream'[Len(stream) + 1] = e
    BY <2>1 DEF TypeOK, InStream
  <2>. QED  BY <1>6, <2>1, <2>2 DEF Publish, Ahead
<1>7. CASE OutageWithLoss
  <2>1. DOMAIN stream' = {}
    BY <1>7 DEF OutageWithLoss
  <2>. QED  BY <1>7, <2>1 DEF OutageWithLoss, Ahead
<1>8. ASSUME NEW r \in Replicas,
             Start(r) \/ Stop(r) \/ CreateGroupRaises(r) \/ Request(r)
      PROVE  Ahead'
  BY <1>1, <1>8 DEF Start, Stop, CreateGroupRaises, Request
<1>9. CASE Outage \/ Recover \/ Tick \/ SetBack
  BY <1>1, <1>9 DEF Outage, Recover, Tick, SetBack
<1>10. CASE UNCHANGED vars
  BY <1>1, <1>10 DEF vars
<1>. QED  BY <1>2, <1>3, <1>4, <1>5, <1>6, <1>7, <1>8, <1>9, <1>10 DEF Next

LEMMA AheadInit == Init => Ahead
<1>. SUFFICES ASSUME Init PROVE Ahead
  OBVIOUS
<1>1. DOMAIN stream = {} /\ lastDelivered = 0 /\ \A e \in Entries : reads[e] = 0
  BY DEF Init
<1>. QED  BY <1>1 DEF Ahead

\* Despite outages, losses and restarts the group skips no entry
\* (create_consumer_group of broker.py starts it at 0-0).
THEOREM NothingIsSkipped == Spec => []NothingSkipped
<1>1. Ahead => NothingSkipped
  BY DEF Ahead, NothingSkipped
<1>. QED  BY <1>1, TypeCorrect, AheadInit, AheadNext, PTL DEF Spec

\* Creating the group again hands out nothing twice (BUSYGROUP in broker.py).
THEOREM NothingIsReplayed == Spec => []RestartsReplayNothing
<1>1. Ahead => RestartsReplayNothing
  BY DEF Ahead, RestartsReplayNothing
<1>. QED  BY <1>1, TypeCorrect, AheadInit, AheadNext, PTL DEF Spec

\* None of the steps that ServiceProcess calls fair is possible: the backends
\* are up, the processes run, and no loop has anything that it could hand over.
AtRest ==
  /\ backends = "up"
  /\ \A r \in Replicas :
       /\ stage[r] = "down" => service.auth = "misconfigured"
       /\ task[r] # "starting"
       /\ Loops(r) => lastDelivered = Len(stream)
       /\ Loops(r) /\ pending \cap Malformed = {} => pending = {}

\* The four ways to stop for good are all there are.
RestIsExcused ==
  AtRest => \A e \in Entries : InStream(e) => e \in handled \/ Excused(e)

\* What a task that ended, and a loop without its group, have been through.
Tasks ==
  /\ backends = "down" => outages > 0
  /\ \A r \in Replicas : task[r] = "dead" => outages > 0
  /\ \A r \in Replicas : task[r] = "looping" => group \/ losses > 0
  /\ ~ service.worker => stream = <<>>

LEMMA TasksNext == TypeOK /\ Tasks /\ [Next]_vars => Tasks'
<1>. SUFFICES ASSUME TypeOK, Tasks, [Next]_vars  PROVE Tasks'
  OBVIOUS
<1>. USE DEF redis, process, limiter, time, trouble, consumed, Tasks
<1>1. /\ task \in [Replicas -> {"none", "starting", "looping", "dead"}]
      /\ outages \in Nat /\ losses \in Nat
  BY DEF TypeOK
<1>2. ASSUME NEW r \in Replicas, Start(r)  PROVE Tasks'
  BY <1>1, <1>2 DEF Start
<1>3. ASSUME NEW r \in Replicas, Stop(r) \/ StopReading(r)  PROVE Tasks'
  BY <1>1, <1>3 DEF Stop, StopReading
<1>4. ASSUME NEW r \in Replicas, CreateGroup(r) \/ CreateGroupRaises(r)  PROVE Tasks'
  BY <1>1, <1>4 DEF CreateGroup, CreateGroupRaises
<1>5. ASSUME NEW r \in Replicas, ReadGroup(r) \/ Autoclaim(r) \/ Request(r)  PROVE Tasks'
  BY <1>1, <1>5 DEF ReadGroup, Autoclaim, Request
<1>6. CASE Outage \/ OutageWithLoss
  BY <1>1, <1>6 DEF Outage, OutageWithLoss
<1>7. CASE Publish \/ Recover \/ Tick \/ SetBack
  BY <1>1, <1>7 DEF Publish, Recover, Tick, SetBack
<1>8. CASE UNCHANGED vars
  BY <1>8 DEF vars
<1>. QED  BY <1>2, <1>3, <1>4, <1>5, <1>6, <1>7, <1>8 DEF Next

\* A service that is at rest has handled its stream, or stopped in one of the
\* ways that Excused names: ConsumptionGoesOn without its fairness.
THEOREM RestIsAlwaysExcused ==
  ASSUME Replicas # {}
  PROVE  Spec => []RestIsExcused
<1>1. ASSUME TypeOK, Tasks, NothingSkipped, AtRest, NEW i \in DOMAIN stream
      PROVE  stream[i] \in handled \/ Excused(stream[i])
  <2>1. /\ lastDelivered \in 0..Len(stream) /\ i \in 1..Len(stream)
        /\ task \in [Replicas -> {"none", "starting", "looping", "dead"}]
        /\ stage \in [Replicas -> {"down", "serving"}]
        /\ \A r \in Replicas : task[r] = "none" => stage[r] # "serving" \/ ~ service.worker
    BY <1>1 DEF TypeOK
  <2>2. service.worker
    BY <1>1, <2>1 DEF Tasks
  <2>3. CASE service.auth = "misconfigured"
    BY <2>3 DEF Excused
  <2>4. CASE service.auth # "misconfigured"
    <3>1. \A r \in Replicas : task[r] \in {"looping", "dead"}
      BY <1>1, <2>1, <2>2, <2>4 DEF AtRest
    <3>2. CASE \A r \in Replicas : task[r] = "dead"
      BY <1>1, <3>2 DEF Tasks, Excused
    <3>3. ASSUME NEW r \in Replicas, task[r] = "looping"
          PROVE  stream[i] \in handled \/ Excused(stream[i])
      <4>1. CASE ~ group
        BY <1>1, <3>3, <4>1 DEF Tasks, Excused
      <4>2. CASE group
        <5>1. Loops(r)
          BY <1>1, <3>3, <4>2 DEF Loops, AtRest
        <5>2. i <= lastDelivered
          BY <1>1, <2>1, <5>1 DEF AtRest
        <5>3. stream[i] \in pending \cup handled
          BY <1>1, <4>2, <5>2 DEF NothingSkipped
        <5>4. stream[i] \in pending => pending \cap Malformed # {}
          BY <1>1, <5>1 DEF AtRest
        <5>. QED  BY <5>3, <5>4 DEF Excused
      <4>. QED  BY <4>1, <4>2
    <3>. QED  BY <3>1, <3>2, <3>3
  <2>. QED  BY <2>3, <2>4
<1>2. TypeOK /\ Tasks /\ NothingSkipped => RestIsExcused
  BY <1>1 DEF RestIsExcused, InStream
<1>3. Init => Tasks
  BY DEF Init, Tasks
<1>. QED  BY <1>2, <1>3, TasksNext, TypeCorrect, NothingIsSkipped, PTL DEF Spec

-----------------------------------------------------------------------------
(***************************************************************************)
(* The rate limiter: one deque s of which n stamps are popped, in the life *)
(* of a process that is up or not, at a time now.                          *)
(***************************************************************************)
\* What is not popped is of this life; a process that is down holds nothing.
Own(s, n, life, up) ==
  /\ \A i \in DOMAIN s : s[i].life <= life
  /\ \A i \in DOMAIN s : n < i => s[i].life = life
  /\ ~ up => n = Len(s)

\* Stamps are in the order of the clock; what a process popped itself is older
\* than the window; WindowBound for one deque.
Ordered(s, now) ==
  /\ \A i \in DOMAIN s : s[i].at <= now
  /\ \A i, j \in DOMAIN s : i <= j => s[i].at <= s[j].at

Old(s, n, life, up, now) ==
  \A i \in DOMAIN s : (i <= n /\ up /\ s[i].life = life) => s[i].at + Window < now

Spread(s) ==
  \A i \in DOMAIN s :
    (i + Limit \in DOMAIN s /\ s[i].life = s[i + Limit].life) => s[i + Limit].at - s[i].at > Window

Timely(s, n, life, up, now) == Ordered(s, now) /\ Old(s, n, life, up, now) /\ Spread(s)

LEMMA Stamps ==
  ASSUME NEW s \in Seq(Stamp)
  PROVE  /\ Len(s) \in Nat /\ DOMAIN s = 1..Len(s)
         /\ \A i \in DOMAIN s : s[i].at \in Nat /\ s[i].life \in Nat
<1>1. \A i \in DOMAIN s : s[i] \in Stamp
  OBVIOUS
<1>. QED  BY <1>1 DEF Stamp

LEMMA PopKeeps ==
  ASSUME NEW s \in Seq(Stamp), NEW n \in Nat, NEW m \in n..Len(s), NEW life \in Nat, NEW now \in Nat,
         \A i \in (n + 1)..m : s[i].at + Window < now
  PROVE  /\ Own(s, n, life, TRUE) => Own(s, m, life, TRUE)
         /\ Timely(s, n, life, TRUE, now) => Timely(s, m, life, TRUE, now)
<1>1. Own(s, n, life, TRUE) => Own(s, m, life, TRUE)
  BY Stamps DEF Own
<1>2. Old(s, n, life, TRUE, now) => Old(s, m, life, TRUE, now)
  BY Stamps DEF Old
<1>. QED  BY <1>1, <1>2 DEF Timely

LEMMA AddKeeps ==
  ASSUME NEW s \in Seq(Stamp), NEW n \in 0..Len(s), NEW life \in Nat, NEW now \in Nat,
         NEW x \in Stamp, x.at = now, x.life = life, Len(s) - n < Limit
  PROVE  /\ Own(s, n, life, TRUE) => Own(Append(s, x), n, life, TRUE)
         /\ Timely(s, n, life, TRUE, now) => Timely(Append(s, x), n, life, TRUE, now)
<1>. DEFINE t == Append(s, x)
            e == Len(s) + 1
<1>1. /\ Len(s) \in Nat /\ DOMAIN s = 1..Len(s) /\ n \in Nat /\ n <= Len(s)
      /\ \A i \in DOMAIN s : s[i].at \in Nat /\ s[i].life \in Nat
  BY Stamps
<1>2. /\ Len(t) = e /\ DOMAIN t = 1..e /\ t[e] = x
      /\ \A i \in DOMAIN s : t[i] = s[i]
  BY <1>1
<1>. HIDE DEF t
<1>3. \A i \in DOMAIN t : i \in DOMAIN s \/ i = e
  BY <1>1, <1>2
<1>4. Own(s, n, life, TRUE) => Own(t, n, life, TRUE)
  BY <1>1, <1>2, <1>3 DEF Own
<1>5. Ordered(s, now) => Ordered(t, now)
  <2>. SUFFICES ASSUME Ordered(s, now) PROVE Ordered(t, now)
    OBVIOUS
  <2>1. \A i \in DOMAIN t : t[i].at <= now
    BY <1>1, <1>2, <1>3 DEF Ordered
  <2>2. ASSUME NEW i \in DOMAIN t, NEW j \in DOMAIN t, i <= j PROVE t[i].at <= t[j].at
    <3>1. CASE j = e
      BY <1>2, <2>1, <3>1
    <3>2. CASE j \in DOMAIN s
      <4>1. i \in DOMAIN s
        BY <1>1, <1>2, <2>2, <3>2
      <4>. QED  BY <1>2, <2>2, <3>2, <4>1 DEF Ordered
    <3>. QED  BY <1>3, <3>1, <3>2
  <2>. QED  BY <2>1, <2>2 DEF Ordered
<1>6. Old(s, n, life, TRUE, now) => Old(t, n, life, TRUE, now)
  BY <1>1, <1>2, <1>3 DEF Old
<1>7. Spread(s) /\ Old(s, n, life, TRUE, now) => Spread(t)
  <2>. SUFFICES ASSUME Spread(s), Old(s, n, life, TRUE, now), NEW i \in DOMAIN t,
                       i + Limit \in DOMAIN t, t[i].life = t[i + Limit].life
                PROVE  t[i + Limit].at - t[i].at > Window
    BY DEF Spread
  <2>1. i \in DOMAIN s
    BY <1>1, <1>2, LimitPositive
  <2>2. CASE i + Limit \in DOMAIN s
    BY <1>2, <2>1, <2>2 DEF Spread
  <2>3. CASE i + Limit = e
    <3>1. i <= n
      BY <1>1, <2>1, <2>3, LimitPositive
    <3>2. s[i].at + Window < now
      BY <1>2, <2>1, <2>3, <3>1 DEF Old
    <3>. QED  BY <1>1, <1>2, <2>1, <2>3, <3>2, LimitPositive
  <2>. QED  BY <1>3, <2>2, <2>3
<1>8. Timely(s, n, life, TRUE, now) => Timely(t, n, life, TRUE, now)
  BY <1>5, <1>6, <1>7 DEF Timely
<1>. QED  BY <1>4, <1>8 DEF t

LEMMA StartKeeps ==
  ASSUME NEW s \in Seq(Stamp), NEW n \in Nat, NEW life \in Nat, NEW now, Own(s, n, life, FALSE)
  PROVE  /\ Own(s, n, life + 1, TRUE)
         /\ Timely(s, n, life, FALSE, now) => Timely(s, n, life + 1, TRUE, now)
<1>1. Own(s, n, life + 1, TRUE)
  BY Stamps DEF Own
<1>2. \A i \in DOMAIN s : s[i].life # life + 1
  BY Stamps DEF Own
<1>. QED  BY <1>1, <1>2 DEF Timely, Old

LEMMA StopKeeps ==
  ASSUME NEW s \in Seq(Stamp), NEW n \in Nat, NEW life, NEW up, NEW now
  PROVE  /\ Own(s, n, life, up) => Own(s, Len(s), life, FALSE)
         /\ Timely(s, n, life, up, now) => Timely(s, Len(s), life, FALSE, now)
  BY Stamps DEF Own, Timely, Old

LEMMA TickKeeps ==
  ASSUME NEW s \in Seq(Stamp), NEW n, NEW life, NEW up, NEW now \in Nat
  PROVE  Timely(s, n, life, up, now) => Timely(s, n, life, up, now + 1)
<1>1. Ordered(s, now) => Ordered(s, now + 1)
  BY Stamps DEF Ordered
<1>2. Old(s, n, life, up, now) => Old(s, n, life, up, now + 1)
  BY Stamps, LimitPositive DEF Old
<1>. QED  BY <1>1, <1>2 DEF Timely

\* Every deque of every replica, and the tokens its stamps were let through for.
Earned(s) == \A i \in DOMAIN s : Entitled(s[i].token)

Deque(r, k) ==
  /\ Own(recorded[r][k], popped[r][k], lives[r], stage[r] = "serving")
  /\ setBack \/ Timely(recorded[r][k], popped[r][k], lives[r], stage[r] = "serving", clock)
  /\ Earned(recorded[r][k])

Deques == \A r \in Replicas, k \in Clients : Deque(r, k)

LEMMA DequeTypes ==
  ASSUME TypeOK, NEW r \in Replicas, NEW k \in Clients
  PROVE  /\ recorded[r][k] \in Seq(Stamp) /\ popped[r][k] \in Nat
         /\ popped[r][k] <= Len(recorded[r][k]) /\ clock \in Nat /\ lives[r] \in Nat
         /\ stage[r] \in {"down", "serving"}
  BY DEF TypeOK

LEMMA DequesRequest ==
  ASSUME TypeOK, Deques, NEW r \in Replicas, Request(r)
  PROVE  Deques'
<1>1. PICK k \in Clients, token \in Token, reachable \in BOOLEAN : Guard(r, k, token, reachable)
  BY DEF Request
<1>2. UNCHANGED <<service, stage, lives, clock, setBack>> /\ stage[r] = "serving"
  BY DEF Request, process, time
<1>3. \A x : Entitled(x)' <=> Entitled(x)
  BY <1>2 DEF Entitled, Verify
<1>4. ASSUME NEW q \in Replicas, NEW c \in Clients,
             recorded'[q][c] = recorded[q][c], popped'[q][c] = popped[q][c]
      PROVE  Deque(q, c)'
  <2>1. Deque(q, c)
    BY DEF Deques
  <2>. QED  BY <1>2, <1>3, <1>4, <2>1 DEF Deque, Earned
<1>5. CASE UNCHANGED limiter
  BY <1>4, <1>5 DEF Deques, limiter
<1>6. CASE ~ UNCHANGED limiter
  <2>1. PICK m \in 0..Len(recorded[r][k]) :
          /\ Pops(r, k, m)
          /\ popped' = [popped EXCEPT ![r][k] = m]
          /\ UNCHANGED recorded \/ (~ Full(r, k, m) /\ Record(r, k, token))
    BY <1>1, <1>6, GuardSteps, AllowSteps
  <2>2. Entitled(token)
    BY <1>1, <1>6, GuardSteps
  <2>. DEFINE s == recorded[r][k]
              n == popped[r][k]
              life == lives[r]
              x == [at |-> clock, life |-> lives[r], token |-> token]
  <2>3. /\ popped'[r][k] = m
        /\ \/ recorded'[r][k] = s
           \/ Len(s) - m < Limit /\ recorded'[r][k] = Append(s, x)
    <3>1. popped'[r][k] = m
      BY <2>1 DEF TypeOK
    <3>2. UNCHANGED recorded \/ recorded'[r][k] = Append(s, x)
      BY <2>1 DEF Record, TypeOK
    <3>3. Len(s) \in Nat /\ m \in Nat
      BY <2>1, DequeTypes
    <3>4. ~ Full(r, k, m) => Len(s) - m < Limit
      BY <3>3, LimitPositive DEF Full
    <3>. QED  BY <2>1, <3>1, <3>2, <3>4
  <2>4. \A q \in Replicas, c \in Clients : <<q, c>> # <<r, k>> =>
          recorded'[q][c] = recorded[q][c] /\ popped'[q][c] = popped[q][c]
    BY <2>1 DEF Record, TypeOK
  <2>5. Deque(r, k)'
    <3>1. /\ s \in Seq(Stamp) /\ n \in Nat /\ life \in Nat /\ clock \in Nat
          /\ m \in n..Len(s) /\ m \in 0..Len(s)
      BY <2>1, DequeTypes DEF Pops
    <3>2. \A i \in (n + 1)..m : s[i].at + Window < clock
      <4>1. \A i \in (n + 1)..m : s[i].at < clock - Window
        BY <2>1 DEF Pops
      <4>2. \A i \in (n + 1)..m : s[i].at \in Nat
        BY <3>1, Stamps
      <4>3. ASSUME NEW a \in Nat, a < clock - Window PROVE a + Window < clock
        BY <3>1, <4>3, LimitPositive
      <4>. QED  BY <4>1, <4>2, <4>3
    <3>3. x \in Stamp /\ x.at = clock /\ x.life = life /\ x.token = token
      BY <3>1 DEF Stamp
    <3>4. /\ Own(s, n, life, TRUE) /\ Earned(s)
          /\ setBack \/ Timely(s, n, life, TRUE, clock)
      BY <1>2 DEF Deques, Deque
    <3>. HIDE DEF s, n, life, x
    <3>5. Own(s, m, life, TRUE) /\ (setBack \/ Timely(s, m, life, TRUE, clock))
      BY <3>1, <3>2, <3>4, PopKeeps
    <3>6. CASE recorded'[r][k] = s
      BY <1>2, <1>3, <2>3, <3>4, <3>5, <3>6 DEF Deque, Earned, life
    <3>7. CASE Len(s) - m < Limit /\ recorded'[r][k] = Append(s, x)
      <4>1. Own(Append(s, x), m, life, TRUE)
            /\ (setBack \/ Timely(Append(s, x), m, life, TRUE, clock))
        BY <3>1, <3>3, <3>5, <3>7, AddKeeps
      <4>2. /\ DOMAIN Append(s, x) = 1..(Len(s) + 1) /\ DOMAIN s = 1..Len(s) /\ Len(s) \in Nat
            /\ \A i \in DOMAIN s : Append(s, x)[i] = s[i]
            /\ Append(s, x)[Len(s) + 1] = x
        BY <3>1, Stamps
      <4>3. Earned(Append(s, x))
        BY <2>2, <3>3, <3>4, <4>2 DEF Earned
      <4>. DEFINE t == Append(s, x)
      <4>. HIDE DEF t
      <4>4. Own(t, m, life, TRUE) /\ (setBack \/ Timely(t, m, life, TRUE, clock)) /\ Earned(t)
            /\ recorded'[r][k] = t
        BY <3>7, <4>1, <4>3 DEF t
      <4>. QED  BY <1>2, <1>3, <2>3, <4>4 DEF Deque, Earned, life
    <3>. QED  BY <2>3, <3>6, <3>7
  <2>. QED  BY <1>4, <2>4, <2>5 DEF Deques
<1>. QED  BY <1>5, <1>6

LEMMA DequesNext == TypeOK /\ Deques /\ [Next]_vars => Deques'
<1>. SUFFICES ASSUME TypeOK, Deques, [Next]_vars PROVE Deques'
  OBVIOUS
<1>. USE DEF redis, process, limiter, time, trouble, consumed
<1>0. ASSUME service' = service, NEW s PROVE Earned(s)' <=> Earned(s)
  BY <1>0 DEF Earned, Entitled, Verify
<1>1. CASE UNCHANGED <<service, stage, lives, limiter, time>>
  BY <1>1 DEF Deques, Deque, Earned, Entitled, Verify
<1>2. ASSUME NEW r \in Replicas, Start(r) PROVE Deques'
  <2>. SUFFICES ASSUME NEW q \in Replicas, NEW k \in Clients PROVE Deque(q, k)'
    BY DEF Deques
  <2>1. /\ UNCHANGED <<service, limiter, time>> /\ stage[r] = "down"
        /\ stage' = [stage EXCEPT ![r] = "serving"] /\ lives' = [lives EXCEPT ![r] = @ + 1]
    BY <1>2 DEF Start
  <2>2. Deque(q, k)
    BY DEF Deques
  <2>3. CASE q = r
    <3>1. stage[q] = "down" /\ stage'[q] = "serving" /\ lives'[q] = lives[q] + 1
      BY <2>1, <2>3 DEF TypeOK
    <3>2. Own(recorded[q][k], popped[q][k], lives[q] + 1, TRUE)
          /\ (setBack \/ Timely(recorded[q][k], popped[q][k], lives[q] + 1, TRUE, clock))
      BY <2>2, <3>1, DequeTypes, StartKeeps DEF Deque
    <3>3. (stage'[q] = "serving") = TRUE
      BY <3>1
    <3>4. Earned(recorded[q][k])'
      BY <2>1, <2>2 DEF Deque, Earned, Entitled, Verify
    <3>. QED  BY <2>1, <3>1, <3>2, <3>3, <3>4 DEF Deque
  <2>4. CASE q # r
    <3>1. stage'[q] = stage[q] /\ lives'[q] = lives[q]
      BY <2>1, <2>4 DEF TypeOK
    <3>. QED  BY <2>1, <2>2, <3>1 DEF Deque, Earned, Entitled, Verify
  <2>. QED  BY <2>3, <2>4
<1>3. ASSUME NEW r \in Replicas, Stop(r) \/ StopReading(r) PROVE Deques'
  <2>. SUFFICES ASSUME NEW q \in Replicas, NEW k \in Clients PROVE Deque(q, k)'
    BY DEF Deques
  <2>1. /\ UNCHANGED <<service, recorded, lives, time>> /\ Forget(r)
        /\ stage' = [stage EXCEPT ![r] = "down"]
    BY <1>3 DEF Stop, StopReading
  <2>2. Deque(q, k)
    BY DEF Deques
  <2>3. CASE q = r
    <3>1. stage'[q] = "down" /\ popped'[q][k] = Len(recorded[q][k])
      BY <2>1, <2>3 DEF Forget, TypeOK
    <3>2. Own(recorded[q][k], Len(recorded[q][k]), lives[q], FALSE)
          /\ (setBack \/ Timely(recorded[q][k], Len(recorded[q][k]), lives[q], FALSE, clock))
      BY <2>2, DequeTypes, StopKeeps DEF Deque
    <3>3. (stage'[q] = "serving") = FALSE
      BY <3>1
    <3>4. Earned(recorded[q][k])'
      BY <2>1, <2>2 DEF Deque, Earned, Entitled, Verify
    <3>. QED  BY <2>1, <3>1, <3>2, <3>3, <3>4 DEF Deque
  <2>4. CASE q # r
    <3>1. stage'[q] = stage[q] /\ popped'[q][k] = popped[q][k]
      BY <2>1, <2>4 DEF Forget, TypeOK
    <3>. QED  BY <2>1, <2>2, <3>1 DEF Deque, Earned, Entitled, Verify
  <2>. QED  BY <2>3, <2>4
<1>4. ASSUME NEW r \in Replicas, Request(r) PROVE Deques'
  BY <1>4, DequesRequest
<1>5. CASE Tick
  <2>. SUFFICES ASSUME NEW q \in Replicas, NEW k \in Clients PROVE Deque(q, k)'
    BY DEF Deques
  <2>1. UNCHANGED <<service, stage, lives, limiter, setBack>> /\ clock' = clock + 1
    BY <1>5 DEF Tick
  <2>2. Deque(q, k)
    BY DEF Deques
  <2>3. setBack \/ Timely(recorded[q][k], popped[q][k], lives[q], stage[q] = "serving", clock + 1)
    BY <2>2, DequeTypes, TickKeeps DEF Deque
  <2>. QED  BY <2>1, <2>2, <2>3 DEF Deque, Earned, Entitled, Verify
<1>6. CASE SetBack
  BY <1>6 DEF SetBack, Deques, Deque, Earned, Entitled, Verify
<1>7. ASSUME NEW r \in Replicas,
             CreateGroup(r) \/ CreateGroupRaises(r) \/ ReadGroup(r) \/ Autoclaim(r)
      PROVE  Deques'
  BY <1>1, <1>7 DEF CreateGroup, CreateGroupRaises, ReadGroup, Autoclaim
<1>8. CASE Publish \/ Outage \/ OutageWithLoss \/ Recover
  BY <1>1, <1>8 DEF Publish, Outage, OutageWithLoss, Recover
<1>9. CASE UNCHANGED vars
  BY <1>1, <1>9 DEF vars
<1>. QED  BY <1>2, <1>3, <1>4, <1>5, <1>6, <1>7, <1>8, <1>9 DEF Next

LEMMA DequesInit == Init => Deques
<1>. SUFFICES ASSUME Init, NEW r \in Replicas, NEW k \in Clients PROVE Deque(r, k)
  BY DEF Deques
<1>1. recorded[r][k] = <<>> /\ popped[r][k] = 0
  BY DEF Init
<1>2. DOMAIN recorded[r][k] = {} /\ Len(recorded[r][k]) = 0
  BY <1>1
<1>. QED  BY <1>1, <1>2 DEF Deque, Own, Timely, Ordered, Old, Spread, Earned

\* Limit + 1 requests that one process lets a client have are more than a
\* window apart, at its edge too (InMemoryRateLimiter.allow).
THEOREM WindowIsBounded == Spec => []WindowBound
<1>1. Deques => WindowBound
  BY DEF Deques, Deque, Timely, Spread, WindowBound
<1>. QED  BY <1>1, TypeCorrect, DequesInit, DequesNext, PTL DEF Spec

\* 429 is deserved: by Limit requests of this client, to this process, within
\* the window, that it was entitled to (enforce_write_rate_limit after
\* require_write_access).
THEOREM RefusalIsDeserved == Spec => []RefusalDeserved
<1>1. TypeOK /\ Deques => RefusalDeserved
  <2>. SUFFICES ASSUME TypeOK, Deques, ~ setBack, NEW r \in Replicas, NEW k \in Clients,
                       NEW n \in 0..Len(recorded[r][k]), Pops(r, k, n), Full(r, k, n)
                PROVE  Cardinality({i \in DOMAIN recorded[r][k] :
                          /\ recorded[r][k][i].life = lives[r]
                          /\ recorded[r][k][i].at >= clock - Window
                          /\ Entitled(recorded[r][k][i].token)}) >= Limit
    BY DEF RefusalDeserved
  <2>. DEFINE s == recorded[r][k]
              life == lives[r]
              counted == {i \in DOMAIN s : /\ s[i].life = life /\ s[i].at >= clock - Window
                                           /\ Entitled(s[i].token)}
  <2>1. /\ s \in Seq(Stamp) /\ popped[r][k] \in Nat /\ popped[r][k] <= n
        /\ clock \in Nat /\ n \in Nat
    BY DequeTypes DEF Pops
  <2>2. Own(s, popped[r][k], life, stage[r] = "serving") /\ Ordered(s, clock) /\ Earned(s)
    BY DEF Deques, Deque, Timely
  <2>3. Len(s) - n >= Limit
    BY DEF Full
  <2>4. n < Len(s) => s[n + 1].at >= clock - Window
    BY DEF Pops
  <2>. HIDE DEF s, life
  <2>5. /\ Len(s) \in Nat /\ DOMAIN s = 1..Len(s) /\ n < Len(s)
        /\ \A i \in DOMAIN s : s[i].at \in Nat
    BY <2>1, <2>3, Stamps, LimitPositive
  <2>6. (n + 1)..Len(s) \subseteq counted
    <3>. SUFFICES ASSUME NEW i \in (n + 1)..Len(s) PROVE i \in counted
      OBVIOUS
    <3>1. i \in DOMAIN s /\ n + 1 \in DOMAIN s /\ n + 1 <= i /\ popped[r][k] < i
      BY <2>1, <2>5
    <3>2. s[i].at >= clock - Window
      <4>1. s[n + 1].at <= s[i].at
        BY <2>2, <3>1 DEF Ordered
      <4>. QED  BY <2>1, <2>4, <2>5, <3>1, <4>1, LimitPositive
    <3>3. s[i].life = life /\ Entitled(s[i].token)
      BY <2>2, <3>1 DEF Own, Earned
    <3>. QED  BY <3>1, <3>2, <3>3
  <2>. HIDE DEF counted
  <2>7. IsFiniteSet(counted)
    <3>1. counted \subseteq 1..Len(s)
      BY <2>5 DEF counted
    <3>2. IsFiniteSet(1..Len(s))
      BY <2>5, FS_Interval
    <3>. QED  BY <3>1, <3>2, FS_Subset
  <2>8. Cardinality((n + 1)..Len(s)) = Len(s) - n
    <3>1. n + 1 \in Int /\ Len(s) \in Int /\ n + 1 <= Len(s)
      BY <2>1, <2>5
    <3>2. Cardinality((n + 1)..Len(s)) = Len(s) - (n + 1) + 1
      BY <3>1, FS_Interval
    <3>. QED  BY <2>1, <2>5, <3>2
  <2>9. /\ Cardinality((n + 1)..Len(s)) <= Cardinality(counted)
        /\ Cardinality(counted) \in Nat
    BY <2>6, <2>7, FS_Subset, FS_CardinalityType
  <2>10. Cardinality(counted) >= Limit
    BY <2>1, <2>3, <2>5, <2>8, <2>9, LimitPositive
  <2>. QED  BY <2>10 DEF counted, s, life
<1>. QED  BY <1>1, TypeCorrect, DequesInit, DequesNext, PTL DEF Spec

-----------------------------------------------------------------------------
(***************************************************************************)
(* The whole service: how many lives its processes had, and that the       *)
(* stamps of one life within one window are fewer than the limit allows.   *)
(***************************************************************************)
Life == UNION {{<<r, n>> : n \in 1..lives[r]} : r \in Replicas}
Down == {r \in Replicas : stage[r] = "down"}

\* A life begins with a start, and only a replica that is down starts.
LivesBound ==
  /\ IsFiniteSet(Life)
  /\ Cardinality(Life) + Cardinality(Down) <= Cardinality(Replicas) + stops

\* Stamps come life by life, and only from lives that were.
Lived ==
  \A r \in Replicas :
    /\ stage[r] = "serving" => lives[r] >= 1
    /\ \A k \in Clients : LET s == recorded[r][k] IN
         /\ \A i \in DOMAIN s : s[i].life \in 1..lives[r]
         /\ \A i, j \in DOMAIN s : i <= j => s[i].life <= s[j].life

LEMMA LifeElements ==
  \A x : x \in Life <=> \E r \in Replicas : \E n \in 1..lives[r] : x = <<r, n>>
  BY DEF Life

LEMMA FiniteReplicas ==
  /\ IsFiniteSet(Replicas) /\ Cardinality(Replicas) \in Nat
  /\ IsFiniteSet(Down) /\ Cardinality(Down) \in Nat
<1>1. IsFiniteSet(Replicas)
  BY ProcessAssumption
<1>2. IsFiniteSet(Down)
  BY <1>1, FS_Subset DEF Down
<1>. QED  BY <1>1, <1>2, FS_CardinalityType

LEMMA LivesInit == Init => LivesBound
<1>. SUFFICES ASSUME Init PROVE LivesBound
  OBVIOUS
<1>1. \A x : x \notin Life
  BY LifeElements DEF Init
<1>2. Life = {} /\ Down = Replicas /\ stops = 0
  BY <1>1 DEF Init, Down
<1>. QED  BY <1>2, FiniteReplicas, FS_EmptySet DEF LivesBound

LEMMA LivesNext == TypeOK /\ LivesBound /\ [Next]_vars => LivesBound'
<1>. SUFFICES ASSUME TypeOK, LivesBound, [Next]_vars PROVE LivesBound'
  OBVIOUS
<1>. USE DEF redis, process, limiter, time, trouble, consumed
<1>1. CASE UNCHANGED process
  BY <1>1 DEF LivesBound, Life, Down
<1>2. ASSUME NEW r \in Replicas, Start(r) PROVE LivesBound'
  <2>1. /\ stage[r] = "down" /\ UNCHANGED stops
        /\ stage' = [stage EXCEPT ![r] = "serving"] /\ lives' = [lives EXCEPT ![r] = @ + 1]
    BY <1>2 DEF Start
  <2>. DEFINE x == <<r, lives[r] + 1>>
  <2>2. Down' = Down \ {r} /\ r \in Down
    BY <2>1 DEF Down, TypeOK
  <2>3. Life' = Life \cup {x} /\ x \notin Life
    <3>1. /\ lives'[r] = lives[r] + 1 /\ lives[r] \in Nat
          /\ \A q \in Replicas \ {r} : lives'[q] = lives[q]
      BY <2>1 DEF TypeOK
    <3>2. ASSUME NEW y PROVE y \in Life' <=> y \in Life \/ y = x
      <4>1. y \in Life' <=> \E q \in Replicas : \E n \in 1..lives'[q] : y = <<q, n>>
        BY DEF Life
      <4>2. \A q \in Replicas : \A n : n \in 1..lives'[q] <=>
              n \in 1..lives[q] \/ (q = r /\ n = lives[r] + 1)
        BY <3>1 DEF TypeOK
      <4>. QED  BY <4>1, <4>2, LifeElements
    <3>3. x \notin Life
      BY <3>1, LifeElements
    <3>. QED  BY <3>2, <3>3
  <2>4. /\ IsFiniteSet(Life') /\ Cardinality(Life') = Cardinality(Life) + 1
        /\ Cardinality(Life) \in Nat
    BY <2>3, FS_AddElement, FS_CardinalityType DEF LivesBound
  <2>5. Cardinality(Down') = Cardinality(Down) - 1
    BY <2>2, FiniteReplicas, FS_RemoveElement
  <2>6. stops \in Nat
    BY DEF TypeOK
  <2>. QED  BY <2>1, <2>4, <2>5, <2>6, FiniteReplicas DEF LivesBound
<1>3. ASSUME NEW r \in Replicas, Stop(r) \/ StopReading(r) PROVE LivesBound'
  <2>1. /\ stops' = stops + 1 /\ stops \in Nat /\ UNCHANGED lives
        /\ stage' = [stage EXCEPT ![r] = "down"]
    BY <1>3 DEF Stop, StopReading, TypeOK
  <2>2. Down' = Down \cup {r} /\ Life' = Life
    BY <2>1 DEF Down, Life, TypeOK
  <2>3. Cardinality(Down') <= Cardinality(Down) + 1 /\ Cardinality(Down') \in Nat
    <3>1. CASE r \in Down
      <4>1. Down' = Down
        BY <2>2, <3>1
      <4>. QED  BY <4>1, FiniteReplicas
    <3>2. CASE r \notin Down
      <4>1. PICK D : D = Down
        OBVIOUS
      <4>2. IsFiniteSet(D) /\ Cardinality(D) \in Nat /\ r \notin D
        BY <3>2, <4>1, FiniteReplicas
      <4>3. Cardinality(D \cup {r}) = Cardinality(D) + 1
        BY <4>2, FS_AddElement
      <4>4. Down' = D \cup {r}
        BY <2>2, <4>1
      <4>. QED  BY <4>1, <4>2, <4>3, <4>4
    <3>. QED  BY <3>1, <3>2
  <2>4. Cardinality(Life) \in Nat
    BY FS_CardinalityType DEF LivesBound
  <2>. QED  BY <2>1, <2>2, <2>3, <2>4, FiniteReplicas DEF LivesBound
<1>4. ASSUME NEW r \in Replicas, CreateGroup(r) \/ CreateGroupRaises(r) PROVE LivesBound'
  BY <1>4 DEF CreateGroup, CreateGroupRaises, LivesBound, Life, Down
<1>5. ASSUME NEW r \in Replicas, ReadGroup(r) \/ Autoclaim(r) \/ Request(r) PROVE LivesBound'
  BY <1>1, <1>5 DEF ReadGroup, Autoclaim, Request
<1>6. CASE Publish \/ Outage \/ OutageWithLoss \/ Recover \/ Tick \/ SetBack
  BY <1>1, <1>6 DEF Publish, Outage, OutageWithLoss, Recover, Tick, SetBack
<1>7. CASE UNCHANGED vars
  BY <1>1, <1>7 DEF vars
<1>. QED  BY <1>2, <1>3, <1>4, <1>5, <1>6, <1>7 DEF Next

LEMMA LivedInit == Init => Lived
<1>. SUFFICES ASSUME Init, NEW r \in Replicas, NEW k \in Clients
              PROVE  DOMAIN recorded[r][k] = {} /\ stage[r] = "down"
  BY DEF Lived, Init
<1>. QED  BY DEF Init

LEMMA LivedNext == TypeOK /\ Lived /\ [Next]_vars => Lived'
<1>. SUFFICES ASSUME TypeOK, Lived, [Next]_vars PROVE Lived'
  OBVIOUS
<1>. USE DEF redis, process, limiter, time, trouble, consumed
<1>1. CASE UNCHANGED <<stage, lives, recorded>>
  BY <1>1 DEF Lived
<1>2. ASSUME NEW r \in Replicas, Start(r) PROVE Lived'
  <2>1. UNCHANGED recorded /\ lives' = [lives EXCEPT ![r] = @ + 1]
          /\ stage' = [stage EXCEPT ![r] = "serving"]
    BY <1>2 DEF Start
  <2>2. \A q \in Replicas : /\ lives[q] \in Nat /\ lives'[q] \in Nat /\ lives[q] <= lives'[q]
                            /\ q = r => lives'[q] >= 1
                            /\ q # r => stage'[q] = stage[q]
    BY <2>1 DEF TypeOK
  <2>3. ASSUME NEW q \in Replicas PROVE stage'[q] = "serving" => lives'[q] >= 1
    BY <2>2 DEF Lived
  <2>4. ASSUME NEW q \in Replicas, NEW k \in Clients
        PROVE  \A i \in DOMAIN recorded[q][k] : recorded[q][k][i].life \in 1..lives'[q]
    BY <2>2 DEF Lived
  <2>. QED  BY <2>1, <2>3, <2>4 DEF Lived
<1>3. ASSUME NEW r \in Replicas, Stop(r) \/ StopReading(r) PROVE Lived'
  <2>1. UNCHANGED <<recorded, lives>> /\ stage' = [stage EXCEPT ![r] = "down"]
    BY <1>3 DEF Stop, StopReading
  <2>2. \A q \in Replicas : stage'[q] = "serving" => stage[q] = "serving"
    BY <2>1 DEF TypeOK
  <2>. QED  BY <2>1, <2>2 DEF Lived
<1>4. ASSUME NEW r \in Replicas, Request(r) PROVE Lived'
  <2>1. /\ UNCHANGED <<stage, lives>> /\ stage[r] = "serving"
        /\ \/ UNCHANGED recorded
           \/ \E k \in Clients, token \in Token : Record(r, k, token)
    <3>1. PICK k \in Clients, token \in Token, reachable \in BOOLEAN : Guard(r, k, token, reachable)
      BY <1>4 DEF Request
    <3>2. UNCHANGED recorded \/ Record(r, k, token)
      BY <3>1, GuardSteps, AllowSteps
    <3>. QED  BY <1>4, <3>2 DEF Request
  <2>2. ASSUME NEW k \in Clients, NEW token \in Token, Record(r, k, token) PROVE Lived'
    <3>. DEFINE x == [at |-> clock, life |-> lives[r], token |-> token]
                s == recorded[r][k]
    <3>1. recorded' = [recorded EXCEPT ![r][k] = Append(s, x)]
      BY <2>2 DEF Record
    <3>2. /\ s \in Seq(Stamp) /\ x \in Stamp /\ x.life = lives[r]
          /\ lives[r] \in Nat /\ lives[r] >= 1
      BY <2>1 DEF TypeOK, Stamp, Lived
    <3>3. /\ Len(s) \in Nat /\ DOMAIN s = 1..Len(s) /\ Append(s, x)[Len(s) + 1] = x
          /\ DOMAIN Append(s, x) = 1..(Len(s) + 1)
          /\ \A i \in 1..Len(s) : Append(s, x)[i] = s[i]
      BY <3>2
    <3>4. /\ \A i \in DOMAIN s : s[i].life \in 1..lives[r]
          /\ \A i, j \in DOMAIN s : i <= j => s[i].life <= s[j].life
      BY DEF Lived
    <3>5. recorded'[r][k] = Append(s, x)
      BY <3>1 DEF TypeOK
    <3>6. \A q \in Replicas, c \in Clients : q # r \/ c # k => recorded'[q][c] = recorded[q][c]
      BY <3>1 DEF TypeOK
    <3>. HIDE DEF x, s
    <3>. DEFINE t == Append(s, x)
    <3>7. \A i \in 1..(Len(s) + 1) : i \in 1..Len(s) \/ i = Len(s) + 1
      BY <3>3
    <3>. HIDE DEF t
    <3>8. \A i \in DOMAIN t : t[i].life \in 1..lives[r]
      <4>1. x.life \in 1..lives[r]
        BY <3>2
      <4>. QED  BY <3>3, <3>4, <3>7, <4>1 DEF t
    <3>9. ASSUME NEW i \in DOMAIN t, NEW j \in DOMAIN t, i <= j PROVE t[i].life <= t[j].life
      <4>1. CASE j = Len(s) + 1
        <5>1. t[j].life = lives[r]
          BY <3>2, <3>3, <4>1 DEF t
        <5>. QED  BY <3>2, <3>8, <5>1
      <4>2. CASE j \in DOMAIN s
        <5>1. i \in DOMAIN s
          BY <3>3, <3>9, <4>2 DEF t
        <5>. QED  BY <3>3, <3>4, <3>9, <4>2, <5>1 DEF t
      <4>. QED  BY <3>3, <3>7, <4>1, <4>2 DEF t
    <3>. SUFFICES ASSUME NEW q \in Replicas, NEW c \in Clients
                  PROVE  /\ \A i \in DOMAIN recorded'[q][c] : recorded'[q][c][i].life \in 1..lives[q]
                         /\ \A i, j \in DOMAIN recorded'[q][c] :
                              i <= j => recorded'[q][c][i].life <= recorded'[q][c][j].life
      BY <2>1 DEF Lived
    <3>10. CASE q = r /\ c = k
      <4>1. recorded'[q][c] = t
        BY <3>5, <3>10 DEF t
      <4>. QED  BY <3>8, <3>9, <3>10, <4>1
    <3>11. CASE q # r \/ c # k
      BY <3>6, <3>11 DEF Lived
    <3>. QED  BY <3>10, <3>11
  <2>. QED  BY <1>1, <2>1, <2>2
<1>5. ASSUME NEW r \in Replicas,
             CreateGroup(r) \/ CreateGroupRaises(r) \/ ReadGroup(r) \/ Autoclaim(r)
      PROVE  Lived'
  BY <1>1, <1>5 DEF CreateGroup, CreateGroupRaises, ReadGroup, Autoclaim
<1>6. CASE Publish \/ Outage \/ OutageWithLoss \/ Recover \/ Tick \/ SetBack
  BY <1>1, <1>6 DEF Publish, Outage, OutageWithLoss, Recover, Tick, SetBack
<1>7. CASE UNCHANGED vars
  BY <1>1, <1>7 DEF vars
<1>. QED  BY <1>2, <1>3, <1>4, <1>5, <1>6, <1>7 DEF Next

LEMMA HasLeast ==
  ASSUME NEW T, T \subseteq Nat, T # {}
  PROVE  \E n \in T : \A m \in T : n <= m
<1>1. PICK n \in T : \A m \in T : ~ (<<m, n>> \in OpToRel(<, Nat))
  BY NatLessThanWellFounded, WFMin
<1>2. \A m \in T : ~ (m < n)
  BY <1>1 DEF OpToRel
<1>. QED  BY <1>2

\* Within one window, the stamps of one life lie at less than Limit places
\* from the first of them.
LEMMA FewPerLife ==
  ASSUME NEW s \in Seq(Stamp), NEW now, Ordered(s, now), Spread(s), NEW n,
         \A i, j \in DOMAIN s : i <= j => s[i].life <= s[j].life,
         NEW low \in Int, NEW i \in DOMAIN s, NEW j \in DOMAIN s, i <= j,
         s[i].life = n, s[j].life = n, s[i].at >= low, s[j].at <= low + Window
  PROVE  j - i \in 0..(Limit - 1)
<1>1. /\ Len(s) \in Nat /\ DOMAIN s = 1..Len(s)
      /\ \A m \in DOMAIN s : s[m].at \in Nat /\ s[m].life \in Nat
  BY Stamps
<1>2. Limit \in Nat \ {0} /\ Window \in Nat
  BY LimitPositive
<1>3. ASSUME j - i >= Limit PROVE FALSE
  <2>1. i + Limit \in DOMAIN s /\ i <= i + Limit /\ i + Limit <= j
    BY <1>1, <1>2, <1>3
  <2>2. s[i + Limit].life = s[i].life
    <3>1. s[i].life <= s[i + Limit].life /\ s[i + Limit].life <= s[j].life
      BY <2>1
    <3>. QED  BY <1>1, <2>1, <3>1
  <2>3. s[i + Limit].at - s[i].at > Window
    BY <2>1, <2>2 DEF Spread
  <2>4. s[i + Limit].at <= s[j].at
    BY <2>1 DEF Ordered
  <2>. QED  BY <1>1, <1>2, <2>1, <2>3, <2>4
<1>. QED  BY <1>1, <1>2, <1>3

LEMMA TimesGrows ==
  ASSUME NEW a \in Nat, NEW b \in Nat, NEW c \in Nat, a <= b
  PROVE  a * c <= c * b
  OBVIOUS

LEMMA FleetStep == TypeOK /\ Deques /\ Lived /\ LivesBound => FleetBound
<1>. SUFFICES ASSUME TypeOK, Deques, Lived, LivesBound, ~ setBack,
                     NEW k \in Clients, NEW t \in 0..clock
              PROVE  LET Recent(r) == {i \in DOMAIN recorded[r][k] :
                                         recorded[r][k][i].at \in (t - Window)..t}
                         all == UNION {{<<r, i>> : i \in Recent(r)} : r \in Replicas}
                     IN Cardinality(all) <= Limit * (Cardinality(Replicas) + stops)
  BY DEF FleetBound
<1>. DEFINE Recent(r) == {i \in DOMAIN recorded[r][k] : recorded[r][k][i].at \in (t - Window)..t}
            all == UNION {{<<r, i>> : i \in Recent(r)} : r \in Replicas}
            LifeOf(x) == recorded[x[1]][k][x[2]].life
            Places(r, n) == {i \in Recent(r) : recorded[r][k][i].life = n}
            Leads(r, n, i) == i \in Places(r, n) /\ \A j \in Places(r, n) : i <= j
            First(r, n) == CHOOSE i : Leads(r, n, i)
            Offset(x) == x[2] - First(x[1], LifeOf(x))
            cells == Life \X (0..(Limit - 1))
            f == [x \in all |-> <<<<x[1], LifeOf(x)>>, Offset(x)>>]
<1>1. t \in Nat /\ Limit \in Nat \ {0} /\ Window \in Nat \ {0}
  BY LimitPositive DEF TypeOK
<1>2. ASSUME NEW r \in Replicas
      PROVE  /\ recorded[r][k] \in Seq(Stamp) /\ DOMAIN recorded[r][k] \subseteq Nat
             /\ Ordered(recorded[r][k], clock) /\ Spread(recorded[r][k])
             /\ \A i, j \in DOMAIN recorded[r][k] :
                  i <= j => recorded[r][k][i].life <= recorded[r][k][j].life
             /\ \A i \in DOMAIN recorded[r][k] :
                  recorded[r][k][i].life \in 1..lives[r] /\ recorded[r][k][i].at \in Nat
  <2>1. recorded[r][k] \in Seq(Stamp)
    BY DequeTypes
  <2>2. Ordered(recorded[r][k], clock) /\ Spread(recorded[r][k])
    BY DEF Deques, Deque, Timely
  <2>3. /\ \A i, j \in DOMAIN recorded[r][k] :
             i <= j => recorded[r][k][i].life <= recorded[r][k][j].life
        /\ \A i \in DOMAIN recorded[r][k] : recorded[r][k][i].life \in 1..lives[r]
    BY DEF Lived
  <2>. QED  BY <2>1, <2>2, <2>3, Stamps
<1>3. ASSUME NEW x \in all
      PROVE  /\ x[1] \in Replicas /\ x[2] \in Recent(x[1]) /\ x = <<x[1], x[2]>>
             /\ x[2] \in DOMAIN recorded[x[1]][k]
             /\ LifeOf(x) \in 1..lives[x[1]] /\ x[2] \in Places(x[1], LifeOf(x))
  <2>1. PICK r \in Replicas : \E i \in Recent(r) : x = <<r, i>>
    OBVIOUS
  <2>2. PICK i \in Recent(r) : x = <<r, i>>
    BY <2>1
  <2>. QED  BY <1>2, <2>2
<1>4. ASSUME NEW r \in Replicas, NEW n, NEW i \in Places(r, n), NEW j \in Places(r, n), i <= j
      PROVE  j - i \in 0..(Limit - 1)
  <2>. DEFINE s == recorded[r][k]  low == t - Window
  <2>1. /\ low \in Int /\ i \in DOMAIN s /\ j \in DOMAIN s /\ s[i].life = n /\ s[j].life = n
        /\ s[i].at >= low /\ s[j].at <= low + Window
    BY <1>1, <1>2
  <2>2. /\ s \in Seq(Stamp) /\ Ordered(s, clock) /\ Spread(s)
        /\ \A a, b \in DOMAIN s : a <= b => s[a].life <= s[b].life
    BY <1>2
  <2>. HIDE DEF s, low
  <2>. QED  BY <1>4, <2>1, <2>2, FewPerLife
<1>5. ASSUME NEW x \in all
      PROVE  Leads(x[1], LifeOf(x), First(x[1], LifeOf(x)))
  <2>. DEFINE T == Places(x[1], LifeOf(x))
  <2>1. T \subseteq Nat /\ T # {}
    BY <1>2, <1>3
  <2>. HIDE DEF T
  <2>2. \E i \in T : \A j \in T : i <= j
    BY <2>1, HasLeast
  <2>3. \E i : Leads(x[1], LifeOf(x), i)
    BY <2>2 DEF T
  <2>. QED  BY <2>3
<1>6. ASSUME NEW x \in all
      PROVE  /\ Offset(x) \in 0..(Limit - 1)
             /\ First(x[1], LifeOf(x)) \in Nat /\ x[2] \in Nat
             /\ <<x[1], LifeOf(x)>> \in Life
  <2>. DEFINE a == First(x[1], LifeOf(x))
  <2>1. a \in Places(x[1], LifeOf(x)) /\ \A j \in Places(x[1], LifeOf(x)) : a <= j
    BY <1>5
  <2>. HIDE DEF a
  <2>2. a <= x[2] /\ a \in Nat /\ x[2] \in Nat
    BY <1>2, <1>3, <2>1
  <2>3. x[2] - a \in 0..(Limit - 1)
    BY <1>3, <1>4, <2>1, <2>2
  <2>4. <<x[1], LifeOf(x)>> \in Life
    BY <1>3, LifeElements
  <2>. QED  BY <2>2, <2>3, <2>4 DEF a
<1>. HIDE DEF Places, Leads, First, LifeOf, all
<1>7. f \in Injection(all, cells)
  <2>1. f \in [all -> cells]
    BY <1>6
  <2>2. ASSUME NEW x \in all, NEW y \in all, f[x] = f[y] PROVE x = y
    <3>1. x[1] = y[1] /\ LifeOf(x) = LifeOf(y) /\ Offset(x) = Offset(y)
      <4>. HIDE DEF Offset
      <4>. QED  BY <2>2
    <3>2. First(x[1], LifeOf(x)) = First(y[1], LifeOf(y))
      BY <3>1
    <3>3. PICK p, q, m, n : p = x[2] /\ q = y[2] /\ m = First(x[1], LifeOf(x)) /\ n = First(y[1], LifeOf(y))
      OBVIOUS
    <3>4. p \in Nat /\ q \in Nat /\ m \in Nat /\ n \in Nat
      BY <1>6, <3>3
    <3>5. p - m = q - n /\ m = n
      BY <3>1, <3>2, <3>3
    <3>6. x[2] = y[2]
      BY <3>3, <3>4, <3>5
    <3>. QED  BY <1>3, <3>1, <3>6
  <2>. QED  BY <2>1, <2>2 DEF Injection, IsInjective
<1>. HIDE DEF f
<1>8. /\ IsFiniteSet(Life) /\ Cardinality(Life) \in Nat
      /\ IsFiniteSet(0..(Limit - 1)) /\ Cardinality(0..(Limit - 1)) = Limit
  <2>1. IsFiniteSet(Life) /\ Cardinality(Life) \in Nat
    BY FS_CardinalityType DEF LivesBound
  <2>2. Limit - 1 \in Int /\ ~ 0 > Limit - 1 /\ (Limit - 1) - 0 + 1 = Limit
    BY <1>1
  <2>3. IsFiniteSet(0..(Limit - 1)) /\ Cardinality(0..(Limit - 1)) = (Limit - 1) - 0 + 1
    BY <2>2, FS_Interval
  <2>. QED  BY <2>1, <2>2, <2>3
<1>9. IsFiniteSet(cells) /\ Cardinality(cells) = Cardinality(Life) * Limit
  BY <1>8, FS_Product
<1>. HIDE DEF cells
<1>10. Cardinality(all) <= Cardinality(cells) /\ Cardinality(all) \in Nat
  BY <1>7, <1>9, FS_Injection, FS_CardinalityType
<1>11. /\ Cardinality(Life) <= Cardinality(Replicas) + stops
       /\ Cardinality(Replicas) + stops \in Nat
  BY <1>8, FiniteReplicas DEF LivesBound, TypeOK
<1>12. Cardinality(Life) * Limit <= Limit * (Cardinality(Replicas) + stops)
  BY <1>1, <1>8, <1>11, TimesGrows
<1>13. Cardinality(all) <= Limit * (Cardinality(Replicas) + stops)
  <2>1. PICK a, b, c : /\ a = Cardinality(all) /\ b = Cardinality(Life) * Limit
                       /\ c = Limit * (Cardinality(Replicas) + stops)
    OBVIOUS
  <2>2. a \in Nat /\ b \in Nat /\ c \in Nat /\ a <= b /\ b <= c
    BY <1>1, <1>8, <1>9, <1>10, <1>11, <1>12, <2>1
  <2>. QED  BY <2>1, <2>2
<1>. QED  BY <1>13 DEF all

\* What a client gets through all processes within one window grows with the
\* replicas and with every restart, and with nothing else.
THEOREM FleetIsBounded == Spec => []FleetBound
BY TypeCorrect, DequesInit, DequesNext, LivedInit, LivedNext, LivesInit, LivesNext, FleetStep,
   PTL DEF Spec
=============================================================================
