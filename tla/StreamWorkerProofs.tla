------------------------- MODULE StreamWorkerProofs -------------------------
(***************************************************************************)
(* Proofs about StreamWorker, for any roots, replicas, retry limit, batch  *)
(* size and number of faults.                                              *)
(***************************************************************************)
EXTENDS StreamWorker, TLAPS

\* Past the duplicate check a replica holds an entry of the stream.
Busy(c) == pc[c] \in {"handle", "fail", "mark", "ack"}

LEMMA CurrentInEvent ==
  ASSUME TypeOK, NEW c \in Consumers, Busy(c)
  PROVE  /\ cur[c] \in DOMAIN stream
         /\ cur[c] \in 1..delivered
         /\ Current(c) \in Event
<1>1. cur[c] \in 1..delivered /\ delivered \in 0..Len(stream)
  BY DEF TypeOK, Busy
<1>2. cur[c] \in 1..Len(stream)
  BY <1>1
<1>3. stream \in Seq(Event)
  BY DEF TypeOK
<1> QED BY <1>1, <1>2, <1>3 DEF Current

\* XADD keeps every entry at its place.
LEMMA AppendKeeps ==
  ASSUME NEW S, NEW s \in Seq(S), NEW x \in S
  PROVE  /\ Append(s, x) \in Seq(S)
         /\ Len(Append(s, x)) = Len(s) + 1
         /\ DOMAIN Append(s, x) = DOMAIN s \cup {Len(s) + 1}
         /\ \A m \in DOMAIN s : Append(s, x)[m] = s[m]
         /\ Append(s, x)[Len(s) + 1] = x
OBVIOUS

LEMMA RetryInEvent ==
  ASSUME NEW e \in Event, e.attempt < MaxRetryAttempts
  PROVE  Retry(e) \in Event
BY WorkerAssumption DEF Event, Retry

LEMMA FirstInEvent ==
  ASSUME NEW r \in Roots
  PROVE  First(r) \in Event
BY WorkerAssumption DEF Event, First

\* Every step keeps the state inside its type.
LEMMA TypePreserved == TypeOK /\ [Next]_vars => TypeOK'
<1> SUFFICES ASSUME TypeOK, [Next]_vars PROVE TypeOK'
  OBVIOUS
<1> USE WorkerAssumption
<1>1. ASSUME NEW r \in Roots, Publish(r) PROVE TypeOK'
  <2>1. stream' \in Seq(Event) /\ Len(stream') = Len(stream) + 1
    BY <1>1, FirstInEvent, AppendKeeps DEF TypeOK, Publish
  <2>2. delivered \in 0..Len(stream')
    BY <2>1 DEF TypeOK
  <2>3. /\ UNCHANGED <<delivered, pel, idle, dlq, dedup>>
        /\ UNCHANGED <<local, history>>
    BY <1>1 DEF Publish
  <2> QED BY <2>1, <2>2, <2>3 DEF TypeOK, local, history
<1>2. ASSUME NEW m \in pel, BecomeIdle(m) PROVE TypeOK'
  BY <1>2 DEF TypeOK, BecomeIdle, local, history
<1>3. ASSUME NEW c \in Consumers, Autoclaim(c) PROVE TypeOK'
  <2>1. PICK S \in SUBSET idle, p \in pel \cup {0} :
           /\ idle' = idle \ S
           /\ batch' = [batch EXCEPT ![c] = S]
           /\ cursor' = [cursor EXCEPT ![c] = p]
           /\ pc' = [pc EXCEPT ![c] = IF S = {} THEN "read" ELSE "next"]
    BY <1>3 DEF Autoclaim
  <2>2. S \in SUBSET (1..delivered) /\ p \in 0..delivered
    BY DEF TypeOK
  <2>3. /\ batch' \in [Consumers -> SUBSET (1..delivered)]
        /\ cursor' \in [Consumers -> 0..delivered]
        /\ pc' \in [Consumers -> Location]
    BY <2>1, <2>2 DEF TypeOK, Location
  <2>4. \A d \in Consumers :
          pc'[d] \in {"handle", "fail", "mark", "ack"} => cur[d] # 0
    BY <2>1 DEF TypeOK
  <2>5. /\ UNCHANGED <<stream, delivered, pel, dlq, dedup, cur, result>>
        /\ UNCHANGED <<completed, raised, faults>>
    BY <1>3 DEF Autoclaim, history
  <2> QED BY <2>1, <2>3, <2>4, <2>5 DEF TypeOK
<1>4. ASSUME NEW c \in Consumers, ReadGroup(c) PROVE TypeOK'
  <2>1. PICK last \in delivered..Len(stream) :
           /\ delivered' = last
           /\ pel' = pel \cup (delivered + 1)..last
           /\ batch' = [batch EXCEPT ![c] = (delivered + 1)..last]
           /\ pc' = [pc EXCEPT ![c] = IF last = delivered THEN "poll" ELSE "next"]
    BY <1>4 DEF ReadGroup
  <2>2. delivered \in Nat /\ last \in Nat /\ delivered <= last /\ Len(stream) \in Nat
    BY DEF TypeOK
  <2>3. /\ (delivered + 1)..last \subseteq 1..last
        /\ 1..delivered \subseteq 1..last
        /\ 0..delivered \subseteq 0..last
        /\ last \in 0..Len(stream)
    BY <2>2
  <2>4. pel' \subseteq 1..last /\ batch' \in [Consumers -> SUBSET (1..last)]
    BY <2>1, <2>3 DEF TypeOK
  <2>5. cur \in [Consumers -> 0..last] /\ cursor \in [Consumers -> 0..last]
    BY <2>3 DEF TypeOK
  <2>6. idle \subseteq pel'
    BY <2>1 DEF TypeOK
  <2>7. /\ pc' \in [Consumers -> Location]
        /\ \A d \in Consumers :
             pc'[d] \in {"handle", "fail", "mark", "ack"} => cur[d] # 0
    BY <2>1 DEF TypeOK, Location
  <2>8. UNCHANGED <<stream, idle, dlq, dedup, cur, result, cursor, history>>
    BY <1>4 DEF ReadGroup
  <2> QED BY <2>1, <2>3, <2>4, <2>5, <2>6, <2>7, <2>8 DEF TypeOK, history
<1>5. ASSUME NEW c \in Consumers, CheckDedup(c) PROVE TypeOK'
  <2>1. PICK m \in batch[c] :
           /\ cur' = [cur EXCEPT ![c] = m]
           /\ pc' = [pc EXCEPT ![c] = IF dedup[stream[m]] = "none"
                                     THEN "handle" ELSE "ack"]
    BY <1>5 DEF CheckDedup
  <2>2. m \in 1..delivered
    BY DEF TypeOK
  <2>3. /\ cur' \in [Consumers -> 0..delivered]
        /\ pc' \in [Consumers -> Location]
    BY <2>1, <2>2 DEF TypeOK, Location
  <2>4. \A d \in Consumers :
          pc'[d] \in {"handle", "fail", "mark", "ack"} => cur'[d] # 0
    BY <2>1, <2>2 DEF TypeOK
  <2>5. UNCHANGED <<redis, dedup, batch, result, cursor, history>>
    BY <1>5 DEF CheckDedup
  <2> QED BY <2>3, <2>4, <2>5 DEF TypeOK, redis, history
<1>6. ASSUME NEW c \in Consumers, HandlerReturns(c) PROVE TypeOK'
  <2>1. Busy(c)
    BY <1>6 DEF HandlerReturns, Busy
  <2>2. Current(c) \in Event /\ cur[c] # 0
    BY <2>1, CurrentInEvent DEF TypeOK, Busy
  <2>3. completed' \in [Event -> Nat]
    BY <1>6, <2>2 DEF TypeOK, HandlerReturns
  <2>4. pc' \in [Consumers -> Location] /\ result' \in [Consumers -> Outcome]
    BY <1>6 DEF TypeOK, HandlerReturns, Location, Outcome
  <2>5. \A d \in Consumers :
          pc'[d] \in {"handle", "fail", "mark", "ack"} => cur'[d] # 0
    BY <1>6, <2>2 DEF TypeOK, HandlerReturns
  <2>6. UNCHANGED <<redis, dedup, batch, cur, cursor, faults, raised>>
    BY <1>6 DEF HandlerReturns
  <2> QED BY <2>3, <2>4, <2>5, <2>6 DEF TypeOK, redis
<1>7. ASSUME NEW c \in Consumers, HandlerRaises(c) PROVE TypeOK'
  <2>1. Busy(c)
    BY <1>7 DEF HandlerRaises, Busy
  <2>2. Current(c) \in Event /\ cur[c] # 0
    BY <2>1, CurrentInEvent DEF TypeOK, Busy
  <2>3. raised' \in [Event -> Nat]
    BY <1>7, <2>2 DEF TypeOK, HandlerRaises
  <2>4. pc' \in [Consumers -> Location] /\ result' \in [Consumers -> Outcome]
    BY <1>7 DEF TypeOK, HandlerRaises, Location, Outcome
  <2>5. \A d \in Consumers :
          pc'[d] \in {"handle", "fail", "mark", "ack"} => cur'[d] # 0
    BY <1>7, <2>2 DEF TypeOK, HandlerRaises
  <2>6. UNCHANGED <<redis, dedup, batch, cur, cursor, faults, completed>>
    BY <1>7 DEF HandlerRaises
  <2> QED BY <2>3, <2>4, <2>5, <2>6 DEF TypeOK, redis
<1>8. ASSUME NEW c \in Consumers, PublishRetry(c) PROVE TypeOK'
  <2>1. Busy(c)
    BY <1>8 DEF PublishRetry, Busy
  <2>2. Current(c) \in Event /\ cur[c] # 0
    BY <2>1, CurrentInEvent DEF TypeOK, Busy
  <2>3. stream' \in Seq(Event) /\ Len(stream') = Len(stream) + 1
    BY <1>8, <2>2, RetryInEvent, AppendKeeps DEF TypeOK, PublishRetry
  <2>4. delivered \in 0..Len(stream')
    BY <2>3 DEF TypeOK
  <2>5. pc' \in [Consumers -> Location] /\ result' \in [Consumers -> Outcome]
    BY <1>8 DEF TypeOK, PublishRetry, Location, Outcome
  <2>6. \A d \in Consumers :
          pc'[d] \in {"handle", "fail", "mark", "ack"} => cur'[d] # 0
    BY <1>8, <2>2 DEF TypeOK, PublishRetry
  <2>7. UNCHANGED <<delivered, pel, idle, dlq, dedup, batch, cur, cursor, history>>
    BY <1>8 DEF PublishRetry
  <2> QED BY <2>3, <2>4, <2>5, <2>6, <2>7 DEF TypeOK, history
<1>9. ASSUME NEW c \in Consumers, PublishDeadLetter(c) PROVE TypeOK'
  <2>1. Busy(c)
    BY <1>9 DEF PublishDeadLetter, Busy
  <2>2. Current(c) \in Event /\ cur[c] # 0
    BY <2>1, CurrentInEvent DEF TypeOK, Busy
  <2>3. dlq' \in Seq(Event)
    BY <1>9, <2>2, AppendKeeps DEF TypeOK, PublishDeadLetter
  <2> QED BY <1>9, <2>2, <2>3 DEF TypeOK, PublishDeadLetter, history, Location, Outcome
<1>10. ASSUME NEW c \in Consumers, MarkProcessed(c) PROVE TypeOK'
  <2>1. Busy(c)
    BY <1>10 DEF MarkProcessed, Busy
  <2>2. Current(c) \in Event /\ cur[c] # 0
    BY <2>1, CurrentInEvent DEF TypeOK, Busy
  <2> QED BY <1>10, <2>2 DEF TypeOK, MarkProcessed, redis, history, Location
<1>11. ASSUME NEW c \in Consumers, Ack(c) PROVE TypeOK'
  <2>1. /\ pel' \subseteq pel
        /\ idle' \subseteq pel'
    BY <1>11 DEF TypeOK, Ack
  <2>2. batch' \in [Consumers -> SUBSET (1..delivered)] /\ pc' \in [Consumers -> Location]
    BY <1>11 DEF TypeOK, Ack, Location
  <2>3. \A d \in Consumers :
          pc'[d] \in {"handle", "fail", "mark", "ack"} => cur[d] # 0
    BY <1>11 DEF TypeOK, Ack
  <2>4. UNCHANGED <<stream, delivered, dlq, dedup, cur, result, cursor, history>>
    BY <1>11 DEF Ack
  <2> QED BY <2>1, <2>2, <2>3, <2>4 DEF TypeOK, history
<1>12. ASSUME NEW c \in Consumers, LoopError(c) PROVE TypeOK'
  <2>1. /\ batch' \in [Consumers -> SUBSET (1..delivered)]
        /\ cursor' \in [Consumers -> 0..delivered]
        /\ pc' \in [Consumers -> Location]
    BY <1>12 DEF TypeOK, LoopError, Location
  <2>2. \A d \in Consumers :
          pc'[d] \in {"handle", "fail", "mark", "ack"} => cur[d] # 0
    BY <1>12 DEF TypeOK, LoopError
  <2>3. faults' \in 0..MaxFaults
    BY <1>12 DEF TypeOK, LoopError
  <2>4. /\ UNCHANGED <<stream, delivered, pel, idle, dlq, dedup>>
        /\ UNCHANGED <<cur, result, completed, raised>>
    BY <1>12 DEF LoopError, redis
  <2> QED BY <2>1, <2>2, <2>3, <2>4 DEF TypeOK
<1>13. ASSUME NEW c \in Consumers, Crash(c) PROVE TypeOK'
  <2>1. /\ batch' \in [Consumers -> SUBSET (1..delivered)]
        /\ cursor' \in [Consumers -> 0..delivered]
        /\ pc' \in [Consumers -> Location]
    BY <1>13 DEF TypeOK, Crash, Location
  <2>2. \A d \in Consumers :
          pc'[d] \in {"handle", "fail", "mark", "ack"} => cur[d] # 0
    BY <1>13 DEF TypeOK, Crash
  <2>3. faults' \in 0..MaxFaults
    BY <1>13 DEF TypeOK, Crash
  <2>4. /\ UNCHANGED <<stream, delivered, pel, idle, dlq, dedup>>
        /\ UNCHANGED <<cur, result, completed, raised>>
    BY <1>13 DEF Crash, redis
  <2> QED BY <2>1, <2>2, <2>3, <2>4 DEF TypeOK
<1>15. ASSUME NEW c \in Consumers, ClaimLost(c) PROVE TypeOK'
  <2>1. idle' \subseteq idle
    BY <1>15 DEF ClaimLost
  <2>2. faults' \in 0..MaxFaults
    BY <1>15 DEF TypeOK, ClaimLost
  <2>3. /\ UNCHANGED <<stream, delivered, pel, dlq, dedup>>
        /\ UNCHANGED <<pc, batch, cur, result, cursor>>
        /\ UNCHANGED <<completed, raised>>
    BY <1>15 DEF ClaimLost, local
  <2> QED BY <2>1, <2>2, <2>3 DEF TypeOK
<1>14. CASE UNCHANGED vars
  BY <1>14 DEF TypeOK, vars, redis, local, history
<1> QED
  BY <1>1, <1>2, <1>3, <1>4, <1>5, <1>6, <1>7, <1>8, <1>9, <1>10, <1>11,
     <1>12, <1>13, <1>15, <1>14 DEF Next, Step

\* Type correctness: the loop never leaves its state space.
THEOREM TypeCorrect == Spec => []TypeOK
<1>1. Init => TypeOK
  BY WorkerAssumption DEF Init, TypeOK, Outcome, Location
<1> QED BY <1>1, TypePreserved, PTL DEF Spec

-----------------------------------------------------------------------------
(***************************************************************************)
(* What no step takes back: entries of the two streams, the fact that a    *)
(* handler ran, and a recorded outcome.                                    *)
(***************************************************************************)
Extends(t, s) == DOMAIN s \subseteq DOMAIN t /\ \A m \in DOMAIN s : t[m] = s[m]

Grows ==
  /\ Extends(stream', stream)
  /\ Extends(dlq', dlq)
  /\ \A e \in Event : completed'[e] >= completed[e] /\ raised'[e] >= raised[e]
  /\ \A e \in Event : dedup[e] # "none" => dedup'[e] = dedup[e]

LEMMA StepGrows == TypeOK /\ [Next]_vars => Grows
<1> SUFFICES ASSUME TypeOK, [Next]_vars PROVE Grows
  OBVIOUS
<1>1. stream \in Seq(Event) /\ dlq \in Seq(Event)
  BY DEF TypeOK
<1>2. Extends(stream, stream) /\ Extends(dlq, dlq)
  BY DEF Extends
<1>3. \A x \in Event : Extends(Append(stream, x), stream) /\ Extends(Append(dlq, x), dlq)
  BY <1>1, AppendKeeps DEF Extends
<1>4. /\ \A e \in Event : completed[e] >= completed[e] /\ raised[e] >= raised[e]
      /\ \A e \in Event : dedup[e] # "none" => dedup[e] = dedup[e]
  BY DEF TypeOK
<1>5. ASSUME NEW r \in Roots, Publish(r) PROVE Grows
  BY <1>2, <1>3, <1>4, <1>5, FirstInEvent DEF Publish, Grows, history
<1>6. ASSUME NEW c \in Consumers, HandlerReturns(c) PROVE Grows
  <2>1. Current(c) \in Event
    BY <1>6, CurrentInEvent DEF HandlerReturns, Busy
  <2>2. \A e \in Event : completed'[e] >= completed[e]
    BY <1>6, <2>1 DEF HandlerReturns, TypeOK
  <2>3. UNCHANGED <<stream, dlq, dedup, raised>>
    BY <1>6 DEF HandlerReturns, redis
  <2> QED BY <1>2, <1>4, <2>2, <2>3 DEF Grows
<1>7. ASSUME NEW c \in Consumers, HandlerRaises(c) PROVE Grows
  <2>1. Current(c) \in Event
    BY <1>7, CurrentInEvent DEF HandlerRaises, Busy
  <2>2. \A e \in Event : raised'[e] >= raised[e]
    BY <1>7, <2>1 DEF HandlerRaises, TypeOK
  <2>3. UNCHANGED <<stream, dlq, dedup, completed>>
    BY <1>7 DEF HandlerRaises, redis
  <2> QED BY <1>2, <1>4, <2>2, <2>3 DEF Grows
<1>8. ASSUME NEW c \in Consumers, PublishRetry(c) PROVE Grows
  <2>1. Retry(Current(c)) \in Event
    BY <1>8, CurrentInEvent, RetryInEvent DEF PublishRetry, Busy
  <2> QED BY <1>2, <1>3, <1>4, <1>8, <2>1 DEF PublishRetry, Grows, history
<1>9. ASSUME NEW c \in Consumers, PublishDeadLetter(c) PROVE Grows
  <2>1. Current(c) \in Event
    BY <1>9, CurrentInEvent DEF PublishDeadLetter, Busy
  <2> QED BY <1>2, <1>3, <1>4, <1>9, <2>1 DEF PublishDeadLetter, Grows, history
<1>10. ASSUME NEW c \in Consumers, MarkProcessed(c) PROVE Grows
  <2>1. \A e \in Event : dedup[e] # "none" => dedup'[e] = dedup[e]
    BY <1>10 DEF MarkProcessed, TypeOK
  <2>2. UNCHANGED <<stream, dlq, completed, raised>>
    BY <1>10 DEF MarkProcessed, redis, history
  <2> QED BY <1>2, <1>4, <2>1, <2>2 DEF Grows
<1>11. ASSUME UNCHANGED <<stream, dlq, dedup, completed, raised>> PROVE Grows
  BY <1>2, <1>4, <1>11 DEF Grows
<1>12. ASSUME NEW c \in Consumers,
              \/ Autoclaim(c) \/ ReadGroup(c) \/ CheckDedup(c)
              \/ Ack(c) \/ LoopError(c) \/ ClaimLost(c) \/ Crash(c)
       PROVE  UNCHANGED <<stream, dlq, dedup, completed, raised>>
  BY <1>12 DEF Autoclaim, ReadGroup, CheckDedup, Ack, LoopError, ClaimLost, Crash, redis, local, history
<1>13. ASSUME NEW m \in pel, BecomeIdle(m)
       PROVE  UNCHANGED <<stream, dlq, dedup, completed, raised>>
  BY <1>13 DEF BecomeIdle, history
<1>14. CASE UNCHANGED vars
  BY <1>11, <1>14 DEF vars, redis, history
<1> QED
  BY <1>5, <1>6, <1>7, <1>8, <1>9, <1>10, <1>11, <1>12, <1>13, <1>14 DEF Next, Step

-----------------------------------------------------------------------------
(***************************************************************************)
(* The inductive invariant: every recorded outcome, and every outcome that *)
(* is about to be recorded, is backed by what was published before it.     *)
(***************************************************************************)
Justified(e, res) ==
  \/ res = "success" /\ completed[e] > 0
  \/ res = "retried" /\ raised[e] > 0 /\ e.attempt < MaxRetryAttempts /\ Published(Retry(e))
  \/ res = "failed" /\ DeadLettered(e)

RowsJustified == \A e \in Event : dedup[e] # "none" => Justified(e, dedup[e])

WorkerJustified(c) ==
  /\ pc[c] = "fail" => raised[Current(c)] > 0
  /\ pc[c] = "mark" => Justified(Current(c), result[c])
  /\ pc[c] = "ack"  => dedup[Current(c)] # "none"

WorkersJustified == \A c \in Consumers : WorkerJustified(c)

\* All the attempts of e from the one its root was published with up to, not
\* including, attempt n have failed.
RaisedBefore(e, n) ==
  \A k \in FirstAttempt[e.root]..(n - 1) :
    raised[[root |-> e.root, attempt |-> k]] > 0

\* An entry of the stream was preceded by a failure of each earlier attempt.
AttemptsRaised ==
  \A m \in DOMAIN stream : RaisedBefore(stream[m], stream[m].attempt)

\* The attempts of a root on the stream have no gap ...
NoGap ==
  \A m \in DOMAIN stream :
    /\ stream[m].attempt >= FirstAttempt[stream[m].root]
    /\ stream[m].attempt > FirstAttempt[stream[m].root] =>
         \E k \in DOMAIN stream : stream[m] = Retry(stream[k])

\* ... and one of them is the last.
LastAttempt(m) == ~ Published(Retry(stream[m]))

ChainEnds ==
  \A n \in DOMAIN stream :
    \E m \in DOMAIN stream : stream[m].root = stream[n].root /\ LastAttempt(m)

IInv ==
  /\ TypeOK
  /\ NoLostWork
  /\ RowsJustified
  /\ WorkersJustified
  /\ AttemptsRaised
  /\ AttemptsExhausted
  /\ NoGap
  /\ ChainEnds

\* A justification is never withdrawn.
LEMMA JustifiedStable ==
  ASSUME TypeOK, TypeOK', Grows, NEW e \in Event, NEW res, Justified(e, res)
  PROVE  Justified(e, res)'
<1>1. completed'[e] >= completed[e] /\ raised'[e] >= raised[e]
  BY DEF Grows
<1>2. /\ completed[e] \in Nat /\ completed'[e] \in Nat
      /\ raised[e] \in Nat /\ raised'[e] \in Nat
  BY DEF TypeOK
<1>3. ASSUME NEW x, Published(x) PROVE Published(x)'
  BY <1>3 DEF Published, Grows, Extends
<1>4. DeadLettered(e) => DeadLettered(e)'
  BY DEF DeadLettered, Grows, Extends
<1> QED BY <1>1, <1>2, <1>3, <1>4 DEF Justified

\* Raised handlers stay raised.
LEMMA RaisedStable ==
  ASSUME TypeOK, TypeOK', Grows, NEW e \in Event, raised[e] > 0
  PROVE  raised'[e] > 0
BY DEF TypeOK, Grows

\* The event a replica works on does not change under its feet.
LEMMA CurrentStable ==
  ASSUME TypeOK, Grows, NEW c \in Consumers, Busy(c), cur'[c] = cur[c]
  PROVE  Current(c)' = Current(c)
BY CurrentInEvent DEF Current, Grows, Extends

\* consumer_dedup is written by mark_consumer_processed only.
LEMMA OnlyMarkRecords ==
  ASSUME [Next]_vars, dedup' # dedup
  PROVE  \E c \in Consumers : MarkProcessed(c)
<1>1. ASSUME NEW c \in Consumers, Step(c), ~ MarkProcessed(c) PROVE UNCHANGED dedup
  BY <1>1 DEF Step, Autoclaim, ReadGroup, CheckDedup, HandlerReturns,
     HandlerRaises, PublishRetry, PublishDeadLetter, Ack
<1>2. ASSUME NEW c \in Consumers, LoopError(c) \/ ClaimLost(c) \/ Crash(c) PROVE UNCHANGED dedup
  BY <1>2 DEF LoopError, ClaimLost, Crash
<1>3. ASSUME NEW r \in Roots, Publish(r) PROVE UNCHANGED dedup
  BY <1>3 DEF Publish
<1>4. ASSUME NEW m \in pel, BecomeIdle(m) PROVE UNCHANGED dedup
  BY <1>4 DEF BecomeIdle
<1>5. CASE UNCHANGED vars
  BY <1>5 DEF vars
<1> QED BY <1>1, <1>2, <1>3, <1>4, <1>5 DEF Next

LEMMA RowsPreserved ==
  ASSUME IInv, [Next]_vars, TypeOK', Grows
  PROVE  RowsJustified'
<1> SUFFICES ASSUME NEW e \in Event, NEW x, x # "none", dedup'[e] = x
             PROVE  Justified(e, x)'
  BY DEF RowsJustified, Justified
<1>1. CASE dedup[e] # "none"
  <2>1. dedup[e] = x
    BY <1>1 DEF Grows
  <2>2. Justified(e, x)
    BY <1>1, <2>1 DEF IInv, RowsJustified
  <2> QED BY <2>2, JustifiedStable DEF IInv
<1>2. CASE dedup[e] = "none"
  <2>1. dedup' # dedup
    BY <1>2
  <2>2. PICK c \in Consumers : MarkProcessed(c)
    BY <2>1, OnlyMarkRecords
  <2>3. e = Current(c) /\ x = result[c]
    <3>1. /\ Current(c) \in Event
          /\ dedup' = [dedup EXCEPT ![Current(c)] = IF @ = "none" THEN result[c] ELSE @]
      BY <2>2, CurrentInEvent DEF MarkProcessed, IInv, Busy
    <3>2. e = Current(c)
      BY <1>2, <3>1 DEF IInv, TypeOK
    <3> QED BY <1>2, <3>1, <3>2 DEF IInv, TypeOK
  <2>4. Justified(e, x)
    BY <2>2, <2>3 DEF MarkProcessed, IInv, WorkersJustified, WorkerJustified
  <2> QED BY <2>4, JustifiedStable DEF IInv
<1> QED BY <1>1, <1>2

\* A replica that does not move keeps its justification.
LEMMA WorkerStable ==
  ASSUME TypeOK, TypeOK', Grows, NEW c \in Consumers, WorkerJustified(c),
         pc'[c] = pc[c], cur'[c] = cur[c], result'[c] = result[c]
  PROVE  WorkerJustified(c)'
<1>1. CASE pc[c] \in {"fail", "mark", "ack"}
  <2>1. Current(c)' = Current(c) /\ Current(c) \in Event
    BY <1>1, CurrentStable, CurrentInEvent DEF Busy
  <2>2. PICK e \in Event, x \in Outcome :
          e = Current(c) /\ e = Current(c)' /\ x = result[c] /\ x = result'[c]
    BY <2>1 DEF TypeOK
  <2>3. pc[c] = "fail" => raised'[e] > 0
    BY <2>2, RaisedStable DEF WorkerJustified
  <2>4. pc[c] = "mark" => Justified(e, x)'
    BY <2>2, JustifiedStable DEF WorkerJustified
  <2>5. pc[c] = "ack" => dedup'[e] # "none"
    BY <2>2 DEF WorkerJustified, Grows
  <2> QED BY <2>2, <2>3, <2>4, <2>5 DEF WorkerJustified, Justified
<1>2. CASE pc[c] \notin {"fail", "mark", "ack"}
  BY <1>2 DEF WorkerJustified
<1> QED BY <1>1, <1>2

\* Reading, aborting or crashing leaves a replica with nothing to justify.
LEMMA WorkerIdle ==
  ASSUME NEW c \in Consumers, pc'[c] \in {"poll", "read", "next", "handle"}
  PROVE  WorkerJustified(c)'
BY DEF WorkerJustified

LEMMA WorkersPreserved ==
  ASSUME IInv, [Next]_vars, TypeOK', Grows
  PROVE  WorkersJustified'
<1> SUFFICES ASSUME NEW d \in Consumers PROVE WorkerJustified(d)'
  BY DEF WorkersJustified
<1>0. TypeOK /\ WorkerJustified(d)
  BY DEF IInv, WorkersJustified
<1>1. CASE UNCHANGED <<pc, cur, result>>
  BY <1>0, <1>1, WorkerStable
<1>2. ASSUME NEW c \in Consumers, Step(c) \/ LoopError(c) \/ ClaimLost(c) \/ Crash(c), c # d
      PROVE  WorkerJustified(d)'
  <2>1. pc'[d] = pc[d] /\ cur'[d] = cur[d] /\ result'[d] = result[d]
    BY <1>0, <1>2 DEF TypeOK, Step, Autoclaim, ReadGroup, CheckDedup, HandlerReturns,
       HandlerRaises, PublishRetry, PublishDeadLetter, MarkProcessed, Ack,
       LoopError, ClaimLost, Crash, local
  <2> QED BY <1>0, <2>1, WorkerStable
<1>3. CASE Autoclaim(d) \/ ReadGroup(d) \/ Ack(d) \/ LoopError(d) \/ ClaimLost(d) \/ Crash(d)
  <2>1. pc'[d] \in {"poll", "read", "next", "handle"}
    BY <1>0, <1>3 DEF TypeOK, Autoclaim, ReadGroup, Ack, LoopError, ClaimLost, Crash, local
  <2> QED BY <2>1, WorkerIdle
<1>4. CASE CheckDedup(d)
  <2>1. PICK m \in batch[d] :
           /\ cur' = [cur EXCEPT ![d] = m]
           /\ pc' = [pc EXCEPT ![d] = IF dedup[stream[m]] = "none"
                                     THEN "handle" ELSE "ack"]
           /\ UNCHANGED <<stream, dedup>>
    BY <1>4 DEF CheckDedup, redis
  <2>2. Current(d)' = stream[m]
    BY <1>0, <2>1 DEF TypeOK, Current
  <2> QED BY <1>0, <2>1, <2>2 DEF TypeOK, WorkerJustified
<1>5. ASSUME Busy(d), UNCHANGED cur
      PROVE  Current(d)' = Current(d) /\ Current(d) \in Event
  BY <1>0, <1>5, CurrentStable, CurrentInEvent
<1>6. CASE HandlerReturns(d)
  <2>1. Current(d)' = Current(d) /\ Current(d) \in Event
    BY <1>5, <1>6 DEF HandlerReturns, Busy
  <2>2. /\ completed'[Current(d)] > 0
        /\ result'[d] = "success"
        /\ pc'[d] = "mark"
    BY <1>0, <1>6, <2>1 DEF HandlerReturns, TypeOK
  <2> QED BY <2>1, <2>2 DEF WorkerJustified, Justified
<1>7. CASE HandlerRaises(d)
  <2>1. Current(d)' = Current(d) /\ Current(d) \in Event
    BY <1>5, <1>7 DEF HandlerRaises, Busy
  <2>2. raised'[Current(d)] > 0 /\ pc'[d] = "fail"
    BY <1>0, <1>7, <2>1 DEF HandlerRaises, TypeOK
  <2> QED BY <2>1, <2>2 DEF WorkerJustified
<1>8. CASE PublishRetry(d)
  <2>1. Current(d)' = Current(d) /\ Current(d) \in Event
    BY <1>5, <1>8 DEF PublishRetry, Busy
  <2>2. /\ result'[d] = "retried" /\ pc'[d] = "mark"
        /\ raised'[Current(d)] > 0
        /\ Current(d).attempt < MaxRetryAttempts
    BY <1>0, <1>8 DEF PublishRetry, TypeOK, WorkerJustified, history
  <2>a. stream' = Append(stream, Retry(Current(d)))
    BY <1>8 DEF PublishRetry
  <2>b. stream \in Seq(Event) /\ Retry(Current(d)) \in Event
    BY <1>0, <2>1, <2>2, RetryInEvent DEF TypeOK
  <2>3. stream'[Len(stream) + 1] = Retry(Current(d)) /\ Len(stream) + 1 \in DOMAIN stream'
    BY <2>a, <2>b, AppendKeeps
  <2>4. Published(Retry(Current(d)))'
    BY <2>1, <2>3 DEF Published, Retry
  <2> QED BY <2>1, <2>2, <2>4 DEF WorkerJustified, Justified
<1>9. CASE PublishDeadLetter(d)
  <2>1. Current(d)' = Current(d) /\ Current(d) \in Event
    BY <1>5, <1>9 DEF PublishDeadLetter, Busy
  <2>2. result'[d] = "failed" /\ pc'[d] = "mark"
    BY <1>0, <1>9 DEF PublishDeadLetter, TypeOK
  <2>3. dlq'[Len(dlq) + 1] = Current(d) /\ Len(dlq) + 1 \in DOMAIN dlq'
    BY <1>0, <1>9, <2>1, AppendKeeps DEF PublishDeadLetter, TypeOK
  <2> QED BY <2>1, <2>2, <2>3 DEF WorkerJustified, Justified, DeadLettered
<1>10. CASE MarkProcessed(d)
  <2>1. Current(d)' = Current(d) /\ Current(d) \in Event
    BY <1>5, <1>10 DEF MarkProcessed, Busy
  <2>2. dedup'[Current(d)] # "none" /\ pc'[d] = "ack"
    BY <1>0, <1>10, <2>1 DEF MarkProcessed, TypeOK, Outcome
  <2> QED BY <2>1, <2>2 DEF WorkerJustified
<1>11. ASSUME NEW r \in Roots, Publish(r) PROVE UNCHANGED <<pc, cur, result>>
  BY <1>11 DEF Publish, local
<1>12. ASSUME NEW m \in pel, BecomeIdle(m) PROVE UNCHANGED <<pc, cur, result>>
  BY <1>12 DEF BecomeIdle, local
<1>13. CASE UNCHANGED vars
  BY <1>1, <1>13 DEF vars, local
<1> QED
  BY <1>1, <1>2, <1>3, <1>4, <1>6, <1>7, <1>8, <1>9, <1>10, <1>11, <1>12, <1>13
  DEF Next, Step

LEMMA NoLostWorkPreserved ==
  ASSUME IInv, [Next]_vars, TypeOK', Grows
  PROVE  NoLostWork'
<1>0. TypeOK /\ NoLostWork
  BY DEF IInv
<1>a. /\ stream \in Seq(Event)
      /\ delivered \in Nat /\ Len(stream) \in Nat /\ Len(stream') \in Nat
      /\ delivered <= Len(stream)
      /\ DOMAIN stream = 1..Len(stream) /\ DOMAIN stream' = 1..Len(stream')
  <2>1. stream \in Seq(Event) /\ stream' \in Seq(Event) /\ delivered \in 0..Len(stream)
    BY <1>0 DEF TypeOK
  <2> QED BY <2>1
<1> SUFFICES ASSUME NEW m \in DOMAIN stream'
             PROVE  m > delivered' \/ m \in pel' \/ dedup'[stream'[m]] # "none"
  BY DEF NoLostWork, InFlight
<1>1. ASSUME m \in DOMAIN stream, dedup[stream[m]] # "none"
      PROVE  dedup'[stream'[m]] # "none"
  <2>1. stream'[m] = stream[m] /\ stream[m] \in Event
    BY <1>a, <1>1 DEF Grows, Extends
  <2> QED BY <1>1, <2>1 DEF Grows
<1>2. CASE UNCHANGED <<delivered, pel>>
  <2>1. CASE m \in DOMAIN stream
    BY <1>0, <1>1, <1>2, <2>1 DEF NoLostWork, InFlight
  <2>2. CASE m \notin DOMAIN stream
    <3>1. m \in Nat /\ m > Len(stream)
      BY <1>a, <2>2
    <3> QED BY <1>0, <1>a, <1>2, <3>1
  <2> QED BY <2>1, <2>2
<1>3. ASSUME NEW c \in Consumers, ReadGroup(c)
      PROVE  m > delivered' \/ m \in pel' \/ dedup'[stream'[m]] # "none"
  <2>1. PICK last \in delivered..Len(stream) :
           delivered' = last /\ pel' = pel \cup (delivered + 1)..last
    BY <1>3 DEF ReadGroup
  <2>2. m \in DOMAIN stream /\ m \in Nat
    <3>1. stream' = stream
      BY <1>3 DEF ReadGroup
    <3> QED BY <1>a, <3>1
  <2>3. CASE m > delivered
    <3>1. last \in Nat
      BY <1>a, <2>1
    <3>2. m > last \/ m \in (delivered + 1)..last
      BY <1>a, <2>2, <2>3, <3>1
    <3> QED BY <2>1, <3>2
  <2>4. CASE ~(m > delivered)
    <3>1. m \in pel \/ dedup[stream[m]] # "none"
      BY <1>0, <2>2, <2>4 DEF NoLostWork, InFlight
    <3> QED BY <1>1, <2>1, <2>2, <3>1
  <2> QED BY <2>3, <2>4
<1>4. ASSUME NEW c \in Consumers, Ack(c)
      PROVE  m > delivered' \/ m \in pel' \/ dedup'[stream'[m]] # "none"
  <2>1. /\ UNCHANGED <<stream, delivered, dedup>>
        /\ pel' = pel \ {cur[c]}
    BY <1>4 DEF Ack
  <2>2. dedup[stream[cur[c]]] # "none"
    BY <1>4 DEF Ack, IInv, WorkersJustified, WorkerJustified, Current
  <2> QED BY <1>0, <2>1, <2>2 DEF NoLostWork, InFlight
<1>5. ASSUME NEW c \in Consumers, Step(c), ~ ReadGroup(c), ~ Ack(c)
      PROVE  UNCHANGED <<delivered, pel>>
  BY <1>5 DEF Step, Autoclaim, CheckDedup, HandlerReturns, HandlerRaises,
     PublishRetry, PublishDeadLetter, MarkProcessed, redis
<1>6. ASSUME NEW c \in Consumers, LoopError(c) \/ ClaimLost(c) \/ Crash(c)
      PROVE  UNCHANGED <<delivered, pel>>
  BY <1>6 DEF LoopError, ClaimLost, Crash, redis, local
<1>7. ASSUME NEW r \in Roots, Publish(r) PROVE UNCHANGED <<delivered, pel>>
  BY <1>7 DEF Publish
<1>8. ASSUME NEW k \in pel, BecomeIdle(k) PROVE UNCHANGED <<delivered, pel>>
  BY <1>8 DEF BecomeIdle
<1>9. CASE UNCHANGED vars
  BY <1>2, <1>9 DEF vars, redis
<1> QED BY <1>2, <1>3, <1>4, <1>5, <1>6, <1>7, <1>8, <1>9 DEF Next

LEMMA RaisedBeforeStable ==
  ASSUME TypeOK, TypeOK', Grows, NEW e \in Event, NEW n \in Nat,
         n <= MaxRetryAttempts + 1, RaisedBefore(e, n)
  PROVE  RaisedBefore(e, n)'
<1> SUFFICES ASSUME NEW k \in FirstAttempt[e.root]..(n - 1)
             PROVE  raised'[[root |-> e.root, attempt |-> k]] > 0
  BY DEF RaisedBefore
<1>1. e.root \in Roots /\ FirstAttempt[e.root] \in 1..MaxRetryAttempts
  BY WorkerAssumption DEF Event
<1>2. k \in 1..MaxRetryAttempts
  BY <1>1, WorkerAssumption
<1>3. [root |-> e.root, attempt |-> k] \in Event
  BY <1>1, <1>2 DEF Event
<1>4. raised[[root |-> e.root, attempt |-> k]] > 0
  BY DEF RaisedBefore
<1> QED BY <1>3, <1>4, RaisedStable

\* One more failed attempt lengthens the chain.
LEMMA RaisedBeforeNext ==
  ASSUME TypeOK, NEW e \in Event, RaisedBefore(e, e.attempt), raised[e] > 0
  PROVE  RaisedBefore(e, e.attempt + 1)
<1> SUFFICES ASSUME NEW k \in FirstAttempt[e.root]..e.attempt
             PROVE  raised[[root |-> e.root, attempt |-> k]] > 0
  BY WorkerAssumption DEF RaisedBefore, Event
<1>1. FirstAttempt[e.root] \in Nat /\ e.attempt \in Nat
  BY WorkerAssumption DEF Event
<1>2. CASE k = e.attempt
  <2>1. [root |-> e.root, attempt |-> k] = e
    BY <1>2 DEF Event
  <2> QED BY <2>1
<1>3. CASE k # e.attempt
  BY <1>1, <1>3 DEF RaisedBefore
<1> QED BY <1>2, <1>3

LEMMA AttemptsRaisedPreserved ==
  ASSUME IInv, [Next]_vars, TypeOK', Grows
  PROVE  AttemptsRaised'
<1>0. TypeOK /\ AttemptsRaised /\ WorkersJustified
  BY DEF IInv
<1>1. stream \in Seq(Event)
  BY <1>0 DEF TypeOK
<1>2. ASSUME NEW e \in Event, RaisedBefore(e, e.attempt)
      PROVE  RaisedBefore(e, e.attempt)'
  <2>1. e.attempt \in Nat /\ e.attempt <= MaxRetryAttempts + 1
    BY WorkerAssumption DEF Event
  <2> QED BY <1>0, <1>2, <2>1, RaisedBeforeStable DEF RaisedBefore
<1>3. ASSUME NEW m \in DOMAIN stream PROVE RaisedBefore(stream[m], stream[m].attempt)'
  <2>1. PICK e \in Event : e = stream[m] /\ e = stream'[m]
    BY <1>1, <1>3 DEF Grows, Extends
  <2>2. RaisedBefore(e, e.attempt)
    BY <1>0, <2>1 DEF AttemptsRaised
  <2> QED BY <1>2, <2>1, <2>2 DEF RaisedBefore
<1>4. CASE UNCHANGED stream
  BY <1>3, <1>4 DEF AttemptsRaised, RaisedBefore
<1>5. ASSUME NEW x \in Event, stream' = Append(stream, x), RaisedBefore(x, x.attempt)
      PROVE  AttemptsRaised'
  <2> SUFFICES ASSUME NEW m \in DOMAIN stream'
               PROVE  RaisedBefore(stream[m], stream[m].attempt)'
    BY DEF AttemptsRaised
  <2>1. CASE m \in DOMAIN stream
    BY <1>3, <2>1
  <2>2. CASE m \notin DOMAIN stream
    <3>1. stream'[m] = x
      BY <1>1, <1>5, <2>2, AppendKeeps
    <3> QED BY <1>2, <1>5, <3>1 DEF RaisedBefore
  <2> QED BY <2>1, <2>2
<1>6. ASSUME NEW r \in Roots, Publish(r) PROVE AttemptsRaised'
  <2>1. First(r) \in Event /\ stream' = Append(stream, First(r))
    BY <1>6, FirstInEvent DEF Publish
  <2>2. RaisedBefore(First(r), First(r).attempt)
    BY WorkerAssumption DEF RaisedBefore, First
  <2> QED BY <1>5, <2>1, <2>2
<1>7. ASSUME NEW c \in Consumers, PublishRetry(c) PROVE AttemptsRaised'
  <2>1. PICK e \in Event : e = Current(c) /\ cur[c] \in DOMAIN stream
    BY <1>0, <1>7, CurrentInEvent DEF PublishRetry, Busy
  <2>2. /\ e.attempt < MaxRetryAttempts
        /\ stream' = Append(stream, Retry(e))
        /\ raised[e] > 0
        /\ RaisedBefore(e, e.attempt)
    BY <1>0, <1>7, <2>1 DEF PublishRetry, WorkersJustified, WorkerJustified,
       AttemptsRaised, Current
  <2>3. RaisedBefore(e, e.attempt + 1)
    BY <1>0, <2>2, RaisedBeforeNext
  <2>4. RaisedBefore(Retry(e), Retry(e).attempt)
    BY <2>3 DEF RaisedBefore, Retry
  <2> QED BY <1>5, <2>2, <2>4, RetryInEvent
<1>8. ASSUME NEW c \in Consumers, Step(c), ~ PublishRetry(c) PROVE UNCHANGED stream
  BY <1>8 DEF Step, Autoclaim, ReadGroup, CheckDedup, HandlerReturns,
     HandlerRaises, PublishDeadLetter, MarkProcessed, Ack, redis
<1>9. ASSUME NEW c \in Consumers, LoopError(c) \/ ClaimLost(c) \/ Crash(c) PROVE UNCHANGED stream
  BY <1>9 DEF LoopError, ClaimLost, Crash, redis, local
<1>10. ASSUME NEW m \in pel, BecomeIdle(m) PROVE UNCHANGED stream
  BY <1>10 DEF BecomeIdle
<1>11. CASE UNCHANGED vars
  BY <1>4, <1>11 DEF vars, redis
<1> QED BY <1>4, <1>6, <1>7, <1>8, <1>9, <1>10, <1>11 DEF Next

LEMMA AttemptsExhaustedPreserved ==
  ASSUME IInv, [Next]_vars, TypeOK', Grows
  PROVE  AttemptsExhausted'
<1>0. TypeOK /\ AttemptsRaised /\ WorkersJustified /\ AttemptsExhausted /\ dlq \in Seq(Event)
  BY DEF IInv, TypeOK
<1> SUFFICES ASSUME NEW e \in Event, DeadLettered(e)'
             PROVE  RaisedBefore(e, MaxRetryAttempts + 1)'
  BY WorkerAssumption DEF AttemptsExhausted, RaisedBefore, DeadLettered
<1>1. CASE DeadLettered(e)
  <2>1. RaisedBefore(e, MaxRetryAttempts + 1)
    BY <1>0, <1>1, WorkerAssumption DEF AttemptsExhausted, RaisedBefore
  <2> QED BY <1>0, <2>1, RaisedBeforeStable, WorkerAssumption
<1>2. CASE ~ DeadLettered(e)
  <2>1. dlq' # dlq
    BY <1>2 DEF DeadLettered
  <2>2. ASSUME NEW c \in Consumers, Step(c), ~ PublishDeadLetter(c) PROVE UNCHANGED dlq
    BY <2>2 DEF Step, Autoclaim, ReadGroup, CheckDedup, HandlerReturns,
       HandlerRaises, PublishRetry, MarkProcessed, Ack, redis
  <2>3. ASSUME NEW c \in Consumers, LoopError(c) \/ ClaimLost(c) \/ Crash(c) PROVE UNCHANGED dlq
    BY <2>3 DEF LoopError, ClaimLost, Crash, redis, local
  <2>4. ASSUME NEW r \in Roots, Publish(r) PROVE UNCHANGED dlq
    BY <2>4 DEF Publish
  <2>5. ASSUME NEW m \in pel, BecomeIdle(m) PROVE UNCHANGED dlq
    BY <2>5 DEF BecomeIdle
  <2>6. PICK c \in Consumers : PublishDeadLetter(c)
    BY <2>1, <2>2, <2>3, <2>4, <2>5 DEF Next, vars, redis
  <2>7. Current(c) \in Event /\ cur[c] \in DOMAIN stream
    BY <1>0, <2>6, CurrentInEvent DEF PublishDeadLetter, Busy
  <2>8. e = Current(c)
    BY <1>0, <1>2, <2>6, <2>7, AppendKeeps DEF PublishDeadLetter, DeadLettered
  <2>9. /\ e.attempt >= MaxRetryAttempts
        /\ raised[e] > 0
        /\ RaisedBefore(e, e.attempt)
    BY <1>0, <2>6, <2>7, <2>8 DEF PublishDeadLetter, WorkersJustified,
       WorkerJustified, AttemptsRaised, Current
  <2>10. e.attempt = MaxRetryAttempts
    BY <2>9, WorkerAssumption DEF Event
  <2>11. RaisedBefore(e, MaxRetryAttempts + 1)
    BY <1>0, <2>9, <2>10, RaisedBeforeNext
  <2> QED BY <1>0, <2>11, RaisedBeforeStable, WorkerAssumption
<1> QED BY <1>1, <1>2

\* The stream changes by an upstream publication or by a retry.
LEMMA StreamChange ==
  ASSUME IInv, [Next]_vars
  PROVE  \/ UNCHANGED stream
         \/ \E r \in Roots : stream' = Append(stream, First(r))
         \/ \E k \in DOMAIN stream :
              /\ stream[k] \in Event
              /\ stream[k].attempt < MaxRetryAttempts
              /\ stream' = Append(stream, Retry(stream[k]))
<1>1. ASSUME NEW r \in Roots, Publish(r) PROVE stream' = Append(stream, First(r))
  BY <1>1 DEF Publish
<1>2. ASSUME NEW c \in Consumers, PublishRetry(c)
      PROVE  \E k \in DOMAIN stream :
               /\ stream[k] \in Event
               /\ stream[k].attempt < MaxRetryAttempts
               /\ stream' = Append(stream, Retry(stream[k]))
  BY <1>2, CurrentInEvent DEF PublishRetry, Busy, Current, IInv
<1>3. ASSUME NEW c \in Consumers, Step(c), ~ PublishRetry(c) PROVE UNCHANGED stream
  BY <1>3 DEF Step, Autoclaim, ReadGroup, CheckDedup, HandlerReturns,
     HandlerRaises, PublishDeadLetter, MarkProcessed, Ack, redis
<1>4. ASSUME NEW c \in Consumers, LoopError(c) \/ ClaimLost(c) \/ Crash(c) PROVE UNCHANGED stream
  BY <1>4 DEF LoopError, ClaimLost, Crash, redis, local
<1>5. ASSUME NEW m \in pel, BecomeIdle(m) PROVE UNCHANGED stream
  BY <1>5 DEF BecomeIdle
<1> QED BY <1>1, <1>2, <1>3, <1>4, <1>5 DEF Next, vars, redis

LEMMA NoGapPreserved ==
  ASSUME IInv, [Next]_vars, Grows
  PROVE  NoGap'
<1>0. stream \in Seq(Event) /\ NoGap
  BY DEF IInv, TypeOK
<1>1. CASE UNCHANGED stream
  BY <1>0, <1>1 DEF NoGap
<1>2. ASSUME NEW x \in Event, stream' = Append(stream, x),
             x.attempt >= FirstAttempt[x.root],
             x.attempt > FirstAttempt[x.root] => \E k \in DOMAIN stream : x = Retry(stream[k])
      PROVE  NoGap'
  <2>1. /\ DOMAIN stream' = DOMAIN stream \cup {Len(stream) + 1}
        /\ \A m \in DOMAIN stream : stream'[m] = stream[m]
        /\ stream'[Len(stream) + 1] = x
    BY <1>0, <1>2, AppendKeeps
  <2> SUFFICES ASSUME NEW m \in DOMAIN stream'
               PROVE  /\ stream'[m].attempt >= FirstAttempt[stream'[m].root]
                      /\ stream'[m].attempt > FirstAttempt[stream'[m].root] =>
                           \E k \in DOMAIN stream' : stream'[m] = Retry(stream'[k])
    BY DEF NoGap, Retry
  <2>2. CASE m \in DOMAIN stream
    BY <1>0, <2>1, <2>2 DEF NoGap
  <2>3. CASE m = Len(stream) + 1
    BY <1>2, <2>1, <2>3
  <2> QED BY <2>1, <2>2, <2>3
<1>3. ASSUME NEW r \in Roots, stream' = Append(stream, First(r)) PROVE NoGap'
  <2>1. First(r).attempt = FirstAttempt[First(r).root] /\ FirstAttempt[r] \in Nat
    BY WorkerAssumption DEF First
  <2> QED BY <1>2, <1>3, <2>1, FirstInEvent DEF First
<1>4. ASSUME NEW k \in DOMAIN stream,
             stream[k] \in Event,
             stream[k].attempt < MaxRetryAttempts,
             stream' = Append(stream, Retry(stream[k]))
      PROVE  NoGap'
  <2>1. Retry(stream[k]) \in Event
    BY <1>4, RetryInEvent
  <2>2. stream[k].attempt >= FirstAttempt[stream[k].root]
    BY <1>0 DEF NoGap
  <2>3. Retry(stream[k]).attempt >= FirstAttempt[Retry(stream[k]).root]
    BY <1>4, <2>2, WorkerAssumption DEF Retry, Event
  <2> QED BY <1>2, <1>4, <2>1, <2>3
<1> QED BY <1>1, <1>3, <1>4, StreamChange

LEMMA ChainEndsPreserved ==
  ASSUME IInv, [Next]_vars, TypeOK', Grows, NoGap'
  PROVE  ChainEnds'
<1>0. stream \in Seq(Event) /\ NoGap /\ ChainEnds
  BY DEF IInv, TypeOK
<1>1. CASE UNCHANGED stream
  BY <1>0, <1>1 DEF ChainEnds, LastAttempt, Published, Retry
<1>2. ASSUME NEW x \in Event, stream' = Append(stream, x),
             \* x is a retry of an entry, or starts a chain
             \/ x.attempt = FirstAttempt[x.root]
             \/ \E k \in DOMAIN stream : x = Retry(stream[k])
      PROVE  ChainEnds'
  <2>0. PICK new : new = Len(stream) + 1
    OBVIOUS
  <2>1. /\ DOMAIN stream' = DOMAIN stream \cup {new}
        /\ \A m \in DOMAIN stream : stream'[m] = stream[m]
        /\ stream'[new] = x
        /\ \A m \in DOMAIN stream : stream[m] \in Event
    BY <1>0, <1>2, <2>0, AppendKeeps
  <2>2. CASE \E n \in DOMAIN stream : stream[n] = x
    \* A duplicate changes nothing.
    <3>1. \A y : Published(y)' <=> Published(y)
      BY <2>1, <2>2 DEF Published
    <3>2. ASSUME NEW m \in DOMAIN stream, LastAttempt(m) PROVE LastAttempt(m)'
      <4>1. ~ Published(Retry(stream[m]))'
        BY <2>1, <3>1, <3>2 DEF LastAttempt, Retry, Published
      <4> QED BY <4>1 DEF LastAttempt
    <3>3. \A n \in DOMAIN stream' : \E k \in DOMAIN stream : stream'[n] = stream[k]
      BY <2>1, <2>2
    <3> SUFFICES ASSUME NEW n \in DOMAIN stream'
                 PROVE  \E m \in DOMAIN stream' :
                          stream'[m].root = stream'[n].root /\ LastAttempt(m)'
      BY DEF ChainEnds
    <3>4. PICK k \in DOMAIN stream : stream'[n] = stream[k]
      BY <3>3
    <3>5. PICK m \in DOMAIN stream : stream[m].root = stream[k].root /\ LastAttempt(m)
      BY <1>0 DEF ChainEnds
    <3> QED BY <2>1, <3>2, <3>4, <3>5
  <2>3. CASE \A n \in DOMAIN stream : stream[n] # x
    <3>1. \A n \in DOMAIN stream' : stream'[n] # Retry(x)
      <4> SUFFICES ASSUME NEW n \in DOMAIN stream', stream'[n] = Retry(x) PROVE FALSE
        OBVIOUS
      <4>1. n \in DOMAIN stream /\ stream[n] = Retry(x)
        BY <2>1 DEF Retry, Event
      <4>2. stream[n].attempt > FirstAttempt[stream[n].root]
        <5>1. x.attempt >= FirstAttempt[x.root]
          BY <1>2, <2>1, NoGap' DEF NoGap
        <5>2. /\ Retry(x).root = x.root /\ Retry(x).attempt = x.attempt + 1
              /\ x.attempt \in Nat /\ FirstAttempt[x.root] \in Nat
          BY WorkerAssumption DEF Retry, Event
        <5> QED BY <4>1, <5>1, <5>2
      <4>3. PICK k \in DOMAIN stream : stream[n] = Retry(stream[k])
        BY <1>0, <4>1, <4>2 DEF NoGap
      <4>4. stream[k] = x
        BY <2>1, <4>1, <4>3 DEF Retry, Event
      <4> QED BY <2>3, <4>4
    <3>2. LastAttempt(new)'
      BY <2>1, <3>1 DEF LastAttempt, Published, Retry
    <3> SUFFICES ASSUME NEW n \in DOMAIN stream'
                 PROVE  \E m \in DOMAIN stream' :
                          stream'[m].root = stream'[n].root /\ LastAttempt(m)'
      BY DEF ChainEnds
    <3>3. CASE stream'[n].root = x.root
      <4>1. new \in DOMAIN stream' /\ stream'[new].root = x.root
        BY <2>1
      <4> QED BY <3>2, <3>3, <4>1
    <3>4. CASE stream'[n].root # x.root
      <4>1. n \in DOMAIN stream /\ stream[n].root # x.root
        BY <2>1, <3>4
      <4>2. PICK m \in DOMAIN stream : stream[m].root = stream[n].root /\ LastAttempt(m)
        BY <1>0, <4>1 DEF ChainEnds
      <4>3. Retry(stream[m]) # x
        BY <4>1, <4>2 DEF Retry
      <4>4. ~ Published(Retry(stream[m]))'
        BY <2>1, <4>2, <4>3 DEF LastAttempt, Published, Retry
      <4> QED BY <2>1, <4>1, <4>2, <4>4 DEF LastAttempt
    <3> QED BY <3>3, <3>4
  <2> QED BY <2>2, <2>3
<1>3. ASSUME NEW r \in Roots, stream' = Append(stream, First(r)) PROVE ChainEnds'
  <2>1. First(r).attempt = FirstAttempt[First(r).root]
    BY DEF First
  <2> QED BY <1>2, <1>3, <2>1, FirstInEvent
<1>4. ASSUME NEW k \in DOMAIN stream,
             stream[k] \in Event,
             stream[k].attempt < MaxRetryAttempts,
             stream' = Append(stream, Retry(stream[k]))
      PROVE  ChainEnds'
  BY <1>2, <1>4, RetryInEvent
<1> QED BY <1>1, <1>3, <1>4, StreamChange

-----------------------------------------------------------------------------
THEOREM InductiveInvariant == Spec => []IInv
<1>1. Init => IInv
  <2> SUFFICES ASSUME Init PROVE IInv
    OBVIOUS
  <2>1. TypeOK
    BY WorkerAssumption DEF Init, TypeOK, Outcome, Location
  <2> QED
    BY <2>1 DEF Init, IInv, NoLostWork, RowsJustified, WorkersJustified,
       WorkerJustified, AttemptsRaised, AttemptsExhausted, DeadLettered,
       NoGap, ChainEnds
<1>2. IInv /\ [Next]_vars => IInv'
  <2> SUFFICES ASSUME IInv, [Next]_vars PROVE IInv'
    OBVIOUS
  <2>1. TypeOK' /\ Grows
    BY TypePreserved, StepGrows DEF IInv
  <2>2. NoGap' /\ ChainEnds'
    BY <2>1, NoGapPreserved, ChainEndsPreserved
  <2> QED
    BY <2>1, <2>2, NoLostWorkPreserved, RowsPreserved, WorkersPreserved,
       AttemptsRaisedPreserved, AttemptsExhaustedPreserved DEF IInv
<1> QED BY <1>1, <1>2, PTL DEF Spec

\* An entry is acknowledged only after its outcome is recorded.
THEOREM NoWorkIsLost == Spec => []NoLostWork
BY InductiveInvariant, PTL DEF IInv

\* A dead letter stands for a failure of every attempt.
THEOREM DeadLettersExhausted == Spec => []AttemptsExhausted
BY InductiveInvariant, PTL DEF IInv

-----------------------------------------------------------------------------
(***************************************************************************)
(* No root disappears: follow its retries to the last one.                 *)
(***************************************************************************)
LEMMA InvariantAccountsForRoots == IInv => RootAccounted
<1> SUFFICES ASSUME IInv, NEW r \in Roots, NEW n \in DOMAIN stream, stream[n].root = r
             PROVE  \E m \in DOMAIN stream :
                      /\ stream[m].root = r
                      /\ InFlight(m) \/ dedup[stream[m]] = "success" \/ DeadLettered(stream[m])
  BY DEF RootAccounted
<1>1. TypeOK /\ NoLostWork /\ RowsJustified /\ ChainEnds /\ stream \in Seq(Event)
  BY DEF IInv, TypeOK
<1>2. PICK m \in DOMAIN stream : stream[m].root = r /\ LastAttempt(m)
  BY <1>1 DEF ChainEnds
<1>3. stream[m] \in Event
  BY <1>1
<1>4. dedup[stream[m]] # "retried"
  BY <1>1, <1>2, <1>3 DEF RowsJustified, Justified, LastAttempt
<1>5. InFlight(m) \/ dedup[stream[m]] \in {"success", "failed"}
  <2>1. dedup[stream[m]] \in Outcome \cup {"none"}
    BY <1>1, <1>3 DEF TypeOK
  <2> QED BY <1>1, <1>4, <2>1 DEF NoLostWork, Outcome
<1>6. dedup[stream[m]] = "failed" => DeadLettered(stream[m])
  BY <1>1, <1>3 DEF RowsJustified, Justified
<1> QED BY <1>2, <1>5, <1>6

\* Nothing that was published disappears.
THEOREM RootsAccounted == Spec => []RootAccounted
BY InductiveInvariant, InvariantAccountsForRoots, PTL

-----------------------------------------------------------------------------
(***************************************************************************)
(* The loop implements the delivery contract.                              *)
(***************************************************************************)
Entries(s) == {s[m] : m \in DOMAIN s}

Submitted == Entries(stream)
Completed == {e \in Event : completed[e] > 0}
Raised == {e \in Event : raised[e] > 0}
Dead == Entries(dlq)

LEMMA AppendAdds ==
  ASSUME NEW S, NEW s \in Seq(S), NEW x \in S
  PROVE  Entries(Append(s, x)) = Entries(s) \cup {x}
BY AppendKeeps DEF Entries

LEMMA ContractInit == Init => Contract!Init
BY DEF Init, Contract!Init, Event, Contract!Event

LEMMA ContractStep == IInv /\ [Next]_vars => [Contract!Next]_(Contract!vars)
<1> SUFFICES ASSUME IInv, [Next]_vars PROVE [Contract!Next]_(Contract!vars)
  OBVIOUS
<1> DEFINE Stutter == UNCHANGED <<Submitted, Completed, Raised, Dead, dedup>>
<1>0. TypeOK /\ stream \in Seq(Event) /\ dlq \in Seq(Event) /\ WorkersJustified
  BY DEF IInv, TypeOK
<1>a. Contract!Event = Event
  BY DEF Contract!Event, Event
<1>b. ASSUME Stutter PROVE [Contract!Next]_(Contract!vars)
  BY <1>b DEF Contract!vars, Submitted, Completed, Raised, Dead, Entries
<1>c. ASSUME NEW e \in Event,
             Contract!Run(e) \/ Contract!Resubmit(e) \/ Contract!DeadLetter(e)
      PROVE  Contract!Next
  BY <1>a, <1>c DEF Contract!Next
<1>1. ASSUME UNCHANGED <<stream, completed, raised, dlq, dedup>> PROVE Stutter
  BY <1>1 DEF Submitted, Completed, Raised, Dead
<1>2. ASSUME NEW r \in Roots, Publish(r) PROVE Contract!Submit(r)
  <2>1. Submitted' = Submitted \cup {First(r)}
    BY <1>0, <1>2, FirstInEvent, AppendAdds DEF Publish, Submitted
  <2>2. First(r) = Contract!First(r)
    BY DEF First, Contract!First
  <2>3. UNCHANGED <<Completed, Raised, Dead, dedup>>
    BY <1>2 DEF Publish, Completed, Raised, Dead, history
  <2> QED BY <2>1, <2>2, <2>3 DEF Contract!Submit, Submitted, Completed, Raised, Dead, Entries
<1>3. ASSUME NEW c \in Consumers, Busy(c)
      PROVE  \E e \in Event : e = Current(c) /\ e \in Submitted
  BY <1>0, <1>3, CurrentInEvent DEF Submitted, Entries, Current
<1>4. ASSUME NEW c \in Consumers, HandlerReturns(c) PROVE Contract!Next
  <2>1. PICK e \in Event : e = Current(c) /\ e \in Submitted
    BY <1>3, <1>4 DEF HandlerReturns, Busy
  <2>2. completed' = [completed EXCEPT ![e] = @ + 1]
    BY <2>1, <1>4 DEF HandlerReturns
  <2>3. completed \in [Event -> Nat]
    BY <1>0 DEF TypeOK
  <2>4. Completed' = Completed \cup {e}
    BY <2>1, <2>2, <2>3 DEF Completed
  <2>5. UNCHANGED <<Submitted, Raised, Dead, dedup>>
    BY <1>4 DEF HandlerReturns, redis, Submitted, Raised, Dead
  <2>6. Contract!Run(e)
    BY <2>1, <2>4, <2>5 DEF Contract!Run, Submitted, Completed, Raised, Dead, Entries
  <2> QED BY <1>c, <2>6
<1>5. ASSUME NEW c \in Consumers, HandlerRaises(c) PROVE Contract!Next
  <2>1. PICK e \in Event : e = Current(c) /\ e \in Submitted
    BY <1>3, <1>5 DEF HandlerRaises, Busy
  <2>2. raised' = [raised EXCEPT ![e] = @ + 1]
    BY <2>1, <1>5 DEF HandlerRaises
  <2>3. raised \in [Event -> Nat]
    BY <1>0 DEF TypeOK
  <2>4. Raised' = Raised \cup {e}
    BY <2>1, <2>2, <2>3 DEF Raised
  <2>5. UNCHANGED <<Submitted, Completed, Dead, dedup>>
    BY <1>5 DEF HandlerRaises, redis, Submitted, Completed, Dead
  <2>6. Contract!Run(e)
    BY <2>1, <2>4, <2>5 DEF Contract!Run, Submitted, Completed, Raised, Dead, Entries
  <2> QED BY <1>c, <2>6
<1>6. ASSUME NEW c \in Consumers, PublishRetry(c) PROVE Contract!Next
  <2>1. PICK e \in Event : e = Current(c)
    BY <1>3, <1>6 DEF PublishRetry, Busy
  <2>2. /\ e.attempt < MaxRetryAttempts
        /\ raised[e] > 0
        /\ stream' = Append(stream, Retry(e))
    BY <1>0, <1>6, <2>1 DEF PublishRetry, WorkersJustified, WorkerJustified
  <2>3. Submitted' = Submitted \cup {Retry(e)}
    BY <1>0, <2>2, RetryInEvent, AppendAdds DEF Submitted
  <2>4. Retry(e) = Contract!Retry(e)
    BY DEF Retry, Contract!Retry
  <2>5. UNCHANGED <<Completed, Raised, Dead, dedup>>
    BY <1>6 DEF PublishRetry, history, Completed, Raised, Dead
  <2>6. Contract!Resubmit(e)
    BY <2>2, <2>3, <2>4, <2>5 DEF Contract!Resubmit, Submitted, Completed, Raised, Dead, Entries
  <2> QED BY <1>c, <2>6
<1>7. ASSUME NEW c \in Consumers, PublishDeadLetter(c) PROVE Contract!Next
  <2>1. PICK e \in Event : e = Current(c)
    BY <1>3, <1>7 DEF PublishDeadLetter, Busy
  <2>2. /\ e.attempt >= MaxRetryAttempts
        /\ raised[e] > 0
        /\ dlq' = Append(dlq, e)
    BY <1>0, <1>7, <2>1 DEF PublishDeadLetter, WorkersJustified, WorkerJustified
  <2>3. Dead' = Dead \cup {e}
    <3>1. dlq \in Seq(Event)
      BY <1>0
    <3>2. Entries(Append(dlq, e)) = Entries(dlq) \cup {e}
      BY <3>1, AppendAdds
    <3> QED BY <2>2, <3>2 DEF Dead
  <2>4. e.attempt = MaxRetryAttempts
    BY <2>2, WorkerAssumption DEF Event
  <2>5. UNCHANGED <<Submitted, Completed, Raised, dedup>>
    BY <1>7 DEF PublishDeadLetter, history, Completed, Raised, Submitted
  <2>6. Contract!DeadLetter(e)
    BY <2>2, <2>3, <2>4, <2>5 DEF Contract!DeadLetter, Submitted, Completed, Raised, Dead, Entries
  <2> QED BY <1>c, <2>6
<1>8. ASSUME NEW c \in Consumers, MarkProcessed(c)
      PROVE  Stutter \/ Contract!Next
  <2>1. PICK e \in Event, x \in Outcome : e = Current(c) /\ x = result[c]
    BY <1>0, <1>3, <1>8 DEF MarkProcessed, Busy, TypeOK
  <2>a. Justified(e, x)
    BY <1>0, <1>8, <2>1 DEF MarkProcessed, WorkersJustified, WorkerJustified
  <2>b. dedup' = [dedup EXCEPT ![e] = IF @ = "none" THEN x ELSE @]
    BY <1>8, <2>1 DEF MarkProcessed
  <2>c. UNCHANGED <<stream, completed, raised, dlq>>
    BY <1>8 DEF MarkProcessed, redis, history
  <2>2. /\ Justified(e, x)
        /\ dedup' = [dedup EXCEPT ![e] = IF @ = "none" THEN x ELSE @]
        /\ UNCHANGED <<stream, completed, raised, dlq>>
    BY <2>a, <2>b, <2>c
  <2>3. dedup \in [Event -> Outcome \cup {"none"}]
    BY <1>0 DEF TypeOK
  <2>4. CASE dedup[e] # "none"
    <3>1. dedup' = dedup
      BY <2>2, <2>3, <2>4
    <3> QED BY <1>1, <2>2, <3>1
  <2>5. CASE dedup[e] = "none"
    <3>1. dedup' = [dedup EXCEPT ![e] = x]
      BY <2>2, <2>3, <2>5
    <3>2. Contract!Justified(e, x)
      BY <2>2 DEF Justified, Contract!Justified, Published, DeadLettered,
         Retry, Contract!Retry
    <3>3. UNCHANGED <<Submitted, Completed, Raised, Dead>>
      BY <2>2 DEF Submitted, Completed, Raised, Dead
    <3>4. Contract!Settle(e, x)
      BY <2>5, <3>1, <3>2, <3>3 DEF Contract!Settle, Submitted, Completed, Raised, Dead, Entries
    <3> QED BY <1>a, <3>4 DEF Contract!Next, Outcome, Contract!Outcome
  <2> QED BY <2>4, <2>5
<1>9. ASSUME NEW c \in Consumers,
             \/ Autoclaim(c) \/ ReadGroup(c) \/ CheckDedup(c)
             \/ Ack(c) \/ LoopError(c) \/ ClaimLost(c) \/ Crash(c)
      PROVE  Stutter
  BY <1>1, <1>9 DEF Autoclaim, ReadGroup, CheckDedup, Ack, LoopError, ClaimLost, Crash, redis, local, history
<1>10. ASSUME NEW m \in pel, BecomeIdle(m) PROVE Stutter
  BY <1>1, <1>10 DEF BecomeIdle, history
<1>11. CASE UNCHANGED vars
  BY <1>1, <1>b, <1>11 DEF vars, redis, history
<1> HIDE DEF Stutter
<1>12. ASSUME NEW c \in Consumers, Step(c) PROVE Stutter \/ Contract!Next
  BY <1>4, <1>5, <1>6, <1>7, <1>8, <1>9, <1>12 DEF Step
<1>13. ASSUME NEW r \in Roots, Publish(r) PROVE Contract!Next
  BY <1>2, <1>13 DEF Contract!Next
<1> QED BY <1>b, <1>9, <1>10, <1>11, <1>12, <1>13 DEF Next

\* Whatever replicas, faults and duplicate publications do, a service that
\* publishes an event can rely on the contract of EventDelivery.
THEOREM DeliveryImplemented == Spec => ImplementsDelivery
BY InductiveInvariant, ContractInit, ContractStep, PTL
DEF Spec, ImplementsDelivery, Contract!Spec

\* What the contract asks of its constants is what the loop assumes.
LEMMA ContractAssumption == Contract!DeliveryAssumption
BY WorkerAssumption DEF Contract!DeliveryAssumption

\* A recorded outcome of the loop keeps its promise for ever.
THEOREM OutcomesAreKept == Spec => []OutcomesKept
<1>1. IInv => OutcomesKept
  <2> SUFFICES ASSUME RowsJustified PROVE OutcomesKept
    BY DEF IInv
  <2>1. Contract!Event = Event
    BY DEF Contract!Event, Event
  <2>2. ASSUME NEW e \in Event, dedup[e] # "none" PROVE Contract!Justified(e, dedup[e])
    <3>1. Justified(e, dedup[e])
      BY <2>2 DEF RowsJustified
    <3> QED BY <2>2, <3>1 DEF Justified, Contract!Justified, Published, DeadLettered,
               Retry, Contract!Retry
  <2> QED BY <2>1, <2>2 DEF OutcomesKept, Contract!OutcomeJustified
<1> QED BY <1>1, InductiveInvariant, PTL
=============================================================================
