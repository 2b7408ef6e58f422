---------------------------- MODULE StreamWorker ----------------------------
(***************************************************************************)
(* libs/shared/shared/worker.py: the consumer loop every service of        *)
(* FraudLiveSystem runs, over one Redis stream and one consumer group      *)
(* (broker.py) and the consumer_dedup table (database.py).                 *)
(*                                                                         *)
(* One action is one await of the loop: what another replica does between  *)
(* two awaits is an interleaving of this module.                           *)
(***************************************************************************)
EXTENDS Naturals, Sequences, FiniteSets

CONSTANTS Roots,             (* what upstream publishes                     *)
          Consumers,         (* the replicas of the service                 *)
          MaxRetryAttempts,  (* settings.max_retry_attempts                 *)
          FirstAttempt,      (* attempt a root is first published with      *)
          ReadCount,         (* settings.read_count: size of one batch      *)
          PublishLimit,      (* bound: no upstream publish on a stream of   *)
                             (* this length                                 *)
          MaxFaults          (* bound: crashes and infrastructure errors    *)

ASSUME WorkerAssumption ==
  /\ IsFiniteSet(Consumers)
  /\ MaxRetryAttempts \in Nat \ {0}
  /\ FirstAttempt \in [Roots -> 1..MaxRetryAttempts]
  /\ ReadCount \in Nat \ {0}
  /\ PublishLimit \in Nat
  /\ MaxFaults \in Nat

VARIABLES
  stream,     (* the entries of the stream; a message id is an index        *)
  delivered,  (* last-delivered-id of the consumer group                    *)
  pel,        (* the group's pending entries list                           *)
  idle,       (* pending entries idle for claim_idle_ms or more             *)
  dedup,      (* consumer_dedup: event -> processing_result, or "none"      *)
  dlq,        (* the dead-letter stream                                     *)
  pc,         (* where each replica is in its loop                          *)
  batch,      (* records of the current batch not processed yet             *)
  cur,        (* record being processed                                     *)
  result,     (* processing_result about to be recorded                     *)
  cursor,     (* _claim_start_id; 0 stands for "0-0"                        *)
  completed,  (* history: handler runs of an event that returned            *)
  raised,     (* history: handler runs of an event that raised              *)
  faults      (* history: crashes and infrastructure errors so far          *)

redis == <<stream, delivered, pel, idle, dlq>>
local == <<pc, batch, cur, result, cursor>>
history == <<completed, raised, faults>>
vars == <<redis, dedup, local, history>>

Event == [root : Roots, attempt : 1..MaxRetryAttempts]
Outcome == {"success", "retried", "failed"}
Location == {"poll", "read", "next", "handle", "fail", "mark", "ack"}

First(r) == [root |-> r, attempt |-> FirstAttempt[r]]

\* retry_event: same work, next attempt, hence a new event identifier.
Retry(e) == [root |-> e.root, attempt |-> e.attempt + 1]

\* The event the replica is working on.
Current(c) == stream[cur[c]]

Published(e) == \E m \in DOMAIN stream : stream[m] = e
DeadLettered(e) == \E i \in DOMAIN dlq : dlq[i] = e

-----------------------------------------------------------------------------
Init ==
  /\ stream = <<>> /\ delivered = 0 /\ pel = {} /\ idle = {} /\ dlq = <<>>
  /\ dedup = [e \in Event |-> "none"]
  /\ pc = [c \in Consumers |-> "poll"]
  /\ batch = [c \in Consumers |-> {}]
  /\ cur = [c \in Consumers |-> 0]
  /\ result = [c \in Consumers |-> "success"]
  /\ cursor = [c \in Consumers |-> 0]
  /\ completed = [e \in Event |-> 0]
  /\ raised = [e \in Event |-> 0]
  /\ faults = 0

\* Upstream XADDs a root, possibly again: publishers are at-least-once too.
Publish(r) ==
  /\ Len(stream) < PublishLimit
  /\ stream' = Append(stream, First(r))
  /\ UNCHANGED <<delivered, pel, idle, dlq, dedup, local, history>>

\* A pending entry reaches claim_idle_ms, whether or not its replica is slow.
BecomeIdle(m) ==
  /\ m \in pel \ idle
  /\ idle' = idle \cup {m}
  /\ UNCHANGED <<stream, delivered, pel, dlq, dedup, local, history>>

-----------------------------------------------------------------------------
(***************************************************************************)
(* Reading: XAUTOCLAIM first, XREADGROUP only when it claims nothing.      *)
(***************************************************************************)
Claimable(c) == {m \in idle : m >= cursor[c]}

\* XAUTOCLAIM walks the pending list from the cursor and stops when it has
\* ReadCount idle entries.
Claims(c, S) ==
  /\ S \subseteq Claimable(c)
  /\ Cardinality(S) <= ReadCount
  /\ \A m \in S, k \in Claimable(c) \ S : m < k
  /\ S # Claimable(c) => Cardinality(S) = ReadCount

\* It returns where the next scan starts, or 0 once the list is exhausted.
NextCursor(S, p) ==
  LET rest == {k \in pel : \A m \in S : m < k} IN
  IF Cardinality(S) < ReadCount \/ rest = {}
  THEN p = 0
  ELSE p \in rest /\ \A k \in rest : p <= k

\* Mutant: a loop that never reclaims.
NoAutoclaim(c) ==
  /\ pc[c] = "poll"
  /\ pc' = [pc EXCEPT ![c] = "read"]
  /\ UNCHANGED <<redis, dedup, batch, cur, result, cursor, history>>

Autoclaim(c) ==
  /\ pc[c] = "poll"
  /\ \E S \in SUBSET idle, p \in pel \cup {0} :
       /\ Claims(c, S)
       /\ NextCursor(S, p)
       /\ idle' = idle \ S
       /\ batch' = [batch EXCEPT ![c] = S]
       /\ cursor' = [cursor EXCEPT ![c] = p]
       /\ pc' = [pc EXCEPT ![c] = IF S = {} THEN "read" ELSE "next"]
  /\ UNCHANGED <<stream, delivered, pel, dlq, dedup, cur, result, history>>

ReadGroup(c) ==
  /\ pc[c] = "read"
  /\ \E last \in delivered..Len(stream) :
       /\ last = delivered + ReadCount \/ last = Len(stream)
       /\ last <= delivered + ReadCount
       /\ delivered' = last
       /\ pel' = pel \cup (delivered + 1)..last
       /\ batch' = [batch EXCEPT ![c] = (delivered + 1)..last]
       /\ pc' = [pc EXCEPT ![c] = IF last = delivered THEN "poll" ELSE "next"]
  /\ UNCHANGED <<stream, idle, dlq, dedup, cur, result, cursor, history>>

-----------------------------------------------------------------------------
(***************************************************************************)
(* _process_record, one record of the batch at a time in stream order.     *)
(***************************************************************************)
\* Mutant: the handler runs whatever consumer_dedup says.
NoDedup(c) ==
  /\ pc[c] = "next"
  /\ \E m \in batch[c] :
       /\ \A k \in batch[c] : m <= k
       /\ cur' = [cur EXCEPT ![c] = m]
  /\ pc' = [pc EXCEPT ![c] = "handle"]
  /\ UNCHANGED <<redis, dedup, batch, result, cursor, history>>


CheckDedup(c) ==
  /\ pc[c] = "next"
  /\ \E m \in batch[c] :
       /\ \A k \in batch[c] : m <= k
       /\ cur' = [cur EXCEPT ![c] = m]
       /\ pc' = [pc EXCEPT ![c] = IF dedup[stream[m]] = "none"
                                  THEN "handle" ELSE "ack"]
  /\ UNCHANGED <<redis, dedup, batch, result, cursor, history>>

HandlerReturns(c) ==
  /\ pc[c] = "handle"
  /\ completed' = [completed EXCEPT ![Current(c)] = @ + 1]
  /\ result' = [result EXCEPT ![c] = "success"]
  /\ pc' = [pc EXCEPT ![c] = "mark"]
  /\ UNCHANGED <<redis, dedup, batch, cur, cursor, raised, faults>>

\* Mutant: the failed event is marked before its retry is published.
MarkBeforeRetry(c) ==
  /\ pc[c] = "handle"
  /\ raised' = [raised EXCEPT ![Current(c)] = @ + 1]
  /\ dedup' = [dedup EXCEPT ![Current(c)] = IF @ = "none" THEN "retried" ELSE @]
  /\ pc' = [pc EXCEPT ![c] = "fail"]
  /\ UNCHANGED <<redis, batch, cur, result, cursor, completed, faults>>

HandlerRaises(c) ==
  /\ pc[c] = "handle"
  /\ raised' = [raised EXCEPT ![Current(c)] = @ + 1]
  /\ pc' = [pc EXCEPT ![c] = "fail"]
  /\ UNCHANGED <<redis, dedup, batch, cur, result, cursor, completed, faults>>

\* Mutant: off by one in the comparison with max_retry_attempts.
RetryOnceMore(c) ==
  /\ pc[c] = "fail"
  /\ Current(c).attempt <= MaxRetryAttempts
  /\ stream' = Append(stream, Retry(Current(c)))
  /\ result' = [result EXCEPT ![c] = "retried"]
  /\ pc' = [pc EXCEPT ![c] = "mark"]
  /\ UNCHANGED <<delivered, pel, idle, dlq, dedup, batch, cur, cursor, history>>

PublishRetry(c) ==
  /\ pc[c] = "fail"
  /\ Current(c).attempt < MaxRetryAttempts
  /\ stream' = Append(stream, Retry(Current(c)))
  /\ result' = [result EXCEPT ![c] = "retried"]
  /\ pc' = [pc EXCEPT ![c] = "mark"]
  /\ UNCHANGED <<delivered, pel, idle, dlq, dedup, batch, cur, cursor, history>>

\* Mutant: off by one in the other direction.
DeadLetterEarly(c) ==
  /\ pc[c] = "fail"
  /\ Current(c).attempt + 1 >= MaxRetryAttempts
  /\ dlq' = Append(dlq, Current(c))
  /\ result' = [result EXCEPT ![c] = "failed"]
  /\ pc' = [pc EXCEPT ![c] = "mark"]
  /\ UNCHANGED <<stream, delivered, pel, idle, dedup, batch, cur, cursor, history>>

PublishDeadLetter(c) ==
  /\ pc[c] = "fail"
  /\ Current(c).attempt >= MaxRetryAttempts
  /\ dlq' = Append(dlq, Current(c))
  /\ result' = [result EXCEPT ![c] = "failed"]
  /\ pc' = [pc EXCEPT ![c] = "mark"]
  /\ UNCHANGED <<stream, delivered, pel, idle, dedup, batch, cur, cursor, history>>

\* Mutant: ON CONFLICT DO UPDATE, the last outcome wins.
MarkOverwrites(c) ==
  /\ pc[c] = "mark"
  /\ dedup' = [dedup EXCEPT ![Current(c)] = result[c]]
  /\ pc' = [pc EXCEPT ![c] = "ack"]
  /\ UNCHANGED <<redis, batch, cur, result, cursor, history>>

\* INSERT ... ON CONFLICT (consumer_group, event_id) DO NOTHING.
MarkProcessed(c) ==
  /\ pc[c] = "mark"
  /\ dedup' = [dedup EXCEPT ![Current(c)] = IF @ = "none" THEN result[c] ELSE @]
  /\ pc' = [pc EXCEPT ![c] = "ack"]
  /\ UNCHANGED <<redis, batch, cur, result, cursor, history>>

Ack(c) ==
  /\ pc[c] = "ack"
  /\ pel' = pel \ {cur[c]}
  /\ idle' = idle \ {cur[c]}
  /\ batch' = [batch EXCEPT ![c] = @ \ {cur[c]}]
  /\ pc' = [pc EXCEPT ![c] = IF batch[c] \subseteq {cur[c]} THEN "poll" ELSE "next"]
  /\ UNCHANGED <<stream, delivered, dlq, dedup, cur, result, cursor, history>>

-----------------------------------------------------------------------------
(***************************************************************************)
(* Faults.  An error of Redis or PostgreSQL leaves the loop body: the rest *)
(* of the batch stays pending.  A call that took effect and lost its reply *)
(* is the call followed by the error, but for XAUTOCLAIM, whose reply also *)
(* carries the cursor.                                                     *)
(***************************************************************************)
\* Mutant: the record in hand is acknowledged on the way out (a finally:).
AckOnError(c) ==
  /\ pc[c] \in {"read", "next", "fail", "mark", "ack"}
  /\ faults < MaxFaults
  /\ faults' = faults + 1
  /\ pel' = pel \ batch[c]
  /\ idle' = idle \ batch[c]
  /\ batch' = [batch EXCEPT ![c] = {}]
  /\ pc' = [pc EXCEPT ![c] = "poll"]
  /\ UNCHANGED <<stream, delivered, dlq, dedup, cur, result, cursor, completed, raised>>

\* Mutant: the outcome is recorded inside the try block of the handler, so an
\* error there is a failure to handle.
MarkInsideTry(c) ==
  /\ pc[c] \in {"read", "next", "fail", "mark", "ack"}
  /\ faults < MaxFaults
  /\ faults' = faults + 1
  /\ IF pc[c] = "mark"
     THEN pc' = [pc EXCEPT ![c] = "fail"] /\ UNCHANGED batch
     ELSE pc' = [pc EXCEPT ![c] = "poll"] /\ batch' = [batch EXCEPT ![c] = {}]
  /\ UNCHANGED <<redis, dedup, cur, result, cursor, completed, raised>>

LoopError(c) ==
  /\ pc[c] \in {"read", "next", "fail", "mark", "ack"}
  /\ faults < MaxFaults
  /\ faults' = faults + 1
  /\ batch' = [batch EXCEPT ![c] = {}]
  /\ pc' = [pc EXCEPT ![c] = "poll"]
  /\ UNCHANGED <<redis, dedup, cur, result, cursor, completed, raised>>

\* XAUTOCLAIM hands entries to a replica that never learns of it.
ClaimLost(c) ==
  /\ pc[c] = "poll"
  /\ faults < MaxFaults
  /\ faults' = faults + 1
  /\ \E S \in SUBSET idle : Claims(c, S) /\ idle' = idle \ S
  /\ UNCHANGED <<stream, delivered, pel, dlq, dedup, local, completed, raised>>

\* The replica dies, or is cancelled by a shutdown, anywhere in its loop and
\* a fresh process takes its place.
Crash(c) ==
  /\ faults < MaxFaults
  /\ faults' = faults + 1
  /\ batch' = [batch EXCEPT ![c] = {}]
  /\ cursor' = [cursor EXCEPT ![c] = 0]
  /\ pc' = [pc EXCEPT ![c] = "poll"]
  /\ UNCHANGED <<redis, dedup, cur, result, completed, raised>>

Step(c) ==
  \/ Autoclaim(c) \/ ReadGroup(c) \/ CheckDedup(c)
  \/ HandlerReturns(c) \/ HandlerRaises(c)
  \/ PublishRetry(c) \/ PublishDeadLetter(c)
  \/ MarkProcessed(c) \/ Ack(c)

Next ==
  \/ \E r \in Roots : Publish(r)
  \/ \E m \in pel : BecomeIdle(m)
  \/ \E c \in Consumers : Step(c) \/ LoopError(c) \/ ClaimLost(c) \/ Crash(c)

Spec == Init /\ [][Next]_vars

\* A live replica keeps running its loop and time passes while entries are
\* pending.  Nothing is assumed of upstream, of handlers or of faults.
Fairness ==
  /\ \A c \in Consumers : WF_vars(Step(c))
  /\ WF_vars(\E m \in pel : BecomeIdle(m))

FairSpec == Spec /\ Fairness

-----------------------------------------------------------------------------
(***************************************************************************)
(* Properties.                                                             *)
(***************************************************************************)
\* The shape of the state: the pending list holds delivered entries only, and
\* a replica that is past the duplicate check holds a delivered entry.
TypeOK ==
  /\ stream \in Seq(Event)
  /\ delivered \in 0..Len(stream)
  /\ pel \subseteq 1..delivered
  /\ idle \subseteq pel
  /\ dlq \in Seq(Event)
  /\ dedup \in [Event -> Outcome \cup {"none"}]
  /\ pc \in [Consumers -> Location]
  /\ batch \in [Consumers -> SUBSET (1..delivered)]
  /\ cur \in [Consumers -> 0..delivered]
  /\ result \in [Consumers -> Outcome]
  /\ cursor \in [Consumers -> 0..delivered]
  /\ completed \in [Event -> Nat]
  /\ raised \in [Event -> Nat]
  /\ faults \in 0..MaxFaults
  /\ \A c \in Consumers :
       pc[c] \in {"handle", "fail", "mark", "ack"} => cur[c] # 0

InFlight(m) == m > delivered \/ m \in pel

\* An entry leaves the pending list only with a recorded outcome, whatever
\* crashes, stolen entries and abandoned batches happen (worker.py run and
\* _process_record acknowledge last).
NoLostWork ==
  \A m \in DOMAIN stream : InFlight(m) \/ dedup[stream[m]] # "none"

\* Nothing that was published disappears: some attempt of it is still in
\* flight, or ran to its end, or stands in the dead-letter stream.  The three
\* writes of the failure path (publish, mark, ack) happen in an order that
\* keeps this true across a crash between any two of them.
RootAccounted ==
  \A r \in Roots :
    (\E m \in DOMAIN stream : stream[m].root = r) =>
      \E m \in DOMAIN stream :
        /\ stream[m].root = r
        /\ InFlight(m) \/ dedup[stream[m]] = "success" \/ DeadLettered(stream[m])

\* An event is dead-lettered only after its handler raised on every attempt
\* from the one it was published with to the last (_handle_failure).
AttemptsExhausted ==
  \A e \in Event : DeadLettered(e) =>
    \A k \in FirstAttempt[e.root]..MaxRetryAttempts :
      raised[[root |-> e.root, attempt |-> k]] > 0

\* Dead letters have random identifiers, so an event can have several, and an
\* operator can replay each: one for every run of its handler that raised,
\* never one for an error of the loop around it.
DeadLettersBounded ==
  \A e \in Event : Cardinality({i \in DOMAIN dlq : dlq[i] = e}) <= raised[e]

\* How often a handler can see one event: once per replica that passed the
\* duplicate check before the outcome was recorded, once more per fault.  With
\* one replica and no fault this is exactly-once, however often the event was
\* published.
RedeliveryBounded ==
  \A e \in Event : completed[e] + raised[e] <= Cardinality(Consumers) + faults

\* docs/FAQ_TECHNICAL_INTERVIEW.md:8 says consumer_dedup blocks a second
\* processing of an event.
HandledAtMostOnce == \A e \in Event : completed[e] <= 1

\* Every published root is eventually handled or dead-lettered.
EventuallySettled ==
  \A r \in Roots :
    (\E m \in DOMAIN stream : stream[m].root = r) ~>
      \/ \E e \in Event : e.root = r /\ dedup[e] = "success"
      \/ \E i \in DOMAIN dlq : dlq[i].root = r


\* The loop implements the delivery contract of EventDelivery.
Contract == INSTANCE EventDelivery WITH
  submitted <- {stream[m] : m \in DOMAIN stream},
  completed <- {e \in Event : completed[e] > 0},
  raised    <- {e \in Event : raised[e] > 0},
  dead      <- {dlq[i] : i \in DOMAIN dlq},
  outcome   <- dedup

ImplementsDelivery == Contract!Spec

\* So a consumer_dedup row keeps its promise across crashes and reclaims: the
\* handler ran, or the retry is on the stream, or the dead letter is.
OutcomesKept == Contract!OutcomeJustified
=============================================================================
