--------------------------- MODULE EventDelivery ---------------------------
(***************************************************************************)
(* What a service may rely on when it hands an event to a stream consumer  *)
(* group of FraudLiveSystem: at-least-once processing with a bounded retry *)
(* chain.  It says nothing of streams, pending lists, replicas or crashes; *)
(* StreamWorker implements it.                                             *)
(*                                                                         *)
(* An event is a root (what the publisher sent, together with all its      *)
(* retries) and an attempt number.  retry_event keeps everything of the    *)
(* event but the identifier and the attempt, so <<root, attempt>> stands   *)
(* for the identifier.                                                     *)
(***************************************************************************)
EXTENDS Naturals

CONSTANTS Roots,             (* what upstream publishes                     *)
          MaxRetryAttempts,  (* settings.max_retry_attempts                 *)
          FirstAttempt       (* attempt a root is first published with      *)

\* What a publisher and the settings owe; StreamWorker assumes it.
DeliveryAssumption ==
  /\ MaxRetryAttempts \in Nat \ {0}
  /\ FirstAttempt \in [Roots -> 1..MaxRetryAttempts]

Event == [root : Roots, attempt : 1..MaxRetryAttempts]

First(r) == [root |-> r, attempt |-> FirstAttempt[r]]

\* retry_event: same work, next attempt, hence a new event identifier.
Retry(e) == [root |-> e.root, attempt |-> e.attempt + 1]

VARIABLES submitted,  (* events that were put on the stream                 *)
          completed,  (* events whose handler ran to its end at least once  *)
          raised,     (* events whose handler raised at least once          *)
          dead,       (* events that were dead-lettered                     *)
          outcome     (* the consumer_dedup row of each event, or "none"    *)

vars == <<submitted, completed, raised, dead, outcome>>

Outcome == {"success", "retried", "failed"}

Init ==
  /\ submitted = {}
  /\ completed = {}
  /\ raised = {}
  /\ dead = {}
  /\ outcome = [e \in Event |-> "none"]

Submit(r) ==
  /\ submitted' = submitted \cup {First(r)}
  /\ UNCHANGED <<completed, raised, dead, outcome>>

\* The handler may run again after an outcome is recorded: two replicas can
\* both be past the duplicate check.
Run(e) ==
  /\ e \in submitted
  /\ \/ completed' = completed \cup {e} /\ UNCHANGED raised
     \/ raised' = raised \cup {e} /\ UNCHANGED completed
  /\ UNCHANGED <<submitted, dead, outcome>>

Resubmit(e) ==
  /\ e \in raised
  /\ e.attempt < MaxRetryAttempts
  /\ submitted' = submitted \cup {Retry(e)}
  /\ UNCHANGED <<completed, raised, dead, outcome>>

DeadLetter(e) ==
  /\ e \in raised
  /\ e.attempt = MaxRetryAttempts
  /\ dead' = dead \cup {e}
  /\ UNCHANGED <<submitted, completed, raised, outcome>>

\* What a recorded outcome promises about the event.
Justified(e, result) ==
  \/ result = "success" /\ e \in completed
  \/ result = "retried" /\ e \in raised /\ Retry(e) \in submitted
  \/ result = "failed"  /\ e \in dead

\* The outcome is recorded once and for all.
Settle(e, result) ==
  /\ outcome[e] = "none"
  /\ Justified(e, result)
  /\ outcome' = [outcome EXCEPT ![e] = result]
  /\ UNCHANGED <<submitted, completed, raised, dead>>

Next ==
  \/ \E r \in Roots : Submit(r)
  \/ \E e \in Event : Run(e) \/ Resubmit(e) \/ DeadLetter(e)
  \/ \E e \in Event, result \in Outcome : Settle(e, result)

Spec == Init /\ [][Next]_vars

-----------------------------------------------------------------------------
\* A retry is on the stream only because every earlier attempt of its root
\* raised, and a dead letter only because all attempts did.
ChainExplained ==
  /\ \A e \in submitted : \A k \in FirstAttempt[e.root]..(e.attempt - 1) :
       [root |-> e.root, attempt |-> k] \in raised
  /\ \A e \in dead : \A k \in FirstAttempt[e.root]..MaxRetryAttempts :
       [root |-> e.root, attempt |-> k] \in raised

\* What a consumer_dedup row promises stays true for ever: a handler that
\* ran, a retry on the stream, or a dead letter.  So following the outcomes
\* from a submitted root always ends in a completed run, a dead letter or an
\* event that the stream still delivers.
OutcomeJustified ==
  \A e \in Event : outcome[e] # "none" => Justified(e, outcome[e])
=============================================================================
