--------------------------- MODULE MCStreamWorker ---------------------------
(***************************************************************************)
(* Finite instances of StreamWorker.  A root of value "fresh" is published *)
(* with attempt 1; "replayed" is what dlq-ops-api publishes when it keeps  *)
(* the attempt of a dead-lettered event.                                   *)
(***************************************************************************)
EXTENDS StreamWorker, TLC

MCFirstAttempt ==
  [r \in Roots |-> IF r = "replayed" THEN MaxRetryAttempts ELSE 1]

ReplicaSymmetry == Permutations(Consumers)
=============================================================================
