--------------------------- MODULE MCCasePipeline ---------------------------
(***************************************************************************)
(* Finite instances of CasePipeline.  An actor is named by its service; a  *)
(* second replica of a service carries the name with a suffix.             *)
(***************************************************************************)
EXTENDS CasePipeline, TLC

MCServes == [a \in Actors |-> IF a = "orchestrator-2" THEN "orchestrator"
                              ELSE IF a = "explain-2" THEN "explain" ELSE a]
=============================================================================
