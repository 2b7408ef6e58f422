-------------------------- MODULE MCServiceProcess --------------------------
(***************************************************************************)
(* Finite instances of ServiceProcess: a service with a stream only, as    *)
(* decision-orchestrator, and one with write endpoints only, as            *)
(* ingestion-api.                                                          *)
(***************************************************************************)
EXTENDS ServiceProcess, TLC

MCSettings ==
  [worker : {TRUE}, writes : {FALSE}, auth : {"secret", "misconfigured"}, limited : {TRUE}]
    \cup [worker : {FALSE}, writes : {TRUE}, auth : {"jwks"}, limited : {TRUE}]
    \cup [worker : {FALSE}, writes : {TRUE}, auth : {"off"}, limited : {FALSE}]
=============================================================================
