----------------------------- MODULE MCIngestion ----------------------------
(***************************************************************************)
(* Finite instances of Ingestion.                                          *)
(***************************************************************************)
EXTENDS Ingestion, TLC
=============================================================================
