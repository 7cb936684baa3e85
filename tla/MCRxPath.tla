------------------------------- MODULE MCRxPath -------------------------------
(* RxPath for TLC. *)
EXTENDS RxPath
===============================================================================
