------------------------------ MODULE MCKeyCache ------------------------------
(* KeyCache for TLC: two key indices, two cipher objects. *)
EXTENDS KeyCache
===============================================================================
