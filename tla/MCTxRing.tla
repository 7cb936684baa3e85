-------------------------------- MODULE MCTxRing --------------------------------
(* TxRing for TLC: a ring of three descriptors, for each kind of queue. *)
EXTENDS TxRing

MCMgnt == {MGNT_QUEUE}
MCBoth == {BE_QUEUE, MGNT_QUEUE}
==============================================================================
