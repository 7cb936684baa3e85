-------------------------------- MODULE MCKeys --------------------------------
(* Keys: where they are kept (KeyCache) and what one cipher object does with its   *)
(* key (Cipher).  The two share no state, so every behaviour exercises one of them *)
(* and leaves the other in a fixed initial state.                                  *)
EXTENDS KeyCache, Cipher

VARIABLES which

MCInit ==
    /\ Init /\ CipherInit /\ which \in {"table", "cipher"}
    /\ which = "table" => alg = "CCMP" /\ hw

MCNext ==
    \/ which = "table" /\ Next /\ UNCHANGED <<which, cipherVars>>
    \/ which = "cipher" /\ CipherNext /\ UNCHANGED <<which, vars>>

MCSpec == MCInit /\ [][MCNext]_<<which, vars, cipherVars>> /\ Fairness
=============================================================================
