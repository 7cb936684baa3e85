----------------------------- MODULE MCBlockAck -----------------------------
(* Sequence numbers modulo 4 and dialog tokens modulo 2, so that both wrap.*)
EXTENDS BlockAck

MCNoTimeout == {0}
MCTimeouts == {0, 5}
=============================================================================
