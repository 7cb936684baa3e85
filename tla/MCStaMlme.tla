----------------------------- MODULE MCStaMlme -----------------------------
(* What the user does in the runs of StaMlme.                              *)
EXTENDS StaMlme
MCAll == AllUserOps
MCRestart == {"restart"}
MCScan == {"scan"}
=============================================================================
