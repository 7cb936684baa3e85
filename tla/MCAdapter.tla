------------------------------- MODULE MCAdapter -------------------------------
(* The adapter under its threads: starts, stops and resets (Reset), with the       *)
(* driver's firmware images and command ring, and channel and bandwidth changes    *)
(* (Phy): the access point is on channel 6; the plan allows channel 4, the centre  *)
(* with the lower extension channel, and not channel 8.  Phy has starts and stops  *)
(* of its own, so every behaviour exercises one of the two modules and leaves the  *)
(* other in its initial state.                                                     *)
EXTENDS Reset

CONSTANTS Plan, Net, MaxRequests

VARIABLES which,
    phyUp, chan, sw, bw, bwBusy, ht, htBusy, rf, page, mac, th, owed, owedBw,
    refused, overlap, requests

P == INSTANCE Phy WITH MaxCalls <- MaxRequests, up <- phyUp, calls <- requests

MCImages == <<344, 55388, 2960>>
ASSUME PhyFits == P!PhyAssumption

pvars == <<phyUp, chan, sw, bw, bwBusy, ht, htBusy, rf, page, mac, th, owed, owedBw,
           refused, overlap, requests>>

MCInit == Init /\ P!Init /\ which \in {"reset", "phy"}

MCNext ==
    \/ which = "reset" /\ Next /\ UNCHANGED <<which, pvars>>
    \/ which = "phy" /\ P!Next /\ UNCHANGED <<which, vars>>

MCSpec == MCInit /\ [][MCNext]_<<which, vars, pvars>> /\ Fairness /\ P!Fairness

\* The radio is tuned to what was asked for (Phy, rtl8192_phy_SwChnl).
AsRequested == P!AsRequested
\* A channel switch ends (Phy, rtl8192_phy_FinishSwChnlNow).
SwitchEnds == P!SwitchEnds
=============================================================================
