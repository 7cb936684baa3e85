----------------------------- MODULE TxPowerTrack -----------------------------
(***************************************************************************)
(* Tracking of the transmit power: every six minutes the firmware reports   *)
(* what it measured and dm_TXPowerTrackingCallback_TSSI moves one step in    *)
(* the table of baseband gains, on the transmit paths A and C of a 2T4R      *)
(* adapter; the CCK gain follows by the same number of steps, from a         *)
(* default that depends on the bandwidth.                                   *)
(***************************************************************************)
EXTENDS Integers

CONSTANT Defaults   \* table indices the registers may start with

TxBBGainTableLength == 37      \* txbbgain_table: 12 dB down to -24 dB in steps of 1 dB
CCKTxBBGainTableLength == 23   \* cck_txbbgain_table and cck_txbbgain_ch14_table
CckDefault(b) == IF b = 20 THEN 9 ELSE 0   \* CCKPresentAttentuation_20Mdefault, _40Mdefault

VARIABLES
    start,   \* rfa_txpowertracking_default, rfc_...
    idx,     \* rfa_txpowertrackingindex, rfc_...
    real,    \* rfa_txpowertrackingindex_real, rfc_...
    diff,    \* CCKPresentAttentuation_difference
    att,     \* CCKPresentAttentuation
    band,    \* CurrentChannelBW
    bwWork   \* SetBWMode was called, its second half is to come

tvars == <<start, idx, real, diff, att, band, bwWork>>
Chains == {"A", "C"}

Init ==
    /\ start \in [Chains -> Defaults] /\ idx = start /\ real = start
    /\ diff = 0 /\ att = CckDefault(20) /\ band = 20 /\ bwWork = FALSE
-----------------------------------------------------------------------------
Clamp(a) == IF a < 0 THEN 0 ELSE IF a > CCKTxBBGainTableLength - 1 THEN CCKTxBBGainTableLength - 1 ELSE a

StepDown ==
    IF \A c \in Chains : idx[c] > 0
    THEN /\ idx' = [c \in Chains |-> idx[c] - 1]
         /\ real' = [c \in Chains |-> IF real[c] > 4 THEN real[c] - 1 ELSE real[c]]
    ELSE UNCHANGED <<idx, real>>
StepUp ==
    IF \A c \in Chains : idx[c] < TxBBGainTableLength - 1
    THEN /\ idx' = [c \in Chains |-> idx[c] + 1] /\ real' = [c \in Chains |-> real[c] + 1]
    ELSE UNCHANGED <<idx, real>>

\* A report that is missing, zero or implausible, or within 3 dB, changes nothing.
dm_TXPowerTrackingCallback_TSSI ==
    /\ StepDown \/ StepUp
    /\ diff' = idx'["A"] - start["A"] /\ att' = Clamp(CckDefault(band) + diff')
    /\ UNCHANGED <<start, band, bwWork>>

rtl8192_SetBWMode ==
    /\ ~bwWork /\ band' = 60 - band /\ bwWork' = TRUE /\ UNCHANGED <<start, idx, real, diff, att>>
CCK_Tx_Power_Track_BW_SwitchOldBand ==   \* mutant
    /\ bwWork /\ bwWork' = FALSE /\ att' = Clamp(CckDefault(60 - band) + diff)
    /\ UNCHANGED <<start, idx, real, diff, band>>
CCK_Tx_Power_Track_BW_Switch ==
    /\ bwWork /\ bwWork' = FALSE /\ att' = Clamp(CckDefault(band) + diff)
    /\ UNCHANGED <<start, idx, real, diff, band>>

Next == dm_TXPowerTrackingCallback_TSSI \/ rtl8192_SetBWMode \/ CCK_Tx_Power_Track_BW_Switch
-----------------------------------------------------------------------------
\* The steps stay in the table, the index used for the register runs at most four
\* ahead of the one that is bounded, and the CCK gain is the one of the present
\* bandwidth and the present step.
GainsInStep ==
    /\ \A c \in Chains : /\ idx[c] \in 0 .. TxBBGainTableLength - 1
                         /\ real[c] - idx[c] \in 0 .. 4
    /\ ~bwWork => att = Clamp(CckDefault(band) + idx["A"] - start["A"])
=============================================================================
