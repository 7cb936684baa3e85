---------------------------------- MODULE Phy ----------------------------------
(***************************************************************************)
(* Channel and bandwidth.  The work items of the single worker (a step of a  *)
(* scan, the association, the site survey of a linked station) and the       *)
(* silent reset, on a work queue of its own, ask for a channel and a         *)
(* bandwidth; rtl8192_phy_SwChnl and rtl8192_SetBWMode refuse a second       *)
(* request while one is in progress, and both write the RF chip over one     *)
(* serial interface whose page must be selected before and put back after    *)
(* an access: nothing excludes that two threads do so at the same time.      *)
(***************************************************************************)
EXTENDS Integers, Sequences

CONSTANTS
    Plan,       \* channels the channel plan allows (channel_map > 0)
    Net,        \* current_network.channel
    MaxCalls    \* bound on the number of calls

PhyAssumption ==
    /\ Plan \subseteq 1 .. 14 /\ Net \in Plan \cap 3 .. 12
    /\ MaxCalls \in Nat

VARIABLES
    up,       \* priv->up
    chan,     \* priv->chan
    sw,       \* SwChnlInProgress, SwChnlStage and SwChnlStep
    bw,       \* CurrentChannelBW
    bwBusy,   \* SetBWModeInProgress
    ht,       \* bCurBW40MHz and CurSTAExtChnlOffset
    htBusy,   \* bSwBwInProgress
    rf,       \* the registers of the RF chip, by page and offset
    page,     \* the page it is set to, which RfReg0Value repeats
    mac,      \* the bandwidth in BW_OPMODE and in the baseband
    th,       \* per thread: what it has to do, what it does, the RF access it is in
    owed,     \* the channel the last accepted request was to tune, 0: none since a start
    owedBw,   \* SetBWMode was accepted since the last start, and not cut off by it
    refused,  \* a later set_chan was refused, or asked for an illegal channel
    overlap,  \* two threads were in an RF access at the same time
    calls     \* calls so far

vars == <<up, chan, sw, bw, bwBusy, ht, htBusy, rf, page, mac, th, owed, owedBw, refused, overlap, calls>>

Idle == [todo |-> <<>>, at |-> "idle", rfq |-> <<>>]
Threads == {"wq", "reset"}
InRf(t) == th[t].at \in {"select", "data", "restore"}
RfTable == [r \in {0, 2} \X {7, 11, 14} |-> IF r[2] = 7 THEN 1 ELSE 20]   \* after RF configuration

Init ==
    /\ up = TRUE /\ chan = 1 /\ sw = [busy |-> FALSE, stage |-> 0, step |-> 0]
    /\ bw = 20 /\ bwBusy = FALSE /\ ht = [bw |-> 20, off |-> 0] /\ htBusy = FALSE
    /\ rf = RfTable /\ page = 0 /\ mac = 20 /\ th = [t \in Threads |-> Idle]
    /\ owed = 0 /\ owedBw = FALSE /\ refused = FALSE /\ overlap = FALSE /\ calls = 0
-----------------------------------------------------------------------------
(* The callers: a sequence of set_chan and SetBWModeHandler calls each      *)

Chan(c) == <<"chan", c>>
Bw(b) == <<"bw", b>>
Centre(h) == IF h.bw = 40 THEN Net + h.off ELSE Net

Calls(t, todo) ==
    /\ th[t] = Idle /\ calls < MaxCalls /\ calls' = calls + 1
    /\ th' = [th EXCEPT ![t].todo = todo]
    /\ UNCHANGED <<up, chan, sw, bw, bwBusy, rf, page, mac, owed, owedBw, refused, overlap>>

\* HTSetConnectBwMode: off is 2, -2 or 0 for no extension channel.
HTSetConnectBwMode(b, off) ==
    LET h == IF b = 40 /\ off # 0 THEN [bw |-> 40, off |-> off] ELSE [bw |-> 20, off |-> 0]
    IN  /\ ~htBusy /\ ht' = h /\ htBusy' = TRUE
        /\ Calls("wq", <<Chan(Centre(h)), Bw(h.bw), <<"done", 0>>>>)
\* rtllib_wx_sync_scan_wq, with one channel of the sweep.
rtllib_wx_sync_scan_wq(c) ==
    /\ Calls("wq", IF ht.bw = 40 THEN <<Bw(20), Chan(c), Chan(Centre(ht)), Bw(40)>>
                   ELSE <<Chan(c), Chan(Net)>>)
    /\ UNCHANGED <<ht, htBusy>>
rtllib_softmac_scan_wq(c) == Calls("wq", <<Chan(c)>>) /\ UNCHANGED <<ht, htBusy>>

\* The end of HTSetConnectBwModeCallback.
ConnectDone(t) ==
    /\ th[t].at = "idle" /\ th[t].todo = <<<<"done", 0>>>>
    /\ htBusy' = FALSE /\ th' = [th EXCEPT ![t] = Idle]
    /\ UNCHANGED <<up, chan, sw, bw, bwBusy, ht, rf, page, mac, owed, owedBw, refused, overlap, calls>>

Asks(t, what) == th[t].at = "idle" /\ th[t].todo # <<>> /\ th[t].todo[1][1] = what
Arg(t) == th[t].todo[1][2]
Returns(t) == [th EXCEPT ![t].at = "idle", ![t].todo = Tail(@), ![t].rfq = <<>>]
Goes(t, at) == [th EXCEPT ![t].at = at]
-----------------------------------------------------------------------------
(* rtl8192_set_chan and rtl8192_phy_SwChnl                                 *)

SwChnlAlways(t) ==    \* mutant: a switch in progress is not looked at
    /\ Asks(t, "chan") /\ chan' = Arg(t)
    /\ IF ~up THEN th' = Returns(t) /\ refused' = TRUE /\ UNCHANGED <<sw, owed>>
       ELSE /\ sw' = [busy |-> TRUE, stage |-> 0, step |-> 0] /\ th' = Goes(t, "step")
            /\ IF Arg(t) \in Plan THEN owed' = Arg(t) /\ refused' = FALSE
               ELSE refused' = TRUE /\ UNCHANGED owed
    /\ UNCHANGED <<up, bw, bwBusy, ht, htBusy, rf, page, mac, owedBw, overlap, calls>>
rtl8192_phy_SwChnl(t) ==
    /\ Asks(t, "chan") /\ chan' = Arg(t)
    /\ IF ~up \/ sw.busy THEN th' = Returns(t) /\ refused' = TRUE /\ UNCHANGED <<sw, owed>>
       ELSE /\ sw' = [busy |-> TRUE, stage |-> 0, step |-> 0] /\ th' = Goes(t, "step")
            /\ IF Arg(t) \in Plan THEN owed' = Arg(t) /\ refused' = FALSE
               ELSE refused' = TRUE /\ UNCHANGED owed
    /\ UNCHANGED <<up, bw, bwBusy, ht, htBusy, rf, page, mac, owedBw, overlap, calls>>

\* The command that the stage and the step lead to, past the ends of stages.
SwChnlCmdAgain ==    \* mutant: the end of the second stage is not found
    IF sw.stage = 0 /\ sw.step = 0 THEN "SetTxPowerLevel" ELSE "RF_WriteReg"
SwChnlCmd ==
    IF sw.stage = 0 /\ sw.step = 0 THEN "SetTxPowerLevel"
    ELSE IF sw.stage + sw.step = 1 THEN "RF_WriteReg" ELSE "End"
StartsRf(t) == overlap' = (overlap \/ \E u \in Threads \ {t} : InRf(u))

rtl8192_phy_SwChnlStepByStep(t) ==
    /\ th[t].at = "step"
    /\ \/ /\ SwChnlCmd = "End" \/ Arg(t) \notin Plan
          /\ sw' = [sw EXCEPT !.busy = FALSE] /\ th' = Returns(t) /\ UNCHANGED overlap
       \/ /\ SwChnlCmd = "SetTxPowerLevel" /\ Arg(t) \in Plan
          /\ sw' = [sw EXCEPT !.step = 1] /\ th' = Goes(t, "look") /\ UNCHANGED overlap
       \/ /\ SwChnlCmd = "RF_WriteReg" /\ Arg(t) \in Plan
          /\ sw' = [sw EXCEPT !.stage = 1, !.step = 0] /\ StartsRf(t)
          /\ th' = [th EXCEPT ![t].at = "data", ![t].rfq = <<[page |-> 0, offset |-> 7, value |-> Arg(t)]>>]
    /\ UNCHANGED <<up, chan, bw, bwBusy, ht, htBusy, rf, page, mac, owed, owedBw, refused, calls>>
\* rtl8192_phy_FinishSwChnlNow: after the delay of a step.
rtl8192_phy_FinishSwChnlNow(t) ==
    /\ th[t].at = "look"
    /\ IF up THEN th' = Goes(t, "step") /\ UNCHANGED sw
       ELSE sw' = [sw EXCEPT !.busy = FALSE] /\ th' = Returns(t)
    /\ UNCHANGED <<up, chan, bw, bwBusy, ht, htBusy, rf, page, mac, owed, owedBw, refused, overlap, calls>>
-----------------------------------------------------------------------------
(* rtl8192_SetBWMode                                                       *)

\* The accesses of PHY_SetRF8256Bandwidth: 0x0b, 0x2c (offset 14 of page 2) and 0x0e.
Bandwidth8256(b) ==
    <<[page |-> 0, offset |-> 11, value |-> b], [page |-> 2, offset |-> 14, value |-> b],
      [page |-> 0, offset |-> 14, value |-> b]>>

rtl8192_SetBWMode(t) ==
    /\ Asks(t, "bw")
    /\ IF bwBusy THEN th' = Returns(t) /\ UNCHANGED <<bw, bwBusy, owedBw>>
       ELSE /\ bw' = Arg(t) /\ bwBusy' = TRUE /\ owedBw' = up
            /\ th' = IF up THEN Goes(t, "opmode") ELSE Returns(t)   \* bwBusy stays
    /\ UNCHANGED <<up, chan, sw, ht, htBusy, rf, page, mac, owed, refused, overlap, calls>>
SetBWModeWorkItem(t) ==
    /\ th[t].at = "opmode" /\ mac' = bw /\ StartsRf(t)
    /\ th' = [th EXCEPT ![t].at = "data", ![t].rfq = Bandwidth8256(bw)]
    /\ UNCHANGED <<up, chan, sw, bw, bwBusy, ht, htBusy, rf, page, owed, owedBw, refused, calls>>
-----------------------------------------------------------------------------
(* rtl8192_phy_RFSerialWrite: select the page, write, put the page back     *)

SelectPage(t) ==
    /\ th[t].at = "select" /\ page' = th[t].rfq[1].page /\ th' = Goes(t, "data")
    /\ UNCHANGED <<up, chan, sw, bw, bwBusy, ht, htBusy, rf, mac, owed, owedBw, refused, overlap, calls>>
WriteData(t) ==
    /\ th[t].at = "data" /\ th' = Goes(t, "restore")
    /\ rf' = [rf EXCEPT ![<<page, th[t].rfq[1].offset>>] = th[t].rfq[1].value]
    /\ UNCHANGED <<up, chan, sw, bw, bwBusy, ht, htBusy, page, mac, owed, owedBw, refused, overlap, calls>>
RestorePageForgotten(t) == UNCHANGED page   \* mutant
RestorePage(t) == page' = 0
RFSerialWriteEnds(t) ==
    LET rest == Tail(th[t].rfq)
    IN  /\ th[t].at = "restore" /\ RestorePage(t)
        /\ \/ /\ rest # <<>>
              /\ th' = [th EXCEPT ![t].at = IF rest[1].page = 0 THEN "data" ELSE "select", ![t].rfq = rest]
              /\ UNCHANGED <<sw, bwBusy>>
           \/ /\ rest = <<>> /\ th[t].todo[1][1] = "chan" /\ th' = Goes(t, "look")
              /\ sw' = [sw EXCEPT !.step = @ + 1] /\ UNCHANGED bwBusy
           \/ /\ rest = <<>> /\ th[t].todo[1][1] = "bw" /\ th' = Returns(t)
              /\ bwBusy' = FALSE /\ UNCHANGED sw
        /\ UNCHANGED <<up, chan, bw, ht, htBusy, rf, mac, owed, owedBw, refused, overlap, calls>>
-----------------------------------------------------------------------------
Down ==
    /\ up /\ up' = FALSE /\ calls < MaxCalls /\ calls' = calls + 1
    /\ UNCHANGED <<chan, sw, bw, bwBusy, ht, htBusy, rf, page, mac, th, owed, owedBw, refused, overlap>>
\* The adapter is started: the chip and the registers are configured anew; a silent
\* reset of a linked station then asks for the channel of its network.
Start(linked) ==
    /\ ~up /\ up' = TRUE /\ rf' = RfTable /\ page' = 0 /\ mac' = 20
    /\ owed' = 0 /\ owedBw' = FALSE
    /\ th["reset"] = Idle /\ th' = [th EXCEPT !["reset"].todo = IF linked THEN <<Chan(Net)>> ELSE <<>>]
    /\ UNCHANGED <<chan, sw, bw, bwBusy, ht, htBusy, refused, overlap, calls>>

Step(t) ==
    \/ rtl8192_phy_SwChnl(t) \/ rtl8192_phy_SwChnlStepByStep(t) \/ rtl8192_phy_FinishSwChnlNow(t)
    \/ rtl8192_SetBWMode(t) \/ SetBWModeWorkItem(t)
    \/ SelectPage(t) \/ WriteData(t) \/ RFSerialWriteEnds(t) \/ ConnectDone(t)

Next ==
    \/ \E b \in {20, 40}, off \in {-2, 0, 2} : HTSetConnectBwMode(b, off)
    \/ \E c \in Plan : rtllib_wx_sync_scan_wq(c) \/ rtllib_softmac_scan_wq(c)
    \/ \E t \in Threads : Step(t)
    \/ Down \/ \E linked \in BOOLEAN : Start(linked)

Spec == Init /\ [][Next]_vars
\* Work items and calls that are under way go on.
Fairness == \A t \in Threads : WF_vars(Step(t))
-----------------------------------------------------------------------------
\* When no switch is in progress the chip is on the channel of the last request that
\* was accepted, and priv->chan is that channel unless a later request was refused:
\* whatever other threads asked for meanwhile, as long as no two of them were in an
\* RF access at once.
Tuned ==
    ~sw.busy /\ ~overlap /\ owed # 0 /\ up =>
      rf[<<0, 7>>] = owed /\ (~refused => chan = owed)

\* When no bandwidth change is in progress, the MAC, the baseband and the three RF
\* registers, one of them on another page, agree with CurrentChannelBW; the registers
\* of a page no request named are as the configuration left them.
BwAgrees ==
    ~bwBusy /\ ~overlap /\ up =>
      /\ owedBw => mac = bw /\ \A r \in {<<0, 11>>, <<2, 14>>, <<0, 14>>} : rf[r] = bw
      /\ rf[<<2, 7>>] = 1 /\ rf[<<2, 11>>] = 20

\* A switch ends, so that the requests after it are not refused for ever.
SwitchEnds == sw.busy ~> ~sw.busy

\* Once nothing is in progress the radio is as it was asked to be: the channel is
\* tuned and chip, baseband and driver agree on the bandwidth (rtl8192_phy_SwChnl,
\* rtl8192_SetBWModeWorkItem).
AsRequested == Tuned /\ BwAgrees
=============================================================================
