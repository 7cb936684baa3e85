---------------------------------- MODULE Dm ----------------------------------
(***************************************************************************)
(* The mechanisms of hal_dm_watchdog that hold a register to the signal     *)
(* strength and to the traffic: the initial gain, the power detection       *)
(* threshold, the CCK carrier sense ratio, the rate table of the firmware,  *)
(* the transmit power and the EDCA parameters of best effort frames.  Each  *)
(* remembers what it wrote last and writes a change only, while a scan, a   *)
(* change of the bandwidth, a new association, a silent reset or a new open *)
(* of the interface write the same registers behind its back.               *)
(***************************************************************************)
EXTENDS Integers

CONSTANTS
    Rssi,       \* values of undecorated_smoothed_pwdb
    MaxEvents   \* bound on what happens beside passes of the watchdog

ASSUME DmAssumption == Rssi # {} /\ Rssi \subseteq 0 .. 100 /\ MaxEvents \in Nat

VARIABLES
    link,     \* ieee->state: "none", "linked" or "scanning" (LINKED_SCANNING)
    rssi, bw, \* the signal; CurrentChannelBW
    traffic,  \* "up", "down" or "nonbe" (bis_any_nonbepkts before every pass)
    sweep,    \* be_scan_inprogress
    backup,   \* initgain_backup, and the bandwidth the scan goes back to
    reg,      \* the registers
    dig,      \* dm_digtable and the statics of its three functions
    ra,       \* rate_adaptive.ratr_state
    pw,       \* the flags of dm_dynamic_txpower
    ed,       \* bcurrent_turbo_EDCA and bis_cur_rdlstate
    work,     \* pending: associate_complete_wq, qos_activate, the end of a silent reset
    calm,     \* passes since the last event, at most 2
    told,     \* registers another part wrote since their mechanism did, resets apart
    events    \* events so far

env == <<link, rssi, bw, traffic, sweep, backup, work, events>>
vars == <<env, reg, dig, ra, pw, ed, calm, told>>

DefaultInitialGain == 32                     \* 0x20 of the baseband table
PdValue(b, s) == [low    |-> IF b = 40 THEN 64 ELSE 66,      \* 0x40, 0x42
                  normal |-> IF b = 40 THEN 66 ELSE 68,      \* 0x42, 0x44
                  high   |-> IF b = 40 THEN 65 ELSE 67][s]   \* 0x41, 0x43
CsValue(s) == [lower |-> 8, higher |-> 205][s]
Power == <<pw.high, pw.low>>                 \* what rtl8192_phy_setTxPower writes

\* The registers after rtl8192_adapter_start and the set_chan that follows it.
Started ==
    [gain |-> DefaultInitialGain, pd |-> 68, cs |-> 205, ratr |-> "config",
     edca |-> "config", power |-> Power]

Init ==
    /\ link = "none" /\ rssi \in Rssi /\ bw = 20 /\ traffic = "up" /\ sweep = FALSE
    /\ backup = [gain |-> 0, cs |-> 0, bw |-> 20]
    /\ pw = [high |-> FALSE, low |-> FALSE, lastHigh |-> FALSE, lastLow |-> FALSE, enable |-> TRUE]
    /\ reg = Started
    /\ dig = [pre |-> 0, conn |-> FALSE, pd |-> "low", cs |-> "lower", tries |-> 0,
              stale |-> {"cs"}, lastRatr |-> "config"]
    /\ ra = "max" /\ ed = [turbo |-> FALSE, rdl |-> FALSE]
    /\ work = {} /\ calm = 0 /\ told = {} /\ events = 0
-----------------------------------------------------------------------------
(* hal_dm_watchdog                                                         *)

\* dm_check_edca_turbo: the next flags and the next register.
dm_init_edca_turbo == [turbo |-> FALSE, rdl |-> FALSE]
dm_check_edca_turbo ==
    LET down == traffic = "down"
    IN  IF link # "linked" THEN [ed |-> ed, edca |-> reg.edca]
        ELSE IF traffic = "nonbe"
        THEN [ed |-> IF ed.turbo THEN dm_init_edca_turbo ELSE ed,
              edca |-> IF ed.turbo THEN "ap" ELSE reg.edca]
        ELSE [ed |-> [turbo |-> TRUE, rdl |-> down],
              edca |-> IF ed.turbo /\ ed.rdl = down THEN reg.edca
                       ELSE IF down THEN "DL" ELSE "UL"]

\* dm_check_rate_adaptive: the thresholds depend on the state they lead to.
RaThreshSwapped ==    \* mutant: the pairs of thresholds are exchanged
    [high |-> IF ra = "high" THEN 55 ELSE 50,
     low  |-> (IF bw = 40 THEN 10 ELSE 30) + (IF ra = "low" THEN 5 ELSE 0)]
RaThresh ==
    [high |-> IF ra = "high" THEN 50 ELSE 55,
     low  |-> (IF bw = 40 THEN 10 ELSE 30) + (IF ra = "low" THEN 5 ELSE 0)]
dm_check_rate_adaptive ==
    LET s == IF rssi >= RaThresh.high THEN "high"
             ELSE IF rssi >= RaThresh.low THEN "middle" ELSE "low"
    IN  IF link # "linked" THEN [ra |-> "max", ratr |-> reg.ratr, last |-> dig.lastRatr]
        ELSE LET r == IF s = "low" THEN IF bw = 40 THEN "low40" ELSE "low20" ELSE s
             IN  [ra |-> s, ratr |-> r, last |-> IF r = reg.ratr THEN dig.lastRatr ELSE r]

\* dm_dynamic_txpower: the next flags, and whether the power is set.
dm_dynamic_txpower ==
    LET high == link = "linked" /\ (rssi >= 68 \/ (rssi >= 62 /\ pw.high))
        low  == link = "linked" /\ rssi < 68 /\ (rssi < 35 \/ (rssi < 40 /\ pw.low))
    IN  IF ~pw.enable
        THEN [pw |-> [pw EXCEPT !.high = FALSE, !.low = FALSE], set |-> FALSE]
        ELSE [pw  |-> [pw EXCEPT !.high = high, !.low = low, !.lastHigh = high, !.lastLow = low],
              set |-> <<high, low>> # <<pw.lastHigh, pw.lastLow>>]

\* dm_ctrl_initgain_byrssi_by_driverrssi.  The gain is read back, so that after the
\* function the register holds cur_ig_value whatever it held before.
Connected == link = "linked"
Steady == dig.conn = Connected
Clamp(g) == IF g > 54 THEN 54 ELSE IF g < 28 THEN 28 ELSE g   \* 0x36, 0x1c
dm_initial_gain ==
    IF sweep THEN [pre |-> dig.pre, gain |-> reg.gain]
    ELSE LET cur == IF ~Steady \/ (~Connected /\ dig.pre = 0) THEN DefaultInitialGain
                    ELSE IF Connected THEN Clamp(rssi + 10 - 12) ELSE dig.pre
         IN  [pre |-> cur, gain |-> cur]
dm_pd_th ==
    LET s == IF ~(Steady /\ Connected) \/ rssi <= 35 THEN "low"
             ELSE IF rssi >= 75 THEN "high"
             ELSE IF rssi >= 40 /\ rssi < 70 THEN "normal" ELSE dig.pd
    IN  [s |-> s, write |-> s # dig.pd \/ dig.tries <= 3 \/ "pd" \in dig.stale]
dm_cs_ratioResetMissed ==    \* mutant: a reset does not force the write
    LET s == IF ~(Steady /\ Connected) \/ rssi <= 35 THEN "lower"
             ELSE IF rssi >= 40 THEN "higher" ELSE dig.cs
    IN  [s |-> s, write |-> s # dig.cs]
dm_cs_ratio ==
    LET s == IF ~(Steady /\ Connected) \/ rssi <= 35 THEN "lower"
             ELSE IF rssi >= 40 THEN "higher" ELSE dig.cs
    IN  [s |-> s, write |-> s # dig.cs \/ "cs" \in dig.stale]

hal_dm_watchdog ==
    LET e == dm_check_edca_turbo  r == dm_check_rate_adaptive  p == dm_dynamic_txpower
        g == dm_initial_gain  d == dm_pd_th  c == dm_cs_ratio
    IN  /\ ed' = e.ed /\ ra' = r.ra /\ pw' = p.pw
        /\ dig' = [pre |-> g.pre, conn |-> Connected, pd |-> d.s, cs |-> c.s,
                   tries |-> IF d.write /\ dig.tries <= 3 THEN dig.tries + 1 ELSE dig.tries,
                   stale |-> {}, lastRatr |-> r.last]
        /\ reg' = [gain  |-> g.gain, ratr |-> r.ratr, edca |-> e.edca,
                   power |-> IF p.set THEN <<p.pw.high, p.pw.low>> ELSE reg.power,
                   pd    |-> IF d.write THEN PdValue(bw, d.s) ELSE reg.pd,
                   cs    |-> IF c.write THEN CsValue(c.s) ELSE reg.cs]
        /\ told' = told \ ((IF d.write THEN {"pd"} ELSE {}) \cup (IF c.write THEN {"cs"} ELSE {})
                           \cup (IF p.set THEN {"power"} ELSE {})
                           \cup (IF e.edca # reg.edca \/ ~e.ed.turbo THEN {"edca"} ELSE {}))
        /\ calm' = IF calm < 2 THEN calm + 1 ELSE calm
        /\ UNCHANGED env
-----------------------------------------------------------------------------
(* What else writes the registers                                          *)

PowerTold == IF Power = <<pw.lastHigh, pw.lastLow>> THEN {} ELSE {"power"}
Event == events < MaxEvents /\ events' = events + 1 /\ calm' = 0

Signal(r) ==
    /\ Event /\ r # rssi /\ rssi' = r
    /\ UNCHANGED <<link, bw, traffic, sweep, backup, work, reg, dig, ra, pw, ed, told>>
Traffic(t) ==
    /\ Event /\ t # traffic /\ traffic' = t
    /\ UNCHANGED <<link, rssi, bw, sweep, backup, work, reg, dig, ra, pw, ed, told>>

\* rtllib_associate_complete and rtl8192_qos_association_resp; the rest is queued.
Associated ==
    /\ Event /\ link = "none" /\ work = {} /\ link' = "linked"
    /\ ed' = dm_init_edca_turbo /\ told' = told \ {"edca"}
    /\ work' = {"associate_complete", "qos_activate"}
    /\ UNCHANGED <<rssi, bw, traffic, sweep, backup, reg, dig, ra, pw>>
\* rtl8192_link_change, with the rate table of the access point, and the bandwidth.
rtllib_associate_complete_wq(b) ==
    /\ "associate_complete" \in work /\ work' = work \ {"associate_complete"}
    /\ reg' = [reg EXCEPT !.ratr = IF link = "linked" THEN "table" ELSE reg.ratr,
                          !.pd = PdValue(b, "normal")]
    /\ bw' = b /\ told' = told \cup {"pd"} /\ calm' = 0
    /\ UNCHANGED <<link, rssi, traffic, sweep, backup, events, dig, ra, pw, ed>>
rtl8192_qos_activate ==
    /\ "qos_activate" \in work /\ work' = work \ {"qos_activate"}
    /\ IF link = "linked"
       THEN /\ reg' = [reg EXCEPT !.edca = "ap"]
            /\ told' = IF ed.turbo THEN told \cup {"edca"} ELSE told
       ELSE UNCHANGED <<reg, told>>
    /\ calm' = 0 /\ UNCHANGED <<link, rssi, bw, traffic, sweep, backup, events, dig, ra, pw, ed>>
Disassociated ==
    /\ Event /\ link = "linked" /\ "reset" \notin work /\ link' = "none"
    /\ UNCHANGED <<rssi, bw, traffic, sweep, backup, work, reg, dig, ra, pw, ed, told>>

\* rtllib_wx_sync_scan_wq of a linked station: IG_Backup, 20 MHz, the sweep.
InitialGainBackup ==
    /\ Event /\ link = "linked" /\ "reset" \notin work /\ link' = "scanning" /\ sweep' = TRUE
    /\ backup' = [gain |-> reg.gain, cs |-> reg.cs, bw |-> bw] /\ bw' = 20
    /\ reg' = [reg EXCEPT !.gain = 23, !.cs = 8, !.pd = IF bw = 40 THEN 68 ELSE reg.pd]
    /\ told' = told \cup {"cs"} \cup (IF bw = 40 THEN {"pd"} ELSE {})
    /\ UNCHANGED <<rssi, traffic, work, dig, ra, pw, ed>>
SweepEnds ==
    /\ sweep /\ sweep' = FALSE /\ calm' = 0
    /\ UNCHANGED <<link, rssi, bw, traffic, backup, work, events, reg, dig, ra, pw, ed, told>>
\* The bandwidth, IG_Restore (which sets the power too), and linked again.
InitialGainRestore ==
    /\ link = "scanning" /\ ~sweep /\ link' = "linked" /\ calm' = 0
    /\ bw' = IF backup.bw = 40 THEN 40 ELSE bw
    /\ reg' = [reg EXCEPT !.gain = backup.gain, !.cs = backup.cs, !.power = Power, !.ratr = "table",
                          !.pd = IF backup.bw = 40 THEN 66 ELSE reg.pd]
    /\ told' = told \cup {"cs"} \cup (IF backup.bw = 40 THEN {"pd"} ELSE {})
                    \cup PowerTold
    /\ UNCHANGED <<rssi, traffic, sweep, backup, work, events, dig, ra, pw, ed>>

\* The measurement of the transmit power switches dm_dynamic_txpower off; the ways out
\* of it that find a reset, or a report of zero, leave it off.
dm_TXPowerTrackingCallback(enable) ==
    /\ Event /\ pw.enable # enable /\ pw' = [pw EXCEPT !.enable = enable]
    /\ UNCHANGED <<link, rssi, bw, traffic, sweep, backup, work, reg, dig, ra, ed, told>>

\* A silent reset starts the adapter; a pass may run before reset_count is advanced.
rtl819x_ifsilentreset ==
    /\ Event /\ link # "scanning" /\ "reset" \notin work
    /\ reg' = Started
    /\ work' = work \cup {"reset"} \cup (IF link = "linked" THEN {"associate_complete"} ELSE {})
    /\ told' = (told \cup {"pd", "cs"}) \cup (IF ed.turbo THEN {"edca"} ELSE {})
                    \cup PowerTold
    /\ UNCHANGED <<link, rssi, bw, traffic, sweep, backup, dig, ra, pw, ed>>
dm_restore_dynamic_mechanism_state ==
    /\ "reset" \in work /\ work' = work \ {"reset"} /\ calm' = 0
    /\ reg' = [reg EXCEPT !.ratr = dig.lastRatr]
    /\ dig' = [dig EXCEPT !.stale = {"pd", "cs"}] /\ told' = told \ {"pd", "cs"}
    /\ UNCHANGED <<link, rssi, bw, traffic, sweep, backup, events, ra, pw, ed>>
\* Close and open: the registers start anew, reset_count and the statics do not.
Reopened ==
    /\ Event /\ link # "scanning" /\ "reset" \notin work
    /\ link' = "none" /\ work' = {} /\ reg' = Started
    /\ told' = (told \cup {"pd", "cs"}) \cup (IF ed.turbo THEN {"edca"} ELSE {})
                    \cup PowerTold
    /\ UNCHANGED <<rssi, bw, traffic, sweep, backup, dig, ra, pw, ed>>

Next ==
    \/ hal_dm_watchdog
    \/ \E r \in Rssi : Signal(r)
    \/ \E t \in {"up", "down", "nonbe"} : Traffic(t)
    \/ Associated \/ (\E b \in {20, 40} : rtllib_associate_complete_wq(b)) \/ rtl8192_qos_activate
    \/ Disassociated \/ InitialGainBackup \/ SweepEnds \/ InitialGainRestore
    \/ \E enable \in BOOLEAN : dm_TXPowerTrackingCallback(enable)
    \/ rtl819x_ifsilentreset \/ dm_restore_dynamic_mechanism_state \/ Reopened

Spec == Init /\ [][Next]_vars
-----------------------------------------------------------------------------
\* The mechanisms come to rest: with the same signal, traffic and link for two
\* passes, a further pass writes no other value to any register, whatever states the
\* scans, resets and associations before left behind (no two thresholds chase each other).
Quiet == [][hal_dm_watchdog /\ calm >= 2 => reg' = reg]_vars

\* After a pass, a register that nothing but its mechanism wrote since holds what the
\* mechanism believes it wrote; a silent reset leaves none behind, because reset_count
\* makes the next pass write again.
Believed ==
    calm >= 1 =>
      /\ "pd" \notin told => reg.pd = PdValue(bw, dig.pd)
      /\ "cs" \notin told => reg.cs = CsValue(dig.cs)
      /\ "power" \notin told /\ pw.enable => reg.power = Power
      /\ "edca" \notin told /\ ed.turbo => reg.edca = IF ed.rdl THEN "DL" ELSE "UL"
      /\ link = "linked" /\ ~sweep => reg.gain = dig.pre /\ reg.ratr \in {"high", "middle", "low20", "low40"}
=============================================================================
