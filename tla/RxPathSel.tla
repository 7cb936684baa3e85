------------------------------- MODULE RxPathSel -------------------------------
(***************************************************************************)
(* dm_rxpath_sel_byrssi: which of the four receive paths of a 2T4R adapter  *)
(* are switched off because their signal is too weak beside the best one,   *)
(* when they are switched on again, and the two paths CCK frames are        *)
(* received on.  A work item queued by the watchdog runs it.                *)
(***************************************************************************)
EXTENDS Integers, FiniteSets

CONSTANT Levels   \* values of rx_rssi_percentage

Paths == 0 .. 3   \* RF90_PATH_MAX
SS_TH_low == 30
diff_TH   == 18
NoCck     == -64   \* cck_pwdb_sta of a path that received no CCK frame

VARIABLES
    on,      \* 0xc04 and 0xd04: the paths that are enabled
    th,      \* rf_enable_rssi_th
    cnt,     \* the static disabled_rf_cnt, of type u8
    cck,     \* 0xa07: the default and the optional path for CCK
    method   \* cck_method: 1, or 2 in pure B mode and for one customer

pvars == <<on, th, cnt, cck, method>>

Init ==
    /\ on = Paths /\ th = [i \in Paths |-> 100] /\ cnt = 0
    /\ cck = [def |-> 2, opt |-> 3] /\ method \in {1, 2}
-----------------------------------------------------------------------------
\* One turn of the loop that finds the best, the second and the worst path: p is
\* what is known of the enabled paths before i, and p.n is rf_num.
PickStepSameSecond(lv, p, i) ==   \* mutant: equal levels do not separate second and worst
    IF p.n = 0 THEN [max |-> i, sec |-> i, min |-> i, n |-> 1]
    ELSE IF p.n = 1 /\ lv[i] >= lv[p.max] THEN [p EXCEPT !.max = i, !.n = 2]
    ELSE IF p.n = 1 THEN [p EXCEPT !.sec = i, !.min = i, !.n = 2]
    ELSE [n   |-> p.n + 1,
          max |-> IF lv[i] > lv[p.max] THEN i ELSE p.max,
          sec |-> IF lv[i] > lv[p.max] THEN p.max ELSE IF lv[i] > lv[p.sec] THEN i ELSE p.sec,
          min |-> IF lv[i] < lv[p.min] THEN i ELSE p.min]

PickStep(lv, p, i) ==
    IF p.n = 0 THEN [max |-> i, sec |-> i, min |-> i, n |-> 1]
    ELSE IF p.n = 1 /\ lv[i] >= lv[p.max] THEN [p EXCEPT !.max = i, !.n = 2]
    ELSE IF p.n = 1 THEN [p EXCEPT !.sec = i, !.min = i, !.n = 2]
    ELSE [n   |-> p.n + 1,
          max |-> IF lv[i] > lv[p.max] THEN i ELSE p.max,
          sec |-> IF lv[i] > lv[p.max] THEN p.max
                  ELSE IF \/ lv[i] = lv[p.max] \/ lv[i] > lv[p.sec]
                          \/ (lv[i] = lv[p.sec] /\ lv[p.sec] = lv[p.min])
                  THEN i ELSE p.sec,
          min |-> IF lv[i] < lv[p.min] THEN i ELSE p.min]

\* The loop over the paths, which passes over those that are switched off.
Turn(lv, p, i) == IF i \in on THEN PickStep(lv, p, i) ELSE p
NonePicked == [max |-> 0, sec |-> 0, min |-> 0, n |-> 0]
Pick(lv) == Turn(lv, Turn(lv, Turn(lv, Turn(lv, NonePicked, 0), 1), 2), 3)

\* dm_rxpath_sel_byrssi with the signal lv of the paths and the CCK power power.
dm_rxpath_sel_byrssi(lv, power) ==
    LET p     == Pick(lv)
        q     == Pick(power)
        low   == lv[p.min] < SS_TH_low /\ cnt < 2
        off   == IF low /\ lv[p.max] - lv[p.min] >= diff_TH THEN {p.min} ELSE {}
        again == {i \in Paths \ on : lv[p.max] >= th[i]}
    IN  /\ on' = (on \ off) \cup again
        /\ th' = [i \in Paths |-> IF i \in again THEN 100
                                  ELSE IF i \in off THEN lv[p.max] + 5 ELSE th[i]]
        /\ cnt' = (cnt + Cardinality(off) + 256 - Cardinality(again)) % 256
        /\ cck' = IF method = 2
                  THEN IF power[q.max] = NoCck THEN cck ELSE [def |-> q.max, opt |-> q.sec]
                  ELSE IF low /\ lv[p.max] # 0 THEN [def |-> p.max, opt |-> p.sec] ELSE cck
        /\ UNCHANGED method

\* A start of the adapter puts the registers back, but not the driver's variables.
Restart ==
    /\ on' = Paths /\ cck' = [def |-> 2, opt |-> 3] /\ UNCHANGED <<th, cnt, method>>

\* The CCK power of a path follows its signal, unless no CCK frame has come.
Next ==
    \/ \E lv \in [Paths -> Levels] :
         \E power \in {lv, [i \in Paths |-> NoCck]} : dm_rxpath_sel_byrssi(lv, power)
    \/ Restart
-----------------------------------------------------------------------------
\* The receiver keeps at least two paths, counted so, and CCK frames are not awaited on
\* a path that the same pass, or an earlier one, switched off.
ReceiverKept ==
    /\ Cardinality(Paths \ on) <= cnt /\ cnt <= 2
    /\ method = 1 => {cck.def, cck.opt} \subseteq on
=============================================================================
