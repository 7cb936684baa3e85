---------------------------------- MODULE HtLink ----------------------------------
(***********************************************************************************)
(* What the driver agrees on with an access point and how it then sends: the       *)
(* description of a network taken from its beacons (rtllib_rx.c), the 802.11n      *)
(* negotiation (rtl819x_HTProc.c), the handlers of rtllib_softmac.c that call it,  *)
(* the work that follows the beacons of the linked network (rtl_core.c) and the    *)
(* construction of data frames (rtllib_tx.c).  Infrastructure mode, 2.4 GHz,       *)
(* rf_type RF_2T4R, the registry settings of HTUpdateDefaultSetting.               *)
(*                                                                                 *)
(* Actors: the RX tasklet and the transmit path, atomic; the worker of ieee->wq,   *)
(* which sleeps inside HTSetConnectBwMode and during a scan; the worker of         *)
(* priv_wq.  Timeouts, semaphores and the race of a scan with the end of a link    *)
(* are StaMlme's; the channel switch itself is Phy's; the block ack that lets a    *)
(* frame be aggregated is BlockAck's, and free here.                               *)
(*                                                                                 *)
(* The access points are external.  A record of Aps holds what one announces for   *)
(* good (rates, HT capability, channel width, QoS, cipher, vendor); air is what    *)
(* it may change: the HT operating mode, protection, admission control.            *)
(***********************************************************************************)
EXTENDS Integers, Sequences, FiniteSetsExt, Functions

CONSTANTS
    Aps,        \* the access points in range
    Airs,       \* what the current one may announce: [op, erp, acm]
    Packets,    \* what the stack sends: [type, len, up]
    Fts,        \* what iwconfig gives as fragmentation threshold
    Rts,        \* RTS thresholds (ieee->rts)
    MaxJoins,   \* bound: networks chosen
    MaxChanges  \* bound: changes of what the current access point announces

Mcs == 0 .. 15
Ups == 0 .. 7
Vendors == {"realtek", "broadcom", "ralink", "atheros", "cisco", "marvell", "unknown"}

ASSUME HtLinkAssumption ==
    /\ \A a \in Aps : /\ Range(a.rates) \cup Range(a.ratesEx) \subseteq {"cck", "ofdm", "basic"} /\ {a.ht, a.qos, a.w40, a.tx40} \subseteq BOOLEAN
                      /\ {a.sgi20, a.sgi40, a.static} \subseteq BOOLEAN /\ a.mcs \subseteq Mcs
                      /\ a.sec \in {"none", "wep", "tkip", "ccmp"} /\ a.vendor \in Vendors
                      /\ a.ext \in {"none", "lower", "upper"} /\ a.factor \in 0 .. 3 /\ a.density \in 0 .. 7
                      /\ a.ht => a.qos        \* 802.11n demands it
    /\ \A a \in Airs : a.op \in 0 .. 3 /\ a.erp \in BOOLEAN /\ a.acm \subseteq Ups
    /\ \A p \in Packets : p.type \in {"eapol", "dhcp", "data"} /\ p.len \in Nat /\ 14 <= p.len /\ p.len <= 1514 /\ p.up \in Ups
    /\ \A v \in Fts : v \in Nat /\ 256 <= v /\ v <= 2346
    /\ \A v \in Rts : v \in Nat /\ v <= 2347
    /\ MaxJoins \in Nat /\ MaxChanges \in 0 .. 15

VARIABLES
    air,        \* external: what the current access point announces, and its update count
    state,      \* ieee->state
    net,        \* ieee->current_network
    ht,         \* ieee->pHTInfo
    link,       \* ieee->mode, rate, HTCurrentOperaRate, dot11HTOperationalRateSet, half mode
    asked,      \* history: the HT capability of the last association request
    acm,        \* ieee->wmm_acm: user priorities that need admission
    carrier,    \* netif_carrier_ok
    works,      \* queued works
    wq,         \* what the worker of ieee->wq sleeps in
    ratr,       \* the rate table given to the firmware (RATR0)
    heard,      \* history: the newest copy of the announcement was a beacon handled when linked
    missed,     \* history: a copy with a new count was not handled since acm was last set
    joins, changes

linkVars == <<air, state, net, ht, link, asked, acm, carrier, works, wq, ratr, heard, missed, joins, changes>>

NoRequest == [none |-> TRUE]

\* External: what a network announces until it changes.
StartAir == [op |-> 2, erp |-> FALSE, acm |-> {}, cnt |-> 0]
NoAp == [rates |-> <<"cck">>, ratesEx |-> <<>>, ht |-> FALSE, qos |-> FALSE, sec |-> "none", vendor |-> "unknown",
         w40 |-> FALSE, ext |-> "none", tx40 |-> FALSE, sgi20 |-> FALSE, sgi40 |-> FALSE,
         factor |-> 0, density |-> 0, mcs |-> {}, static |-> FALSE]

-----------------------------------------------------------------------------
(* Beacons and probe responses: how a network is described.                  *)

\* rtllib_parse_qos_info_param_IE: the priorities of an access category share its ACM bit.
rtllib_qos_convert_ac_to_parameters(a) ==
    UNION {c \in {{1, 2}, {0, 3}, {4, 5}, {6, 7}} : c \cap a.acm # {}}

\* A basic OFDM rate denies CCK; a CCK rate grants it, in the first element only: the
\* last rate that does either counts.  A rate is a CCK rate, an OFDM rate or an OFDM
\* rate of the basic set.
ReadRates(n, rates, first) ==
    LET telling == {i \in DOMAIN rates : rates[i] = "basic" \/ (first /\ rates[i] = "cck")}
    IN  [n EXCEPT !.ofdm = @ \/ \E i \in DOMAIN rates : rates[i] # "cck",
                  !.cck = IF telling = {} THEN @ ELSE rates[Max(telling)] = "cck"]

ReadHt(n, a) == [n EXCEPT !.ht = TRUE, !.op = a.op]

ReadQos(n, a) ==
    [n EXCEPT !.qos = TRUE, !.acm = rtllib_qos_convert_ac_to_parameters(a), !.cnt = a.cnt]

\* The Realtek element counts only after the HT capabilities.
ReadVendor(n, oui) ==
    IF oui = "unknown" \/ (oui = "realtek" /\ ~n.ht) THEN n ELSE [n EXCEPT !.vendors = @ \cup {oui}]

\* The loop over the elements, in the order in which access points send them.
rtllib_parse_info_param(start, ap, a) ==
    LET rates == ReadRates(start, ap.rates, TRUE)
        erp   == [rates EXCEPT !.erp = a.erp]
        ex    == ReadRates(erp, ap.ratesEx, FALSE)
        htcap == IF ap.ht THEN ReadHt(ex, a) ELSE ex
        qos   == IF ap.qos THEN ReadQos(htcap, a) ELSE htcap
    IN  ReadVendor(qos, ap.vendor)

\* The description of a 2.4 GHz network: CCK is assumed until an element denies it.
rtllib_network_init(ap, a) ==
    LET n == rtllib_parse_info_param(
                 [ap |-> ap, mode |-> "none", cck |-> TRUE, ofdm |-> FALSE, erp |-> FALSE, ht |-> FALSE,
                  op |-> 0, qos |-> FALSE, acm |-> {}, cnt |-> 0, old |-> 0, vendors |-> {},
                  prot |-> FALSE, active |-> FALSE], ap, a)
    IN  [n EXCEPT !.mode = IF n.ht THEN "N" ELSE IF ~n.ofdm THEN "B" ELSE IF n.cck THEN "BG" ELSE "G"]

\* rtllib_network_init of every announcement that can be made.
Announcements ==
    {[op |-> a.op, erp |-> a.erp, acm |-> a.acm, cnt |-> c] : a \in Airs \cup {StartAir}, c \in 0 .. MaxChanges}
Described == [ap \in Aps \cup {NoAp} |-> [a \in Announcements |-> rtllib_network_init(ap, a)]]

\* update_network keeps the QoS state and remembers the count it replaces.
update_network(dst, src) ==
    [src EXCEPT !.active = dst.active, !.old = dst.cnt, !.prot = dst.prot]

\* Only networks of exactly mode G or N have their protection updated.
UpdateProtection(n) == IF n.mode \in {"G", "N"} THEN [n EXCEPT !.prot = n.erp] ELSE n

-----------------------------------------------------------------------------
(* The negotiation, rtl819x_HTProc.c.                                        *)

rtllib_ap_sec_type == net.ap.sec
GetNmodeSupportBySecCfg == rtllib_ap_sec_type \notin {"wep", "tkip"}
IsHTHalfNmodeAPs == net.vendors \cap {"ralink", "broadcom", "realtek"} # {}

HTInitializeHTInfo ==
    [support |-> FALSE, enable |-> TRUE, bw40 |-> FALSE, tx40 |-> FALSE, sgi20 |-> FALSE,
     sgi40 |-> FALSE, ampdu |-> FALSE, factor |-> 2, density |-> 0, op |-> 0, static |-> TRUE, rt2rt |-> FALSE,
     cap |-> NoAp, infoOf |-> NoAp, infoOp |-> 0, peer |-> "unknown", cts |-> FALSE, pureN |-> FALSE]

\* The first of the known vendors, in the order of the code.
HTIOTPeerDetermine(n) ==
    LET order == <<"realtek", "broadcom", "ralink", "atheros", "cisco", "marvell">>
        known == {i \in DOMAIN order : order[i] \in n.vendors}
    IN  IF known = {} THEN "unknown" ELSE order[Min(known)]

\* HTResetIOTSetting: no peer, and neither of the two actions that outlive a request
\* (IOTAction: forced CTS to self, pure N mode).
HTResetIOTSetting(h) == [h EXCEPT !.peer = "unknown", !.cts = FALSE, !.pureN = FALSE]

\* HTResetSelfAndSavePeerSetting, and the branch of rtllib_softmac_new_net without it.
HTResetSelfAndSavePeerSetting(h, n) ==
    IF n.qos /\ n.ht
    THEN [h EXCEPT !.support = TRUE, !.cap = n.ap, !.infoOf = n.ap, !.infoOp = n.op,
                   !.rt2rt = "realtek" \in n.vendors, !.peer = HTIOTPeerDetermine(n)]
    ELSE [h EXCEPT !.support = FALSE]

\* HTSetConnectBwMode decides before it sleeps in the channel switch.
HTSetConnectBwMode(w40, ext) == w40 /\ ~link.half /\ ext # "none"

HTConstructCapabilityElement(half, encrypt) ==
    [w40 |-> ~half, mcs |-> IF half THEN 0 .. 7 ELSE Mcs,
     factor |-> IF encrypt THEN 2 ELSE 3, density |-> IF encrypt THEN 7 ELSE 0]

\* The first data rate table; the other three give the same order.
MCS_DATA_RATE == <<13, 26, 39, 52, 78, 104, 117, 130, 26, 52, 78, 104, 156, 208, 234, 260>>
HTMcsToDataRate(m) == MCS_DATA_RATE[m + 1]

\* HT_PickMCSRate: two streams are used from MCS 12 on (RATE_ADPT_2SS_MASK).
HT_PickMCSRate(set, mode) == IF mode = "N" THEN set \ (8 .. 11) ELSE {}

\* Mutant of HTFilterMCSRate: the set of the access point is used as it is.
HTFilterMCSRateAll(set, l) == set \cup Mcs

HTFilterMCSRate(set, l) ==
    LET picked == HT_PickMCSRate(set, l.mode) IN IF l.half THEN picked \cap (0 .. 7) ELSE picked

\* The first MCS of the highest data rate, as a rate above 128; 0 for none.
HTGetHighestMCSRate(set, filter) ==
    LET usable == set \cap filter
        best == {m \in usable \cup {0} : \A k \in usable : HTMcsToDataRate(k) <= HTMcsToDataRate(m)}
    IN  IF usable = {} THEN 0 ELSE 128 + Min(best)

\* The part of HTOnAssocRsp after the bandwidth switch; keyed: a pairwise key is set.
HTOnAssocRspInfo(keyed) ==
    LET cap == ht.cap IN
    [ht EXCEPT !.tx40 = ht.infoOf.tx40, !.sgi20 = cap.sgi20, !.sgi40 = cap.sgi40,
               !.ampdu = ~(rtllib_ap_sec_type \in {"wep", "tkip"} /\ ht.peer \in {"atheros", "unknown"}),
               !.factor = IF ~ht.rt2rt THEN Min({cap.factor, 2}) ELSE IF keyed THEN cap.factor ELSE 3,
               !.density = cap.density, !.static = cap.static, !.op = ht.infoOp]

HTOnAssocRspRates ==
    LET peer == IF ht.cap.mcs \cap (0 .. 7) = {} THEN ht.cap.mcs \cup (0 .. 7) ELSE ht.cap.mcs
        rates == HTFilterMCSRate(peer, link)
    IN  [link EXCEPT !.rates = rates,
                     !.htRate = HTGetHighestMCSRate(rates, IF ht.cap.static THEN 0 .. 7 ELSE Mcs)]

\* rtl8192_update_ratr_table for two transmit chains, in its mode's mask.
rtl8192_update_ratr_table(h, l) ==
    LET mask == IF l.mode # "N" THEN {} ELSE IF h.static THEN 0 .. 6 ELSE (0 .. 4) \cup (11 .. 15)
    IN  [mcs |-> l.rates \cap mask,
         sgi |-> IF h.tx40 THEN h.sgi40 ELSE h.sgi20]

\* rtl8192_link_change, as far as it concerns the rate table.
rtl8192_link_change(s, h, l) ==
    ratr' = IF s = "LINKED" THEN rtl8192_update_ratr_table(h, l) ELSE ratr

-----------------------------------------------------------------------------
LinkInit ==
    /\ air = StartAir
    /\ state = "NOLINK" /\ net = Described[NoAp][air] /\ ht = HTInitializeHTInfo
    /\ link = [mode |-> "N", rate |-> 22, htRate |-> 0, rates |-> {}, half |-> FALSE]
    /\ asked = NoRequest /\ acm = {} /\ carrier = FALSE /\ works = {} /\ wq = "idle"
    /\ ratr = [mcs |-> Mcs, sgi |-> FALSE] /\ heard = FALSE /\ missed = FALSE
    /\ joins = 0 /\ changes = 0

\* External: the access point changes what it announces and counts the change.
ApChanges ==
    /\ changes < MaxChanges /\ net.ap # NoAp
    /\ \E a \in Airs : /\ <<a.op, a.erp, a.acm>> # <<air.op, air.erp, air.acm>>
                       /\ air' = [op |-> a.op, erp |-> a.erp, acm |-> a.acm, cnt |-> air.cnt + 1]
    /\ changes' = changes + 1
    /\ UNCHANGED <<state, net, ht, link, asked, acm, carrier, works, wq, ratr, heard, missed, joins>>

\* A network of the wanted name is found.
rtllib_softmac_new_net(ap) ==
    /\ state = "NOLINK" /\ joins < MaxJoins
    /\ air' = StartAir
    /\ LET n == Described[ap][StartAir] IN
       net' = n /\ ht' = HTResetSelfAndSavePeerSetting(HTResetIOTSetting(ht), n)
    /\ state' = "ASSOCIATING" /\ works' = works \cup {"procedure"} /\ acm' = {}
    /\ joins' = joins + 1 /\ heard' = FALSE /\ missed' = FALSE
    /\ UNCHANGED <<link, asked, carrier, wq, ratr, changes>>

\* rtllib_associate_procedure_wq goes to 20 MHz and sleeps in the switch,
rtllib_associate_procedure_wq ==
    /\ wq = "idle" /\ "procedure" \in works
    /\ wq' = "procedure" /\ works' = works \ {"procedure"}
    /\ ht' = [ht EXCEPT !.bw40 = HTSetConnectBwMode(FALSE, "none")]
    /\ UNCHANGED <<air, state, net, link, asked, acm, carrier, ratr, heard, missed, joins, changes>>

\* then asks the network, whichever it is by then, for authentication.
rtllib_associate_step1 ==
    /\ wq = "procedure" /\ wq' = "idle" /\ state' = "AUTHENTICATING"
    /\ UNCHANGED <<air, net, ht, link, asked, acm, carrier, works, ratr, heard, missed, joins, changes>>

\* rtl8192_SetWirelessMode: a network with B and G rates is used in mode G.
rtl8192_SetWirelessMode(m) == IF m = "BG" THEN "G" ELSE m

\* The association request: with TKIP the station goes back to 802.11g.
AssocMode(m) == IF rtllib_ap_sec_type = "tkip" THEN "G" ELSE m

\* The authentication response, and the association request it triggers.
RxAuth ==
    /\ state = "AUTHENTICATING"
    /\ LET byCfg == ht.pureN \/ GetNmodeSupportBySecCfg
           n    == byCfg \/ IsHTHalfNmodeAPs
           half == ~byCfg /\ IsHTHalfNmodeAPs /\ net.mode = "N"
           mode == AssocMode(rtl8192_SetWirelessMode(IF n THEN net.mode ELSE "G"))
       IN  /\ link' = [link EXCEPT !.mode = mode, !.half = half]
           /\ ht' = [ht EXCEPT !.enable = mode = "N"]
           /\ asked' = IF ht.support /\ mode = "N"
                       THEN HTConstructCapabilityElement(half, net.ap.sec # "none") ELSE NoRequest
    /\ state' = "AUTHENTICATED"
    /\ UNCHANGED <<air, net, acm, carrier, works, wq, ratr, heard, missed, joins, changes>>

\* No answer: the procedure is repeated or given up (StaMlme).
AssocFails ==
    /\ state \in {"AUTHENTICATING", "AUTHENTICATED"} /\ wq = "idle"
    /\ \/ state' = "ASSOCIATING" /\ works' = works \cup {"procedure"}
       \/ state' = "NOLINK" /\ UNCHANGED works
    /\ UNCHANGED <<air, net, ht, link, asked, acm, carrier, wq, ratr, heard, missed, joins, changes>>

\* The request is refused and the procedure queued at once.  A refusal for the rates or the
\* capabilities, while the security keeps an N network in mode G, asks for mode N next time;
\* the retries are StaMlme's.
AssocRefused ==
    /\ state = "AUTHENTICATED" /\ works' = works \cup {"procedure"}
    /\ \/ UNCHANGED ht
       \/ link.mode = "G" /\ net.mode = "N" /\ ht' = [ht EXCEPT !.pureN = TRUE]
    /\ UNCHANGED <<air, state, net, link, asked, acm, carrier, wq, ratr, heard, missed, joins, changes>>

\* The association response: its elements replace those of the beacon.
RxAssocOk ==
    /\ state = "AUTHENTICATED" /\ state' = "LINKED" /\ works' = works \cup {"complete"}
    /\ ht' = IF net.ht THEN [ht EXCEPT !.cap = net.ap, !.infoOf = net.ap, !.infoOp = air.op] ELSE ht
    /\ LET seen == Described[net.ap][air] IN      \* rtl8192_qos_association_resp
       IF seen.qos
       THEN /\ net' = [net EXCEPT !.active = TRUE, !.old = net.cnt, !.cnt = seen.cnt]
            /\ acm' = seen.acm
       ELSE net' = [net EXCEPT !.active = FALSE] /\ UNCHANGED acm
    /\ missed' = FALSE /\ heard' = FALSE
    /\ UNCHANGED <<air, link, asked, carrier, wq, ratr, joins, changes>>

rtllib_is_54g == net.ap.ratesEx # <<>> \/ Len(net.ap.rates) > 4

\* rtllib_associate_complete_wq turns the carrier on before it negotiates.
rtllib_associate_complete_wq ==
    /\ wq = "idle" /\ "complete" \in works /\ works' = works \ {"complete"}
    /\ carrier' = TRUE
    /\ LET l == [link EXCEPT !.rate = IF rtllib_is_54g THEN 108 ELSE 22] IN
       IF ht.support /\ ht.enable
       THEN /\ ht' = [ht EXCEPT !.bw40 = HTSetConnectBwMode(ht.cap.w40, ht.infoOf.ext)]
            /\ link' = l /\ wq' = "complete" /\ UNCHANGED ratr
       ELSE /\ link' = [l EXCEPT !.rates = {}]
            /\ rtl8192_link_change(state, ht, link') /\ UNCHANGED <<ht, wq>>
    /\ UNCHANGED <<air, state, net, asked, acm, heard, missed, joins, changes>>

\* The rest of HTOnAssocRsp and of the work, once the switch is done.
HTOnAssocRsp ==
    /\ wq = "complete" /\ wq' = "idle" /\ heard' = FALSE
    /\ \E keyed \in BOOLEAN : ht' = HTOnAssocRspInfo(keyed)
    /\ link' = HTOnAssocRspRates /\ rtl8192_link_change(state, ht', link')
    /\ UNCHANGED <<air, state, net, asked, acm, carrier, works, missed, joins, changes>>

-----------------------------------------------------------------------------
\* Mutant of rtl8192_qos_handle_probe_response: the mask is not copied.
QosHandleKeepsAcm(n) ==
    net' = [n EXCEPT !.active = n.qos, !.old = n.cnt] /\ UNCHANGED <<acm, missed>>

\* rtl8192_qos_handle_probe_response: new parameters count when the count moved.
rtl8192_qos_handle_probe_response(n) ==
    IF n.qos
    THEN /\ net' = [n EXCEPT !.active = TRUE, !.old = n.cnt]
         /\ IF n.old # n.cnt THEN acm' = n.acm /\ missed' = FALSE ELSE UNCHANGED <<acm, missed>>
    ELSE net' = [n EXCEPT !.active = FALSE] /\ UNCHANGED <<acm, missed>>

\* A beacon, or a probe response, of the current network is copied; only a beacon
\* that finds the station linked is handled further.
rtllib_process_probe_response(beacon) ==
    /\ net.ap # NoAp
    /\ LET n == UpdateProtection(update_network(net, Described[net.ap][air])) IN
       IF beacon /\ state = "LINKED"
       THEN /\ rtl8192_qos_handle_probe_response(n)
            /\ works' = works \cup {"beacon"} /\ heard' = TRUE
       ELSE /\ net' = n /\ heard' = FALSE /\ UNCHANGED <<acm, works>>
            /\ missed' = (missed \/ n.old # n.cnt)
    /\ UNCHANGED <<air, state, ht, link, asked, carrier, wq, ratr, joins, changes>>

\* Mutant of HTUpdateSelfAndPeerSetting: the stricter mode wins for good.
HTUpdateSelfAndPeerSettingStrictest == IF net.op > ht.op THEN net.op ELSE ht.op

HTUpdateSelfAndPeerSetting == net.op

\* rtl8192_update_beacon, on the other work queue; networks without HT information keep the mode.
rtl8192_update_beacon ==
    /\ "beacon" \in works /\ works' = works \ {"beacon"}
    /\ ht' = IF ht.support /\ net.ht THEN [ht EXCEPT !.op = HTUpdateSelfAndPeerSetting] ELSE ht
    /\ UNCHANGED <<air, state, net, link, asked, acm, carrier, wq, ratr, heard, missed, joins, changes>>

\* The watchdog protects what goes up to a Broadcom peer with CTS to self.
dm_ctstoself(uplink) ==
    /\ ht.peer = "broadcom" /\ ht' = [ht EXCEPT !.cts = uplink]
    /\ UNCHANGED <<air, state, net, link, asked, acm, carrier, works, wq, ratr, heard, missed, joins, changes>>

\* Deauthentication or disassociation: the procedure is queued for the same network.
RxDeauth ==
    /\ state = "LINKED" /\ state' = "NOLINK" /\ carrier' = FALSE
    /\ works' = works \cup {"procedure"} /\ heard' = FALSE
    /\ UNCHANGED <<air, net, ht, link, asked, acm, wq, ratr, missed, joins, changes>>

\* rtllib_stop_protocol for a new name: the link ends and a scan looks for the next.
rtllib_stop_protocol ==
    /\ state = "LINKED" /\ state' = "NOLINK" /\ carrier' = FALSE /\ heard' = FALSE
    /\ UNCHANGED <<air, net, ht, link, asked, acm, works, wq, ratr, missed, joins, changes>>

\* rtllib_wx_sync_scan_wq leaves the channel of the link and returns.
rtllib_wx_sync_scan_wq ==
    /\ \/ /\ wq = "idle" /\ state = "LINKED"
          /\ wq' = "scan" /\ state' = "LINKED_SCANNING" /\ carrier' = FALSE /\ UNCHANGED ratr
       \/ /\ wq = "scan" /\ wq' = "idle" /\ state' = "LINKED" /\ carrier' = TRUE
          /\ rtl8192_link_change(state', ht, link)
    /\ UNCHANGED <<air, net, ht, link, asked, acm, works, heard, missed, joins, changes>>

-----------------------------------------------------------------------------
(* Data frames, rtllib_tx.c.                                                 *)

\* wme_downgrade_ac, and the loop that uses it while admission is required.
wme_downgrade_ac == [u \in Ups |-> CASE u \in {6, 7} -> 5 [] u \in {4, 5} -> 3 [] u \in {0, 3} -> 1 [] OTHER -> u]
Admitted(u) ==
    LET d == wme_downgrade_ac
        c == <<u, d[u], d[d[u]], d[d[d[u]]]>>
        free == {i \in 1 .. 4 : c[i] \notin acm}
    IN  IF free = {} THEN c[4] ELSE c[Min(free)]

\* r8192_wx_set_frag rounds the threshold down to an even length.
r8192_wx_set_frag(v) == v - (v % 2)

Extra(sec) == CASE sec = "none" -> 0 [] sec = "wep" -> 8 [] sec = "tkip" -> 20 [] sec = "ccmp" -> 16
HdrLen == IF net.active THEN 26 ELSE 24
Encrypt(p) == net.ap.sec # "none" /\ ~(p.type = "eapol" /\ net.ap.sec # "wep")

\* Mutant of Fragments: a packet that fills its fragments gets an empty one more.
FragmentsOneMore(bytes, per) ==
    [i \in 1 .. (bytes \div per) + 1 |-> IF i <= bytes \div per THEN per ELSE bytes % per]

\* The payload of each fragment, from the bytes of the packet and those a fragment takes.
Fragments(bytes, per) ==
    LET last == bytes % per
        nr_frags == (bytes \div per) + IF last > 0 THEN 1 ELSE 0
    IN  [i \in 1 .. nr_frags |-> IF i < nr_frags \/ last = 0 THEN per ELSE last]

\* The HT rate in mode N, unless none was ever negotiated.
CURRENT_RATE == IF link.mode = "N" /\ link.htRate # 0 THEN link.htRate ELSE link.rate

InHt == ht.support /\ ht.enable

rtllib_tx_query_agg_cap(admitted) ==
    IF InHt /\ net.active /\ GetNmodeSupportBySecCfg /\ ht.ampdu /\ admitted
    THEN [on |-> TRUE, factor |-> ht.factor, density |-> ht.density]
    ELSE [on |-> FALSE, factor |-> 0, density |-> 0]

rtllib_query_HTCapShortGI == InHt /\ IF ht.bw40 THEN ht.sgi40 ELSE ht.sgi20
rtllib_query_BandwidthMode(r) == InHt /\ r >= 128 /\ ht.bw40 /\ ht.tx40

\* "none", "rts" or "cts" (RTS with CTS to self).
rtllib_query_protectionmode(long) ==
    IF link.mode # "N" /\ long THEN "rts"
    ELSE IF link.mode = "N" /\ ht.cts THEN "cts"
    ELSE IF link.mode = "N" /\ ht.pureN THEN "rts"
    ELSE IF net.prot THEN "cts"
    ELSE IF link.mode = "N" /\ (long \/ (InHt /\ (ht.op = 3 \/ (ht.op = 2 /\ ht.bw40)))) THEN "rts" ELSE "none"

\* With QoS every fragment draws a sequence number of its own.
rtllib_query_seqnum(i) == IF net.active THEN i - 1 ELSE 0

\* The fragments and their numbers; first is the length of the first one on the air.
SplitPacket(p, fts) ==
    LET extra == IF Encrypt(p) THEN Extra(net.ap.sec) ELSE 0
        frags == Fragments(p.len - 14 + 8, fts - HdrLen - extra)
    IN  [type |-> p.type, len |-> p.len, fts |-> fts, frags |-> frags, first |-> HdrLen + frags[1] + extra,
         seqs |-> [i \in 1 .. Len(frags) |-> rtllib_query_seqnum(i)],
         up |-> IF net.active THEN Admitted(p.up) ELSE 0]

\* What the descriptor asks of the adapter; an EAPOL frame goes at the basic rate and no more.
rtllib_xmit_inter(p, fts, rts, admitted) ==
    LET long == SplitPacket(p, fts).first > rts
        r == IF p.type = "data" THEN CURRENT_RATE ELSE 2
    IN  IF p.type = "eapol"
        THEN [type |-> p.type, long |-> long, rate |-> r, ampdu |-> [on |-> FALSE, factor |-> 0, density |-> 0],
              sgi |-> FALSE, bw40 |-> FALSE, guard |-> "none"]
        ELSE [type |-> p.type, long |-> long, rate |-> r, ampdu |-> rtllib_tx_query_agg_cap(admitted),
              sgi |-> rtllib_query_HTCapShortGI, bw40 |-> rtllib_query_BandwidthMode(r),
              guard |-> rtllib_query_protectionmode(long)]

\* The packets the stack can hand over at this moment, split.
Splits == IF carrier THEN {SplitPacket(p, r8192_wx_set_frag(v)) : p \in Packets, v \in Fts} ELSE {}

\* The frames the stack and the user's settings can have it build at this moment.
Frames ==
    IF carrier
    THEN {rtllib_xmit_inter(p, r8192_wx_set_frag(v), rts, admitted) :
             p \in Packets, v \in Fts, rts \in Rts, admitted \in BOOLEAN}
    ELSE {}

-----------------------------------------------------------------------------
LinkNext ==
    \/ ApChanges
    \/ \E ap \in Aps : rtllib_softmac_new_net(ap)
    \/ rtllib_associate_procedure_wq \/ rtllib_associate_step1
    \/ RxAuth \/ AssocFails \/ AssocRefused \/ RxAssocOk
    \/ rtllib_associate_complete_wq \/ HTOnAssocRsp
    \/ \E beacon \in BOOLEAN : rtllib_process_probe_response(beacon)
    \/ rtl8192_update_beacon
    \/ \E uplink \in BOOLEAN : dm_ctstoself(uplink)
    \/ RxDeauth \/ rtllib_stop_protocol \/ rtllib_wx_sync_scan_wq

LinkSpec == LinkInit /\ [][LinkNext]_linkVars

-----------------------------------------------------------------------------
\* The link is up and the work that completes it has run.
Settled == state = "LINKED" /\ wq = "idle" /\ works \cap {"procedure", "complete"} = {}

\* What the access point's announcement lets a frame use.
Allowed(f) ==
    LET ap == net.ap IN
    /\ f.rate >= 128 => /\ f.rate - 128 \in IF ap.mcs \cap (0 .. 7) = {} THEN 0 .. 15 ELSE ap.mcs
                        /\ ap.static => f.rate - 128 < 8
                        /\ f.rate - 128 \in asked.mcs
    /\ f.bw40 => ap.w40 /\ ap.ext # "none" /\ ap.tx40 /\ asked.w40
    /\ f.sgi => IF ap.w40 /\ ap.ext # "none" /\ asked.w40 THEN ap.sgi40 ELSE ap.sgi20
    /\ f.ampdu.on => /\ ap.sec \notin {"wep", "tkip"} /\ f.ampdu.density >= ap.density
                     /\ ap.vendor # "realtek" => f.ampdu.factor <= ap.factor

(* Once a link is settled, no frame uses a rate, a width, a guard interval or an       *)
(* aggregation that its access point did not announce or the association request did   *)
(* not ask for, whatever was agreed with the networks joined before; and the rate      *)
(* table of the firmware holds no MCS it lacks.  (rtllib_associate_complete_wq,        *)
(* HTOnAssocRsp, rtllib_xmit_inter)                                                    *)
Agreed ==
    Settled =>
        /\ \A f \in Frames : Allowed(f)
        /\ ratr.mcs \subseteq IF net.ap.mcs \cap (0 .. 7) = {} THEN Mcs ELSE net.ap.mcs

(* When the newest announcement of the linked network was a beacon that the driver has *)
(* handled to the end, unicast data is protected as it asks: RTS with CTS to self for   *)
(* 802.11b stations, RTS for the HT operating modes 3 and, at 40 MHz, 2; and without    *)
(* such a need, a length above the threshold or a reason of the driver's own (uplink to *)
(* a Broadcom peer, N forced on a WEP network by a refusal), it is not: what was set    *)
(* for one network does not reach the next.  Networks of mixed B and G mode are left    *)
(* out: their protection bit is never read.  (rtl8192_update_beacon, dm_ctstoself,      *)
(* HTUpdateSelfAndPeerSetting, rtllib_query_protectionmode)                             *)
Protected ==
    (Settled /\ heard /\ "beacon" \notin works
       /\ net.mode \in {"G", "N"}) =>
        LET asks == link.mode = "N" /\ (net.op = 3 \/ (net.op = 2 /\ ht.bw40))
            forced == link.mode = "N" /\ \/ ht.cts /\ net.ap.vendor = "broadcom"
                                         \/ ht.pureN /\ net.ap.sec = "wep"
        IN
        \A f \in Frames : f.type # "eapol" =>
            IF net.erp \/ forced THEN f.guard # "none"
            ELSE f.guard = IF asks \/ f.long THEN "rts" ELSE "none"

Bytes(f) ==
    LET upto[i \in 0 .. Len(f)] == IF i = 0 THEN 0 ELSE upto[i - 1] + f[i] IN upto[Len(f)]

(* The fragments of a packet carry all its bytes and the SNAP header, none is empty,    *)
(* each fits the threshold with its header and cipher fields, and all but the last are  *)
(* alike and of even length, as the receiver needs to put them together.                *)
(* (rtllib_xmit_inter, r8192_wx_set_frag)                                               *)
Fragmented ==
    \A frame \in Splits :
        LET f == frame.frags
            extra == IF Encrypt(frame) THEN Extra(net.ap.sec) ELSE 0
        IN  /\ Bytes(f) = frame.len - 6
            /\ \A i \in 1 .. Len(f) : 0 < f[i] /\ HdrLen + extra + f[i] <= frame.fts
            /\ \A i \in 1 .. Len(f) - 1 : f[i] = f[1] /\ f[i] % 2 = 0

(* A change of the admission control that every copy of the announcement leads to a     *)
(* handled beacon takes effect: no frame then goes out in a category that requires      *)
(* admission while a lower one is free.  update_network sets old_param_count with every *)
(* copy, so a change first seen in a probe response, or during a scan, is lost.         *)
(* (update_network, rtl8192_qos_handle_probe_response, wme_downgrade_ac)                *)
AcmFollows ==
    Settled /\ heard /\ ~missed /\ net.active =>
        \A f \in Splits : f.type = "data" /\ f.up \in net.acm => {1, 2} \cap net.acm # {}

(* A beacon that was handled to the end takes effect on the frames: protection and *)
(* admission control are those it announced (rtllib_process_probe_response,        *)
(* rtl8192_handle_beacon).                                                         *)
BeaconsTakeEffect == Protected /\ AcmFollows
=============================================================================
