--------------------------------- MODULE MCHtLink ---------------------------------
(* Access points of every kind the negotiation tells apart.                          *)
EXTENDS HtLink

N40 == [rates |-> <<"cck", "cck", "cck", "cck", "ofdm", "ofdm", "ofdm", "ofdm">>,
        ratesEx |-> <<"ofdm", "ofdm", "ofdm", "ofdm">>, ht |-> TRUE, qos |-> TRUE, sec |-> "none", vendor |-> "atheros",
        w40 |-> TRUE, ext |-> "upper", tx40 |-> TRUE, sgi20 |-> FALSE, sgi40 |-> TRUE,
        factor |-> 3, density |-> 4, mcs |-> Mcs, static |-> FALSE]
\* WEP keeps it in mode G until a refusal asks for N.
WepN == [N40 EXCEPT !.w40 = FALSE, !.ext = "none", !.tx40 = FALSE, !.sgi20 = TRUE, !.sgi40 = FALSE,
                    !.mcs = 0 .. 11, !.sec = "wep", !.static = TRUE]
Legacy == [NoAp EXCEPT !.rates = <<"basic", "ofdm", "basic", "ofdm", "basic", "ofdm", "ofdm", "ofdm">>,
                       !.qos = TRUE]
\* Half N mode, and a peer of the same make.
HalfN == [N40 EXCEPT !.sec = "wep", !.vendor = "realtek", !.mcs = {}]
TkipN == [N40 EXCEPT !.sec = "tkip", !.vendor = "unknown", !.ext = "lower"]
Narrowed == [N40 EXCEPT !.tx40 = FALSE, !.sgi20 = TRUE, !.factor = 0, !.density = 6, !.sec = "ccmp",
                        !.vendor = "broadcom"]

MCAps == {N40, WepN, Legacy, HalfN, TkipN, Narrowed}
MCAirs == {[op |-> 0, erp |-> FALSE, acm |-> {6}], [op |-> 3, erp |-> FALSE, acm |-> {4, 6}],
           [op |-> 0, erp |-> TRUE, acm |-> {}]}
MCPackets == {[type |-> "eapol", len |-> 113, up |-> 0], [type |-> "dhcp", len |-> 466, up |-> 0],
              [type |-> "data", len |-> 1514, up |-> 6]}
=============================================================================
