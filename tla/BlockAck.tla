------------------------------ MODULE BlockAck ------------------------------
(***************************************************************************)
(* The block ack agreements of one TX traffic stream record, and of the RX *)
(* record of the same peer and TID: rtl819x_BAProc.c, the ADDBA timer of   *)
(* rtl819x_TSProc.c and rtllib_tx_query_agg_cap of rtllib_tx.c.            *)
(*                                                                         *)
(* Actors: the transmit path (under ieee->lock), the RX tasklet, the       *)
(* kernel timers, and RemoveTsEntry, which the management code runs in     *)
(* process context.  None of them locks the record.  A removal can be      *)
(* interrupted between its steps by everything else; the RX tasklet only   *)
(* on a machine with another CPU (Smp).                                    *)
(*                                                                         *)
(* bAddBaReqDelayed only chooses between two delays of TsAddBaTimer and is *)
(* left out: the model's timers fire at any time.                          *)
(*                                                                         *)
(* The peer is external: it answers with any token, status, policy and     *)
(* timeout, at any time, more than once or never.                          *)
(***************************************************************************)
EXTENDS Integers

CONSTANTS
    Smp,        \* another CPU runs between two steps of the RX tasklet
    SeqMod,     \* 4096: sequence numbers of TxCurSeq
    TokenMod,   \* 256: DialogToken is a u8
    Timeouts    \* BA timeout values peers answer with, 0 for none

ASSUME BaAssumption ==
    /\ Smp \in BOOLEAN /\ SeqMod \in Nat \ {0, 1} /\ TokenMod \in Nat \ {0, 1}
    /\ Timeouts \subseteq Nat

VARIABLES
    inUse,      \* the TX record is on Tx_TS_Admit_List
    flags,      \* bAddBaReqInProgress, bUsingBa, bDisable_AddBa
    txCurSeq,   \* TxCurSeq
    pend,       \* TxPendingBARecord
    adm,        \* TxAdmittedBARecord
    timers,     \* which of TsAddBaTimer and the two BA timers are pending
    rxValid,    \* RxAdmittedBARecord.bValid of the admitted RX record, if any
    rx,         \* the handler the RX tasklet is in, and its frame
    removing,   \* how far RemoveTsEntry of the TX record has come
    hung,       \* a timer handler waits for itself
    asked,      \* history: the start sequence number last sent with each token
    orphan      \* history: the record was given away with the inactivity timer
                \* of its former stream still running

record == <<flags, txCurSeq, pend, adm>>
vars == <<inUse, flags, txCurSeq, pend, adm, timers, rxValid, rx, removing, hung, asked, orphan>>

Seqs == 0..(SeqMod - 1)
Tokens == 0..(TokenMod - 1)
NotAsked == -1
NoBa == [valid |-> FALSE, token |-> 0, start |-> 0]
NoFlags == [inProgress |-> FALSE, usingBa |-> FALSE, disabled |-> FALSE]
NoTimers == [addBa |-> FALSE, setup |-> FALSE, inact |-> FALSE]
IdleRx == [pc |-> "idle", token |-> 0, ok |-> FALSE, timeout |-> 0]

SN_LESS(a, b) == (a - b) % SeqMod >= SeqMod \div 2

Init ==
    /\ inUse = FALSE /\ flags = NoFlags /\ txCurSeq = 0 /\ pend = NoBa /\ adm = NoBa
    /\ timers = NoTimers
    /\ rxValid = FALSE /\ rx = IdleRx
    /\ removing = "no" /\ hung = FALSE
    /\ asked = [t \in Tokens |-> NotAsked] /\ orphan = FALSE

(* Timers and the transmit path run while the RX tasklet is idle, or on    *)
(* another CPU.  A handler that waits for itself never lets go.            *)
MayRun == ~hung /\ (Smp \/ rx.pc = "idle")
TaskletFree == ~hung /\ rx.pc = "idle"

-----------------------------------------------------------------------------
(* The transmit path.                                                      *)

(* GetTs takes the record for a new stream: ResetTxTsEntry does not touch  *)
(* the timers.                                                             *)
ResetTxTsEntry ==
    /\ MayRun /\ ~inUse
    /\ inUse' = TRUE
    /\ flags' = NoFlags /\ txCurSeq' = 0 /\ pend' = NoBa /\ adm' = NoBa
    /\ asked' = [t \in Tokens |-> NotAsked] /\ orphan' = timers.inact
    /\ UNCHANGED <<timers, rxValid, rx, removing, hung>>

TsStartAddBaProcess ==
    IF flags.inProgress THEN UNCHANGED <<flags, timers>>
    ELSE flags' = [flags EXCEPT !.inProgress = TRUE] /\ timers' = [timers EXCEPT !.addBa = TRUE]

(* A QoS data frame takes a sequence number.                               *)
rtllib_query_seqnum == txCurSeq' = (txCurSeq + 1) % SeqMod

(* With its sequence number taken, rtllib_tx_query_agg_cap decides about   *)
(* aggregation.  quiet: the keys of a WPA network are not there yet, or    *)
(* the frame is a DHCP packet.                                             *)
Xmit(quiet) ==
    /\ MayRun /\ inUse
    /\ rtllib_query_seqnum
    /\ \/ /\ ~adm.valid
          /\ IF quiet \/ flags.disabled THEN UNCHANGED <<flags, timers>>
             ELSE TsStartAddBaProcess
       \/ /\ adm.valid /\ ~flags.usingBa
          /\ flags' = [flags EXCEPT !.usingBa = SN_LESS(adm.start, (txCurSeq' + 1) % SeqMod)]
          /\ UNCHANGED timers
       \/ adm.valid /\ flags.usingBa /\ UNCHANGED <<flags, timers>>
    /\ UNCHANGED <<inUse, pend, adm, rxValid, rx, removing, hung, asked, orphan>>

-----------------------------------------------------------------------------
(* The timers.                                                             *)

(* Mutant of TsInitAddBA: the setup timer is not started.                  *)
TsInitAddBANoTimer ==
    /\ ~pend.valid
    /\ pend' = [valid |-> TRUE, token |-> (pend.token + 1) % TokenMod, start |-> (txCurSeq + 3) % SeqMod]
    /\ asked' = [asked EXCEPT ![pend'.token] = pend'.start]
    /\ timers' = [timers EXCEPT !.addBa = FALSE]

(* TsInitAddBA: one request at a time; the token and the start sequence    *)
(* number are new.                                                         *)
TsInitAddBA ==
    IF pend.valid THEN UNCHANGED <<pend, asked>> /\ timers' = [timers EXCEPT !.addBa = FALSE]
    ELSE LET token == (pend.token + 1) % TokenMod
             start == (txCurSeq + 3) % SeqMod
         IN  /\ pend' = [valid |-> TRUE, token |-> token, start |-> start]
             /\ asked' = [asked EXCEPT ![token] = start]
             /\ timers' = [timers EXCEPT !.addBa = FALSE, !.setup = TRUE]

TsAddBaProcess ==
    /\ MayRun /\ timers.addBa
    /\ TsInitAddBA
    /\ UNCHANGED <<inUse, flags, txCurSeq, adm, rxValid, rx, removing, hung, orphan>>

(* Mutant of BaSetupTimeOut: bAddBaReqInProgress is left set.              *)
BaSetupTimeOutKeepsProgress ==
    /\ MayRun /\ timers.setup
    /\ timers' = [timers EXCEPT !.setup = FALSE]
    /\ pend' = [pend EXCEPT !.valid = FALSE]
    /\ UNCHANGED <<inUse, flags, txCurSeq, adm, rxValid, rx, removing, hung, asked, orphan>>

(* No answer within BA_SETUP_TIMEOUT.                                      *)
BaSetupTimeOut ==
    /\ MayRun /\ timers.setup
    /\ timers' = [timers EXCEPT !.setup = FALSE]
    /\ flags' = [flags EXCEPT !.inProgress = FALSE]
    /\ pend' = [pend EXCEPT !.valid = FALSE]
    /\ UNCHANGED <<inUse, txCurSeq, adm, rxValid, rx, removing, hung, asked, orphan>>

DeActivatePending ==
    /\ pend' = [pend EXCEPT !.valid = FALSE]
    /\ timers' = [timers EXCEPT !.setup = FALSE]

(* DeActivateBAEntry of the valid ones of the two records.                 *)
TxTsDeleteBA ==
    /\ pend' = [pend EXCEPT !.valid = FALSE]
    /\ adm' = [adm EXCEPT !.valid = FALSE]
    /\ timers' = [timers EXCEPT !.setup = timers.setup /\ ~pend.valid,
                                !.inact = timers.inact /\ ~adm.valid]

(* The agreement's time is over.  TxTsDeleteBA calls del_timer_sync on the *)
(* timer whose handler this is, if the record is valid: it waits for       *)
(* itself.  Otherwise a DELBA is sent.                                     *)
TxBaInactTimeout ==
    /\ MayRun /\ timers.inact
    /\ IF adm.valid
       THEN /\ hung' = TRUE
            /\ pend' = [pend EXCEPT !.valid = FALSE]
            /\ adm' = [adm EXCEPT !.valid = FALSE]
            /\ timers' = [timers EXCEPT !.inact = FALSE, !.setup = timers.setup /\ ~pend.valid]
       ELSE /\ hung' = hung
            /\ pend' = [pend EXCEPT !.valid = FALSE] /\ adm' = adm
            /\ timers' = [timers EXCEPT !.inact = FALSE, !.setup = timers.setup /\ ~pend.valid]
    /\ UNCHANGED <<inUse, flags, txCurSeq, rxValid, rx, removing, asked, orphan>>

-----------------------------------------------------------------------------
(* The RX tasklet.  A handler that found its record keeps the pointer,     *)
(* even when the record is removed and given away meanwhile.               *)

(* An ADDBA response for a stream without a record, or while the           *)
(* capabilities are missing, only sends a DELBA.                           *)
rtllib_rx_ADDBARsp(token, ok, timeout) ==
    /\ TaskletFree /\ inUse
    /\ flags' = [flags EXCEPT !.inProgress = FALSE]
    /\ rx' = [pc |-> "rsp", token |-> token, ok |-> ok, timeout |-> timeout]
    /\ UNCHANGED <<inUse, txCurSeq, pend, adm, timers, rxValid, removing, hung, asked, orphan>>

(* Mutant of RspCheck: the dialog token is not compared.                   *)
RspCheckAnyToken ==
    /\ rx.pc = "rsp"
    /\ IF adm.valid \/ ~pend.valid
       THEN rx' = IdleRx /\ UNCHANGED <<pend, timers>>
       ELSE rx' = [rx EXCEPT !.pc = "answered"] /\ DeActivatePending
    /\ UNCHANGED <<inUse, flags, txCurSeq, adm, rxValid, removing, hung, asked, orphan>>

(* Dropped when an agreement is there already, rejected with a DELBA when  *)
(* it answers no pending request.                                          *)
RspCheck ==
    /\ rx.pc = "rsp"
    /\ IF adm.valid \/ ~pend.valid \/ rx.token # pend.token
       THEN rx' = IdleRx /\ UNCHANGED <<pend, timers>>
       ELSE rx' = [rx EXCEPT !.pc = "answered"] /\ DeActivatePending
    /\ UNCHANGED <<inUse, flags, txCurSeq, adm, rxValid, removing, hung, asked, orphan>>

(* Success with an immediate policy: the agreement takes the answer's      *)
(* token and timeout and the request's start sequence number.              *)
RspAdmit ==
    /\ rx.pc = "answered" /\ rx.ok
    /\ adm' = [valid |-> TRUE, token |-> rx.token, start |-> pend.start]
    /\ timers' = [timers EXCEPT !.inact = rx.timeout # 0]
    /\ rx' = IdleRx
    /\ UNCHANGED <<inUse, flags, txCurSeq, pend, rxValid, removing, hung, asked, orphan>>

(* A delayed policy ends the attempt; a refusal ends all requests.         *)
RspRefuse(refused) ==
    /\ rx.pc = "answered" /\ ~rx.ok
    /\ flags' = [flags EXCEPT !.disabled = flags.disabled \/ refused]
    /\ IF refused THEN UNCHANGED <<adm, timers>>
       ELSE adm' = [adm EXCEPT !.valid = FALSE] /\ timers' = [timers EXCEPT !.inact = FALSE]
    /\ rx' = IdleRx
    /\ UNCHANGED <<inUse, txCurSeq, pend, rxValid, removing, hung, asked, orphan>>

(* Mutant of rtllib_rx_DELBA: bUsingBa is left set.                        *)
rtllib_rx_DELBAKeepsUsing(initiator) ==
    /\ TaskletFree /\ inUse
    /\ flags' = [flags EXCEPT !.inProgress = FALSE]
    /\ rx' = [IdleRx EXCEPT !.pc = "delba"]
    /\ UNCHANGED <<inUse, txCurSeq, pend, adm, timers, rxValid, removing, hung, asked, orphan>>

(* A DELBA.  The parameter set is read behind the frame, so which          *)
(* direction it names does not depend on the frame.                        *)
rtllib_rx_DELBA(initiator) ==
    /\ TaskletFree
    /\ IF initiator
       THEN rxValid' = FALSE /\ UNCHANGED <<flags, rx>>
       ELSE /\ inUse
            /\ flags' = [flags EXCEPT !.usingBa = FALSE, !.inProgress = FALSE]
            /\ rx' = [IdleRx EXCEPT !.pc = "delba"]
            /\ UNCHANGED rxValid
    /\ UNCHANGED <<inUse, txCurSeq, pend, adm, timers, removing, hung, asked, orphan>>

(* del_timer_sync of TsAddBaTimer.                                         *)
DelbaStopTimer ==
    /\ rx.pc = "delba"
    /\ timers' = [timers EXCEPT !.addBa = FALSE]
    /\ rx' = [rx EXCEPT !.pc = "delba2"]
    /\ UNCHANGED <<inUse, flags, txCurSeq, pend, adm, rxValid, removing, hung, asked, orphan>>

DelbaDelete ==
    /\ rx.pc = "delba2"
    /\ TxTsDeleteBA
    /\ rx' = IdleRx
    /\ UNCHANGED <<inUse, flags, txCurSeq, rxValid, removing, hung, asked, orphan>>

(* A request of the peer: refused when the capabilities are missing, there *)
(* is no RX record (refused) or the policy is delayed; the record stays    *)
(* with the stream in the last case.                                       *)
rtllib_rx_ADDBAReq(policyOk) ==
    /\ TaskletFree
    /\ rxValid' = (policyOk \/ rxValid)
    /\ UNCHANGED <<inUse, record, timers, rx, removing, hung, asked, orphan>>

-----------------------------------------------------------------------------
(* RemoveTsEntry and the list operations behind it.                        *)
RemoveRxTs ==
    /\ MayRun /\ rxValid
    /\ rxValid' = FALSE
    /\ UNCHANGED <<inUse, record, timers, rx, removing, hung, asked, orphan>>

TsInitDelBA ==
    /\ MayRun /\ inUse /\ removing = "no"
    /\ TxTsDeleteBA
    /\ removing' = "deleted"
    /\ UNCHANGED <<inUse, flags, txCurSeq, rxValid, rx, hung, asked, orphan>>

RemoveTsEntry ==
    /\ MayRun /\ removing = "deleted"
    /\ timers' = [timers EXCEPT !.addBa = FALSE]
    /\ inUse' = FALSE
    /\ removing' = "no"
    /\ UNCHANGED <<record, rxValid, rx, hung, asked, orphan>>

Next ==
    \/ ResetTxTsEntry
    \/ \E quiet \in BOOLEAN : Xmit(quiet)
    \/ TsAddBaProcess \/ BaSetupTimeOut \/ TxBaInactTimeout
    \/ \E token \in Tokens, ok \in BOOLEAN, timeout \in Timeouts :
          rtllib_rx_ADDBARsp(token, ok, timeout)
    \/ RspCheck \/ RspAdmit
    \/ \E refused \in BOOLEAN : RspRefuse(refused)
    \/ \E initiator \in BOOLEAN : rtllib_rx_DELBA(initiator)
    \/ DelbaStopTimer \/ DelbaDelete
    \/ \E policyOk \in BOOLEAN : rtllib_rx_ADDBAReq(policyOk)
    \/ RemoveRxTs \/ TsInitDelBA \/ RemoveTsEntry

Spec == Init /\ [][Next]_vars

(* Kernel timers fire, and a handler of the RX tasklet and a removal run   *)
(* to their end.                                                           *)
FairSpec ==
    /\ Spec
    /\ WF_vars(TsAddBaProcess) /\ WF_vars(BaSetupTimeOut)
    /\ WF_vars(RspCheck) /\ WF_vars(RspAdmit) /\ WF_vars(\E r \in BOOLEAN : RspRefuse(r))
    /\ WF_vars(DelbaStopTimer) /\ WF_vars(DelbaDelete) /\ WF_vars(RemoveTsEntry)

-----------------------------------------------------------------------------
BaRecords == [valid : BOOLEAN, token : Tokens, start : Seqs]
Flags == [inProgress : BOOLEAN, usingBa : BOOLEAN, disabled : BOOLEAN]
Timers == [addBa : BOOLEAN, setup : BOOLEAN, inact : BOOLEAN]
Handlers == [pc : {"idle", "rsp", "answered", "delba", "delba2"}, token : Tokens,
             ok : BOOLEAN, timeout : Timeouts \cup {0}]
Starts == [Tokens -> Seqs \cup {NotAsked}]

(* The variables stay in their types: the start sequence number that       *)
(* TsInitAddBA puts into the record is a 12-bit number and the dialog      *)
(* token a u8.                                                             *)
TypeOK ==
    /\ inUse \in BOOLEAN /\ rxValid \in BOOLEAN /\ hung \in BOOLEAN
    /\ flags \in Flags
    /\ txCurSeq \in Seqs
    /\ pend \in BaRecords /\ adm \in BaRecords
    /\ timers \in Timers
    /\ rx \in Handlers
    /\ removing \in {"no", "deleted"}
    /\ asked \in Starts /\ orphan \in BOOLEAN

(* The record belongs to a stream and no handler is in the middle of it.   *)
Quiet == inUse /\ removing = "no" /\ rx.pc = "idle" /\ ~hung

(* A pending request always has its setup timer: it cannot wait forever    *)
(* for an answer that was lost.                                            *)
RequestTimed == pend.valid => timers.setup

(* TsStartAddBaProcess refuses to start while bAddBaReqInProgress is set,  *)
(* with the message "BA timer is already added": then one of the timers    *)
(* that lead to its end is running, so the stream can try again.  A record *)
(* that was given away with the inactivity timer of its former stream      *)
(* running is excepted: that timer deletes the new stream's request.       *)
TimerIsAdded == Quiet /\ flags.inProgress /\ ~orphan => timers.addBa \/ timers.setup

(* Frames are aggregated only under an agreement: bUsingBa never outlives  *)
(* the agreement it was set for, or frames would go out aggregated before  *)
(* the start sequence number of the next one.                              *)
UsingBaAdmitted == Quiet /\ flags.usingBa => adm.valid

(* Both sides start the agreement at the same frame: the start sequence    *)
(* number is the one that went out with the token the peer answered.       *)
StartAgreed == Quiet /\ adm.valid => asked[adm.token] = adm.start

(* Every attempt to set up an agreement ends: with an answer, with the     *)
(* setup timeout or with the stream.  Excepted are an orphaned inactivity  *)
(* timer, as in TimerIsAdded, and a handler that waits for itself.         *)
AttemptEnds == flags.inProgress ~> (~flags.inProgress \/ ~inUse \/ hung \/ orphan)

(* A request, and an attempt that refuses others, has a timer that leads to its    *)
(* end (TsStartAddBaProcess, TsInitAddBA, BaSetupTimeOut).                         *)
AttemptTimed == TypeOK /\ RequestTimed /\ TimerIsAdded

(* Frames are aggregated only under an agreement (rtllib_rx_DELBA), and both sides *)
(* start it at the same frame (rtllib_rx_ADDBARsp).                                *)
AgreementHeld == UsingBaAdmitted /\ StartAgreed
=============================================================================
