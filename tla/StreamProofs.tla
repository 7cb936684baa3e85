---------------------------- MODULE StreamProofs ----------------------------
(***************************************************************************)
(* What holds of the records of traffic streams.                           *)
(*                                                                         *)
(* BlockAck: on one CPU every request and every attempt has its timer, and *)
(* every agreement starts at the frame the peer was asked about, for every *)
(* modulus of the sequence numbers and of the dialog tokens and for every  *)
(* set of timeouts.  On two CPUs only the timer of a request is certain.   *)
(*                                                                         *)
(* TsPool: the lists of a pool of TX records of any size stay sound while  *)
(* GetTs runs between the steps of a removal, a stream has one record and  *)
(* keeps it, and is refused one only when all are in use.                  *)
(***************************************************************************)
EXTENDS BlockAck, TsPool, FiniteSetTheorems, WellFoundedInduction, TLAPS

(* What the actions keep besides TypeOK and RequestTimed.                  *)

(* Outside a removal the parts of an attempt and of an agreement fit at    *)
(* every moment, in the middle of a handler too.                           *)
Settled == inUse /\ removing = "no" /\ ~hung

Timed == Settled /\ ~orphan /\ flags.inProgress => timers.addBa \/ timers.setup

Using == Settled /\ flags.usingBa => adm.valid

(* A removal is one of a stream that has the record.                       *)
Removal == removing = "deleted" => inUse

(* The inactivity timer is the one of the agreement, unless it was taken   *)
(* over with the record.                                                   *)
InactOwned == inUse /\ ~orphan /\ timers.inact => adm.valid

(* What a handler of the RX tasklet established holds until it ends.       *)
InTasklet ==
    /\ rx.pc # "idle" => ~flags.inProgress
    /\ rx.pc \in {"delba", "delba2"} => ~flags.usingBa
    /\ rx.pc = "answered" =>
          ~adm.valid /\ rx.token = pend.token /\ asked[pend.token] = pend.start

(* The token of an agreement is that of the last request, or the one       *)
(* before it and then no other request is on its way: one is still made    *)
(* when TsAddBaTimer ran while the answer arrived, and then no more.       *)
NextToken(t) == (t + 1) % TokenMod

Linked ==
    /\ pend.valid => asked[pend.token] = pend.start
    /\ adm.valid => asked[adm.token] = adm.start
    /\ adm.valid => \/ adm.token = pend.token
                    \/ NextToken(adm.token) = pend.token /\ ~timers.addBa

Inv ==
    /\ TypeOK /\ RequestTimed /\ Timed /\ Using /\ Removal /\ InactOwned
    /\ InTasklet /\ Linked

-----------------------------------------------------------------------------
(* Sequence numbers and tokens.                                            *)

(* A residue is one of the residues.                                       *)
LEMMA ModType ==
    ASSUME NEW m \in Nat \ {0, 1}, NEW x \in Int
    PROVE  x % m \in 0..(m - 1)
OBVIOUS

(* The successor of a token is another token, as there are two of them.    *)
LEMMA NextDiffers ==
    ASSUME NEW m \in Nat \ {0, 1}, NEW x \in 0..(m - 1)
    PROVE  (x + 1) % m # x
<1>1. CASE x + 1 < m
  <2>1. (x + 1) % m = x + 1
    BY <1>1
  <2> QED
    BY <2>1
<1>2. CASE x + 1 = m
  <2>1. (x + 1) % m = 0
    BY <1>2
  <2> QED
    BY <2>1, <1>2
<1> QED
  BY <1>1, <1>2

(* TsInitAddBA's token and start sequence number, and the next TxCurSeq,   *)
(* stay in their ranges.                                                   *)
LEMMA NumbersFit ==
    ASSUME TypeOK
    PROVE  /\ (txCurSeq + 1) % SeqMod \in Seqs
           /\ (txCurSeq + 3) % SeqMod \in Seqs
           /\ NextToken(pend.token) \in Tokens
           /\ NextToken(pend.token) # pend.token
           /\ 0 \in Seqs /\ 0 \in Tokens
<1>1. txCurSeq \in Int /\ pend.token \in 0..(TokenMod - 1) /\ pend.token \in Int
  BY BaAssumption DEF TypeOK, BaRecords, Seqs, Tokens
<1>2. SeqMod \in Nat \ {0, 1} /\ TokenMod \in Nat \ {0, 1}
  BY BaAssumption
<1>3. (txCurSeq + 1) % SeqMod \in Seqs /\ (txCurSeq + 3) % SeqMod \in Seqs
  BY <1>1, <1>2, ModType DEF Seqs
<1>4. NextToken(pend.token) \in Tokens
  <2>1. PICK x \in Int : x = pend.token + 1
    BY ONLY <1>1
  <2>2. x % TokenMod \in 0..(TokenMod - 1)
    BY ONLY <1>2, ModType
  <2> QED
    BY ONLY <2>1, <2>2 DEF Tokens, NextToken
<1>5. NextToken(pend.token) # pend.token
  BY <1>1, <1>2, NextDiffers DEF NextToken
<1>6. 0 \in Seqs /\ 0 \in Tokens
  BY <1>2 DEF Seqs, Tokens
<1> QED
  BY <1>3, <1>4, <1>5, <1>6

-----------------------------------------------------------------------------
(* The records, timers and handlers.                                       *)

(* An assignment of a flag leaves a record of flags.                       *)
LEMMA FlagsSet ==
    ASSUME NEW f \in Flags, NEW b \in BOOLEAN, NEW c \in BOOLEAN
    PROVE  /\ NoFlags \in Flags
           /\ [f EXCEPT !.inProgress = b] \in Flags
           /\ [f EXCEPT !.usingBa = b] \in Flags
           /\ [f EXCEPT !.disabled = b] \in Flags
           /\ [f EXCEPT !.usingBa = b, !.inProgress = c] \in Flags
BY DEF Flags, NoFlags

(* Starting and stopping timers leaves a record of timers.                 *)
LEMMA TimersSet ==
    ASSUME NEW t \in Timers, NEW b \in BOOLEAN, NEW c \in BOOLEAN
    PROVE  /\ NoTimers \in Timers
           /\ [t EXCEPT !.addBa = b] \in Timers
           /\ [t EXCEPT !.setup = b] \in Timers
           /\ [t EXCEPT !.inact = b] \in Timers
           /\ [t EXCEPT !.addBa = b, !.setup = c] \in Timers
           /\ [t EXCEPT !.setup = b, !.inact = c] \in Timers
           /\ [t EXCEPT !.inact = b, !.setup = c] \in Timers
BY DEF Timers, NoTimers

(* A request or an agreement is set up or deleted as a whole.              *)
LEMMA RecordsSet ==
    ASSUME NEW r \in BaRecords, NEW b \in BOOLEAN, NEW t \in Tokens, NEW n \in Seqs
    PROVE  /\ [r EXCEPT !.valid = b] \in BaRecords
           /\ [valid |-> b, token |-> t, start |-> n] \in BaRecords
BY DEF BaRecords

(* The steps of a handler.                                                 *)
LEMMA HandlersSet ==
    ASSUME NEW h \in Handlers
    PROVE  /\ [h EXCEPT !.pc = "answered"] \in Handlers
           /\ [h EXCEPT !.pc = "delba2"] \in Handlers
           /\ \A t \in Tokens, b \in BOOLEAN, o \in Timeouts :
                 [pc |-> "rsp", token |-> t, ok |-> b, timeout |-> o] \in Handlers
BY DEF Handlers

(* A request is remembered under its token.                                *)
LEMMA StartsSet ==
    ASSUME NEW a \in Starts, NEW t \in Tokens, NEW n \in Seqs
    PROVE  [a EXCEPT ![t] = n] \in Starts
BY DEF Starts

(* Records at rest.                                                        *)
LEMMA AtRest ==
    /\ NoBa \in BaRecords /\ IdleRx \in Handlers
    /\ [IdleRx EXCEPT !.pc = "delba"] \in Handlers
    /\ [t \in Tokens |-> NotAsked] \in Starts
<1>1. 0 \in Seqs /\ 0 \in Tokens
  BY BaAssumption DEF Seqs, Tokens
<1> QED
  BY <1>1 DEF NoBa, IdleRx, BaRecords, Handlers, Starts

(* The fields of the records are of their types.                           *)
LEMMA Fields ==
    ASSUME TypeOK
    PROVE  /\ flags.inProgress \in BOOLEAN /\ flags.usingBa \in BOOLEAN
           /\ flags.disabled \in BOOLEAN
           /\ pend.valid \in BOOLEAN /\ pend.token \in Tokens /\ pend.start \in Seqs
           /\ adm.valid \in BOOLEAN /\ adm.token \in Tokens /\ adm.start \in Seqs
           /\ timers.addBa \in BOOLEAN /\ timers.setup \in BOOLEAN
           /\ timers.inact \in BOOLEAN
           /\ rx.token \in Tokens /\ rx.ok \in BOOLEAN
BY DEF TypeOK, Flags, BaRecords, Timers, Handlers

-----------------------------------------------------------------------------
(* What holds on any machine.                                              *)

(* Initially the variables have their types.                               *)
LEMMA TypeInit == Init => TypeOK
<1>1. 0 \in Seqs
  BY BaAssumption DEF Seqs
<1>2. NoFlags \in Flags /\ NoTimers \in Timers
  BY DEF NoFlags, Flags, NoTimers, Timers
<1> QED
  BY <1>1, <1>2, AtRest DEF Init, TypeOK

(* Every step keeps the types.                                             *)
LEMMA TypeNext ==
    ASSUME TypeOK, [Next]_vars
    PROVE  TypeOK'
<1> USE DEF TypeOK
<1>0. /\ (txCurSeq + 1) % SeqMod \in Seqs
      /\ (txCurSeq + 3) % SeqMod \in Seqs
      /\ (pend.token + 1) % TokenMod \in Tokens
      /\ 0 \in Seqs /\ 0 \in Tokens
  BY NumbersFit DEF NextToken
<1>a. TRUE \in BOOLEAN /\ FALSE \in BOOLEAN
  OBVIOUS
<1>1. CASE ResetTxTsEntry
  BY <1>0, <1>1, <1>a, FlagsSet, AtRest, Fields DEF ResetTxTsEntry
<1>2. CASE \E quiet \in BOOLEAN : Xmit(quiet)
  <2>1. /\ txCurSeq' \in Seqs
        /\ \/ flags' = flags
           \/ flags' = [flags EXCEPT !.inProgress = TRUE]
           \/ flags' = [flags EXCEPT !.usingBa = SN_LESS(adm.start, (txCurSeq' + 1) % SeqMod)]
        /\ timers' = timers \/ timers' = [timers EXCEPT !.addBa = TRUE]
        /\ UNCHANGED <<inUse, pend, adm, rxValid, rx, removing, hung, asked, orphan>>
    BY <1>0, <1>2 DEF Xmit, TsStartAddBaProcess, rtllib_query_seqnum
  <2>2. SN_LESS(adm.start, (txCurSeq' + 1) % SeqMod) \in BOOLEAN
    BY DEF SN_LESS
  <2>3. flags' \in Flags /\ timers' \in Timers
    BY <2>1, <2>2, <1>a, FlagsSet, TimersSet, Zenon
  <2> QED
    BY <2>1, <2>3
<1>3. CASE TsAddBaProcess
  <2> DEFINE token == (pend.token + 1) % TokenMod
             start == (txCurSeq + 3) % SeqMod
  <2>1. token \in Tokens /\ start \in Seqs
    BY <1>0
  <2>2. /\ \/ pend' = pend /\ asked' = asked /\ timers' = [timers EXCEPT !.addBa = FALSE]
           \/ /\ pend' = [valid |-> TRUE, token |-> token, start |-> start]
              /\ asked' = [asked EXCEPT ![token] = start]
              /\ timers' = [timers EXCEPT !.addBa = FALSE, !.setup = TRUE]
        /\ UNCHANGED <<inUse, flags, txCurSeq, adm, rxValid, rx, removing, hung, orphan>>
    BY <1>3 DEF TsAddBaProcess, TsInitAddBA
  <2> HIDE DEF token, start
  <2>3. pend' \in BaRecords
    <3>1. CASE pend' = pend
      BY <3>1
    <3>2. CASE pend' = [valid |-> TRUE, token |-> token, start |-> start]
      BY <3>2, <2>1, <1>a, RecordsSet, Zenon
    <3> QED
      BY <3>1, <3>2, <2>2
  <2>4. asked' \in Starts
    <3>1. asked \in Starts
      BY DEF TypeOK
    <3>2. asked' = asked \/ asked' = [asked EXCEPT ![token] = start]
      BY ONLY <2>2
    <3>3. CASE asked' = asked
      BY ONLY <3>1, <3>3
    <3>4. CASE asked' = [asked EXCEPT ![token] = start]
      BY ONLY <3>1, <3>4, <2>1, StartsSet, Zenon
    <3> QED
      BY ONLY <3>2, <3>3, <3>4
  <2>5. timers' \in Timers
    BY <2>2, <1>a, TimersSet, Zenon
  <2> QED
    BY <2>2, <2>3, <2>4, <2>5
<1>4. CASE BaSetupTimeOut
  BY <1>4, <1>a, RecordsSet, FlagsSet, TimersSet, Fields DEF BaSetupTimeOut
<1>d. ASSUME TxTsDeleteBA
      PROVE  pend' \in BaRecords /\ adm' \in BaRecords /\ timers' \in Timers
  <2>1. (timers.setup /\ ~pend.valid) \in BOOLEAN /\ (timers.inact /\ ~adm.valid) \in BOOLEAN
    OBVIOUS
  <2> QED
    BY <1>d, <2>1, <1>a, <1>0, RecordsSet, TimersSet, Zenon DEF TxTsDeleteBA
<1>5. CASE TxBaInactTimeout
  <2>1. (timers.setup /\ ~pend.valid) \in BOOLEAN
    OBVIOUS
  <2>2. /\ pend' = [pend EXCEPT !.valid = FALSE]
        /\ adm' = adm \/ adm' = [adm EXCEPT !.valid = FALSE]
        /\ timers' = [timers EXCEPT !.inact = FALSE, !.setup = timers.setup /\ ~pend.valid]
        /\ hung' = hung \/ hung' = TRUE
        /\ UNCHANGED <<inUse, flags, txCurSeq, rxValid, rx, removing, asked, orphan>>
    BY <1>5 DEF TxBaInactTimeout
  <2>3. pend' \in BaRecords /\ adm' \in BaRecords /\ timers' \in Timers
    BY <2>1, <2>2, <1>a, <1>0, RecordsSet, TimersSet, Zenon
  <2> QED
    BY <2>2, <2>3
<1>6. CASE \E token \in Tokens, ok \in BOOLEAN, timeout \in Timeouts :
             rtllib_rx_ADDBARsp(token, ok, timeout)
  <2> PICK token \in Tokens, ok \in BOOLEAN, timeout \in Timeouts :
             rtllib_rx_ADDBARsp(token, ok, timeout)
    BY <1>6
  <2>1. rx' \in Handlers
    BY HandlersSet, Zenon DEF rtllib_rx_ADDBARsp
  <2> QED
    BY <2>1, <1>a, FlagsSet DEF rtllib_rx_ADDBARsp
<1>7. CASE RspCheck
  BY <1>7, <1>a, <1>0, RecordsSet, TimersSet, HandlersSet, AtRest
     DEF RspCheck, DeActivatePending
<1>8. CASE RspAdmit
  <2>1. (rx.timeout # 0) \in BOOLEAN
    OBVIOUS
  <2>2. adm' \in BaRecords /\ timers' \in Timers
    BY <1>8, <2>1, <1>a, Fields, RecordsSet, TimersSet, Zenon DEF RspAdmit
  <2> QED
    BY <1>8, <2>2, AtRest DEF RspAdmit
<1>9. CASE \E refused \in BOOLEAN : RspRefuse(refused)
  <2> PICK refused \in BOOLEAN : RspRefuse(refused)
    BY <1>9
  <2>1. (flags.disabled \/ refused) \in BOOLEAN
    OBVIOUS
  <2>2. adm' \in BaRecords /\ timers' \in Timers /\ flags' \in Flags
    BY <2>1, <1>a, <1>0, RecordsSet, TimersSet, FlagsSet, Zenon DEF RspRefuse
  <2> QED
    BY <2>2, AtRest DEF RspRefuse
<1>10. CASE \E initiator \in BOOLEAN : rtllib_rx_DELBA(initiator)
  BY <1>a, <1>10, FlagsSet, AtRest DEF rtllib_rx_DELBA
<1>11. CASE DelbaStopTimer
  BY <1>11, <1>a, TimersSet, HandlersSet DEF DelbaStopTimer
<1>12. CASE DelbaDelete
  BY <1>12, <1>d, AtRest DEF DelbaDelete
<1>13. CASE \E policyOk \in BOOLEAN : rtllib_rx_ADDBAReq(policyOk)
  BY <1>13 DEF rtllib_rx_ADDBAReq, record
<1>14. CASE RemoveRxTs
  BY <1>14 DEF RemoveRxTs, record
<1>15. CASE TsInitDelBA
  BY <1>15, <1>d DEF TsInitDelBA
<1>16. CASE RemoveTsEntry
  BY <1>16, <1>a, TimersSet DEF RemoveTsEntry, record
<1>17. CASE UNCHANGED vars
  BY <1>17 DEF vars
<1> QED
  BY <1>1, <1>2, <1>3, <1>4, <1>5, <1>6, <1>7, <1>8, <1>9, <1>10, <1>11, <1>12,
     <1>13, <1>14, <1>15, <1>16, <1>17 DEF Next

(* Every step leaves a pending request with its setup timer.               *)
LEMMA TimedNext ==
    ASSUME TypeOK, RequestTimed, [Next]_vars
    PROVE  RequestTimed'
<1> USE DEF TypeOK, RequestTimed, BaRecords, Timers
<1>1. CASE ResetTxTsEntry
  BY <1>1 DEF ResetTxTsEntry, NoBa
<1>2. CASE \E quiet \in BOOLEAN : Xmit(quiet)
  BY <1>2 DEF Xmit, TsStartAddBaProcess
<1>3. CASE TsAddBaProcess
  BY <1>3 DEF TsAddBaProcess, TsInitAddBA
<1>4. CASE BaSetupTimeOut \/ TxBaInactTimeout
  BY <1>4 DEF BaSetupTimeOut, TxBaInactTimeout
<1>5. CASE \E token \in Tokens, ok \in BOOLEAN, timeout \in Timeouts :
             rtllib_rx_ADDBARsp(token, ok, timeout)
  BY <1>5 DEF rtllib_rx_ADDBARsp
<1>6. CASE RspCheck \/ RspAdmit
  BY <1>6 DEF RspCheck, RspAdmit, DeActivatePending
<1>7. CASE \E refused \in BOOLEAN : RspRefuse(refused)
  BY <1>7 DEF RspRefuse
<1>8. CASE \E initiator \in BOOLEAN : rtllib_rx_DELBA(initiator)
  BY <1>8 DEF rtllib_rx_DELBA
<1>9. CASE DelbaStopTimer \/ DelbaDelete \/ TsInitDelBA
  BY <1>9 DEF DelbaStopTimer, DelbaDelete, TsInitDelBA, TxTsDeleteBA
<1>10. CASE \E policyOk \in BOOLEAN : rtllib_rx_ADDBAReq(policyOk)
  BY <1>10 DEF rtllib_rx_ADDBAReq, record
<1>11. CASE RemoveRxTs \/ RemoveTsEntry
  BY <1>11 DEF RemoveRxTs, RemoveTsEntry, record
<1>12. CASE UNCHANGED vars
  BY <1>12 DEF vars
<1> QED
  BY <1>1, <1>2, <1>3, <1>4, <1>5, <1>6, <1>7, <1>8, <1>9, <1>10, <1>11, <1>12
     DEF Next

(* The variables keep their types, and a pending request has its setup     *)
(* timer, on one CPU and on several: TsInitAddBA and BaSetupTimeOut change *)
(* both together, and so does every deletion of the request.               *)
THEOREM RequestsAreTimed == Spec => [](TypeOK /\ RequestTimed)
<1>1. Init => TypeOK /\ RequestTimed
  BY TypeInit DEF Init, RequestTimed, NoBa
<1>2. TypeOK /\ RequestTimed /\ [Next]_vars => (TypeOK /\ RequestTimed)'
  BY TypeNext, TimedNext
<1> QED
  BY <1>1, <1>2, PTL DEF Spec

-----------------------------------------------------------------------------
(* What holds on one CPU.                                                  *)

(* The initial state satisfies the invariant.                              *)
LEMMA InvInit == Init => Inv
BY TypeInit DEF Init, Inv, RequestTimed, Timed, Using, Removal, InactOwned, InTasklet,
                Linked, NoBa, NoFlags, NoTimers, IdleRx

(* The transmit path: a stream gets the record, and frames are sent.       *)
LEMMA XmitKeeps ==
    ASSUME ~Smp, Inv,
           ResetTxTsEntry \/ \E quiet \in BOOLEAN : Xmit(quiet)
    PROVE  /\ Timed' /\ Using' /\ Removal' /\ InactOwned' /\ InTasklet' /\ Linked'
<1> USE DEF Inv, TypeOK, Flags, Timers, BaRecords
<1>1. CASE ResetTxTsEntry
  BY <1>1 DEF ResetTxTsEntry, MayRun, Timed, Using, Settled, Removal, InactOwned, InTasklet,
              Linked, NoFlags, NoBa
<1>2. CASE \E quiet \in BOOLEAN : Xmit(quiet)
  <2>1. /\ rx.pc = "idle"
        /\ UNCHANGED <<inUse, pend, adm, rxValid, rx, removing, hung, asked, orphan>>
    BY <1>2 DEF Xmit, MayRun
  <2>2. /\ timers'.setup = timers.setup /\ timers'.inact = timers.inact
        /\ timers'.addBa = timers.addBa \/ ~adm.valid
    BY <1>2 DEF Xmit, TsStartAddBaProcess
  <2>3. (flags'.inProgress /\ ~flags.inProgress) => timers'.addBa
    BY <1>2 DEF Xmit, TsStartAddBaProcess
  <2>4. (flags'.usingBa /\ ~flags.usingBa) => adm.valid
    BY <1>2 DEF Xmit, TsStartAddBaProcess
  <2>5. timers.addBa => timers'.addBa
    BY <1>2 DEF Xmit, TsStartAddBaProcess
  <2> QED
    BY <2>1, <2>2, <2>3, <2>4, <2>5
       DEF Timed, Using, Settled, Removal, InactOwned, InTasklet, Linked
<1> QED
  BY <1>1, <1>2

(* The timers.                                                             *)
LEMMA TimersKeep ==
    ASSUME ~Smp, Inv, TsAddBaProcess \/ BaSetupTimeOut \/ TxBaInactTimeout
    PROVE  /\ Timed' /\ Using' /\ Removal' /\ InactOwned' /\ InTasklet' /\ Linked'
<1> USE DEF Inv, TypeOK, Flags, Timers, BaRecords
<1>1. CASE TsAddBaProcess
  <2>0. /\ rx.pc = "idle" /\ timers.addBa
        /\ UNCHANGED <<inUse, flags, txCurSeq, adm, rxValid, rx, removing, hung, orphan>>
        /\ timers'.inact = timers.inact /\ ~timers'.addBa /\ timers'.setup
    BY <1>1 DEF TsAddBaProcess, TsInitAddBA, MayRun, RequestTimed
  <2>1. Timed' /\ Using' /\ Removal' /\ InactOwned' /\ InTasklet'
    BY <2>0 DEF Timed, Using, Settled, Removal, InactOwned, InTasklet
  <2>2. Linked'
    <3>1. CASE pend.valid
      BY <3>1, <2>0, <1>1 DEF TsAddBaProcess, TsInitAddBA, Linked
    <3>2. CASE ~pend.valid
      <4> DEFINE token == NextToken(pend.token)
                 start == (txCurSeq + 3) % SeqMod
      <4>1. token \in Tokens /\ token # pend.token
        BY NumbersFit
      <4>2. /\ pend' = [valid |-> TRUE, token |-> token, start |-> start]
            /\ asked' = [asked EXCEPT ![token] = start]
        BY <1>1, <3>2 DEF TsAddBaProcess, TsInitAddBA, NextToken
      <4>3. asked'[token] = start /\ \A t \in Tokens : t # token => asked'[t] = asked[t]
        BY <4>1, <4>2 DEF Starts
      <4>4. adm.valid => adm.token = pend.token
        BY <2>0 DEF Linked
      <4>5. adm.valid => NextToken(adm'.token) = pend'.token /\ asked'[adm.token] = asked[adm.token]
        BY <4>1, <4>2, <4>3, <4>4, <2>0
      <4>6. pend'.token = token /\ pend'.start = start
        BY <4>2
      <4> HIDE DEF token, start
      <4> QED
        BY <2>0, <4>3, <4>5, <4>6 DEF Linked
    <3> QED
      BY <3>1, <3>2
  <2> QED
    BY <2>1, <2>2
<1>2. CASE BaSetupTimeOut
  BY <1>2 DEF BaSetupTimeOut, MayRun, Timed, Using, Settled, Removal, InactOwned, InTasklet,
              Linked
<1>3. CASE TxBaInactTimeout
  BY <1>3 DEF TxBaInactTimeout, MayRun, Timed, Using, Settled, Removal, InactOwned,
              InTasklet, Linked
<1> QED
  BY <1>1, <1>2, <1>3

(* The handler of an ADDBA response, to its end.                           *)
LEMMA ResponseKeeps ==
    ASSUME ~Smp, Inv,
           \/ \E token \in Tokens, ok \in BOOLEAN, timeout \in Timeouts :
                 rtllib_rx_ADDBARsp(token, ok, timeout)
           \/ RspCheck \/ RspAdmit
           \/ \E refused \in BOOLEAN : RspRefuse(refused)
    PROVE  /\ Timed' /\ Using' /\ Removal' /\ InactOwned' /\ InTasklet' /\ Linked'
<1> USE DEF Inv, TypeOK, Flags, Timers, BaRecords, Handlers, Timed, Using, Settled, Removal,
            InactOwned, InTasklet, Linked
<1>1. CASE \E token \in Tokens, ok \in BOOLEAN, timeout \in Timeouts :
              rtllib_rx_ADDBARsp(token, ok, timeout)
  BY <1>1 DEF rtllib_rx_ADDBARsp
<1>2. CASE RspCheck
  BY <1>2 DEF RspCheck, DeActivatePending, IdleRx, RequestTimed
<1>3. CASE RspAdmit
  BY <1>3 DEF RspAdmit, IdleRx
<1>4. CASE \E refused \in BOOLEAN : RspRefuse(refused)
  BY <1>4 DEF RspRefuse, IdleRx
<1> QED
  BY <1>1, <1>2, <1>3, <1>4

(* The handlers of a DELBA and of the peer's own request.                  *)
LEMMA DelbaKeeps ==
    ASSUME ~Smp, Inv,
           \/ \E initiator \in BOOLEAN : rtllib_rx_DELBA(initiator)
           \/ DelbaStopTimer \/ DelbaDelete
           \/ \E policyOk \in BOOLEAN : rtllib_rx_ADDBAReq(policyOk)
    PROVE  /\ Timed' /\ Using' /\ Removal' /\ InactOwned' /\ InTasklet' /\ Linked'
<1> USE DEF Inv, TypeOK, Flags, Timers, BaRecords, Handlers, Timed, Using, Settled, Removal,
            InactOwned, InTasklet, Linked
<1>1. CASE \E initiator \in BOOLEAN : rtllib_rx_DELBA(initiator)
  <2>1. /\ UNCHANGED <<inUse, pend, adm, timers, removing, hung, asked, orphan>>
        /\ rx.pc = "idle"
        /\ \/ flags' = flags /\ rx' = rx
           \/ ~flags'.usingBa /\ ~flags'.inProgress /\ rx'.pc = "delba"
    BY <1>1 DEF rtllib_rx_DELBA, TaskletFree, IdleRx
  <2>2. CASE flags' = flags /\ rx' = rx
    BY <2>1, <2>2
  <2>3. CASE ~flags'.usingBa /\ ~flags'.inProgress /\ rx'.pc = "delba"
    BY <2>1, <2>3
  <2> QED
    BY <2>1, <2>2, <2>3
<1>2. CASE DelbaStopTimer
  BY <1>2 DEF DelbaStopTimer
<1>3. CASE DelbaDelete
  BY <1>3 DEF DelbaDelete, TxTsDeleteBA, IdleRx
<1>4. CASE \E policyOk \in BOOLEAN : rtllib_rx_ADDBAReq(policyOk)
  BY <1>4 DEF rtllib_rx_ADDBAReq, record
<1> QED
  BY <1>1, <1>2, <1>3, <1>4

(* The steps of a removal.                                                 *)
LEMMA RemovalKeeps ==
    ASSUME ~Smp, Inv, RemoveRxTs \/ TsInitDelBA \/ RemoveTsEntry
    PROVE  /\ Timed' /\ Using' /\ Removal' /\ InactOwned' /\ InTasklet' /\ Linked'
<1> USE DEF Inv, TypeOK, Flags, Timers, BaRecords, Handlers, Timed, Using, Settled, Removal,
            InactOwned, InTasklet, Linked
<1>1. CASE RemoveRxTs
  BY <1>1 DEF RemoveRxTs, record
<1>2. CASE TsInitDelBA
  BY <1>2 DEF TsInitDelBA, TxTsDeleteBA, MayRun
<1>3. CASE RemoveTsEntry
  BY <1>3 DEF RemoveTsEntry, record
<1> QED
  BY <1>1, <1>2, <1>3

(* Every step keeps the invariant.                                         *)
LEMMA InvNext ==
    ASSUME ~Smp, Inv, [Next]_vars
    PROVE  Inv'
<1>1. TypeOK' /\ RequestTimed'
  BY TypeNext, TimedNext DEF Inv
<1>2. CASE UNCHANGED vars
  BY <1>2 DEF vars, Inv, TypeOK, RequestTimed, Timed, Using, Settled, Removal, InactOwned,
              InTasklet, Linked
<1>3. CASE Next
  <2>1. Timed' /\ Using' /\ Removal' /\ InactOwned' /\ InTasklet' /\ Linked'
    BY <1>3, XmitKeeps, TimersKeep, ResponseKeeps, DelbaKeeps, RemovalKeeps, Zenon DEF Next
  <2> QED
    BY <1>1, <2>1 DEF Inv
<1> QED
  BY <1>2, <1>3

(* The invariant says what the runs check.                                 *)
LEMMA InvGives == Inv => AttemptTimed /\ AgreementHeld
BY DEF Inv, AttemptTimed, AgreementHeld, TimerIsAdded, UsingBaAdmitted, StartAgreed, Quiet,
       Timed, Using, Settled, Linked

(* On one CPU a request, and an attempt that refuses others                *)
(* (bAddBaReqInProgress of TsStartAddBaProcess), always has the timer that *)
(* leads to its end.                                                       *)
THEOREM AttemptsAreTimed ==
    ASSUME ~Smp
    PROVE  Spec => []AttemptTimed
<1>1. Init => Inv
  BY InvInit
<1>2. Inv /\ [Next]_vars => Inv'
  BY InvNext
<1>3. Inv => AttemptTimed
  BY InvGives
<1> QED
  BY <1>1, <1>2, <1>3, PTL DEF Spec

(* On one CPU frames are aggregated only under an agreement                *)
(* (rtllib_tx_query_agg_cap, rtllib_rx_DELBA), and the agreement starts at *)
(* the sequence number the peer was sent with its token                    *)
(* (TsInitAddBA, rtllib_rx_ADDBARsp).                                      *)
THEOREM AgreementsAreHeld ==
    ASSUME ~Smp
    PROVE  Spec => []AgreementHeld
<1>1. Init => Inv
  BY InvInit
<1>2. Inv /\ [Next]_vars => Inv'
  BY InvNext
<1>3. Inv => AgreementHeld
  BY InvGives
<1> QED
  BY <1>1, <1>2, <1>3, PTL DEF Spec
-----------------------------------------------------------------------------
(* The two lists.                                                          *)
Pointers == [next : [Nodes -> Nodes], prev : [Nodes -> Nodes]]
Mutual(l) == \A n \in Nodes : l.prev[l.next[n]] = n /\ l.next[l.prev[n]] = n
Closed(l, S) == \A m \in S : l.next[m] \in S
IsRing(l, h, R) ==
    /\ R \in SUBSET Nodes /\ h \in R /\ \A m \in R : l.next[m] \in R /\ l.prev[m] \in R
    /\ \A S \in SUBSET Nodes : h \in S /\ Closed(l, S) => R \subseteq S
-----------------------------------------------------------------------------
(* A set of natural numbers that is not empty has a least element.         *)
LEMMA NatMin ==
    ASSUME NEW T \in SUBSET Nat, T # {} PROVE \E x \in T : \A y \in T : x <= y
<1> DEFINE R == OpToRel(<, Nat)
<1>1. IsWellFoundedOn(R, Nat) BY NatLessThanWellFounded, Zenon
<1>2. \A x, y \in Nat : x < y => <<x, y>> \in R BY DEF OpToRel
<1> HIDE DEF R
<1>3. \E x \in T : \A y \in T : ~ (<<y, x>> \in R) BY <1>1, WFMin
<1>4. PICK x \in T : \A y \in T : ~ (<<y, x>> \in R) BY <1>3
<1>5. ASSUME NEW y \in T PROVE x <= y
  <2>1. x \in Nat /\ y \in Nat OBVIOUS
  <2>2. ~(y < x) BY <1>2, <1>4, <2>1
  <2> QED BY <2>1, <2>2
<1> QED BY <1>5

LEMMA NodesAre ==
    /\ Records \subseteq Nat /\ Records \subseteq Nodes /\ Unused \in Nodes /\ Admit \in Nodes
    /\ Unused # Admit /\ Unused \notin Records /\ Admit \notin Records /\ NULL \notin Nodes
    /\ Nodes \subseteq Int
BY PoolAssumption DEF Nodes, Records, Unused, Admit, NULL

(* The lists that OnList finds are the rings of their heads.               *)
LEMMA WalkIs ==
    ASSUME NEW l \in Pointers, NEW from \in Nodes, NEW stop
    PROVE  /\ Walk(l, from, stop) \in SUBSET Nodes /\ from \in Walk(l, from, stop)
           /\ \A m \in Walk(l, from, stop) \ stop : l.next[m] \in Walk(l, from, stop)
           /\ \A S \in SUBSET Nodes : from \in S /\ (\A m \in S \ stop : l.next[m] \in S)
                                      => Walk(l, from, stop) \subseteq S
<1> DEFINE W == Walk(l, from, stop)
           closed == {S \in SUBSET Nodes : from \in S /\ \A m \in S \ stop : l.next[m] \in S}
<1>1. W = {n \in Nodes : \A S \in closed : n \in S}
  BY DEF Walk
<1>2. \A m \in W \ stop : l.next[m] \in W
  <2> TAKE m \in W \ stop
  <2>1. l.next[m] \in Nodes
    BY <1>1 DEF Pointers
  <2>2. \A S \in closed : l.next[m] \in S
    BY <1>1
  <2> QED
    BY <2>1, <2>2, <1>1
<1>3. \A S \in SUBSET Nodes : from \in S /\ (\A m \in S \ stop : l.next[m] \in S) => W \subseteq S
  BY <1>1
<1>4. from \in W /\ W \in SUBSET Nodes
  BY <1>1
<1> QED
  BY <1>2, <1>3, <1>4

LEMMA RingIsOnList ==
    ASSUME NEW l \in Pointers, NEW h \in Nodes, NEW R, IsRing(l, h, R)
    PROVE  OnList(l, h) = R \ {h}
<1> DEFINE W == Walk(l, l.next[h], {h})
<1>0. l.next[h] \in Nodes
  BY DEF Pointers
<1>1. /\ W \in SUBSET Nodes /\ l.next[h] \in W /\ \A m \in W \ {h} : l.next[m] \in W
      /\ \A S \in SUBSET Nodes : l.next[h] \in S /\ (\A m \in S \ {h} : l.next[m] \in S) => W \subseteq S
  BY <1>0, WalkIs
<1> HIDE DEF W
<1>2. W \subseteq R
  BY <1>1 DEF IsRing
<1>3. Closed(l, W \cup {h})
  BY <1>1 DEF Closed
<1>4. R \subseteq W \cup {h}
  <2>1. W \cup {h} \in SUBSET Nodes
    BY <1>1
  <2> QED
    BY <2>1, <1>3 DEF IsRing
<1>5. OnList(l, h) = W \ {h}
  BY DEF OnList, W
<1> QED
  BY <1>2, <1>4, <1>5

(* A ring none of whose pointers changes stays.                            *)
LEMMA RingStays ==
    ASSUME NEW l, NEW k, NEW h, NEW R, IsRing(l, h, R),
           \A m \in R : k.next[m] = l.next[m] /\ k.prev[m] = l.prev[m]
    PROVE  IsRing(k, h, R)
<1> SUFFICES ASSUME NEW S \in SUBSET Nodes, h \in S, Closed(k, S) PROVE R \subseteq S
  BY DEF IsRing
<1>1. S \cap R \in SUBSET Nodes /\ h \in S \cap R
  BY DEF IsRing
<1>2. Closed(l, S \cap R)
  BY DEF Closed, IsRing
<1>3. R \subseteq S \cap R
  BY <1>1, <1>2 DEF IsRing
<1> QED
  BY <1>3

(* In a ring of more than its head no node follows itself.                 *)
LEMMA NotAlone ==
    ASSUME NEW l \in Pointers, Mutual(l), NEW h \in Nodes, NEW R, IsRing(l, h, R), NEW n \in R, n # h
    PROVE  l.next[n] # n /\ l.prev[n] # n
<1>0. n \in Nodes
  BY DEF IsRing
<1>1. SUFFICES ASSUME l.next[n] = n PROVE FALSE
  BY <1>0 DEF Mutual
<1>2. R \ {n} \in SUBSET Nodes /\ h \in R \ {n}
  BY DEF IsRing
<1>3. Closed(l, R \ {n})
  BY <1>0, <1>1 DEF Closed, IsRing, Mutual
<1> QED
  BY <1>2, <1>3 DEF IsRing
-----------------------------------------------------------------------------
(* list_del_init takes a record out of its ring.                           *)
LEMMA DelIs ==
    ASSUME NEW l \in Pointers, NEW n \in Nodes, l.next[n] # n, l.prev[n] # n
    PROVE  LET k == list_del_init(l, n) IN
           /\ k \in Pointers
           /\ k.next[n] = n /\ k.prev[n] = n
           /\ k.next[l.prev[n]] = l.next[n] /\ k.prev[l.next[n]] = l.prev[n]
           /\ \A m \in Nodes : m \notin {n, l.prev[n]} => k.next[m] = l.next[m]
           /\ \A m \in Nodes : m \notin {n, l.next[n]} => k.prev[m] = l.prev[m]
<1> DEFINE p == l.prev[n]
           q == l.next[n]
           a == [l.next EXCEPT ![p] = q]
           b == [l.prev EXCEPT ![q] = p]
<1>0. p \in Nodes /\ q \in Nodes /\ l.next \in [Nodes -> Nodes] /\ l.prev \in [Nodes -> Nodes]
  BY DEF Pointers
<1>1. list_del_init(l, n) = [next |-> [a EXCEPT ![n] = n], prev |-> [b EXCEPT ![n] = n]]
  BY DEF list_del_init, INIT_LIST_HEAD, Pointers
<1>2. a \in [Nodes -> Nodes] /\ b \in [Nodes -> Nodes]
  BY <1>0
<1>3. /\ a[p] = q /\ \A m \in Nodes : m # p => a[m] = l.next[m]
      /\ b[q] = p /\ \A m \in Nodes : m # q => b[m] = l.prev[m]
  BY <1>0
<1> HIDE DEF a, b
<1> DEFINE k == list_del_init(l, n)
<1>4. k.next = [a EXCEPT ![n] = n] /\ k.prev = [b EXCEPT ![n] = n]
  BY <1>1
<1>5. k \in Pointers
  BY <1>1, <1>2 DEF Pointers
<1> HIDE DEF k
<1>6. /\ k.next[n] = n /\ k.prev[n] = n
      /\ \A m \in Nodes : m # n => k.next[m] = a[m] /\ k.prev[m] = b[m]
  BY <1>2, <1>4
<1> QED
  BY <1>0, <1>3, <1>5, <1>6 DEF k

(* list_add_tail puts a record that is on no list at the end of a ring.    *)
LEMMA AddIs ==
    ASSUME NEW l \in Pointers, NEW n \in Nodes, NEW h \in Nodes, n # h, l.prev[h] # n
    PROVE  LET k == list_add_tail(l, n, h) IN
           /\ k \in Pointers
           /\ k.next[n] = h /\ k.prev[n] = l.prev[h] /\ k.prev[h] = n /\ k.next[l.prev[h]] = n
           /\ \A m \in Nodes : m \notin {n, l.prev[h]} => k.next[m] = l.next[m]
           /\ \A m \in Nodes : m \notin {n, h} => k.prev[m] = l.prev[m]
<1> DEFINE p == l.prev[h]
           a == [l.next EXCEPT ![n] = h]
           b == [l.prev EXCEPT ![h] = n]
<1>0. p \in Nodes /\ l.next \in [Nodes -> Nodes] /\ l.prev \in [Nodes -> Nodes]
  BY DEF Pointers
<1>1. list_add_tail(l, n, h) = [next |-> [a EXCEPT ![p] = n], prev |-> [b EXCEPT ![n] = p]]
  BY DEF list_add_tail, Pointers
<1>2. a \in [Nodes -> Nodes] /\ b \in [Nodes -> Nodes]
  BY <1>0
<1> QED
  BY <1>0, <1>1, <1>2 DEF Pointers

LEMMA DelFromRing ==
    ASSUME NEW l \in Pointers, Mutual(l), NEW h \in Nodes, NEW R, IsRing(l, h, R), NEW n \in R, n # h
    PROVE  LET k == list_del_init(l, n) IN
           /\ k \in Pointers /\ Mutual(k) /\ IsRing(k, h, R \ {n}) /\ k.next[n] = n
           /\ \A g, Q : IsRing(l, g, Q) /\ Q \cap R = {} => IsRing(k, g, Q)
<1> DEFINE k == list_del_init(l, n)
           p == l.prev[n]
           q == l.next[n]
<1>0. n \in Nodes /\ q # n /\ p # n /\ p \in R /\ q \in R /\ p \in Nodes /\ q \in Nodes /\ R \in SUBSET Nodes
  BY NotAlone DEF IsRing
<1>1. /\ k \in Pointers /\ k.next[n] = n /\ k.prev[n] = n /\ k.next[p] = q /\ k.prev[q] = p
      /\ \A m \in Nodes : m \notin {n, p} => k.next[m] = l.next[m]
      /\ \A m \in Nodes : m \notin {n, q} => k.prev[m] = l.prev[m]
  BY <1>0, DelIs
<1>i. /\ \A m \in Nodes : l.prev[l.next[m]] = m /\ l.next[l.prev[m]] = m
      /\ \A m \in Nodes : l.next[m] \in Nodes /\ l.prev[m] \in Nodes
      /\ l.next[p] = n /\ l.prev[q] = n
  BY <1>0 DEF Mutual, Pointers
<1> HIDE DEF k, p, q
<1>2. Mutual(k)
  <2> SUFFICES ASSUME NEW m \in Nodes PROVE k.prev[k.next[m]] = m /\ k.next[k.prev[m]] = m
    BY DEF Mutual
  <2>1. k.prev[k.next[m]] = m
    BY <1>0, <1>1, <1>i
  <2>2. k.next[k.prev[m]] = m
    BY <1>0, <1>1, <1>i
  <2> QED
    BY <2>1, <2>2
<1>3. \A m \in R \ {n} : k.next[m] \in R \ {n} /\ k.prev[m] \in R \ {n}
  <2> TAKE m \in R \ {n}
  <2>1. m \in Nodes /\ l.next[m] \in R /\ l.prev[m] \in R
    BY DEF IsRing
  <2>2. k.next[m] \in R \ {n}
    BY <2>1, <1>0, <1>1, <1>i
  <2>3. k.prev[m] \in R \ {n}
    BY <2>1, <1>0, <1>1, <1>i
  <2> QED
    BY <2>2, <2>3
<1>4. ASSUME NEW S \in SUBSET Nodes, h \in S, Closed(k, S) PROVE R \ {n} \subseteq S
  <2>1. CASE p \in S
    <3>1. q \in S
      BY <2>1, <1>4, <1>1 DEF Closed
    <3>2. Closed(l, S \cup {n})
      <4> SUFFICES ASSUME NEW m \in S \cup {n} PROVE l.next[m] \in S \cup {n}
        BY DEF Closed
      <4>1. CASE m = n
        BY <4>1, <3>1 DEF q
      <4>2. CASE m = p
        BY <4>2, <1>i
      <4>3. CASE m # n /\ m # p
        BY <4>3, <1>1, <1>4 DEF Closed
      <4> QED
        BY <4>1, <4>2, <4>3
    <3>3. S \cup {n} \in SUBSET Nodes /\ h \in S \cup {n}
      BY <1>0, <1>4
    <3> QED
      BY <3>2, <3>3 DEF IsRing
  <2>2. CASE p \notin S
    <3>1. Closed(l, S \ {n})
      <4> SUFFICES ASSUME NEW m \in S \ {n} PROVE l.next[m] \in S \ {n}
        BY DEF Closed
      <4>1. l.next[m] = k.next[m] /\ k.next[m] \in S
        BY <2>2, <1>1, <1>4 DEF Closed
      <4>2. l.next[m] # n
        BY <1>i, <2>2 DEF p
      <4> QED
        BY <4>1, <4>2
    <3>2. S \ {n} \in SUBSET Nodes /\ h \in S \ {n}
      BY <1>4
    <3> QED
      BY <3>1, <3>2 DEF IsRing
  <2> QED
    BY <2>1, <2>2
<1>5. IsRing(k, h, R \ {n})
  <2>1. R \ {n} \in SUBSET Nodes /\ h \in R \ {n}
    BY <1>0 DEF IsRing
  <2> QED
    BY <2>1, <1>3, <1>4 DEF IsRing
<1>6. ASSUME NEW g, NEW Q, IsRing(l, g, Q), Q \cap R = {} PROVE IsRing(k, g, Q)
  <2>1. \A m \in Q : k.next[m] = l.next[m] /\ k.prev[m] = l.prev[m]
    <3> TAKE m \in Q
    <3>1. m \in Nodes /\ m # n /\ m # p /\ m # q
      BY <1>0, <1>6 DEF IsRing
    <3> QED
      BY <3>1, <1>1
  <2> QED
    BY <2>1, <1>6, RingStays
<1> QED
  BY <1>1, <1>2, <1>5, <1>6 DEF k

LEMMA AddToRing ==
    ASSUME NEW l \in Pointers, Mutual(l), NEW h \in Nodes, NEW R, IsRing(l, h, R),
           NEW n \in Nodes, n \notin R, l.next[n] = n
    PROVE  LET k == list_add_tail(l, n, h) IN
           /\ k \in Pointers /\ Mutual(k) /\ IsRing(k, h, R \cup {n})
           /\ \A g, Q : IsRing(l, g, Q) /\ Q \cap R = {} /\ n \notin Q => IsRing(k, g, Q)
<1> DEFINE k == list_add_tail(l, n, h)
           p == l.prev[h]
<1>0. /\ h \in R /\ p \in R /\ p \in Nodes /\ R \in SUBSET Nodes /\ h # n /\ p # n
      /\ l.prev[n] = n
  BY DEF IsRing, Mutual
<1>1. /\ k \in Pointers /\ k.next[n] = h /\ k.prev[n] = p /\ k.prev[h] = n /\ k.next[p] = n
      /\ \A m \in Nodes : m \notin {n, p} => k.next[m] = l.next[m]
      /\ \A m \in Nodes : m \notin {n, h} => k.prev[m] = l.prev[m]
  BY <1>0, AddIs
<1>i. /\ \A m \in Nodes : l.prev[l.next[m]] = m /\ l.next[l.prev[m]] = m
      /\ \A m \in Nodes : l.next[m] \in Nodes /\ l.prev[m] \in Nodes
      /\ l.next[p] = h
  BY <1>0 DEF Mutual, Pointers
<1> HIDE DEF k, p
<1>2. Mutual(k)
  <2> SUFFICES ASSUME NEW m \in Nodes PROVE k.prev[k.next[m]] = m /\ k.next[k.prev[m]] = m
    BY DEF Mutual
  <2>1. k.prev[k.next[m]] = m
    BY <1>0, <1>1, <1>i
  <2>2. k.next[k.prev[m]] = m
    BY <1>0, <1>1, <1>i DEF p
  <2> QED
    BY <2>1, <2>2
<1>3. \A m \in R \cup {n} : k.next[m] \in R \cup {n} /\ k.prev[m] \in R \cup {n}
  <2> TAKE m \in R \cup {n}
  <2>1. m \in Nodes /\ (m # n => l.next[m] \in R /\ l.prev[m] \in R)
    BY DEF IsRing
  <2> QED
    BY <2>1, <1>0, <1>1
<1>4. ASSUME NEW S \in SUBSET Nodes, h \in S, Closed(k, S) PROVE R \cup {n} \subseteq S
  <2>1. Closed(l, S)
    <3> SUFFICES ASSUME NEW m \in S PROVE l.next[m] \in S
      BY DEF Closed
    <3> QED
      BY <1>0, <1>1, <1>4, <1>i DEF Closed
  <2>2. R \subseteq S
    BY <2>1, <1>4 DEF IsRing
  <2>3. n \in S
    BY <2>2, <1>0, <1>1, <1>4 DEF Closed
  <2> QED
    BY <2>2, <2>3
<1>5. IsRing(k, h, R \cup {n})
  <2>1. R \cup {n} \in SUBSET Nodes /\ h \in R \cup {n}
    BY <1>0
  <2> QED
    BY <2>1, <1>3, <1>4 DEF IsRing
<1>6. ASSUME NEW g, NEW Q, IsRing(l, g, Q), Q \cap R = {}, n \notin Q PROVE IsRing(k, g, Q)
  <2>1. \A m \in Q : k.next[m] = l.next[m] /\ k.prev[m] = l.prev[m]
    <3> TAKE m \in Q
    <3>1. m \in Nodes /\ m # n /\ m # p /\ m # h
      BY <1>0, <1>6 DEF IsRing
    <3> QED
      BY <3>1, <1>1
  <2> QED
    BY <2>1, <1>6, RingStays
<1> QED
  BY <1>1, <1>2, <1>5, <1>6 DEF k
-----------------------------------------------------------------------------
(* The inductive invariant.                                                *)
Us == OnList(list, Unused) \cup {Unused}
As == Admitted \cup {Admit}
Lists ==
    /\ list \in Pointers /\ Mutual(list)
    /\ IsRing(list, Unused, Us) /\ IsRing(list, Admit, As) /\ Us \cap As = {}
Parted ==
    /\ Us \cup As \cup InTransit = Nodes /\ InTransit \cap (Us \cup As) = {}
    /\ rm.pc = "unlinked" => list.next[rm.pTS] = rm.pTS
Keys == [addr : Addrs \cup {None}, up : {0, 2, 5, 7}]
PoolTypes ==
    /\ key \in [Records -> Keys] /\ qos \in BOOLEAN
    /\ rm \in [pc : {"idle", "loop", "unlinked"}, addr : Addrs \cup {None, AllPeers},
               pTS : Nodes, pTmpTS : Nodes]
    /\ got.ts \in Records \cup {NULL}
Looping ==
    /\ rm.pc # "idle" => rm.pTmpTS \in As
    /\ rm.pc = "loop" => rm.pTS \in As /\ (rm.pTS # Admit => rm.pTmpTS # rm.pTS)
PoolInv == Lists /\ Parted /\ PoolTypes /\ Looping /\ OneRecordPerStream /\ RefusedOnlyWhenFull

LEMMA Heads == Lists => /\ Us \in SUBSET Nodes /\ As \in SUBSET Nodes /\ Unused \in Us /\ Admit \in As
                        /\ Admit \notin Us /\ Unused \notin As
                        /\ Us \ {Unused} \subseteq Records /\ Admitted = As \ {Admit} /\ Admitted \subseteq Records
                        /\ OnList(list, Unused) = Us \ {Unused}
<1> SUFFICES ASSUME Lists PROVE  /\ Us \in SUBSET Nodes /\ As \in SUBSET Nodes /\ Unused \in Us /\ Admit \in As
                        /\ Admit \notin Us /\ Unused \notin As
                        /\ Us \ {Unused} \subseteq Records /\ Admitted = As \ {Admit} /\ Admitted \subseteq Records
                        /\ OnList(list, Unused) = Us \ {Unused}
  OBVIOUS
<1>1. Us \in SUBSET Nodes /\ As \in SUBSET Nodes /\ Unused \in Us /\ Admit \in As
  BY DEF Lists, IsRing, Us, As
<1>2. Admit \notin Us /\ Unused \notin As
  BY <1>1 DEF Lists
<1>3. Us \ {Unused} \subseteq Records
  BY <1>1, <1>2 DEF Nodes
<1>4. Admit \notin Admitted /\ Unused \notin OnList(list, Unused)
  BY DEF Admitted, OnList
<1>5. Admitted = As \ {Admit} /\ OnList(list, Unused) = Us \ {Unused}
  BY <1>4 DEF As, Us
<1>6. Admitted \subseteq Records
  BY <1>1, <1>2, <1>5 DEF Nodes
<1> QED
  BY <1>1, <1>2, <1>3, <1>5, <1>6

(* A step that leaves these rings leaves these lists.                      *)
LEMMA ListsAfter ==
    ASSUME NEW U, NEW A, list' \in Pointers, Mutual(list'), IsRing(list', Unused, U), IsRing(list', Admit, A),
           U \cap A = {}
    PROVE  Us' = U /\ As' = A /\ Lists'
<1>1. OnList(list', Unused) = U \ {Unused} /\ OnList(list', Admit) = A \ {Admit}
  BY NodesAre, RingIsOnList
<1>2. Unused \in U /\ Admit \in A
  BY DEF IsRing
<1>3. Us' = U /\ As' = A
  BY <1>1, <1>2 DEF Us, As, Admitted
<1> QED
  BY <1>3 DEF Lists

LEMMA AdmittedIs == Admitted = As \ {Admit} /\ Admitted' = As' \ {Admit}
<1>1. Admit \notin Admitted /\ Admit \notin Admitted'
  BY DEF Admitted, OnList
<1> QED
  BY <1>1 DEF As

LEMMA ListsStay == Lists /\ list' = list => Lists' /\ Us' = Us /\ As' = As /\ Admitted' = Admitted
BY DEF Lists, Us, As, Admitted

(* NextRecord: the saved record becomes the current one.                   *)
LEMMA StepOn ==
    ASSUME NEW l \in Pointers, Mutual(l), NEW A, IsRing(l, Admit, A), NEW n \in A
    PROVE  l.next[n] \in A /\ (n # Admit => l.next[n] # n)
<1>1. Admit \in Nodes
  BY NodesAre
<1>2. l.next[n] \in A
  BY DEF IsRing
<1> QED
  BY <1>1, <1>2, NotAlone
-----------------------------------------------------------------------------
(* SearchAdmitTRStream finds a record of the stream if one is admitted.    *)
LEMMA SearchIs ==
    ASSUME Lists, NEW k
    PROVE  /\ SearchAdmitTRStream(k) \in Records \cup {NULL}
           /\ SearchAdmitTRStream(k) = NULL => \A r \in Admitted : key[r] # k
<1> DEFINE stop == Of(k) \cup {Admit}
           W == Walk(list, list.next[Admit], stop)
           found == W \cap Of(k)
<1>1. list \in Pointers /\ list.next[Admit] \in Nodes
  BY NodesAre DEF Lists, Pointers
<1>2. W \in SUBSET Nodes /\ list.next[Admit] \in W /\ \A m \in W \ stop : list.next[m] \in W
  BY <1>1, WalkIs
<1>3. SearchAdmitTRStream(k) = IF found = {} THEN NULL ELSE CHOOSE r \in found : TRUE
  BY DEF SearchAdmitTRStream
<1> HIDE DEF W
<1>4. found \subseteq Records
  BY DEF Of
<1>5. ASSUME found = {} PROVE \A r \in Admitted : key[r] # k
  <2>1. Closed(list, W \cup {Admit})
    BY <1>2, <1>5 DEF Closed
  <2>2. As \subseteq W \cup {Admit}
    BY <2>1, <1>2, NodesAre DEF Lists, IsRing
  <2>3. Admitted \subseteq Records /\ Admitted \subseteq W
    BY <2>2, Heads DEF As
  <2> QED
    BY <2>3, <1>5 DEF Of
<1>6. found # {} => (CHOOSE r \in found : TRUE) \in found
  OBVIOUS
<1>7. NULL \notin Records
  BY NodesAre
<1> HIDE DEF found
<1> QED
  BY <1>3, <1>4, <1>5, <1>6, <1>7
-----------------------------------------------------------------------------
LEMMA TakeUnusedIs ==
    ASSUME PoolInv, NEW k, TakeUnused(k)
    PROVE  /\ list.next[Unused] \in Us \ {Unused} /\ Lists'
           /\ Us' = Us \ {list.next[Unused]} /\ As' = As \cup {list.next[Unused]}
<1> DEFINE ts == list.next[Unused]
           l == list_del_init(list, ts)
<1>0. Lists
  BY DEF PoolInv
<1>1. ts \in Us /\ ts # Unused /\ ts \in Nodes /\ ts \notin As
  BY <1>0, Heads DEF TakeUnused, Lists, IsRing
<1>2. /\ l \in Pointers /\ Mutual(l) /\ IsRing(l, Unused, Us \ {ts}) /\ l.next[ts] = ts
      /\ IsRing(l, Admit, As)
  <2>1. As \cap Us = {}
    BY <1>0 DEF Lists
  <2>2. list \in Pointers /\ Mutual(list) /\ IsRing(list, Admit, As) /\ IsRing(list, Unused, Us)
    BY <1>0 DEF Lists
  <2>3. Unused \in Nodes
    BY NodesAre
  <2> HIDE DEF ts
  <2>4. /\ l \in Pointers /\ Mutual(l) /\ IsRing(l, Unused, Us \ {ts}) /\ l.next[ts] = ts
        /\ \A g, Q : IsRing(list, g, Q) /\ Q \cap Us = {} => IsRing(l, g, Q)
    BY <2>2, <2>3, <1>1, DelFromRing
  <2> QED
    BY <2>1, <2>2, <2>4
<1>3. list' = list_add_tail(l, ts, Admit)
  BY DEF TakeUnused
<1> HIDE DEF l, ts
<1>4. /\ list' \in Pointers /\ Mutual(list') /\ IsRing(list', Admit, As \cup {ts})
      /\ IsRing(list', Unused, Us \ {ts})
  <2>1. (Us \ {ts}) \cap As = {} /\ ts \notin Us \ {ts}
    BY <1>0 DEF Lists
  <2> QED
    BY <1>1, <1>2, <1>3, <2>1, NodesAre, AddToRing
<1>5. (Us \ {ts}) \cap (As \cup {ts}) = {}
  BY <1>0 DEF Lists
<1>6. Us' = Us \ {ts} /\ As' = As \cup {ts} /\ Lists'
  BY <1>4, <1>5, ListsAfter
<1> QED
  BY <1>1, <1>6 DEF ts

(* The pointers of a record that is on no list stay.                       *)
LEMMA TakeElsewhere ==
    ASSUME PoolInv, NEW k, TakeUnused(k), NEW n \in Nodes, n \notin Us \cup As
    PROVE  list'.next[n] = list.next[n]
<1> DEFINE ts == list.next[Unused]
           l == list_del_init(list, ts)
<1>0. Lists
  BY DEF PoolInv
<1>1. ts \in Us /\ ts # Unused /\ ts \in Nodes /\ ts \notin As /\ list.prev[ts] \in Us /\ list \in Pointers
  BY <1>0, Heads DEF TakeUnused, Lists, IsRing
<1>2. list.next[ts] # ts /\ list.prev[ts] # ts
  BY <1>0, <1>1, NotAlone, NodesAre DEF Lists
<1>3. /\ l \in Pointers /\ l.next[ts] = ts /\ l.prev[ts] = ts
      /\ \A m \in Nodes : m \notin {ts, list.prev[ts]} => l.next[m] = list.next[m]
      /\ \A m \in Nodes : m \notin {ts, list.next[ts]} => l.prev[m] = list.prev[m]
  BY <1>1, <1>2, DelIs
<1>4. l.prev[Admit] = list.prev[Admit] /\ list.prev[Admit] \in As /\ Admit \in Nodes /\ Admit # ts
  <2>1. Admit \notin Us /\ list.next[ts] \in Us /\ Admit \in Nodes /\ list.prev[Admit] \in As
    BY <1>0, <1>1, Heads, NodesAre DEF Lists, IsRing
  <2> QED
    BY <2>1, <1>1, <1>3
<1>5. list' = list_add_tail(l, ts, Admit)
  BY DEF TakeUnused
<1> HIDE DEF l, ts
<1>6. \A m \in Nodes : m \notin {ts, l.prev[Admit]} => list'.next[m] = l.next[m]
  BY <1>1, <1>3, <1>4, <1>5, AddIs
<1>7. n # ts /\ n # list.prev[ts] /\ n # l.prev[Admit]
  BY <1>1, <1>4
<1> QED
  BY <1>3, <1>6, <1>7

LEMMA UnlinkIs ==
    ASSUME PoolInv, Unlink
    PROVE  /\ Lists' /\ Us' = Us /\ As' = As \ {rm.pTS} /\ rm.pTS \in As \ {Admit}
           /\ list'.next[rm.pTS] = rm.pTS
<1>0. Lists /\ rm.pTS \in As /\ rm.pTS # Admit
  BY DEF PoolInv, Looping, Unlink
<1>1. Us \cap As = {}
  BY <1>0 DEF Lists
<1>2. list' = list_del_init(list, rm.pTS)
  BY DEF Unlink
<1>3. /\ list' \in Pointers /\ Mutual(list') /\ IsRing(list', Admit, As \ {rm.pTS})
      /\ list'.next[rm.pTS] = rm.pTS /\ IsRing(list', Unused, Us)
  <2>1. list \in Pointers /\ Mutual(list) /\ IsRing(list, Admit, As) /\ IsRing(list, Unused, Us)
    BY <1>0 DEF Lists
  <2>2. Admit \in Nodes
    BY NodesAre
  <2>3. /\ list' \in Pointers /\ Mutual(list') /\ IsRing(list', Admit, As \ {rm.pTS})
        /\ list'.next[rm.pTS] = rm.pTS
        /\ \A g, Q : IsRing(list, g, Q) /\ Q \cap As = {} => IsRing(list', g, Q)
    <3>1. rm.pTS \in As /\ rm.pTS # Admit
      BY ONLY <1>0
    <3>2. PICK l, h, R, m : l = list /\ h = Admit /\ R = As /\ m = rm.pTS
      OBVIOUS
    <3>3. /\ l \in Pointers /\ Mutual(l) /\ h \in Nodes /\ IsRing(l, h, R) /\ m \in R /\ m # h
          /\ list' = list_del_init(l, m)
      BY ONLY <2>1, <2>2, <3>1, <3>2, <1>2
    <3>4. /\ list' \in Pointers /\ Mutual(list') /\ IsRing(list', h, R \ {m}) /\ list'.next[m] = m
          /\ \A g, Q : IsRing(l, g, Q) /\ Q \cap R = {} => IsRing(list', g, Q)
      BY ONLY <3>3, DelFromRing
    <3> QED
      BY ONLY <3>2, <3>4
  <2> QED
    BY <2>1, <2>3, <1>1
<1>4. Us \cap (As \ {rm.pTS}) = {}
  BY <1>1
<1> QED
  BY <1>0, <1>3, <1>4, ListsAfter

LEMMA ReturnIs ==
    ASSUME PoolInv, Return
    PROVE  /\ Lists' /\ Us' = Us \cup {rm.pTS} /\ As' = As
<1>0. Lists /\ rm.pTS \notin Us /\ rm.pTS \notin As /\ list.next[rm.pTS] = rm.pTS /\ rm.pTS \in Nodes
  BY DEF PoolInv, Parted, Return, InTransit
<1>1. Us \cap As = {}
  BY <1>0 DEF Lists
<1>2. list' = list_add_tail(list, rm.pTS, Unused)
  BY DEF Return
<1>3. /\ list' \in Pointers /\ Mutual(list') /\ IsRing(list', Unused, Us \cup {rm.pTS})
      /\ IsRing(list', Admit, As)
  BY <1>0, <1>1, <1>2, NodesAre, AddToRing DEF Lists
<1>4. (Us \cup {rm.pTS}) \cap As = {}
  BY <1>0, <1>1
<1> QED
  BY <1>3, <1>4, ListsAfter
-----------------------------------------------------------------------------
(* TSInitialize: the lists after the first n turns of the loop.            *)
Line(n) ==
    [next |-> [m \in Nodes |-> IF m = n - 1 THEN Unused ELSE IF m \in -1 .. n - 2 THEN m + 1 ELSE m],
     prev |-> [m \in Nodes |-> IF m = Unused THEN n - 1 ELSE IF m \in 0 .. n - 1 THEN m - 1 ELSE m]]
AddNext(l, n) == list_add_tail(INIT_LIST_HEAD(l, n), n, Unused)

LEMMA LineGrows == ASSUME NEW n \in 1 .. NumTs PROVE AddNext(Line(n - 1), n - 1) = Line(n)
<1> DEFINE x == n - 1
           l == INIT_LIST_HEAD(Line(x), x)
<1>0. /\ x \in Nodes /\ x - 1 \in Nodes /\ x \in Nat /\ n \in Nat /\ x + 1 = n /\ Unused = -1 /\ Unused \in Nodes
      /\ Nodes \subseteq Int
  BY PoolAssumption DEF Nodes, Records, Unused, Admit
<1> HIDE DEF x
<1>1. /\ Line(x).next = [m \in Nodes |-> IF m = x - 1 THEN -1 ELSE IF m \in -1 .. x - 2 THEN m + 1 ELSE m]
      /\ Line(x).prev = [m \in Nodes |-> IF m = -1 THEN x - 1 ELSE IF m \in 0 .. x - 1 THEN m - 1 ELSE m]
  BY <1>0 DEF Line
<1>2. l.next = [Line(x).next EXCEPT ![x] = x] /\ l.prev = [Line(x).prev EXCEPT ![x] = x]
  BY DEF INIT_LIST_HEAD
<1> HIDE DEF l
<1>3. l.prev[Unused] = x - 1
  BY <1>0, <1>1, <1>2
<1>4. AddNext(Line(x), x) = [next |-> [l.next EXCEPT ![x] = -1, ![x - 1] = x],
                             prev |-> [l.prev EXCEPT ![-1] = x, ![x] = x - 1]]
  BY <1>3, <1>0 DEF AddNext, list_add_tail, l
<1>5. [l.next EXCEPT ![x] = -1, ![x - 1] = x]
      = [m \in Nodes |-> IF m = x THEN -1 ELSE IF m \in -1 .. x - 1 THEN m + 1 ELSE m]
  BY <1>0, <1>1, <1>2
<1>6. [l.prev EXCEPT ![-1] = x, ![x] = x - 1]
      = [m \in Nodes |-> IF m = -1 THEN x ELSE IF m \in 0 .. x THEN m - 1 ELSE m]
  BY <1>0, <1>1, <1>2
<1>7. n - 1 = x /\ n - 2 = x - 1
  BY <1>0
<1>8. Line(n) = [next |-> [m \in Nodes |-> IF m = x THEN -1 ELSE IF m \in -1 .. x - 1 THEN m + 1 ELSE m],
                 prev |-> [m \in Nodes |-> IF m = -1 THEN x ELSE IF m \in 0 .. x THEN m - 1 ELSE m]]
  BY <1>7, <1>0 DEF Line
<1> QED
  BY <1>4, <1>5, <1>6, <1>8, <1>7

LEMMA LineStarts == Line(0) = EmptyLists
<1>1. Unused = -1 /\ Nodes \subseteq Int
  BY NodesAre DEF Unused
<1>2. [m \in Nodes |-> IF m = 0 - 1 THEN Unused ELSE IF m \in -1 .. 0 - 2 THEN m + 1 ELSE m] = [m \in Nodes |-> m]
  BY <1>1
<1>3. [m \in Nodes |-> IF m = Unused THEN 0 - 1 ELSE IF m \in 0 .. 0 - 1 THEN m - 1 ELSE m] = [m \in Nodes |-> m]
  BY <1>1
<1> QED
  BY <1>2, <1>3 DEF Line, EmptyLists

LEMMA InitialLists == InitAndAdd(EmptyLists) = Line(NumTs)
<1> DEFINE turns == 0 .. NumTs
           at[n \in turns] == IF n = 0 THEN EmptyLists ELSE AddNext(at[n - 1], n - 1)
           F(g) == [n \in turns |-> IF n = 0 THEN EmptyLists ELSE AddNext(g[n - 1], n - 1)]
<1>1. InitAndAdd(EmptyLists) = at[NumTs]
  BY DEF InitAndAdd, AddNext
<1>2. \E g : g = F(g)
  <2> DEFINE g == [n \in turns |-> Line(n)]
  <2>1. \A n \in turns : Line(n) = IF n = 0 THEN EmptyLists ELSE AddNext(g[n - 1], n - 1)
    <3> TAKE n \in turns
    <3>1. CASE n = 0
      BY <3>1, LineStarts
    <3>2. CASE n # 0
      <4>1. n \in 1 .. NumTs /\ n - 1 \in turns
        BY <3>2, PoolAssumption
      <4>2. g[n - 1] = Line(n - 1)
        BY <4>1
      <4> QED
        BY <3>2, <4>1, <4>2, LineGrows
    <3> QED
      BY <3>1, <3>2
  <2>2. g = F(g)
    BY <2>1
  <2> QED
    BY <2>2
<1>3. at = F(at)
  BY <1>2
<1> HIDE DEF at
<1>4. \A n \in turns : at[n] = IF n = 0 THEN EmptyLists ELSE AddNext(at[n - 1], n - 1)
  BY <1>3
<1>5. ASSUME NEW n \in turns, at[n] # Line(n) PROVE FALSE
  <2> DEFINE T == {i \in turns : at[i] # Line(i)}
  <2>1. T \in SUBSET Nat /\ T # {}
    BY <1>5
  <2>2. PICK i \in T : \A j \in T : i <= j
    BY <2>1, NatMin
  <2>3. i # 0
    BY <2>2, <1>4, LineStarts
  <2>4. i \in 1 .. NumTs /\ i - 1 \in turns /\ ~(i <= i - 1)
    BY <2>2, <2>3, PoolAssumption
  <2>5. at[i - 1] = Line(i - 1)
    BY <2>2, <2>4
  <2> QED
    BY <2>2, <2>3, <2>4, <2>5, <1>4, LineGrows
<1>6. NumTs \in turns
  BY PoolAssumption
<1> QED
  BY <1>1, <1>5, <1>6

LEMMA InitKeepsPool == Dir = "TX" /\ PoolInit => PoolInv
<1> SUFFICES ASSUME Dir = "TX", PoolInit PROVE PoolInv
  OBVIOUS
<1> DEFINE l == Line(NumTs)
           R == Records \cup {Unused}
<1>0. /\ NumTs \in Nat /\ NumTs >= 1 /\ Unused = -1 /\ Admit = -2 /\ Records = 0 .. NumTs - 1
      /\ Nodes = -2 .. NumTs - 1 /\ R = -1 .. NumTs - 1
  BY PoolAssumption DEF Nodes, Records, Unused, Admit
<1>1. list = l
  BY InitialLists DEF PoolInit, TSInitialize
<1>2. /\ l.next = [m \in Nodes |-> IF m = NumTs - 1 THEN -1 ELSE IF m \in -1 .. NumTs - 2 THEN m + 1 ELSE m]
      /\ l.prev = [m \in Nodes |-> IF m = -1 THEN NumTs - 1 ELSE IF m \in 0 .. NumTs - 1 THEN m - 1 ELSE m]
  BY <1>0 DEF Line
<1>3. l \in Pointers
  <2>1. l.next \in [Nodes -> Nodes]
    BY <1>0, <1>2
  <2>2. l.prev \in [Nodes -> Nodes]
    BY <1>0, <1>2
  <2>3. l = [next |-> l.next, prev |-> l.prev]
    BY DEF Line
  <2> QED
    BY <2>1, <2>2, <2>3 DEF Pointers
<1> HIDE DEF l, R
<1>4. Mutual(l)
  BY <1>0, <1>2 DEF Mutual
<1>5. IsRing(l, Unused, R)
  <2>1. R \in SUBSET Nodes /\ Unused \in R /\ \A m \in R : l.next[m] \in R /\ l.prev[m] \in R
    BY <1>0, <1>2
  <2>2. ASSUME NEW S \in SUBSET Nodes, Unused \in S, Closed(l, S), NEW r \in R, r \notin S PROVE FALSE
    <3> DEFINE T == {i \in Nat : i - 1 \in R /\ i - 1 \notin S}
    <3>1. r + 1 \in Nat /\ (r + 1) - 1 = r
      BY <1>0
    <3>2. T \in SUBSET Nat /\ T # {}
      BY <3>1, <2>2
    <3>3. PICK i \in T : \A j \in T : i <= j
      BY <3>2, NatMin
    <3>4. i \in Nat /\ i # 0 /\ i - 1 \in R /\ i - 1 \notin S
      BY <3>3, <2>2, <1>0
    <3>5. i - 1 \in Nat /\ (i - 1) - 1 \in R /\ (i - 1) - 1 \in Nodes /\ ~(i <= i - 1)
      BY <3>4, <1>0
    <3>6. (i - 1) - 1 \in S
      BY <3>3, <3>5
    <3>7. l.next[(i - 1) - 1] = i - 1
      BY <3>4, <3>5, <1>0, <1>2
    <3> QED
      BY <3>4, <3>6, <3>7, <2>2 DEF Closed
  <2> QED
    BY <2>1, <2>2 DEF IsRing
<1>6. IsRing(l, Admit, {Admit})
  <2>1. l.next[Admit] = Admit /\ l.prev[Admit] = Admit /\ Admit \in Nodes
    BY <1>0, <1>2
  <2> QED
    BY <2>1 DEF IsRing
<1>7. OnList(list, Unused) = R \ {Unused} /\ Admitted = {}
  BY <1>1, <1>3, <1>5, <1>6, RingIsOnList, NodesAre DEF Admitted
<1>8. Us = R /\ As = {Admit} /\ R = Records \cup {Unused}
  BY <1>7, NodesAre DEF Us, As, R
<1>9. Lists
  BY <1>1, <1>3, <1>4, <1>5, <1>6, <1>8, NodesAre DEF Lists
<1>10. Parted /\ Looping
  BY <1>8, NodesAre DEF PoolInit, Parted, Looping, InTransit, Idle, Nodes
<1>11. PoolTypes
  BY NodesAre DEF PoolInit, PoolTypes, Keys, NoKey, Idle, NoCall
<1>12. OneRecordPerStream /\ RefusedOnlyWhenFull
  BY <1>7 DEF OneRecordPerStream, RefusedOnlyWhenFull, PoolInit, NoCall
<1> QED
  BY <1>9, <1>10, <1>11, <1>12 DEF PoolInv
-----------------------------------------------------------------------------
(* Every action keeps the invariant.  First what does not touch the lists. *)
LEMMA LooksStay ==
    ASSUME PoolInv, UNCHANGED <<list, key>>, PoolTypes', Looping', InTransit' = InTransit,
           rm'.pc = "unlinked" => rm.pc = "unlinked" /\ rm'.pTS = rm.pTS,
           got'.add /\ got'.ts = NULL => list.next[Unused] = Unused
    PROVE  PoolInv'
<1>1. Lists' /\ Us' = Us /\ As' = As /\ Admitted' = Admitted
  BY ListsStay DEF PoolInv
<1>2. Parted'
  BY <1>1 DEF PoolInv, Parted
<1>3. OneRecordPerStream'
  BY <1>1 DEF PoolInv, OneRecordPerStream
<1>4. RefusedOnlyWhenFull'
  <2> SUFFICES ASSUME got'.add, got'.ts = NULL PROVE Cardinality(Admitted \cup InTransit) = NumTs
    BY <1>1 DEF RefusedOnlyWhenFull
  <2>1. Lists /\ list.next[Unused] = Unused
    BY DEF PoolInv
  <2>2. Us \subseteq {Unused}
    <3>1. Closed(list, {Unused}) /\ {Unused} \in SUBSET Nodes
      BY <2>1, NodesAre DEF Closed
    <3> QED
      BY <2>1, <3>1 DEF Lists, IsRing
  <2>3. Us \cup As \cup InTransit = Nodes /\ InTransit \cap (Us \cup As) = {}
    BY DEF PoolInv, Parted
  <2>4. Admitted \cup InTransit = Records
    BY <2>1, <2>2, <2>3, Heads, NodesAre DEF As, Nodes
  <2>5. Cardinality(Records) = NumTs
    BY PoolAssumption, FS_Interval DEF Records
  <2> QED
    BY <2>4, <2>5
<1> QED
  BY <1>1, <1>2, <1>3, <1>4 DEF PoolInv

LEMMA PrioritiesAre ==
    ASSUME PoolInv, NEW a \in Addrs \cup {Group}, NEW tid \in TIDs, Served(a, tid)
    PROVE  [addr |-> a, up |-> UP(tid)] \in Keys
<1>1. tid \in 0 .. 15 /\ qos \in BOOLEAN /\ a \in Addrs
  BY PoolAssumption DEF PoolInv, PoolTypes, Served
<1>2. UP(tid) \in {0, 2, 5, 7}
  <2>1. CASE ~qos
    BY <2>1 DEF UP
  <2>2. CASE qos
    <3>1. tid \in {0, 3} \/ tid \in {1, 2} \/ tid \in {4, 5} \/ tid \in {6, 7}
      BY <2>2, <1>1 DEF Served
    <3> QED
      BY <2>2, <3>1 DEF UP
  <2> QED
    BY <1>1, <2>1, <2>2
<1> QED
  BY <1>1, <1>2 DEF Keys

LEMMA TakeKeeps ==
    ASSUME PoolInv, NEW k \in Keys, TakeUnused(k), UNCHANGED <<qos, rm>>, \A r \in Admitted : key[r] # k
    PROVE  PoolInv' /\ KeepsRecordStep
<1> DEFINE ts == list.next[Unused]
<1>1. ts \in Us \ {Unused} /\ Lists' /\ Us' = Us \ {ts} /\ As' = As \cup {ts}
  BY TakeUnusedIs
<1>2. Lists /\ ts \in Records /\ ts \notin As
  BY <1>1, Heads DEF PoolInv, Lists
<1>3. key' = [key EXCEPT ![ts] = k] /\ got' = [key |-> k, add |-> TRUE, ts |-> ts]
  BY DEF TakeUnused, Answer
<1> HIDE DEF ts
<1>4. Admitted' = Admitted \cup {ts} /\ ts \notin Admitted
  <2>1. Admitted' = As' \ {Admit} /\ Admitted = As \ {Admit}
    BY AdmittedIs
  <2> QED
    BY <2>1, <1>1, <1>2, NodesAre
<1>5. InTransit' = InTransit
  BY DEF InTransit
<1>6. Parted'
  <2>1. Us' \cup As' \cup InTransit' = Nodes /\ InTransit' \cap (Us' \cup As') = {}
    BY <1>1, <1>5 DEF PoolInv, Parted
  <2>2. ASSUME rm'.pc = "unlinked" PROVE list'.next[rm'.pTS] = rm'.pTS
    <3>1. rm.pTS \in InTransit /\ list.next[rm.pTS] = rm.pTS /\ rm.pTS \in Nodes
      BY <2>2 DEF PoolInv, Parted, InTransit, PoolTypes
    <3>2. rm.pTS \notin Us \cup As
      BY <3>1 DEF PoolInv, Parted
    <3>3. list'.next[rm.pTS] = list.next[rm.pTS]
      BY <3>1, <3>2, TakeElsewhere
    <3> QED
      BY <3>1, <3>3
  <2> QED
    BY <2>1, <2>2 DEF Parted
<1>7. PoolTypes'
  BY <1>2, <1>3 DEF PoolInv, PoolTypes
<1>8. Looping'
  BY <1>1 DEF PoolInv, Looping
<1>9. \A r \in Admitted : key'[r] = key[r]
  BY <1>3, <1>4, <1>2, Heads DEF PoolInv, PoolTypes
<1>10. key'[ts] = k
  BY <1>2, <1>3 DEF PoolInv, PoolTypes
<1>11. OneRecordPerStream'
  <2> SUFFICES ASSUME NEW r \in Admitted', NEW s \in Admitted', key'[r] = key'[s] PROVE r = s
    BY DEF OneRecordPerStream
  <2> QED
    BY <1>4, <1>9, <1>10 DEF PoolInv, OneRecordPerStream
<1>12. RefusedOnlyWhenFull'
  <2>1. got'.ts # NULL
    BY <1>2, <1>3, NodesAre
  <2> QED
    BY <2>1 DEF RefusedOnlyWhenFull
<1>13. KeepsRecordStep
  BY <1>4, <1>9 DEF KeepsRecordStep
<1> QED
  BY <1>1, <1>6, <1>7, <1>8, <1>11, <1>12, <1>13 DEF PoolInv

LEMMA GetTsKeeps ==
    ASSUME PoolInv, NEW a \in Addrs \cup {Group}, NEW tid \in TIDs, NEW add \in BOOLEAN, GetTs(a, tid, add)
    PROVE  PoolInv' /\ KeepsRecordStep
<1> DEFINE k == [addr |-> a, up |-> UP(tid)]
           found == SearchAdmitTRStream(k)
<1>0. UNCHANGED <<qos, rm>>
  BY DEF GetTs
<1>1. found \in Records \cup {NULL} /\ (found = NULL => \A r \in Admitted : key[r] # k)
  BY SearchIs DEF PoolInv
<1>2. CASE UNCHANGED <<list, key>> /\ got'.ts \in Records \cup {NULL}
           /\ (got'.add /\ got'.ts = NULL => list.next[Unused] = Unused)
  <2>1. PoolTypes'
    BY <1>0, <1>2 DEF PoolInv, PoolTypes
  <2>2. InTransit' = InTransit
    BY <1>0 DEF InTransit
  <2>3. Looping'
    BY <1>0, <1>2, ListsStay DEF PoolInv, Looping
  <2> QED
    BY <1>0, <1>2, <2>1, <2>2, <2>3, LooksStay DEF KeepsRecordStep
<1>3. CASE Served(a, tid) /\ found = NULL /\ TakeUnused(k)
  <2>1. k \in Keys
    BY <1>3, PrioritiesAre
  <2> QED
    BY <1>0, <1>1, <1>3, <2>1, TakeKeeps
<1> HIDE DEF found, k
<1>4. \/ got' = NoCall /\ UNCHANGED <<list, key>>
      \/ found # NULL /\ Answer(k, add, found) /\ UNCHANGED <<list, key>>
      \/ Answer(k, FALSE, NULL) /\ UNCHANGED <<list, key>>
      \/ Served(a, tid) /\ found = NULL /\ TakeUnused(k)
      \/ list.next[Unused] = Unused /\ Answer(k, TRUE, NULL) /\ UNCHANGED <<list, key>>
  BY DEF GetTs, found, k
<1> QED
  BY <1>1, <1>2, <1>3, <1>4 DEF Answer, NoCall

(* The walk of a removal.                                                  *)
LEMMA StartKeeps ==
    ASSUME PoolInv, NEW a \in Addrs \cup {AllPeers}, StartRemoval(a) PROVE PoolInv' /\ KeepsRecordStep
<1>0. /\ Lists /\ UNCHANGED <<list, key, qos>> /\ got' = NoCall /\ rm.pc = "idle"
      /\ rm' = [pc |-> "loop", addr |-> a, pTS |-> list.next[Admit], pTmpTS |-> list.next[list.next[Admit]]]
  BY DEF PoolInv, StartRemoval
<1>1. list \in Pointers /\ Mutual(list) /\ IsRing(list, Admit, As) /\ Admit \in As /\ As \in SUBSET Nodes
  BY <1>0, Heads DEF Lists
<1>2. list.next[Admit] \in As
  BY <1>1, StepOn
<1>3. /\ list.next[list.next[Admit]] \in As
      /\ list.next[Admit] # Admit => list.next[list.next[Admit]] # list.next[Admit]
  BY <1>1, <1>2, StepOn
<1>4. As' = As
  BY <1>0, ListsStay
<1>5. Looping'
  BY <1>0, <1>2, <1>3, <1>4 DEF Looping
<1>6. PoolTypes'
  BY <1>0, <1>1, <1>2, <1>3 DEF PoolInv, PoolTypes, NoCall
<1>7. InTransit' = InTransit
  BY <1>0 DEF InTransit
<1> QED
  BY <1>0, <1>5, <1>6, <1>7, LooksStay DEF KeepsRecordStep, NoCall

LEMMA SkipKeeps == ASSUME PoolInv, Skip PROVE PoolInv' /\ KeepsRecordStep
<1>0. /\ Lists /\ UNCHANGED <<list, key, qos>> /\ got' = NoCall /\ rm.pc = "loop" /\ rm.pTmpTS \in As
      /\ rm' = [rm EXCEPT !.pc = "loop", !.pTS = rm.pTmpTS, !.pTmpTS = list.next[rm.pTmpTS]]
  BY DEF PoolInv, Looping, Skip, NextRecord
<1>1. list \in Pointers /\ Mutual(list) /\ IsRing(list, Admit, As) /\ As \in SUBSET Nodes
  BY <1>0, Heads DEF Lists
<1>2. list.next[rm.pTmpTS] \in As /\ (rm.pTmpTS # Admit => list.next[rm.pTmpTS] # rm.pTmpTS)
  BY <1>0, <1>1, StepOn
<1>3. As' = As
  BY <1>0, ListsStay
<1>4. rm'.pc = "loop" /\ rm'.pTS = rm.pTmpTS /\ rm'.pTmpTS = list.next[rm.pTmpTS]
  BY <1>0 DEF PoolInv, PoolTypes
<1>5. Looping'
  BY <1>0, <1>2, <1>3, <1>4 DEF Looping
<1>6. PoolTypes'
  BY <1>0, <1>1, <1>2 DEF PoolInv, PoolTypes, NoCall
<1>7. InTransit' = InTransit
  BY <1>0, <1>4 DEF InTransit
<1> QED
  BY <1>0, <1>4, <1>5, <1>6, <1>7, LooksStay DEF KeepsRecordStep, NoCall

LEMMA UnlinkKeeps == ASSUME PoolInv, Unlink PROVE PoolInv' /\ KeepsRecordStep
<1>0. /\ Lists /\ rm.pc = "loop" /\ rm.pTmpTS \in As /\ rm.pTmpTS # rm.pTS
      /\ rm' = [rm EXCEPT !.pc = "unlinked"] /\ got' = NoCall /\ UNCHANGED <<key, qos>>
  BY DEF PoolInv, Looping, Unlink
<1>1. /\ Lists' /\ Us' = Us /\ As' = As \ {rm.pTS} /\ rm.pTS \in As \ {Admit}
      /\ list'.next[rm.pTS] = rm.pTS
  BY UnlinkIs
<1>2. rm'.pc = "unlinked" /\ rm'.pTS = rm.pTS /\ rm'.pTmpTS = rm.pTmpTS
  BY <1>0 DEF PoolInv, PoolTypes
<1>3. InTransit = {} /\ InTransit' = {rm.pTS}
  BY <1>0, <1>2 DEF InTransit
<1>4. Admitted' = Admitted \ {rm.pTS} /\ rm.pTS \in Admitted
  <2>1. Admitted' = As' \ {Admit} /\ Admitted = As \ {Admit}
    BY AdmittedIs
  <2> QED
    BY <2>1, <1>1
<1>5. Parted'
  BY <1>0, <1>1, <1>2, <1>3 DEF PoolInv, Parted, Lists
<1>6. PoolTypes' /\ Looping'
  BY <1>0, <1>1, <1>2 DEF PoolInv, PoolTypes, Looping, NoCall
<1>7. OneRecordPerStream' /\ RefusedOnlyWhenFull'
  BY <1>0, <1>4 DEF PoolInv, OneRecordPerStream, RefusedOnlyWhenFull, NoCall
<1>8. KeepsRecordStep
  BY <1>0, <1>4 DEF KeepsRecordStep
<1> QED
  BY <1>1, <1>5, <1>6, <1>7, <1>8 DEF PoolInv

LEMMA ReturnKeeps == ASSUME PoolInv, Return PROVE PoolInv' /\ KeepsRecordStep
<1>0. /\ Lists /\ rm.pc = "unlinked" /\ rm.pTmpTS \in As /\ got' = NoCall /\ UNCHANGED <<key, qos>>
      /\ rm' = [rm EXCEPT !.pc = "loop", !.pTS = rm.pTmpTS, !.pTmpTS = list'.next[rm.pTmpTS]]
  BY DEF PoolInv, Looping, Return, NextRecord
<1>1. Lists' /\ Us' = Us \cup {rm.pTS} /\ As' = As
  BY ReturnIs
<1>2. list' \in Pointers /\ Mutual(list') /\ IsRing(list', Admit, As) /\ As \in SUBSET Nodes
  BY <1>0, <1>1, Heads DEF Lists
<1>3. list'.next[rm.pTmpTS] \in As /\ (rm.pTmpTS # Admit => list'.next[rm.pTmpTS] # rm.pTmpTS)
  BY <1>0, <1>2, StepOn
<1>4. rm'.pc = "loop" /\ rm'.pTS = rm.pTmpTS /\ rm'.pTmpTS = list'.next[rm.pTmpTS]
  BY <1>0 DEF PoolInv, PoolTypes
<1>5. InTransit = {rm.pTS} /\ InTransit' = {}
  BY <1>0, <1>4 DEF InTransit
<1>6. Admitted' = Admitted
  <2>1. Admitted' = As' \ {Admit} /\ Admitted = As \ {Admit}
    BY AdmittedIs
  <2> QED
    BY <2>1, <1>1
<1>7. Parted'
  BY <1>0, <1>1, <1>4, <1>5 DEF PoolInv, Parted
<1>8. PoolTypes'
  BY <1>0, <1>2, <1>3 DEF PoolInv, PoolTypes, NoCall
<1>9. Looping'
  BY <1>0, <1>1, <1>3, <1>4 DEF Looping
<1>10. OneRecordPerStream' /\ RefusedOnlyWhenFull'
  BY <1>0, <1>6 DEF PoolInv, OneRecordPerStream, RefusedOnlyWhenFull, NoCall
<1>11. KeepsRecordStep
  BY <1>0, <1>6 DEF KeepsRecordStep
<1> QED
  BY <1>1, <1>7, <1>8, <1>9, <1>10, <1>11 DEF PoolInv

LEMMA OthersKeep == ASSUME PoolInv, EndRemoval \/ ChangeNetwork PROVE PoolInv' /\ KeepsRecordStep
<1>0. /\ Lists /\ UNCHANGED <<list, key>> /\ got' = NoCall /\ qos' \in BOOLEAN /\ (rm' = rm \/ rm' = Idle)
      /\ rm.pc = "loop" \/ rm' = rm
  BY DEF PoolInv, PoolTypes, EndRemoval, ChangeNetwork
<1>1. As' = As
  BY <1>0, ListsStay
<1>2. PoolTypes'
  BY <1>0, NodesAre DEF PoolInv, PoolTypes, NoCall, Idle
<1>3. Looping'
  BY <1>0, <1>1 DEF PoolInv, Looping, Idle
<1>4. InTransit' = InTransit
  BY <1>0 DEF InTransit, Idle
<1>5. rm'.pc = "unlinked" => rm.pc = "unlinked" /\ rm'.pTS = rm.pTS
  BY <1>0 DEF Idle
<1> QED
  BY <1>0, <1>2, <1>3, <1>4, <1>5, LooksStay DEF KeepsRecordStep, NoCall

LEMMA PoolStep == ASSUME PoolInv, [PoolNext]_poolVars PROVE PoolInv' /\ (PoolNext => KeepsRecordStep)
<1>1. CASE UNCHANGED poolVars
  <2>1. UNCHANGED <<list, key, qos, rm, got>>
    BY <1>1 DEF poolVars
  <2>2. Lists' /\ Us' = Us /\ As' = As /\ Admitted' = Admitted /\ InTransit' = InTransit
    BY <2>1, ListsStay DEF PoolInv, InTransit
  <2> QED
    BY <2>1, <2>2 DEF PoolInv, Parted, PoolTypes, Looping, OneRecordPerStream, RefusedOnlyWhenFull,
                      KeepsRecordStep
<1>2. CASE PoolNext
  BY <1>2, GetTsKeeps, StartKeeps, SkipKeeps, UnlinkKeeps, ReturnKeeps, OthersKeep
     DEF PoolNext, RemovePeerTS, RemoveAllTS
<1> QED
  BY <1>1, <1>2

LEMMA PoolAlways == Dir = "TX" /\ PoolSpec => []PoolInv
<1>1. Dir = "TX" /\ PoolInit => PoolInv
  BY InitKeepsPool
<1>2. PoolInv /\ [PoolNext]_poolVars => PoolInv'
  BY PoolStep
<1> QED
  BY <1>1, <1>2, PTL DEF PoolSpec

LEMMA PoolInvGives == PoolInv => PoolSound /\ StreamsServed
<1> SUFFICES ASSUME PoolInv PROVE PoolSound /\ StreamsServed
  OBVIOUS
<1>0. Lists /\ Parted /\ PoolTypes /\ Looping
  BY DEF PoolInv
<1>1. PoolTypeOK
  BY <1>0 DEF PoolTypeOK, Lists, Pointers, PoolTypes, Keys
<1>2. ListsSound
  <2>1. \A n \in Nodes : list.prev[list.next[n]] = n /\ list.next[list.prev[n]] = n
    BY <1>0 DEF Lists, Mutual
  <2>2. /\ OnList(list, Unused) = Us \ {Unused} /\ Admitted = As \ {Admit} /\ Us \cap As = {}
        /\ Unused \in Us /\ Admit \in As
    BY <1>0, Heads DEF Lists
  <2>3. Us \cup As \cup InTransit = Nodes /\ InTransit \cap (Us \cup As) = {}
    BY <1>0 DEF Parted
  <2>4. OnList(list, Unused) \cup Admitted \cup InTransit = Records
    BY <2>2, <2>3, NodesAre DEF Nodes
  <2> QED
    BY <2>1, <2>2, <2>3, <2>4 DEF ListsSound
<1>3. LoopOnList
  BY <1>0 DEF Looping, LoopOnList, As
<1> QED
  BY <1>1, <1>2, <1>3 DEF PoolInv, PoolSound, StreamsServed

(* The pool of TX records, of any size, for any peers and TIDs: whatever   *)
(* GetTs does between two steps of a removal loop, both lists stay rings   *)
(* that hold every record once, and the loop stays on the admit list       *)
(* (TSInitialize, GetTs, RemovePeerTS, RemoveAllTS).                       *)
THEOREM PoolIsSound == Dir = "TX" => (PoolSpec => []PoolSound)
BY PoolAlways, PoolInvGives, PTL

(* A peer has one record per user priority, and GetTs refuses a stream     *)
(* only when all records are in use.                                       *)
THEOREM StreamsAreServed == Dir = "TX" => (PoolSpec => []StreamsServed)
BY PoolAlways, PoolInvGives, PTL

(* A stream keeps its record until a removal loop comes to it: GetTs gives *)
(* away no record in use.                                                  *)
THEOREM RecordsAreKept == Dir = "TX" => (PoolSpec => KeepsRecord)
<1>1. PoolInv /\ [PoolNext]_poolVars => [KeepsRecordStep]_poolVars
  BY PoolStep
<1> QED
  BY <1>1, PoolAlways, PTL DEF PoolSpec, KeepsRecord
=============================================================================
