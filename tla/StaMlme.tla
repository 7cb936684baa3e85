------------------------------ MODULE StaMlme ------------------------------
(***************************************************************************)
(* How a station finds, joins and leaves a BSS: the association state      *)
(* machine of rtllib_softmac.c, the wireless extension calls of            *)
(* rtllib_softmac_wx.c that restart it, and the parts of rtl_core.c that   *)
(* write ieee->state (link-loss watchdog, interface up and down).          *)
(* Infrastructure mode only.  The radio is always on: no part of this      *)
(* build calls MgntActSet_RF_State (ENABLE_IPS, ENABLE_GPIO_RADIO_CTL and  *)
(* CONFIG_PM_RTL are not defined).                                         *)
(*                                                                         *)
(* Actors, on one CPU:                                                     *)
(*   the RX tasklet and the associate timer, softirqs, each handler atomic;*)
(*   ieee->wq, created by create_workqueue: one worker per CPU, so one     *)
(*     worker that runs its works in FIFO order;                           *)
(*   one user process (the wireless handlers exclude each other with       *)
(*     priv->wx_sem), and the watchdog, a worker of its own (priv_wq).     *)
(* Process context is preempted by softirqs anywhere, and the three        *)
(* processes by each other; wx_sem and scan_sem are semaphores.            *)
(*                                                                         *)
(* The access point is external: it answers requests, or anything else,    *)
(* with any status at any time.  Which networks are in range and match     *)
(* the configured SSID is a free choice wherever the code compares them.   *)
(* sync_scan_hurryup only shortens scans, whose length is free here.       *)
(***************************************************************************)
EXTENDS Naturals, Sequences, SequencesExt

CONSTANTS
    UserOps,        \* what the user does: subset of AllUserOps
    LinkLoss,       \* the access point may vanish (the watchdog notices)
    Preempt,        \* answers may arrive before step 1 has started its timer
    RetryLimit      \* RT_ASOC_RETRY_LIMIT

AllUserOps == {"restart", "down", "up", "scan"}

ASSUME StaAssumption ==
    /\ UserOps \subseteq AllUserOps
    /\ LinkLoss \in BOOLEAN /\ Preempt \in BOOLEAN
    /\ RetryLimit \in Nat \ {0}

VARIABLES
    state,      \* ieee->state
    joined,     \* history: the AP last accepted this station, and has not ended it
    asocRetry,  \* AsocRetryCount
    proto,      \* proto_started
    up,         \* priv->up and ieee_up: the interface is up, its interrupts on
    timer,      \* associate_timer is pending
    scan,       \* [flag |-> scanning, sync |-> be_scan_inprogress, sem |-> holder of scan_sem]
    sem,        \* holder of wx_sem: "none", "user", "worker", "survey"
    carrier,    \* netif_carrier_ok
    filter,     \* RCR_CBSSID: the card drops frames of other BSSIDs
    works,      \* [delayed |-> works whose delay runs, queue |-> works queued on ieee->wq]
    worker,     \* what ieee->wq's worker is doing
    user,       \* [op, pc] of the user process
    watchdog    \* how far the watchdog has come in ending a lost link

vars == <<state, joined, asocRetry, proto, up, timer, scan, sem, carrier, filter,
          works, worker, user, watchdog>>

Transient == {"ASSOCIATING", "RETRY", "AUTHENTICATING", "AUTHENTICATED"}
States == Transient \cup {"NOLINK", "LINKED", "LINKED_SCANNING"}
Works == {"procedure", "retry", "complete", "linkchange", "scan", "survey"}
WorkerPcs == {"idle", "procedure", "stopscan", "sent", "retry", "again", "research",
              "rescan", "surveywait", "surveying"}
NoUser == [op |-> "none", pc |-> "idle"]

(* The interface is down, or has just come up.                             *)
Init ==
    /\ state = "NOLINK" /\ joined = FALSE /\ asocRetry = 0
    /\ up \in BOOLEAN /\ proto = up
    /\ timer = FALSE
    /\ scan = [flag |-> FALSE, sync |-> FALSE, sem |-> "none"]
    /\ sem = "none" /\ carrier = FALSE /\ filter = FALSE
    /\ works = [delayed |-> {}, queue |-> << >>]
    /\ worker = "idle" /\ user = NoUser /\ watchdog = "idle"

-----------------------------------------------------------------------------
(* The work queue (external): a work that is pending is not queued again;  *)
(* cancelling takes it back unless it already runs.                        *)

InQueue(ws, w) == \E i \in 1..Len(ws.queue) : ws.queue[i] = w
PendingIn(ws, w) == w \in ws.delayed \/ InQueue(ws, w)
Pending(w) == PendingIn(works, w)
QueueWork(ws, w) ==
    IF PendingIn(ws, w) THEN ws ELSE [ws EXCEPT !.queue = Append(@, w)]
QueueDelayedWork(ws, w) ==
    IF PendingIn(ws, w) THEN ws ELSE [ws EXCEPT !.delayed = @ \cup {w}]
CancelWork(ws, w) ==
    [delayed |-> ws.delayed \ {w},
     queue |-> IF InQueue(ws, w)
               THEN RemoveAt(ws.queue, CHOOSE i \in 1..Len(ws.queue) : ws.queue[i] = w)
               ELSE ws.queue]

DelayExpires(w) ==
    /\ w \in works.delayed
    /\ works' = [delayed |-> works.delayed \ {w}, queue |-> Append(works.queue, w)]
    /\ UNCHANGED <<state, joined, asocRetry, proto, up, timer, scan, sem, carrier, filter,
                   worker, user, watchdog>>

(* The worker takes the next work.                                         *)
Dispatch(w) == worker = "idle" /\ works.queue # << >> /\ Head(works.queue) = w
Dequeued == [works EXCEPT !.queue = Tail(@)]

-----------------------------------------------------------------------------
(* Pieces several handlers share.                                          *)

(* rtllib_softmac_new_net finds a network that suits, in state NOLINK.     *)
rtllib_softmac_new_net ==
    /\ state' = "ASSOCIATING" /\ asocRetry' = 0
    /\ works' = QueueWork(works, "procedure")

(* rtllib_softmac_check_all_nets: the list may hold a suitable network.    *)
rtllib_softmac_check_all_nets ==
    \/ state = "NOLINK" /\ rtllib_softmac_new_net
    \/ UNCHANGED <<state, asocRetry, works>>

(* rtllib_start_scan, in the callers' test for NOLINK.                     *)
StartScanUnlessLinking ==
    IF state = "NOLINK" /\ ~scan.flag
    THEN scan' = [scan EXCEPT !.flag = TRUE] /\ works' = QueueWork(works, "scan")
    ELSE UNCHANGED <<scan, works>>

(* rtllib_softmac_stop_scan leaves these works.  It waits for scan_sem.    *)
rtllib_softmac_stop_scan == IF scan.flag THEN CancelWork(works, "scan") ELSE works

(* Mutant of rtllib_associate_abort: nothing is queued.                    *)
AbortWithoutRetry == state' = "RETRY" /\ UNCHANGED works

(* rtllib_associate_abort: wait, then let the retry work decide.           *)
rtllib_associate_abort ==
    /\ state' = "RETRY"
    /\ works' = QueueDelayedWork(works, "retry")

(* rtl8192_link_change: the BSSID filter follows the state it reads.       *)
rtl8192_link_change(s) == filter' = (s = "LINKED")

-----------------------------------------------------------------------------
(* Softirqs.                                                               *)

Receives == up /\ (Preempt \/ worker # "sent")
RxFrame == Receives /\ UNCHANGED <<proto, up, scan, sem, filter, worker, user, watchdog>>

(* rtllib_process_probe_response: a beacon of a suitable network.  It does *)
(* not look at proto_started.                                              *)
RxBeacon ==
    /\ RxFrame
    /\ state = "NOLINK" /\ rtllib_softmac_new_net
    /\ UNCHANGED <<joined, timer, carrier>>

(* Authentication responses.  An open or final one starts                  *)
(* rtllib_associate_step2, which stops the timer before it allocates the   *)
(* request and starts it after; a challenge is answered                    *)
(* (rtllib_auth_challenge).  A failure leaves the old timer pending.       *)
RxAuth(answer, alloc) ==
    /\ RxFrame /\ proto /\ state = "AUTHENTICATING"
    /\ \/ answer = "ok" /\ alloc
          /\ state' = "AUTHENTICATED" /\ timer' = TRUE /\ UNCHANGED works
       \/ answer = "ok" /\ ~alloc
          /\ timer' = FALSE /\ rtllib_associate_abort
       \/ answer = "challenge" /\ alloc
          /\ timer' = TRUE /\ UNCHANGED <<state, works>>
       \/ (answer = "refused" \/ (answer = "challenge" /\ ~alloc))
          /\ rtllib_associate_abort /\ UNCHANGED timer
    /\ UNCHANGED <<joined, asocRetry, carrier>>

(* assoc_parse counts the refusals that a pure-N retry may cure, as long   *)
(* as there are fewer than the limit, and starts again after any other;    *)
(* it does not get that far with a short frame.                            *)
AssocRefusals(why) ==
    IF why = "short" THEN asocRetry
    ELSE IF why = "curable" /\ asocRetry < RetryLimit - 1 THEN asocRetry + 1
    ELSE 0

(* Mutant of RxAssocOk: associate_complete_wq is not queued.               *)
RxAssocOkNotCompleted(trouble) ==
    /\ RxFrame /\ proto /\ state = "AUTHENTICATED"
    /\ state' = "LINKED" /\ joined' = TRUE /\ asocRetry' = 0
    /\ IF trouble # "none" THEN UNCHANGED timer ELSE timer' = FALSE
    /\ UNCHANGED <<works, carrier>>

(* A successful association response.  Without memory for the network it   *)
(* is dropped; malformed: rtllib_parse_info_param fails after the state    *)
(* was set.                                                                *)
RxAssocOk(trouble) ==
    /\ RxFrame /\ proto /\ state = "AUTHENTICATED"
    /\ joined' = TRUE /\ asocRetry' = 0
    /\ state' = IF trouble = "memory" THEN state ELSE "LINKED"
    /\ IF trouble = "none" THEN timer' = FALSE /\ works' = QueueWork(works, "complete")
       ELSE UNCHANGED <<timer, works>>
    /\ UNCHANGED carrier

RxAssocRefused(why) ==
    /\ RxFrame /\ proto /\ state = "AUTHENTICATED"
    /\ asocRetry' = AssocRefusals(why)
    /\ IF asocRetry' < RetryLimit
       THEN works' = QueueWork(works, "procedure") /\ UNCHANGED state
       ELSE rtllib_associate_abort
    /\ UNCHANGED <<joined, timer, carrier>>

(* rtllib_disassociate: carrier off, NOLINK, link_change_wq.               *)
rtllib_disassociate(ws) ==
    /\ state' = "NOLINK" /\ carrier' = FALSE
    /\ works' = QueueWork(ws, "linkchange")

(* Mutant of RxDeauth: the frame is ignored.                               *)
RxDeauthIgnored ==
    /\ RxFrame /\ proto
    /\ joined' = FALSE
    /\ UNCHANGED <<state, carrier, works, asocRetry, timer>>

(* Disassociation or deauthentication by the current access point.  Only   *)
(* a LINKED station reacts; rtllib_disassociate overwrites the ASSOCIATING *)
(* that the handler sets first.                                            *)
RxDeauth ==
    /\ RxFrame /\ proto
    /\ joined' = FALSE
    /\ IF state = "LINKED"
       THEN rtllib_disassociate(QueueDelayedWork(works, "procedure"))
       ELSE UNCHANGED <<state, carrier, works>>
    /\ UNCHANGED <<asocRetry, timer>>

(* The associate timer: rtllib_associate_abort_cb.                         *)
AssociateTimeout ==
    /\ timer /\ timer' = FALSE
    /\ rtllib_associate_abort
    /\ UNCHANGED <<joined, asocRetry, proto, up, scan, sem, carrier, filter, worker, user, watchdog>>

-----------------------------------------------------------------------------
(* The works of ieee->wq.                                                  *)

WorkerOnly == UNCHANGED <<proto, up, user, watchdog>>

(* down(&ieee->wx_sem) of the two works that take it.                      *)
WorkerTakesSem(from, to) ==
    /\ worker = from /\ sem = "none"
    /\ sem' = "worker" /\ worker' = to
    /\ UNCHANGED <<state, joined, asocRetry, timer, scan, carrier, filter, works>> /\ WorkerOnly

StartProcedure ==
    /\ Dispatch("procedure")
    /\ worker' = "procedure" /\ works' = Dequeued
    /\ UNCHANGED <<state, joined, asocRetry, timer, scan, sem, carrier, filter>> /\ WorkerOnly

(* Mutant of rtllib_associate_procedure_wq: the scan work is cancelled and *)
(* its flag left set.                                                      *)
ProcedureKeepsScanFlag(alloc) ==
    /\ worker = "stopscan" /\ scan.sem = "none" /\ alloc
    /\ state' = "AUTHENTICATING" /\ works' = rtllib_softmac_stop_scan
    /\ worker' = "sent"
    /\ UNCHANGED <<joined, asocRetry, timer, scan, sem, carrier, filter>> /\ WorkerOnly

(* rtllib_associate_procedure_wq up to the point where rtllib_associate_   *)
(* step1 has sent the authentication request: without memory it aborts.    *)
rtllib_associate_procedure_wq(alloc) ==
    /\ worker = "stopscan" /\ scan.sem = "none"
    /\ scan' = [scan EXCEPT !.flag = FALSE]
    /\ LET ws == rtllib_softmac_stop_scan
       IN  \/ /\ ~alloc
              /\ state' = "RETRY" /\ works' = QueueDelayedWork(ws, "retry")
              /\ sem' = "none" /\ worker' = "idle"
           \/ /\ alloc
              /\ state' = "AUTHENTICATING" /\ works' = ws
              /\ worker' = "sent" /\ UNCHANGED sem
    /\ UNCHANGED <<joined, asocRetry, timer, carrier, filter>> /\ WorkerOnly

(* Mutant of Step1StartsTimer: the timer is not started.                   *)
Step1WithoutTimer ==
    /\ worker = "sent"
    /\ sem' = "none" /\ worker' = "idle"
    /\ UNCHANGED <<state, joined, asocRetry, timer, scan, carrier, filter, works>> /\ WorkerOnly

(* The rest of rtllib_associate_step1: the timer, unless it is pending.    *)
Step1StartsTimer ==
    /\ worker = "sent"
    /\ timer' = TRUE
    /\ sem' = "none" /\ worker' = "idle"
    /\ UNCHANGED <<state, joined, asocRetry, scan, carrier, filter, works>> /\ WorkerOnly

StartRetry ==
    /\ Dispatch("retry")
    /\ worker' = "retry" /\ works' = Dequeued
    /\ UNCHANGED <<state, joined, asocRetry, timer, scan, sem, carrier, filter>> /\ WorkerOnly

(* rtllib_associate_retry_wq gives up unless the protocol runs and nothing *)
(* else has changed the state; it makes the state NOLINK, looks at the     *)
(* known networks, and scans if none suits.                                *)
RetryLooks ==
    /\ worker = "again"
    /\ IF proto /\ state = "RETRY"
       THEN state' = "NOLINK" /\ worker' = "research" /\ UNCHANGED sem
       ELSE worker' = "idle" /\ sem' = "none" /\ UNCHANGED state
    /\ UNCHANGED <<joined, asocRetry, timer, scan, carrier, filter, works>> /\ WorkerOnly

RetryChecksNets ==
    /\ worker = "research"
    /\ rtllib_softmac_check_all_nets
    /\ worker' = "rescan"
    /\ UNCHANGED <<joined, timer, scan, sem, carrier, filter>> /\ WorkerOnly

RetryScans ==
    /\ worker = "rescan"
    /\ StartScanUnlessLinking
    /\ worker' = "idle" /\ sem' = "none"
    /\ UNCHANGED <<state, joined, asocRetry, timer, carrier, filter>> /\ WorkerOnly

rtllib_associate_complete_wq ==
    /\ Dispatch("complete")
    /\ works' = Dequeued
    /\ carrier' = TRUE /\ rtl8192_link_change(state)
    /\ UNCHANGED <<state, joined, asocRetry, timer, scan, sem, worker>> /\ WorkerOnly

rtllib_link_change_wq ==
    /\ Dispatch("linkchange")
    /\ works' = Dequeued
    /\ rtl8192_link_change(state)
    /\ UNCHANGED <<state, joined, asocRetry, timer, scan, sem, carrier, worker>> /\ WorkerOnly

(* rtllib_softmac_scan_wq visits one channel and queues itself again,      *)
(* until all were visited or the scan was stopped (last).  It waits for    *)
(* scan_sem, and leaves early, the flag as it is, while the interface is   *)
(* down or a synchronous scan runs.                                        *)
rtllib_softmac_scan_wq(last) ==
    /\ Dispatch("scan")
    /\ IF ~up \/ scan.sync
       THEN UNCHANGED scan /\ works' = Dequeued
       ELSE IF last \/ ~scan.flag
       THEN scan.sem = "none" /\ scan' = [scan EXCEPT !.flag = FALSE] /\ works' = Dequeued
       ELSE scan.sem = "none" /\ UNCHANGED scan /\ works' = QueueDelayedWork(Dequeued, "scan")
    /\ UNCHANGED <<state, joined, asocRetry, timer, sem, carrier, filter, worker>> /\ WorkerOnly

(* rtllib_wx_sync_scan_wq, the site survey of a linked station: leave the  *)
(* channel; scan (rtllib_softmac_scan_syncro, under scan_sem); come back,  *)
(* and release the wx_sem that rtllib_wx_set_scan took.                    *)
SurveyStarts ==
    /\ Dispatch("survey")
    /\ works' = Dequeued /\ worker' = "surveywait"
    /\ carrier' = FALSE /\ state' = "LINKED_SCANNING"
    /\ rtl8192_link_change(state')
    /\ scan' = [scan EXCEPT !.sync = TRUE]
    /\ UNCHANGED <<joined, asocRetry, timer, sem>> /\ WorkerOnly

SurveyScans ==
    /\ worker = "surveywait" /\ scan.sem = "none"
    /\ worker' = "surveying" /\ scan' = [scan EXCEPT !.sync = TRUE, !.sem = "worker"]
    /\ UNCHANGED <<state, joined, asocRetry, timer, sem, carrier, filter, works>> /\ WorkerOnly

(* Mutant of SurveyEnds: the semaphore is forgotten for good.              *)
SurveyEndsKeepsSem ==
    /\ worker = "surveying"
    /\ worker' = "idle" /\ scan' = [scan EXCEPT !.sync = FALSE, !.sem = "none"]
    /\ state' = "LINKED" /\ rtl8192_link_change(state') /\ carrier' = TRUE
    /\ UNCHANGED <<joined, asocRetry, timer, sem, works>> /\ WorkerOnly

SurveyEnds ==
    /\ worker = "surveying"
    /\ worker' = "idle" /\ scan' = [scan EXCEPT !.sync = FALSE, !.sem = "none"]
    /\ state' = "LINKED" /\ rtl8192_link_change(state') /\ carrier' = TRUE
    /\ sem' = "none"
    /\ UNCHANGED <<joined, asocRetry, timer, works>> /\ WorkerOnly

-----------------------------------------------------------------------------
(* The watchdog: no beacon and no data since the last period.              *)

WatchdogOnly == UNCHANGED <<asocRetry, proto, up, timer, scan, sem, carrier, worker, user>>

WatchdogMissesBeacons ==
    /\ LinkLoss /\ up /\ watchdog = "idle" /\ state = "LINKED"
    /\ watchdog' = "lost"
    /\ UNCHANGED <<state, joined, filter, works>> /\ WatchdogOnly

WatchdogEndsLink ==
    /\ watchdog = "lost"
    /\ watchdog' = "queue"
    /\ state' = "ASSOCIATING" /\ joined' = FALSE /\ rtl8192_link_change(state')
    /\ UNCHANGED works /\ WatchdogOnly

WatchdogQueues ==
    /\ watchdog = "queue"
    /\ watchdog' = "idle" /\ works' = QueueWork(works, "procedure")
    /\ UNCHANGED <<state, joined, filter>> /\ WatchdogOnly

-----------------------------------------------------------------------------
(* The user process.                                                       *)

UserOnly == UNCHANGED <<worker, watchdog>>
UserAt(pc) == user.pc = pc
UserGoes(pc) == user' = IF pc = "idle" THEN NoUser ELSE [user EXCEPT !.pc = pc]

(* set_essid, set_wap: restart.  rtl8192_down, _rtl8192_up.                *)
UserCalls(op) ==
    /\ UserAt("idle") /\ op \in UserOps
    /\ \/ op = "restart" /\ UNCHANGED up
       \/ op = "down" /\ up /\ up' = FALSE
       \/ op = "up" /\ ~up /\ up' = TRUE
    /\ user' = IF op = "up" /\ state = "LINKED" THEN NoUser ELSE [op |-> op, pc |-> "wait"]
    /\ UNCHANGED <<state, joined, asocRetry, proto, timer, scan, sem, carrier, filter, works>> /\ UserOnly

(* r8192_wx_set_scan: an unlinked station is scanned at once, with         *)
(* rtllib_softmac_scan_syncro; a linked one by the worker.                 *)
UserCallsScan ==
    /\ UserAt("idle") /\ "scan" \in UserOps /\ up
    /\ IF state = "LINKED"
       THEN user' = [op |-> "scan", pc |-> "wait"] /\ UNCHANGED scan
       ELSE user' = [op |-> "scan", pc |-> "syncwait"] /\ scan' = [scan EXCEPT !.flag = FALSE, !.sync = TRUE]
    /\ UNCHANGED <<state, joined, asocRetry, proto, up, timer, sem, carrier, filter, works>> /\ UserOnly

UserScans ==
    /\ \/ /\ UserAt("syncwait") /\ scan.sem = "none"
          /\ scan' = [scan EXCEPT !.sem = "user"] /\ UserGoes("syncing")
       \/ /\ UserAt("syncing")
          /\ scan' = [scan EXCEPT !.sem = "none", !.sync = FALSE] /\ UserGoes("idle")
    /\ UNCHANGED <<state, joined, asocRetry, proto, up, timer, sem, carrier, filter, works>> /\ UserOnly

(* down(&ieee->wx_sem), and the tests right after it.                      *)
UserTakesSem ==
    /\ UserAt("wait") /\ sem = "none"
    /\ LET next == CASE user.op \in {"restart", "down"} /\ proto -> "stop"
                     [] user.op = "up" /\ ~proto -> "start"
                     [] user.op = "scan" /\ proto /\ state = "LINKED" -> "survey"
                     [] OTHER -> "idle"
       IN  sem' = (IF next = "idle" THEN "none" ELSE "user") /\ UserGoes(next)
    /\ UNCHANGED <<state, joined, asocRetry, proto, up, timer, scan, carrier, filter, works>> /\ UserOnly

(* rtllib_wx_set_scan queues the survey and leaves it the semaphore.       *)
rtllib_wx_set_scan ==
    /\ UserAt("survey")
    /\ works' = QueueWork(works, "survey") /\ sem' = "survey" /\ UserGoes("idle")
    /\ UNCHANGED <<state, joined, asocRetry, proto, up, timer, scan, carrier, filter>> /\ UserOnly

(* rtllib_stop_protocol: first the timers and works ...                    *)
StopProtocolTimers ==
    /\ UserAt("stop") /\ UserGoes("stopstate")
    /\ proto' = FALSE /\ timer' = FALSE
    /\ works' = CancelWork(CancelWork(works, "retry"), "linkchange")
    /\ UNCHANGED <<state, joined, asocRetry, up, scan, sem, carrier, filter>> /\ UserOnly

(* ... then the scan and the link.  wx_sem is kept for the restart.        *)
StopProtocolLink ==
    /\ UserAt("stopstate") /\ scan.sem = "none"
    /\ scan' = [scan EXCEPT !.flag = FALSE]
    /\ LET ws == rtllib_softmac_stop_scan
       IN  \/ /\ state = "LINKED"
              /\ joined' = FALSE /\ rtllib_disassociate(ws)
           \/ /\ state \in Transient \cup {"NOLINK"}
              /\ state' = "NOLINK" /\ works' = ws /\ UNCHANGED <<joined, carrier>>
           \/ /\ state = "LINKED_SCANNING"
              /\ works' = ws /\ UNCHANGED <<state, joined, carrier>>
    /\ IF user.op = "restart" THEN UserGoes("start") /\ UNCHANGED sem
       ELSE UserGoes("idle") /\ sem' = "none"
    /\ UNCHANGED <<asocRetry, proto, up, timer, filter>> /\ UserOnly

(* rtllib_start_protocol and rtllib_start_bss.                             *)
StartProtocol ==
    /\ UserAt("start") /\ UserGoes("startscan")
    /\ proto' = TRUE
    /\ rtllib_softmac_check_all_nets
    /\ UNCHANGED <<joined, up, timer, scan, sem, carrier, filter>> /\ UserOnly

StartBssScans ==
    /\ UserAt("startscan") /\ UserGoes("idle")
    /\ StartScanUnlessLinking /\ sem' = "none"
    /\ UNCHANGED <<state, joined, asocRetry, proto, up, timer, carrier, filter>> /\ UserOnly

-----------------------------------------------------------------------------
Rx ==
    \/ RxBeacon \/ RxDeauth
    \/ \E answer \in {"ok", "challenge", "refused"}, alloc \in BOOLEAN : RxAuth(answer, alloc)
    \/ \E trouble \in {"none", "memory", "malformed"} : RxAssocOk(trouble)
    \/ \E why \in {"curable", "short", "other"} : RxAssocRefused(why)

WorkerStep ==
    \/ StartProcedure \/ StartRetry \/ SurveyStarts
    \/ \E alloc \in BOOLEAN : rtllib_associate_procedure_wq(alloc)
    \/ Step1StartsTimer \/ RetryLooks \/ RetryChecksNets \/ RetryScans
    \/ rtllib_associate_complete_wq \/ rtllib_link_change_wq
    \/ \E last \in BOOLEAN : rtllib_softmac_scan_wq(last)
    \/ SurveyScans \/ SurveyEnds

WorkerSem == WorkerTakesSem("procedure", "stopscan") \/ WorkerTakesSem("retry", "again")

WatchdogStep == WatchdogEndsLink \/ WatchdogQueues

UserStep ==
    \/ UserScans \/ rtllib_wx_set_scan
    \/ StopProtocolTimers \/ StopProtocolLink \/ StartProtocol \/ StartBssScans

Next ==
    \/ Rx \/ AssociateTimeout
    \/ \E w \in Works : DelayExpires(w)
    \/ WorkerStep \/ WorkerSem
    \/ WatchdogMissesBeacons \/ WatchdogStep
    \/ \E op \in AllUserOps \ {"scan"} : UserCalls(op)
    \/ UserCallsScan \/ UserTakesSem \/ UserStep

Spec == Init /\ [][Next]_vars

(* ieee->wq is a kernel thread, the timer wheel runs, and a semaphore lets *)
(* its waiters in in the order they came; the user and the access point    *)
(* may stop doing anything, and do not come back in time for anything.     *)
FairSpec ==
    /\ Spec
    /\ WF_vars(WorkerStep) /\ SF_vars(WorkerSem)
    /\ WF_vars(WatchdogStep) /\ WF_vars(UserStep) /\ SF_vars(UserTakesSem)
    /\ WF_vars(AssociateTimeout)
    /\ \A w \in Works : WF_vars(DelayExpires(w))

-----------------------------------------------------------------------------
(* Properties.                                                             *)

WorkLists == [delayed : SUBSET Works, queue : Seq(Works)]
Scans == [flag : BOOLEAN, sync : BOOLEAN, sem : {"none", "user", "worker"}]
Users == [op : AllUserOps, pc : {"wait", "stop", "stopstate", "start", "startscan", "survey",
                                 "syncwait", "syncing"}] \cup {NoUser}

(* The variables stay in their types; assoc_parse keeps AsocRetryCount     *)
(* below RT_ASOC_RETRY_LIMIT.                                              *)
TypeOK ==
    /\ state \in States /\ asocRetry \in 0..(RetryLimit - 1)
    /\ {joined, proto, up, timer, carrier, filter} \subseteq BOOLEAN
    /\ scan \in Scans /\ sem \in {"none", "user", "worker", "survey"}
    /\ works \in WorkLists /\ worker \in WorkerPcs
    /\ user \in Users /\ watchdog \in {"idle", "lost", "queue"}

ProcedureComing ==
    Pending("procedure") \/ worker \in {"procedure", "stopscan"} \/ watchdog = "queue"

(* While the protocol runs, every state on the way to a link has something *)
(* pending that will leave it: the association procedure, the retry work   *)
(* or the associate timer.  rtllib_associate_abort says so ("Just wait for *)
(* the retry wq to be scheduled"), and enum rtllib_state of ASSOCIATING.   *)
NothingForgotten ==
    proto =>
       /\ state = "ASSOCIATING" => ProcedureComing
       /\ state = "RETRY" => timer \/ ProcedureComing \/ Pending("retry") \/ worker \in {"retry", "again"}
       /\ state \in {"AUTHENTICATING", "AUTHENTICATED"} => timer \/ ProcedureComing \/ worker = "sent"

(* A LINKED station can send data, or the work that turns the carrier on   *)
(* is queued, or the associate timer is going to end the link.             *)
LinkUsable ==
    state = "LINKED" => carrier \/ timer \/ Pending("complete") \/ user.pc = "stopstate"

(* "the link is ok. the card associated to a BSS": the access point has    *)
(* accepted this station, and has not disassociated it since.              *)
LinkIsReal == state \in {"LINKED", "LINKED_SCANNING"} => joined

(* The wx_sem that rtllib_wx_set_scan "intentionally" does not release is  *)
(* held by a site survey that is queued or runs, and by nothing else.      *)
SemHandedOver ==
    (sem = "survey") = (Pending("survey") \/ worker \in {"surveywait", "surveying"})

(* The worker never waits for a semaphore that only a work queued behind   *)
(* the current one releases.                                               *)
NotWedged == ~(sem = "survey" /\ worker \in {"procedure", "retry"})

(* "If we are still disassociated then start a scan": where the retry work *)
(* and rtllib_start_bss mean to start a background scan, its work is       *)
(* pending afterwards, and not suppressed by a stale scanning flag.        *)
ScanStarts ==
    [][(RetryScans \/ StartBssScans) /\ state = "NOLINK"
       => PendingIn(works', "scan")]_vars

(* Every stage of joining ends.                                            *)
StageEnds == \A s \in Transient : (state = s) ~> (state # s)

(* The variables have their types, and the semaphore that rtllib_wx_set_scan       *)
(* leaves to the site survey is always a survey's.                                 *)
SurveyOwnsSem == TypeOK /\ SemHandedOver

(* Joining goes on: every stage ends, and a scan that is meant to start is pending *)
(* (rtllib_associate_abort, rtllib_associate_retry_wq, rtllib_start_bss).          *)
JoinGoesOn == ScanStarts /\ StageEnds
=============================================================================
