-------------------------------- MODULE Reset --------------------------------
(***************************************************************************)
(* Starting, stopping and resetting the adapter.  Three threads do it:     *)
(* "wd", the work of the watchdog timer on the driver's own queue, which   *)
(* detects a stuck adapter and runs the silent reset; "rs", rtl8192_restart *)
(* (reset_wq) on the system queue; and "us", the user's calls, one at a    *)
(* time: open, close and the wireless extension calls that touch the same  *)
(* state.  priv->wx_sem is meant to serialise them, but the silent reset   *)
(* gives it up half way.                                                   *)
(*                                                                         *)
(* The adapter is "halted", "partial" (a start failed or is under way) or  *)
(* "ready".                                                                *)
(***************************************************************************)
EXTENDS Integers

CONSTANTS
    ImageLen,   \* bytes of the boot, main and data image
    Threshold,  \* pfirmware->cmdpacket_frag_thresold
    CmdEntries, \* priv->txringcount, 64 in the driver
    FwRetries,  \* retry_times: 10 in the driver
    ResetTimes, \* reset_times: 3 in the driver
    MaxHangs,   \* bound: times the adapter hangs or is taken to hang
    MaxCalls    \* bound: calls of the user and TX timeouts

ASSUME ImageAssumption == ImageLen \in [1 .. 3 -> Nat \ {0}] /\ Threshold \in Nat \ {0}
ASSUME SizeAssumption == {CmdEntries, FwRetries, ResetTimes, MaxHangs, MaxCalls} \subseteq Nat

Threads == {"wd", "rs", "us"}
Free    == "free"

VARIABLES
    up,         \* priv->up
    admin,      \* "up" (IFF_UP: the last open succeeded and no close came after it),
                \* "opening" or "down"
    sem,        \* the holder of priv->wx_sem
    adapter,    \* what the adapter is doing
    hung,       \* it has stopped sending or receiving
    timer,      \* watch_dog_timer is pending
    wdq, rsq,   \* watch_dog_wq and reset_wq are queued
    silent,     \* priv->ResetProgress = RESET_TYPE_SILENT
    rfChange,   \* priv->RFChangeInProgress
    forced,     \* priv->force_reset
    cnt,        \* check_reset_cnt
    cmd,        \* descriptors of the command ring filled since it was reset
    cmdWait,    \* skb_waitQ[TXCMD_QUEUE] is not empty
    pc,         \* where each thread stands
    tries,      \* the thread's local counter: retry_times of its start
    times,      \* reset_times
    hangs, calls,
    stray       \* what left the flags or the interface in an odd state:
                \* "returned" (the reset found the interface closed), "skipped"
                \* (a close found it resetting), "failed" (a start failed)

flags == <<silent, rfChange, forced, cnt>>
work  == <<timer, wdq, rsq>>
chip  == <<adapter, hung, cmd, cmdWait>>
loc   == <<tries, times>>
vars  == <<up, admin, sem, adapter, hung, timer, wdq, rsq, silent, rfChange, forced, cnt,
           cmd, cmdWait, pc, tries, times, hangs, calls, stray>>

Init ==
    /\ up = FALSE /\ admin = "down" /\ sem = Free /\ adapter = "halted" /\ hung = FALSE
    /\ timer = FALSE /\ wdq = FALSE /\ rsq = FALSE
    /\ silent = FALSE /\ rfChange = FALSE /\ forced = FALSE /\ cnt = 0
    /\ cmd = 0 /\ cmdWait = FALSE
    /\ pc = [t \in Threads |-> "idle"] /\ tries = [t \in Threads |-> 0] /\ times = 0
    /\ hangs = 0 /\ calls = 0 /\ stray = {}

Go(t, to) == pc' = [pc EXCEPT ![t] = to]
Take(t)   == sem = Free /\ sem' = t
Release   == sem' = Free
-----------------------------------------------------------------------------
(* rtl8192_adapter_start, in two steps: the registers, the CAM and the       *)
(* firmware; then the RF chip and the interrupts.                            *)

\* fw_download_code cuts an image into packets of at most Threshold bytes.
Packets(len) == (len + Threshold - 1) \div Threshold

\* init_firmware: boot image and null packet, main image, data image.  A packet
\* that finds fewer than two free descriptors, or another one waiting, waits,
\* and nothing ever sends it: rtl8192_tx_resume does not serve this queue.
FirmwarePackets == Packets(ImageLen[1]) + 1 + Packets(ImageLen[2]) + Packets(ImageLen[3])

\* One download fits into an empty ring: 23 packets and 63 places in the driver.
ASSUME FitAssumption == FirmwarePackets <= CmdEntries - 1

init_firmware(used) ==
    LET room == CmdEntries - 1 - used
    IN  /\ cmdWait' = (cmdWait \/ FirmwarePackets > room)
        /\ cmd' = IF cmdWait THEN used
                  ELSE IF FirmwarePackets > room THEN CmdEntries - 1 ELSE used + FirmwarePackets

\* Mutant: the ring goes on where the last download stopped.
RingGoesOn == cmd

\* rtl8192_pci_resetdescring empties the command ring.
rtl8192_pci_resetdescring == 0

\* One round: BB configuration (which may fail and end the start), CAM reset,
\* firmware.  The firmware is ready only if every packet was sent.
StartHw(t) ==
    /\ pc[t] = "start"
    /\ \/ /\ Go(t, "failed") /\ UNCHANGED <<tries, cmd, cmdWait>>
       \/ /\ init_firmware(rtl8192_pci_resetdescring)
          /\ \/ ~cmdWait' /\ Go(t, "startRf") /\ UNCHANGED tries
             \/ tries[t] < FwRetries /\ tries' = [tries EXCEPT ![t] = @ + 1] /\ UNCHANGED pc
             \/ tries[t] = FwRetries /\ Go(t, "failed") /\ UNCHANGED tries
    /\ adapter' = "partial"
    /\ UNCHANGED <<up, admin, sem, hung, work, flags, times, hangs, calls, stray>>

\* RF configuration, which the silent reset leaves out, may fail too.
StartRf(t) ==
    /\ pc[t] = "startRf"
    /\ \/ adapter' = "ready" /\ hung' = FALSE /\ Go(t, "started")
       \/ ~silent /\ Go(t, "failed") /\ UNCHANGED <<adapter, hung>>
    /\ UNCHANGED <<up, admin, sem, work, flags, cmd, cmdWait, loc, hangs, calls, stray>>

\* _rtl8192_up from its first line to the call of rtl8192_adapter_start.
_rtl8192_up(t) == up' = TRUE /\ tries' = [tries EXCEPT ![t] = 0] /\ Go(t, "start")

\* The open succeeded.
Opened(t) == admin' = IF t = "us" /\ admin = "opening" THEN "up" ELSE admin

\* Mutant: the watchdog runs once and its timer is not started.
UpEndsNoTimer(t, to) ==
    /\ pc[t] = "started" /\ wdq' = TRUE /\ Go(t, to) /\ Opened(t)
    /\ UNCHANGED <<sem, chip, timer, rsq, up, flags, loc, hangs, calls>>

\* Its end: the watchdog timer is started by a first call of its handler.
UpEnds(t, to) ==
    /\ pc[t] = "started"
    /\ timer' = TRUE /\ wdq' = TRUE /\ Go(t, to)
    /\ Opened(t)
    /\ UNCHANGED <<sem, chip, rsq, up, flags, loc, hangs, calls>>

\* rtl8192_halt_adapter; the command queue's waiting packets are thrown away.
rtl8192_halt_adapter == adapter' = "halted" /\ cmdWait' = FALSE

\* cancel_work_sync(&priv->reset_wq): dequeues the work or waits for it.
CancelReset == pc["rs"] = "idle" /\ rsq' = FALSE
-----------------------------------------------------------------------------
(* The watchdog and the silent reset. *)

\* watch_dog_timer_callback queues the work and starts the timer again.
watch_dog_timer_callback ==
    /\ timer /\ ~wdq /\ wdq' = TRUE
    /\ UNCHANGED <<up, admin, sem, chip, timer, rsq, flags, pc, loc, hangs, calls, stray>>

\* TxCheckStuck compares the firmware's counter with its last value while a
\* queue holds frames, RxCheckStuck while linked: a stuck adapter is noticed,
\* and one that had nothing to do may be mistaken for a stuck one.
rtl819x_ifcheck_resetornot(stuck) ==
    /\ hung => stuck
    /\ (stuck /\ ~hung) => hangs < MaxHangs
    /\ hangs' = IF stuck /\ ~hung THEN hangs + 1 ELSE hangs

\* The work up to the lock of the silent reset.  The counters are compared from
\* the fourth run on.
rtl819x_watchdog_wqcallback ==
    /\ pc["wd"] = "idle" /\ wdq /\ wdq' = FALSE
    /\ IF ~up THEN UNCHANGED <<pc, flags, times, hangs>>
       ELSE \E stuck \in BOOLEAN :
            /\ cnt' = IF cnt < 3 THEN cnt + 1 ELSE cnt
            /\ IF cnt = 3 /\ ~rfChange
               THEN rtl819x_ifcheck_resetornot(stuck) ELSE ~stuck /\ UNCHANGED hangs
            /\ forced' = FALSE
            /\ IF (forced \/ stuck) /\ ~silent /\ ~rfChange
               THEN silent' = TRUE /\ rfChange' = TRUE /\ times' = 0 /\ Go("wd", "lock")
               ELSE UNCHANGED <<silent, rfChange, times, pc>>
    /\ UNCHANGED <<up, admin, sem, chip, timer, rsq, tries, calls, stray>>

\* RESET_START: with the interface closed in the meantime the reset returns and
\* leaves ResetProgress and RFChangeInProgress set.
ResetLocks ==
    /\ pc["wd"] = "lock"
    /\ IF up
       THEN /\ Take("wd") /\ up' = FALSE /\ timer' = FALSE /\ wdq' = FALSE /\ Go("wd", "cancel")
            /\ UNCHANGED stray
       ELSE /\ sem = Free /\ Go("wd", "idle") /\ stray' = stray \cup {"returned"}
            /\ UNCHANGED <<sem, up, timer, wdq>>
    /\ UNCHANGED <<admin, chip, rsq, flags, loc, hangs, calls>>

\* Deferred work is cancelled, the protocol stopped, the adapter halted, and
\* wx_sem released before the interface is brought up again.
ResetDown ==
    /\ pc["wd"] = "cancel" /\ CancelReset
    /\ rtl8192_halt_adapter /\ Release /\ Go("wd", "up")
    /\ UNCHANGED <<up, admin, hung, cmd, timer, wdq, flags, loc, hangs, calls, stray>>

ResetUp ==
    /\ pc["wd"] = "up" /\ _rtl8192_up("wd")
    /\ UNCHANGED <<admin, sem, chip, work, flags, times, hangs, calls, stray>>

\* A failed start is tried again, and after the last one taken for a success.
ResetRetries ==
    /\ pc["wd"] = "failed"
    /\ IF times < ResetTimes THEN times' = times + 1 /\ Go("wd", "lock") /\ UNCHANGED stray
       ELSE Go("wd", "restore") /\ stray' = stray \cup {"failed"} /\ UNCHANGED times
    /\ UNCHANGED <<up, admin, sem, chip, work, flags, tries, hangs, calls>>

ResetStarted == UpEnds("wd", "restore") /\ UNCHANGED stray

\* Mutant: ResetProgress stays set.
ResetEndsKeepsFlag ==
    /\ pc["wd"] = "restore" /\ rfChange' = FALSE /\ Go("wd", "idle")
    /\ UNCHANGED <<up, admin, sem, chip, work, silent, forced, cnt, loc, hangs, calls, stray>>

\* The flags are cleared.  KeyCache models the keys, which are written back here.
ResetEnds ==
    /\ pc["wd"] = "restore"
    /\ rfChange' = FALSE /\ silent' = FALSE /\ Go("wd", "idle")
    /\ UNCHANGED <<up, admin, sem, chip, work, forced, cnt, loc, hangs, calls, stray>>
-----------------------------------------------------------------------------
(* rtl8192_restart and the calls that commit. *)

\* tx_timeout and r8192_set_mac_adr schedule reset_wq.
tx_timeout ==
    /\ calls < MaxCalls /\ ~rsq /\ up
    /\ rsq' = TRUE /\ calls' = calls + 1
    /\ UNCHANGED <<up, admin, sem, chip, timer, wdq, flags, pc, loc, hangs, stray>>

rtl8192_restart ==
    /\ rsq /\ pc["rs"] = "idle" /\ rsq' = FALSE /\ Go("rs", "lock")
    /\ UNCHANGED <<up, admin, sem, chip, timer, wdq, flags, loc, hangs, calls, stray>>

\* rtl8192_commit, with wx_sem held: nothing if the interface is down; else the
\* protocol is stopped, the adapter halted and started again.
rtl8192_commit(t) ==
    /\ pc[t] = (IF t = "rs" THEN "lock" ELSE "commit")
    /\ Take(t)
    /\ IF up THEN /\ rtl8192_halt_adapter /\ _rtl8192_up(t)
             ELSE Go(t, "unlock") /\ UNCHANGED <<up, adapter, cmdWait, tries>>
    /\ UNCHANGED <<admin, hung, cmd, work, flags, times, hangs, calls, stray>>

CommitEnds(t) ==
    /\ t \in {"rs", "us"} /\ sem = t
    /\ \/ pc[t] = "started" /\ UpEnds(t, "unlock") /\ UNCHANGED stray
       \/ /\ pc[t] = "failed" /\ Go(t, "unlock") /\ stray' = stray \cup {"failed"}
          /\ UNCHANGED <<up, admin, sem, chip, work, flags, loc, hangs, calls>>

\* An open that did not succeed leaves the interface down.
Returned(t) == admin' = IF t = "us" /\ admin = "opening" THEN "down" ELSE admin

\* Mutant: a call that failed returns without up(&priv->wx_sem).
UnlockForgets(t) ==
    /\ pc[t] = "unlock" /\ sem = t /\ Go(t, "idle") /\ IF adapter = "partial" THEN UNCHANGED sem ELSE Release
    /\ Returned(t)
    /\ UNCHANGED <<up, chip, work, flags, loc, hangs, calls, stray>>

Unlock(t) ==
    /\ pc[t] = "unlock" /\ sem = t /\ Release /\ Go(t, "idle") /\ Returned(t)
    /\ UNCHANGED <<up, chip, work, flags, loc, hangs, calls, stray>>
-----------------------------------------------------------------------------
(* The user's calls. *)

Call(what) ==
    /\ pc["us"] = "idle" /\ calls < MaxCalls /\ calls' = calls + 1 /\ Go("us", what)
    /\ admin' = IF what = "open" THEN "opening" ELSE admin
    /\ UNCHANGED <<up, sem, chip, work, flags, loc, hangs, stray>>

\* r8192_wx_force_reset, with wx_sem held throughout.
r8192_wx_force_reset ==
    /\ pc["us"] = "force" /\ sem = Free /\ forced' = TRUE /\ Go("us", "idle")
    /\ UNCHANGED <<up, admin, sem, chip, work, silent, rfChange, cnt, loc, hangs, calls, stray>>

\* rtl8192_open: an interface that is up already cannot be opened.
rtl8192_open ==
    /\ pc["us"] = "open" /\ Take("us")
    /\ IF up THEN Go("us", "unlock") /\ UNCHANGED <<up, tries>>
             ELSE _rtl8192_up("us")
    /\ UNCHANGED <<admin, chip, work, flags, times, hangs, calls, stray>>

\* Mutant: the interface stays up.
CloseStaysUp ==
    /\ pc["us"] = "close" /\ Take("us") /\ admin' = "down"
    /\ timer' = FALSE /\ wdq' = FALSE /\ Go("us", "cancel")
    /\ UNCHANGED <<up, chip, rsq, flags, loc, hangs, calls, stray>>

\* rtl8192_close: nothing but the return code if the interface is not up.
rtl8192_close ==
    /\ pc["us"] = "close" /\ Take("us") /\ admin' = "down"
    /\ IF up THEN /\ up' = FALSE
                  /\ timer' = FALSE /\ wdq' = FALSE /\ Go("us", "cancel") /\ UNCHANGED stray
             ELSE /\ Go("us", "unlock")
                  /\ stray' = IF pc["wd"] \in {"idle", "lock"} THEN stray ELSE stray \cup {"skipped"}
                  /\ UNCHANGED <<up, timer, wdq>>
    /\ UNCHANGED <<chip, rsq, flags, loc, hangs, calls>>

\* The rest of rtl8192_down.  It waits at most 100 ms for RFChangeInProgress,
\* which the silent reset keeps for much longer, and clears it.
rtl8192_down ==
    /\ pc["us"] = "cancel" /\ CancelReset
    /\ rtl8192_halt_adapter /\ rfChange' = FALSE /\ Go("us", "unlock")
    /\ stray' = IF pc["wd"] \in {"idle", "lock"} THEN stray ELSE stray \cup {"skipped"}
    /\ UNCHANGED <<up, admin, sem, hung, cmd, timer, wdq, silent, forced, cnt, loc, hangs, calls>>

\* The environment: the adapter hangs.
Hang ==
    /\ adapter = "ready" /\ ~hung /\ hangs < MaxHangs /\ hung' = TRUE /\ hangs' = hangs + 1
    /\ UNCHANGED <<up, admin, sem, adapter, cmd, cmdWait, work, flags, pc, loc, calls, stray>>

Silent == \/ rtl819x_watchdog_wqcallback \/ ResetLocks \/ ResetDown \/ ResetUp
          \/ ResetRetries \/ ResetStarted \/ ResetEnds
User == \/ r8192_wx_force_reset \/ rtl8192_open \/ rtl8192_close
        \/ rtl8192_down \/ rtl8192_commit("us") \/ CommitEnds("us") \/ Unlock("us")
Restart == rtl8192_restart \/ rtl8192_commit("rs") \/ CommitEnds("rs") \/ Unlock("rs")
Start(t) == StartHw(t) \/ StartRf(t)

Calls == \/ Call("commit") \/ Call("force")
         \/ admin = "up" /\ Call("close")
         \/ admin = "down" /\ Call("open")

Next == Silent \/ User \/ Restart \/ (\E t \in Threads : Start(t))
        \/ watch_dog_timer_callback \/ Calls \/ tx_timeout \/ Hang
Spec == Init /\ [][Next]_vars

\* A queued work and a thread that can go on run; the timer fires; a start does
\* not fail for ever.
Fairness ==
    /\ WF_vars(Silent) /\ WF_vars(User) /\ WF_vars(Restart)
    /\ WF_vars(watch_dog_timer_callback)
    /\ \A t \in Threads : WF_vars(Start(t))
-----------------------------------------------------------------------------
Quiet == \A t \in Threads : pc[t] = "idle"

Points == {"idle", "lock", "cancel", "up", "start", "startRf", "started", "failed", "restore",
           "unlock", "commit", "force", "open", "close"}

TypeOK ==
    /\ {up, hung, timer, wdq, rsq, silent, rfChange, forced, cmdWait} \subseteq BOOLEAN
    /\ admin \in {"down", "opening", "up"}
    /\ sem \in Threads \cup {Free} /\ adapter \in {"halted", "partial", "ready"}
    /\ pc \in [Threads -> Points]
    /\ cnt \in 0 .. 3 /\ cmd \in 0 .. CmdEntries /\ times \in 0 .. ResetTimes
    /\ tries \in [Threads -> 0 .. FwRetries]
    /\ stray \subseteq {"returned", "skipped", "failed"}

\* Every packet of the firmware images finds a descriptor, however often the
\* download is repeated: interrupts are off, nothing reaps the command ring, and
\* a packet that had to wait would never be sent.
FirmwareFits == ~cmdWait

\* ResetProgress and RFChangeInProgress are set only while a reset is running,
\* or after one that found the interface closed.
FlagsReturned == (silent \/ rfChange) => pc["wd"] # "idle" \/ "returned" \in stray

\* A closed interface is down, unless a start failed or a close met a reset.
ClosedIsDown == (Quiet /\ admin = "down" /\ up) => stray \cap {"failed", "skipped"} # {}

\* An interface that is up and working has its watchdog timer pending, whatever
\* sequence of resets, restarts, opens and closes brought it there.
WatchdogAlive == (Quiet /\ up /\ adapter = "ready") => timer

\* wx_sem is given back, unless its holder waits for reset_wq and reset_wq for it.
Wedged == pc["rs"] = "lock" /\ \E t \in {"wd", "us"} : pc[t] = "cancel"
SemReleased == (sem # Free) ~> (sem = Free \/ Wedged)

\* A stuck adapter of an open interface is started again.
HangCured == hung ~> (~hung \/ admin # "up" \/ Wedged \/ stray # {})

\* Between the calls the driver is as the last one left it: the flags of a reset are
\* returned, a closed interface is down, a working one has its watchdog
\* (rtl819x_ifsilentreset, rtl8192_close, _rtl8192_up).
Orderly == TypeOK /\ FlagsReturned /\ ClosedIsDown /\ WatchdogAlive

\* However the threads interleave, a stuck adapter is started again and the semaphore
\* is given back (rtl819x_ifsilentreset, rtl8192_restart, rtl8192_close).
Recovers == HangCured /\ SemReleased
=============================================================================
