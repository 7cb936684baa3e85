-------------------------------- MODULE TxRing --------------------------------
(***************************************************************************)
(* One hardware TX queue of the driver: the wait queue of the 802.11 stack *)
(* (ieee->skb_waitQ[q]), the descriptor ring shared with the adapter       *)
(* (priv->tx_ring[q]), the TX-done interrupt that reaps it and the tasklet *)
(* that moves waiting frames into it.  Frames are numbered in the order in *)
(* which they are handed to the queue.                                     *)
(*                                                                         *)
(* Three pieces of code put frames into the ring: the stack                *)
(* (rtllib_softmac_xmit or softmac_mgmt_xmit, interrupts off), the tasklet *)
(* (rtl8192_tx_resume) and the power save path (softmac_ps_mgmt_xmit,      *)
(* which checks nothing).  On one CPU the stack's sequence is not          *)
(* interrupted and does not start inside the tasklet; with smp they all    *)
(* interleave, and the only mutual exclusion is irq_th_lock.               *)
(***************************************************************************)
EXTENDS Integers, Sequences, SequencesExt

CONSTANTS
    Queues,      \* the hardware queues considered, BK_QUEUE .. HIGH_QUEUE
    Entries,     \* ring->entries: priv->txringcount, 64 in the driver
    WaitMax,     \* the bound on a data wait queue, 200 in the driver
    MaxFrames,   \* bound: frames handed to the queue
    MaxResets,   \* bound: times the adapter is stopped and started again
    Machines     \* kinds of machine: with more than one CPU (TRUE) or not

\* rtllib.h: the queue numbers
BK_QUEUE    == 0
BE_QUEUE    == 1
TXCMD_QUEUE == 5
MGNT_QUEUE  == 6
HIGH_QUEUE  == 7

ASSUME QueueAssumption == Queues \subseteq (BK_QUEUE .. HIGH_QUEUE) \ {TXCMD_QUEUE}
ASSUME SizeAssumption == Entries \in Nat /\ Entries >= 2 /\ WaitMax \in Nat
ASSUME BoundAssumption == MaxFrames \in Nat /\ MaxResets \in Nat
ASSUME MachineAssumption == Machines \subseteq BOOLEAN

Slot   == 0 .. Entries - 1
Frame  == 1 .. MaxFrames
Actor  == {"stack", "tasklet", "ps"}
None   == 0

VARIABLES
    own,      \* desc[s].OWN: the adapter may read the descriptor
    buf,      \* desc[s].TxBuffAddr: the frame whose buffer it names
    idx,      \* ring->idx, the oldest descriptor not reaped
    ring,     \* ring->queue, the frames whose descriptors are filled
    waitQ,    \* ieee->skb_waitQ[queue]
    pc,       \* where each actor stands in its sequence
    frame,    \* the frame each actor is carrying
    tasklet,  \* irq_tx_tasklet is scheduled
    hwIdx,    \* the adapter's next descriptor
    polling,  \* the adapter is working through the queue
    irq,      \* the TX-done bit of ISR
    up,       \* priv->up, with interrupts enabled
    n,        \* frames handed in so far
    last,     \* the last frame the adapter transmitted
    resets,   \* restarts so far
    queue,    \* which hardware queue this is
    smp       \* there is more than one CPU

\* the data queues are the ones below TXCMD_QUEUE
IsData == queue \in BK_QUEUE .. TXCMD_QUEUE - 1

ringVars == <<own, buf, idx, ring>>
hwVars   == <<hwIdx, polling, irq, last>>
machine  == <<queue, smp>>   \* fixed
vars == <<own, buf, idx, ring, waitQ, pc, frame, tasklet, hwIdx, polling, irq,
          up, n, last, resets, machine>>

Init ==
    /\ own = [s \in Slot |-> FALSE] /\ buf = [s \in Slot |-> None]
    /\ idx = 0 /\ ring = <<>> /\ waitQ = <<>>
    /\ pc = [a \in Actor |-> "idle"] /\ frame = [a \in Actor |-> None]
    /\ tasklet = FALSE
    /\ hwIdx = 0 /\ polling = FALSE /\ irq = FALSE /\ last = None
    /\ up = TRUE /\ n = 0 /\ resets = 0
    /\ queue \in Queues /\ smp \in Machines

\* a mutant: the reserve is one descriptor
EnoughDescOne == Entries - Len(ring) >= 1

\* check_nic_enough_desc: two descriptors are kept in reserve
EnoughDesc == Entries - Len(ring) >= 2

---------------------------------------------------------------------------
(* Who may run.  The stack holds a spinlock with interrupts off; the       *)
(* tasklet keeps process context and other softirqs off its CPU.           *)

MayRun(a) ==
    \/ smp
    \/ a = "stack"   /\ pc["tasklet"] = "idle"
    \/ a = "tasklet" /\ pc["stack"] = "idle"
    \/ a = "ps"      /\ pc["stack"] = "idle" /\ pc["tasklet"] = "idle"

IrqsOn == smp \/ pc["stack"] = "idle"

Goto(a, at, f) ==
    /\ pc' = [pc EXCEPT ![a] = at]
    /\ frame' = [frame EXCEPT ![a] = f]

---------------------------------------------------------------------------
(* The stack.                                                              *)

\* a mutant: frames already waiting are not looked at
MustWaitRingOnly == ~EnoughDesc

MustWait == waitQ # <<>> \/ ~EnoughDesc

\* rtllib_softmac_xmit, softmac_mgmt_xmit: the next frame waits behind waiting
\* frames or when the ring has no room, else it is transmitted at once
XmitStart ==
    /\ up /\ n < MaxFrames /\ pc["stack"] = "idle" /\ MayRun("stack")
    /\ n' = n + 1
    /\ \/ ~MustWait /\ Goto("stack", "send", n + 1)
       \/ MustWait /\ (IsData => Len(waitQ) < WaitMax)
                   /\ Goto("stack", "wait", n + 1)
       \/ MustWait /\ IsData /\ Len(waitQ) >= WaitMax  \* the frame is freed
                   /\ UNCHANGED <<pc, frame>>
    /\ UNCHANGED <<ringVars, hwVars, waitQ, tasklet, up, resets, machine>>

\* the frame joins the wait queue, whatever happened since the test
XmitWait ==
    /\ pc["stack"] = "wait"
    /\ waitQ' = Append(waitQ, frame["stack"])
    /\ Goto("stack", "idle", None)
    /\ UNCHANGED <<ringVars, hwVars, tasklet, up, n, resets, machine>>

\* softmac_ps_mgmt_xmit: null function frames go to the management queue and
\* PS-Poll frames to the high queue, with no look at the ring
PsXmit ==
    /\ queue \in {MGNT_QUEUE, HIGH_QUEUE}
    /\ up /\ n < MaxFrames /\ pc["ps"] = "idle" /\ MayRun("ps")
    /\ n' = n + 1
    /\ Goto("ps", "send", n + 1)
    /\ UNCHANGED <<ringVars, hwVars, waitQ, tasklet, up, resets, machine>>

---------------------------------------------------------------------------
(* rtl8192_hard_data_xmit / rtl8192_hard_start_xmit and rtl8192_tx.        *)

TailSlot == (idx + Len(ring)) % Entries

\* what an actor does once its frame is in the ring, or freed
After(a) == IF a = "tasklet" THEN "resume" ELSE "idle"

\* the frame is freed: the interface is down, or the descriptor behind the
\* tail still belongs to the adapter ("No more TX desc")
TxDrops(a) ==
    /\ ~up \/ own[TailSlot]
    /\ Goto(a, After(a), None)
    /\ UNCHANGED ringVars

\* the descriptor is filled and handed to the adapter, then TPPoll is written
TxQueues(a) ==
    /\ up /\ ~own[TailSlot]
    /\ buf' = [buf EXCEPT ![TailSlot] = frame[a]]
    /\ own' = [own EXCEPT ![TailSlot] = TRUE]
    /\ ring' = Append(ring, frame[a])
    /\ Goto(a, "poll", None)
    /\ UNCHANGED idx

rtl8192_tx(a) ==
    /\ pc[a] = "send" /\ MayRun(a)
    /\ TxDrops(a) \/ TxQueues(a)
    /\ UNCHANGED <<hwVars, waitQ, tasklet, up, n, resets, machine>>

\* a mutant: TPPoll is written only when the ring was empty before
PollFirstOnly(a) ==
    /\ pc[a] = "poll" /\ MayRun(a)
    /\ polling' = (polling \/ (up /\ Len(ring) = 1))
    /\ Goto(a, After(a), None)
    /\ UNCHANGED <<ringVars, hwIdx, irq, last, waitQ, tasklet, up, n, resets, machine>>

\* write_nic_word(dev, TPPoll, 1 << queue), after irq_th_lock is released
Poll(a) ==
    /\ pc[a] = "poll" /\ MayRun(a)
    /\ polling' = up
    /\ Goto(a, After(a), None)
    /\ UNCHANGED <<ringVars, hwIdx, irq, last, waitQ, tasklet, up, n, resets, machine>>

---------------------------------------------------------------------------
(* The adapter.                                                            *)

\* the next descriptor is transmitted and given back, and TX-done raised
HwSend ==
    /\ up /\ polling /\ own[hwIdx]
    /\ own' = [own EXCEPT ![hwIdx] = FALSE]
    /\ last' = buf[hwIdx]
    /\ hwIdx' = (hwIdx + 1) % Entries
    /\ irq' = TRUE
    /\ UNCHANGED <<buf, idx, ring, waitQ, pc, frame, tasklet, polling, up, n,
                   resets, machine>>

\* a descriptor that is not the adapter's ends the polling
HwIdle ==
    /\ up /\ polling /\ ~own[hwIdx]
    /\ polling' = FALSE
    /\ UNCHANGED <<ringVars, hwIdx, irq, last, waitQ, pc, frame, tasklet, up,
                   n, resets, machine>>

---------------------------------------------------------------------------
(* The interrupt and the tasklet.                                          *)

Done(k) == \A j \in 0 .. k - 1 : ~own[(idx + j) % Entries]

\* a mutant: the OWN bits are not looked at
ReapedAll == Len(ring)

\* rtl8192_tx_isr: descriptors are reaped from idx up to the first the
\* adapter still owns
Reaped == CHOOSE k \in 0 .. Len(ring) :
    Done(k) /\ \A m \in k + 1 .. Len(ring) : ~Done(m)

\* a mutant: the tasklet is not scheduled
InterruptNoTasklet ==
    /\ up /\ irq /\ IrqsOn
    /\ irq' = FALSE
    /\ idx' = (idx + Reaped) % Entries
    /\ ring' = SubSeq(ring, Reaped + 1, Len(ring))
    /\ UNCHANGED <<own, buf, hwIdx, polling, last, waitQ, pc, frame, tasklet,
                   up, n, resets, machine>>

\* rtl8192_interrupt: the tasklet is scheduled only when the ring is empty
rtl8192_interrupt ==
    /\ up /\ irq /\ IrqsOn
    /\ irq' = FALSE
    /\ idx' = (idx + Reaped) % Entries
    /\ ring' = SubSeq(ring, Reaped + 1, Len(ring))
    /\ tasklet' = (tasklet \/ Reaped = Len(ring))
    /\ UNCHANGED <<own, buf, hwIdx, polling, last, waitQ, pc, frame, up, n,
                   resets, machine>>

\* the same tasklet serves every queue: an interrupt of another one
OtherQueueDone ==
    /\ up /\ IrqsOn /\ ~tasklet
    /\ tasklet' = TRUE
    /\ UNCHANGED <<ringVars, hwVars, waitQ, pc, frame, up, n, resets, machine>>

\* rtl8192_irq_tx_tasklet starts
TaskletStarts ==
    /\ tasklet /\ pc["tasklet"] = "idle" /\ MayRun("tasklet")
    /\ tasklet' = FALSE
    /\ Goto("tasklet", "resume", None)
    /\ UNCHANGED <<ringVars, hwVars, waitQ, up, n, resets, machine>>

\* rtl8192_tx_resume: the loop runs over the queues below TXCMD_QUEUE
rtl8192_tx_resume ==
    /\ pc["tasklet"] = "resume" /\ MayRun("tasklet")
    /\ IF IsData /\ waitQ # <<>> /\ EnoughDesc
       THEN waitQ' = Tail(waitQ) /\ Goto("tasklet", "send", Head(waitQ))
       ELSE waitQ' = waitQ /\ Goto("tasklet", "idle", None)
    /\ UNCHANGED <<ringVars, hwVars, tasklet, up, n, resets, machine>>

---------------------------------------------------------------------------
(* Restart: rtl8192_down and _rtl8192_up, or rtl819x_ifsilentreset.        *)

\* rtl8192_halt_adapter: interrupts and the adapter are off, wait queues purged
Down ==
    /\ up /\ resets < MaxResets /\ MayRun("ps")
    /\ up' = FALSE /\ resets' = resets + 1
    /\ waitQ' = <<>>
    /\ polling' = FALSE
    /\ UNCHANGED <<ringVars, hwIdx, irq, last, pc, frame, tasklet, n, machine>>

\* rtl8192_pci_resetdescring: the frames on the ring are freed and idx is 0;
\* the descriptors are left as they are.  rtl8192_tx_enable: the adapter
\* starts again at the first descriptor
Up ==
    /\ ~up
    /\ up' = TRUE
    /\ ring' = <<>> /\ idx' = 0
    /\ hwIdx' = 0 /\ irq' = FALSE
    /\ UNCHANGED <<own, buf, waitQ, pc, frame, tasklet, polling, n, last,
                   resets, machine>>

---------------------------------------------------------------------------
Tasklet == TaskletStarts \/ rtl8192_tx_resume

Next ==
    \/ XmitStart \/ XmitWait \/ PsXmit
    \/ \E a \in Actor : rtl8192_tx(a) \/ Poll(a)
    \/ HwSend \/ HwIdle
    \/ rtl8192_interrupt \/ OtherQueueDone \/ Tasklet
    \/ Down \/ Up

Spec == Init /\ [][Next]_vars

\* what has begun goes on: sequences, the adapter, the interrupt, the tasklet
Fairness ==
    /\ WF_vars(XmitWait)
    /\ \A a \in Actor : WF_vars(rtl8192_tx(a)) /\ WF_vars(Poll(a))
    /\ WF_vars(HwSend) /\ WF_vars(rtl8192_interrupt) /\ WF_vars(Tasklet)
    /\ WF_vars(Up)

FairSpec == Spec /\ Fairness

---------------------------------------------------------------------------
(* Properties.                                                             *)

\* The variables stay in their types; ring->idx wraps at ring->entries
\* (rtl8192_tx_isr), and frames are never duplicated in the queues.
TypeOK ==
    /\ own \in [Slot -> BOOLEAN] /\ buf \in [Slot -> Frame \cup {None}]
    /\ idx \in Slot /\ hwIdx \in Slot
    /\ ring \in Seq(Frame) /\ waitQ \in Seq(Frame) /\ IsInjective(ring \o waitQ)
    /\ pc \in [Actor -> {"idle", "wait", "send", "poll", "resume"}]
    /\ frame \in [Actor -> Frame \cup {None}]
    /\ {tasklet, polling, irq, up} \subseteq BOOLEAN
    /\ n \in 0 .. MaxFrames /\ last \in Frame \cup {None}
    /\ resets \in 0 .. MaxResets /\ queue \in Queues /\ smp \in Machines

\* A descriptor the adapter owns names the buffer of a frame that is still on
\* ring->queue: rtl8192_tx_isr frees a frame, and unmaps its buffer, only
\* after the adapter is done with it.  So it is until the first restart:
\* rtl8192_pci_resetdescring frees the frames and leaves the OWN bits.
DmaSafe == resets = 0 =>
    \A s \in Slot : own[s] => \E i \in 1 .. Len(ring) : ring[i] = buf[s]

\* Two callers that both saw enough descriptors (check_nic_enough_desc is not
\* under irq_th_lock) still fit: the ring of a data queue never holds more
\* frames than it has descriptors, each frame in the descriptor at its place.
RingFits == IsData =>
    /\ Len(ring) <= Entries
    /\ \A i \in 1 .. Len(ring) : buf[(idx + i - 1) % Entries] = ring[i]

\* rtl8192_tx never finds the tail descriptor owned for a data frame ("for
\* data frame the queue is stopped before this can happen"), until the first
\* restart, which leaves OWN bits behind.
DataNeverDropped ==
    IsData /\ resets = 0 => \A a \in Actor : pc[a] = "send" /\ up => ~own[TailSlot]

\* A frame in the wait queue does not stay there: the completion of the
\* frames before it schedules the tasklet that moves it into the ring.
WaitersServed ==
    \A f \in Frame :
        Contains(waitQ, f) ~> ~Contains(waitQ, f)

\* The ring at every moment: descriptors name live buffers, every frame of a data
\* queue has its descriptor, and none is dropped for want of one (rtl8192_tx,
\* rtl8192_tx_isr, check_nic_enough_desc).
RingSound == TypeOK /\ DmaSafe /\ RingFits /\ DataNeverDropped

\* On one CPU the adapter transmits the frames of a data queue in the order in
\* which the stack handed them in: none overtakes one in the wait queue
\* (rtllib_softmac_xmit, rtl8192_tx_resume).  A restart leaves OWN bits behind,
\* and old buffers may be sent once more.
InOrderOneCpu ==
    [][(~smp /\ IsData /\ resets = 0 /\ last' # last) => last' > last]_vars

\* On one CPU no frame of a data queue stays where it is: the completion of those
\* before it schedules the tasklet that moves it from the wait queue into the
\* ring, and what is in the ring is transmitted and reaped; no write of TPPoll and
\* no interrupt is lost (rtl8192_tx_isr, rtl8192_tx_resume).  So it is until the
\* first restart: the OWN bits it leaves can put the adapter out of step.
FramesGoOut ==
    LET Goes == ~smp /\ IsData /\ resets = 0
    IN  /\ \A f \in Frame : Goes /\ Contains(waitQ, f) ~> ~Contains(waitQ, f) \/ ~Goes
        /\ Goes /\ ring # <<>> ~> ring = <<>> \/ ~Goes
==============================================================================
