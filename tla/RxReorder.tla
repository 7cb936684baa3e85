----------------------------- MODULE RxReorder -----------------------------
(***************************************************************************)
(* The receive reorder buffer of one RX traffic stream record              *)
(* (RX_TS_RECORD): RxReorderIndicatePacket and AddReorderEntry of          *)
(* rtllib_rx.c, RxPktPendingTimeout, ResetRxTsEntry and the RX half of     *)
(* RemoveTsEntry of rtl819x_TSProc.c.                                      *)
(*                                                                         *)
(* The code sees 12-bit sequence numbers.  The model numbers frames by the *)
(* unbounded position n at which the peer sent them; the code is only ever *)
(* given n % 4096.  base is the position RxIndicateSeq stands for; it is a *)
(* history variable, as are the n of the entries, last and out.            *)
(*                                                                         *)
(* The pool of reorder entries belongs to the device: the other streams   *)
(* take entries from it and give them back (OtherStreams).                 *)
(*                                                                         *)
(* The RX tasklet and the timer callback are taken as atomic: two softirqs *)
(* of one CPU.                                                             *)
(***************************************************************************)
EXTENDS Integers, Sequences

CONSTANTS
    WinSize,    \* pHTInfo->RxReorderWinSize (64)
    EntryNum,   \* REORDER_ENTRY_NUM (128): entries on RxReorder_Unused_List
    ArraySize,  \* REORDER_WIN_SIZE (128): length of prxbIndicateArray
    Starts,     \* positions of the first frame of a stream
    Offsets,    \* how far a frame may lie from the window start when it arrives
    Frames      \* bound: the positions at which a peer sends

SnMod == 4096
NoSeq == 65535  \* 0xffff in RxIndicateSeq and RxTimeoutIndicateSeq
NoPos == -1

ASSUME WinAssumption ==
    /\ WinSize \in 1..255 /\ ArraySize \in Nat /\ WinSize <= ArraySize
    /\ EntryNum \in Nat

(* A frame is never late or early by more than half the sequence space.    *)
ASSUME FrameAssumption ==
    /\ Frames \subseteq Nat /\ Starts \subseteq Frames
    /\ Offsets \subseteq -2048..2047

VARIABLES
    admitted,     \* the record is on Rx_TS_Admit_List
    indicateSeq,  \* RxIndicateSeq
    timeoutSeq,   \* RxTimeoutIndicateSeq
    pending,      \* RxPendingPktList from its tail (.prev) to its head (.next)
    unused,       \* length of RxReorder_Unused_List
    others,       \* entries on the pending lists of the other streams
    timer,        \* RxPktPendingTimer is pending
    base,         \* the position indicateSeq stands for, NoPos for 0xffff
    last,         \* position of the last frame handed up, NoPos for none
    out           \* positions the last step handed up, in order

vars == <<admitted, indicateSeq, timeoutSeq, pending, unused, others, timer, base, last, out>>

SeqNums == 0..(SnMod - 1)
Entry == [seq : SeqNums, n : Frames]

(* #define SN_LESS(a, b) (((a-b)&0x800)!= 0)                                *)
SN_LESS(a, b) == (a - b) % SnMod >= SnMod \div 2

Init ==
    /\ admitted = FALSE
    /\ indicateSeq = NoSeq /\ timeoutSeq = NoSeq
    /\ pending = <<>> /\ unused = EntryNum /\ others = 0 /\ timer = FALSE
    /\ base = NoPos /\ last = NoPos /\ out = <<>>

(* GetTs takes the record from the unused list for a new stream.           *)
ResetRxTsEntry ==
    /\ ~admitted
    /\ admitted' = TRUE
    /\ indicateSeq' = NoSeq /\ timeoutSeq' = NoSeq
    /\ base' = NoPos /\ last' = NoPos /\ out' = <<>>
    /\ UNCHANGED <<pending, unused, others, timer>>

(* Mutants of RemoveTsEntry: the entries are not given back; the timer is  *)
(* not stopped.                                                            *)
RemoveTsEntryKeepsEntries ==
    /\ admitted /\ admitted' = FALSE /\ timer' = FALSE
    /\ pending' = <<>> /\ out' = <<>>
    /\ UNCHANGED <<indicateSeq, timeoutSeq, unused, others, base, last>>
RemoveTsEntryKeepsTimer ==
    /\ admitted /\ admitted' = FALSE
    /\ pending' = <<>> /\ unused' = unused + Len(pending) /\ out' = <<>>
    /\ UNCHANGED <<indicateSeq, timeoutSeq, others, timer, base, last>>

(* RX half of RemoveTsEntry: stop the timer, free every pending packet,    *)
(* give its entry back.                                                    *)
RemoveTsEntry ==
    /\ admitted
    /\ admitted' = FALSE
    /\ timer' = FALSE
    /\ pending' = <<>> /\ unused' = unused + Len(pending)
    /\ out' = <<>>
    /\ UNCHANGED <<indicateSeq, timeoutSeq, others, base, last>>

(* The handlers of other streams share RxReorder_Unused_List.              *)
OtherStreams ==
    /\ others' \in 0..(unused + others)
    /\ unused' = unused + others - others'
    /\ out' = <<>>
    /\ UNCHANGED <<admitted, indicateSeq, timeoutSeq, pending, timer, base, last>>

-----------------------------------------------------------------------------
(* AddReorderEntry walks from the newest entry down while the new number   *)
(* is less; k entries stay below the place where it stops.                 *)
StopsAfter(s, q, k) ==
    /\ k \in 0..Len(s)
    /\ k > 0 => ~SN_LESS(q, s[k].seq)
    /\ \A i \in (k + 1)..Len(s) : SN_LESS(q, s[i].seq)

Duplicate(s, q, k) == k > 0 /\ s[k].seq = q

InsertAfter(s, e, k) ==
    [i \in 1..(Len(s) + 1) |-> IF i <= k THEN s[i] ELSE IF i = k + 1 THEN e ELSE s[i - 1]]

(* Mutant of Drains: the loop may stop early.                              *)
DrainsShort(s, ind, room, low, run) ==
    /\ low + run <= Len(s) /\ low + run <= room
    /\ \A i \in 1..low : SN_LESS(s[i].seq, ind)
    /\ \A j \in 1..run : s[low + j].seq = (ind + j - 1) % SnMod

(* The indication loop started with RxIndicateSeq = ind and room for room  *)
(* more packets: it takes low entries less than ind, then run entries that *)
(* ind follows up, and stops at the first entry ahead of ind or when there *)
(* is no room.                                                             *)
Drains(s, ind, room, low, run) ==
    /\ low + run <= Len(s) /\ low + run <= room
    /\ \A i \in 1..low : SN_LESS(s[i].seq, ind)
    /\ \A j \in 1..run : s[low + j].seq = (ind + j - 1) % SnMod
    /\ low + run < Len(s) /\ low + run < room =>
          LET q == s[low + run + 1].seq
              cur == (ind + run) % SnMod
          IN  ~ (SN_LESS(q, cur) \/ q = cur)

(* The while loop itself, one packet at a time: how many packets it has    *)
(* taken and the RxIndicateSeq it has come to after the first i of them.   *)
DrainLoop(s, ind, room) ==
    LET after[i \in 0..Len(s)] ==
            IF i = 0 THEN [taken |-> 0, ind |-> ind]
            ELSE LET was == after[i - 1]
                     q == s[i].seq
                 IN  IF was.taken = i - 1 /\ i <= room /\ (SN_LESS(q, was.ind) \/ q = was.ind)
                     THEN [taken |-> i, ind |-> IF q = was.ind THEN (was.ind + 1) % SnMod ELSE was.ind]
                     ELSE was
    IN  after[Len(s)]

(* The position RxIndicateSeq stands for once it has moved from old to ind.*)
Moved(from, old, ind) == from + ((ind - old) % SnMod)

Positions(s, k) == [i \in 1..k |-> s[i].n]

HandUp(frames) ==
    /\ out' = frames
    /\ last' = IF frames = <<>> THEN last ELSE frames[Len(frames)]

(* The rest of RxReorderIndicatePacket once the window start is ind (at    *)
(* position b), the pending list is s, free entries are unused and first   *)
(* holds the current packet if it goes up itself: indicate, then handle    *)
(* the pending timer.                                                      *)
IndicateAndArm(s, ind, b, free, first) ==
    \E low, run \in 0..Len(s) :
        LET k == low + run
            newInd == (ind + run) % SnMod
        IN  /\ Drains(s, ind, ArraySize - Len(first), low, run)
            /\ indicateSeq' = newInd
            /\ base' = Moved(b, ind, newInd)
            /\ pending' = SubSeq(s, k + 1, Len(s))
            /\ unused' = free + k
            /\ HandUp(first \o Positions(s, k))
            /\ IF Len(first) + k > 0
               THEN timer' = FALSE /\ timeoutSeq' = NoSeq
               ELSE IF k < Len(s) /\ timeoutSeq = NoSeq
                    THEN timer' = TRUE /\ timeoutSeq' = newInd
                    ELSE UNCHANGED <<timer, timeoutSeq>>

-----------------------------------------------------------------------------
(* RxReorderIndicatePacket for the frame at position n.                    *)

(* The window start the handler works with: the first frame sets it.       *)
WinStart(n) == IF indicateSeq = NoSeq THEN n % SnMod ELSE indicateSeq
StartPos(n) == IF indicateSeq = NoSeq THEN n ELSE base
WinEnd == (indicateSeq + WinSize - 1) % SnMod

Arrives(n) ==
    /\ admitted
    /\ IF indicateSeq = NoSeq THEN n \in Starts ELSE n - base \in Offsets

(* SN_LESS(SeqNum, RxIndicateSeq): the packet is dropped.                   *)
DropOld(n) ==
    /\ Arrives(n)
    /\ SN_LESS(n % SnMod, WinStart(n))
    /\ indicateSeq' = WinStart(n) /\ base' = StartPos(n)
    /\ out' = <<>>
    /\ UNCHANGED <<admitted, timeoutSeq, pending, unused, others, timer, last>>

(* Mutants of AtWinStart: RxIndicateSeq is not moved; what the packet was  *)
(* holding back is not looked at.                                          *)
AtWinStartNotMoved(n) ==
    /\ Arrives(n) /\ n % SnMod = WinStart(n)
    /\ IndicateAndArm(pending, WinStart(n), StartPos(n), unused, <<n>>)
    /\ UNCHANGED <<admitted, others>>
AtWinStartNoDrain(n) ==
    /\ Arrives(n) /\ n % SnMod = WinStart(n)
    /\ indicateSeq' = (WinStart(n) + 1) % SnMod /\ base' = StartPos(n) + 1
    /\ HandUp(<<n>>)
    /\ UNCHANGED <<admitted, timeoutSeq, pending, unused, others, timer>>

(* The packet at the window start goes up, with what it was holding back.  *)
AtWinStart(n) ==
    /\ Arrives(n)
    /\ n % SnMod = WinStart(n)
    /\ IndicateAndArm(pending, (WinStart(n) + 1) % SnMod, StartPos(n) + 1, unused, <<n>>)
    /\ UNCHANGED <<admitted, others>>

(* Mutant of Shifted: the window never shifts.                             *)
NeverShifted(q) == indicateSeq

(* A packet beyond WinEnd shifts the window so that it becomes the last.   *)
Shifted(q) ==
    IF ~SN_LESS(WinEnd, q) THEN indicateSeq
    ELSE IF q >= WinSize - 1 THEN q + 1 - WinSize
    ELSE 4095 - (WinSize - (q + 1)) + 1

(* Any other packet is put on the pending list, unless it is there already *)
(* or no reorder entry is left.                                            *)
Buffer(n) ==
    LET q == n % SnMod
        ind == Shifted(q)
        b == Moved(base, indicateSeq, ind)
    IN  /\ Arrives(n) /\ indicateSeq # NoSeq
        /\ q # indicateSeq /\ ~SN_LESS(q, indicateSeq)
        /\ \E k \in 0..Len(pending) :
             /\ StopsAfter(pending, q, k)
             /\ IF unused > 0 /\ ~Duplicate(pending, q, k)
                THEN IndicateAndArm(InsertAfter(pending, [seq |-> q, n |-> n], k),
                                    ind, b, unused - 1, <<>>)
                ELSE IndicateAndArm(pending, ind, b, unused, <<>>)
        /\ UNCHANGED <<admitted, others>>

RxReorderIndicatePacket(n) == DropOld(n) \/ AtWinStart(n) \/ Buffer(n)

(* Mutant of RxPktPendingTimeout: RxIndicateSeq stays behind.              *)
TimeoutKeepsIndicateSeq ==
    /\ timer /\ timer' = FALSE /\ timeoutSeq # NoSeq /\ pending # <<>>
    /\ \E run \in 0..Len(pending) :
         /\ Drains(pending, pending[1].seq, Len(pending), 0, run)
         /\ pending' = SubSeq(pending, run + 1, Len(pending))
         /\ unused' = unused + run
         /\ HandUp(Positions(pending, run))
         /\ timeoutSeq' = NoSeq
    /\ UNCHANGED <<admitted, indicateSeq, others, base>>

(* The timer fires: the oldest pending packet becomes the window start and *)
(* goes up with the run behind it; the timer is not started again.         *)
RxPktPendingTimeout ==
    /\ timer
    /\ timer' = FALSE
    /\ IF timeoutSeq = NoSeq \/ pending = <<>>
       THEN out' = <<>> /\ UNCHANGED <<indicateSeq, base, timeoutSeq, pending, unused, last>>
       ELSE \E run \in 0..Len(pending) :
              /\ Drains(pending, pending[1].seq, Len(pending), 0, run)
              /\ indicateSeq' = (pending[1].seq + run) % SnMod
              /\ base' = Moved(base, indicateSeq, indicateSeq')
              /\ pending' = SubSeq(pending, run + 1, Len(pending))
              /\ unused' = unused + run
              /\ HandUp(Positions(pending, run))
              /\ timeoutSeq' = NoSeq
    /\ UNCHANGED <<admitted, others>>

Next ==
    \/ ResetRxTsEntry
    \/ RemoveTsEntry
    \/ OtherStreams
    \/ RxPktPendingTimeout
    \/ \E n \in Frames : RxReorderIndicatePacket(n)

Spec == Init /\ [][Next]_vars

(* A pending kernel timer fires.                                           *)
FairSpec == Spec /\ WF_vars(RxPktPendingTimeout)

-----------------------------------------------------------------------------
(* The variables stay in their types: RxReorderIndicatePacket and          *)
(* RxPktPendingTimeout keep both sequence numbers below 4096 or at 0xffff, *)
(* and the unused list never holds more than REORDER_ENTRY_NUM entries.    *)
TypeOK ==
    /\ admitted \in BOOLEAN /\ timer \in BOOLEAN
    /\ indicateSeq \in SeqNums \cup {NoSeq} /\ timeoutSeq \in SeqNums \cup {NoSeq}
    /\ pending \in Seq(Entry) /\ unused \in 0..EntryNum /\ others \in 0..EntryNum
    /\ base \in Int /\ last \in Frames \cup {NoPos} /\ out \in Seq(Frames)

(* RxIndicateSeq is the 12-bit image of the true window start, and so is   *)
(* every buffered number of its frame: the wrap at 4096 never confuses the *)
(* code.                                                                   *)
Synced ==
    /\ (indicateSeq = NoSeq) <=> (base = NoPos)
    /\ indicateSeq # NoSeq => base >= 0 /\ indicateSeq = base % SnMod
    /\ \A i \in 1..Len(pending) : pending[i].seq = pending[i].n % SnMod

(* The pending list is sorted, holds no frame twice and lies strictly      *)
(* inside the receive window.                                              *)
WindowInv ==
    /\ \A i \in 1..Len(pending) : base < pending[i].n /\ pending[i].n < base + WinSize
    /\ \A i, j \in 1..Len(pending) : i <= j => pending[j].n - pending[i].n >= j - i

(* Every reorder entry is on the unused list or on a pending list: none of *)
(* the paths that free a packet loses its entry.                           *)
NoEntryLost == unused + others + Len(pending) = EntryNum

(* RxTimeoutIndicateSeq is set exactly while the pending timer runs, and   *)
(* it runs only for a stream that holds packets.                           *)
TimerCoherent ==
    /\ admitted => (timer <=> timeoutSeq # NoSeq)
    /\ timer => admitted /\ pending # <<>>
    /\ pending # <<>> => admitted /\ indicateSeq # NoSeq

(* One call hands up at most a window of packets: prxbIndicateArray, which *)
(* is longer than a window, is never overrun, in the timer callback too,   *)
(* which does not check its bound before it writes.                        *)
IndicateArrayBound == Len(out) <= WinSize

(* Everything handed up lies below the window start.                       *)
Settled == last = NoPos \/ (indicateSeq # NoSeq /\ last < base)

(* The outcome of the loop that Drains describes is the one of the code's  *)
(* loop, for the pending list and every window start that occur.           *)
DrainsIsTheLoop ==
    \A ind \in {(base + d) % SnMod : d \in 0..(WinSize + 1)}, room \in 0..ArraySize :
        LET loop == DrainLoop(pending, ind, room)
            outcomes == {p \in (0..Len(pending)) \X (0..Len(pending)) :
                            Drains(pending, ind, room, p[1], p[2])}
        IN  \E p \in outcomes :
              /\ loop = [taken |-> p[1] + p[2], ind |-> (ind + p[2]) % SnMod]
              /\ outcomes = {p}

(* The loop of RxReorderIndicatePacket is the one the model describes, and *)
(* everything it handed up lies below the window start it leaves.          *)
LoopSettles == Settled /\ DrainsIsTheLoop

(* Frames go up in the order they were sent and none goes up twice, within *)
(* one call and from one call to the next, as long as the stream lives.    *)
InOrderStep ==
    /\ \A i, j \in 1..Len(out') : i < j => out'[i] < out'[j]
    /\ out' # <<>> => last < out'[1]
InOrder == [][InOrderStep]_vars

(* The comment at rtllib_rx.c:681 on the pending timer, "Set this timer to *)
(* prevent from long time Rx buffering": a buffered packet leaves the      *)
(* buffer.                                                                 *)
NoLongBuffering ==
    \A n \in Frames :
        (\E i \in 1..Len(pending) : pending[i].n = n) ~>
            ~ \E i \in 1..Len(pending) : pending[i].n = n

W == INSTANCE RxWindow WITH
        start <- base,
        buf <- {pending[i].n : i \in 1..Len(pending)},
        out <- {out[i] : i \in 1..Len(out)}

(* The reorder buffer implements the ordered window service.               *)
ImplementsWindow == W!Spec
=============================================================================
