------------------------------ MODULE TxProofs ------------------------------
(***************************************************************************)
(* Proofs about HtLink and TxRing: how data frames are built, from what    *)
(* was agreed with the access point, and how a TX queue carries them.      *)
(*                                                                         *)
(* TxRing, for every number of descriptors, length of the wait queue,      *)
(* number of frames and of restarts, each kind of queue and of machine:    *)
(* first the arithmetic of a ring, then the inductive invariant.           *)
(* HtLink, for every set of access points and announcements, packets,      *)
(* thresholds and numbers of joins and changes: how a network is           *)
(* described, the inductive invariant LinkInv, then the frames.            *)
(***************************************************************************)
EXTENDS TxRing, HtLink, SequenceTheorems, WellFoundedInduction, TLAPS

(* A set of natural numbers that is not empty has a least element.         *)
LEMMA NatMin ==
    ASSUME NEW T \in SUBSET Nat, T # {} PROVE \E x \in T : \A y \in T : x <= y
<1> DEFINE R == OpToRel(<, Nat)
<1>1. IsWellFoundedOn(R, Nat) BY NatLessThanWellFounded, Zenon
<1>2. \A x, y \in Nat : x < y => <<x, y>> \in R BY DEF OpToRel
<1> HIDE DEF R
<1>3. \E x \in T : \A y \in T : ~ (<<y, x>> \in R) BY <1>1, WFMin
<1>4. PICK x \in T : \A y \in T : ~ (<<y, x>> \in R) BY <1>3
<1>5. ASSUME NEW y \in T PROVE x <= y
  <2>1. x \in Nat /\ y \in Nat OBVIOUS
  <2>2. ~(y < x) BY <1>2, <1>4, <2>1
  <2> QED BY <2>1, <2>2
<1> QED BY <1>5

(* The arithmetic of indices that wrap at Entries.                         *)
LEMMA Times ==
    ASSUME NEW d \in Int, d >= 1 PROVE Entries * d >= Entries
<1>1. Entries * (d - 1) >= 0 BY SizeAssumption
<1>2. Entries * d = Entries * (d-1) + Entries BY SizeAssumption
<1> QED BY <1>1, <1>2, SizeAssumption

LEMMA DivMod == ASSUME NEW x \in Int
   PROVE  /\ x % Entries \in 0..Entries-1 /\ x \div Entries \in Int
          /\ x = Entries * (x \div Entries) + (x % Entries)
BY SizeAssumption

LEMMA Unique == ASSUME NEW q \in Int, NEW p \in Int, NEW r \in 0..Entries-1, NEW s \in 0..Entries-1, Entries*q + r = Entries*p + s
  PROVE r = s /\ q = p
<1>1. Entries * (q - p) = s - r  BY SizeAssumption
<1>2. ~ (q - p >= 1)
  <2> SUFFICES ASSUME q - p >= 1 PROVE FALSE OBVIOUS
  <2>1. Entries * (q-p) >= Entries BY Times
  <2> QED BY <2>1, <1>1, SizeAssumption
<1>3. ~ (p - q >= 1)
  <2> SUFFICES ASSUME p - q >= 1 PROVE FALSE OBVIOUS
  <2>1. Entries * (p-q) >= Entries BY Times
  <2>2. Entries * (p - q) = r - s BY <1>1, SizeAssumption
  <2> QED BY <2>1, <2>2, SizeAssumption
<1>4. q = p BY <1>2, <1>3
<1> QED BY <1>4, <1>1, SizeAssumption

LEMMA ModIs == ASSUME NEW x \in Int, NEW q \in Int, NEW r \in 0..Entries-1, x = Entries * q + r
   PROVE x % Entries = r
BY DivMod, Unique

LEMMA ModSmall == ASSUME NEW x \in 0..Entries-1 PROVE x % Entries = x
<1>1. x = Entries * 0 + x BY SizeAssumption
<1> QED BY <1>1, ModIs

LEMMA ModShift == ASSUME NEW x \in Int, NEW y \in Int
   PROVE ((x % Entries) + y) % Entries = (x + y) % Entries
<1>1. x % Entries \in 0..Entries-1 /\ x \div Entries \in Int /\ x = Entries * (x \div Entries) + (x % Entries) BY DivMod
<1>2. x + y = Entries * ((x+y) \div Entries) + ((x+y) % Entries) /\ (x+y) % Entries \in 0..Entries-1 /\ (x+y) \div Entries \in Int BY DivMod
<1> DEFINE q == (x+y) \div Entries - (x \div Entries)
<1>3. q \in Int BY <1>1, <1>2
<1>4. (x % Entries) + y = Entries * q + ((x+y) % Entries) 
  <2> DEFINE a == x \div Entries  b == (x+y) \div Entries
  <2>1. a \in Int /\ b \in Int BY <1>1, <1>2
  <2> HIDE DEF a, b
  <2>2. Entries * (b - a) = Entries * b - Entries * a BY <2>1, SizeAssumption
  <2> QED BY <1>1, <1>2, <2>1, <2>2, SizeAssumption DEF a, b
<1> QED BY <1>1, <1>2, <1>3, <1>4, ModIs

LEMMA ModInj == ASSUME NEW x \in Int, NEW y \in Int, x % Entries = y % Entries, x - y < Entries, y - x < Entries
   PROVE x = y
<1>1. x % Entries \in 0..Entries-1 /\ x \div Entries \in Int /\ x = Entries * (x \div Entries) + (x % Entries) BY DivMod
<1>2. y % Entries \in 0..Entries-1 /\ y \div Entries \in Int /\ y = Entries * (y \div Entries) + (y % Entries) BY DivMod
<1> DEFINE d == (x \div Entries) - (y \div Entries)
<1>3. d \in Int BY <1>1, <1>2
<1>4. x - y = Entries * d
  <2> DEFINE a == x \div Entries  b == y \div Entries
  <2>1. a \in Int /\ b \in Int BY <1>1, <1>2
  <2> HIDE DEF a, b
  <2>2. Entries * (a - b) = Entries * a - Entries * b BY <2>1, SizeAssumption
  <2> QED BY <1>1, <1>2, <2>1, <2>2, SizeAssumption DEF a, b
<1> HIDE DEF d
<1>5. ~ (d >= 1) BY Times, <1>3, <1>4, SizeAssumption
<1>6. ~ (-d >= 1)
  <2> SUFFICES ASSUME -d >= 1 PROVE FALSE OBVIOUS
  <2>1. Entries * (-d) >= Entries BY Times, <1>3
  <2>2. Entries * (-d) = y - x BY <1>3, <1>4, SizeAssumption
  <2> QED BY <2>1, <2>2, SizeAssumption
<1>7. d = 0 BY <1>3, <1>5, <1>6
<1> QED BY <1>4, <1>7, SizeAssumption
-----------------------------------------------------------------------------
(* The inductive invariant.                                                *)

(* The types of the variables, without the frames being different.         *)
Types ==
    /\ own \in [Slot -> BOOLEAN] /\ buf \in [Slot -> Frame \cup {None}]
    /\ idx \in Slot /\ hwIdx \in Slot
    /\ ring \in Seq(Frame) /\ waitQ \in Seq(Frame)
    /\ pc \in [Actor -> {"idle", "wait", "send", "poll", "resume"}]
    /\ frame \in [Actor -> Frame \cup {None}]
    /\ {tasklet, polling, irq, up} \subseteq BOOLEAN
    /\ n \in 0 .. MaxFrames /\ last \in Frame \cup {None}
    /\ resets \in 0 .. MaxResets /\ queue \in Queues /\ smp \in Machines

(* An actor carries a frame exactly while it is to send or to park it; the *)
(* power save path leaves the data queues alone; on one CPU the stack and  *)
(* the tasklet do not meet.                                                *)
Places ==
    /\ \A a \in Actor : frame[a] # None <=> pc[a] \in {"send", "wait"}
    /\ pc["stack"] # "resume" /\ pc["tasklet"] # "wait"
    /\ IsData => pc["ps"] = "idle"
    /\ ~smp => pc["stack"] = "idle" \/ pc["tasklet"] = "idle"

(* Every frame is in one place only, and was handed in.                    *)
Apart ==
    /\ \A i \in 1 .. Len(ring) : ring[i] <= n
    /\ \A i \in 1 .. Len(waitQ) : waitQ[i] <= n
    /\ \A a \in Actor : frame[a] <= n
    /\ \A i, j \in 1 .. Len(ring) : ring[i] = ring[j] => i = j
    /\ \A i, j \in 1 .. Len(waitQ) : waitQ[i] = waitQ[j] => i = j
    /\ \A i \in 1 .. Len(ring), j \in 1 .. Len(waitQ) : ring[i] # waitQ[j]
    /\ \A a \in Actor, i \in 1 .. Len(ring) : ring[i] # frame[a]
    /\ \A a \in Actor, i \in 1 .. Len(waitQ) : waitQ[i] # frame[a]
    /\ \A a, b \in Actor : frame[a] = frame[b] /\ frame[a] # None => a = b

(* The descriptors promised to the actors that passed the test for room    *)
(* are there.                                                              *)
Sends(a) == IF pc[a] = "send" THEN 1 ELSE 0
Room == IsData => Len(ring) + Sends("stack") + Sends("tasklet") <= Entries

(* Every frame on the ring of a data queue is in the descriptor at its     *)
(* place.                                                                  *)
Placed == IsData => \A i \in 1 .. Len(ring) : buf[(idx + i - 1) % Entries] = ring[i]

(* The adapter owns the last m descriptors of the ring and no others.      *)
OwnsLast(m) ==
    /\ m <= Len(ring)
    /\ hwIdx = (idx + Len(ring) - m) % Entries
    /\ \A j \in 0 .. m - 1 :
          /\ own[(hwIdx + j) % Entries]
          /\ buf[(hwIdx + j) % Entries] = ring[Len(ring) - m + j + 1]
    /\ \A s \in Slot : own[s] => \E j \in 0 .. m - 1 : s = (hwIdx + j) % Entries
Owned == resets = 0 => up /\ \E m \in 0 .. Entries : OwnsLast(m)

Inv == Types /\ Places /\ Apart /\ Room /\ Placed /\ Owned

(* One CPU, a data queue, no restart yet: frames are handed on in order.   *)
InTurn ==
    ~smp /\ IsData /\ resets = 0 =>
      /\ last <= n
      /\ \A i, j \in 1 .. Len(ring) : i < j => ring[i] < ring[j]
      /\ \A i, j \in 1 .. Len(waitQ) : i < j => waitQ[i] < waitQ[j]
      /\ \A i \in 1 .. Len(ring), j \in 1 .. Len(waitQ) : ring[i] < waitQ[j]
      /\ \A a \in Actor : frame[a] # None =>
            /\ last < frame[a] /\ \A i \in 1 .. Len(ring) : ring[i] < frame[a]
      /\ \A i \in 1 .. Len(waitQ) : last < waitQ[i]
      /\ \A i \in 1 .. Len(ring) : own[(idx + i - 1) % Entries] => last < ring[i]
      /\ pc["stack"] = "send" => waitQ = <<>>
      /\ frame["stack"] # None => \A i \in 1 .. Len(waitQ) : waitQ[i] < frame["stack"]
      /\ frame["tasklet"] # None => \A i \in 1 .. Len(waitQ) : frame["tasklet"] < waitQ[i]

-----------------------------------------------------------------------------
(* The invariant holds initially.                                          *)
LEMMA InitInv == Init => Inv /\ InTurn
<1> SUFFICES ASSUME Init PROVE Inv /\ InTurn OBVIOUS
<1> USE SizeAssumption, BoundAssumption DEF Init
<1>1. Types
  <2>1. ring \in Seq(Frame) /\ waitQ \in Seq(Frame) BY EmptySeq
  <2>2. {tasklet, polling, irq, up} \subseteq BOOLEAN OBVIOUS
  <2> QED BY <2>1, <2>2 DEF Types, Slot, Frame, Actor, None
<1>2. Places BY DEF Places, Actor, None
<1>3. Apart BY DEF Apart, Actor, None
<1>4. Room BY DEF Room, Sends, Actor
<1>5. Placed BY DEF Placed
<1>6. Owned
  <2>1. 0 \in Slot /\ (0 + 0 - 0) % Entries = 0 BY ModSmall DEF Slot
  <2>2. OwnsLast(0) BY <2>1 DEF OwnsLast
  <2> QED BY <2>2 DEF Owned
<1>7. InTurn BY DEF InTurn, Actor, None
<1> QED BY <1>1, <1>2, <1>3, <1>4, <1>5, <1>6, <1>7 DEF Inv

(* Steps that do not touch the ring, the descriptors nor the adapter's     *)
(* place in them.                                                          *)
LEMMA RingKept ==
    ASSUME Inv, UNCHANGED <<own, buf, idx, ring, hwIdx, queue, up, resets>>
    PROVE  Placed' /\ Owned'
BY DEF Inv, Placed, Owned, OwnsLast, IsData

(* What the type invariant says of the elements of the queues.             *)
LEMMA Elements ==
    ASSUME Types
    PROVE  /\ Len(ring) \in Nat /\ \A i \in 1 .. Len(ring) : ring[i] \in Frame /\ ring[i] \in Nat \ {0}
           /\ Len(waitQ) \in Nat /\ \A i \in 1 .. Len(waitQ) : waitQ[i] \in Frame /\ waitQ[i] \in Nat \ {0}
           /\ \A a \in Actor : frame[a] \in Nat /\ (frame[a] # None => frame[a] \in Frame)
           /\ n \in Nat
<1>1. Frame \subseteq Nat \ {0} BY BoundAssumption DEF Frame
<1>2. ring \in Seq(Frame) /\ waitQ \in Seq(Frame) BY DEF Types
<1>3. Len(ring) \in Nat /\ \A i \in 1 .. Len(ring) : ring[i] \in Frame BY <1>2, ElementOfSeq
<1>4. Len(waitQ) \in Nat /\ \A i \in 1 .. Len(waitQ) : waitQ[i] \in Frame BY <1>2, ElementOfSeq
<1>5. ASSUME NEW a \in Actor PROVE frame[a] \in Nat /\ (frame[a] # None => frame[a] \in Frame)
  <2>1. frame[a] \in Frame \cup {None} BY DEF Types
  <2>2. frame[a] \in Frame => frame[a] \in Nat BY <1>1
  <2>3. None \in Nat BY DEF None
  <2> QED BY <2>1, <2>2, <2>3
<1>6. n \in Nat
  <2>1. n \in 0 .. MaxFrames BY DEF Types
  <2> QED BY <2>1, BoundAssumption
<1> QED BY <1>1, <1>3, <1>4, <1>5, <1>6

(* An actor lets go of its frame.                                          *)
LEMMA ApartLess ==
    ASSUME Inv, NEW a \in Actor, frame' = [frame EXCEPT ![a] = None], UNCHANGED <<ring, waitQ, n>>
    PROVE  Apart'
<1>1. \A b \in Actor : frame'[b] = frame[b] \/ frame'[b] = None BY DEF Inv, Types
<1>2. \A b \in Actor : frame'[b] # None => frame'[b] = frame[b] BY <1>1
<1>3. None = 0 BY DEF None
<1> QED BY <1>1, <1>2, <1>3, Elements DEF Inv, Apart

(* An actor takes a new frame.                                             *)
LEMMA ApartMore ==
    ASSUME Inv, NEW a \in Actor, n' = n + 1, frame' = [frame EXCEPT ![a] = n + 1],
           UNCHANGED <<ring, waitQ>>
    PROVE  Apart'
<1>1. \A b \in Actor : frame'[b] = IF b = a THEN n + 1 ELSE frame[b] BY DEF Inv, Types
<1>2. \A b \in Actor : frame[b] <= n /\ frame[b] # n + 1 BY Elements DEF Inv, Apart
<1>3. \A i \in 1 .. Len(ring) : ring[i] <= n /\ ring[i] # n + 1 BY Elements DEF Inv, Apart
<1>4. \A i \in 1 .. Len(waitQ) : waitQ[i] <= n /\ waitQ[i] # n + 1 BY Elements DEF Inv, Apart
<1>5. \A b, c \in Actor : frame'[b] = frame'[c] /\ frame'[b] # None => b = c
  BY <1>1, <1>2, Elements DEF Inv, Apart
<1> QED BY <1>1, <1>2, <1>3, <1>4, <1>5, Elements DEF Inv, Apart

(* No frame changes hands.                                                 *)
LEMMA ApartSame == ASSUME Inv, UNCHANGED <<ring, waitQ, frame>>, n' \in Nat, n <= n' PROVE Apart'
BY Elements DEF Inv, Apart

(* The stack takes a frame.                                                *)
LEMMA XmitStartInv == ASSUME Inv, XmitStart PROVE Inv'
<1> USE SizeAssumption, BoundAssumption DEF Inv, XmitStart, Goto, ringVars, hwVars, machine, MustWait, EnoughDesc
<1>1. Types'
  <2>1. UNCHANGED <<own, buf, idx, hwIdx, ring, waitQ, up, last, resets, queue, smp, irq, polling, tasklet>>
    OBVIOUS
  <2>2. pc' = pc \/ pc' = [pc EXCEPT !["stack"] = "send"] \/ pc' = [pc EXCEPT !["stack"] = "wait"]
    OBVIOUS
  <2>3. frame' = frame \/ frame' = [frame EXCEPT !["stack"] = n + 1]
    OBVIOUS
  <2>4. n' \in 0 .. MaxFrames /\ n + 1 \in Frame
    BY DEF Types, Frame
  <2>5. Types
    OBVIOUS
  <2>6. pc' \in [Actor -> {"idle", "wait", "send", "poll", "resume"}]
    BY ONLY <2>2, <2>5 DEF Types, Actor
  <2>7. frame' \in [Actor -> Frame \cup {None}]
    BY ONLY <2>3, <2>4, <2>5 DEF Types
  <2> QED BY ONLY <2>1, <2>4, <2>5, <2>6, <2>7 DEF Types, Slot
<1>2. Places'
  <2>1. \A b \in Actor : \/ pc'[b] = pc[b] /\ frame'[b] = frame[b]
                         \/ b = "stack" /\ pc'[b] \in {"send", "wait"} /\ frame'[b] = n + 1
    <3>1. CASE UNCHANGED <<pc, frame>> BY <3>1
    <3>2. CASE Goto("stack", "send", n + 1) \/ Goto("stack", "wait", n + 1) BY <3>2 DEF Types
    <3> QED BY <3>1, <3>2
  <2>2. n + 1 # None /\ MayRun("stack") /\ UNCHANGED <<smp, queue>> BY DEF Types, None
  <2>3. Places BY DEF Inv
  <2>4. pc["stack"] = "idle" BY DEF Inv
  <2>5. "stack" \in Actor /\ "tasklet" \in Actor /\ "ps" \in Actor BY DEF Actor
  <2>6. \A b \in Actor : frame'[b] # None <=> pc'[b] \in {"send", "wait"} BY ONLY <2>1, <2>2, <2>3 DEF Places
  <2> QED BY ONLY <2>1, <2>2, <2>3, <2>4, <2>5, <2>6 DEF Places, MayRun, IsData
<1>3. Apart'
  <2>1. "stack" \in Actor /\ n \in Nat BY Elements DEF Actor
  <2>2. CASE Goto("stack", "send", n + 1) \/ Goto("stack", "wait", n + 1) BY <2>1, <2>2, ApartMore
  <2>3. CASE UNCHANGED <<pc, frame>> BY <2>1, <2>3, ApartSame
  <2> QED BY <2>2, <2>3
<1>4. Room' 
  <2>1. Sends("tasklet") \in {0, 1} /\ Len(ring) \in Nat BY Elements DEF Sends
  <2>2. Sends("tasklet")' = Sends("tasklet") BY DEF Sends, Types, Actor
  <2>3. CASE ~MustWait /\ Goto("stack", "send", n + 1)
    <3>1. Sends("stack")' = 1 BY <2>3 DEF Sends, Types, Actor
    <3>2. Entries - Len(ring) >= 2 BY <2>3
    <3> QED BY <2>1, <2>2, <3>1, <3>2 DEF Room
  <2>4. CASE Goto("stack", "wait", n + 1) \/ UNCHANGED <<pc, frame>>
    BY <2>1, <2>2, <2>4 DEF Room, Sends, IsData, Types, Actor
  <2> QED BY <2>3, <2>4
<1>5. Placed' /\ Owned' BY RingKept
<1> QED BY <1>1, <1>2, <1>3, <1>4, <1>5

(* The frame joins the wait queue.                                         *)
LEMMA XmitWaitInv == ASSUME Inv, XmitWait PROVE Inv'
<1> USE SizeAssumption, BoundAssumption DEF Inv, XmitWait, Goto, ringVars, hwVars, machine
<1>0. waitQ \in Seq(Frame) /\ frame["stack"] \in Frame BY DEF Types, Places, Actor, None
<1>a. /\ waitQ' \in Seq(Frame) /\ Len(waitQ') = Len(waitQ) + 1
      /\ \A i \in 1 .. Len(waitQ) : waitQ'[i] = waitQ[i]
      /\ waitQ'[Len(waitQ) + 1] = frame["stack"]
  BY <1>0, AppendProperties
<1>1. Types' BY <1>a DEF Types, Slot, Actor, None
<1>2. Places' BY DEF Places, Types, Actor, None, IsData
<1>3. Apart'
  <2> DEFINE f == frame["stack"]
  <2>1. \A b \in Actor : frame'[b] = IF b = "stack" THEN None ELSE frame[b] BY DEF Types
  <2>2. f \in Nat /\ f <= n /\ "stack" \in Actor /\ f # None BY <1>0, Elements DEF Apart, Actor, Places, None, Frame
  <2>3. \A i \in 1 .. Len(waitQ') :
           (i \in 1 .. Len(waitQ) /\ waitQ'[i] = waitQ[i]) \/ (i = Len(waitQ) + 1 /\ waitQ'[i] = f)
    BY <1>a, Elements
  <2>4. \A i \in 1 .. Len(waitQ) : waitQ[i] # f BY <2>2 DEF Apart
  <2>5. \A i \in 1 .. Len(ring) : ring[i] # f BY <2>2 DEF Apart
  <2>6. \A b \in Actor : b # "stack" => frame[b] # f BY <2>2 DEF Apart
  <2> HIDE DEF f
  <2>7. \A i, j \in 1 .. Len(waitQ') : waitQ'[i] = waitQ'[j] => i = j BY <2>3, <2>4 DEF Apart
  <2>8. \A i \in 1 .. Len(waitQ') : waitQ'[i] <= n BY <2>2, <2>3 DEF Apart
  <2>9. \A i \in 1 .. Len(ring), j \in 1 .. Len(waitQ') : ring[i] # waitQ'[j] BY <2>3, <2>5 DEF Apart
  <2>10. \A b \in Actor, i \in 1 .. Len(waitQ') : waitQ'[i] # frame'[b]
    BY <2>1, <2>2, <2>3, <2>6, Elements DEF Apart, None
  <2>11. \A b \in Actor : frame'[b] <= n /\ \A i \in 1 .. Len(ring) : ring[i] # frame'[b]
    BY <2>1, Elements DEF Apart, None
  <2>12. \A b, c \in Actor : frame'[b] = frame'[c] /\ frame'[b] # None => b = c BY <2>1 DEF Apart
  <2> QED BY <2>7, <2>8, <2>9, <2>10, <2>11, <2>12 DEF Apart
<1>4. Room' BY DEF Room, Sends, Types, Actor, IsData
<1>5. Placed' /\ Owned' BY RingKept
<1> QED BY <1>1, <1>2, <1>3, <1>4, <1>5

(* The power save path takes a frame.                                      *)
LEMMA PsXmitInv == ASSUME Inv, PsXmit PROVE Inv'
<1> USE SizeAssumption, BoundAssumption DEF Inv, PsXmit, Goto, ringVars, hwVars, machine
<1>1. Types'
  <2>1. UNCHANGED <<own, buf, idx, hwIdx, ring, waitQ, up, last, resets, queue, smp, irq, polling, tasklet>>
    OBVIOUS
  <2>2. pc' = [pc EXCEPT !["ps"] = "send"]
    OBVIOUS
  <2>3. frame' = [frame EXCEPT !["ps"] = n + 1]
    OBVIOUS
  <2>4. n' \in 0 .. MaxFrames /\ n + 1 \in Frame
    BY DEF Types, Frame
  <2>5. Types
    OBVIOUS
  <2>6. pc' \in [Actor -> {"idle", "wait", "send", "poll", "resume"}]
    BY ONLY <2>2, <2>5 DEF Types, Actor
  <2>7. frame' \in [Actor -> Frame \cup {None}]
    BY ONLY <2>3, <2>4, <2>5 DEF Types
  <2> QED BY ONLY <2>1, <2>4, <2>5, <2>6, <2>7 DEF Types, Slot
<1>2. Places' BY DEF Places, Types, Actor, None, IsData, Frame, MGNT_QUEUE, HIGH_QUEUE, TXCMD_QUEUE, BK_QUEUE
<1>3. Apart' BY ApartMore DEF Actor
<1>4. Room' BY DEF Room, Sends, Types, Actor, IsData
<1>5. Placed' /\ Owned' BY RingKept
<1> QED BY <1>1, <1>2, <1>3, <1>4, <1>5

(* A frame is freed.                                                       *)
LEMMA TxDropsInv ==
    ASSUME Inv, NEW a \in Actor, rtl8192_tx(a), TxDrops(a) PROVE Inv'
<1> USE SizeAssumption, BoundAssumption DEF Inv, rtl8192_tx, TxDrops, Goto, ringVars, hwVars, machine, After
<1>1. Types'
  <2>1. UNCHANGED <<own, buf, idx, hwIdx, ring, waitQ, up, n, last, resets, queue, smp, irq, tasklet, polling>>
    OBVIOUS
  <2>2. pc' = [pc EXCEPT ![a] = "resume"] \/ pc' = [pc EXCEPT ![a] = "idle"]
    OBVIOUS
  <2>3. frame' = [frame EXCEPT ![a] = None]
    OBVIOUS
  <2>5. Types
    OBVIOUS
  <2>6. pc' \in [Actor -> {"idle", "wait", "send", "poll", "resume"}]
    BY ONLY <2>2, <2>5 DEF Types, Actor
  <2>7. frame' \in [Actor -> Frame \cup {None}]
    BY ONLY <2>3, <2>5 DEF Types
  <2> QED BY ONLY <2>1, <2>5, <2>6, <2>7 DEF Types, Slot
<1>2. Places' BY DEF Places, Types, Actor, None, IsData, Frame, MayRun
<1>3. Apart' BY ApartLess
<1>4. Room'
  <2>1. \A b \in Actor : Sends(b) \in {0, 1} /\ Sends(b)' \in {0, 1} /\ Sends(b)' <= Sends(b)
    BY DEF Sends, Types, Actor
  <2> QED BY <2>1, Elements DEF Room, IsData, Actor
<1>5. Placed' /\ Owned' BY RingKept
<1> QED BY <1>1, <1>2, <1>3, <1>4, <1>5

(* TPPoll is written.                                                      *)
LEMMA PollInv == ASSUME Inv, NEW a \in Actor, Poll(a) PROVE Inv'
<1> USE SizeAssumption, BoundAssumption DEF Inv, Poll, Goto, ringVars, hwVars, machine, After
<1>1. Types'
  <2>1. UNCHANGED <<own, buf, idx, hwIdx, ring, waitQ, up, n, last, resets, queue, smp, irq, tasklet>>
    OBVIOUS
  <2>2. pc' = [pc EXCEPT ![a] = "resume"] \/ pc' = [pc EXCEPT ![a] = "idle"]
    OBVIOUS
  <2>3. frame' = [frame EXCEPT ![a] = None]
    OBVIOUS
  <2>4. polling' \in BOOLEAN
    BY DEF Types
  <2>5. Types
    OBVIOUS
  <2>6. pc' \in [Actor -> {"idle", "wait", "send", "poll", "resume"}]
    BY ONLY <2>2, <2>5 DEF Types, Actor
  <2>7. frame' \in [Actor -> Frame \cup {None}]
    BY ONLY <2>3, <2>5 DEF Types
  <2> QED BY ONLY <2>1, <2>4, <2>5, <2>6, <2>7 DEF Types, Slot
<1>2. Places' BY DEF Places, Types, Actor, None, IsData, Frame, MayRun
<1>3. Apart' BY ApartLess
<1>4. Room' BY DEF Room, Sends, Types, Actor, IsData
<1>5. Placed' /\ Owned' BY RingKept
<1> QED BY <1>1, <1>2, <1>3, <1>4, <1>5

(* The descriptor behind the tail is filled.                               *)
LEMMA TxQueuesInv ==
    ASSUME Inv, NEW a \in Actor, rtl8192_tx(a), TxQueues(a) PROVE Inv'
<1> DEFINE f == frame[a]  L == Len(ring)
<1> USE DEF Inv
<1>0. /\ f \in Frame /\ f \in Nat \ {0} /\ f <= n /\ L \in Nat /\ ring \in Seq(Frame)
      /\ pc[a] = "send" /\ up /\ ~own[TailSlot]
  BY Elements DEF Types, Places, Apart, rtl8192_tx, TxQueues, Frame, None
<1>t. TailSlot \in Slot /\ TailSlot = (idx + L) % Entries
  BY <1>0, DivMod DEF TailSlot, Slot, Types
<1>p. /\ pc' = [pc EXCEPT ![a] = "poll"] /\ frame' = [frame EXCEPT ![a] = None]
      /\ buf' = [buf EXCEPT ![TailSlot] = f] /\ own' = [own EXCEPT ![TailSlot] = TRUE]
      /\ ring' = Append(ring, f)
      /\ UNCHANGED <<idx, hwIdx, polling, irq, last, waitQ, tasklet, up, n, resets, queue, smp>>
  BY DEF rtl8192_tx, TxQueues, Goto, hwVars, machine
<1>r. /\ ring' \in Seq(Frame) /\ Len(ring') = L + 1
      /\ \A i \in 1 .. L : ring'[i] = ring[i]
      /\ ring'[L + 1] = f
  BY <1>0, <1>p, AppendProperties
<1>i. \A i \in 1 .. Len(ring') : (i \in 1 .. L /\ ring'[i] = ring[i]) \/ (i = L + 1 /\ ring'[i] = f)
  BY <1>0, <1>r
<1>b. \A s \in Slot : /\ buf'[s] = IF s = TailSlot THEN f ELSE buf[s]
                      /\ own'[s] = (s = TailSlot \/ own[s])
  BY <1>p, <1>t DEF Types
<1> HIDE DEF f, L
<1>1. Types'
  <2>1. pc' \in [Actor -> {"idle", "wait", "send", "poll", "resume"}] BY <1>p DEF Types
  <2>2. frame' \in [Actor -> Frame \cup {None}] BY <1>p DEF Types
  <2>3. buf' \in [Slot -> Frame \cup {None}] /\ own' \in [Slot -> BOOLEAN] BY <1>0, <1>p DEF Types
  <2> QED BY <2>1, <2>2, <2>3, <1>p, <1>r DEF Types
<1>2. Places' BY <1>0, <1>p DEF Places, Types, IsData, Actor, None
<1>3. Apart'
  <2>1. \A b \in Actor : frame'[b] = IF b = a THEN None ELSE frame[b] BY <1>p DEF Types
  <2>2. \A i \in 1 .. L : ring[i] # f /\ ring[i] <= n BY DEF Apart, f, L
  <2>3. \A i \in 1 .. Len(waitQ) : waitQ[i] # f BY DEF Apart, f
  <2>4. \A b \in Actor : b # a => frame[b] # f BY <1>0 DEF Apart, f, None
  <2>5. \A i, j \in 1 .. Len(ring') : ring'[i] = ring'[j] => i = j BY <1>i, <2>2 DEF Apart, L
  <2>6. \A i \in 1 .. Len(ring') : ring'[i] <= n BY <1>i, <1>0, <2>2
  <2>7. \A i \in 1 .. Len(ring'), j \in 1 .. Len(waitQ) : ring'[i] # waitQ[j] BY <1>i, <2>3 DEF Apart, L
  <2>8. \A b \in Actor, i \in 1 .. Len(ring') : ring'[i] # frame'[b]
    BY <1>i, <1>0, <2>1, <2>4, Elements DEF Apart, None, L
  <2>9. \A b \in Actor : frame'[b] <= n /\ \A i \in 1 .. Len(waitQ) : waitQ[i] # frame'[b]
    <3> TAKE b \in Actor
    <3>1. frame[b] <= n /\ \A i \in 1 .. Len(waitQ) : waitQ[i] # frame[b]
      BY DEF Apart
    <3>2. None <= n /\ \A i \in 1 .. Len(waitQ) : waitQ[i] # None
      BY Elements DEF None
    <3> QED
      BY <2>1, <3>1, <3>2
  <2>10. \A b, c \in Actor : frame'[b] = frame'[c] /\ frame'[b] # None => b = c BY <2>1 DEF Apart
  <2> QED BY <1>p, <2>5, <2>6, <2>7, <2>8, <2>9, <2>10 DEF Apart
<1>4. Room'
  <2>1. \A b \in Actor : /\ Sends(b) \in {0, 1} /\ Sends(b)' \in {0, 1}
                         /\ Sends(b)' = IF b = a THEN 0 ELSE Sends(b)
    BY <1>p DEF Sends, Types
  <2>2. Sends(a) = 1 BY <1>0 DEF Sends
  <2>3. IsData => a # "ps" BY <1>0 DEF Places
  <2>4. {"stack", "tasklet", "ps"} = Actor BY DEF Actor
  <2>5. IsData' = IsData BY <1>p DEF IsData
  <2> HIDE DEF Sends
  <2>6. CASE ~IsData BY <2>5, <2>6 DEF Room
  <2>7. CASE IsData /\ a = "stack" BY <2>1, <2>2, <2>4, <2>5, <2>7, <1>0, <1>r, SizeAssumption DEF Room, L
  <2>8. CASE IsData /\ a = "tasklet" BY <2>1, <2>2, <2>4, <2>5, <2>8, <1>0, <1>r, SizeAssumption DEF Room, L
  <2> QED BY <2>3, <2>4, <2>6, <2>7, <2>8
<1>5. Placed'
  <2> SUFFICES ASSUME IsData, NEW i \in 1 .. L + 1 PROVE buf'[(idx + i - 1) % Entries] = ring'[i]
    BY <1>p, <1>r DEF Placed, IsData
  <2>1. idx \in Nat /\ idx < Entries BY SizeAssumption DEF Types, Slot
  <2>2. idx + i - 1 \in Int /\ idx + L \in Int /\ (idx + i - 1) % Entries \in Slot
    <3>1. idx + i - 1 \in Int /\ idx + L \in Int BY <2>1, <1>0
    <3> QED BY <3>1, DivMod DEF Slot
  <2>3. CASE i = L + 1
    <3>1. idx + i - 1 = idx + L BY <2>1, <2>3, <1>0
    <3> QED BY <3>1, <2>3, <1>b, <1>r, <1>t
  <2>4. CASE i \in 1 .. L
    <3>1. L < Entries
      <4>1. Sends(a) = 1 /\ a # "ps" BY <1>0 DEF Sends, Places
      <4>2. Sends("stack") \in {0, 1} /\ Sends("tasklet") \in {0, 1} BY DEF Sends
      <4> QED BY <4>1, <4>2, <1>0, SizeAssumption DEF Room, Actor, L
    <3>2. (idx + i - 1) % Entries # TailSlot
      <4> SUFFICES ASSUME (idx + i - 1) % Entries = (idx + L) % Entries PROVE FALSE BY <1>t
      <4>1. (idx + i - 1) - (idx + L) < Entries /\ (idx + L) - (idx + i - 1) < Entries
        BY <2>1, <2>4, <3>1, <1>0, SizeAssumption
      <4>2. idx + i - 1 = idx + L BY <4>1, <2>2, ModInj
      <4> QED BY <4>2, <2>1, <2>4, <1>0
    <3> QED BY <3>2, <2>2, <2>4, <1>b, <1>r DEF Placed, L
  <2> QED BY <2>3, <2>4, <1>0
<1>6. Owned'
  <2> SUFFICES ASSUME resets = 0 PROVE \E m \in 0 .. Entries : OwnsLast(m)' BY <1>0, <1>p DEF Owned
  <2>1. PICK m \in 0 .. Entries : OwnsLast(m) BY DEF Owned
  <2>2. /\ m \in Nat /\ m <= L /\ idx \in Nat /\ hwIdx \in Slot /\ hwIdx \in Nat
        /\ hwIdx = (idx + L - m) % Entries
    BY <2>1, SizeAssumption DEF OwnsLast, Types, Slot, L
  <2>3. ASSUME NEW j \in Int PROVE (hwIdx + j) % Entries = (idx + L - m + j) % Entries
    <3>1. idx + L - m \in Int BY <2>2, <1>0
    <3> QED BY <3>1, <2>2, ModShift
  <2>4. (hwIdx + m) % Entries = TailSlot
    <3>1. idx + L - m + m = idx + L BY <2>2, <1>0
    <3> QED BY <3>1, <2>2, <2>3, <1>t
  <2>5. m < Entries
    <3> SUFFICES ASSUME m = Entries PROVE FALSE BY <2>2, SizeAssumption
    <3>1. 0 \in 0 .. m - 1 BY SizeAssumption
    <3>2. own[(hwIdx + 0) % Entries] BY <3>1, <2>1 DEF OwnsLast
    <3>3. (hwIdx + 0) % Entries = hwIdx BY <2>2, ModSmall DEF Slot
    <3>4. (hwIdx + Entries) % Entries = hwIdx % Entries
      <4>1. Entries = Entries * 1 + 0 /\ 0 \in 0 .. Entries - 1 BY SizeAssumption
      <4>2. Entries % Entries = 0 BY <4>1, SizeAssumption, ModIs
      <4>3. ((Entries % Entries) + hwIdx) % Entries = (Entries + hwIdx) % Entries
        <5>1. Entries \in Int /\ hwIdx \in Int BY <2>2, SizeAssumption
        <5> QED BY <5>1, ModShift
      <4> QED BY <4>2, <4>3, <2>2, SizeAssumption
    <3>5. hwIdx % Entries = hwIdx BY <2>2, ModSmall DEF Slot
    <3> QED BY <3>2, <3>3, <3>4, <3>5, <2>4, <1>0
  <2>6. ASSUME NEW j \in 0 .. m
        PROVE  /\ own'[(hwIdx + j) % Entries]
               /\ buf'[(hwIdx + j) % Entries] = ring'[L + 1 - (m + 1) + j + 1]
    <3>0. j \in Nat /\ (hwIdx + j) % Entries \in Slot BY <2>2, DivMod DEF Slot
    <3>1. CASE j = m
      <4>1. L + 1 - (m + 1) + j + 1 = L + 1 BY <3>1, <2>2, <1>0
      <4> QED BY <4>1, <3>1, <2>4, <1>b, <1>t, <1>r
    <3>2. CASE j \in 0 .. m - 1
      <4>1. L + 1 - (m + 1) + j + 1 = L - m + j + 1 BY <3>2, <2>2, <1>0
      <4>2. L - m + j + 1 \in 1 .. L BY <3>2, <2>2, <1>0
      <4>3. own[(hwIdx + j) % Entries] /\ buf[(hwIdx + j) % Entries] = ring[L - m + j + 1]
        BY <3>2, <2>1 DEF OwnsLast, L
      <4>4. (hwIdx + j) % Entries # TailSlot BY <4>3, <1>0
      <4> QED BY <3>0, <4>1, <4>2, <4>3, <4>4, <1>b, <1>r
    <3> QED BY <3>1, <3>2, <2>2
  <2>7. ASSUME NEW s \in Slot, own'[s] PROVE \E j \in 0 .. m : s = (hwIdx + j) % Entries
    <3>1. CASE s = TailSlot BY <3>1, <2>4, <2>2
    <3>2. CASE own[s]
      <4>1. PICK j \in 0 .. m - 1 : s = (hwIdx + j) % Entries BY <3>2, <2>1 DEF OwnsLast
      <4>2. j \in 0 .. m BY <2>2
      <4> QED BY <4>1, <4>2
    <3> QED BY <3>1, <3>2, <2>7, <1>b
  <2>8. hwIdx = (idx + (L + 1) - (m + 1)) % Entries
    <3>1. idx + (L + 1) - (m + 1) = idx + L - m BY <2>2, <1>0
    <3> QED BY <3>1, <2>2
  <2>9. m + 1 \in 0 .. Entries /\ m + 1 <= L + 1 /\ (m + 1) - 1 = m BY <2>2, <2>5, <1>0, SizeAssumption
  <2>10. OwnsLast(m + 1)'
    <3>1. hwIdx' = hwIdx /\ idx' = idx /\ Len(ring') = L + 1 BY <1>p, <1>r
    <3>2. 0 .. (m + 1) - 1 = 0 .. m BY <2>9
    <3>3. m + 1 <= Len(ring') /\ hwIdx' = (idx' + Len(ring') - (m + 1)) % Entries
      BY <3>1, <2>8, <2>9
    <3>4. \A j \in 0 .. (m + 1) - 1 :
             /\ own'[(hwIdx' + j) % Entries]
             /\ buf'[(hwIdx' + j) % Entries] = ring'[Len(ring') - (m + 1) + j + 1]
      <4> SUFFICES ASSUME NEW j \in 0 .. m
                   PROVE  /\ own'[(hwIdx' + j) % Entries]
                          /\ buf'[(hwIdx' + j) % Entries] = ring'[Len(ring') - (m + 1) + j + 1]
        BY <3>2, Zenon
      <4>1. Len(ring') - (m + 1) + j + 1 = L + 1 - (m + 1) + j + 1 BY <3>1, <1>0, <2>2
      <4>2. hwIdx' + j = hwIdx + j BY <3>1
      <4> QED BY <4>1, <4>2, <2>6, Zenon
    <3>5. \A s \in Slot : own'[s] => \E j \in 0 .. (m + 1) - 1 : s = (hwIdx' + j) % Entries
      BY <3>1, <3>2, <2>7
    <3> QED BY <3>3, <3>4, <3>5, Zenon DEF OwnsLast
  <2> QED BY <2>9, <2>10
<1> QED BY <1>1, <1>2, <1>3, <1>4, <1>5, <1>6

(* The adapter transmits the next descriptor.                              *)
LEMMA HwSendInv == ASSUME Inv, HwSend PROVE Inv'
<1> USE DEF Inv
<1>0. /\ hwIdx \in Slot /\ hwIdx \in Nat /\ idx \in Nat /\ Len(ring) \in Nat
      /\ (hwIdx + 1) % Entries \in Slot /\ buf[hwIdx] \in Frame \cup {None}
  <2>1. hwIdx \in Slot /\ hwIdx \in Nat /\ idx \in Nat BY SizeAssumption DEF Types, Slot
  <2>2. hwIdx + 1 \in Int BY <2>1
  <2> QED BY <2>1, <2>2, DivMod, Elements DEF Types, Slot
<1>p. /\ own[hwIdx] /\ own' = [own EXCEPT ![hwIdx] = FALSE] /\ last' = buf[hwIdx]
      /\ hwIdx' = (hwIdx + 1) % Entries /\ irq' = TRUE
      /\ UNCHANGED <<buf, idx, ring, waitQ, pc, frame, tasklet, polling, up, n, resets, queue, smp>>
  BY DEF HwSend, machine
<1>b. \A s \in Slot : own'[s] = (own[s] /\ s # hwIdx) BY <1>0, <1>p DEF Types
<1>1. Types'
  <2>1. own' \in [Slot -> BOOLEAN] BY <1>p DEF Types
  <2> QED BY <2>1, <1>0, <1>p DEF Types
<1>2. Places' /\ Room' /\ Placed' BY <1>p DEF Places, Room, Sends, Placed, IsData
<1>3. Apart' BY <1>p, ApartSame, Elements
<1>4. Owned'
  <2> SUFFICES ASSUME resets = 0 PROVE \E m \in 0 .. Entries : OwnsLast(m)' BY <1>p DEF Owned, HwSend
  <2> DEFINE L == Len(ring)
  <2>1. PICK m \in 0 .. Entries : OwnsLast(m) BY DEF Owned
  <2>2. m \in Nat /\ m <= Entries /\ m <= L /\ hwIdx = (idx + L - m) % Entries
    BY <2>1, SizeAssumption DEF OwnsLast
  <2>3. m >= 1
    <3>1. PICK j \in 0 .. m - 1 : hwIdx = (hwIdx + j) % Entries BY <1>0, <1>p, <2>1 DEF OwnsLast
    <3> QED BY <3>1, <2>2
  <2>4. ASSUME NEW j \in Int PROVE (hwIdx' + j) % Entries = (hwIdx + (j + 1)) % Entries
    <3>1. hwIdx + 1 \in Int /\ hwIdx + 1 + j = hwIdx + (j + 1) BY <1>0
    <3> QED BY <3>1, <1>p, ModShift
  <2>5. m - 1 \in 0 .. Entries /\ m - 1 <= Len(ring') /\ 0 .. (m - 1) - 1 = 0 .. m - 2
    BY <2>2, <2>3, <1>p, SizeAssumption
  <2>6. hwIdx' = (idx' + Len(ring') - (m - 1)) % Entries
    <3>1. idx + L - m \in Int /\ (idx + L - m) + 1 = idx + L - (m - 1) BY <2>2, <1>0
    <3> QED BY <3>1, <1>p, <2>2, ModShift
  <2>7. \A j \in 0 .. (m - 1) - 1 :
           /\ own'[(hwIdx' + j) % Entries]
           /\ buf'[(hwIdx' + j) % Entries] = ring'[Len(ring') - (m - 1) + j + 1]
    <3> SUFFICES ASSUME NEW j \in 0 .. m - 2
                 PROVE  /\ own'[(hwIdx' + j) % Entries]
                        /\ buf'[(hwIdx' + j) % Entries] = ring'[Len(ring') - (m - 1) + j + 1]
      BY <2>5, Zenon
    <3>1. j \in Nat /\ j + 1 \in 0 .. m - 1 /\ hwIdx + (j + 1) \in Int BY <2>2, <2>3, <1>0
    <3>2. own[(hwIdx + (j + 1)) % Entries] /\ buf[(hwIdx + (j + 1)) % Entries] = ring[L - m + (j + 1) + 1]
      BY <3>1, <2>1 DEF OwnsLast
    <3>3. L - m + (j + 1) + 1 = Len(ring') - (m - 1) + j + 1 BY <3>1, <2>2, <1>0, <1>p
    <3>4. (hwIdx + (j + 1)) % Entries \in Slot BY <3>1, DivMod DEF Slot
    <3>5. (hwIdx + (j + 1)) % Entries # hwIdx
      <4> SUFFICES ASSUME (hwIdx + (j + 1)) % Entries = hwIdx PROVE FALSE OBVIOUS
      <4>1. hwIdx % Entries = hwIdx BY <1>0, ModSmall DEF Slot
      <4>0. j + 1 < Entries /\ 0 < j + 1 BY <3>1, <2>2, SizeAssumption
      <4>2. hwIdx + (j + 1) - hwIdx = j + 1 /\ hwIdx - (hwIdx + (j + 1)) = 0 - (j + 1)
        BY <3>1, <1>0
      <4>3. hwIdx + (j + 1) - hwIdx < Entries /\ hwIdx - (hwIdx + (j + 1)) < Entries
        BY <4>0, <4>2, <3>1, SizeAssumption
      <4>4. hwIdx + (j + 1) = hwIdx BY <4>1, <4>3, <3>1, <1>0, ModInj
      <4> QED BY <4>4, <3>1, <1>0
    <3>6. (hwIdx' + j) % Entries = (hwIdx + (j + 1)) % Entries BY <2>4, <3>1
    <3>7. own'[(hwIdx + (j + 1)) % Entries] BY <3>2, <3>4, <3>5, <1>b
    <3>8. buf' = buf /\ ring' = ring BY <1>p
    <3> QED BY <3>2, <3>3, <3>6, <3>7, <3>8, Zenon
  <2>8. \A s \in Slot : own'[s] => \E j \in 0 .. (m - 1) - 1 : s = (hwIdx' + j) % Entries
    <3> SUFFICES ASSUME NEW s \in Slot, own'[s] PROVE \E j \in 0 .. m - 2 : s = (hwIdx' + j) % Entries
      BY <2>5, Zenon
    <3>1. own[s] /\ s # hwIdx BY <1>b
    <3>2. PICK j \in 0 .. m - 1 : s = (hwIdx + j) % Entries BY <3>1, <2>1 DEF OwnsLast
    <3>3. j # 0
      <4>1. (hwIdx + 0) % Entries = hwIdx BY <1>0, ModSmall DEF Slot
      <4> QED BY <4>1, <3>1, <3>2
    <3>4. j - 1 \in 0 .. m - 2 /\ j - 1 \in Int /\ (j - 1) + 1 = j BY <3>3, <2>2
    <3>5. s = (hwIdx' + (j - 1)) % Entries BY <3>2, <3>4, <2>4
    <3> QED BY <3>4, <3>5
  <2>9. OwnsLast(m - 1)' BY <2>5, <2>6, <2>7, <2>8, Zenon DEF OwnsLast
  <2> QED BY <2>5, <2>9
<1> QED BY <1>1, <1>2, <1>3, <1>4

(* The loop of rtl8192_tx_isr ends: there is a first descriptor it leaves. *)
LEMMA ReapedIs ==
    ASSUME Types
    PROVE  /\ Reaped \in 0 .. Len(ring) /\ Done(Reaped)
           /\ \A m \in Reaped + 1 .. Len(ring) : ~Done(m)
<1> DEFINE L == Len(ring)  T == {x \in 0 .. L : Done(L - x)}
<1>1. L \in Nat BY Elements
<1>2. L \in T
  <2>1. L - L = 0 BY <1>1
  <2>2. Done(0) BY DEF Done
  <2> QED BY <1>1, <2>1, <2>2
<1>3. T \in SUBSET Nat OBVIOUS
<1>4. PICK x \in T : \A y \in T : x <= y BY <1>2, <1>3, NatMin
<1>5. L - x \in 0 .. L /\ Done(L - x) BY <1>1, <1>4
<1>6. ASSUME NEW m \in (L - x) + 1 .. L PROVE ~Done(m)
  <2>1. L - m \in 0 .. L /\ ~(x <= L - m) /\ L - (L - m) = m BY <1>1
  <2>2. L - m \notin T BY <1>4, <2>1
  <2> QED BY <2>1, <2>2
<1>7. \E k \in 0 .. L : Done(k) /\ \A m \in k + 1 .. L : ~Done(m) BY <1>5, <1>6
<1> QED BY <1>7, Zenon DEF Reaped

(* What is left of the ring when k frames are reaped.                      *)
LEMMA ReapedSeq ==
    ASSUME Types, NEW k \in 0 .. Len(ring), ring' = SubSeq(ring, k + 1, Len(ring))
    PROVE  /\ ring' \in Seq(Frame) /\ Len(ring') = Len(ring) - k
           /\ \A i \in 1 .. Len(ring') : k + i \in 1 .. Len(ring) /\ ring'[i] = ring[k + i]
<1> DEFINE L == Len(ring)
<1>0. L \in Nat /\ k \in Nat /\ k <= L BY Elements
<1>1. k + 1 \in Int /\ L \in Int /\ \A i \in k + 1 .. L : ring[i] \in Frame BY <1>0, Elements
<1> HIDE DEF L
<1>2. /\ SubSeq(ring, k + 1, L) \in Seq(Frame)
      /\ Len(SubSeq(ring, k + 1, L)) = IF k + 1 <= L THEN L - (k + 1) + 1 ELSE 0
      /\ \A i \in 1 .. L - (k + 1) + 1 : SubSeq(ring, k + 1, L)[i] = ring[(k + 1) + i - 1]
  BY <1>1, SubSeqProperties
<1>3. L - (k + 1) + 1 = L - k /\ (~(k + 1 <= L) => L - k = 0) BY <1>0
<1>4. Len(ring') = L - k BY <1>2, <1>3 DEF L
<1>5. ASSUME NEW i \in 1 .. L - k PROVE k + i \in 1 .. L /\ ring'[i] = ring[k + i]
  <2>1. (k + 1) + i - 1 = k + i /\ k + i \in 1 .. L BY <1>0
  <2>2. ring'[i] = ring[(k + 1) + i - 1] BY <1>2, <1>3 DEF L
  <2> QED BY <2>1, <2>2
<1> QED BY <1>2, <1>4, <1>5 DEF L

(* The interrupt reaps the ring.                                           *)
LEMMA InterruptInv == ASSUME Inv, rtl8192_interrupt PROVE Inv'
<1> USE DEF Inv
<1> DEFINE L == Len(ring)  k == Reaped
<1>k. k \in 0 .. L /\ Done(k) BY ReapedIs
<1>0. idx \in Nat /\ L \in Nat /\ k \in Nat /\ k <= L /\ ring \in Seq(Frame) /\ hwIdx \in Slot
  BY <1>k, Elements, SizeAssumption DEF Types, Slot
<1>p. /\ idx' = (idx + k) % Entries /\ ring' = SubSeq(ring, k + 1, L) /\ irq' = FALSE
      /\ tasklet' = (tasklet \/ k = L)
      /\ UNCHANGED <<own, buf, hwIdx, polling, last, waitQ, pc, frame, up, n, resets, queue, smp>>
  BY DEF rtl8192_interrupt, machine
<1> HIDE DEF k
<1>r. /\ ring' \in Seq(Frame) /\ Len(ring') = L - k
      /\ \A i \in 1 .. Len(ring') : k + i \in 1 .. L /\ ring'[i] = ring[k + i]
  BY <1>k, <1>p, ReapedSeq
<1>e. \A i \in 1 .. Len(ring') : k + i \in 1 .. L /\ ring'[i] = ring[k + i] BY <1>r
<1>s. ASSUME NEW y \in Int PROVE (idx' + y) % Entries = (idx + k + y) % Entries
  <2>1. idx + k \in Int BY <1>0
  <2> QED BY <2>1, <1>p, ModShift
<1>1. Types'
  <2>1. idx + k \in Int BY <1>0
  <2>2. idx' \in Slot BY <2>1, <1>p, DivMod DEF Slot
  <2>3. {tasklet', polling', irq', up'} \subseteq BOOLEAN BY <1>p DEF Types
  <2> QED BY <2>2, <2>3, <1>p, <1>r DEF Types
<1>2. Places' BY <1>p DEF Places, IsData
<1> HIDE DEF L
<1>3. Apart'
  <2>1. \A i \in 1 .. Len(ring') : ring'[i] <= n BY <1>e DEF Apart, L
  <2>2. \A i, j \in 1 .. Len(ring') : ring'[i] = ring'[j] => i = j
    <3> SUFFICES ASSUME NEW i \in 1 .. Len(ring'), NEW j \in 1 .. Len(ring'), ring'[i] = ring'[j] PROVE i = j
      OBVIOUS
    <3>1. k + i = k + j BY <1>e DEF Apart, L
    <3> QED BY <3>1, <1>0, <1>r
  <2>3. \A i \in 1 .. Len(ring'), j \in 1 .. Len(waitQ) : ring'[i] # waitQ[j] BY <1>e DEF Apart, L
  <2>4. \A a \in Actor, i \in 1 .. Len(ring') : ring'[i] # frame[a] BY <1>e DEF Apart, L
  <2>5. Apart /\ UNCHANGED <<waitQ, frame, n>> BY <1>p
  <2> QED BY ONLY <2>1, <2>2, <2>3, <2>4, <2>5 DEF Apart
<1>4. Room'
  <2>1. Sends("stack") \in {0, 1} /\ Sends("tasklet") \in {0, 1} BY DEF Sends
  <2>2. \A a : Sends(a)' = Sends(a) BY <1>p DEF Sends
  <2>3. IsData' = IsData BY <1>p DEF IsData
  <2> QED BY <2>1, <2>2, <2>3, <1>0, <1>r, SizeAssumption DEF Room, L
<1>5. Placed'
  <2> SUFFICES ASSUME IsData, NEW i \in 1 .. Len(ring') PROVE buf[(idx' + i - 1) % Entries] = ring'[i]
    BY <1>p DEF Placed, IsData
  <2>0. idx' \in Nat BY <1>1, SizeAssumption DEF Types, Slot
  <2>1. i \in Nat /\ i - 1 \in Int /\ idx' + i - 1 = idx' + (i - 1) /\ idx + k + (i - 1) = idx + (k + i) - 1
    BY <1>0, <1>r, <2>0
  <2>2. (idx' + i - 1) % Entries = (idx + (k + i) - 1) % Entries BY <2>1, <1>s
  <2>3. buf[(idx + (k + i) - 1) % Entries] = ring[k + i] BY <1>e DEF Placed, L
  <2> QED BY <2>2, <2>3, <1>e
<1>6. Owned'
  <2> SUFFICES ASSUME resets = 0 PROVE \E m \in 0 .. Entries : OwnsLast(m)' BY <1>p DEF Owned
  <2>1. PICK m \in 0 .. Entries : OwnsLast(m) BY DEF Owned
  <2>2. m \in Nat /\ m <= L /\ hwIdx = (idx + L - m) % Entries BY <2>1, SizeAssumption DEF OwnsLast, L
  <2>3. k <= L - m
    <3> SUFFICES ASSUME k > L - m PROVE FALSE BY <1>0, <2>2
    <3>1. 0 \in 0 .. m - 1 /\ L - m \in 0 .. k - 1 BY <1>0, <2>2
    <3>2. own[(hwIdx + 0) % Entries] BY <3>1, <2>1 DEF OwnsLast
    <3>3. (hwIdx + 0) % Entries = hwIdx BY <1>0, SizeAssumption, ModSmall DEF Slot
    <3>4. ~own[(idx + (L - m)) % Entries] BY <3>1, <1>k DEF Done
    <3>5. idx + (L - m) = idx + L - m BY <1>0, <2>2
    <3> QED BY <3>2, <3>3, <3>4, <3>5, <2>2
  <2>4. m <= Len(ring') BY <2>2, <2>3, <1>0, <1>r
  <2>5. hwIdx' = (idx' + Len(ring') - m) % Entries
    <3>0. idx' \in Nat BY <1>1, SizeAssumption DEF Types, Slot
    <3>1. /\ L - k - m \in Int /\ idx' + Len(ring') - m = idx' + (L - k - m)
          /\ idx + k + (L - k - m) = idx + L - m
      BY <3>0, <2>2, <1>0, <1>r
    <3>2. (idx' + (L - k - m)) % Entries = (idx + L - m) % Entries BY <3>1, <1>s
    <3> QED BY <3>1, <3>2, <2>2, <1>p
  <2>6. \A j \in 0 .. m - 1 :
           /\ own'[(hwIdx' + j) % Entries]
           /\ buf'[(hwIdx' + j) % Entries] = ring'[Len(ring') - m + j + 1]
    <3> SUFFICES ASSUME NEW j \in 0 .. m - 1
                 PROVE  /\ own[(hwIdx + j) % Entries]
                        /\ buf[(hwIdx + j) % Entries] = ring'[Len(ring') - m + j + 1]
      BY <1>p
    <3>1. own[(hwIdx + j) % Entries] /\ buf[(hwIdx + j) % Entries] = ring[L - m + j + 1]
      BY <2>1 DEF OwnsLast, L
    <3>2. /\ Len(ring') - m + j + 1 \in 1 .. Len(ring')
          /\ k + (Len(ring') - m + j + 1) = L - m + j + 1
      BY <2>2, <2>4, <1>0, <1>r
    <3> QED BY <3>1, <3>2, <1>e
  <2>7. \A s \in Slot : own'[s] => \E j \in 0 .. m - 1 : s = (hwIdx' + j) % Entries
    BY <2>1, <1>p DEF OwnsLast
  <2>8. OwnsLast(m)' BY <2>4, <2>5, <2>6, <2>7, Zenon DEF OwnsLast
  <2> QED BY <2>8
<1> QED BY <1>1, <1>2, <1>3, <1>4, <1>5, <1>6

(* The adapter rests; another queue's interrupt; the tasklet starts.       *)
LEMMA QuietInv == ASSUME Inv, HwIdle \/ OtherQueueDone \/ TaskletStarts PROVE Inv'
<1> USE SizeAssumption, BoundAssumption
     DEF Inv, HwIdle, OtherQueueDone, TaskletStarts, Goto, ringVars, hwVars, machine
<1>1. Types'
  <2>1. UNCHANGED <<own, buf, idx, hwIdx, ring, waitQ, up, n, last, resets, queue, smp, irq>>
    OBVIOUS
  <2>2. pc' = pc \/ pc' = [pc EXCEPT !["tasklet"] = "resume"]
    OBVIOUS
  <2>3. frame' = frame \/ frame' = [frame EXCEPT !["tasklet"] = None]
    OBVIOUS
  <2>4. polling' \in BOOLEAN /\ tasklet' \in BOOLEAN
    BY DEF Types
  <2>5. Types
    OBVIOUS
  <2>6. pc' \in [Actor -> {"idle", "wait", "send", "poll", "resume"}]
    BY ONLY <2>2, <2>5 DEF Types, Actor
  <2>7. frame' \in [Actor -> Frame \cup {None}]
    BY ONLY <2>3, <2>5 DEF Types
  <2> QED BY ONLY <2>1, <2>4, <2>5, <2>6, <2>7 DEF Types, Slot
<1>2. Places' BY DEF Places, Types, Actor, None, IsData, Frame, MayRun
<1>3. Apart'
  <2>1. CASE HwIdle \/ OtherQueueDone BY <2>1, ApartSame, Elements
  <2>2. CASE TaskletStarts BY <2>2, ApartLess DEF Actor
  <2> QED BY <2>1, <2>2
<1>4. Room' BY DEF Room, Sends, Types, Actor, IsData
<1>5. Placed' /\ Owned' BY RingKept
<1> QED BY <1>1, <1>2, <1>3, <1>4, <1>5

(* The tasklet takes a waiting frame, or ends.                             *)
LEMMA ResumeInv == ASSUME Inv, rtl8192_tx_resume PROVE Inv'
<1> USE DEF Inv
<1>p. pc["tasklet"] = "resume" /\ UNCHANGED <<own, buf, idx, ring, hwIdx, polling, irq, last, tasklet, up, n, resets, queue, smp>>
  BY DEF rtl8192_tx_resume, ringVars, hwVars, machine
<1>5. Placed' /\ Owned' BY <1>p, RingKept
<1>6. CASE IsData /\ waitQ # <<>> /\ EnoughDesc
  <2>1. waitQ' = Tail(waitQ) /\ pc' = [pc EXCEPT !["tasklet"] = "send"] /\ frame' = [frame EXCEPT !["tasklet"] = Head(waitQ)]
    BY <1>6 DEF rtl8192_tx_resume, Goto
  <2>2. waitQ \in Seq(Frame) BY DEF Types
  <2>3. /\ Head(waitQ) \in Frame /\ waitQ' \in Seq(Frame) /\ Len(waitQ') = Len(waitQ) - 1
        /\ \A i \in 1 .. Len(waitQ') : waitQ'[i] = waitQ[i + 1]
    BY <1>6, <2>1, <2>2, HeadTailProperties
  <2>4. Head(waitQ) = waitQ[1] /\ Len(waitQ) \in Nat \ {0} BY <1>6, <2>2, EmptySeq
  <2> DEFINE h == waitQ[1]
  <2>5. h \in Frame /\ h \in Nat \ {0} /\ h <= n /\ n \in Nat BY <2>3, <2>4, Elements DEF Apart
  <2>6. \A b \in Actor : frame'[b] = IF b = "tasklet" THEN h ELSE frame[b] BY <2>1, <2>4 DEF Types
  <2>7. \A i \in 1 .. Len(waitQ') : i + 1 \in 1 .. Len(waitQ) /\ i + 1 # 1 /\ waitQ'[i] = waitQ[i + 1]
    BY <2>3, <2>4
  <2>8. Types'
    <3>1. pc' \in [Actor -> {"idle", "wait", "send", "poll", "resume"}] BY <2>1 DEF Types
    <3>2. frame' \in [Actor -> Frame \cup {None}] BY <2>1, <2>3 DEF Types
    <3> QED BY <3>1, <3>2, <2>3, <1>p DEF Types
  <2>9. Places'
    <3>1. h # None BY <2>5 DEF None
    <3> QED BY <2>1, <2>6, <3>1, <1>p DEF Places, Types, IsData, Actor, MayRun, rtl8192_tx_resume
  <2> HIDE DEF h
  <2>10. Apart'
    <3>0. 1 \in 1 .. Len(waitQ) /\ h = waitQ[1] BY <2>4 DEF h
    <3>1. \A i \in 1 .. Len(waitQ') : waitQ'[i] # h /\ waitQ'[i] <= n BY <3>0, <2>7 DEF Apart
    <3>2. \A i \in 1 .. Len(ring) : ring[i] # h BY <3>0 DEF Apart
    <3>3. \A b \in Actor : frame[b] # h BY <3>0 DEF Apart
    <3>4. \A i, j \in 1 .. Len(waitQ') : waitQ'[i] = waitQ'[j] => i = j
      <4> SUFFICES ASSUME NEW i \in 1 .. Len(waitQ'), NEW j \in 1 .. Len(waitQ'), waitQ'[i] = waitQ'[j]
                   PROVE  i = j
        OBVIOUS
      <4>1. i + 1 = j + 1 BY <2>7 DEF Apart
      <4> QED BY <4>1
    <3>5. \A i \in 1 .. Len(ring), j \in 1 .. Len(waitQ') : ring[i] # waitQ'[j] BY <2>7 DEF Apart
    <3>6. \A b \in Actor, i \in 1 .. Len(waitQ') : waitQ'[i] # frame'[b]
      BY <2>6, <2>7, <3>1 DEF Apart
    <3>7. \A b \in Actor : frame'[b] <= n /\ \A i \in 1 .. Len(ring) : ring[i] # frame'[b]
      BY <2>5, <2>6, <3>2 DEF Apart
    <3>8. \A b, c \in Actor : frame'[b] = frame'[c] /\ frame'[b] # None => b = c
      BY <2>6, <3>3 DEF Apart
    <3> QED BY <1>p, <3>1, <3>4, <3>5, <3>6, <3>7, <3>8 DEF Apart
  <2>11. Room'
    <3>1. Sends("stack")' = Sends("stack") /\ Sends("stack") \in {0, 1} /\ Sends("tasklet")' = 1
      BY <2>1 DEF Sends, Types, Actor
    <3>2. Entries - Len(ring) >= 2 BY <1>6 DEF EnoughDesc
    <3> QED BY <3>1, <3>2, <1>p, Elements, SizeAssumption DEF Room
  <2> QED BY <2>8, <2>9, <2>10, <2>11, <1>5
<1>7. CASE ~(IsData /\ waitQ # <<>> /\ EnoughDesc)
  <2>1. waitQ' = waitQ /\ pc' = [pc EXCEPT !["tasklet"] = "idle"] /\ frame' = [frame EXCEPT !["tasklet"] = None]
    BY <1>7 DEF rtl8192_tx_resume, Goto
  <2>2. Types' BY <1>p, <2>1 DEF Types, Slot, Frame, Actor, None
  <2>3. Places' BY <1>p, <2>1 DEF Places, Types, Actor, None, IsData, Frame
  <2>4. Apart' BY <1>p, <2>1, ApartLess DEF Actor
  <2>5. Room' BY <1>p, <2>1 DEF Room, Sends, Types, Actor, IsData
  <2> QED BY <2>2, <2>3, <2>4, <2>5, <1>5
<1> QED BY <1>6, <1>7

(* The adapter is stopped, and started again with an empty ring.           *)
LEMMA DownInv == ASSUME Inv, Down PROVE Inv'
<1> USE DEF Inv, Down, ringVars, machine
<1>1. Types'
  <2>1. waitQ' \in Seq(Frame) BY EmptySeq
  <2>2. resets' \in 0 .. MaxResets BY BoundAssumption DEF Types
  <2>3. {tasklet', polling', irq', up'} \subseteq BOOLEAN BY DEF Types
  <2> QED BY <2>1, <2>2, <2>3 DEF Types
<1>2. Places' /\ Room' /\ Placed' BY DEF Places, Room, Sends, Placed, IsData
<1>3. Apart' BY DEF Apart
<1>4. Owned'
  <2>1. resets' # 0 BY BoundAssumption DEF Types
  <2> QED BY <2>1 DEF Owned
<1> QED BY <1>1, <1>2, <1>3, <1>4

LEMMA UpInv == ASSUME Inv, Up PROVE Inv'
<1> USE DEF Inv, Up, machine
<1>1. Types'
  <2>1. ring' \in Seq(Frame) BY EmptySeq
  <2>2. 0 \in Slot BY SizeAssumption DEF Slot
  <2>3. {tasklet', polling', irq', up'} \subseteq BOOLEAN BY DEF Types
  <2> QED BY <2>1, <2>2, <2>3 DEF Types
<1>2. Places' /\ Placed' BY DEF Places, Placed, IsData
<1>3. Apart' BY DEF Apart
<1>4. Room'
  <2>1. \A a : Sends(a)' \in {0, 1} BY DEF Sends
  <2>2. Len(ring') = 0 OBVIOUS
  <2> QED BY <2>1, <2>2, SizeAssumption DEF Room
<1>5. Owned' BY DEF Owned
<1> QED BY <1>1, <1>2, <1>3, <1>4, <1>5

LEMMA StutterInv == ASSUME Inv, UNCHANGED vars PROVE Inv'
<1> USE DEF vars, machine
<1>1. Types' /\ Places' BY DEF Inv, Types, Places, IsData
<1>2. Apart' BY ApartSame, Elements DEF Inv
<1>3. Room' BY DEF Inv, Room, Sends, IsData
<1>4. Placed' /\ Owned' BY RingKept
<1> QED BY <1>1, <1>2, <1>3, <1>4 DEF Inv

LEMMA NextInv == Inv /\ [Next]_vars => Inv'
<1> SUFFICES ASSUME Inv, [Next]_vars PROVE Inv' OBVIOUS
<1>1. CASE XmitStart BY <1>1, XmitStartInv
<1>2. CASE XmitWait BY <1>2, XmitWaitInv
<1>3. CASE PsXmit BY <1>3, PsXmitInv
<1>4. ASSUME NEW a \in Actor, rtl8192_tx(a) PROVE Inv'
  BY <1>4, TxDropsInv, TxQueuesInv DEF rtl8192_tx
<1>5. ASSUME NEW a \in Actor, Poll(a) PROVE Inv' BY <1>5, PollInv
<1>t. CASE \E a \in Actor : rtl8192_tx(a) \/ Poll(a) BY <1>t, <1>4, <1>5
<1>6. CASE HwSend BY <1>6, HwSendInv
<1>7. CASE HwIdle \/ OtherQueueDone \/ TaskletStarts BY <1>7, QuietInv
<1>8. CASE rtl8192_interrupt BY <1>8, InterruptInv
<1>9. CASE rtl8192_tx_resume BY <1>9, ResumeInv
<1>10. CASE Down BY <1>10, DownInv
<1>11. CASE Up BY <1>11, UpInv
<1>12. CASE UNCHANGED vars BY <1>12, StutterInv
<1>13. Next \/ UNCHANGED vars OBVIOUS
<1> QED BY <1>1, <1>2, <1>3, <1>t, <1>6, <1>7, <1>8, <1>9, <1>10, <1>11, <1>12, <1>13 DEF Next, Tasklet

(* What the invariant says of the ring.                                    *)
LEMMA InvSound == Inv => RingSound
<1> SUFFICES ASSUME Inv PROVE RingSound OBVIOUS
<1> USE DEF Inv
<1>0. Len(ring) \in Nat /\ Len(waitQ) \in Nat /\ idx \in Nat /\ hwIdx \in Nat
  BY Elements, SizeAssumption DEF Types, Slot
<1>1. TypeOK
  <2>1. ring \in Seq(Frame) /\ waitQ \in Seq(Frame) BY DEF Types
  <2> DEFINE q == ring \o waitQ
  <2>2. /\ q \in Seq(Frame) /\ Len(q) = Len(ring) + Len(waitQ)
        /\ \A i \in 1 .. Len(ring) + Len(waitQ) : q[i] = IF i <= Len(ring) THEN ring[i] ELSE waitQ[i - Len(ring)]
    BY <2>1, ConcatProperties
  <2>3. DOMAIN q = 1 .. Len(ring) + Len(waitQ) BY <2>2, LenProperties
  <2> HIDE DEF q
  <2>4. ASSUME NEW i \in DOMAIN q, NEW j \in DOMAIN q, q[i] = q[j] PROVE i = j
    <3>1. i \in 1 .. Len(ring) + Len(waitQ) /\ j \in 1 .. Len(ring) + Len(waitQ) BY <2>3
    <3>2. CASE i <= Len(ring) /\ j <= Len(ring)
      <4>1. i \in 1 .. Len(ring) /\ j \in 1 .. Len(ring) BY <3>1, <3>2, <1>0
      <4>2. q[i] = ring[i] /\ q[j] = ring[j] BY <3>1, <3>2, <2>2
      <4> QED BY <4>1, <4>2, <2>4 DEF Apart
    <3>3. CASE i > Len(ring) /\ j > Len(ring)
      <4>1. i - Len(ring) \in 1 .. Len(waitQ) /\ j - Len(ring) \in 1 .. Len(waitQ) BY <3>1, <3>3, <1>0
      <4>2. q[i] = waitQ[i - Len(ring)] /\ q[j] = waitQ[j - Len(ring)] BY <3>1, <3>3, <2>2, <1>0
      <4>3. i - Len(ring) = j - Len(ring) BY <4>1, <4>2, <2>4 DEF Apart
      <4> QED BY <4>3, <3>1, <1>0
    <3>4. CASE i <= Len(ring) /\ j > Len(ring)
      <4>1. i \in 1 .. Len(ring) /\ j - Len(ring) \in 1 .. Len(waitQ) BY <3>1, <3>4, <1>0
      <4>2. q[i] = ring[i] /\ q[j] = waitQ[j - Len(ring)] BY <3>1, <3>4, <2>2, <1>0
      <4> QED BY <4>1, <4>2, <2>4 DEF Apart
    <3>5. CASE i > Len(ring) /\ j <= Len(ring)
      <4>1. j \in 1 .. Len(ring) /\ i - Len(ring) \in 1 .. Len(waitQ) BY <3>1, <3>5, <1>0
      <4>2. q[j] = ring[j] /\ q[i] = waitQ[i - Len(ring)] BY <3>1, <3>5, <2>2, <1>0
      <4> QED BY <4>1, <4>2, <2>4 DEF Apart
    <3> QED BY <3>1, <3>2, <3>3, <3>4, <3>5, <1>0
  <2>5. IsInjective(q) BY <2>4 DEF IsInjective
  <2> QED BY <2>5 DEF TypeOK, Types, q
<1>2. DmaSafe
  <2> SUFFICES ASSUME resets = 0, NEW s \in Slot, own[s] PROVE \E i \in 1 .. Len(ring) : ring[i] = buf[s]
    BY DEF DmaSafe
  <2>1. PICK m \in 0 .. Entries : OwnsLast(m) BY DEF Owned
  <2>2. PICK j \in 0 .. m - 1 : s = (hwIdx + j) % Entries BY <2>1 DEF OwnsLast
  <2>3. buf[s] = ring[Len(ring) - m + j + 1] BY <2>1, <2>2 DEF OwnsLast
  <2>4. m \in Nat /\ m <= Len(ring) BY <2>1, SizeAssumption DEF OwnsLast
  <2>5. Len(ring) - m + j + 1 \in 1 .. Len(ring) BY <2>2, <2>4, <1>0
  <2> QED BY <2>3, <2>5
<1>3. RingFits
  <2>1. IsData => Len(ring) <= Entries
    <3>1. Sends("stack") \in {0, 1} /\ Sends("tasklet") \in {0, 1} BY DEF Sends
    <3> QED BY <3>1, <1>0, SizeAssumption DEF Room
  <2> QED BY <2>1 DEF RingFits, Placed
<1>4. DataNeverDropped
  <2> SUFFICES ASSUME IsData, resets = 0, NEW a \in Actor, pc[a] = "send", up, own[TailSlot] PROVE FALSE
    BY DEF DataNeverDropped
  <2> DEFINE L == Len(ring)
  <2>1. L < Entries
    <3>1. Sends(a) = 1 /\ a # "ps" BY DEF Sends, Places
    <3>2. Sends("stack") \in {0, 1} /\ Sends("tasklet") \in {0, 1} BY DEF Sends
    <3> QED BY <3>1, <3>2, <1>0, SizeAssumption DEF Room, Actor
  <2>2. PICK m \in 0 .. Entries : OwnsLast(m) BY DEF Owned
  <2>3. m \in Nat /\ m <= L /\ hwIdx = (idx + L - m) % Entries BY <2>2, SizeAssumption DEF OwnsLast
  <2>4. TailSlot \in Slot /\ TailSlot = (idx + L) % Entries
    <3>1. idx + L \in Int BY <1>0
    <3> QED BY <3>1, DivMod DEF TailSlot, Slot
  <2>5. PICK j \in 0 .. m - 1 : TailSlot = (hwIdx + j) % Entries BY <2>2, <2>4 DEF OwnsLast
  <2>6. (hwIdx + j) % Entries = (idx + L - m + j) % Entries
    <3>1. idx + L - m \in Int /\ j \in Int BY <1>0, <2>3
    <3> QED BY <3>1, <2>3, ModShift
  <2>7. /\ idx + L - m + j \in Int /\ idx + L \in Int
        /\ (idx + L - m + j) - (idx + L) < Entries /\ (idx + L) - (idx + L - m + j) < Entries
    BY <1>0, <2>1, <2>3, SizeAssumption
  <2>8. idx + L - m + j = idx + L BY <2>4, <2>5, <2>6, <2>7, ModInj
  <2> QED BY <2>8, <2>3, <1>0
<1> QED BY <1>1, <1>2, <1>3, <1>4 DEF RingSound

(* For every ring of at least two descriptors, on every machine and every  *)
(* queue: descriptors the adapter owns name live buffers until the first   *)
(* restart, the ring of a data queue never overflows although the test for *)
(* room is not under a lock, and no data frame is dropped for want of a    *)
(* descriptor (rtl8192_tx, rtl8192_tx_isr, check_nic_enough_desc).         *)
THEOREM RingIsSound == Spec => []RingSound
<1>1. Init => Inv BY InitInv
<1>2. Inv /\ [Next]_vars => Inv' BY NextInv
<1>3. Inv => RingSound BY InvSound
<1> QED BY <1>1, <1>2, <1>3, PTL DEF Spec

-----------------------------------------------------------------------------
(* Frames are handed on in order: InTurn, given Inv, is inductive too.     *)

(* Steps that leave the frames where they are, or free one.                *)
LEMMA TurnKept ==
    ASSUME Inv, InTurn, UNCHANGED <<own, idx, ring, waitQ, last, queue, smp>>, n' = n,
           resets' = 0 => resets = 0,
           \A a \in Actor : frame'[a] = frame[a] \/ frame'[a] = None,
           pc'["stack"] = "send" => pc["stack"] = "send"
    PROVE  InTurn'
<1> SUFFICES ASSUME ~smp, IsData, resets = 0 PROVE InTurn' BY DEF InTurn, IsData
<1>1. \A a \in Actor : frame'[a] # None => frame'[a] = frame[a] OBVIOUS
<1>2. "stack" \in Actor /\ "tasklet" \in Actor BY DEF Actor
<1> QED BY <1>1, <1>2 DEF InTurn, IsData

LEMMA XmitStartTurn == ASSUME Inv, InTurn, XmitStart PROVE InTurn'
<1> SUFFICES ASSUME ~smp, IsData, resets = 0 PROVE InTurn' BY DEF InTurn, IsData, XmitStart, machine
<1>0. n' = n + 1 /\ n \in Nat /\ last \in Nat /\ pc["tasklet"] = "idle" /\ pc["ps"] = "idle"
      /\ UNCHANGED <<own, buf, idx, ring, waitQ, last, queue, smp, resets>>
  <2>1. last \in Nat BY BoundAssumption DEF Inv, Types, Frame, None
  <2> QED BY <2>1, Elements DEF Inv, Places, XmitStart, MayRun, ringVars, hwVars, machine
<1>1. CASE UNCHANGED <<pc, frame>> BY <1>0, <1>1 DEF InTurn, IsData
<1>2. CASE \E p \in {"send", "wait"} : Goto("stack", p, n + 1) /\ (p = "send" => waitQ = <<>>)
  <2>1. PICK p \in {"send", "wait"} : Goto("stack", p, n + 1) /\ (p = "send" => waitQ = <<>>) BY <1>2
  <2>2. frame'["stack"] = n + 1 /\ pc'["stack"] = p BY <2>1 DEF Goto, Inv, Types, Actor
  <2>3. frame["tasklet"] = None /\ frame["ps"] = None BY <1>0 DEF Inv, Places, Actor
  <2>4. frame'["tasklet"] = None /\ frame'["ps"] = None BY <2>1, <2>3 DEF Goto, Inv, Types, Actor
  <2>5. \A i \in 1 .. Len(ring) : ring[i] < n + 1 BY <1>0, Elements DEF Inv, Apart
  <2>6. \A i \in 1 .. Len(waitQ) : waitQ[i] < n + 1 BY <1>0, Elements DEF Inv, Apart
  <2>7. last <= n /\ last < n + 1 /\ last <= n + 1 BY <1>0 DEF InTurn
  <2>8. \A a \in Actor : frame'[a] # None => a = "stack" BY <2>4 DEF Actor
  <2> QED BY <1>0, <2>1, <2>2, <2>4, <2>5, <2>6, <2>7, <2>8 DEF InTurn, IsData
<1> QED BY <1>1, <1>2 DEF XmitStart, MustWait

LEMMA XmitWaitTurn == ASSUME Inv, InTurn, XmitWait PROVE InTurn'
<1> SUFFICES ASSUME ~smp, IsData, resets = 0 PROVE InTurn'
  BY DEF InTurn, IsData, XmitWait, machine
<1> DEFINE f == frame["stack"]
<1>0. /\ pc["stack"] = "wait" /\ waitQ' = Append(waitQ, f)
      /\ UNCHANGED <<own, buf, idx, ring, last, n, queue, smp, resets>>
      /\ pc' = [pc EXCEPT !["stack"] = "idle"] /\ frame' = [frame EXCEPT !["stack"] = None]
  BY DEF XmitWait, Goto, ringVars, hwVars, machine
<1>1. waitQ \in Seq(Frame) /\ f \in Frame /\ f # None BY <1>0 DEF Inv, Types, Places, Actor, None
<1>2. \A a \in Actor : frame'[a] = None
  <2>1. pc["tasklet"] = "idle" /\ pc["ps"] = "idle" BY <1>0 DEF Inv, Places
  <2>2. frame["tasklet"] = None /\ frame["ps"] = None BY <2>1 DEF Inv, Places, Actor
  <2> QED BY <1>0, <2>2 DEF Inv, Types, Actor
<1>3. \A i \in 1 .. Len(waitQ') :
         (i \in 1 .. Len(waitQ) /\ waitQ'[i] = waitQ[i]) \/ (i = Len(waitQ) + 1 /\ waitQ'[i] = f)
  <2>1. /\ Len(waitQ') = Len(waitQ) + 1 /\ waitQ'[Len(waitQ) + 1] = f
        /\ \A i \in 1 .. Len(waitQ) : waitQ'[i] = waitQ[i]
    BY <1>0, <1>1, AppendProperties
  <2> QED BY <2>1, Elements DEF Inv
<1>4. /\ \A i \in 1 .. Len(waitQ) : waitQ[i] < f
      /\ \A i \in 1 .. Len(ring) : ring[i] < f
      /\ last < f
  BY <1>1 DEF InTurn, Actor
<1> HIDE DEF f
<1>5. \A i, j \in 1 .. Len(waitQ') : i < j => waitQ'[i] < waitQ'[j]
  <2> SUFFICES ASSUME NEW i \in 1 .. Len(waitQ'), NEW j \in 1 .. Len(waitQ'), i < j
               PROVE  waitQ'[i] < waitQ'[j]
    OBVIOUS
  <2>1. i \in 1 .. Len(waitQ) BY <1>3, Elements DEF Inv
  <2> QED BY <2>1, <1>3, <1>4, Elements DEF InTurn, Inv
<1>6. \A i \in 1 .. Len(ring), j \in 1 .. Len(waitQ') : ring[i] < waitQ'[j] BY <1>3, <1>4 DEF InTurn
<1>7. \A i \in 1 .. Len(waitQ') : last < waitQ'[i] BY <1>3, <1>4 DEF InTurn
<1>8. pc'["stack"] = "idle" BY <1>0 DEF Inv, Types, Actor
<1>9. "stack" \in Actor /\ "tasklet" \in Actor BY DEF Actor
<1> QED BY <1>0, <1>2, <1>5, <1>6, <1>7, <1>8, <1>9 DEF InTurn, IsData

(* The slots of the ring of a data queue are different.                    *)
LEMMA SlotsDiffer ==
    ASSUME Inv, IsData, NEW i \in Int, NEW j \in Int, 1 <= i, 1 <= j, i <= Entries, j <= Entries,
           (idx + i - 1) % Entries = (idx + j - 1) % Entries
    PROVE  i = j
<1>1. idx \in Nat BY SizeAssumption DEF Inv, Types, Slot
<1>2. idx + i - 1 \in Int /\ idx + j - 1 \in Int BY <1>1
<1>3. (idx + i - 1) - (idx + j - 1) < Entries /\ (idx + j - 1) - (idx + i - 1) < Entries
  BY <1>1, SizeAssumption
<1>4. idx + i - 1 = idx + j - 1 BY <1>2, <1>3, ModInj
<1> QED BY <1>1, <1>4

LEMMA TxQueuesTurn ==
    ASSUME Inv, InTurn, NEW a \in Actor, rtl8192_tx(a), TxQueues(a) PROVE InTurn'
<1> SUFFICES ASSUME ~smp, IsData, resets = 0 PROVE InTurn'
  BY DEF InTurn, IsData, rtl8192_tx, machine
<1> DEFINE f == frame[a]  L == Len(ring)
<1>0. /\ pc[a] = "send" /\ own' = [own EXCEPT ![TailSlot] = TRUE] /\ ring' = Append(ring, f)
      /\ UNCHANGED <<idx, waitQ, last, n, queue, smp, resets>>
      /\ pc' = [pc EXCEPT ![a] = "poll"] /\ frame' = [frame EXCEPT ![a] = None]
  BY DEF rtl8192_tx, TxQueues, Goto, hwVars, machine
<1>1. ring \in Seq(Frame) /\ f \in Frame /\ f # None /\ L \in Nat /\ a # "ps"
  BY <1>0, Elements DEF Inv, Types, Places, None
<1>2. \A b \in Actor : frame'[b] = None
  <2>1. \A b \in Actor : b # a => pc[b] = "idle" BY <1>0, <1>1 DEF Inv, Places, Actor
  <2>2. \A b \in Actor : b # a => frame[b] = None BY <2>1 DEF Inv, Places
  <2> QED BY <1>0, <2>2 DEF Inv, Types
<1>3. /\ Len(ring') = L + 1 /\ ring'[L + 1] = f
      /\ \A i \in 1 .. L : ring'[i] = ring[i]
  BY <1>0, <1>1, AppendProperties
<1>i. \A i \in 1 .. Len(ring') : (i \in 1 .. L /\ ring'[i] = ring[i]) \/ (i = L + 1 /\ ring'[i] = f)
  BY <1>1, <1>3
<1>4. last < f /\ \A i \in 1 .. L : ring[i] < f BY <1>1 DEF InTurn
<1>5. \A i \in 1 .. Len(waitQ) : f < waitQ[i]
  <2>1. CASE a = "stack"
    <3>1. waitQ = <<>> BY <2>1, <1>0 DEF InTurn
    <3>2. Len(waitQ) = 0 BY <3>1
    <3> QED BY <3>2
  <2>2. CASE a = "tasklet" BY <2>2, <1>1 DEF InTurn
  <2> QED BY <2>1, <2>2, <1>1 DEF Actor
<1>6. L < Entries
  <2>1. Sends(a) = 1 BY <1>0 DEF Sends
  <2>2. Sends("stack") \in {0, 1} /\ Sends("tasklet") \in {0, 1} BY DEF Sends
  <2> QED BY <2>1, <2>2, <1>1, SizeAssumption DEF Inv, Room, Actor
<1>7. TailSlot \in Slot /\ TailSlot = (idx + (L + 1) - 1) % Entries /\ idx \in Nat
  <2>1. idx \in Nat BY SizeAssumption DEF Inv, Types, Slot
  <2>2. idx + (L + 1) - 1 = idx + L /\ idx + L \in Int BY <2>1, <1>1
  <2> QED BY <2>1, <2>2, DivMod DEF TailSlot, Slot
<1> HIDE DEF f, L
<1>8. \A i \in 1 .. Len(ring') : own'[(idx + i - 1) % Entries] => last < ring'[i]
  <2> SUFFICES ASSUME NEW i \in 1 .. Len(ring'), own'[(idx + i - 1) % Entries] PROVE last < ring'[i]
    OBVIOUS
  <2>1. CASE i = L + 1 BY <2>1, <1>3, <1>4
  <2>2. CASE i \in 1 .. L
    <3>1. (idx + i - 1) % Entries # TailSlot
      <4> SUFFICES ASSUME (idx + i - 1) % Entries = (idx + (L + 1) - 1) % Entries PROVE FALSE BY <1>7
      <4>1. i \in Int /\ L + 1 \in Int /\ 1 <= i /\ 1 <= L + 1 /\ i <= Entries /\ L + 1 <= Entries
        BY <2>2, <1>1, <1>6, SizeAssumption DEF L
      <4>2. i = L + 1 BY <4>1, SlotsDiffer
      <4> QED BY <4>2, <2>2, <1>1 DEF L
    <3>2. (idx + i - 1) % Entries \in Slot
      <4>1. idx + i - 1 \in Int BY <1>7, <2>2
      <4> QED BY <4>1, DivMod DEF Slot
    <3>3. own[(idx + i - 1) % Entries] BY <3>1, <3>2, <1>0 DEF Inv, Types
    <3> QED BY <3>3, <2>2, <1>3 DEF InTurn, L
  <2> QED BY <2>1, <2>2, <1>i
<1>9. \A i, j \in 1 .. Len(ring') : i < j => ring'[i] < ring'[j]
  <2> SUFFICES ASSUME NEW i \in 1 .. Len(ring'), NEW j \in 1 .. Len(ring'), i < j
               PROVE  ring'[i] < ring'[j]
    OBVIOUS
  <2>1. i \in 1 .. L BY <1>i, <1>3, <1>1 DEF L
  <2> QED BY <2>1, <1>i, <1>4, <1>1 DEF InTurn, L
<1>10. \A i \in 1 .. Len(ring'), j \in 1 .. Len(waitQ) : ring'[i] < waitQ[j] BY <1>i, <1>5 DEF InTurn, L
<1>11. pc'["stack"] = "send" => pc["stack"] = "send" BY <1>0 DEF Inv, Types, Actor
<1>12. "stack" \in Actor /\ "tasklet" \in Actor BY DEF Actor
<1> QED BY <1>0, <1>2, <1>8, <1>9, <1>10, <1>11, <1>12 DEF InTurn, IsData

(* What the adapter sends next comes after what it sent last.              *)
LEMMA HwSendTurn ==
    ASSUME Inv, InTurn, HwSend
    PROVE  InTurn' /\ (~smp /\ IsData /\ resets = 0 => last' > last)
<1> SUFFICES ASSUME ~smp, IsData, resets = 0 PROVE InTurn' /\ last' > last
  BY DEF InTurn, IsData, HwSend, machine
<1> DEFINE L == Len(ring)
<1>0. /\ own[hwIdx] /\ own' = [own EXCEPT ![hwIdx] = FALSE] /\ last' = buf[hwIdx]
      /\ UNCHANGED <<idx, ring, waitQ, pc, frame, n, resets, queue, smp>>
  BY DEF HwSend, machine
<1>1. hwIdx \in Slot /\ hwIdx \in Nat /\ idx \in Nat /\ L \in Nat /\ last \in Nat
  BY Elements, SizeAssumption, BoundAssumption DEF Inv, Types, Slot, Frame, None
<1>2. PICK m \in 0 .. Entries : OwnsLast(m) BY DEF Inv, Owned
<1>3. m \in Nat /\ m <= Entries /\ m <= L /\ hwIdx = (idx + L - m) % Entries
  BY <1>2, SizeAssumption DEF OwnsLast
<1>4. m >= 1
  <2>1. PICK j \in 0 .. m - 1 : hwIdx = (hwIdx + j) % Entries BY <1>0, <1>1, <1>2 DEF OwnsLast
  <2> QED BY <2>1, <1>3
<1> DEFINE p == L - m + 1
<1>5. p \in 1 .. L /\ idx + p - 1 = idx + L - m BY <1>1, <1>3, <1>4
<1>6. last' = ring[p]
  <2>1. (hwIdx + 0) % Entries = hwIdx BY <1>1, ModSmall DEF Slot
  <2>2. 0 \in 0 .. m - 1 /\ L - m + 0 + 1 = p BY <1>1, <1>3, <1>4
  <2>3. buf[(hwIdx + 0) % Entries] = ring[L - m + 0 + 1] BY <2>2, <1>2 DEF OwnsLast
  <2> QED BY <2>1, <2>2, <2>3, <1>0
<1>7. last < ring[p]
  <2>1. own[(idx + p - 1) % Entries] BY <1>0, <1>3, <1>5
  <2> QED BY <2>1, <1>5 DEF InTurn
<1>8. L <= Entries
  <2>1. Sends("stack") \in {0, 1} /\ Sends("tasklet") \in {0, 1} BY DEF Sends
  <2> QED BY <2>1, <1>1, SizeAssumption DEF Inv, Room
<1>9. ring[p] \in Nat /\ ring[p] <= n BY <1>5, Elements DEF Inv, Apart
<1> HIDE DEF p, L
<1>10. ASSUME NEW i \in 1 .. L, own'[(idx + i - 1) % Entries] PROVE ring[p] < ring[i]
  <2>1. idx + i - 1 \in Int BY <1>1
  <2>2. (idx + i - 1) % Entries \in Slot BY <2>1, DivMod DEF Slot
  <2>3. own[(idx + i - 1) % Entries] /\ (idx + i - 1) % Entries # hwIdx
    BY <1>0, <1>10, <1>1, <2>2 DEF Inv, Types
  <2>4. PICK j \in 0 .. m - 1 : (idx + i - 1) % Entries = (hwIdx + j) % Entries
    BY <2>2, <2>3, <1>2 DEF OwnsLast
  <2>5. (hwIdx + j) % Entries = (idx + L - m + j) % Entries
    <3>1. idx + L - m \in Int /\ j \in Int BY <1>1, <1>3
    <3> QED BY <3>1, <1>3, ModShift
  <2>6. /\ idx + L - m + j = idx + (p + j) - 1 /\ p + j \in Int /\ 1 <= p + j /\ p + j <= Entries
        /\ i \in Int /\ 1 <= i /\ i <= Entries /\ j \in Nat
    BY <1>1, <1>3, <1>4, <1>8, SizeAssumption DEF p
  <2>7. i = p + j BY <2>4, <2>5, <2>6, SlotsDiffer
  <2>8. j # 0
    <3> SUFFICES ASSUME j = 0 PROVE FALSE OBVIOUS
    <3>1. (hwIdx + 0) % Entries = hwIdx BY <1>1, ModSmall DEF Slot
    <3> QED BY <3>1, <2>3, <2>4
  <2>9. p < i BY <2>6, <2>7, <2>8, <1>1, <1>3 DEF p
  <2> QED BY <2>9, <1>5 DEF InTurn, L
<1>11. \A i \in 1 .. Len(ring') : own'[(idx' + i - 1) % Entries] => last' < ring'[i]
  BY <1>0, <1>6, <1>10 DEF L
<1>12. \A a \in Actor : frame[a] # None => ring[p] < frame[a] BY <1>5 DEF InTurn, L
<1>13. \A i \in 1 .. Len(waitQ) : ring[p] < waitQ[i] BY <1>5 DEF InTurn, L
<1>14. InTurn' BY <1>0, <1>6, <1>9, <1>11, <1>12, <1>13 DEF InTurn, IsData
<1> QED BY <1>1, <1>6, <1>7, <1>9, <1>14

LEMMA InterruptTurn == ASSUME Inv, InTurn, rtl8192_interrupt PROVE InTurn'
<1> SUFFICES ASSUME ~smp, IsData, resets = 0 PROVE InTurn'
  BY DEF InTurn, IsData, rtl8192_interrupt, machine
<1> DEFINE L == Len(ring)  k == Reaped
<1>1. k \in 0 .. L /\ L \in Nat /\ idx \in Nat BY ReapedIs, Elements, SizeAssumption DEF Inv, Types, Slot
<1>2. /\ idx' = (idx + k) % Entries /\ ring' = SubSeq(ring, k + 1, L)
      /\ UNCHANGED <<own, last, waitQ, pc, frame, n, resets, queue, smp>>
  BY DEF rtl8192_interrupt, machine
<1> HIDE DEF k
<1>3. \A i \in 1 .. Len(ring') : k + i \in 1 .. L /\ ring'[i] = ring[k + i]
  BY <1>1, <1>2, ReapedSeq
<1>4. \A i \in 1 .. Len(ring') : (idx' + i - 1) % Entries = (idx + (k + i) - 1) % Entries
  <2> SUFFICES ASSUME NEW i \in 1 .. Len(ring') PROVE (idx' + i - 1) % Entries = (idx + (k + i) - 1) % Entries
    OBVIOUS
  <2>1. idx + k \in Int /\ i - 1 \in Int /\ idx + k + (i - 1) = idx + (k + i) - 1 BY <1>1
  <2>2. idx' \in Int BY <2>1, <1>2, DivMod
  <2>3. idx' + i - 1 = idx' + (i - 1) BY <2>2
  <2> QED BY <2>1, <2>3, <1>2, ModShift
<1> HIDE DEF L
<1>5. \A i, j \in 1 .. Len(ring') : i < j => ring'[i] < ring'[j]
  <2> SUFFICES ASSUME NEW i \in 1 .. Len(ring'), NEW j \in 1 .. Len(ring'), i < j
               PROVE  ring'[i] < ring'[j]
    OBVIOUS
  <2>1. k + i < k + j BY <1>1
  <2> QED BY <2>1, <1>3 DEF InTurn, L
<1>6. \A i \in 1 .. Len(ring'), j \in 1 .. Len(waitQ) : ring'[i] < waitQ[j] BY <1>3 DEF InTurn, L
<1>7. \A a \in Actor : frame[a] # None => \A i \in 1 .. Len(ring') : ring'[i] < frame[a]
  BY <1>3 DEF InTurn, L
<1>8. \A i \in 1 .. Len(ring') : own[(idx' + i - 1) % Entries] => last < ring'[i]
  BY <1>3, <1>4 DEF InTurn, L
<1> QED BY <1>2, <1>5, <1>6, <1>7, <1>8 DEF InTurn, IsData

LEMMA ResumeTurn == ASSUME Inv, InTurn, rtl8192_tx_resume PROVE InTurn'
<1> SUFFICES ASSUME ~smp, IsData, resets = 0 PROVE InTurn'
  BY DEF InTurn, IsData, rtl8192_tx_resume, machine
<1>0. /\ UNCHANGED <<own, idx, ring, last, n, resets, queue, smp>> /\ pc["stack"] = "idle"
      /\ pc["ps"] = "idle"
  BY DEF rtl8192_tx_resume, ringVars, hwVars, machine, MayRun, Inv, Places
<1>f. frame["stack"] = None /\ frame["ps"] = None BY <1>0 DEF Inv, Places, Actor
<1>1. CASE waitQ # <<>> /\ EnoughDesc
  <2>1. waitQ' = Tail(waitQ) /\ pc' = [pc EXCEPT !["tasklet"] = "send"] /\ frame' = [frame EXCEPT !["tasklet"] = Head(waitQ)]
    BY <1>1 DEF rtl8192_tx_resume, Goto
  <2>2. waitQ \in Seq(Frame) BY DEF Inv, Types
  <2>3. /\ Len(waitQ') = Len(waitQ) - 1
        /\ \A i \in 1 .. Len(waitQ') : waitQ'[i] = waitQ[i + 1]
    BY <1>1, <2>1, <2>2, HeadTailProperties
  <2>4. Head(waitQ) = waitQ[1] /\ Len(waitQ) \in Nat \ {0} BY <1>1, <2>2, EmptySeq
  <2>5. \A i \in 1 .. Len(waitQ') : i + 1 \in 1 .. Len(waitQ) /\ 1 < i + 1 /\ waitQ'[i] = waitQ[i + 1]
    BY <2>3, <2>4
  <2> DEFINE h == waitQ[1]
  <2>6. frame'["stack"] = None /\ frame'["ps"] = None /\ frame'["tasklet"] = h /\ pc'["stack"] = "idle"
    BY <1>0, <1>f, <2>1, <2>4 DEF Inv, Types, Actor
  <2>7. 1 \in 1 .. Len(waitQ) BY <2>4
  <2>8. last < h /\ (\A i \in 1 .. Len(ring) : ring[i] < h) BY <2>7 DEF InTurn
  <2>9. \A i \in 1 .. Len(waitQ') : h < waitQ'[i] BY <2>5, <2>7 DEF InTurn
  <2> HIDE DEF h
  <2>10. \A i, j \in 1 .. Len(waitQ') : i < j => waitQ'[i] < waitQ'[j]
    <3> SUFFICES ASSUME NEW i \in 1 .. Len(waitQ'), NEW j \in 1 .. Len(waitQ'), i < j
                 PROVE  waitQ'[i] < waitQ'[j]
      OBVIOUS
    <3>1. i + 1 < j + 1 OBVIOUS
    <3> QED BY <3>1, <2>5 DEF InTurn
  <2>11. \A i \in 1 .. Len(ring), j \in 1 .. Len(waitQ') : ring[i] < waitQ'[j] BY <2>5 DEF InTurn
  <2>12. \A i \in 1 .. Len(waitQ') : last < waitQ'[i] BY <2>5 DEF InTurn
  <2>13. \A a \in Actor : frame'[a] # None => a = "tasklet" BY <2>6 DEF Actor
  <2> QED BY <1>0, <2>6, <2>8, <2>9, <2>10, <2>11, <2>12, <2>13 DEF InTurn, IsData
<1>2. CASE ~(waitQ # <<>> /\ EnoughDesc)
  <2>1. waitQ' = waitQ /\ pc' = [pc EXCEPT !["tasklet"] = "idle"] /\ frame' = [frame EXCEPT !["tasklet"] = None]
    BY <1>2 DEF rtl8192_tx_resume, Goto
  <2>2. \A a \in Actor : frame'[a] = frame[a] \/ frame'[a] = None BY <2>1 DEF Inv, Types
  <2>3. pc'["stack"] = pc["stack"] BY <2>1 DEF Inv, Types, Actor
  <2> QED BY <1>0, <2>1, <2>2, <2>3, TurnKept
<1> QED BY <1>1, <1>2

LEMMA FreesTurn ==
    ASSUME Inv, InTurn, NEW a \in Actor, Poll(a) \/ (rtl8192_tx(a) /\ TxDrops(a)) PROVE InTurn'
<1>1. /\ UNCHANGED <<own, idx, ring, waitQ, last, queue, smp, n, resets>>
      /\ pc' = [pc EXCEPT ![a] = After(a)] /\ frame' = [frame EXCEPT ![a] = None]
  BY DEF Poll, rtl8192_tx, TxDrops, Goto, ringVars, hwVars, machine
<1>2. \A b \in Actor : frame'[b] = frame[b] \/ frame'[b] = None BY <1>1 DEF Inv, Types
<1>3. pc'["stack"] = "send" => pc["stack"] = "send" BY <1>1 DEF Inv, Types, Actor, After
<1> QED BY <1>1, <1>2, <1>3, TurnKept

LEMMA QuietTurn ==
    ASSUME Inv, InTurn, HwIdle \/ OtherQueueDone \/ TaskletStarts \/ PsXmit \/ UNCHANGED vars PROVE InTurn'
<1>1. CASE PsXmit
  <2>1. ~IsData BY <1>1 DEF PsXmit, IsData, MGNT_QUEUE, HIGH_QUEUE, TXCMD_QUEUE, BK_QUEUE
  <2> QED BY <1>1, <2>1 DEF PsXmit, InTurn, IsData, machine
<1>2. CASE TaskletStarts
  <2>1. /\ UNCHANGED <<own, idx, ring, waitQ, last, queue, smp, n, resets>>
        /\ pc' = [pc EXCEPT !["tasklet"] = "resume"] /\ frame' = [frame EXCEPT !["tasklet"] = None]
    BY <1>2 DEF TaskletStarts, Goto, ringVars, hwVars, machine
  <2>2. \A b \in Actor : frame'[b] = frame[b] \/ frame'[b] = None BY <2>1 DEF Inv, Types
  <2>3. pc'["stack"] = "send" => pc["stack"] = "send" BY <2>1 DEF Inv, Types, Actor
  <2> QED BY <2>1, <2>2, <2>3, TurnKept
<1>3. CASE HwIdle \/ OtherQueueDone \/ UNCHANGED vars
  <2>1. UNCHANGED <<own, idx, ring, waitQ, last, queue, smp, n, resets, pc, frame>>
    BY <1>3 DEF HwIdle, OtherQueueDone, vars, ringVars, hwVars, machine
  <2> QED BY <2>1, TurnKept
<1> QED BY <1>1, <1>2, <1>3

LEMMA RestartTurn == ASSUME Inv, InTurn, Down \/ Up PROVE InTurn'
<1>1. CASE Down
  <2>1. resets' # 0 BY <1>1, BoundAssumption DEF Down, Inv, Types
  <2> QED BY <2>1 DEF InTurn
<1>2. CASE Up
  <2>1. resets' # 0 BY <1>2 DEF Up, Inv, Owned
  <2> QED BY <2>1 DEF InTurn
<1> QED BY <1>1, <1>2

LEMMA NextTurn ==
    Inv /\ InTurn /\ [Next]_vars =>
        InTurn' /\ ((~smp /\ IsData /\ resets = 0 /\ last' # last) => last' > last)
<1> SUFFICES ASSUME Inv, InTurn, [Next]_vars
             PROVE  InTurn' /\ ((~smp /\ IsData /\ resets = 0 /\ last' # last) => last' > last)
  OBVIOUS
<1>1. CASE HwSend BY <1>1, HwSendTurn
<1>2. CASE ~HwSend
  <2>1. last' = last
    BY <1>2 DEF Next, Tasklet, XmitStart, XmitWait, PsXmit, rtl8192_tx, Poll, HwIdle, rtl8192_interrupt,
                OtherQueueDone, TaskletStarts, rtl8192_tx_resume, Down, Up, vars, hwVars
  <2> SUFFICES InTurn' BY <2>1
  <2>2. CASE XmitStart BY <2>2, XmitStartTurn
  <2>3. CASE XmitWait BY <2>3, XmitWaitTurn
  <2>4. CASE PsXmit \/ HwIdle \/ OtherQueueDone \/ TaskletStarts \/ UNCHANGED vars BY <2>4, QuietTurn
  <2>5. CASE \E a \in Actor : rtl8192_tx(a) \/ Poll(a)
    <3>1. PICK a \in Actor : rtl8192_tx(a) \/ Poll(a) BY <2>5
    <3>2. CASE rtl8192_tx(a) /\ TxQueues(a) BY <3>2, TxQueuesTurn
    <3>3. CASE Poll(a) \/ (rtl8192_tx(a) /\ TxDrops(a)) BY <3>3, FreesTurn
    <3> QED BY <3>1, <3>2, <3>3 DEF rtl8192_tx
  <2>6. CASE rtl8192_interrupt BY <2>6, InterruptTurn
  <2>7. CASE rtl8192_tx_resume BY <2>7, ResumeTurn
  <2>8. CASE Down \/ Up BY <2>8, RestartTurn
  <2>9. Next \/ UNCHANGED vars OBVIOUS
  <2> QED BY <1>2, <2>2, <2>3, <2>4, <2>5, <2>6, <2>7, <2>8, <2>9 DEF Next, Tasklet
<1> QED BY <1>1, <1>2

(* On one CPU the adapter transmits the frames of a data queue in the      *)
(* order in which the stack handed them in, whatever the number of         *)
(* descriptors and of waiting frames (rtllib_softmac_xmit, which looks at  *)
(* the wait queue first, and rtl8192_tx_resume).                           *)
THEOREM OneCpuInOrder == Spec => InOrderOneCpu
<1>1. Init => Inv /\ InTurn BY InitInv
<1>2. Inv /\ InTurn /\ [Next]_vars => Inv' /\ InTurn' BY NextInv, NextTurn
<1>3. Inv /\ InTurn /\ [Next]_vars =>
        [(~smp /\ IsData /\ resets = 0 /\ last' # last) => last' > last]_vars
  BY NextTurn
<1> QED BY <1>1, <1>2, <1>3, PTL DEF Spec, InOrderOneCpu

-----------------------------------------------------------------------------
(* HtLink: the inductive invariant.                                          *)
Networks == Aps \cup {NoAp}
Modes == {"none", "N", "G", "BG", "B"}
NetTypes ==
    [ap : Networks, mode : Modes, cck : BOOLEAN, ofdm : BOOLEAN, erp : BOOLEAN, ht : BOOLEAN, op : 0 .. 3,
     qos : BOOLEAN, acm : SUBSET Ups, cnt : Nat, old : Nat, vendors : SUBSET Vendors, prot : BOOLEAN,
     active : BOOLEAN]
HtTypes ==
    [support : BOOLEAN, enable : BOOLEAN, bw40 : BOOLEAN, tx40 : BOOLEAN, sgi20 : BOOLEAN, sgi40 : BOOLEAN,
     ampdu : BOOLEAN, factor : Int, density : Int, op : 0 .. 3, static : BOOLEAN, rt2rt : BOOLEAN,
     cap : Networks, infoOf : Networks, infoOp : 0 .. 3, peer : Vendors, cts : BOOLEAN, pureN : BOOLEAN]
LinkTypes == [mode : Modes, rate : {22, 108}, htRate : Nat, rates : SUBSET Mcs, half : BOOLEAN]

LinkTypeOK ==
    /\ air \in Announcements /\ net \in NetTypes /\ ht \in HtTypes /\ link \in LinkTypes
    /\ changes \in 0 .. MaxChanges /\ air.cnt <= changes /\ ratr.mcs \subseteq Mcs

(* What a description says of its access point for good.                     *)
Describes(desc) ==
    /\ desc.ht = desc.ap.ht /\ desc.qos = desc.ap.qos /\ (desc.mode = "N" <=> desc.ap.ht)
    /\ desc.vendors \subseteq {desc.ap.vendor} /\ (desc.active => desc.qos)
    /\ desc.cnt <= air.cnt

(* What is kept of the network of now.                                       *)
Kept ==
    /\ ht.support = (net.qos /\ net.ht)
    /\ ht.support => ht.cap = net.ap /\ ht.infoOf = net.ap /\ (ht.rt2rt => net.ap.vendor = "realtek")
    /\ ht.peer \in {"unknown", net.ap.vendor}
    /\ ht.cts => net.ap.vendor = "broadcom"
    /\ ht.pureN => net.ap.sec \in {"wep", "tkip"}

Linked == state \in {"LINKED", "LINKED_SCANNING"}

(* From the association request on.                                          *)
Requested ==
    /\ (state = "LINKED_SCANNING") = (wq = "scan")
    /\ Linked \/ state = "AUTHENTICATED" =>
           /\ ht.enable = (link.mode = "N")
           /\ link.mode = "N" => /\ net.mode = "N" /\ net.ap.sec # "tkip"
                                 /\ asked = HTConstructCapabilityElement(link.half, net.ap.sec # "none")
           /\ link.mode = "G" /\ net.mode = "N" => net.ap.sec \in {"wep", "tkip"}

(* From the end of the completing work on: what it leaves of the capabilities *)
(* the access point announced and of those the request had.                   *)
Widened == ht.bw40 = (net.ap.w40 /\ ~link.half /\ net.ap.ext # "none")
PeerRates == IF net.ap.mcs \cap (0 .. 7) = {} THEN net.ap.mcs \cup (0 .. 7) ELSE net.ap.mcs
Taken ==
    /\ ht.tx40 = net.ap.tx40 /\ ht.sgi20 = net.ap.sgi20 /\ ht.sgi40 = net.ap.sgi40
    /\ ht.density = net.ap.density
    /\ net.ap.vendor # "realtek" => ht.factor <= net.ap.factor
    /\ link.rates \subseteq PeerRates /\ (link.half => link.rates \subseteq 0 .. 7)
    /\ link.htRate = 0 \/ (/\ link.htRate - 128 \in link.rates /\ link.htRate >= 128
                           /\ net.ap.static => link.htRate - 128 \in 0 .. 7)
Completed ==
    Linked /\ "complete" \notin works =>
        /\ wq = "complete" => link.mode = "N" /\ Widened
        /\ wq \in {"idle", "scan"} =>
               /\ IF link.mode = "N" THEN Widened /\ Taken ELSE link.rates = {}
               /\ ratr.mcs \subseteq link.rates

(* What a beacon that found the station linked leaves.                       *)
Heard ==
    heard => /\ net.mode \in {"G", "N"} => net.prot = net.erp
             /\ ht.support /\ "beacon" \notin works => ht.op = net.op
             /\ net.qos /\ ~missed => acm = net.acm
Followed ==
    net.qos /\ ~missed /\ net.cnt = air.cnt => acm = rtllib_qos_convert_ac_to_parameters(air)

LinkInv == LinkTypeOK /\ Describes(net) /\ Kept /\ Requested /\ Completed /\ Heard /\ Followed
-----------------------------------------------------------------------------
(* The assumption on the constants, in the parts that the steps need.        *)
LEMMA LinkConstants ==
    /\ MaxJoins \in Nat /\ MaxChanges \in Nat
    /\ \A b \in Airs : b.op \in 0 .. 3 /\ b.erp \in BOOLEAN /\ b.acm \subseteq Ups
BY HtLinkAssumption

LEMMA PacketFacts ==
    ASSUME NEW p \in Packets
    PROVE  p.up \in Ups /\ p.len \in Nat /\ 14 <= p.len
BY HtLinkAssumption

LEMMA FtsFacts ==
    ASSUME NEW v \in Fts
    PROVE  v \in Nat /\ 256 <= v
BY HtLinkAssumption

(* What access points announce and how they are described.                   *)
LEMMA ApFacts ==
    ASSUME NEW a \in Networks
    PROVE  /\ {a.ht, a.qos, a.w40, a.tx40, a.sgi20, a.sgi40, a.static} \subseteq BOOLEAN
           /\ a.mcs \subseteq Mcs /\ a.sec \in {"none", "wep", "tkip", "ccmp"} /\ a.vendor \in Vendors
           /\ a.ext \in {"none", "lower", "upper"} /\ a.factor \in 0 .. 3 /\ a.density \in 0 .. 7
           /\ (a.ht => a.qos)
<1>1. CASE a = NoAp
  BY <1>1 DEF NoAp, Vendors
<1>2. CASE a \in Aps
  BY <1>2, HtLinkAssumption
<1> QED
  BY <1>1, <1>2 DEF Networks

LEMMA AirFacts ==
    ASSUME NEW a \in Announcements
    PROVE  /\ a = [op |-> a.op, erp |-> a.erp, acm |-> a.acm, cnt |-> a.cnt]
           /\ a.op \in 0 .. 3 /\ a.erp \in BOOLEAN /\ a.acm \subseteq Ups /\ a.cnt \in 0 .. MaxChanges
           /\ rtllib_qos_convert_ac_to_parameters(a) \in SUBSET Ups
<1>1. PICK b \in Airs \cup {StartAir}, c \in 0 .. MaxChanges :
          a = [op |-> b.op, erp |-> b.erp, acm |-> b.acm, cnt |-> c]
  BY DEF Announcements
<1>2. b.op \in 0 .. 3 /\ b.erp \in BOOLEAN /\ b.acm \subseteq Ups
  <2>1. CASE b = StartAir
    BY <2>1 DEF StartAir
  <2>2. CASE b \in Airs
    BY <2>2, LinkConstants
  <2> QED
    BY <2>1, <2>2
<1>3. rtllib_qos_convert_ac_to_parameters(a) \in SUBSET Ups
  BY DEF rtllib_qos_convert_ac_to_parameters, Ups
<1> QED
  BY <1>1, <1>2, <1>3

LEMMA StartAirIs == StartAir \in Announcements /\ StartAir.cnt = 0 /\ StartAir.acm = {}
<1>1. StartAir = [op |-> StartAir.op, erp |-> StartAir.erp, acm |-> StartAir.acm, cnt |-> 0]
  BY DEF StartAir
<1>2. 0 \in 0 .. MaxChanges
  BY LinkConstants
<1> QED
  BY <1>1, <1>2 DEF Announcements, StartAir

(* Reading an element changes the fields it is about.                        *)
LEMMA RatesRead ==
    ASSUME NEW desc \in NetTypes, NEW rates, NEW first
    PROVE  \E o, c \in BOOLEAN : ReadRates(desc, rates, first) = [desc EXCEPT !.ofdm = o, !.cck = c]
<1> DEFINE telling == {i \in DOMAIN rates : rates[i] = "basic" \/ (first /\ rates[i] = "cck")}
           o == desc.ofdm \/ \E i \in DOMAIN rates : rates[i] # "cck"
           c == IF telling = {} THEN desc.cck ELSE rates[Max(telling)] = "cck"
<1>1. ReadRates(desc, rates, first) = [desc EXCEPT !.ofdm = o, !.cck = c]
  BY DEF ReadRates
<1>2. o \in BOOLEAN
  BY DEF NetTypes
<1>3. c \in BOOLEAN
  BY DEF NetTypes
<1> HIDE DEF o, c
<1> QED
  BY <1>1, <1>2, <1>3

LEMMA DescribedIs ==
    ASSUME NEW ap \in Networks, NEW a \in Announcements
    PROVE  LET desc == Described[ap][a] IN
           /\ desc \in NetTypes /\ desc.ap = ap /\ desc.ht = ap.ht /\ desc.qos = ap.qos /\ (desc.mode = "N" <=> ap.ht)
           /\ desc.erp = a.erp /\ (ap.ht => desc.op = a.op) /\ desc.vendors \subseteq {ap.vendor}
           /\ desc.acm = IF ap.qos THEN rtllib_qos_convert_ac_to_parameters(a) ELSE {}
           /\ desc.cnt = IF ap.qos THEN a.cnt ELSE 0
           /\ ~desc.active
<1> DEFINE start == [ap |-> ap, mode |-> "none", cck |-> TRUE, ofdm |-> FALSE, erp |-> FALSE, ht |-> FALSE,
                     op |-> 0, qos |-> FALSE, acm |-> {}, cnt |-> 0, old |-> 0, vendors |-> {},
                     prot |-> FALSE, active |-> FALSE]
           rates == ReadRates(start, ap.rates, TRUE)
           erp   == [rates EXCEPT !.erp = a.erp]
           ex    == ReadRates(erp, ap.ratesEx, FALSE)
           htcap == IF ap.ht THEN ReadHt(ex, a) ELSE ex
           qos   == IF ap.qos THEN ReadQos(htcap, a) ELSE htcap
           desc     == ReadVendor(qos, ap.vendor)
           m     == IF desc.ht THEN "N" ELSE IF ~desc.ofdm THEN "B" ELSE IF desc.cck THEN "BG" ELSE "G"
           conv  == rtllib_qos_convert_ac_to_parameters(a)
<1>1. Described[ap][a] = [desc EXCEPT !.mode = m]
  BY DEF Described, Networks, rtllib_network_init, rtllib_parse_info_param
<1>2. start \in NetTypes
  BY DEF NetTypes, Modes, Networks
<1> DEFINE Fresh(x) == /\ x \in NetTypes /\ x.ap = ap /\ ~x.qos /\ x.acm = {} /\ x.cnt = 0 /\ x.vendors = {}
                       /\ ~x.active
<1>3. Fresh(rates) /\ ~rates.ht
  <2>1. Fresh(start) /\ ~start.ht
    BY <1>2
  <2> HIDE DEF start
  <2>2. PICK o, c \in BOOLEAN : rates = [start EXCEPT !.ofdm = o, !.cck = c]
    BY <1>2, RatesRead
  <2> HIDE DEF rates
  <2> QED
    BY <2>1, <2>2 DEF NetTypes
<1> HIDE DEF rates
<1>4. a.erp \in BOOLEAN /\ a.op \in 0 .. 3 /\ a.cnt \in Nat /\ conv \in SUBSET Ups
  BY AirFacts, LinkConstants
<1>5. ap.ht \in BOOLEAN /\ ap.qos \in BOOLEAN /\ ap.vendor \in Vendors /\ (ap.ht => ap.qos)
  BY ApFacts
<1> HIDE DEF conv
<1>6. Fresh(erp) /\ ~erp.ht /\ erp.erp = a.erp
  BY <1>3, <1>4 DEF NetTypes
<1> HIDE DEF erp
<1>7. Fresh(ex) /\ ~ex.ht /\ ex.erp = a.erp
  <2>a. erp \in NetTypes
    BY ONLY <1>6
  <2>1. PICK o, c \in BOOLEAN : ex = [erp EXCEPT !.ofdm = o, !.cck = c]
    BY <2>a, RatesRead
  <2> HIDE DEF ex
  <2> QED
    BY <2>1, <1>6 DEF NetTypes
<1> HIDE DEF ex
<1>8. Fresh(htcap) /\ htcap.ht = ap.ht /\ htcap.erp = a.erp /\ (ap.ht => htcap.op = a.op)
  <2>1. CASE ap.ht
    BY <2>1, <1>7, <1>4 DEF ReadHt, NetTypes
  <2>2. CASE ~ap.ht
    BY <2>2, <1>7, <1>5 DEF NetTypes
  <2> QED
    BY <2>1, <2>2
<1> HIDE DEF htcap
<1> DEFINE Read(x) ==
        /\ x \in NetTypes /\ x.ap = ap /\ x.ht = ap.ht /\ x.qos = ap.qos /\ x.erp = a.erp
        /\ (ap.ht => x.op = a.op) /\ x.acm = (IF ap.qos THEN conv ELSE {})
        /\ x.cnt = (IF ap.qos THEN a.cnt ELSE 0) /\ ~x.active
<1>9. Read(qos) /\ qos.vendors = {}
  <2>1. CASE ap.qos
    <3>1. qos = [htcap EXCEPT !.qos = TRUE, !.acm = conv, !.cnt = a.cnt]
      BY <2>1 DEF ReadQos, conv
    <3> HIDE DEF qos
    <3> QED
      BY <3>1, <2>1, <1>8, <1>4 DEF NetTypes
  <2>2. CASE ~ap.qos
    BY <2>2, <1>8, <1>5 DEF NetTypes
  <2> QED
    BY <2>1, <2>2
<1> HIDE DEF qos
<1>10. Read(desc) /\ desc.vendors \subseteq {ap.vendor}
  <2>1. CASE ap.vendor = "unknown" \/ (ap.vendor = "realtek" /\ ~qos.ht)
    <3>1. desc = qos
      BY <2>1 DEF ReadVendor
    <3> QED
      BY <3>1, <1>9
  <2>2. CASE ~(ap.vendor = "unknown" \/ (ap.vendor = "realtek" /\ ~qos.ht))
    <3>1. desc = [qos EXCEPT !.vendors = {ap.vendor}]
      BY <2>2, <1>9 DEF ReadVendor
    <3>2. {ap.vendor} \in SUBSET Vendors
      BY <1>5
    <3> HIDE DEF desc
    <3> QED
      BY <3>1, <3>2, <1>9 DEF NetTypes
  <2> QED
    BY <2>1, <2>2
<1> HIDE DEF desc
<1>11. m \in Modes /\ (m = "N" <=> ap.ht)
  BY <1>10, <1>5 DEF Modes
<1> HIDE DEF m
<1>12. Read(Described[ap][a]) /\ Described[ap][a].vendors \subseteq {ap.vendor} /\ Described[ap][a].mode = m
  BY <1>1, <1>10, <1>11 DEF NetTypes
<1> QED
  BY <1>12, <1>11 DEF conv
LEMMA UpdatedIs ==
    ASSUME LinkTypeOK, Describes(net)
    PROVE  LET desc == UpdateProtection(update_network(net, Described[net.ap][air])) IN
           /\ desc \in NetTypes /\ desc.ap = net.ap /\ Describes(desc) /\ desc.active = net.active
           /\ desc.mode \in {"G", "N"} => desc.prot = desc.erp
           /\ desc.old = net.cnt /\ (desc.ht => desc.op = air.op)
           /\ desc.qos => desc.acm = rtllib_qos_convert_ac_to_parameters(air) /\ desc.cnt = air.cnt
           /\ ~desc.qos => desc.cnt = 0
<1> DEFINE seen == Described[net.ap][air]
           m    == update_network(net, seen)
           desc    == UpdateProtection(m)
<1>1. net \in NetTypes /\ air \in Announcements /\ net.ap \in Networks
  BY DEF LinkTypeOK, NetTypes
<1>2. /\ seen \in NetTypes /\ seen.ap = net.ap /\ seen.ht = net.ap.ht /\ seen.qos = net.ap.qos
      /\ (seen.mode = "N" <=> net.ap.ht) /\ seen.erp = air.erp /\ (net.ap.ht => seen.op = air.op)
      /\ seen.vendors \subseteq {net.ap.vendor}
      /\ (net.ap.qos => seen.acm = rtllib_qos_convert_ac_to_parameters(air) /\ seen.cnt = air.cnt)
      /\ (~net.ap.qos => seen.cnt = 0)
  BY <1>1, DescribedIs
<1> HIDE DEF seen
<1>3. air.cnt \in Nat
  BY <1>1, AirFacts, LinkConstants
<1>4. m = [seen EXCEPT !.active = net.active, !.old = net.cnt, !.prot = net.prot]
  BY DEF update_network
<1> HIDE DEF m
<1>5. m \in NetTypes /\ m.active = net.active /\ m.old = net.cnt
  BY <1>1, <1>2, <1>4 DEF NetTypes
<1>6. /\ m.ap = seen.ap /\ m.ht = seen.ht /\ m.qos = seen.qos /\ m.mode = seen.mode /\ m.erp = seen.erp
      /\ m.op = seen.op /\ m.vendors = seen.vendors /\ m.acm = seen.acm /\ m.cnt = seen.cnt
  BY <1>2, <1>4 DEF NetTypes
<1>7. /\ desc \in NetTypes /\ (desc.mode \in {"G", "N"} => desc.prot = desc.erp)
      /\ desc.active = m.active /\ desc.old = m.old
      /\ desc.ap = m.ap /\ desc.ht = m.ht /\ desc.qos = m.qos /\ desc.mode = m.mode /\ desc.erp = m.erp
      /\ desc.op = m.op /\ desc.vendors = m.vendors /\ desc.acm = m.acm /\ desc.cnt = m.cnt
  <2>1. CASE m.mode \in {"G", "N"}
    <3>1. desc = [m EXCEPT !.prot = m.erp]
      BY <2>1 DEF UpdateProtection
    <3> HIDE DEF desc
    <3> QED
      BY <3>1, <1>5 DEF NetTypes
  <2>2. CASE m.mode \notin {"G", "N"}
    BY <2>2, <1>5 DEF UpdateProtection
  <2> QED
    BY <2>1, <2>2
<1> HIDE DEF desc
<1>8. /\ desc.ap = net.ap /\ desc.ht = desc.ap.ht /\ desc.qos = desc.ap.qos /\ (desc.mode = "N" <=> desc.ap.ht)
      /\ desc.vendors \subseteq {desc.ap.vendor}
  BY <1>2, <1>6, <1>7
<1>9. desc.active => desc.qos
  BY <1>8, <1>7, <1>5, <1>1 DEF Describes
<1>10. desc.cnt <= air.cnt
  BY <1>2, <1>3, <1>6, <1>7, <1>1, ApFacts
<1>11. Describes(desc)
  BY <1>8, <1>9, <1>10 DEF Describes
<1>12. (desc.ht => desc.op = air.op) /\ (~desc.qos => desc.cnt = 0)
       /\ (desc.qos => desc.acm = rtllib_qos_convert_ac_to_parameters(air) /\ desc.cnt = air.cnt)
  BY <1>2, <1>6, <1>7
<1> QED
  BY <1>5, <1>7, <1>8, <1>11, <1>12 DEF desc, m, seen

LEMMA MinIs ==
    ASSUME NEW T \in SUBSET Nat, T # {} PROVE Min(T) \in T /\ \A y \in T : Min(T) <= y
BY NatMin DEF Min

LEMMA PeerIs ==
    ASSUME NEW desc \in NetTypes, desc.vendors \subseteq {desc.ap.vendor}
    PROVE  HTIOTPeerDetermine(desc) \in {"unknown", desc.ap.vendor} /\ HTIOTPeerDetermine(desc) \in Vendors
<1> DEFINE order == <<"realtek", "broadcom", "ralink", "atheros", "cisco", "marvell">>
           known == {i \in DOMAIN order : order[i] \in desc.vendors}
<1>1. HTIOTPeerDetermine(desc) = IF known = {} THEN "unknown" ELSE order[Min(known)]
  BY DEF HTIOTPeerDetermine
<1>2. DOMAIN order = 1 .. 6
  OBVIOUS
<1>3. known \in SUBSET Nat
  BY <1>2
<1>4. CASE known = {}
  BY <1>1, <1>4 DEF Vendors
<1>5. CASE known # {}
  <2>1. Min(known) \in known
    BY <1>3, <1>5, MinIs
  <2>2. order[Min(known)] \in desc.vendors
    BY <2>1
  <2>3. desc.vendors \subseteq Vendors
    BY DEF NetTypes
  <2> HIDE DEF order, known
  <2> QED
    BY <1>1, <1>5, <2>2, <2>3
<1> QED
  BY <1>4, <1>5

(* The highest rate is one of the rates.                                     *)
LEMMA DataRates ==
    /\ \A m \in Mcs : HTMcsToDataRate(m) \in 13 .. 260
    /\ \A m \in Mcs : HTMcsToDataRate(m) = 13 => m = 0
    /\ HTMcsToDataRate(0) = 13
<1>1. \A m \in Mcs : m \in {0, 1, 2, 3, 4, 5, 6, 7, 8, 9, 10, 11, 12, 13, 14, 15}
  BY DEF Mcs
<1> QED
  BY <1>1 DEF HTMcsToDataRate, MCS_DATA_RATE

LEMMA HighestIs ==
    ASSUME NEW set \in SUBSET Mcs, NEW filter
    PROVE  LET r == HTGetHighestMCSRate(set, filter) IN
           r = 0 \/ (r \in 128 .. 143 /\ r - 128 \in set \cap filter)
<1> DEFINE usable == set \cap filter
           best == {m \in usable \cup {0} : \A k \in usable : HTMcsToDataRate(k) <= HTMcsToDataRate(m)}
           r == HTGetHighestMCSRate(set, filter)
<1>1. r = IF usable = {} THEN 0 ELSE 128 + Min(best)
  BY DEF HTGetHighestMCSRate
<1>2. usable \subseteq Mcs /\ 0 \in Mcs /\ Mcs \subseteq Nat /\ best \subseteq Mcs
  <2>1. 0 \in Mcs /\ Mcs \subseteq Nat
    BY DEF Mcs
  <2>3. usable \subseteq Mcs
    BY Zenon
  <2>2. best \subseteq usable \cup {0}
    OBVIOUS
  <2> QED
    BY <2>1, <2>2, <2>3
<1> HIDE DEF usable
<1>3. ASSUME usable # {} PROVE best # {} /\ best \subseteq usable
  <2> DEFINE T == {260 - HTMcsToDataRate(m) : m \in usable}
  <2>1. T \in SUBSET Nat /\ T # {}
    <3>1. \A m \in usable : HTMcsToDataRate(m) \in 13 .. 260
      BY <1>2, DataRates
    <3>2. \A m \in usable : 260 - HTMcsToDataRate(m) \in Nat
      BY <3>1
    <3> QED
      BY <3>2, <1>3
  <2>2. PICK x \in T : \A y \in T : x <= y
    BY <2>1, NatMin
  <2>3. PICK m \in usable : x = 260 - HTMcsToDataRate(m)
    BY <2>2
  <2>4. \A k \in usable : 260 - HTMcsToDataRate(m) <= 260 - HTMcsToDataRate(k)
    BY <2>2, <2>3
  <2>5. \A k \in usable : HTMcsToDataRate(k) <= HTMcsToDataRate(m)
    <3>1. \A k \in usable : HTMcsToDataRate(k) \in 13 .. 260
      BY <1>2, DataRates
    <3> TAKE k \in usable
    <3>2. 260 - HTMcsToDataRate(m) <= 260 - HTMcsToDataRate(k)
      BY <2>4
    <3>3. HTMcsToDataRate(m) \in Int /\ HTMcsToDataRate(k) \in Int
      BY <3>1
    <3> QED
      BY <3>2, <3>3
  <2>6. ASSUME 0 \in best PROVE 0 \in usable
    <3>1. HTMcsToDataRate(m) <= HTMcsToDataRate(0)
      BY <2>6
    <3>2. m = 0
      BY <3>1, <1>2, DataRates
    <3> QED
      BY <3>2
  <2> QED
    BY <2>5, <2>6
<1>4. CASE usable # {}
  <2>1. Min(best) \in usable
    BY <1>2, <1>3, <1>4, MinIs
  <2> HIDE DEF r, best, usable
  <2> QED
    BY <1>1, <1>2, <1>4, <2>1 DEF Mcs, r, usable
<1> QED
  BY <1>1, <1>4

-----------------------------------------------------------------------------
(* Each step keeps the invariant.                                            *)
LEMMA LinkInitial == LinkInit => LinkInv
<1> SUFFICES ASSUME LinkInit PROVE LinkInv
  OBVIOUS
<1>1. NoAp \in Networks /\ air \in Announcements /\ air.cnt = 0 /\ air.acm = {}
  BY StartAirIs DEF LinkInit, Networks
<1>2. /\ net \in NetTypes /\ net.ap = NoAp /\ ~net.ht /\ ~net.qos /\ net.mode # "N"
      /\ net.vendors \subseteq {net.ap.vendor} /\ net.cnt = 0 /\ ~net.active
  BY <1>1, DescribedIs DEF LinkInit, NoAp
<1>3. ht \in HtTypes
  BY <1>1, LinkConstants DEF LinkInit, HTInitializeHTInfo, HtTypes, Vendors, Networks
<1>4. link \in LinkTypes
  BY DEF LinkInit, LinkTypes, Modes
<1>5. LinkTypeOK
  BY <1>1, <1>2, <1>3, <1>4, LinkConstants DEF LinkInit, LinkTypeOK
<1>6. Describes(net)
  <2>1. ~NoAp.ht /\ ~NoAp.qos
    BY DEF NoAp
  <2>2. net.ht = net.ap.ht /\ net.qos = net.ap.qos
    BY <1>2, <2>1, ApFacts DEF NetTypes
  <2> QED
    BY <1>1, <1>2, <2>1, <2>2 DEF Describes
<1>7. Kept
  BY <1>2 DEF LinkInit, Kept, HTInitializeHTInfo
<1>8. Requested /\ Completed /\ Heard
  BY DEF LinkInit, Requested, Completed, Heard, Linked
<1>9. Followed
  BY <1>2 DEF Followed
<1> QED
  BY <1>5, <1>6, <1>7, <1>8, <1>9 DEF LinkInv

LEMMA ApChangesKeeps == ASSUME LinkInv, ApChanges PROVE LinkInv'
<1>1. PICK a \in Airs : air' = [op |-> a.op, erp |-> a.erp, acm |-> a.acm, cnt |-> air.cnt + 1]
  BY DEF ApChanges
<1>2. air.cnt \in Nat /\ air.cnt <= changes /\ changes < MaxChanges /\ changes \in Nat /\ MaxChanges \in Nat
  BY AirFacts, LinkConstants DEF LinkInv, LinkTypeOK, ApChanges
<1>3. air' \in Announcements /\ air'.cnt = air.cnt + 1 /\ changes' = changes + 1
  <2>1. air.cnt + 1 \in 0 .. MaxChanges
    BY <1>2
  <2> QED
    BY <2>1, <1>1 DEF Announcements, ApChanges
<1>4. net.cnt \in Nat /\ net.cnt <= air.cnt
  BY DEF LinkInv, LinkTypeOK, NetTypes, Describes
<1>5. LinkTypeOK'
  BY <1>2, <1>3 DEF LinkInv, LinkTypeOK, ApChanges
<1>6. Describes(net)' /\ Followed'
  BY <1>2, <1>3, <1>4 DEF LinkInv, Describes, Followed, ApChanges
<1> QED
  BY <1>5, <1>6 DEF LinkInv, ApChanges, Kept, Requested, Linked, Completed, Widened, Taken, PeerRates, Heard

LEMMA NewNetKeeps == ASSUME LinkInv, NEW ap \in Aps, rtllib_softmac_new_net(ap) PROVE LinkInv'
<1>1. /\ ap \in Networks /\ StartAir \in Announcements /\ StartAir.cnt = 0 /\ StartAir.acm = {}
      /\ net' = Described[ap][StartAir] /\ air' = StartAir
  BY StartAirIs DEF rtllib_softmac_new_net, Networks
<1>2. /\ net' \in NetTypes /\ net'.ap = ap /\ net'.ht = ap.ht /\ net'.qos = ap.qos /\ (net'.mode = "N" <=> ap.ht)
      /\ net'.vendors \subseteq {ap.vendor} /\ ~net'.active /\ net'.cnt = 0
  BY <1>1, DescribedIs
<1>3. Describes(net)'
  BY <1>1, <1>2 DEF Describes
<1> DEFINE h == HTResetIOTSetting(ht)
<1>4. /\ h \in HtTypes /\ h.peer = "unknown" /\ ~h.cts /\ ~h.pureN
  BY DEF LinkInv, LinkTypeOK, HTResetIOTSetting, HtTypes, Vendors
<1>5. ht' = HTResetSelfAndSavePeerSetting(h, net')
  BY <1>1 DEF rtllib_softmac_new_net
<1> HIDE DEF h
<1>6. ht' \in HtTypes /\ Kept'
  <2>1. CASE net'.qos /\ net'.ht
    <3> DEFINE p == HTIOTPeerDetermine(net')
               r == "realtek" \in net'.vendors
    <3>1. ht' = [h EXCEPT !.support = TRUE, !.cap = net'.ap, !.infoOf = net'.ap, !.infoOp = net'.op,
                          !.rt2rt = r, !.peer = p]
      BY <1>5, <2>1 DEF HTResetSelfAndSavePeerSetting
    <3>2. p \in {"unknown", ap.vendor} /\ p \in Vendors
      BY <1>2, PeerIs
    <3>3. r \in BOOLEAN /\ (r => ap.vendor = "realtek")
      BY <1>2
    <3>4. net'.op \in 0 .. 3 /\ net'.ap \in Networks
      BY <1>1, <1>2 DEF NetTypes
    <3> HIDE DEF p, r
    <3>5. ht' \in HtTypes
      <4>1. \A w \in Networks, x \in BOOLEAN : [h EXCEPT !.support = TRUE, !.cap = w, !.rt2rt = x] \in HtTypes
        BY ONLY <1>4 DEF HtTypes
      <4>2. \A g \in HtTypes, o \in 0 .. 3, w \in Networks, v \in Vendors :
               [g EXCEPT !.infoOf = w, !.infoOp = o, !.peer = v] \in HtTypes
        BY ONLY DEF HtTypes
      <4> DEFINE g == [h EXCEPT !.support = TRUE, !.cap = net'.ap, !.rt2rt = r]
      <4>3. ht' = [g EXCEPT !.infoOf = net'.ap, !.infoOp = net'.op, !.peer = p]
        BY ONLY <3>1, <1>4 DEF HtTypes
      <4>4. g \in HtTypes
        BY ONLY <3>3, <3>4, <4>1
      <4> HIDE DEF g
      <4> QED
        BY ONLY <3>2, <3>4, <4>2, <4>3, <4>4
    <3>6. /\ ht'.support /\ ht'.cap = ap /\ ht'.infoOf = ap /\ ht'.rt2rt = r /\ ht'.peer = p
          /\ ~ht'.cts /\ ~ht'.pureN
      BY <1>2, <1>4, <3>1 DEF HtTypes
    <3> QED
      BY <3>5, <3>6, <3>2, <3>3, <1>2, <2>1 DEF Kept
  <2>2. CASE ~(net'.qos /\ net'.ht)
    <3>1. ht' = [h EXCEPT !.support = FALSE]
      BY <1>5, <2>2 DEF HTResetSelfAndSavePeerSetting
    <3>2. ht' \in HtTypes /\ ~ht'.support /\ ht'.peer = "unknown" /\ ~ht'.cts /\ ~ht'.pureN
      BY <1>4, <3>1 DEF HtTypes
    <3> QED
      BY <3>2, <2>2 DEF Kept, HtTypes
  <2> QED
    BY <2>1, <2>2
<1>7. LinkTypeOK'
  BY <1>1, <1>2, <1>6, LinkConstants DEF LinkInv, LinkTypeOK, rtllib_softmac_new_net
<1>8. Requested' /\ Completed' /\ Heard'
  BY DEF LinkInv, rtllib_softmac_new_net, Requested, Linked, Completed, Heard
<1>9. Followed'
  <2>1. rtllib_qos_convert_ac_to_parameters(StartAir) = {}
    BY <1>1 DEF rtllib_qos_convert_ac_to_parameters
  <2> QED
    BY <2>1, <1>1 DEF Followed, rtllib_softmac_new_net, rtllib_qos_convert_ac_to_parameters
<1> QED
  BY <1>3, <1>6, <1>7, <1>8, <1>9 DEF LinkInv

(* Steps that change neither what is known of the network nor the settings.   *)
LEMMA SettingsStay ==
    ASSUME LinkInv, UNCHANGED <<air, net, ht, link, acm, missed, changes>>, ratr'.mcs \subseteq Mcs,
           Requested', Completed', Heard'
    PROVE  LinkInv'
BY DEF LinkInv, LinkTypeOK, Describes, Kept, Followed

LEMMA StateKeeps ==
    ASSUME LinkInv, rtllib_associate_step1 \/ AssocFails \/ RxDeauth \/ rtllib_stop_protocol
    PROVE  LinkInv'
<1>1. UNCHANGED <<air, net, ht, link, asked, acm, missed, changes, ratr>> /\ ratr.mcs \subseteq Mcs
  BY DEF LinkInv, LinkTypeOK, rtllib_associate_step1, AssocFails, RxDeauth, rtllib_stop_protocol
<1>2. ~Linked'
  BY DEF rtllib_associate_step1, AssocFails, RxDeauth, rtllib_stop_protocol, Linked
<1>3. Completed'
  BY <1>2 DEF Completed
<1>4. state' # "AUTHENTICATED" /\ state' # "LINKED_SCANNING"
  BY DEF rtllib_associate_step1, AssocFails, RxDeauth, rtllib_stop_protocol
<1>5. wq' # "scan"
  BY DEF LinkInv, Requested, rtllib_associate_step1, AssocFails, RxDeauth, rtllib_stop_protocol
<1>6. Requested'
  BY <1>2, <1>4, <1>5 DEF Requested
<1>7. Heard'
  BY <1>1 DEF LinkInv, Heard, rtllib_associate_step1, AssocFails, RxDeauth, rtllib_stop_protocol
<1> QED
  BY <1>1, <1>3, <1>6, <1>7, SettingsStay

LEMMA ScanKeeps == ASSUME LinkInv, rtllib_wx_sync_scan_wq PROVE LinkInv'
<1>1. UNCHANGED <<air, net, ht, link, asked, acm, works, heard, missed, changes>>
  BY DEF rtllib_wx_sync_scan_wq
<1>2. Heard'
  BY <1>1 DEF LinkInv, Heard
<1>3. Linked /\ Linked' /\ wq \in {"idle", "scan"} /\ wq' \in {"idle", "scan"}
  BY DEF LinkInv, Requested, rtllib_wx_sync_scan_wq, Linked
<1>4. Requested'
  BY <1>1, <1>3 DEF LinkInv, Requested, rtllib_wx_sync_scan_wq, Linked
<1>5. ratr' = ratr \/ ratr'.mcs \subseteq link.rates
  BY DEF rtllib_wx_sync_scan_wq, rtl8192_link_change, rtl8192_update_ratr_table
<1>6. ratr'.mcs \subseteq Mcs
  BY <1>5 DEF LinkInv, LinkTypeOK, LinkTypes
<1>7. Completed'
  BY <1>1, <1>3, <1>5 DEF LinkInv, Completed, Widened, Taken, PeerRates
<1> QED
  BY <1>1, <1>2, <1>4, <1>6, <1>7, SettingsStay

LEMMA RefusedKeeps == ASSUME LinkInv, AssocRefused PROVE LinkInv'
<1>1. UNCHANGED <<air, state, net, link, asked, acm, wq, ratr, heard, missed, changes>> /\ ~Linked' /\ ~Linked
      /\ state = "AUTHENTICATED" /\ works' = works \cup {"procedure"}
  BY DEF AssocRefused, Linked
<1>2. /\ ht' \in HtTypes /\ ht'.support = ht.support /\ ht'.cap = ht.cap /\ ht'.infoOf = ht.infoOf
      /\ ht'.rt2rt = ht.rt2rt /\ ht'.peer = ht.peer /\ ht'.cts = ht.cts /\ ht'.enable = ht.enable /\ ht'.op = ht.op
      /\ (ht'.pureN = ht.pureN \/ net.ap.sec \in {"wep", "tkip"})
  <2>1. CASE ht' = ht
    BY <2>1 DEF LinkInv, LinkTypeOK
  <2>2. CASE link.mode = "G" /\ net.mode = "N" /\ ht' = [ht EXCEPT !.pureN = TRUE]
    BY <1>1, <2>2 DEF LinkInv, LinkTypeOK, HtTypes, Requested
  <2> QED
    BY <2>1, <2>2 DEF AssocRefused
<1>3. LinkTypeOK'
  BY <1>1, <1>2 DEF LinkInv, LinkTypeOK
<1>4. Kept'
  BY <1>1, <1>2 DEF LinkInv, Kept
<1>5. Requested'
  BY <1>1, <1>2 DEF LinkInv, Requested
<1>6. Completed'
  BY <1>1 DEF Completed
<1>7. Heard' /\ Followed' /\ Describes(net)'
  BY <1>1, <1>2 DEF LinkInv, Heard, Followed, Describes
<1> QED
  BY <1>3, <1>4, <1>5, <1>6, <1>7 DEF LinkInv

LEMMA ProcedureKeeps == ASSUME LinkInv, rtllib_associate_procedure_wq PROVE LinkInv'
<1>1. /\ UNCHANGED <<air, state, net, link, asked, acm, ratr, heard, missed, changes>>
      /\ wq = "idle" /\ wq' = "procedure" /\ works' = works \ {"procedure"}
  BY DEF rtllib_associate_procedure_wq
<1>2. /\ ht' \in HtTypes /\ ht'.support = ht.support /\ ht'.cap = ht.cap /\ ht'.infoOf = ht.infoOf
      /\ ht'.rt2rt = ht.rt2rt /\ ht'.peer = ht.peer /\ ht'.cts = ht.cts /\ ht'.enable = ht.enable /\ ht'.op = ht.op
      /\ ht'.pureN = ht.pureN
  <2>1. ht' = [ht EXCEPT !.bw40 = FALSE]
    BY DEF rtllib_associate_procedure_wq, HTSetConnectBwMode
  <2> QED
    BY <2>1 DEF LinkInv, LinkTypeOK, HtTypes
<1>3. LinkTypeOK'
  BY <1>1, <1>2 DEF LinkInv, LinkTypeOK
<1>4. Kept'
  BY <1>1, <1>2 DEF LinkInv, Kept
<1>5. Requested'
  BY <1>1, <1>2 DEF LinkInv, Requested, Linked
<1>6. Completed'
  BY <1>1 DEF Completed
<1>7. Heard' /\ Followed' /\ Describes(net)'
  BY <1>1, <1>2 DEF LinkInv, Heard, Followed, Describes
<1> QED
  BY <1>3, <1>4, <1>5, <1>6, <1>7 DEF LinkInv

LEMMA CtsKeeps == ASSUME LinkInv, NEW uplink \in BOOLEAN, dm_ctstoself(uplink) PROVE LinkInv'
<1>1. UNCHANGED <<air, state, net, link, asked, acm, works, wq, ratr, heard, missed, changes>> /\ ht.peer = "broadcom"
      /\ ht' = [ht EXCEPT !.cts = uplink]
  BY DEF dm_ctstoself
<1>2. /\ ht' \in HtTypes /\ ht'.support = ht.support /\ ht'.cap = ht.cap /\ ht'.infoOf = ht.infoOf
      /\ ht'.rt2rt = ht.rt2rt /\ ht'.peer = ht.peer /\ ht'.cts = uplink /\ ht'.enable = ht.enable /\ ht'.op = ht.op
      /\ ht'.pureN = ht.pureN /\ ht'.bw40 = ht.bw40 /\ ht'.tx40 = ht.tx40 /\ ht'.sgi20 = ht.sgi20
      /\ ht'.sgi40 = ht.sgi40 /\ ht'.density = ht.density /\ ht'.factor = ht.factor
  BY <1>1 DEF LinkInv, LinkTypeOK, HtTypes
<1>3. LinkTypeOK'
  BY <1>1, <1>2 DEF LinkInv, LinkTypeOK
<1>4. Kept'
  BY <1>1, <1>2 DEF LinkInv, Kept
<1>5. Requested'
  BY <1>1, <1>2 DEF LinkInv, Requested, Linked
<1>6. Completed'
  BY <1>1, <1>2 DEF LinkInv, Completed, Linked, Widened, Taken, PeerRates
<1>7. Heard' /\ Followed' /\ Describes(net)'
  BY <1>1, <1>2 DEF LinkInv, Heard, Followed, Describes
<1> QED
  BY <1>3, <1>4, <1>5, <1>6, <1>7 DEF LinkInv

LEMMA UpdateBeaconKeeps == ASSUME LinkInv, rtl8192_update_beacon PROVE LinkInv'
<1>1. UNCHANGED <<air, state, net, link, asked, acm, wq, ratr, heard, missed, changes>> /\ works' = works \ {"beacon"}
  BY DEF rtl8192_update_beacon
<1>2. /\ ht' \in HtTypes /\ ht'.support = ht.support /\ ht'.cap = ht.cap /\ ht'.infoOf = ht.infoOf
      /\ ht'.rt2rt = ht.rt2rt /\ ht'.peer = ht.peer /\ ht'.cts = ht.cts /\ ht'.enable = ht.enable
      /\ ht'.pureN = ht.pureN /\ ht'.bw40 = ht.bw40 /\ ht'.tx40 = ht.tx40 /\ ht'.sgi20 = ht.sgi20
      /\ ht'.sgi40 = ht.sgi40 /\ ht'.density = ht.density /\ ht'.factor = ht.factor
      /\ (ht.support => ht'.op = net.op)
  <2>1. ht \in HtTypes /\ net.op \in 0 .. 3 /\ (ht.support => net.ht)
    BY DEF LinkInv, LinkTypeOK, Kept, NetTypes
  <2>2. CASE ht.support /\ net.ht
    <3>1. ht' = [ht EXCEPT !.op = net.op]
      BY <2>2 DEF rtl8192_update_beacon, HTUpdateSelfAndPeerSetting
    <3> QED
      BY <3>1, <2>1 DEF HtTypes
  <2>3. CASE ~(ht.support /\ net.ht)
    BY <2>1, <2>3 DEF rtl8192_update_beacon
  <2> QED
    BY <2>2, <2>3
<1>3. LinkTypeOK'
  BY <1>1, <1>2 DEF LinkInv, LinkTypeOK
<1>4. Kept'
  BY <1>1, <1>2 DEF LinkInv, Kept
<1>5. Requested'
  BY <1>1, <1>2 DEF LinkInv, Requested, Linked
<1>6. Completed'
  BY <1>1, <1>2 DEF LinkInv, Completed, Linked, Widened, Taken, PeerRates
<1>7. Heard' /\ Followed' /\ Describes(net)'
  BY <1>1, <1>2 DEF LinkInv, Heard, Followed, Describes
<1> QED
  BY <1>3, <1>4, <1>5, <1>6, <1>7 DEF LinkInv

LEMMA ProbeKeeps ==
    ASSUME LinkInv, NEW beacon \in BOOLEAN, rtllib_process_probe_response(beacon) PROVE LinkInv'
<1> DEFINE desc == UpdateProtection(update_network(net, Described[net.ap][air]))
           conv == rtllib_qos_convert_ac_to_parameters(air)
<1>1. /\ desc \in NetTypes /\ desc.ap = net.ap /\ Describes(desc) /\ desc.active = net.active
      /\ (desc.mode \in {"G", "N"} => desc.prot = desc.erp)
      /\ desc.old = net.cnt /\ (desc.ht => desc.op = air.op)
      /\ (desc.qos => desc.acm = conv /\ desc.cnt = air.cnt) /\ (~desc.qos => desc.cnt = 0)
  BY UpdatedIs DEF LinkInv
<1>2. UNCHANGED <<air, state, ht, link, asked, carrier, wq, ratr, joins, changes>>
  BY DEF rtllib_process_probe_response
<1>3. /\ net' \in NetTypes /\ net'.ap = desc.ap /\ net'.ht = desc.ht /\ net'.qos = desc.qos /\ net'.mode = desc.mode
      /\ net'.vendors = desc.vendors /\ net'.cnt = desc.cnt /\ net'.op = desc.op /\ net'.acm = desc.acm
      /\ net'.prot = desc.prot /\ net'.erp = desc.erp /\ (net'.active => net'.qos)
      /\ (heard' => IF desc.qos /\ desc.old # desc.cnt THEN acm' = desc.acm ELSE UNCHANGED <<acm, missed>>)
      /\ (~heard' => acm' = acm /\ (missed' = (missed \/ desc.old # desc.cnt)))
      /\ (heard' => "beacon" \in works')
      /\ works' \cup {"beacon"} = works \cup {"beacon"}
  <2>1. CASE beacon /\ state = "LINKED"
    <3>1. rtl8192_qos_handle_probe_response(desc) /\ works' = works \cup {"beacon"} /\ heard'
      BY <2>1 DEF rtllib_process_probe_response
    <3> HIDE DEF desc
    <3>2. CASE desc.qos
      <4>1. net' = [desc EXCEPT !.active = TRUE, !.old = desc.cnt]
        BY <3>1, <3>2 DEF rtl8192_qos_handle_probe_response
      <4>2. IF desc.old # desc.cnt THEN acm' = desc.acm /\ missed' = FALSE ELSE UNCHANGED <<acm, missed>>
        BY <3>1, <3>2 DEF rtl8192_qos_handle_probe_response
      <4> QED
        BY <3>1, <3>2, <4>1, <4>2, <1>1 DEF NetTypes
    <3>3. CASE ~desc.qos
      <4>1. net' = [desc EXCEPT !.active = FALSE] /\ UNCHANGED <<acm, missed>>
        BY <3>1, <3>3 DEF rtl8192_qos_handle_probe_response
      <4> QED
        BY <3>1, <3>3, <4>1, <1>1 DEF NetTypes
    <3> QED
      BY <3>2, <3>3
  <2>2. CASE ~(beacon /\ state = "LINKED")
    <3>1. net' = desc /\ ~heard' /\ UNCHANGED <<acm, works>> /\ missed' = (missed \/ desc.old # desc.cnt)
      BY <2>2 DEF rtllib_process_probe_response
    <3> HIDE DEF desc
    <3>2. desc.active => desc.qos
      BY <1>1 DEF Describes
    <3>3. /\ net' \in NetTypes /\ net'.ap = desc.ap /\ net'.ht = desc.ht /\ net'.qos = desc.qos /\ net'.mode = desc.mode
          /\ net'.vendors = desc.vendors /\ net'.cnt = desc.cnt /\ net'.op = desc.op /\ net'.acm = desc.acm
          /\ net'.prot = desc.prot /\ net'.erp = desc.erp /\ (net'.active => net'.qos)
          /\ works' \cup {"beacon"} = works \cup {"beacon"}
      BY <3>1, <3>2, <1>1
    <3>4. ~heard' /\ acm' = acm /\ missed' = (missed \/ desc.old # desc.cnt)
      BY <3>1
    <3> QED
      BY <3>3, <3>4, Zenon
  <2> QED
    BY <2>1, <2>2
<1> HIDE DEF desc
<1>4. /\ net.ht = net.ap.ht /\ net.qos = net.ap.qos /\ (net.mode = "N" <=> net.ap.ht)
      /\ desc.ht = net.ap.ht /\ desc.qos = net.ap.qos /\ (desc.mode = "N" <=> net.ap.ht)
  BY <1>1 DEF LinkInv, Describes
<1>5. LinkTypeOK'
  BY <1>2, <1>3 DEF LinkInv, LinkTypeOK
<1>6. Describes(net)'
  BY <1>1, <1>2, <1>3 DEF Describes
<1>7. Kept'
  BY <1>1, <1>2, <1>3, <1>4 DEF LinkInv, Kept
<1>8. Requested'
  BY <1>1, <1>2, <1>3, <1>4 DEF LinkInv, Requested, Linked
<1>9. "complete" \in works' <=> "complete" \in works
  BY <1>3
<1>10. Completed'
  BY <1>1, <1>2, <1>3, <1>9 DEF LinkInv, Completed, Linked, Widened, Taken, PeerRates
<1>11. net.qos /\ ~missed' /\ acm' = acm => (desc.old = desc.cnt => acm' = conv) 
  <2> SUFFICES ASSUME net.qos, ~missed', acm' = acm, desc.old = desc.cnt PROVE acm' = conv
    OBVIOUS
  <2>1. net.cnt = air.cnt
    BY <1>1, <1>4
  <2>2. ~missed
    BY <1>3, <1>4
  <2> QED
    BY <2>1, <2>2 DEF LinkInv, Followed, conv
<1>12. net'.qos /\ ~missed' => acm' = conv
  BY <1>1, <1>3, <1>4, <1>11
<1>13. Heard'
  BY <1>1, <1>3, <1>4, <1>12 DEF Heard
<1>14. Followed'
  <2>1. rtllib_qos_convert_ac_to_parameters(air)' = conv
    BY <1>2 DEF rtllib_qos_convert_ac_to_parameters
  <2> HIDE DEF conv
  <2> QED
    BY <2>1, <1>12 DEF Followed
<1> QED
  BY <1>5, <1>6, <1>7, <1>8, <1>10, <1>13, <1>14 DEF LinkInv

(* The authentication response: the mode asked for.                          *)
LEMMA AuthKeeps == ASSUME LinkInv, RxAuth PROVE LinkInv'
<1> DEFINE byCfg == ht.pureN \/ GetNmodeSupportBySecCfg
           nmode     == byCfg \/ IsHTHalfNmodeAPs
           half  == ~byCfg /\ IsHTHalfNmodeAPs /\ net.mode = "N"
           mode  == AssocMode(rtl8192_SetWirelessMode(IF nmode THEN net.mode ELSE "G"))
<1>1. /\ link' = [link EXCEPT !.mode = mode, !.half = half] /\ ht' = [ht EXCEPT !.enable = mode = "N"]
      /\ asked' = (IF ht.support /\ mode = "N"
                   THEN HTConstructCapabilityElement(half, net.ap.sec # "none") ELSE NoRequest)
      /\ state = "AUTHENTICATING" /\ state' = "AUTHENTICATED"
      /\ UNCHANGED <<air, net, acm, carrier, works, wq, ratr, heard, missed, joins, changes>>
  BY DEF RxAuth
<1>2. net.mode \in Modes
  BY DEF LinkInv, LinkTypeOK, NetTypes
<1>3. /\ mode \in Modes /\ half \in BOOLEAN
      /\ mode = "N" => net.mode = "N" /\ net.ap.sec # "tkip"
      /\ mode = "G" /\ net.mode = "N" => net.ap.sec \in {"wep", "tkip"}
  BY <1>2 DEF AssocMode, rtl8192_SetWirelessMode, rtllib_ap_sec_type, GetNmodeSupportBySecCfg, Modes
<1> HIDE DEF mode, half
<1>4. link' \in LinkTypes /\ link'.mode = mode /\ link'.half = half
  BY <1>1, <1>3 DEF LinkInv, LinkTypeOK, LinkTypes
<1>5. /\ ht' \in HtTypes /\ ht'.support = ht.support /\ ht'.cap = ht.cap /\ ht'.infoOf = ht.infoOf
      /\ ht'.rt2rt = ht.rt2rt /\ ht'.peer = ht.peer /\ ht'.cts = ht.cts /\ ht'.enable = (mode = "N") /\ ht'.op = ht.op
      /\ ht'.pureN = ht.pureN
  BY <1>1 DEF LinkInv, LinkTypeOK, HtTypes
<1>6. LinkTypeOK'
  BY <1>1, <1>4, <1>5 DEF LinkInv, LinkTypeOK
<1>7. Kept'
  BY <1>1, <1>5 DEF LinkInv, Kept
<1>8. mode = "N" => ht.support
  <2>1. net.mode = "N" => net.ap.ht /\ net.ap.qos
    BY ApFacts DEF LinkInv, LinkTypeOK, Describes, NetTypes
  <2> QED
    BY <2>1, <1>3 DEF LinkInv, Describes, Kept
<1>9. (state' = "LINKED_SCANNING") = (wq' = "scan")
  BY <1>1 DEF LinkInv, Requested
<1>10. mode = "N" => asked' = HTConstructCapabilityElement(half, net.ap.sec # "none")
  BY <1>1, <1>8
<1>11. Requested'
  BY <1>1, <1>3, <1>4, <1>5, <1>9, <1>10 DEF Requested, HTConstructCapabilityElement
<1>12. Completed'
  BY <1>1 DEF Completed, Linked
<1>13. Heard' /\ Followed' /\ Describes(net)'
  BY <1>1, <1>5 DEF LinkInv, Heard, Followed, Describes
<1> QED
  BY <1>6, <1>7, <1>11, <1>12, <1>13 DEF LinkInv

(* The association response.                                                 *)
LEMMA AssocKeeps == ASSUME LinkInv, RxAssocOk PROVE LinkInv'
<1> DEFINE seen == Described[net.ap][air]
           conv == rtllib_qos_convert_ac_to_parameters(air)
<1>1. /\ state = "AUTHENTICATED" /\ state' = "LINKED" /\ works' = works \cup {"complete"} /\ ~missed' /\ ~heard'
      /\ UNCHANGED <<air, link, asked, carrier, wq, ratr, joins, changes>>
  BY DEF RxAssocOk
<1>2. net \in NetTypes /\ net.ap \in Networks /\ air \in Announcements /\ air.op \in 0 .. 3 /\ air.cnt \in Nat
      /\ net.ht = net.ap.ht /\ net.qos = net.ap.qos
  BY AirFacts, LinkConstants DEF LinkInv, LinkTypeOK, NetTypes, Describes
<1>3. seen.qos = net.ap.qos /\ (net.ap.qos => seen.acm = conv /\ seen.cnt = air.cnt)
  BY <1>2, DescribedIs
<1>4. IF seen.qos
      THEN net' = [net EXCEPT !.active = TRUE, !.old = net.cnt, !.cnt = seen.cnt] /\ acm' = seen.acm
      ELSE net' = [net EXCEPT !.active = FALSE] /\ UNCHANGED acm
  BY DEF RxAssocOk
<1> HIDE DEF seen
<1>5. /\ net' \in NetTypes /\ net'.ap = net.ap /\ net'.ht = net.ht /\ net'.qos = net.qos /\ net'.mode = net.mode
      /\ net'.vendors = net.vendors /\ net'.op = net.op /\ (net'.active => net.qos)
      /\ (net.qos => net'.cnt = air.cnt /\ acm' = conv) /\ (~net.qos => net'.cnt = net.cnt)
  <2>1. CASE seen.qos
    <3>1. net' = [net EXCEPT !.active = TRUE, !.old = net.cnt, !.cnt = seen.cnt] /\ acm' = seen.acm
      BY ONLY <1>4, <2>1
    <3>2. net \in NetTypes /\ net.cnt \in Nat
      BY ONLY <1>2 DEF NetTypes
    <3>3. net.qos /\ seen.acm = conv /\ seen.cnt = air.cnt /\ seen.cnt \in Nat
      BY ONLY <1>2, <1>3, <2>1
    <3>4. net' \in NetTypes
      BY ONLY <3>1, <3>2, <3>3 DEF NetTypes
    <3>5. /\ net'.ap = net.ap /\ net'.ht = net.ht /\ net'.qos = net.qos /\ net'.mode = net.mode
          /\ net'.vendors = net.vendors /\ net'.op = net.op /\ net'.cnt = seen.cnt
      BY ONLY <3>1, <3>2 DEF NetTypes
    <3> QED
      BY ONLY <3>1, <3>3, <3>4, <3>5
  <2>2. CASE ~seen.qos
    BY <1>2, <1>3, <1>4, <2>2 DEF NetTypes
  <2> QED
    BY <2>1, <2>2
<1>6. /\ ht' \in HtTypes /\ ht'.support = ht.support /\ ht'.rt2rt = ht.rt2rt /\ ht'.peer = ht.peer
      /\ ht'.cts = ht.cts /\ ht'.enable = ht.enable /\ ht'.op = ht.op /\ ht'.pureN = ht.pureN
      /\ (net.ht => ht'.cap = net.ap /\ ht'.infoOf = net.ap)
  <2>1. ht \in HtTypes
    BY DEF LinkInv, LinkTypeOK
  <2>2. CASE net.ht
    <3>1. ht' = [ht EXCEPT !.cap = net.ap, !.infoOf = net.ap, !.infoOp = air.op]
      BY <2>2 DEF RxAssocOk
    <3> QED
      BY <3>1, <2>1, <1>2 DEF HtTypes
  <2>3. CASE ~net.ht
    BY <2>1, <2>3 DEF RxAssocOk
  <2> QED
    BY <2>2, <2>3
<1>7. LinkTypeOK'
  BY <1>1, <1>5, <1>6 DEF LinkInv, LinkTypeOK
<1>8. Describes(net)'
  BY <1>1, <1>2, <1>5 DEF LinkInv, Describes
<1>9. Kept'
  BY <1>5, <1>6 DEF LinkInv, Kept
<1>10. Requested'
  BY <1>1, <1>5, <1>6 DEF LinkInv, Requested, Linked
<1>11. Completed' /\ Heard'
  BY <1>1 DEF Completed, Heard
<1>12. Followed'
  <2>1. rtllib_qos_convert_ac_to_parameters(air)' = conv
    BY <1>1 DEF rtllib_qos_convert_ac_to_parameters
  <2> HIDE DEF conv
  <2> QED
    BY <2>1, <1>5 DEF Followed
<1> QED
  BY <1>7, <1>8, <1>9, <1>10, <1>11, <1>12 DEF LinkInv

(* In mode N the access point is one of 802.11n.                              *)
LEMMA InModeN ==
    ASSUME LinkInv, Linked, link.mode = "N"
    PROVE  /\ net.ap.ht /\ ht.support /\ ht.enable /\ net.ap.sec # "tkip"
           /\ ht.cap = net.ap /\ ht.infoOf = net.ap /\ (ht.rt2rt => net.ap.vendor = "realtek")
           /\ asked = HTConstructCapabilityElement(link.half, net.ap.sec # "none")
<1>1. net.ap \in Networks
  BY DEF LinkInv, LinkTypeOK, NetTypes
<1>2. net.ap.ht /\ net.ap.qos /\ net.ht /\ net.qos
  BY <1>1, ApFacts DEF LinkInv, Requested, Describes
<1> QED
  BY <1>2 DEF LinkInv, Requested, Kept

LEMMA CompleteKeeps == ASSUME LinkInv, rtllib_associate_complete_wq PROVE LinkInv'
<1> DEFINE l == [link EXCEPT !.rate = IF rtllib_is_54g THEN 108 ELSE 22]
<1>1. /\ wq = "idle" /\ works' = works \ {"complete"}
      /\ UNCHANGED <<air, state, net, asked, acm, heard, missed, joins, changes>>
  BY DEF rtllib_associate_complete_wq
<1>2. /\ l \in LinkTypes /\ l.mode = link.mode /\ l.half = link.half
  <2>1. (IF rtllib_is_54g THEN 108 ELSE 22) \in {22, 108}
    OBVIOUS
  <2> QED
    BY <2>1 DEF LinkInv, LinkTypeOK, LinkTypes
<1>3. state # "LINKED_SCANNING"
  BY <1>1 DEF LinkInv, Requested
<1>4. Linked' <=> state = "LINKED"
  BY <1>1, <1>3 DEF Linked
<1>5. CASE ht.support /\ ht.enable
  <2>1. /\ ht' = [ht EXCEPT !.bw40 = HTSetConnectBwMode(ht.cap.w40, ht.infoOf.ext)]
        /\ link' = l /\ wq' = "complete" /\ ratr' = ratr
    BY <1>5 DEF rtllib_associate_complete_wq
  <2>2. HTSetConnectBwMode(ht.cap.w40, ht.infoOf.ext) \in BOOLEAN
    BY DEF HTSetConnectBwMode
  <2>3. /\ ht' \in HtTypes /\ ht'.support = ht.support /\ ht'.cap = ht.cap /\ ht'.infoOf = ht.infoOf
        /\ ht'.rt2rt = ht.rt2rt /\ ht'.peer = ht.peer /\ ht'.cts = ht.cts /\ ht'.enable = ht.enable /\ ht'.op = ht.op
        /\ ht'.pureN = ht.pureN /\ ht'.bw40 = HTSetConnectBwMode(ht.cap.w40, ht.infoOf.ext)
    BY <2>1, <2>2 DEF LinkInv, LinkTypeOK, HtTypes
  <2> HIDE DEF l
  <2>4. LinkTypeOK'
    BY <1>1, <1>2, <2>1, <2>3 DEF LinkInv, LinkTypeOK
  <2>5. Kept'
    BY <1>1, <2>3 DEF LinkInv, Kept
  <2>6. Requested'
    BY <1>1, <1>2, <1>3, <2>1, <2>3 DEF LinkInv, Requested, Linked
  <2>7. ASSUME Linked PROVE link.mode = "N" /\ Widened'
    <3>1. link.mode = "N"
      BY <1>5, <2>7 DEF LinkInv, Requested
    <3>2. ht.cap = net.ap /\ ht.infoOf = net.ap
      BY <3>1, <2>7, InModeN
    <3> QED
      BY <3>1, <3>2, <1>1, <1>2, <2>1, <2>3 DEF Widened, HTSetConnectBwMode
  <2>8. Completed'
    BY <1>1, <1>2, <2>1, <2>7 DEF Completed, Linked
  <2>9. Heard' /\ Followed' /\ Describes(net)'
    BY <1>1, <2>3 DEF LinkInv, Heard, Followed, Describes
  <2> QED
    BY <2>4, <2>5, <2>6, <2>8, <2>9 DEF LinkInv
<1>6. CASE ~(ht.support /\ ht.enable)
  <2>1. /\ link' = [l EXCEPT !.rates = {}] /\ rtl8192_link_change(state, ht, link') /\ UNCHANGED <<ht, wq>>
    BY <1>6 DEF rtllib_associate_complete_wq
  <2> HIDE DEF l
  <2>2. /\ link' \in LinkTypes /\ link'.mode = link.mode /\ link'.half = link.half /\ link'.rates = {}
    BY <1>2, <2>1 DEF LinkTypes
  <2>3. (state = "LINKED" => ratr'.mcs = {}) /\ (state # "LINKED" => ratr' = ratr)
    BY <2>1, <2>2 DEF rtl8192_link_change, rtl8192_update_ratr_table
  <2>4. LinkTypeOK'
    BY <1>1, <2>1, <2>2, <2>3 DEF LinkInv, LinkTypeOK
  <2>5. Kept' /\ Heard' /\ Followed' /\ Describes(net)'
    BY <1>1, <2>1 DEF LinkInv, Kept, Heard, Followed, Describes
  <2>6. Requested'
    BY <1>1, <2>1, <2>2 DEF LinkInv, Requested, Linked
  <2>7. Linked => link.mode # "N"
    BY <1>6, InModeN
  <2>8. Completed'
    BY <1>1, <1>4, <2>1, <2>2, <2>3, <2>7 DEF Completed, Linked
  <2> QED
    BY <2>4, <2>5, <2>6, <2>8 DEF LinkInv
<1> QED
  BY <1>5, <1>6

LEMMA RatesAre ==
    ASSUME link \in LinkTypes, ht.cap \in Networks
    PROVE  LET l == HTOnAssocRspRates IN
           /\ l \in LinkTypes /\ l.mode = link.mode /\ l.half = link.half
           /\ ht.cap = net.ap => l.rates \subseteq PeerRates
           /\ l.half => l.rates \subseteq 0 .. 7
           /\ l.htRate = 0 \/ (/\ l.htRate - 128 \in l.rates /\ l.htRate >= 128
                               /\ ht.cap.static => l.htRate - 128 \in 0 .. 7)
<1> DEFINE peer == IF ht.cap.mcs \cap (0 .. 7) = {} THEN ht.cap.mcs \cup (0 .. 7) ELSE ht.cap.mcs
           rates == HTFilterMCSRate(peer, link)
           some == IF ht.cap.static THEN 0 .. 7 ELSE Mcs
           r == HTGetHighestMCSRate(rates, some)
<1>1. HTOnAssocRspRates = [link EXCEPT !.rates = rates, !.htRate = r]
  BY DEF HTOnAssocRspRates
<1>2. peer \subseteq Mcs /\ (ht.cap = net.ap => peer = PeerRates)
  <2>1. ht.cap.mcs \subseteq Mcs /\ 0 .. 7 \subseteq Mcs
    BY ApFacts DEF Mcs
  <2> QED
    BY <2>1 DEF PeerRates
<1>3. rates \subseteq peer /\ (link.half => rates \subseteq 0 .. 7)
  BY DEF HTFilterMCSRate, HT_PickMCSRate
<1> HIDE DEF rates, some, peer
<1>4. rates \in SUBSET Mcs
  BY <1>2, <1>3
<1>5. r = 0 \/ (r \in 128 .. 143 /\ r - 128 \in rates \cap some)
  BY <1>4, HighestIs
<1> HIDE DEF r
<1>6. r \in Nat
  BY <1>5
<1>7. /\ HTOnAssocRspRates \in LinkTypes /\ HTOnAssocRspRates.mode = link.mode
      /\ HTOnAssocRspRates.half = link.half /\ HTOnAssocRspRates.rates = rates /\ HTOnAssocRspRates.htRate = r
  BY <1>1, <1>4, <1>6 DEF LinkTypes
<1>8. r = 0 \/ (r >= 128 /\ r - 128 \in rates /\ (ht.cap.static => r - 128 \in 0 .. 7))
  BY <1>5 DEF some
<1> QED
  BY <1>2, <1>3, <1>7, <1>8

LEMMA AssocRspKeeps == ASSUME LinkInv, HTOnAssocRsp PROVE LinkInv'
<1>1. /\ wq = "complete" /\ wq' = "idle" /\ ~heard' /\ link' = HTOnAssocRspRates
      /\ rtl8192_link_change(state, ht', link')
      /\ UNCHANGED <<air, state, net, asked, acm, carrier, works, missed, joins, changes>>
  BY DEF HTOnAssocRsp
<1>2. PICK keyed \in BOOLEAN : ht' = HTOnAssocRspInfo(keyed)
  BY DEF HTOnAssocRsp
<1>3. link \in LinkTypes /\ ht \in HtTypes /\ ht.cap \in Networks /\ ht.infoOf \in Networks /\ net.ap \in Networks
  BY DEF LinkInv, LinkTypeOK, HtTypes, NetTypes
<1> DEFINE f == IF ~ht.rt2rt THEN Min({ht.cap.factor, 2}) ELSE IF keyed THEN ht.cap.factor ELSE 3
           a == ~(rtllib_ap_sec_type \in {"wep", "tkip"} /\ ht.peer \in {"atheros", "unknown"})
<1>4. /\ ht' = [ht EXCEPT !.tx40 = ht.infoOf.tx40, !.sgi20 = ht.cap.sgi20, !.sgi40 = ht.cap.sgi40,
                         !.ampdu = a, !.factor = f, !.density = ht.cap.density, !.static = ht.cap.static,
                         !.op = ht.infoOp]
  BY <1>2 DEF HTOnAssocRspInfo
<1>5. f \in Int /\ (~ht.rt2rt => f <= ht.cap.factor)
  <2>1. ht.cap.factor \in 0 .. 3
    BY <1>3, ApFacts
  <2>2. Min({ht.cap.factor, 2}) \in {ht.cap.factor, 2} /\ Min({ht.cap.factor, 2}) <= ht.cap.factor
    BY <2>1, MinIs
  <2> QED
    BY <2>1, <2>2
<1>6. {ht.infoOf.tx40, ht.cap.sgi20, ht.cap.sgi40, ht.cap.static} \subseteq BOOLEAN /\ ht.cap.density \in Int
      /\ ht.infoOp \in 0 .. 3
  BY <1>3, ApFacts DEF HtTypes
<1>7. a \in BOOLEAN
  OBVIOUS
<1> HIDE DEF f, a
<1>8. /\ ht' \in HtTypes /\ ht'.support = ht.support /\ ht'.cap = ht.cap /\ ht'.infoOf = ht.infoOf
      /\ ht'.rt2rt = ht.rt2rt /\ ht'.peer = ht.peer /\ ht'.cts = ht.cts /\ ht'.enable = ht.enable
      /\ ht'.pureN = ht.pureN /\ ht'.bw40 = ht.bw40 /\ ht'.tx40 = ht.infoOf.tx40
  <2>2. ht \in HtTypes
    BY <1>3
  <2>1. ht' \in HtTypes
    <3>1. /\ ht.infoOf.tx40 \in BOOLEAN /\ ht.cap.sgi20 \in BOOLEAN /\ ht.cap.sgi40 \in BOOLEAN
          /\ ht.cap.static \in BOOLEAN /\ ht.cap.density \in Int /\ ht.infoOp \in 0 .. 3 /\ f \in Int
      BY ONLY <1>5, <1>6
    <3> QED
      BY ONLY <2>2, <3>1, <1>7, <1>4, ZenonT(60) DEF HtTypes
  <2>3. /\ ht'.support = ht.support /\ ht'.cap = ht.cap /\ ht'.infoOf = ht.infoOf
        /\ ht'.rt2rt = ht.rt2rt /\ ht'.peer = ht.peer /\ ht'.cts = ht.cts
    BY ONLY <2>2, <1>4 DEF HtTypes
  <2>4. /\ ht'.enable = ht.enable /\ ht'.pureN = ht.pureN /\ ht'.bw40 = ht.bw40
        /\ ht'.tx40 = ht.infoOf.tx40
    BY ONLY <2>2, <1>4 DEF HtTypes
  <2> QED
    BY ONLY <2>1, <2>3, <2>4
<1>9. ht'.sgi20 = ht.cap.sgi20 /\ ht'.sgi40 = ht.cap.sgi40 /\ ht'.density = ht.cap.density /\ ht'.factor = f
  BY <1>3, <1>4 DEF HtTypes
<1>10. /\ link' \in LinkTypes /\ link'.mode = link.mode /\ link'.half = link.half
       /\ ht.cap = net.ap => link'.rates \subseteq PeerRates
       /\ link'.half => link'.rates \subseteq 0 .. 7
       /\ link'.htRate = 0 \/ (/\ link'.htRate - 128 \in link'.rates /\ link'.htRate >= 128
                               /\ ht.cap.static => link'.htRate - 128 \in 0 .. 7)
  BY <1>1, <1>3, RatesAre
<1>11. (state = "LINKED" => ratr'.mcs \subseteq link'.rates) /\ (state # "LINKED" => ratr' = ratr)
  BY <1>1 DEF rtl8192_link_change, rtl8192_update_ratr_table
<1>12. LinkTypeOK'
  <2>1. ratr'.mcs \subseteq Mcs
    BY <1>10, <1>11 DEF LinkInv, LinkTypeOK, LinkTypes
  <2> QED
    BY <1>1, <1>8, <1>10, <2>1 DEF LinkInv, LinkTypeOK
<1>13. Kept'
  BY <1>1, <1>8 DEF LinkInv, Kept
<1>14. Requested'
  BY <1>1, <1>8, <1>10 DEF LinkInv, Requested, Linked
<1>15. Heard' /\ Followed' /\ Describes(net)'
  BY <1>1 DEF LinkInv, Heard, Followed, Describes
<1>16. ASSUME Linked, "complete" \notin works
       PROVE  state = "LINKED" /\ link.mode = "N" /\ Widened' /\ Taken'
  <2>1. state = "LINKED" /\ link.mode = "N" /\ Widened
    BY <1>1, <1>16 DEF LinkInv, Requested, Completed, Linked
  <2>2. ht.cap = net.ap /\ ht.infoOf = net.ap /\ (ht.rt2rt => net.ap.vendor = "realtek")
    BY <1>16, <2>1, InModeN
  <2>3. Widened'
    BY <1>1, <1>8, <1>10, <2>1 DEF Widened
  <2>4. net.ap.vendor # "realtek" => f <= net.ap.factor
    BY <1>5, <2>2
  <2>5. PeerRates' = PeerRates
    BY <1>1 DEF PeerRates
  <2> HIDE DEF PeerRates
  <2>6. Taken'
    BY <1>1, <1>8, <1>9, <1>10, <2>2, <2>4, <2>5 DEF Taken
  <2> QED
    BY <2>1, <2>3, <2>6
<1>17. Completed'
  BY <1>1, <1>10, <1>11, <1>16 DEF Completed, Linked
<1> QED
  BY <1>12, <1>13, <1>14, <1>15, <1>17 DEF LinkInv

LEMMA LinkStep == LinkInv /\ [LinkNext]_linkVars => LinkInv'
<1>1. ASSUME LinkInv, LinkNext PROVE LinkInv'
  BY <1>1, ApChangesKeeps, NewNetKeeps, ProcedureKeeps, StateKeeps, AuthKeeps, RefusedKeeps, AssocKeeps, CompleteKeeps,
     AssocRspKeeps, ProbeKeeps, UpdateBeaconKeeps, CtsKeeps, ScanKeeps DEF LinkNext
<1>2. ASSUME LinkInv, UNCHANGED linkVars PROVE LinkInv'
  BY <1>2 DEF linkVars, LinkInv, LinkTypeOK, Describes, Kept, Requested, Linked, Completed, Widened, Taken, PeerRates,
              Heard, Followed
<1> QED
  BY <1>1, <1>2

LEMMA LinkAlways == LinkSpec => []LinkInv
<1> QED
  BY LinkInitial, LinkStep, PTL DEF LinkSpec

-----------------------------------------------------------------------------
(* What the frames of a settled link look like.                              *)
LEMMA FrameIs ==
    ASSUME NEW f \in Frames
    PROVE  /\ f.long \in BOOLEAN /\ (f.rate = 2 \/ f.rate = CURRENT_RATE)
           /\ f.type = "eapol" => f.rate = 2 /\ ~f.bw40 /\ ~f.sgi /\ ~f.ampdu.on
           /\ f.type # "eapol" => /\ f.bw40 = rtllib_query_BandwidthMode(f.rate)
                                  /\ f.sgi = rtllib_query_HTCapShortGI
                                  /\ f.guard = rtllib_query_protectionmode(f.long)
                                  /\ \E admitted \in BOOLEAN : f.ampdu = rtllib_tx_query_agg_cap(admitted)
<1>1. PICK p \in Packets, v \in Fts, rts \in Rts, admitted \in BOOLEAN :
          f = rtllib_xmit_inter(p, r8192_wx_set_frag(v), rts, admitted)
  BY DEF Frames
<1> DEFINE fts == r8192_wx_set_frag(v)
           long == SplitPacket(p, fts).first > rts
           r == IF p.type = "data" THEN CURRENT_RATE ELSE 2
           off == [on |-> FALSE, factor |-> 0, density |-> 0]
<1>2. CASE p.type = "eapol"
  <2>1. f = [type |-> p.type, long |-> long, rate |-> r, ampdu |-> off, sgi |-> FALSE, bw40 |-> FALSE, guard |-> "none"]
    BY <1>1, <1>2 DEF rtllib_xmit_inter
  <2>2. long \in BOOLEAN /\ r = 2 /\ ~off.on
    BY <1>2
  <2> HIDE DEF long, r, off
  <2> QED
    BY <2>1, <2>2, <1>2
<1>3. CASE p.type # "eapol"
  <2> DEFINE amp == rtllib_tx_query_agg_cap(admitted)
             sg == rtllib_query_HTCapShortGI
             bw == rtllib_query_BandwidthMode(r)
             gd == rtllib_query_protectionmode(long)
  <2>1. f = [type |-> p.type, long |-> long, rate |-> r, ampdu |-> amp, sgi |-> sg, bw40 |-> bw, guard |-> gd]
    BY <1>1, <1>3 DEF rtllib_xmit_inter
  <2>2. long \in BOOLEAN /\ (r = 2 \/ r = CURRENT_RATE)
    OBVIOUS
  <2> HIDE DEF long, r, amp, sg, bw, gd
  <2>3. f.type = p.type /\ f.long = long /\ f.rate = r /\ f.ampdu = amp /\ f.sgi = sg /\ f.bw40 = bw /\ f.guard = gd
    BY <2>1
  <2> QED
    BY <2>2, <2>3, <1>3 DEF amp, sg, bw, gd
<1> QED
  BY <1>2, <1>3

LEMMA RateIs ==
    ASSUME LinkInv, Settled, NEW r, r = 2 \/ r = CURRENT_RATE, r >= 128
    PROVE  /\ link.mode = "N" /\ r - 128 \in PeerRates /\ (link.half => r - 128 \in 0 .. 7)
           /\ (net.ap.static => r - 128 \in 0 .. 7) /\ r - 128 \in Mcs
<1>1. link \in LinkTypes
  BY DEF LinkInv, LinkTypeOK
<1>2. r = link.htRate /\ link.mode = "N" /\ link.htRate # 0
  BY <1>1 DEF CURRENT_RATE, LinkTypes
<1>3. Taken
  BY <1>2 DEF LinkInv, Settled, Completed, Linked
<1> QED
  BY <1>1, <1>2, <1>3 DEF Taken, LinkTypes

LEMMA FramesAllowed == ASSUME LinkInv, Settled, NEW f \in Frames PROVE Allowed(f)
<1>1. net.ap \in Networks /\ link \in LinkTypes
  BY DEF LinkInv, LinkTypeOK, NetTypes
<1>2. Linked /\ "complete" \notin works /\ wq = "idle"
  BY DEF Settled, Linked
<1>3. ASSUME ht.support, ht.enable
      PROVE  /\ link.mode = "N" /\ Widened /\ Taken
             /\ asked = HTConstructCapabilityElement(link.half, net.ap.sec # "none")
             /\ ht.cap = net.ap /\ net.ap.sec # "tkip"
  <2>1. link.mode = "N"
    BY <1>2, <1>3 DEF LinkInv, Requested
  <2> QED
    BY <2>1, <1>2, InModeN DEF LinkInv, Completed
<1>4. asked = HTConstructCapabilityElement(link.half, net.ap.sec # "none")
      => asked.w40 = ~link.half /\ asked.mcs = IF link.half THEN 0 .. 7 ELSE Mcs
  BY DEF HTConstructCapabilityElement
<1>5. f.rate >= 128 => /\ f.rate - 128 \in IF net.ap.mcs \cap (0 .. 7) = {} THEN 0 .. 15 ELSE net.ap.mcs
                       /\ net.ap.static => f.rate - 128 < 8
                       /\ f.rate - 128 \in asked.mcs
  <2> SUFFICES ASSUME f.rate >= 128
               PROVE  /\ f.rate - 128 \in IF net.ap.mcs \cap (0 .. 7) = {} THEN 0 .. 15 ELSE net.ap.mcs
                      /\ net.ap.static => f.rate - 128 < 8
                      /\ f.rate - 128 \in asked.mcs
    OBVIOUS
  <2>1. /\ link.mode = "N" /\ f.rate - 128 \in PeerRates /\ (link.half => f.rate - 128 \in 0 .. 7)
        /\ (net.ap.static => f.rate - 128 \in 0 .. 7) /\ f.rate - 128 \in Mcs
    BY FrameIs, RateIs
  <2>2. asked = HTConstructCapabilityElement(link.half, net.ap.sec # "none")
    BY <2>1, <1>2, InModeN
  <2>3. f.rate - 128 \in asked.mcs
    BY <1>4, <2>1, <2>2
  <2>4. net.ap.static => f.rate - 128 < 8
    BY <2>1
  <2> QED
    BY <2>1, <2>3, <2>4 DEF PeerRates, Mcs
<1>6. f.bw40 => net.ap.w40 /\ net.ap.ext # "none" /\ net.ap.tx40 /\ asked.w40
  <2> SUFFICES ASSUME f.bw40 PROVE net.ap.w40 /\ net.ap.ext # "none" /\ net.ap.tx40 /\ asked.w40
    OBVIOUS
  <2>1. ht.support /\ ht.enable /\ ht.bw40 /\ ht.tx40
    BY FrameIs DEF rtllib_query_BandwidthMode, InHt
  <2> QED
    BY <2>1, <1>1, <1>3, <1>4 DEF Widened, Taken, LinkTypes
<1>7. f.sgi => IF net.ap.w40 /\ net.ap.ext # "none" /\ asked.w40 THEN net.ap.sgi40 ELSE net.ap.sgi20
  <2> SUFFICES ASSUME f.sgi PROVE IF net.ap.w40 /\ net.ap.ext # "none" /\ asked.w40 THEN net.ap.sgi40 ELSE net.ap.sgi20
    OBVIOUS
  <2>1. ht.support /\ ht.enable /\ (IF ht.bw40 THEN ht.sgi40 ELSE ht.sgi20)
    BY FrameIs DEF rtllib_query_HTCapShortGI, InHt
  <2> QED
    BY <2>1, <1>1, <1>3, <1>4 DEF Widened, Taken, LinkTypes
<1>8. f.ampdu.on => /\ net.ap.sec \notin {"wep", "tkip"} /\ f.ampdu.density >= net.ap.density
                    /\ net.ap.vendor # "realtek" => f.ampdu.factor <= net.ap.factor
  <2> SUFFICES ASSUME f.ampdu.on
               PROVE  /\ net.ap.sec \notin {"wep", "tkip"} /\ f.ampdu.density >= net.ap.density
                      /\ net.ap.vendor # "realtek" => f.ampdu.factor <= net.ap.factor
    OBVIOUS
  <2>1. PICK admitted \in BOOLEAN : f.ampdu = rtllib_tx_query_agg_cap(admitted)
    BY FrameIs
  <2>2. /\ InHt /\ GetNmodeSupportBySecCfg
        /\ f.ampdu = [on |-> TRUE, factor |-> ht.factor, density |-> ht.density]
    BY <2>1 DEF rtllib_tx_query_agg_cap
  <2>3. Taken
    BY <2>2, <1>3 DEF InHt
  <2>4. net.ap.density \in 0 .. 7
    BY <1>1, ApFacts
  <2>5. net.ap.sec \notin {"wep", "tkip"}
    BY <2>2 DEF GetNmodeSupportBySecCfg, rtllib_ap_sec_type
  <2>6. f.ampdu.density = net.ap.density /\ (net.ap.vendor # "realtek" => f.ampdu.factor <= net.ap.factor)
    BY <2>2, <2>3 DEF Taken
  <2> QED
    BY <2>4, <2>5, <2>6
<1> QED
  BY <1>5, <1>6, <1>7, <1>8 DEF Allowed

(* Whatever was agreed with the networks joined before, a settled link uses no *)
(* more than its access point announced and the request asked for             *)
(* (rtllib_associate_complete_wq, HTOnAssocRsp, rtllib_xmit_inter).           *)
THEOREM LinksAreAgreed == LinkSpec => []Agreed
<1>1. ASSUME LinkInv PROVE Agreed
  <2> SUFFICES ASSUME Settled
               PROVE  /\ \A f \in Frames : Allowed(f)
                      /\ ratr.mcs \subseteq IF net.ap.mcs \cap (0 .. 7) = {} THEN Mcs ELSE net.ap.mcs
    BY DEF Agreed
  <2>1. \A f \in Frames : Allowed(f)
    BY <1>1, FramesAllowed
  <2>2. ratr.mcs \subseteq link.rates /\ (link.mode = "N" => Taken) /\ (link.mode # "N" => link.rates = {})
    BY <1>1 DEF LinkInv, Settled, Completed, Linked
  <2>3. ratr.mcs \subseteq PeerRates /\ ratr.mcs \subseteq Mcs
    BY <1>1, <2>2 DEF Taken, LinkInv, LinkTypeOK
  <2> QED
    BY <2>1, <2>3 DEF PeerRates
<1> QED
  BY <1>1, LinkAlways, PTL

-----------------------------------------------------------------------------
(* Protection and admission control.                                         *)
LEMMA ProtectedIs == LinkInv => Protected
<1> SUFFICES ASSUME LinkInv, Settled, heard, "beacon" \notin works, net.mode \in {"G", "N"},
                    NEW f \in Frames, f.type # "eapol"
             PROVE  LET asks == link.mode = "N" /\ (net.op = 3 \/ (net.op = 2 /\ ht.bw40))
                        forced == link.mode = "N" /\ (\/ ht.cts /\ net.ap.vendor = "broadcom"
                                                      \/ ht.pureN /\ net.ap.sec = "wep")
                    IN  IF net.erp \/ forced THEN f.guard # "none"
                        ELSE f.guard = IF asks \/ f.long THEN "rts" ELSE "none"
  BY DEF Protected
<1>1. f.guard = rtllib_query_protectionmode(f.long) /\ f.long \in BOOLEAN
  BY FrameIs
<1>2. net.prot = net.erp /\ (ht.support => ht.op = net.op) /\ net.erp \in BOOLEAN
  BY DEF LinkInv, Heard, LinkTypeOK, NetTypes
<1>3. (ht.cts => net.ap.vendor = "broadcom") /\ (ht.pureN => net.ap.sec \in {"wep", "tkip"})
  BY DEF LinkInv, Kept
<1>4. link.mode = "N" => ht.support /\ ht.enable /\ net.ap.sec # "tkip"
  BY InModeN DEF Settled, Linked
<1> QED
  BY <1>1, <1>2, <1>3, <1>4 DEF rtllib_query_protectionmode, InHt

LEMMA Downgraded == \A u \in Ups : /\ wme_downgrade_ac[u] \in Ups
                                     /\ wme_downgrade_ac[wme_downgrade_ac[wme_downgrade_ac[u]]] \in {1, 2}
<1>1. \A u \in Ups : u \in {0, 1, 2, 3, 4, 5, 6, 7}
  BY DEF Ups
<1>2. \A u \in Ups : wme_downgrade_ac[u] = IF u \in {6, 7} THEN 5 ELSE IF u \in {4, 5} THEN 3 ELSE
                                           IF u \in {0, 3} THEN 1 ELSE u
  BY <1>1 DEF wme_downgrade_ac
<1> HIDE DEF wme_downgrade_ac
<1>3. 0 \in Ups /\ 1 \in Ups /\ 2 \in Ups /\ 3 \in Ups /\ 5 \in Ups
  BY DEF Ups
<1> QED
  BY <1>1, <1>2, <1>3

LEMMA AdmittedIs == ASSUME NEW u \in Ups, Admitted(u) \in acm PROVE {1, 2} \cap acm # {}
<1> DEFINE d == wme_downgrade_ac
           c == <<u, d[u], d[d[u]], d[d[d[u]]]>>
           free == {i \in 1 .. 4 : c[i] \notin acm}
<1>1. Admitted(u) = IF free = {} THEN c[4] ELSE c[Min(free)]
  BY DEF Admitted
<1>2. CASE free = {}
  <2>1. c[4] \in {1, 2}
    BY Downgraded
  <2> QED
    BY <1>1, <1>2, <2>1
<1>3. CASE free # {}
  <2>1. Min(free) \in free
    BY <1>3, MinIs
  <2> HIDE DEF c
  <2>2. c[Min(free)] \notin acm
    BY <2>1
  <2> HIDE DEF free
  <2> QED
    BY <1>1, <1>3, <2>2
<1> QED
  BY <1>2, <1>3

LEMMA AcmFollowsIs == LinkInv => AcmFollows
<1> SUFFICES ASSUME LinkInv, heard, ~missed, net.active, NEW f \in Splits, f.up \in net.acm
             PROVE  {1, 2} \cap net.acm # {}
  BY DEF AcmFollows
<1>1. PICK p \in Packets, v \in Fts : f = SplitPacket(p, r8192_wx_set_frag(v))
  BY DEF Splits
<1>2. f.up = Admitted(p.up)
  BY <1>1 DEF SplitPacket
<1>3. acm = net.acm
  BY DEF LinkInv, Heard, Describes
<1>4. p.up \in Ups
  BY PacketFacts
<1> QED
  BY <1>2, <1>3, <1>4, AdmittedIs

(* A beacon handled to the end takes effect on the frames: protection and      *)
(* admission control are those it announced (rtllib_process_probe_response,    *)
(* rtl8192_handle_beacon, rtllib_xmit_inter).                                 *)
THEOREM BeaconsAlwaysTakeEffect == LinkSpec => []BeaconsTakeEffect
<1>1. LinkInv => BeaconsTakeEffect
  BY ProtectedIs, AcmFollowsIs DEF BeaconsTakeEffect
<1> QED
  BY <1>1, LinkAlways, PTL

-----------------------------------------------------------------------------
(* Fragments.                                                                *)
LEMMA FragmentsAre ==
    ASSUME NEW bytes \in Nat \ {0}, NEW per \in Nat \ {0}
    PROVE  \E nr \in Nat \ {0}, rest \in 1 .. per :
               /\ Fragments(bytes, per) = [i \in 1 .. nr |-> IF i < nr THEN per ELSE rest]
               /\ (nr - 1) * per + rest = bytes
<1> DEFINE q == bytes \div per
           r == bytes % per
           nr == q + IF r > 0 THEN 1 ELSE 0
           rest == IF r = 0 THEN per ELSE r
<1>1. q \in Nat /\ r \in 0 .. per - 1 /\ bytes = q * per + r
  OBVIOUS
<1>2. Fragments(bytes, per) = [i \in 1 .. nr |-> IF i < nr \/ r = 0 THEN per ELSE r]
  BY DEF Fragments
<1> HIDE DEF q, r
<1>3. r = 0 => q # 0
  BY <1>1
<1>4. nr \in Nat \ {0} /\ rest \in 1 .. per
  BY <1>1, <1>3
<1>5. (nr - 1) * per + rest = bytes
  <2>1. CASE r = 0
    <3>1. (q - 1) * per + per = q * per
      BY <1>1
    <3> QED
      BY <1>1, <2>1, <3>1
  <2>2. CASE r # 0
    BY <1>1, <2>2
  <2> QED
    BY <2>1, <2>2
<1>6. [i \in 1 .. nr |-> IF i < nr \/ r = 0 THEN per ELSE r] = [i \in 1 .. nr |-> IF i < nr THEN per ELSE rest]
  <2>1. \A i \in 1 .. nr : (IF i < nr \/ r = 0 THEN per ELSE r) = (IF i < nr THEN per ELSE rest)
    OBVIOUS
  <2> HIDE DEF nr, rest
  <2> QED
    BY <2>1
<1> HIDE DEF nr, rest
<1>7. Fragments(bytes, per) = [i \in 1 .. nr |-> IF i < nr THEN per ELSE rest]
  BY ONLY <1>2, <1>6
<1> QED
  BY ONLY <1>4, <1>5, <1>7

(* The sum of a sequence whose elements but the last are alike.              *)
LEMMA BytesAre ==
    \A nr \in Nat \ {0}, per \in Nat, rest \in Nat : \A f \in [1 .. nr -> Nat] :
        (\A i \in 1 .. nr - 1 : f[i] = per) /\ f[nr] = rest
        => Len(f) = nr /\ Bytes(f) = (nr - 1) * per + rest
<1> TAKE nr \in Nat \ {0}, per \in Nat, rest \in Nat
<1> TAKE f \in [1 .. nr -> Nat]
<1> HAVE (\A i \in 1 .. nr - 1 : f[i] = per) /\ f[nr] = rest
<1> DEFINE turns == 0 .. nr
           Sum(i) == IF i < nr THEN i * per ELSE (nr - 1) * per + rest
           upto[i \in turns] == IF i = 0 THEN 0 ELSE upto[i - 1] + f[i]
           F(g) == [i \in turns |-> IF i = 0 THEN 0 ELSE g[i - 1] + f[i]]
<1>1. Len(f) = nr
  OBVIOUS
<1>2. Bytes(f) = upto[nr]
  BY <1>1 DEF Bytes
<1>3. Sum(0) = 0 /\ \A i \in 1 .. nr : Sum(i - 1) + f[i] = Sum(i)
  <2>1. Sum(0) = 0
    OBVIOUS
  <2>2. ASSUME NEW i \in 1 .. nr PROVE Sum(i - 1) + f[i] = Sum(i)
    <3>1. Sum(i - 1) = (i - 1) * per
      OBVIOUS
    <3>2. (i - 1) * per + per = i * per
      OBVIOUS
    <3>3. CASE i < nr
      BY <3>1, <3>2, <3>3
    <3>4. CASE i = nr
      BY <3>1, <3>4
    <3> QED
      BY <3>3, <3>4
  <2> QED
    BY <2>1, <2>2
<1> HIDE DEF Sum
<1>4. \E g : g = F(g)
  <2> DEFINE g == [i \in turns |-> Sum(i)]
  <2>1. \A i \in turns : Sum(i) = IF i = 0 THEN 0 ELSE g[i - 1] + f[i]
    <3> TAKE i \in turns
    <3>1. CASE i = 0
      BY <3>1, <1>3
    <3>2. CASE i # 0
      <4>1. i \in 1 .. nr /\ i - 1 \in turns
        BY <3>2
      <4> QED
        BY <3>2, <4>1, <1>3
    <3> QED
      BY <3>1, <3>2
  <2>2. g = F(g)
    BY <2>1
  <2> QED
    BY <2>2
<1>5. upto = F(upto)
  BY <1>4
<1> HIDE DEF upto
<1>6. \A i \in turns : upto[i] = IF i = 0 THEN 0 ELSE upto[i - 1] + f[i]
  BY <1>5
<1>7. ASSUME NEW k \in turns, upto[k] # Sum(k) PROVE FALSE
  <2> DEFINE T == {i \in turns : upto[i] # Sum(i)}
  <2>1. T \in SUBSET Nat /\ T # {}
    BY <1>7
  <2>2. PICK i \in T : \A j \in T : i <= j
    BY <2>1, NatMin
  <2>3. i # 0
    BY <2>2, <1>6, <1>3
  <2>4. i \in 1 .. nr /\ i - 1 \in turns /\ ~(i <= i - 1)
    BY <2>2, <2>3
  <2>5. upto[i - 1] = Sum(i - 1)
    BY <2>2, <2>4
  <2> QED
    BY <2>2, <2>3, <2>4, <2>5, <1>6, <1>3
<1>8. upto[nr] = Sum(nr) /\ Sum(nr) = (nr - 1) * per + rest
  BY <1>7 DEF Sum
<1> QED
  BY <1>1, <1>2, <1>8

(* The fragments of a packet carry it all, none is empty, each fits, and all   *)
(* but the last are alike and of even length, with every threshold, packet and *)
(* cipher (rtllib_xmit_inter, r8192_wx_set_frag).                             *)
THEOREM PacketsAreFragmented == LinkSpec => []Fragmented
<1>1. ASSUME LinkInv PROVE Fragmented
  <2> SUFFICES ASSUME NEW s \in Splits
               PROVE  LET f == s.frags
                          extra == IF Encrypt(s) THEN Extra(net.ap.sec) ELSE 0
                      IN  /\ Bytes(f) = s.len - 6
                          /\ \A i \in 1 .. Len(f) : 0 < f[i] /\ HdrLen + extra + f[i] <= s.fts
                          /\ \A i \in 1 .. Len(f) - 1 : f[i] = f[1] /\ f[i] % 2 = 0
    BY DEF Fragmented
  <2>1. PICK p \in Packets, v \in Fts : s = SplitPacket(p, r8192_wx_set_frag(v))
    BY DEF Splits
  <2> DEFINE fts == r8192_wx_set_frag(v)
             extra == IF Encrypt(p) THEN Extra(net.ap.sec) ELSE 0
             per == fts - HdrLen - extra
             bytes == p.len - 6
  <2>2. /\ s.type = p.type /\ s.len = p.len /\ s.fts = fts /\ s.frags = Fragments(p.len - 14 + 8, per)
    BY <2>1 DEF SplitPacket
  <2>3. Encrypt(s) = Encrypt(p)
    BY <2>2 DEF Encrypt
  <2>4. extra \in {0, 8, 16, 20} /\ HdrLen \in {24, 26}
    <3>1. net.ap.sec \in {"none", "wep", "tkip", "ccmp"}
      BY <1>1, ApFacts DEF LinkInv, LinkTypeOK, NetTypes
    <3> QED
      BY <3>1 DEF Extra, HdrLen
  <2>5. fts \in Nat /\ 256 <= fts /\ fts % 2 = 0
    <3>1. v \in Nat /\ 256 <= v
      BY FtsFacts
    <3> QED
      BY <3>1 DEF r8192_wx_set_frag
  <2> HIDE DEF fts, extra
  <2>6. per \in Nat \ {0} /\ per % 2 = 0 /\ HdrLen + extra + per = fts
    <3>1. PICK k \in Int : fts = 2 * k
      BY <2>5
    <3>2. PICK h \in {12, 13} : HdrLen = 2 * h
      <4>1. HdrLen = 2 * 12 \/ HdrLen = 2 * 13
        BY <2>4
      <4> QED
        BY <4>1
    <3>3. PICK e \in {0, 4, 8, 10} : extra = 2 * e
      <4>1. extra = 2 * 0 \/ extra = 2 * 4 \/ extra = 2 * 8 \/ extra = 2 * 10
        BY <2>4
      <4> QED
        BY <4>1
    <3>4. k - h - e \in Int /\ per = 2 * (k - h - e)
      BY <3>1, <3>2, <3>3
    <3>5. \A m \in Int : (2 * m) % 2 = 0
      OBVIOUS
    <3>6. per % 2 = 0
      BY <3>4, <3>5
    <3> QED
      BY <2>4, <2>5, <3>6
  <2>7. bytes \in Nat \ {0} /\ p.len - 14 + 8 = bytes /\ s.len - 6 = bytes
    <3>1. p.len \in Nat /\ 14 <= p.len
      BY PacketFacts
    <3>2. s.len = p.len
      BY <2>2
    <3>3. bytes \in Nat \ {0}
      <4>1. bytes \in Int /\ 8 <= bytes
        BY <3>1
      <4> HIDE DEF bytes
      <4> QED
        BY <4>1
    <3>4. p.len - 14 + 8 = bytes
      BY <3>1
    <3> QED
      BY <3>2, <3>3, <3>4
  <2> HIDE DEF per, bytes
  <2>8. PICK nr \in Nat \ {0}, rest \in 1 .. per :
            s.frags = [i \in 1 .. nr |-> IF i < nr THEN per ELSE rest] /\ (nr - 1) * per + rest = bytes
    <3>1. s.frags = Fragments(bytes, per)
      BY <2>2, <2>7
    <3>2. \E nr \in Nat \ {0}, rest \in 1 .. per :
              /\ Fragments(bytes, per) = [i \in 1 .. nr |-> IF i < nr THEN per ELSE rest]
              /\ (nr - 1) * per + rest = bytes
      BY <2>6, <2>7, FragmentsAre
    <3> QED
      BY <3>1, <3>2
  <2>9. Len(s.frags) = nr /\ Bytes(s.frags) = bytes
    <3>1. per \in Nat /\ rest \in Nat
      BY <2>6
    <3>2. s.frags \in [1 .. nr -> Nat] /\ (\A i \in 1 .. nr - 1 : s.frags[i] = per) /\ s.frags[nr] = rest
      BY <2>8, <3>1
    <3>3. Len(s.frags) = nr /\ Bytes(s.frags) = (nr - 1) * per + rest
      <4> DEFINE f == s.frags
      <4>1. f \in [1 .. nr -> Nat] /\ (\A i \in 1 .. nr - 1 : f[i] = per) /\ f[nr] = rest
        BY <3>2
      <4> HIDE DEF f
      <4>2. \A g \in [1 .. nr -> Nat] : (\A i \in 1 .. nr - 1 : g[i] = per) /\ g[nr] = rest
                   => Len(g) = nr /\ Bytes(g) = (nr - 1) * per + rest
        BY <3>1, BytesAre
      <4>3. Len(f) = nr /\ Bytes(f) = (nr - 1) * per + rest
        BY <4>1, <4>2
      <4> QED
        BY <4>3 DEF f
    <3> QED
      BY <3>3, <2>8
  <2>10. \A i \in 1 .. nr : s.frags[i] \in 1 .. per
    BY <2>6, <2>8
  <2>11. ASSUME NEW i \in 1 .. nr PROVE 0 < s.frags[i] /\ HdrLen + extra + s.frags[i] <= s.fts
    BY <2>2, <2>4, <2>6, <2>10
  <2>12. ASSUME NEW i \in 1 .. nr - 1 PROVE s.frags[i] = s.frags[1] /\ s.frags[i] % 2 = 0
    BY <2>6, <2>8
  <2> QED
    BY <2>3, <2>7, <2>9, <2>11, <2>12 DEF extra
<1> QED
  BY <1>1, LinkAlways, PTL

=============================================================================
