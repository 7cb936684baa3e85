---------------------------- MODULE RxPathProofs ----------------------------
(***************************************************************************)
(* What rtllib_rx hands up is whole, in order and handed up once, and what *)
(* reached the receive ring in full is handed up, for every ring, cache,   *)
(* sequence space, number of MSDUs, fragments and repetitions.             *)
(***************************************************************************)
EXTENDS RxPath, SequenceTheorems, TLAPS

(* The inductive invariant, first the types.                               *)
Frame == [msdu : Nat \ {0}, seq : Nat, frag : Nat, more : BOOLEAN,
          fate : {"ok", "crc", "mpdu", "msdu"}]
Entry == [msdu : Nat \ {0}, seq : Nat, frag : Nat, parts : Seq(Frame), old : BOOLEAN]
Places == 0 .. CacheLen - 1

SenderType == tx \in [msdu : Nat, frag : Nat, of : Nat, times : Nat] /\ lapse \in Nat
RingType ==
    /\ ring \in [Slots -> Frame \cup {None}] /\ hwIdx \in Slots /\ rxIdx \in Slots
    /\ count \in -1 .. Ring
FragsType ==
    /\ last \in [seq : Int, frag : Int, fresh : BOOLEAN]
    /\ cache \in [Places -> Entry \cup {None}] /\ next \in Places
HistType ==
    /\ out \in Seq(Seq(Frame)) /\ errs \in 0 .. MaxErrs
    /\ cur \in [got : SUBSET Nat, hurt : BOOLEAN] /\ due \in SUBSET Nat
Types == SenderType /\ RingType /\ FragsType /\ HistType

(* The MSDUs since the last pause have different sequence numbers.         *)
Recent == lapse + 1 .. tx.msdu
Sender ==
    /\ lapse <= tx.msdu /\ tx.msdu <= lapse + SeqMod /\ tx.frag < tx.of
    /\ tx.msdu = lapse => tx.frag + 1 = tx.of /\ (tx.msdu = 0 \/ tx.times >= MaxTimes)

(* A frame in the ring is one the sender sent since the last pause.        *)
Sent(f) ==
    /\ f.msdu \in Recent /\ f.seq = f.msdu % SeqMod
    /\ f.msdu \in due => f.fate = "ok"
    /\ f.msdu = tx.msdu => /\ f.frag <= tx.frag /\ f.frag \in cur.got
                           /\ f.more = (f.frag + 1 < tx.of)
                           /\ cur.hurt \/ f.fate = "ok"
Frames == \A s \in Slots : ring[s] # None => Sent(ring[s])

(* The filled slots are those from rx_idx up to the slot the adapter fills *)
(* next, in the order sent.                                                *)
Pos(s) == IF s >= rxIdx THEN s - rxIdx ELSE s + Ring - rxIdx
Before(m, k, f) == m < f.msdu \/ (m = f.msdu /\ k <= f.frag)
Filled ==
    /\ ring[hwIdx] # None => hwIdx = rxIdx /\ \A s \in Slots : ring[s] # None
    /\ ring[hwIdx] = None => \A s \in Slots : ring[s] # None <=> Pos(s) < Pos(hwIdx)
Ordered ==
    \A s, t \in Slots : /\ ring[s] # None /\ ring[t] # None /\ Pos(s) <= Pos(t)
                        => Before(ring[s].msdu, ring[s].frag, ring[t])
LastOnes ==
    \A s, t \in Slots : /\ ring[s] # None /\ ring[t] # None
                        /\ ring[s].msdu = ring[t].msdu /\ ~ring[s].more
                        => ring[t].frag <= ring[s].frag
                           /\ (ring[t].frag = ring[s].frag => ~ring[t].more)

(* What the duplicate filter remembers, while it is fresh, is the last     *)
(* frame taken from the ring that was not a duplicate.                     *)
About(m) == last.fresh /\ last.seq = m % SeqMod
Behind(m) ==
    /\ last.frag \in Nat
    /\ m = tx.msdu => last.frag \in cur.got
    /\ \A s \in Slots : ring[s] # None => Before(m, last.frag, ring[s])
    /\ \A i \in Places : Live(i) => cache[i].msdu <= m
    /\ \A k \in DOMAIN out : out[k][1].msdu <= m
    /\ (\E k \in DOMAIN out : out[k][1].msdu = m) =>
          /\ \A s \in Slots : ring[s] # None /\ ring[s].msdu = m => ring[s].frag <= last.frag
          /\ m = tx.msdu => tx.of = last.frag + 1
Remembered ==
    /\ last.fresh => \E m \in Recent : last.seq = m % SeqMod
    /\ \A m \in Recent : About(m) => Behind(m)
    /\ ~last.fresh => /\ \A i \in Places : ~Live(i)
                      /\ \A k \in DOMAIN out : out[k][1].msdu <= lapse

(* An entry of the cache holds the first fragments of one MSDU, without a  *)
(* gap, and no MSDU has two entries that are used.                         *)
Parts(p, m) == \A i \in DOMAIN p : p[i].msdu = m /\ p[i].frag = i - 1
Entries ==
    \A i \in Places : cache[i] # None =>
        /\ cache[i].seq = cache[i].msdu % SeqMod
        /\ Len(cache[i].parts) = cache[i].frag + 1 /\ Parts(cache[i].parts, cache[i].msdu)
        /\ ~cache[i].old => cache[i].msdu > lapse
OneEntry ==
    \A i, j \in Places : Live(i) /\ Live(j) /\ cache[i].msdu = cache[j].msdu => i = j

(* What was handed up.                                                     *)
Given(p) == Len(p) > 0 /\ Parts(p, p[1].msdu) /\ ~p[Len(p)].more
Handed == \A k \in DOMAIN out : Given(out[k])

(* An MSDU that reached the ring in full: each fragment is in the ring or  *)
(* was taken from it and joined, and the last one is still in the ring.    *)
Queued(m, k) == \E s \in Slots : ring[s] # None /\ ring[s].msdu = m /\ ring[s].frag = k
Reached(m, k) == Queued(m, k) \/ (About(m) /\ k <= last.frag)
HasEntry(m) ==
    About(m) => \E i \in Places : Live(i) /\ cache[i].msdu = m /\ cache[i].frag = last.frag
LastQueued(m, s) ==
    /\ ring[s] # None /\ ring[s].msdu = m /\ ~ring[s].more
    /\ \A k \in 0 .. ring[s].frag : Reached(m, k)
    /\ About(m) => last.frag < ring[s].frag
Complete == \A m \in due : HasEntry(m) /\ \E s \in Slots : LastQueued(m, s)

(* The same of the MSDU that is being sent, as far as it has come.         *)
Unbroken == {k \in Nat : 0 .. k \subseteq cur.got}
Coming ==
    tx.msdu > lapse /\ ~cur.hurt /\ tx.of - 1 \notin cur.got =>
        /\ \A k \in Unbroken : Reached(tx.msdu, k)
        /\ 0 \in cur.got => HasEntry(tx.msdu)
Got ==
    /\ cur.got \subseteq 0 .. tx.frag /\ due \subseteq Recent
    /\ tx.msdu \in due => ~cur.hurt /\ tx.of - 1 \in cur.got

QueueInv == Filled /\ Ordered /\ LastOnes
IInv == /\ Types /\ Sender /\ Frames /\ QueueInv /\ Remembered /\ Entries /\ OneEntry
        /\ Handed /\ InOrder /\ Complete /\ Coming /\ Got
-----------------------------------------------------------------------------
(* Arithmetic.                                                             *)
LEMMA Times == ASSUME NEW n \in Nat \ {0}, NEW d \in Int, d >= 1 PROVE n * d >= n
<1>1. n * (d - 1) >= 0
  OBVIOUS
<1>2. n * d = n * (d - 1) + n
  OBVIOUS
<1> QED
  BY <1>1, <1>2

LEMMA DivMod ==
    ASSUME NEW n \in Nat \ {0}, NEW x \in Int
    PROVE  x % n \in 0 .. n - 1 /\ x \div n \in Int /\ x = n * (x \div n) + (x % n)
OBVIOUS

(* Numbers less than n apart have different remainders.                    *)
LEMMA ModInj ==
    ASSUME NEW n \in Nat \ {0}, NEW x \in Int, NEW y \in Int,
           x % n = y % n, x - y < n, y - x < n
    PROVE  x = y
<1> DEFINE a == x \div n
           b == y \div n
<1>0. /\ a \in Int /\ x = n * a + (x % n) /\ x % n \in Int
      /\ b \in Int /\ y = n * b + (y % n)
  BY DivMod
<1> HIDE DEF a, b
<1>1. a \in Int /\ b \in Int /\ x - y = n * a - n * b
  BY <1>0
<1>2. n * (a - b) = n * a - n * b /\ n * (b - a) = n * b - n * a
  BY <1>1
<1>3. ~(a - b >= 1) /\ ~(b - a >= 1)
  BY <1>1, <1>2, Times
<1>4. a - b = 0
  BY <1>1, <1>3
<1>5. n * (a - b) = 0
  BY <1>4
<1> QED
  BY <1>1, <1>2, <1>5

LEMMA SeqApart ==
    ASSUME SenderType, Sender, NEW a \in Recent, NEW b \in Recent, a % SeqMod = b % SeqMod
    PROVE  a = b
<1>1. tx.msdu \in Nat /\ lapse \in Nat /\ SeqMod \in Nat \ {0}
  BY RxPathAssumption DEF SenderType
<1>2. a \in Int /\ b \in Int /\ a - b < SeqMod /\ b - a < SeqMod
  BY <1>1 DEF Sender, Recent
<1> QED
  BY <1>1, <1>2, ModInj

(* The slot after x.                                                       *)
LEMMA NextSlot ==
    ASSUME NEW n \in Nat \ {0}, NEW x \in 0 .. n - 1
    PROVE  (x + 1) % n = IF x + 1 = n THEN 0 ELSE x + 1
<1>1. (x + 1) % n \in 0 .. n - 1 /\ (x + 1) \div n \in Int
      /\ x + 1 = n * ((x + 1) \div n) + ((x + 1) % n)
  BY DivMod
<1> DEFINE q == (x + 1) \div n
           r == (x + 1) % n
<1>2. q \in Int /\ r \in 0 .. n - 1 /\ x + 1 = n * q + r
  BY <1>1
<1> HIDE DEF q, r
<1>3. ~(q >= 2)
  <2> SUFFICES ASSUME q >= 2 PROVE FALSE
    OBVIOUS
  <2>1. n * (q - 1) >= n
    BY <1>2, Times
  <2>2. n * (q - 1) = n * q - n
    BY <1>2
  <2> QED
    BY <1>2, <2>1, <2>2
<1>4. ~(q <= -1)
  <2> SUFFICES ASSUME q <= -1 PROVE FALSE
    OBVIOUS
  <2>1. n * (-q) >= n
    BY <1>2, Times
  <2>2. n * (-q) = -(n * q)
    BY <1>2
  <2> QED
    BY <1>2, <2>1, <2>2
<1>5. q = 0 \/ q = 1
  BY <1>2, <1>3, <1>4
<1>6. CASE q = 0
  <2>1. n * q = 0
    BY <1>6
  <2> QED
    BY <1>2, <2>1 DEF r
<1>7. CASE q = 1
  <2>1. n * q = n
    BY <1>7
  <2> QED
    BY <1>2, <2>1 DEF r
<1> QED
  BY <1>5, <1>6, <1>7
-----------------------------------------------------------------------------
(* No frame and no entry is None.                                          *)
LEMMA NotNone == /\ \A f \in Frame : f # None
                 /\ \A e \in Entry : e # None
BY DEF Frame, Entry, None

LEMMA IsFrame ==
    ASSUME RingType, NEW s \in Slots, ring[s] # None
    PROVE  /\ ring[s] \in Frame /\ ring[s].msdu \in Nat /\ ring[s].frag \in Nat
           /\ ring[s].more \in BOOLEAN /\ ring[s].seq \in Nat
           /\ ring[s].fate \in {"ok", "crc", "mpdu", "msdu"}
<1>1. ring[s] \in Frame
  BY DEF RingType
<1> QED
  BY <1>1 DEF Frame

LEMMA IsEntry ==
    ASSUME FragsType, NEW i \in Places, cache[i] # None
    PROVE  /\ cache[i] \in Entry /\ cache[i].msdu \in Nat /\ cache[i].frag \in Nat
           /\ cache[i].seq \in Nat /\ cache[i].parts \in Seq(Frame) /\ cache[i].old \in BOOLEAN
<1>1. cache[i] \in Entry
  BY DEF FragsType
<1> QED
  BY <1>1 DEF Entry

LEMMA Fields ==
    ASSUME SenderType
    PROVE  /\ tx.msdu \in Nat /\ tx.frag \in Nat /\ tx.of \in Nat /\ tx.times \in Nat
           /\ lapse \in Nat
BY DEF SenderType

LEMMA HistFields ==
    ASSUME HistType
    PROVE  cur.got \in SUBSET Nat /\ cur.hurt \in BOOLEAN /\ due \in SUBSET Nat
BY DEF HistType
-----------------------------------------------------------------------------
LEMMA InitKeeps == Init => IInv
<1> SUFFICES ASSUME Init PROVE IInv
  OBVIOUS
<1> USE RxPathAssumption
<1>1. SenderType /\ Sender
  BY DEF Init, SenderType, Sender
<1>2. RingType /\ QueueInv /\ Frames
  <2>1. \A s \in Slots : ring[s] = None
    BY DEF Init
  <2>2. hwIdx = 0 /\ rxIdx = 0 /\ 0 \in Slots
    BY DEF Init, Slots
  <2>3. RingType
    BY <2>2 DEF Init, RingType
  <2> QED
    BY <2>1, <2>2, <2>3 DEF QueueInv, Filled, Ordered, LastOnes, Frames, Pos, Slots
<1>3. FragsType /\ Entries /\ OneEntry
  <2>1. \A i \in Places : cache[i] = None
    BY DEF Init, Places
  <2>2. FragsType
    BY DEF Init, FragsType, Places
  <2> QED
    BY <2>1, <2>2 DEF Entries, OneEntry, Live
<1>4. HistType /\ Handed /\ InOrder
  <2>1. out = <<>> /\ DOMAIN out = {}
    BY DEF Init
  <2>2. HistType
    BY DEF Init, HistType
  <2> QED
    BY <2>1, <2>2 DEF Handed, InOrder
<1>5. Remembered
  <2>1. last.fresh = FALSE /\ (\A i \in Places : ~Live(i)) /\ DOMAIN out = {}
    BY DEF Init, Live, Places
  <2> QED
    BY <2>1 DEF Remembered, About
<1>6. Complete /\ Got /\ Coming
  <2>1. due = {} /\ cur.got = {} /\ tx.msdu = 0 /\ lapse = 0
    BY DEF Init
  <2> QED
    BY <2>1 DEF Complete, Got, Coming
<1> QED
  BY <1>1, <1>2, <1>3, <1>4, <1>5, <1>6 DEF IInv, Types

(* The interrupt and the ends of the tasklet change none of this.          *)
Still == /\ UNCHANGED <<tx, lapse, ring, hwIdx, rxIdx, last, cache, next, out, errs, cur, due>>
         /\ count' \in -1 .. Ring

LEMMA StillKeeps == IInv /\ Still => IInv'
<1> SUFFICES ASSUME IInv, Still PROVE IInv'
  OBVIOUS
<1>1. Types'
  BY DEF IInv, Still, Types, SenderType, RingType, FragsType, HistType
<1>2. Sender' /\ Frames' /\ QueueInv'
  BY DEF IInv, Still, Sender, Frames, Sent, Recent, QueueInv, Filled, Ordered, LastOnes, Pos, Before
<1>3. Remembered' /\ Entries' /\ OneEntry' /\ Handed' /\ InOrder'
  BY DEF IInv, Still, Remembered, Recent, About, Behind, Before, Live, Entries, Parts, OneEntry,
         Handed, Given, InOrder
<1>4. Complete' /\ Coming' /\ Got'
  BY DEF IInv, Still, Complete, Coming, Got, Recent, HasEntry, LastQueued, Reached, Queued, About,
         Live, Unbroken
<1> QED
  BY <1>1, <1>2, <1>3, <1>4 DEF IInv

LEMMA TaskletKeeps ==
    ASSUME IInv, rtl8192_interrupt \/ TaskletStarts \/ TaskletEnds \/ UNCHANGED vars
    PROVE  IInv'
<1>1. Still
  BY RxPathAssumption DEF IInv, Types, RingType, Still, rtl8192_interrupt, TaskletStarts, TaskletEnds, vars,
     sender, frags, hist
<1> QED
  BY <1>1, StillKeeps
-----------------------------------------------------------------------------
(* The sender.                                                             *)
LEMMA NewMsduKeeps ==
    ASSUME IInv, NEW n \in 1 .. MaxFrags, NewMsdu(n)
    PROVE  IInv'
<1>0. /\ tx' = [msdu |-> tx.msdu + 1, frag |-> 0, of |-> n, times |-> 0]
      /\ cur' = [got |-> {}, hurt |-> FALSE] /\ tx.msdu + 1 - SeqMod <= lapse
      /\ UNCHANGED <<lapse, ring, hwIdx, rxIdx, count, last, cache, next, out, errs, due>>
  BY DEF NewMsdu, frags
<1>t. Types /\ SenderType /\ SeqMod \in Nat \ {0} /\ n \in Nat \ {0}
  BY RxPathAssumption DEF IInv, Types
<1>f. /\ tx.msdu \in Nat /\ lapse \in Nat /\ lapse <= tx.msdu
      /\ tx'.msdu = tx.msdu + 1 /\ tx'.frag = 0 /\ tx'.of = n
      /\ cur'.got = {} /\ cur'.hurt = FALSE
  BY <1>0, <1>t, Fields DEF IInv, Sender
<1>1. Types'
  BY <1>0, <1>t DEF Types, SenderType, RingType, FragsType, HistType
<1>2. Sender'
  BY <1>0, <1>f, <1>t DEF Sender
<1>3. Recent' = Recent \cup {tx'.msdu} /\ tx'.msdu \notin Recent
  BY <1>0, <1>f DEF Recent
<1>4. Frames' /\ QueueInv' /\ Entries' /\ OneEntry' /\ Handed' /\ InOrder'
  <2>1. Frames'
    BY <1>0, <1>3 DEF IInv, Frames, Sent
  <2> QED
    BY <2>1, <1>0 DEF IInv, QueueInv, Filled, Ordered, LastOnes, Pos, Before, Entries, Parts, OneEntry,
       Live, Handed, Given, InOrder
<1>5. Remembered'
  <2>1. ASSUME About(tx'.msdu) PROVE FALSE
    <3>1. PICK m \in Recent : last.seq = m % SeqMod
      BY <2>1 DEF About, IInv, Remembered
    <3>2. m \in Recent' /\ tx'.msdu \in Recent' /\ m % SeqMod = tx'.msdu % SeqMod
      BY <2>1, <3>1, <1>3 DEF About
    <3>3. m = tx'.msdu
      <4>1. \A a, b \in Recent' : a % SeqMod = b % SeqMod => a = b
        <5> SUFFICES ASSUME NEW a \in Recent', NEW b \in Recent', a % SeqMod = b % SeqMod
                     PROVE  a = b
          OBVIOUS
        <5>1. a \in Int /\ b \in Int /\ a - b < SeqMod /\ b - a < SeqMod
          BY <1>0, <1>f, <1>t DEF Recent
        <5> QED
          BY <5>1, <1>t, ModInj
      <4> QED
        BY <4>1, <3>2
    <3> QED
      BY <3>1, <3>3, <1>3
  <2>2. \A m \in Recent : m # tx'.msdu
    BY <1>3
  <2>3. \A m \in Recent : Behind(m) => Behind(m)'
    BY <1>0, <2>2 DEF Behind, Before, Live
  <2>5. \A m \in Recent' : About(m)' => Behind(m)'
    <3> SUFFICES ASSUME NEW m \in Recent', About(m)' PROVE Behind(m)'
      OBVIOUS
    <3>1. About(m)
      BY <1>0 DEF About
    <3>2. m \in Recent
      BY <3>1, <2>1, <1>3
    <3> QED
      BY <3>1, <3>2, <2>3 DEF IInv, Remembered
  <2> QED
    BY <2>5, <1>0, <1>3 DEF IInv, Remembered, Live
<1>6. Complete'
  BY <1>0 DEF IInv, Complete, HasEntry, LastQueued, Reached, Queued, About, Live
<1>7. Coming'
  BY <1>f DEF Coming, Unbroken
<1>8. Got'
  BY <1>0, <1>3, <1>f DEF IInv, Got
<1> QED
  BY <1>1, <1>2, <1>4, <1>5, <1>6, <1>7, <1>8 DEF IInv

LEMMA NextFragmentKeeps ==
    ASSUME IInv, NextFragment
    PROVE  IInv'
<1>0. /\ tx' = [tx EXCEPT !.frag = @ + 1, !.times = 0] /\ tx.frag + 1 < tx.of
      /\ UNCHANGED <<lapse, ring, hwIdx, rxIdx, count, last, cache, next, out, errs, due, cur>>
  BY DEF NextFragment, frags, hist
<1>t. Types /\ SenderType
  BY DEF IInv, Types
<1>f. /\ tx.msdu \in Nat /\ tx.frag \in Nat /\ tx.of \in Nat /\ lapse \in Nat
      /\ tx'.msdu = tx.msdu /\ tx'.frag = tx.frag + 1 /\ tx'.of = tx.of /\ tx'.times = 0
  BY <1>0, <1>t, Fields DEF SenderType
<1>1. Types'
  <2>1. tx' = [msdu |-> tx.msdu, frag |-> tx.frag + 1, of |-> tx.of, times |-> 0]
    BY <1>0, <1>t DEF SenderType
  <2>2. SenderType'
    BY <2>1, <1>0, <1>f DEF SenderType
  <2> QED
    BY <2>2, <1>0, <1>t DEF Types, RingType, FragsType, HistType
<1>2. Sender' /\ Recent' = Recent
  BY <1>0, <1>f DEF IInv, Sender, Recent
<1>3. Frames'
  <2> SUFFICES ASSUME NEW s \in Slots, ring[s] # None PROVE Sent(ring[s])'
    BY <1>0 DEF Frames
  <2>1. Sent(ring[s]) /\ ring[s].frag \in Nat
    BY <1>t, IsFrame DEF IInv, Frames, Types
  <2> QED
    BY <2>1, <1>0, <1>2, <1>f DEF Sent
<1>4. QueueInv' /\ Entries' /\ OneEntry' /\ Handed' /\ InOrder'
  BY <1>0 DEF IInv, QueueInv, Filled, Ordered, LastOnes, Pos, Before, Entries, Parts, OneEntry,
     Live, Handed, Given, InOrder
<1>5. Remembered'
  BY <1>0, <1>2, <1>f DEF IInv, Remembered, About, Behind, Before, Live
<1>6. Complete' /\ Coming'
  BY <1>0, <1>f DEF IInv, Complete, HasEntry, LastQueued, Reached, Queued, About, Live, Coming, Unbroken
<1>7. Got'
  BY <1>0, <1>2, <1>f DEF IInv, Got
<1> QED
  BY <1>1, <1>2, <1>3, <1>4, <1>5, <1>6, <1>7 DEF IInv

LEMMA PauseKeeps ==
    ASSUME IInv, Pause
    PROVE  IInv'
<1>0. /\ tx.msdu > lapse /\ lapse' = tx.msdu /\ tx' = [tx EXCEPT !.frag = tx.of - 1, !.times = MaxTimes]
      /\ \A s \in Slots : ring[s] = None
      /\ last' = [last EXCEPT !.fresh = FALSE]
      /\ cache' = [i \in DOMAIN cache |->
                      IF cache[i] = None THEN None ELSE [cache[i] EXCEPT !.old = TRUE]]
      /\ UNCHANGED <<ring, hwIdx, rxIdx, count, next, out, errs, due, cur>>
  BY DEF Pause, hist
<1>t. Types /\ SenderType /\ FragsType /\ MaxTimes \in Nat /\ DOMAIN cache = Places
  BY RxPathAssumption DEF IInv, Types, FragsType
<1>f. /\ tx.msdu \in Nat /\ tx.frag \in Nat /\ tx.of \in Nat /\ lapse \in Nat /\ tx.frag < tx.of
      /\ tx'.msdu = tx.msdu /\ tx'.frag = tx.of - 1 /\ tx'.of = tx.of /\ tx'.times = MaxTimes
      /\ last'.fresh = FALSE
  BY <1>0, <1>t, Fields DEF SenderType, FragsType, IInv, Sender
<1>c. \A i \in Places :
         /\ cache[i] = None => cache'[i] = None
         /\ cache[i] # None => /\ cache'[i] \in Entry /\ cache'[i].msdu = cache[i].msdu
                               /\ cache'[i].seq = cache[i].seq /\ cache'[i].frag = cache[i].frag
                               /\ cache'[i].parts = cache[i].parts /\ cache'[i].old = TRUE
  <2> SUFFICES ASSUME NEW i \in Places, cache[i] # None
               PROVE  /\ cache'[i] \in Entry /\ cache'[i].msdu = cache[i].msdu
                      /\ cache'[i].seq = cache[i].seq /\ cache'[i].frag = cache[i].frag
                      /\ cache'[i].parts = cache[i].parts /\ cache'[i].old = TRUE
    BY <1>0, <1>t
  <2>1. cache[i] \in Entry /\ cache'[i] = [cache[i] EXCEPT !.old = TRUE]
    BY <1>0, <1>t, IsEntry
  <2> QED
    BY <2>1 DEF Entry
<1>1. Types'
  <2>0. tx' = [msdu |-> tx.msdu, frag |-> tx.of - 1, of |-> tx.of, times |-> MaxTimes]
    BY <1>0, <1>t DEF SenderType
  <2>1. SenderType'
    <3>1. tx.of - 1 \in Nat
      BY <1>f
    <3> QED
      BY <2>0, <3>1, <1>0, <1>t, <1>f DEF SenderType
  <2>2. FragsType'
    <3>1. ASSUME NEW i \in Places PROVE cache'[i] \in Entry \cup {None}
      <4>1. CASE cache[i] = None
        BY <4>1, <1>c
      <4>2. CASE cache[i] # None
        <5>2. cache'[i] \in Entry
          BY <4>2, <1>c
        <5> QED
          BY <5>2
      <4> QED
        BY <4>1, <4>2
    <3>2. cache' \in [Places -> Entry \cup {None}]
      BY <3>1, <1>0, <1>t
    <3> QED
      BY <3>2, <1>0, <1>t DEF FragsType
  <2> QED
    BY <2>1, <2>2, <1>0, <1>t DEF Types, RingType, HistType
<1>2. Sender' /\ Recent' = {} /\ ~(tx.msdu > lapse)'
  BY <1>0, <1>f, <1>t, RxPathAssumption DEF IInv, Sender, Recent
<1>3. Frames' /\ QueueInv' /\ Handed' /\ InOrder'
  BY <1>0 DEF IInv, QueueInv, Filled, Ordered, LastOnes, Pos, Before, Frames, Handed, Given, Parts, InOrder
<1>l. \A i \in Places : ~Live(i)'
  <2> SUFFICES ASSUME NEW i \in Places, cache'[i] # None PROVE cache'[i].old = TRUE
    BY DEF Live
  <2>1. cache[i] # None
    BY <1>c
  <2> QED
    BY <1>c, <2>1
<1>4. Entries' /\ OneEntry'
  <2>1. Entries'
    <3> SUFFICES ASSUME NEW i \in Places, cache'[i] # None
                 PROVE  /\ cache'[i].seq = cache'[i].msdu % SeqMod
                        /\ Len(cache'[i].parts) = cache'[i].frag + 1
                        /\ Parts(cache'[i].parts, cache'[i].msdu) /\ cache'[i].old
      BY DEF Entries, Parts
    <3>1. cache[i] # None
      BY <1>c
    <3> QED
      BY <1>c, <3>1 DEF IInv, Entries
  <2> QED
    BY <2>1, <1>l DEF OneEntry
<1>5. Remembered'
  <2>1. \A k \in DOMAIN out : out[k][1].msdu <= tx.msdu
    <3>1. CASE last.fresh
      <4>1. PICK m \in Recent : last.seq = m % SeqMod
        BY <3>1 DEF IInv, Remembered
      <4>2. Behind(m)
        BY <4>1, <3>1 DEF IInv, Remembered, About
      <4>3. m \in Nat /\ m <= tx.msdu
        BY <1>f DEF Recent
      <4> SUFFICES ASSUME NEW k \in DOMAIN out PROVE out[k][1].msdu <= tx.msdu
        OBVIOUS
      <4>4. out[k][1].msdu <= m
        BY <4>2 DEF Behind
      <4>5. out[k][1].msdu \in Nat
        <5>1. out[k] \in Seq(Frame) /\ Len(out[k]) > 0
          BY <1>t DEF Types, HistType, IInv, Handed, Given
        <5>2. out[k][1] \in Frame
          BY <5>1
        <5> QED
          BY <5>2 DEF Frame
      <4> QED
        BY <4>3, <4>4, <4>5, <1>f
    <3>2. CASE ~last.fresh
      <4> SUFFICES ASSUME NEW k \in DOMAIN out PROVE out[k][1].msdu <= tx.msdu
        OBVIOUS
      <4>1. out[k][1].msdu <= lapse
        BY <3>2 DEF IInv, Remembered
      <4>5. out[k][1].msdu \in Nat
        <5>1. out[k] \in Seq(Frame) /\ Len(out[k]) > 0
          BY <1>t DEF Types, HistType, IInv, Handed, Given
        <5>2. out[k][1] \in Frame
          BY <5>1
        <5> QED
          BY <5>2 DEF Frame
      <4> QED
        BY <4>1, <4>5, <1>f, <1>0
    <3> QED
      BY <3>1, <3>2
  <2> QED
    BY <2>1, <1>l, <1>f, <1>0, <1>2 DEF Remembered
<1>6. due = {}
  BY <1>0 DEF IInv, Complete, LastQueued
<1>7. Complete' /\ Coming' /\ Got'
  <2>1. Coming'
    BY <1>2 DEF Coming
  <2>2. Got'
    BY <1>6, <1>0, <1>f DEF IInv, Got
  <2> QED
    BY <2>1, <2>2, <1>6, <1>0 DEF Complete
<1> QED
  BY <1>1, <1>2, <1>3, <1>4, <1>5, <1>7 DEF IInv

(* rtl8192_pci_resetdescring: what was in the ring is no longer due.       *)
LEMMA ResetKeeps ==
    ASSUME IInv, rtl8192_pci_resetdescring
    PROVE  IInv'
<1> DEFINE ms == {ring[s].msdu : s \in Slots}
<1>0. /\ ring' = [s \in Slots |-> None] /\ rxIdx' = 0 /\ hwIdx' = 0
      /\ errs < MaxErrs /\ errs' = errs + 1 /\ due' = due \ ms
      /\ cur' = [cur EXCEPT !.hurt = @ \/ tx.msdu \in ms]
      /\ UNCHANGED <<tx, lapse, count, last, cache, next, out>>
  BY DEF rtl8192_pci_resetdescring, Fault, sender, frags
<1>t. Types /\ HistType /\ Ring \in Nat \ {0}
  BY RxPathAssumption DEF IInv, Types
<1>f. cur'.got = cur.got /\ cur'.hurt = (cur.hurt \/ tx.msdu \in ms)
  BY <1>0, <1>t DEF HistType
<1>r. \A s \in Slots : ring'[s] = None
  BY <1>0
<1>d. due' = {}
  BY <1>0 DEF IInv, Complete, LastQueued
<1>1. Types'
  <2>0. (cur.hurt \/ tx.msdu \in ms) \in BOOLEAN
    OBVIOUS
  <2>1. HistType'
    <3>1. cur' = [got |-> cur.got, hurt |-> cur.hurt \/ tx.msdu \in ms]
      BY <1>0, <1>t DEF HistType
    <3>2. cur' \in [got : SUBSET Nat, hurt : BOOLEAN]
      BY <3>1, <2>0, <1>t, HistFields
    <3>3. errs' \in 0 .. MaxErrs /\ due' \in SUBSET Nat
      BY <1>0, <1>d, <1>t, RxPathAssumption DEF HistType
    <3> QED
      BY <3>2, <3>3, <1>0, <1>t DEF HistType
  <2>2. RingType'
    BY <1>0, <1>t DEF Types, RingType, Slots
  <2> QED
    BY <2>1, <2>2, <1>0, <1>t DEF Types, SenderType, FragsType
<1>2. Sender' /\ Recent' = Recent /\ Entries' /\ OneEntry' /\ Handed' /\ InOrder'
  BY <1>0 DEF IInv, Sender, Recent, Entries, Parts, OneEntry, Live, Handed, Given, InOrder
<1>3. Frames' /\ QueueInv'
  <2>1. 0 \in Slots
    BY <1>t DEF Slots
  <2> QED
    BY <2>1, <1>r, <1>0, <1>t DEF Frames, QueueInv, Filled, Ordered, LastOnes, Pos, Slots
<1>4. Remembered'
  BY <1>0, <1>2, <1>r, <1>f DEF IInv, Remembered, About, Behind, Live
<1>5. Complete' /\ Got'
  BY <1>d, <1>0, <1>2, <1>f DEF IInv, Complete, Got
<1>6. Coming'
  <2> SUFFICES ASSUME tx.msdu > lapse, ~cur.hurt, tx.msdu \notin ms, tx.of - 1 \notin cur.got
               PROVE  /\ \A k \in Unbroken : Reached(tx.msdu, k)'
                      /\ 0 \in cur.got => HasEntry(tx.msdu)'
    BY <1>0, <1>f DEF Coming, Unbroken
  <2>1. \A k \in Unbroken : Reached(tx.msdu, k)
    BY DEF IInv, Coming
  <2>2. \A k \in Unbroken : ~Queued(tx.msdu, k)
    BY DEF Queued
  <2>3. 0 \in cur.got => HasEntry(tx.msdu)
    BY DEF IInv, Coming
  <2> QED
    BY <2>1, <2>2, <2>3, <1>0 DEF Reached, About, HasEntry, Live
<1> QED
  BY <1>1, <1>2, <1>3, <1>4, <1>5, <1>6 DEF IInv
-----------------------------------------------------------------------------
(* A frame is received.                                                    *)
LEMMA ReceiveKeeps ==
    ASSUME IInv, NEW fate \in {"ok", "crc", "mpdu", "msdu"}, Receive(fate)
    PROVE  IInv'
<1> DEFINE g == [msdu |-> tx.msdu, seq |-> tx.msdu % SeqMod, frag |-> tx.frag,
                 more |-> tx.frag + 1 < tx.of, fate |-> fate]
<1>0. /\ tx.msdu > 0 /\ tx.times < MaxTimes /\ tx' = [tx EXCEPT !.times = @ + 1]
      /\ fate # "ok" => errs < MaxErrs
      /\ errs' = IF fate = "ok" THEN errs ELSE errs + 1
      /\ UNCHANGED <<lapse, rxIdx, count, last, cache, next, out>>
  BY DEF Receive, frags
<1>t. /\ Types /\ SenderType /\ RingType /\ FragsType /\ HistType
      /\ SeqMod \in Nat \ {0} /\ MaxErrs \in Nat /\ Ring \in Nat \ {0} /\ MaxTimes \in Nat
  BY RxPathAssumption DEF IInv, Types
<1>f. /\ tx.msdu \in Nat /\ tx.frag \in Nat /\ tx.of \in Nat /\ tx.times \in Nat /\ lapse \in Nat
      /\ tx'.msdu = tx.msdu /\ tx'.frag = tx.frag /\ tx'.of = tx.of /\ tx'.times = tx.times + 1
      /\ tx.frag < tx.of
  BY <1>0, <1>t, Fields DEF SenderType, IInv, Sender
<1>1. SenderType'
  <2>1. tx' = [msdu |-> tx.msdu, frag |-> tx.frag, of |-> tx.of, times |-> tx.times + 1]
    BY <1>0, <1>t DEF SenderType
  <2> QED
    BY <2>1, <1>0, <1>f DEF SenderType
<1>2. lapse < tx.msdu /\ Sender' /\ Recent' = Recent /\ tx.msdu \in Recent
  BY <1>0, <1>f, <1>t DEF IInv, Sender, Recent
<1>3. errs' \in 0 .. MaxErrs /\ FragsType' /\ out' \in Seq(Seq(Frame))
  BY <1>0, <1>t DEF HistType, FragsType
<1>4. Entries' /\ OneEntry' /\ Handed' /\ InOrder'
  BY <1>0 DEF IInv, Entries, Parts, OneEntry, Live, Handed, Given, InOrder
<1>5. CASE ring[hwIdx] # None
  <2>1. UNCHANGED <<ring, hwIdx, cur, due>>
    BY <1>5 DEF Receive
  <2>2. Types'
    BY <2>1, <1>0, <1>1, <1>3, <1>t DEF Types, RingType, HistType
  <2>3. Frames' /\ QueueInv'
    BY <2>1, <1>0, <1>2, <1>f DEF IInv, Frames, Sent, QueueInv, Filled, Ordered, LastOnes, Pos, Before
  <2>4. Remembered'
    BY <2>1, <1>0, <1>2, <1>f DEF IInv, Remembered, About, Behind, Before, Live
  <2>5. Complete' /\ Got'
    BY <2>1, <1>0, <1>2, <1>f DEF IInv, Complete, Got, HasEntry, LastQueued, Reached, Queued, About, Live
  <2>6. Coming'
    BY <2>1, <1>0, <1>2, <1>f DEF IInv, Coming, Unbroken, HasEntry, Reached, Queued, About, Live
  <2> QED
    BY <2>2, <2>3, <2>4, <2>5, <2>6, <1>2, <1>4 DEF IInv
<1>6. CASE ring[hwIdx] = None
  <2>0. /\ ring' = [ring EXCEPT ![hwIdx] = g] /\ hwIdx' = (hwIdx + 1) % Ring
        /\ cur' = [got |-> cur.got \cup {tx.frag}, hurt |-> cur.hurt \/ fate # "ok"]
        /\ due' = IF cur'.hurt THEN due \ {tx.msdu}
                  ELSE IF cur'.got # cur.got /\ cur'.got = 0 .. tx.of - 1
                  THEN due \cup {tx.msdu} ELSE due
    BY <1>6 DEF Receive
  <2>g. /\ g \in Frame /\ g # None
        /\ g.msdu = tx.msdu /\ g.seq = tx.msdu % SeqMod /\ g.frag = tx.frag
        /\ g.more = (tx.frag + 1 < tx.of) /\ g.fate = fate
    <3>1. tx.msdu % SeqMod \in Nat
      <4>0. tx.msdu \in Int /\ SeqMod \in Nat \ {0}
        BY <1>f, <1>t
      <4>1. tx.msdu % SeqMod \in 0 .. SeqMod - 1
        BY <4>0, DivMod, Zenon
      <4> QED
        BY <4>1, <1>t
    <3>2. g \in Frame
      BY <3>1, <1>f, <1>0 DEF Frame
    <3> QED
      BY <3>2, NotNone
  <2> HIDE DEF g
  <2>h. hwIdx \in Slots /\ rxIdx \in Slots /\ hwIdx' \in Slots
        /\ hwIdx' = IF hwIdx + 1 = Ring THEN 0 ELSE hwIdx + 1
    <3>1. hwIdx \in 0 .. Ring - 1 /\ rxIdx \in Slots
      BY <1>t DEF RingType, Slots
    <3>2. (hwIdx + 1) % Ring = IF hwIdx + 1 = Ring THEN 0 ELSE hwIdx + 1
      BY <3>1, <1>t, NextSlot
    <3> QED
      BY <3>1, <3>2, <2>0, <1>t DEF Slots
  <2>r. ring'[hwIdx] = g /\ \A s \in Slots : s # hwIdx => ring'[s] = ring[s]
    BY <2>0, <2>h, <1>t DEF RingType
  <2>c. /\ cur'.got = cur.got \cup {tx.frag} /\ cur'.hurt = (cur.hurt \/ fate # "ok")
        /\ cur.got \subseteq 0 .. tx.frag
    BY <2>0 DEF IInv, Got
  <2>d. /\ tx.msdu \in due' => ~cur.hurt /\ fate = "ok"
        /\ \A m \in due' : m # tx.msdu => m \in due
        /\ tx.msdu \in due' /\ tx.msdu \notin due => tx.frag \notin cur.got /\ cur'.got = 0 .. tx.of - 1
        /\ due' \subseteq due \cup {tx.msdu}
    <3>1. CASE cur'.hurt
      BY <3>1, <2>0, <2>c DEF IInv, Got
    <3>2. CASE ~cur'.hurt
      <4>1. tx.msdu \in due' => ~cur.hurt /\ fate = "ok"
        BY <3>2, <2>c
      <4>2. cur'.got # cur.got => tx.frag \notin cur.got
        BY <2>c
      <4> QED
        BY <4>1, <4>2, <3>2, <2>0
    <3> QED
      BY <3>1, <3>2
  <2>1. Types'
    <3>1. RingType'
      BY <2>0, <2>g, <2>h, <1>0, <1>t DEF RingType
    <3>2. HistType'
      <4>1. (cur.hurt \/ fate # "ok") \in BOOLEAN
        OBVIOUS
      <4>2. cur' \in [got : SUBSET Nat, hurt : BOOLEAN]
        BY <2>0, <4>1, <1>t, <1>f, HistFields
      <4>3. due' \in SUBSET Nat
        BY <2>d, <1>t, <1>f, HistFields
      <4> QED
        BY <4>2, <4>3, <1>3 DEF HistType
    <3> QED
      BY <3>1, <3>2, <1>1, <1>3 DEF Types
  <2>2. \A s \in Slots : s # hwIdx /\ ring[s] # None =>
           /\ Sent(ring[s]) /\ ring[s].msdu \in Nat /\ ring[s].frag \in Nat /\ ring[s].more \in BOOLEAN
           /\ ring[s].msdu <= tx.msdu
    <3> SUFFICES ASSUME NEW s \in Slots, ring[s] # None
                 PROVE  /\ Sent(ring[s]) /\ ring[s].msdu \in Nat /\ ring[s].frag \in Nat
                        /\ ring[s].more \in BOOLEAN /\ ring[s].msdu <= tx.msdu
      OBVIOUS
    <3>1. Sent(ring[s]) /\ ring[s].msdu \in Nat /\ ring[s].frag \in Nat /\ ring[s].more \in BOOLEAN
      BY <1>t, IsFrame DEF IInv, Frames
    <3> QED
      BY <3>1, <1>f DEF Sent, Recent
  <2>3. Frames'
    <3> SUFFICES ASSUME NEW s \in Slots, ring'[s] # None PROVE Sent(ring[s])'
      BY DEF Frames
    <3>1. CASE s = hwIdx
      <4>1. ring'[s] = g
        BY <3>1, <2>r
      <4>2. g.msdu \in Recent' /\ g.seq = g.msdu % SeqMod
        BY <2>g, <1>2
      <4>3. g.msdu \in due' => g.fate = "ok"
        BY <2>g, <2>d
      <4>4. g.frag <= tx'.frag /\ g.frag \in cur'.got /\ g.more = (g.frag + 1 < tx'.of)
        BY <2>g, <2>c, <1>f
      <4>5. cur'.hurt \/ g.fate = "ok"
        BY <2>g, <2>c
      <4> QED
        BY <4>1, <4>2, <4>3, <4>4, <4>5 DEF Sent
    <3>2. CASE s # hwIdx
      <4>1. ring'[s] = ring[s] /\ Sent(ring[s])
        BY <3>2, <2>r, <2>2
      <4> QED
        BY <4>1, <2>c, <2>d, <1>2, <1>f DEF Sent
    <3> QED
      BY <3>1, <3>2
  <2>4. QueueInv'
    <3>p. \A s \in Slots : Pos(s)' = Pos(s) /\ Pos(s) \in Slots
      BY <1>0, <2>h, <1>t DEF Pos, Slots
    <3>q. \A s \in Slots : ring[s] # None <=> Pos(s) < Pos(hwIdx)
      BY <1>6 DEF IInv, QueueInv, Filled
    <3>1. Filled'
      <4>1. \A s \in Slots : ring'[s] # None <=> Pos(s) <= Pos(hwIdx)
        <5> SUFFICES ASSUME NEW s \in Slots PROVE ring'[s] # None <=> Pos(s) <= Pos(hwIdx)
          OBVIOUS
        <5>1. CASE s = hwIdx
          BY <5>1, <2>r, <2>g, <3>p, <2>h DEF Slots
        <5>2. CASE s # hwIdx
          <6>1. Pos(s) # Pos(hwIdx)
            BY <5>2, <2>h, <1>t DEF Pos, Slots
          <6> QED
            BY <6>1, <5>2, <2>r, <3>q, <3>p, <2>h DEF Slots
        <5> QED
          BY <5>1, <5>2
      <4>2. CASE Pos(hwIdx) = Ring - 1
        <5>1. hwIdx' = rxIdx
          BY <4>2, <2>h, <1>t DEF Pos, Slots
        <5>2. \A s \in Slots : ring'[s] # None
          BY <4>1, <4>2, <3>p, <1>t DEF Slots
        <5> QED
          BY <5>1, <5>2, <2>h, <1>0 DEF Filled
      <4>3. CASE Pos(hwIdx) # Ring - 1
        <5>1. Pos(hwIdx') = Pos(hwIdx) + 1 /\ Pos(hwIdx)' = Pos(hwIdx')
          BY <4>3, <2>h, <1>t, <1>0 DEF Pos, Slots
        <5>2. \A s \in Slots : ring'[s] # None <=> Pos(s) < Pos(hwIdx')
          BY <4>1, <5>1, <3>p, <2>h DEF Slots
        <5>3. ring'[hwIdx'] = None
          BY <5>2, <2>h, <3>p DEF Slots
        <5> QED
          BY <5>1, <5>2, <5>3, <3>p DEF Filled
      <4> QED
        BY <4>2, <4>3
    <3>2. \A s \in Slots : s # hwIdx /\ ring[s] # None => Before(ring[s].msdu, ring[s].frag, g)
      BY <2>2, <2>g, <1>f DEF Before, Sent
    <3>3. Ordered'
      <4> SUFFICES ASSUME NEW s \in Slots, NEW t \in Slots, ring'[s] # None, ring'[t] # None, Pos(s) <= Pos(t)
                   PROVE  Before(ring'[s].msdu, ring'[s].frag, ring'[t])
        BY <3>p DEF Ordered, Before
      <4>1. CASE t = hwIdx /\ s # hwIdx
        BY <4>1, <3>2, <2>r
      <4>2. CASE t = hwIdx /\ s = hwIdx
        BY <4>2, <2>r, <2>g, <1>f DEF Before
      <4>3. CASE t # hwIdx
        <5>1. Pos(t) < Pos(hwIdx)
          BY <4>3, <2>r, <3>q
        <5>2. s # hwIdx
          BY <5>1, <3>p, <2>h DEF Slots
        <5> QED
          BY <4>3, <5>2, <2>r DEF IInv, QueueInv, Ordered
      <4> QED
        BY <4>1, <4>2, <4>3
    <3>4. LastOnes'
      <4> SUFFICES ASSUME NEW s \in Slots, NEW t \in Slots, ring'[s] # None, ring'[t] # None,
                          ring'[s].msdu = ring'[t].msdu, ~ring'[s].more
                   PROVE  /\ ring'[t].frag <= ring'[s].frag
                          /\ ring'[t].frag = ring'[s].frag => ~ring'[t].more
        BY DEF LastOnes
      <4>1. CASE t = hwIdx /\ s # hwIdx
        <5>1. /\ ring'[t] = g /\ ring'[s] = ring[s] /\ Sent(ring[s]) /\ ring[s].msdu = tx.msdu
              /\ ring[s].frag \in Nat /\ ring[s].more \in BOOLEAN
          BY <4>1, <2>r, <2>g, <2>2
        <5>2. ~(ring[s].frag + 1 < tx.of) /\ ring[s].frag <= tx.frag
          BY <5>1 DEF Sent
        <5> QED
          BY <5>1, <5>2, <2>g, <1>f
      <4>2. CASE t = hwIdx /\ s = hwIdx
        BY <4>2, <2>r, <2>g, <1>f
      <4>3. CASE t # hwIdx /\ s = hwIdx
        <5>1. /\ ring'[s] = g /\ ring'[t] = ring[t] /\ Sent(ring[t]) /\ ring[t].msdu = tx.msdu
              /\ ring[t].frag \in Nat /\ ring[t].more \in BOOLEAN
          BY <4>3, <2>r, <2>g, <2>2
        <5>2. ring[t].more = (ring[t].frag + 1 < tx.of) /\ ring[t].frag <= tx.frag
          BY <5>1 DEF Sent
        <5> QED
          BY <5>1, <5>2, <2>g, <1>f
      <4>4. CASE t # hwIdx /\ s # hwIdx
        BY <4>4, <2>r DEF IInv, QueueInv, LastOnes
      <4> QED
        BY <4>1, <4>2, <4>3, <4>4
    <3> QED
      BY <3>1, <3>3, <3>4 DEF QueueInv
  <2>5. Remembered'
    <3> SUFFICES ASSUME NEW m \in Recent, About(m), Behind(m) PROVE Behind(m)'
      BY <1>0, <1>2 DEF IInv, Remembered, About, Live
    <3>1. m \in Nat /\ m <= tx.msdu /\ last.frag \in Nat
      BY <1>f DEF Recent, Behind
    <3>2. m = tx.msdu => last.frag \in cur.got /\ last.frag <= tx.frag
      BY <3>1, <2>c DEF Behind
    <3>3. Before(m, last.frag, g)
      BY <3>1, <3>2, <2>g, <1>f DEF Before
    <3>4. \A s \in Slots : ring'[s] # None => Before(m, last.frag, ring'[s])
      BY <3>3, <2>r DEF Behind
    <3>5. (\E k \in DOMAIN out : out[k][1].msdu = m) =>
             \A s \in Slots : ring'[s] # None /\ ring'[s].msdu = m => ring'[s].frag <= last.frag
      <4> SUFFICES ASSUME \E k \in DOMAIN out : out[k][1].msdu = m, NEW s \in Slots,
                          ring'[s] # None, ring'[s].msdu = m
                   PROVE  ring'[s].frag <= last.frag
        OBVIOUS
      <4>1. CASE s = hwIdx
        <5>1. m = tx.msdu /\ ring'[s].frag = tx.frag
          BY <4>1, <2>r, <2>g
        <5>2. tx.of = last.frag + 1
          BY <5>1 DEF Behind
        <5> QED
          BY <5>1, <5>2, <1>f, <3>1
      <4>2. CASE s # hwIdx
        BY <4>2, <2>r DEF Behind
      <4> QED
        BY <4>1, <4>2
    <3>6. m = tx'.msdu => last'.frag \in cur'.got
      BY <3>2, <2>c, <1>f, <1>0
    <3>8. /\ \A i \in Places : Live(i)' => cache'[i].msdu <= m
          /\ \A k \in DOMAIN out' : out'[k][1].msdu <= m
      BY <1>0 DEF Behind, Live
    <3>9. \A s \in Slots : ring'[s] # None => Before(m, last.frag, ring[s])'
      BY <3>4, <1>0 DEF Before
    <3>10. (\E k \in DOMAIN out' : out'[k][1].msdu = m) =>
              /\ \A s \in Slots : ring'[s] # None /\ ring'[s].msdu = m => ring'[s].frag <= last'.frag
              /\ m = tx'.msdu => tx'.of = last'.frag + 1
      BY <3>5, <1>0, <1>f DEF Behind
    <3> QED
      BY <3>1, <3>6, <3>8, <3>9, <3>10, <1>0 DEF Behind
  <2>q. \A m, k : Queued(m, k) => Queued(m, k)'
    BY <2>r, <1>6 DEF Queued
  <2>v. /\ \A m, k : Reached(m, k) => Reached(m, k)'
        /\ \A m : HasEntry(m) => HasEntry(m)'
        /\ \A m : About(m)' <=> About(m)
    BY <2>q, <1>0 DEF Reached, HasEntry, About, Live
  <2>k. Reached(tx.msdu, tx.frag)'
    <3>1. Queued(tx.msdu, tx.frag)'
      BY <2>r, <2>g, <2>h, <1>f DEF Queued
    <3> QED
      BY <3>1 DEF Reached
  <2>w. About(tx.msdu) => last.frag \in cur.got /\ last.frag \in Nat
    BY <1>2 DEF IInv, Remembered, Behind
  <2>6. Complete'
    <3> SUFFICES ASSUME NEW m \in due'
                 PROVE  HasEntry(m)' /\ \E s \in Slots : LastQueued(m, s)'
      BY DEF Complete
    <3>1. CASE m \in due
      <4>1. HasEntry(m)
        BY <3>1 DEF IInv, Complete
      <4>2. PICK s \in Slots : LastQueued(m, s)
        BY <3>1 DEF IInv, Complete
      <4>3. ring'[s] = ring[s]
        BY <4>2, <2>r, <1>6 DEF LastQueued
      <4>4. \A k \in 0 .. ring'[s].frag : Reached(m, k)'
        BY <4>2, <4>3, <2>v DEF LastQueued
      <4>5. About(m)' => last'.frag < ring'[s].frag
        BY <4>2, <4>3, <2>v, <1>0 DEF LastQueued
      <4>6. LastQueued(m, s)'
        BY <4>2, <4>3, <4>4, <4>5 DEF LastQueued
      <4> QED
        BY <4>1, <4>6, <2>v
    <3>2. CASE m \notin due
      <4>1. m = tx.msdu /\ ~cur.hurt /\ tx.frag \notin cur.got /\ cur'.got = 0 .. tx.of - 1
        BY <3>2, <2>d
      <4>2. tx.of - 1 = tx.frag
        <5>1. tx.of - 1 \in cur.got \cup {tx.frag}
          BY <4>1, <2>c, <1>f
        <5> QED
          BY <5>1, <2>c, <1>f
      <4>3. /\ \A k \in Unbroken : Reached(tx.msdu, k)
            /\ 0 \in cur.got => HasEntry(tx.msdu)
        BY <4>1, <4>2, <1>2 DEF IInv, Coming
      <4>4. \A k \in 0 .. tx.frag - 1 : k \in Unbroken
        BY <4>1, <4>2, <2>c, <1>f DEF Unbroken
      <4>5. \A k \in 0 .. tx.frag : Reached(tx.msdu, k)'
        <5> SUFFICES ASSUME NEW k \in 0 .. tx.frag PROVE Reached(m, k)'
          BY <4>1, <1>f
        <5>1. CASE k = tx.frag
          BY <5>1, <2>k, <4>1, <1>f
        <5>2. CASE k # tx.frag
          BY <5>2, <4>1, <4>3, <4>4, <2>v, <1>f
        <5> QED
          BY <5>1, <5>2
      <4>6. About(tx.msdu) => last.frag < tx.frag
        BY <2>w, <2>c, <4>1, <1>f
      <4>7. HasEntry(m)
        <5>1. CASE 0 \in cur.got
          BY <5>1, <4>1, <4>3
        <5>2. CASE 0 \notin cur.got
          <6>1. tx.frag = 0
            BY <5>2, <4>1, <4>2, <2>c, <1>f
          <6> QED
            BY <6>1, <4>6, <4>1, <2>w DEF HasEntry
        <5> QED
          BY <5>1, <5>2
      <4>9. /\ ring'[hwIdx] # None /\ ring'[hwIdx].msdu = m /\ ~ring'[hwIdx].more
            /\ ring'[hwIdx].frag = tx.frag
        <5>1. ~(tx.frag + 1 < tx.of)
          BY <4>2, <1>f
        <5> QED
          BY <5>1, <4>1, <2>r, <2>g
      <4>10. \E s \in Slots : LastQueued(m, s)'
        <5>1. \A k \in 0 .. tx.frag : Reached(m, k)'
          BY <4>5, <4>1, <1>f
        <5>2. About(m)' => last'.frag < tx.frag
          BY <4>6, <4>1, <2>v, <1>0
        <5>3. PICK s \in Slots : s = hwIdx
          BY <2>h
        <5>4. LastQueued(m, s)'
          BY <5>1, <5>2, <5>3, <4>9 DEF LastQueued
        <5> QED
          BY <5>4
      <4> QED
        BY <4>7, <4>10, <2>v
    <3> QED
      BY <3>1, <3>2
  <2>7. Coming'
    <3> SUFFICES ASSUME ~cur'.hurt, tx.of - 1 \notin cur'.got
                 PROVE  /\ \A k \in Unbroken' : Reached(tx.msdu, k)'
                        /\ 0 \in cur'.got => HasEntry(tx.msdu)'
      BY <1>f DEF Coming
    <3>1. /\ \A k \in Unbroken : Reached(tx.msdu, k)
          /\ 0 \in cur.got => HasEntry(tx.msdu)
      BY <2>c, <1>2 DEF IInv, Coming
    <3>2. ASSUME NEW k \in Unbroken' PROVE Reached(tx.msdu, k)'
      <4>1. k \in Nat /\ 0 .. k \subseteq cur.got \cup {tx.frag}
        BY <2>c DEF Unbroken
      <4>2. CASE k = tx.frag
        BY <4>2, <2>k, <1>f
      <4>3. CASE k # tx.frag
        <5>1. k < tx.frag
          BY <4>1, <4>3, <2>c, <1>f
        <5>2. k \in Unbroken
          BY <4>1, <5>1, <1>f DEF Unbroken
        <5> QED
          BY <5>2, <3>1, <2>v, <1>f
      <4> QED
        BY <4>2, <4>3
    <3>3. ASSUME 0 \in cur'.got PROVE HasEntry(tx.msdu)
      <4>1. CASE 0 \in cur.got
        BY <4>1, <3>1
      <4>2. CASE 0 \notin cur.got
        <5>1. cur.got = {}
          BY <4>2, <3>3, <2>c, <1>f
        <5> QED
          BY <5>1, <2>w DEF HasEntry
      <4> QED
        BY <4>1, <4>2
    <3> QED
      BY <3>2, <3>3, <2>v, <1>f
  <2>8. Got'
    <3>1. tx'.msdu \in due' => ~cur'.hurt /\ tx'.of - 1 \in cur'.got
      <4> SUFFICES ASSUME tx.msdu \in due' PROVE ~cur'.hurt /\ tx.of - 1 \in cur'.got
        BY <1>f
      <4>1. ~cur'.hurt
        BY <2>d, <2>c
      <4>2. CASE tx.msdu \in due
        BY <4>1, <4>2, <2>c DEF IInv, Got
      <4>3. CASE tx.msdu \notin due
        BY <4>1, <4>3, <2>d, <1>f
      <4> QED
        BY <4>2, <4>3
    <3>2. cur'.got \subseteq 0 .. tx'.frag
      BY <2>c, <1>f
    <3>3. due' \subseteq Recent'
      BY <2>d, <1>2 DEF IInv, Got
    <3> QED
      BY <3>1, <3>2, <3>3 DEF Got
  <2> QED
    BY <2>1, <2>3, <2>4, <2>5, <2>6, <2>7, <2>8, <1>2, <1>4 DEF IInv
<1> QED
  BY <1>5, <1>6
-----------------------------------------------------------------------------
(* rtl8192_rx takes the frame at rx_idx.  It is the oldest one.            *)
LEMMA HeadIs ==
    ASSUME IInv, ring[rxIdx] # None
    PROVE  /\ rxIdx \in Slots /\ ring[rxIdx] \in Frame /\ Sent(ring[rxIdx])
           /\ ring[rxIdx].msdu \in Recent /\ ring[rxIdx].msdu \in Nat /\ ring[rxIdx].frag \in Nat
           /\ ring[rxIdx].more \in BOOLEAN /\ ring[rxIdx].seq = ring[rxIdx].msdu % SeqMod
           /\ ring[rxIdx].fate \in {"ok", "crc", "mpdu", "msdu"}
           /\ \A s \in Slots : ring[s] # None => Before(ring[rxIdx].msdu, ring[rxIdx].frag, ring[s])
<1>1. RingType /\ rxIdx \in Slots /\ Ring \in Nat
  BY RxPathAssumption DEF IInv, Types, RingType
<1>2. Sent(ring[rxIdx])
  BY <1>1 DEF IInv, Frames
<1>3. \A s \in Slots : Pos(rxIdx) <= Pos(s)
  BY <1>1 DEF Pos, Slots
<1>4. \A s \in Slots : ring[s] # None => Before(ring[rxIdx].msdu, ring[rxIdx].frag, ring[s])
  BY <1>1, <1>3 DEF IInv, QueueInv, Ordered
<1> QED
  BY <1>1, <1>2, <1>4, IsFrame DEF Sent

(* What is left of the ring.                                               *)
Taken ==
    /\ ring[rxIdx] # None /\ ring' = [ring EXCEPT ![rxIdx] = None] /\ rxIdx' = (rxIdx + 1) % Ring
    /\ UNCHANGED <<tx, lapse, hwIdx>> /\ count > 0 /\ count' = count - 1

LEMMA RingAfter ==
    ASSUME IInv, Taken
    PROVE  /\ ring'[rxIdx] = None /\ \A s \in Slots : s # rxIdx => ring'[s] = ring[s]
           /\ \A m, k : Queued(m, k)' <=>
                 \E s \in Slots : s # rxIdx /\ ring[s] # None /\ ring[s].msdu = m /\ ring[s].frag = k
<1>1. ring'[rxIdx] = None /\ \A s \in Slots : s # rxIdx => ring'[s] = ring[s]
  BY HeadIs DEF Taken, IInv, Types, RingType
<1> QED
  BY <1>1 DEF Queued

LEMMA TakenKeepsQueue ==
    ASSUME IInv, Taken
    PROVE  SenderType' /\ Sender' /\ Recent' = Recent /\ RingType' /\ QueueInv'
<1>t. /\ RingType /\ SenderType /\ Ring \in Nat \ {0} /\ rxIdx \in 0 .. Ring - 1 /\ hwIdx \in 0 .. Ring - 1
      /\ rxIdx \in Slots /\ hwIdx \in Slots
  BY RxPathAssumption DEF IInv, Types, RingType, Slots
<1>x. /\ rxIdx' = IF rxIdx + 1 = Ring THEN 0 ELSE rxIdx + 1
      /\ rxIdx' \in Slots
  <2>1. (rxIdx + 1) % Ring = IF rxIdx + 1 = Ring THEN 0 ELSE rxIdx + 1
    BY <1>t, NextSlot
  <2> QED
    BY <2>1, <1>t DEF Taken, Slots
<1>r. ring'[rxIdx] = None /\ \A s \in Slots : s # rxIdx => ring'[s] = ring[s]
  BY RingAfter
<1>1. SenderType' /\ Sender' /\ Recent' = Recent
  BY <1>t DEF Taken, SenderType, IInv, Sender, Recent
<1>2. RingType'
  <2>1. ring' \in [Slots -> Frame \cup {None}]
    BY <1>t DEF RingType, Taken
  <2>2. count' \in -1 .. Ring
    BY <1>t DEF RingType, Taken
  <2> QED
    BY <2>1, <2>2, <1>x, <1>t DEF RingType, Taken
<1>p. /\ \A s \in Slots : s # rxIdx => Pos(s)' = Pos(s) - 1 /\ Pos(s) >= 1 /\ Pos(s) < Ring
      /\ Pos(rxIdx) = 0 /\ \A s \in Slots : s = rxIdx => Pos(s)' = Ring - 1
      /\ \A s \in Slots : Pos(s) \in Int
  BY <1>t, <1>x DEF Pos, Slots
<1>h. Pos(hwIdx)' = (IF hwIdx >= rxIdx' THEN hwIdx - rxIdx' ELSE hwIdx + Ring - rxIdx')
  BY DEF Pos, Taken
<1>3. Filled'
  <2>1. CASE ring[hwIdx] # None
    <3>1. hwIdx = rxIdx /\ \A s \in Slots : ring[s] # None
      BY <2>1 DEF IInv, QueueInv, Filled
    <3>2. ring'[hwIdx'] = None
      BY <3>1, <1>r DEF Taken
    <3>3. Pos(hwIdx)' = Ring - 1
      BY <3>1, <1>h, <1>t, <1>x
    <3>4. \A s \in Slots : ring'[s] # None <=> Pos(s)' < Ring - 1
      <4> SUFFICES ASSUME NEW s \in Slots PROVE ring'[s] # None <=> Pos(s)' < Ring - 1
        OBVIOUS
      <4>1. CASE s = rxIdx
        BY <4>1, <1>r, <1>p, <1>t
      <4>2. CASE s # rxIdx
        BY <4>2, <1>r, <1>p, <3>1, <1>t
      <4> QED
        BY <4>1, <4>2
    <3> QED
      BY <3>2, <3>3, <3>4 DEF Filled
  <2>2. CASE ring[hwIdx] = None
    <3>1. hwIdx # rxIdx /\ \A s \in Slots : ring[s] # None <=> Pos(s) < Pos(hwIdx)
      BY <2>2 DEF IInv, QueueInv, Filled, Taken
    <3>2. ring'[hwIdx'] = None
      BY <3>1, <2>2, <1>r, <1>t DEF Taken
    <3>3. Pos(hwIdx)' = Pos(hwIdx) - 1 /\ Pos(hwIdx) < Ring /\ Pos(hwIdx) \in Int
      BY <3>1, <1>h, <1>t, <1>x DEF Pos
    <3>4. \A s \in Slots : ring'[s] # None <=> Pos(s)' < Pos(hwIdx) - 1
      <4> SUFFICES ASSUME NEW s \in Slots PROVE ring'[s] # None <=> Pos(s)' < Pos(hwIdx) - 1
        OBVIOUS
      <4>1. CASE s = rxIdx
        BY <4>1, <1>r, <1>p, <1>t, <3>3
      <4>2. CASE s # rxIdx
        <5>1. Pos(s)' = Pos(s) - 1 /\ Pos(s) \in Int
          BY <4>2, <1>p
        <5> QED
          BY <4>2, <5>1, <1>r, <3>1, <3>3
      <4> QED
        BY <4>1, <4>2
    <3> QED
      BY <3>2, <3>3, <3>4 DEF Filled
  <2> QED
    BY <2>1, <2>2
<1>4. Ordered'
  <2> SUFFICES ASSUME NEW s \in Slots, NEW t \in Slots, ring'[s] # None, ring'[t] # None, Pos(s)' <= Pos(t)'
               PROVE  Before(ring'[s].msdu, ring'[s].frag, ring'[t])
    BY DEF Ordered, Before
  <2>1. s # rxIdx /\ t # rxIdx /\ ring'[s] = ring[s] /\ ring'[t] = ring[t]
    BY <1>r
  <2>2. Pos(s) <= Pos(t)
    BY <2>1, <1>p
  <2> QED
    BY <2>1, <2>2 DEF IInv, QueueInv, Ordered
<1>5. LastOnes'
  BY <1>r DEF IInv, QueueInv, LastOnes
<1> QED
  BY <1>1, <1>2, <1>3, <1>4, <1>5 DEF QueueInv
-----------------------------------------------------------------------------
(* A frame that is no duplicate is newer than all that was joined or       *)
(* handed up.                                                              *)
LEMMA NewerThanAll ==
    ASSUME IInv, NEW f \in Frame, f = ring[rxIdx], ~is_duplicate_packet(f)
    PROVE  /\ \A k \in DOMAIN out : out[k][1].msdu < f.msdu
           /\ \A i \in Places : Live(i) => cache[i].msdu <= f.msdu
           /\ f.frag = 0 => \A i \in Places : Live(i) => cache[i].msdu < f.msdu
           /\ About(f.msdu) => last.frag + 1 = f.frag
<1>1. /\ f # None /\ f.msdu \in Nat /\ f.frag \in Nat /\ f.msdu \in Recent /\ f.seq = f.msdu % SeqMod
      /\ rxIdx \in Slots /\ tx.msdu \in Nat /\ lapse \in Nat
  BY HeadIs, NotNone, Fields DEF IInv, Types
<1>o. \A k \in DOMAIN out : out[k][1].msdu \in Nat
  <2> SUFFICES ASSUME NEW k \in DOMAIN out PROVE out[k][1].msdu \in Nat
    OBVIOUS
  <2>1. out[k] \in Seq(Frame) /\ Len(out[k]) > 0
    BY DEF IInv, Types, HistType, Handed, Given
  <2>2. out[k][1] \in Frame
    BY <2>1
  <2> QED
    BY <2>2 DEF Frame
<1>c. \A i \in Places : Live(i) => cache[i].msdu \in Nat
  BY IsEntry DEF IInv, Types, Live
<1>2. About(f.msdu) => last.frag + 1 = f.frag
  BY <1>1 DEF About, is_duplicate_packet
<1>3. CASE ~last.fresh
  <2>1. (\A i \in Places : ~Live(i)) /\ \A k \in DOMAIN out : out[k][1].msdu <= lapse
    BY <1>3 DEF IInv, Remembered
  <2>2. lapse < f.msdu
    BY <1>1 DEF Recent
  <2>3. \A k \in DOMAIN out : out[k][1].msdu < f.msdu
    BY <2>1, <2>2, <1>o, <1>1
  <2> QED
    BY <2>1, <2>3, <1>2
<1>4. CASE last.fresh
  <2>1. PICK m \in Recent : last.seq = m % SeqMod
    BY <1>4 DEF IInv, Remembered
  <2>2. About(m) /\ Behind(m) /\ m \in Nat
    BY <2>1, <1>4, <1>1 DEF IInv, Remembered, About, Recent
  <2>3. m < f.msdu \/ (m = f.msdu /\ last.frag <= f.frag)
    BY <2>2, <1>1 DEF Behind, Before
  <2>4. m = f.msdu => last.frag + 1 = f.frag /\ last.frag \in Nat
    BY <2>2, <1>2 DEF Behind
  <2>5. m = f.msdu => \A k \in DOMAIN out : out[k][1].msdu # m
    BY <2>2, <2>4, <1>1 DEF Behind
  <2>6. \A k \in DOMAIN out : out[k][1].msdu <= m
    BY <2>2 DEF Behind
  <2>7. \A k \in DOMAIN out : out[k][1].msdu < f.msdu
    BY <2>3, <2>5, <2>6, <1>o, <1>1, <2>2
  <2>8. \A i \in Places : Live(i) => cache[i].msdu <= m
    BY <2>2 DEF Behind
  <2>9. f.frag = 0 => m < f.msdu
    BY <2>3, <2>4, <1>1
  <2> QED
    BY <2>3, <2>7, <2>8, <2>9, <1>c, <1>1, <1>2, <2>2
<1> QED
  BY <1>3, <1>4

(* The entries that match are of the same MSDU.                            *)
LEMMA HitIs ==
    ASSUME IInv, NEW f \in Frame, f = ring[rxIdx], ~is_duplicate_packet(f),
           NEW k \in {-1, f.frag}, NEW i \in rtllib_frag_cache_find(f.seq, k)
    PROVE  /\ i \in Places /\ Live(i) /\ cache[i] \in Entry /\ cache[i].msdu = f.msdu
           /\ k # -1 => cache[i].frag + 1 = f.frag
           /\ \A j \in Places : Live(j) /\ cache[j].msdu = f.msdu => j = i
<1>1. /\ f # None /\ f.msdu \in Nat /\ f.msdu \in Recent /\ f.seq = f.msdu % SeqMod
      /\ tx.msdu \in Nat /\ lapse \in Nat /\ FragsType /\ DOMAIN cache = Places /\ SenderType /\ Sender
  BY HeadIs, NotNone, Fields DEF IInv, Types, FragsType
<1>2. i \in Places /\ Live(i) /\ cache[i].seq = f.seq /\ (k = -1 \/ cache[i].frag + 1 = k)
  BY <1>1 DEF rtllib_frag_cache_find
<1>3. cache[i] # None /\ ~cache[i].old
  BY <1>2 DEF Live
<1>4. cache[i] \in Entry /\ cache[i].msdu \in Nat
  BY <1>1, <1>2, <1>3, IsEntry
<1>5. cache[i].seq = cache[i].msdu % SeqMod /\ cache[i].msdu > lapse
  BY <1>2, <1>3 DEF IInv, Entries
<1>6. cache[i].msdu <= f.msdu
  BY <1>2, NewerThanAll
<1>7. cache[i].msdu \in Recent
  BY <1>1, <1>4, <1>5, <1>6 DEF Recent
<1>8. cache[i].msdu = f.msdu
  <2>1. cache[i].msdu % SeqMod = f.msdu % SeqMod
    BY <1>1, <1>2, <1>5
  <2> QED
    BY <1>1, <1>7, <2>1, SeqApart
<1>9. \A j \in Places : Live(j) /\ cache[j].msdu = f.msdu => j = i
  BY <1>2, <1>8 DEF IInv, OneEntry
<1> QED
  BY <1>2, <1>4, <1>8, <1>9

(* The entry of the MSDU of the frame is found.                            *)
LEMMA HitThere ==
    ASSUME IInv, NEW f \in Frame, f = ring[rxIdx], ~is_duplicate_packet(f),
           NEW i \in Places, Live(i), cache[i].msdu = f.msdu, cache[i].frag + 1 = f.frag
    PROVE  i \in rtllib_frag_cache_find(f.seq, f.frag)
<1>1. /\ f # None /\ f.msdu \in Nat /\ f.msdu \in Recent /\ f.seq = f.msdu % SeqMod
      /\ tx.msdu \in Nat /\ lapse \in Nat /\ FragsType /\ DOMAIN cache = Places /\ SenderType /\ Sender
      /\ CacheLen \in Nat
  BY HeadIs, NotNone, Fields, RxPathAssumption DEF IInv, Types, FragsType
<1>2. cache[i].seq = f.seq
  BY <1>1 DEF IInv, Entries, Live
<1>3. ASSUME NEW j \in 0 .. i - 1, Live(j), cache[j].seq = f.seq PROVE FALSE
  <2>1. j \in Places /\ j # i
    BY <1>1 DEF Places
  <2>2. cache[j] # None /\ ~cache[j].old
    BY <1>3 DEF Live
  <2>3. cache[j].seq = cache[j].msdu % SeqMod /\ cache[j].msdu > lapse /\ cache[j].msdu \in Nat
    BY <2>1, <2>2, <1>1, IsEntry DEF IInv, Entries
  <2>4. cache[j].msdu <= f.msdu
    BY <2>1, <1>3, NewerThanAll
  <2>5. cache[j].msdu \in Recent
    BY <1>1, <2>3, <2>4 DEF Recent
  <2>6. cache[j].msdu % SeqMod = f.msdu % SeqMod
    BY <1>1, <1>3, <2>3
  <2>7. cache[j].msdu = f.msdu
    BY <1>1, <2>5, <2>6, SeqApart
  <2> QED
    BY <2>1, <2>7, <1>3 DEF IInv, OneEntry
<1> QED
  BY <1>1, <1>2, <1>3 DEF rtllib_frag_cache_find
-----------------------------------------------------------------------------
(* What a frame does to the fragment cache.                                *)
CacheIs == cache' \in [Places -> Entry \cup {None}] /\ next' \in Places

LEMMA CacheShrinks ==
    ASSUME IInv, lapse' = lapse, next' = next,
           cache' \in [Places -> Entry \cup {None}],
           \A j \in Places : cache'[j] = None \/ cache'[j] = cache[j]
    PROVE  CacheIs /\ Entries' /\ OneEntry' /\ \A j \in Places : Live(j)' => Live(j) /\ cache'[j] = cache[j]
<1>1. \A j \in Places : cache'[j] # None => cache'[j] = cache[j] /\ cache[j] # None
  OBVIOUS
<1>2. \A j \in Places : Live(j)' => Live(j) /\ cache'[j] = cache[j]
  BY <1>1 DEF Live
<1>3. Entries'
  BY <1>1 DEF IInv, Entries, Parts
<1>4. OneEntry'
  BY <1>2 DEF IInv, OneEntry
<1> QED
  BY <1>2, <1>3, <1>4 DEF IInv, Types, FragsType, CacheIs

LEMMA CachePut ==
    ASSUME IInv, lapse' = lapse, NEW i \in Places,
           cache' \in [Places -> Entry \cup {None}], next' \in Places,
           \A j \in Places : j # i => cache'[j] = None \/ cache'[j] = cache[j],
           \A j \in Places : j # i /\ Live(j) => cache[j].msdu # cache'[i].msdu,
           cache'[i] \in Entry, cache'[i].seq = cache'[i].msdu % SeqMod,
           Len(cache'[i].parts) = cache'[i].frag + 1, Parts(cache'[i].parts, cache'[i].msdu),
           cache'[i].msdu > lapse, ~cache'[i].old
    PROVE  CacheIs /\ Entries' /\ OneEntry' /\ Live(i)'
           /\ \A j \in Places : j # i /\ Live(j)' => Live(j) /\ cache'[j] = cache[j]
<1>1. \A j \in Places : j # i /\ cache'[j] # None => cache'[j] = cache[j] /\ cache[j] # None
  OBVIOUS
<1>2. \A j \in Places : j # i /\ Live(j)' => Live(j) /\ cache'[j] = cache[j]
  BY <1>1 DEF Live
<1>3. Live(i)'
  BY NotNone DEF Live
<1>4. Entries'
  <2> SUFFICES ASSUME NEW j \in Places, cache'[j] # None
               PROVE  /\ cache'[j].seq = cache'[j].msdu % SeqMod
                      /\ Len(cache'[j].parts) = cache'[j].frag + 1
                      /\ Parts(cache'[j].parts, cache'[j].msdu)
                      /\ ~cache'[j].old => cache'[j].msdu > lapse
    BY DEF Entries, Parts
  <2>1. CASE j = i
    BY <2>1
  <2>2. CASE j # i
    BY <2>2, <1>1 DEF IInv, Entries
  <2> QED
    BY <2>1, <2>2
<1>5. OneEntry'
  <2> SUFFICES ASSUME NEW a \in Places, NEW b \in Places, Live(a)', Live(b)', cache'[a].msdu = cache'[b].msdu
               PROVE  a = b
    BY DEF OneEntry
  <2>1. CASE a # i /\ b # i
    BY <2>1, <1>2 DEF IInv, OneEntry
  <2>2. CASE a = i /\ b # i
    BY <2>2, <1>2
  <2>3. CASE a # i /\ b = i
    BY <2>3, <1>2
  <2> QED
    BY <2>1, <2>2, <2>3
<1> QED
  BY <1>2, <1>3, <1>4, <1>5 DEF CacheIs

LEMMA SweptIs ==
    ASSUME IInv
    PROVE  /\ Swept \in [Places -> Entry \cup {None}]
           /\ \A j \in Places : Swept[j] = IF Live(j) THEN cache[j] ELSE None
<1>1. DOMAIN cache = Places /\ cache \in [Places -> Entry \cup {None}]
  BY DEF IInv, Types, FragsType
<1> QED
  BY <1>1 DEF Swept

(* FirstFragment opens an entry.                                           *)
LEMMA FirstFragmentPuts ==
    ASSUME IInv, lapse' = lapse, NEW f \in Frame, f = ring[rxIdx], ~is_duplicate_packet(f), f.frag = 0,
           FirstFragment(f)
    PROVE  /\ CacheIs /\ Entries' /\ OneEntry'
           /\ \A j \in Places : Live(j)' => cache'[j].msdu <= f.msdu
           /\ \E i \in Places : Live(i)' /\ cache'[i].msdu = f.msdu /\ cache'[i].frag = f.frag
<1> DEFINE e == [msdu |-> f.msdu, seq |-> f.seq, frag |-> 0, parts |-> <<f>>, old |-> FALSE]
<1>1. /\ f # None /\ f.msdu \in Nat \ {0} /\ f.msdu \in Recent /\ f.seq = f.msdu % SeqMod /\ f.seq \in Nat
      /\ lapse \in Nat /\ next \in Places /\ CacheLen \in Nat \ {0} /\ f.msdu > lapse /\ tx.msdu \in Nat
      /\ cache \in [Places -> Entry \cup {None}]
  <2>1. f # None
    BY NotNone
  <2>2. /\ f.msdu \in Recent /\ f.seq = f.msdu % SeqMod /\ lapse \in Nat /\ tx.msdu \in Nat
    BY <2>1, HeadIs, Fields DEF IInv, Types
  <2>3. f.msdu > lapse
    BY <2>2 DEF Recent
  <2> QED
    BY <2>1, <2>2, <2>3, RxPathAssumption DEF IInv, Types, FragsType, Frame
<1>2. cache' = [cache EXCEPT ![next] = e] /\ next' = (next + 1) % CacheLen
  BY DEF FirstFragment
<1>3. e \in Entry
  <2>1. <<f>> \in Seq(Frame)
    OBVIOUS
  <2> QED
    BY <1>1, <2>1 DEF Entry
<1>4. /\ e.msdu = f.msdu /\ e.seq = f.seq /\ e.frag = 0 /\ e.parts = <<f>> /\ e.old = FALSE
  OBVIOUS
<1> HIDE DEF e
<1>5. Len(e.parts) = e.frag + 1 /\ Parts(e.parts, e.msdu)
  BY <1>4 DEF Parts
<1>6. cache'[next] = e /\ (\A j \in Places : j # next => cache'[j] = cache[j])
      /\ cache' \in [Places -> Entry \cup {None}]
  BY <1>1, <1>2, <1>3
<1>7. next' \in Places
  <2>1. next \in 0 .. CacheLen - 1
    BY <1>1 DEF Places
  <2>0. CacheLen \in Nat \ {0}
    BY <1>1
  <2>2. next + 1 \in Int
    BY <2>1, <2>0
  <2>3. (next + 1) % CacheLen \in 0 .. CacheLen - 1
    BY <2>0, <2>2, DivMod, Zenon
  <2> QED
    BY <1>2, <2>3 DEF Places
<1>8. \A j \in Places : Live(j) => cache[j].msdu < f.msdu /\ cache[j].msdu \in Nat
  BY NewerThanAll, IsEntry DEF Live, IInv, Types
<1>9. \A j \in Places : j # next /\ Live(j) => cache[j].msdu # cache'[next].msdu
  BY <1>8, <1>6, <1>4, <1>1
<1>10. PICK i \in Places : i = next
  BY <1>1
<1>11. /\ CacheIs /\ Entries' /\ OneEntry' /\ Live(i)'
       /\ \A j \in Places : j # i /\ Live(j)' => Live(j) /\ cache'[j] = cache[j]
  BY <1>10, <1>6, <1>7, <1>9, <1>3, <1>4, <1>5, <1>1, CachePut
<1>12. \A j \in Places : Live(j)' => cache'[j].msdu <= f.msdu
  BY <1>11, <1>10, <1>8, <1>6, <1>4, <1>1
<1>13. Live(i)' /\ cache'[i].msdu = f.msdu /\ cache'[i].frag = f.frag
  BY <1>11, <1>10, <1>6, <1>4
<1> QED
  BY <1>11, <1>12, <1>13

(* LaterFragment adds to one.                                              *)
LEMMA LaterFragmentPuts ==
    ASSUME IInv, lapse' = lapse, NEW f \in Frame, f = ring[rxIdx], ~is_duplicate_packet(f),
           NEW i \in rtllib_frag_cache_find(f.seq, f.frag), LaterFragment(f, i)
    PROVE  /\ CacheIs /\ Entries' /\ OneEntry'
           /\ \A j \in Places : Live(j)' => cache'[j].msdu <= f.msdu
           /\ Live(i)' /\ cache'[i].msdu = f.msdu /\ cache'[i].frag = f.frag
<1>0. f.msdu \in Nat /\ f.frag \in Nat /\ next' = next
      /\ cache' = [Swept EXCEPT ![i].frag = f.frag, ![i].parts = Append(@, f)]
  BY DEF Frame, LaterFragment
<1>1. /\ i \in Places /\ Live(i) /\ cache[i] \in Entry /\ cache[i].msdu = f.msdu
      /\ cache[i].frag + 1 = f.frag
      /\ \A j \in Places : Live(j) /\ cache[j].msdu = f.msdu => j = i
  BY <1>0, HitIs
<1>2. Swept[i] = cache[i] /\ Swept \in [Places -> Entry \cup {None}]
  BY <1>1, SweptIs
<1>3. /\ \A j \in Places : j # i => cache'[j] = Swept[j]
      /\ DOMAIN cache' = Places /\ cache' = [j \in Places |-> cache'[j]]
  BY <1>0, <1>1, <1>2
<1>4. /\ cache'[i] \in Entry /\ cache'[i].msdu = f.msdu /\ cache'[i].seq = cache[i].seq
      /\ cache'[i].frag = f.frag /\ cache'[i].parts = Append(cache[i].parts, f)
      /\ cache'[i].old = cache[i].old
  <2>1. cache[i].parts \in Seq(Frame)
    BY <1>1 DEF Entry
  <2>2. Append(cache[i].parts, f) \in Seq(Frame)
    BY <2>1
  <2>3. cache'[i] = [cache[i] EXCEPT !.frag = f.frag, !.parts = Append(@, f)]
    BY <1>0, <1>1, <1>2 DEF Entry
  <2> DEFINE p == Append(cache[i].parts, f)
             c == cache[i]
             d == cache'[i]
  <2>4. d = [c EXCEPT !.frag = f.frag, !.parts = p] /\ c \in Entry /\ p \in Seq(Frame) /\ f.frag \in Nat
    BY <1>0, <1>1, <2>2, <2>3
  <2> HIDE DEF p, c, d
  <2>5. /\ d \in Entry /\ d.msdu = c.msdu /\ d.seq = c.seq /\ d.frag = f.frag /\ d.parts = p
        /\ d.old = c.old
    BY <2>4 DEF Entry
  <2> QED
    BY <2>5, <1>1 DEF p, c, d
<1>5. /\ cache[i].seq = cache[i].msdu % SeqMod /\ Len(cache[i].parts) = cache[i].frag + 1
      /\ Parts(cache[i].parts, cache[i].msdu) /\ cache[i].msdu > lapse /\ ~cache[i].old
      /\ cache[i].parts \in Seq(Frame) /\ cache[i].frag \in Nat
  BY <1>1 DEF IInv, Entries, Live, Entry
<1>6. Len(cache'[i].parts) = cache'[i].frag + 1 /\ Parts(cache'[i].parts, cache'[i].msdu)
  <2> DEFINE p == cache[i].parts
  <2>1. p \in Seq(Frame) /\ Len(p) = f.frag /\ f.frag \in Nat
        /\ \A j \in 1 .. Len(p) : p[j].msdu = f.msdu /\ p[j].frag = j - 1
    BY <1>0, <1>1, <1>5 DEF Parts
  <2> HIDE DEF p
  <2>2. /\ Len(Append(p, f)) = f.frag + 1 /\ DOMAIN Append(p, f) = 1 .. f.frag + 1
        /\ Append(p, f)[f.frag + 1] = f
        /\ \A j \in 1 .. f.frag : Append(p, f)[j] = p[j]
    BY <2>1
  <2>3. Parts(Append(p, f), f.msdu)
    <3> SUFFICES ASSUME NEW j \in 1 .. f.frag + 1
                 PROVE  Append(p, f)[j].msdu = f.msdu /\ Append(p, f)[j].frag = j - 1
      BY <2>2 DEF Parts
    <3>1. CASE j = f.frag + 1
      BY <3>1, <2>1, <2>2
    <3>2. CASE j # f.frag + 1
      <4>1. j \in 1 .. f.frag
        BY <3>2, <2>1
      <4> QED
        BY <4>1, <2>1, <2>2
    <3> QED
      BY <3>1, <3>2
  <2> QED
    BY <2>2, <2>3, <1>4 DEF p
<1>7. \A j \in Places : j # i => cache'[j] = None \/ cache'[j] = cache[j]
  BY <1>3, SweptIs
<1>8. cache' \in [Places -> Entry \cup {None}]
  BY <1>2, <1>3, <1>4
<1>9. \A j \in Places : j # i /\ Live(j) => cache[j].msdu # cache'[i].msdu
  BY <1>1, <1>4
<1>10. /\ CacheIs /\ Entries' /\ OneEntry' /\ Live(i)'
       /\ \A j \in Places : j # i /\ Live(j)' => Live(j) /\ cache'[j] = cache[j]
  <2>1. next' \in Places
    BY <1>0 DEF IInv, Types, FragsType
  <2> QED
    <3>1. cache'[i].seq = cache'[i].msdu % SeqMod /\ cache'[i].msdu > lapse /\ ~cache'[i].old
      BY <1>1, <1>4, <1>5
    <3>2. i \in Places /\ cache'[i] \in Entry
      BY <1>1, <1>4
    <3> QED
      BY <2>1, <3>1, <3>2, <1>6, <1>7, <1>8, <1>9, CachePut
<1>11. ASSUME NEW j \in Places, Live(j)' PROVE cache'[j].msdu <= f.msdu
  <2>1. CASE j = i
    BY <2>1, <1>4, <1>0
  <2>2. CASE j # i
    BY <2>2, <1>10, <1>11, NewerThanAll
  <2> QED
    BY <2>1, <2>2
<1> QED
  BY <1>10, <1>11, <1>4

(* The other changes only free entries.                                    *)
LEMMA CacheFrees ==
    ASSUME IInv, lapse' = lapse, NEW f \in Frame, f = ring[rxIdx], ~is_duplicate_packet(f),
           \/ UNCHANGED <<cache, next>>
           \/ cache' = Swept /\ UNCHANGED next
           \/ rtllib_frag_cache_invalidate(f)
    PROVE  /\ CacheIs /\ Entries' /\ OneEntry'
           /\ \A j \in Places : Live(j)' => cache'[j].msdu <= f.msdu
<1>1. cache \in [Places -> Entry \cup {None}] /\ DOMAIN cache = Places
  BY DEF IInv, Types, FragsType
<1>2. next' = next
  BY DEF rtllib_frag_cache_invalidate
<1>3. cache' \in [Places -> Entry \cup {None}] /\ \A j \in Places : cache'[j] = None \/ cache'[j] = cache[j]
  <2>1. CASE UNCHANGED <<cache, next>>
    BY <2>1, <1>1
  <2>2. CASE cache' = Swept
    BY <2>2, SweptIs
  <2>3. CASE rtllib_frag_cache_invalidate(f)
    <3>1. cache' = [i \in Places |-> IF i \in rtllib_frag_cache_find(f.seq, -1) THEN None ELSE Swept[i]]
      BY <2>3, <1>1 DEF rtllib_frag_cache_invalidate
    <3> QED
      BY <3>1, SweptIs
  <2> QED
    BY <2>1, <2>2, <2>3
<1>4. CacheIs /\ Entries' /\ OneEntry' /\ \A j \in Places : Live(j)' => Live(j) /\ cache'[j] = cache[j]
  BY <1>2, <1>3, CacheShrinks
<1> QED
  BY <1>4, NewerThanAll
-----------------------------------------------------------------------------
(* What becomes of a frame f.  It is not looked at or a duplicate, ...     *)
Skipped(f) ==
    /\ f.fate = "crc" \/ is_duplicate_packet(f)
    /\ UNCHANGED <<last, cache, next, out, errs, cur, due>>
(* ... it is bad, or a later fragment without its entry, ...               *)
Useless(f) ==
    /\ UNCHANGED <<out, errs, cur, due>>
    /\ \/ UNCHANGED <<cache, next>> /\ f.fate # "ok"
       \/ cache' = Swept /\ UNCHANGED next /\ f.frag # 0 /\ rtllib_frag_cache_find(f.seq, f.frag) = {}
       \/ rtllib_frag_cache_invalidate(f) /\ f.fate # "ok"
(* ... it is kept in the cache, ...                                        *)
Stored(f) ==
    /\ UNCHANGED <<out, errs, cur, due>> /\ f.more
    /\ \/ f.frag = 0 /\ FirstFragment(f)
       \/ f.frag # 0 /\ \E i \in rtllib_frag_cache_find(f.seq, f.frag) : LaterFragment(f, i)
(* ... there is no memory for it, or it completes an MSDU.                 *)
Refused(f) == Fault({f.msdu}) /\ UNCHANGED <<cache, next>>
Completed(f) ==
    /\ ~f.more /\ f.fate = "ok"
    /\ \/ f.frag = 0 /\ Deliver(<<f>>) /\ UNCHANGED <<cache, next>>
       \/ /\ f.frag # 0 /\ rtllib_frag_cache_invalidate(f)
          /\ \E i \in rtllib_frag_cache_find(f.seq, f.frag) : Deliver(Append(cache[i].parts, f))
Used(f) ==
    /\ ~is_duplicate_packet(f) /\ f.fate # "crc"
    /\ last' = [seq |-> f.seq, frag |-> f.frag, fresh |-> TRUE]
    /\ Useless(f) \/ Stored(f) \/ Refused(f) \/ Completed(f)

LEMMA RxFrameIs ==
    ASSUME IInv, RxFrame
    PROVE  Taken /\ (Skipped(ring[rxIdx]) \/ Used(ring[rxIdx]))
<1>1. Taken
  BY DEF RxFrame, Taken, sender
<1> DEFINE f == ring[rxIdx]
<1>2. CASE ~rtl8192_rx_query_status_desc(f)
  <2>1. f.fate = "crc"
    BY <1>2 DEF rtl8192_rx_query_status_desc
  <2> QED
    BY <1>1, <1>2, <2>1 DEF RxFrame, Drop, frags, Skipped
<1>3. CASE rtl8192_rx_query_status_desc(f)
  <2>1. rtllib_rx(f) /\ f.fate # "crc"
    BY <1>3 DEF RxFrame, rtl8192_rx_query_status_desc
  <2> HIDE DEF f
  <2>2. CASE is_duplicate_packet(f)
    BY <2>1, <2>2, <1>1 DEF rtllib_rx, Drop, frags, Skipped, f
  <2>3. CASE ~is_duplicate_packet(f)
    <3>1. /\ last' = [seq |-> f.seq, frag |-> f.frag, fresh |-> TRUE]
          /\ \/ Filtered(f)
             \/ f.frag = 0 /\ ~f.more /\ Msdu(f, <<f>>, FALSE) /\ UNCHANGED <<cache, next>>
             \/ (f.frag # 0 \/ f.more) /\ Fragment(f)
      BY <2>1, <2>3 DEF rtllib_rx, Remember
    <3>2. CASE Filtered(f)
      <4>1. Useless(f)
        BY <3>2 DEF Filtered, Drop, Useless
      <4> QED
        BY <4>1, <3>1, <2>1, <2>3, <1>1 DEF Used, f
    <3>3. CASE f.frag = 0 /\ ~f.more /\ Msdu(f, <<f>>, FALSE) /\ UNCHANGED <<cache, next>>
      <4>1. Useless(f) \/ Completed(f)
        BY <3>3 DEF Msdu, Useless, Completed
      <4> QED
        BY <4>1, <3>1, <2>1, <2>3, <1>1 DEF Used, f
    <3>4. CASE (f.frag # 0 \/ f.more) /\ Fragment(f)
      <4>1. CASE f.frag = 0
        <5>1. f.more /\ ((FirstFragment(f) /\ Drop) \/ (Fault({f.msdu}) /\ UNCHANGED <<cache, next>>))
          BY <3>4, <4>1 DEF Fragment
        <5>2. Stored(f) \/ Refused(f)
          BY <5>1, <4>1 DEF Drop, Stored, Refused
        <5> QED
          BY <5>2, <3>1, <2>1, <2>3, <1>1 DEF Used, f
      <4>2. CASE f.frag # 0
        <5> DEFINE hit == rtllib_frag_cache_find(f.seq, f.frag)
        <5>1. \/ hit = {} /\ Drop /\ cache' = Swept /\ UNCHANGED next
              \/ f.more /\ (\E i \in hit : LaterFragment(f, i)) /\ Drop
              \/ /\ ~f.more /\ rtllib_frag_cache_invalidate(f)
                 /\ \E i \in hit : Msdu(f, Append(cache[i].parts, f), TRUE)
          BY <3>4, <4>2 DEF Fragment
        <5>2. CASE hit = {} /\ Drop /\ cache' = Swept /\ UNCHANGED next
          <6>1. Useless(f)
            BY <5>2, <4>2 DEF Drop, Useless
          <6> QED
            BY <6>1, <3>1, <2>1, <2>3, <1>1 DEF Used, f
        <5>3. CASE f.more /\ (\E i \in hit : LaterFragment(f, i)) /\ Drop
          <6>1. Stored(f)
            BY <5>3, <4>2 DEF Drop, Stored
          <6> QED
            BY <6>1, <3>1, <2>1, <2>3, <1>1 DEF Used, f
        <5>4. CASE /\ ~f.more /\ rtllib_frag_cache_invalidate(f)
                   /\ \E i \in hit : Msdu(f, Append(cache[i].parts, f), TRUE)
          <6>1. PICK i \in hit : Msdu(f, Append(cache[i].parts, f), TRUE)
            BY <5>4
          <6>2. CASE f.fate = "ok" /\ Deliver(Append(cache[i].parts, f))
            <7>1. Completed(f)
              BY <6>2, <5>4, <4>2 DEF Completed
            <7> QED
              BY <7>1, <3>1, <2>1, <2>3, <1>1 DEF Used, f
          <6>3. CASE f.fate = "msdu" /\ UNCHANGED <<out, errs, cur, due>>
            <7>1. Useless(f)
              BY <6>3, <5>4 DEF Useless
            <7> QED
              BY <7>1, <3>1, <2>1, <2>3, <1>1 DEF Used, f
          <6> QED
            BY <6>1, <6>2, <6>3 DEF Msdu
        <5> QED
          BY <5>1, <5>2, <5>3, <5>4
      <4> QED
        BY <4>1, <4>2
    <3> QED
      BY <3>1, <3>2, <3>3, <3>4
  <2> QED
    BY <2>2, <2>3
<1> QED
  BY <1>2, <1>3

(* The cache after a frame that was used.                                  *)
LEMMA UsedKeepsCache ==
    ASSUME IInv, Taken, NEW f \in Frame, f = ring[rxIdx], Used(f)
    PROVE  /\ CacheIs /\ Entries' /\ OneEntry'
           /\ \A j \in Places : Live(j)' => cache'[j].msdu <= f.msdu
           /\ Stored(f) => \E i \in Places : Live(i)' /\ cache'[i].msdu = f.msdu /\ cache'[i].frag = f.frag
<1>1. lapse' = lapse /\ ~is_duplicate_packet(f)
  BY DEF Taken, Used
<1>2. CASE Stored(f) /\ f.frag = 0
  BY <1>1, <1>2, FirstFragmentPuts DEF Stored
<1>3. CASE Stored(f) /\ f.frag # 0
  <2>1. PICK i \in rtllib_frag_cache_find(f.seq, f.frag) : LaterFragment(f, i)
    BY <1>3 DEF Stored
  <2>2. f.frag \in {-1, f.frag}
    OBVIOUS
  <2>3. i \in Places
    BY <1>1, <2>1, <2>2, HitIs
  <2> QED
    BY <1>1, <2>1, <2>3, LaterFragmentPuts
<1>4. CASE ~Stored(f)
  <2>1. \/ UNCHANGED <<cache, next>>
        \/ cache' = Swept /\ UNCHANGED next
        \/ rtllib_frag_cache_invalidate(f)
    BY <1>4 DEF Used, Useless, Refused, Completed
  <2> QED
    BY <1>1, <1>4, <2>1, CacheFrees
<1> QED
  BY <1>2, <1>3, <1>4

(* What is handed up.                                                      *)
LEMMA CompletedIs ==
    ASSUME IInv, NEW f \in Frame, f = ring[rxIdx], ~is_duplicate_packet(f), Completed(f)
    PROVE  \E p \in Seq(Frame) : /\ out' = Append(out, p) /\ Given(p) /\ p[1].msdu = f.msdu
                                 /\ due' = due \ {f.msdu} /\ UNCHANGED <<errs, cur>>
<1>0. f.frag \in Nat /\ ~f.more
  BY DEF Frame, Completed
<1>1. CASE f.frag = 0
  <2>1. Deliver(<<f>>)
    BY <1>1 DEF Completed
  <2>2. <<f>> \in Seq(Frame) /\ <<f>>[1] = f /\ Len(<<f>>) = 1 /\ DOMAIN <<f>> = {1}
    OBVIOUS
  <2>3. Given(<<f>>)
    BY <2>2, <1>0, <1>1 DEF Given, Parts
  <2> QED
    BY <2>1, <2>2, <2>3 DEF Deliver
<1>2. CASE f.frag # 0
  <2>1. PICK i \in rtllib_frag_cache_find(f.seq, f.frag) : Deliver(Append(cache[i].parts, f))
    BY <1>2 DEF Completed
  <2>2. f.frag \in {-1, f.frag} /\ f.frag # -1
    BY <1>0
  <2>3. i \in Places /\ Live(i) /\ cache[i] \in Entry /\ cache[i].msdu = f.msdu /\ cache[i].frag + 1 = f.frag
    BY <2>1, <2>2, HitIs
  <2> DEFINE q == cache[i].parts
  <2>4. /\ q \in Seq(Frame) /\ Len(q) = f.frag
        /\ \A j \in 1 .. Len(q) : q[j].msdu = f.msdu /\ q[j].frag = j - 1
    BY <2>3 DEF IInv, Entries, Live, Entry, Parts
  <2> HIDE DEF q
  <2> DEFINE p == Append(q, f)
  <2>5. /\ p \in Seq(Frame) /\ Len(p) = f.frag + 1 /\ DOMAIN p = 1 .. f.frag + 1
        /\ p[f.frag + 1] = f /\ \A j \in 1 .. f.frag : p[j] = q[j]
    BY <2>4, <1>0
  <2> HIDE DEF p
  <2>6. \A j \in 1 .. f.frag + 1 : p[j].msdu = f.msdu /\ p[j].frag = j - 1
    <3> SUFFICES ASSUME NEW j \in 1 .. f.frag + 1 PROVE p[j].msdu = f.msdu /\ p[j].frag = j - 1
      OBVIOUS
    <3>1. CASE j = f.frag + 1
      BY <3>1, <2>5, <1>0
    <3>2. CASE j # f.frag + 1
      <4>1. j \in 1 .. f.frag
        BY <3>2, <1>0
      <4> QED
        BY <4>1, <2>4, <2>5
    <3> QED
      BY <3>1, <3>2
  <2>7. p[1].msdu = f.msdu
    BY <2>6, <1>0
  <2>8. Given(p)
    <3>1. Parts(p, p[1].msdu)
      BY <2>5, <2>6, <2>7 DEF Parts
    <3>2. Len(p) > 0 /\ ~p[Len(p)].more
      BY <2>5, <1>0
    <3> QED
      BY <3>1, <3>2 DEF Given
  <2>9. Deliver(p)
    BY <2>1 DEF p, q
  <2> QED
    BY <2>5, <2>7, <2>8, <2>9 DEF Deliver
<1> QED
  BY <1>1, <1>2
-----------------------------------------------------------------------------
(* The fragments of an MSDU m that arrived without a gap, W, stay in the   *)
(* ring or become joined.                                                  *)
Wanted(m, W) ==
    /\ m \in Recent /\ W \in SUBSET Nat /\ \A k \in W : 0 .. k \subseteq W
    /\ \A k \in W : Reached(m, k)
    /\ 0 \in W => HasEntry(m)
    /\ \A s \in Slots : ring[s] # None /\ ring[s].msdu = m => ring[s].fate = "ok"

(* A duplicate among them repeats the last one.                            *)
LEMMA NoGap ==
    ASSUME IInv, NEW f \in Frame, f = ring[rxIdx], NEW m, NEW W, Wanted(m, W),
           f.msdu = m, f.frag \in W, is_duplicate_packet(f)
    PROVE  About(m) /\ f.frag = last.frag
<1>1. f # None /\ f.seq = f.msdu % SeqMod /\ f.frag \in Nat /\ f.msdu \in Nat
      /\ \A s \in Slots : ring[s] # None => Before(f.msdu, f.frag, ring[s])
  BY HeadIs, NotNone
<1>2. About(m) /\ last.frag + 1 # f.frag
  BY <1>1 DEF is_duplicate_packet, About
<1>3. Behind(m)
  BY <1>2 DEF IInv, Remembered, Wanted
<1>4. last.frag \in Nat /\ last.frag <= f.frag
  BY <1>1, <1>3, HeadIs DEF Behind, Before
<1>5. ASSUME last.frag # f.frag PROVE FALSE
  <2>1. last.frag + 1 < f.frag /\ last.frag + 1 \in 0 .. f.frag
    BY <1>1, <1>2, <1>4, <1>5
  <2>2. Reached(m, last.frag + 1)
    BY <2>1 DEF Wanted
  <2>3. Queued(m, last.frag + 1)
    BY <2>2, <1>4 DEF Reached
  <2>4. PICK s \in Slots : ring[s] # None /\ ring[s].msdu = m /\ ring[s].frag = last.frag + 1
    BY <2>3 DEF Queued
  <2>5. Before(f.msdu, f.frag, ring[s])
    BY <1>1, <2>4
  <2> QED
    BY <2>1, <2>4, <2>5, <1>1, <1>4 DEF Before
<1> QED
  BY <1>2, <1>5

(* A later fragment among them that is no duplicate finds its entry.       *)
LEMMA EntryThere ==
    ASSUME IInv, NEW f \in Frame, f = ring[rxIdx], NEW m, NEW W, Wanted(m, W),
           f.msdu = m, 0 \in W, ~is_duplicate_packet(f), f.frag # 0
    PROVE  /\ About(m) /\ last.frag + 1 = f.frag /\ last.frag \in Nat
           /\ rtllib_frag_cache_find(f.seq, f.frag) # {}
<1>1. f # None /\ f.seq = f.msdu % SeqMod /\ f.frag \in Nat /\ f.msdu \in Nat
      /\ \A s \in Slots : ring[s] # None => Before(f.msdu, f.frag, ring[s])
  BY HeadIs, NotNone
<1>2. Reached(m, 0) /\ HasEntry(m)
  BY DEF Wanted
<1>3. ~Queued(m, 0)
  BY <1>1 DEF Queued, Before
<1>4. About(m)
  BY <1>2, <1>3 DEF Reached
<1>5. last.frag + 1 = f.frag
  BY <1>4, NewerThanAll
<1>6. last.frag \in Nat
  BY <1>4 DEF IInv, Remembered, Behind, Wanted
<1>7. PICK i \in Places : Live(i) /\ cache[i].msdu = m /\ cache[i].frag = last.frag
  BY <1>2, <1>4 DEF HasEntry
<1>8. i \in rtllib_frag_cache_find(f.seq, f.frag)
  BY <1>5, <1>7, HitThere
<1> QED
  BY <1>4, <1>5, <1>6, <1>8

LEMMA WantedKept ==
    ASSUME IInv, Taken, NEW f \in Frame, f = ring[rxIdx], Skipped(f) \/ Used(f),
           NEW m, NEW W, Wanted(m, W), f.msdu <= m,
           f.msdu = m => (f.more \/ Skipped(f)) /\ ~(Used(f) /\ Refused(f)) /\ f.frag \in Nat
    PROVE  (\A k \in W : Reached(m, k)') /\ (0 \in W => HasEntry(m)')
<1>1. /\ f # None /\ f.seq = f.msdu % SeqMod /\ f.frag \in Nat /\ f.msdu \in Nat /\ f.msdu \in Recent
      /\ rxIdx \in Slots /\ m \in Recent /\ m \in Nat
      /\ \A s \in Slots : ring[s] # None => Before(f.msdu, f.frag, ring[s])
  BY HeadIs, NotNone, Fields DEF Wanted, Recent, IInv, Types
<1>2. \A k : Queued(m, k) => Queued(m, k)' \/ (f.msdu = m /\ f.frag = k)
  BY RingAfter DEF Queued
<1>3. CASE Skipped(f)
  <2>1. UNCHANGED <<last, cache>>
    BY <1>3 DEF Skipped
  <2>2. HasEntry(m) => HasEntry(m)'
    BY <2>1 DEF HasEntry, About, Live
  <2>3. About(m)' <=> About(m)
    BY <2>1 DEF About
  <2>4. ASSUME NEW k \in W PROVE Reached(m, k)'
    <3>1. CASE f.msdu = m /\ f.frag = k
      <4>1. f.fate = "ok"
        BY <3>1, <1>1 DEF Wanted
      <4>2. is_duplicate_packet(f)
        BY <4>1, <1>3 DEF Skipped
      <4>3. About(m) /\ k = last.frag
        BY <3>1, <4>2, NoGap
      <4> QED
        BY <4>3, <2>1, <2>3, <1>1, <3>1 DEF Reached
    <3>2. CASE ~(f.msdu = m /\ f.frag = k)
      BY <3>2, <1>2, <2>1, <2>3 DEF Wanted, Reached
    <3> QED
      BY <3>1, <3>2
  <2> QED
    BY <2>2, <2>4 DEF Wanted
<1>4. CASE Used(f) /\ f.msdu # m
  <2>1. f.msdu < m
    BY <1>4, <1>1
  <2>2. ~About(m)
    <3> SUFFICES ASSUME About(m) PROVE FALSE
      OBVIOUS
    <3>1. Behind(m)
      BY <1>1 DEF IInv, Remembered
    <3>2. Before(m, last.frag, f)
      BY <3>1, <1>1 DEF Behind
    <3> QED
      BY <3>2, <2>1, <1>1 DEF Before
  <2>3. ~About(m)'
    <3> SUFFICES ASSUME About(m)' PROVE FALSE
      OBVIOUS
    <3>1. f.msdu % SeqMod = m % SeqMod
      BY <1>4, <1>1 DEF About, Used
    <3>2. f.msdu = m
      BY <3>1, <1>1, SeqApart DEF IInv, Types
    <3> QED
      BY <3>2, <1>4
  <2>4. \A k \in W : Queued(m, k)'
    BY <1>2, <1>4, <2>2 DEF Wanted, Reached
  <2> QED
    BY <2>3, <2>4 DEF Reached, HasEntry
<1>5. CASE Used(f) /\ f.msdu = m /\ ~Skipped(f)
  <2>0. /\ f.more /\ f.fate = "ok" /\ ~is_duplicate_packet(f) /\ ~Refused(f)
        /\ last' = [seq |-> f.seq, frag |-> f.frag, fresh |-> TRUE]
    BY <1>5, <1>1 DEF Used, Wanted
  <2>a. About(m)' /\ last'.frag = f.frag
    BY <2>0, <1>1, <1>5 DEF About
  <2>w. \A k \in W : 0 \in W
    BY DEF Wanted
  <2>1. CASE 0 \notin W
    BY <2>1, <2>w
  <2>2. CASE 0 \in W
    <3>1. ~Useless(f)
      <4>1. f.frag # 0 => rtllib_frag_cache_find(f.seq, f.frag) # {}
        BY <2>0, <2>2, <1>5, EntryThere
      <4> QED
        BY <4>1, <2>0 DEF Useless
    <3>2. Stored(f)
      BY <3>1, <2>0, <1>5 DEF Used, Completed
    <3>3. \E i \in Places : Live(i)' /\ cache'[i].msdu = m /\ cache'[i].frag = f.frag
      BY <3>2, <1>5, UsedKeepsCache
    <3>4. HasEntry(m)'
      BY <3>3, <2>a DEF HasEntry
    <3>5. ASSUME NEW k \in W PROVE Reached(m, k)'
      <4>0. k \in Nat
        BY DEF Wanted
      <4>1. CASE Queued(m, k)
        BY <4>1, <1>2, <2>a, <1>1 DEF Reached
      <4>2. CASE ~Queued(m, k)
        <5>1. About(m) /\ k <= last.frag
          BY <4>2 DEF Wanted, Reached
        <5>2. last.frag + 1 = f.frag /\ last.frag \in Nat
          BY <5>1, <2>0, <1>5, <1>1, NewerThanAll DEF IInv, Remembered, Behind
        <5> QED
          BY <5>1, <5>2, <2>a, <4>0, <1>1 DEF Reached
      <4> QED
        BY <4>1, <4>2
    <3> QED
      BY <3>4, <3>5
  <2> QED
    BY <2>1, <2>2
<1> QED
  BY <1>3, <1>4, <1>5
-----------------------------------------------------------------------------
(* What a frame does to the books.                                         *)
LEMMA BooksAfter ==
    ASSUME IInv, NEW f \in Frame, f = ring[rxIdx], Skipped(f) \/ Used(f)
    PROVE  /\ HistType' /\ due' \subseteq due /\ cur'.got = cur.got /\ (cur.hurt => cur'.hurt)
           /\ tx.msdu \in due' => cur'.hurt = cur.hurt
           /\ Used(f) /\ Refused(f) => f.msdu \notin due' /\ (f.msdu = tx.msdu => cur'.hurt)
           /\ Used(f) /\ Completed(f) => f.msdu \notin due'
           /\ out' = out \/ (/\ Used(f) /\ ~f.more
                             /\ \E p \in Seq(Frame) : out' = Append(out, p) /\ Given(p) /\ p[1].msdu = f.msdu)
<1>t. HistType /\ MaxErrs \in Nat
  BY RxPathAssumption DEF IInv, Types
<1>1. CASE UNCHANGED <<out, errs, cur, due>> /\ ~(Used(f) /\ (Refused(f) \/ Completed(f)))
  BY <1>1, <1>t DEF HistType
<1>2. CASE Used(f) /\ Refused(f)
  <2>1. /\ errs < MaxErrs /\ errs' = errs + 1 /\ due' = due \ {f.msdu} /\ out' = out
        /\ cur' = [cur EXCEPT !.hurt = @ \/ tx.msdu \in {f.msdu}]
    BY <1>2 DEF Refused, Fault
  <2> DEFINE b == cur.hurt \/ tx.msdu \in {f.msdu}
  <2>2. cur' = [got |-> cur.got, hurt |-> b]
    BY <2>1, <1>t DEF HistType
  <2>3. b \in BOOLEAN
    OBVIOUS
  <2>4. cur'.got = cur.got /\ cur'.hurt = b
    BY <2>2
  <2>5. HistType'
    <3>1. cur.got \in SUBSET Nat /\ due \in SUBSET Nat
      BY <1>t, HistFields
    <3>2. cur' \in [got : SUBSET Nat, hurt : BOOLEAN]
      <4> HIDE DEF b
      <4> QED
        BY <2>2, <2>3, <3>1
    <3>3. errs' \in 0 .. MaxErrs
      BY <2>1, <1>t DEF HistType
    <3>4. due' \in SUBSET Nat
      BY <2>1, <3>1
    <3>5. out' \in Seq(Seq(Frame))
      BY <2>1, <1>t DEF HistType
    <3> QED
      BY <3>2, <3>3, <3>4, <3>5 DEF HistType
  <2>6. ~(Used(f) /\ Completed(f)) \/ f.msdu \notin due'
    BY <2>1
  <2>7. tx.msdu \in due' => cur'.hurt = cur.hurt
    <3> SUFFICES ASSUME tx.msdu \in due' PROVE b = cur.hurt
      BY <2>4
    <3>1. cur.hurt \in BOOLEAN
      BY <1>t, HistFields
    <3> QED
      BY <2>1, <3>1
  <2> QED
    BY <2>1, <2>4, <2>5, <2>6, <2>7
<1>3. CASE Used(f) /\ Completed(f)
  <2>1. PICK p \in Seq(Frame) : /\ out' = Append(out, p) /\ Given(p) /\ p[1].msdu = f.msdu
                                /\ due' = due \ {f.msdu} /\ UNCHANGED <<errs, cur>>
    BY <1>3, CompletedIs DEF Used
  <2>2. HistType'
    <3>1. out' \in Seq(Seq(Frame))
      <4> DEFINE T == Seq(Frame)
      <4>1. out \in Seq(T) /\ p \in T /\ out' = Append(out, p)
        BY <2>1, <1>t DEF HistType
      <4> HIDE DEF T
      <4>2. out' \in Seq(T)
        BY <4>1, AppendProperties
      <4> QED
        BY <4>2 DEF T
    <3>2. due' \in SUBSET Nat
      BY <2>1, <1>t, HistFields
    <3>3. errs' \in 0 .. MaxErrs /\ cur' \in [got : SUBSET Nat, hurt : BOOLEAN]
      BY <2>1, <1>t DEF HistType
    <3> QED
      BY <3>1, <3>2, <3>3 DEF HistType
  <2>3. ~f.more
    BY <1>3 DEF Completed
  <2>4. errs' # errs + 1
    BY <2>1, <1>t DEF HistType
  <2>5. ~Refused(f)
    BY <2>4 DEF Refused, Fault
  <2> QED
    BY <2>1, <2>2, <2>3, <2>5, <1>3
<1> QED
  BY <1>1, <1>2, <1>3 DEF Skipped, Used, Useless, Stored

LEMMA RxFrameKeeps == ASSUME IInv, RxFrame PROVE IInv'
<1> DEFINE f == ring[rxIdx]
<1>0. Taken /\ (Skipped(f) \/ Used(f))
  BY RxFrameIs
<1>1. /\ f # None /\ f \in Frame /\ f.seq = f.msdu % SeqMod /\ f.frag \in Nat /\ f.msdu \in Nat
      /\ f.msdu \in Recent /\ rxIdx \in Slots /\ Sent(f) /\ f.more \in BOOLEAN
      /\ \A s \in Slots : ring[s] # None => Before(f.msdu, f.frag, ring[s])
  BY <1>0, HeadIs DEF Taken
<1> HIDE DEF f
<1>f. f = ring[rxIdx]
  BY DEF f
<1>t. /\ tx.msdu \in Nat /\ tx.frag \in Nat /\ tx.of \in Nat /\ lapse \in Nat /\ tx' = tx /\ lapse' = lapse
      /\ FragsType /\ SenderType /\ Sender /\ tx.frag < tx.of
  BY <1>0, Fields DEF IInv, Types, Taken, Sender
<1>q. SenderType' /\ Sender' /\ Recent' = Recent /\ RingType' /\ QueueInv'
  BY <1>0, TakenKeepsQueue
<1>r. /\ ring'[rxIdx] = None /\ \A s \in Slots : s # rxIdx => ring'[s] = ring[s]
      /\ \A s \in Slots : ring'[s] # None => s # rxIdx /\ ring'[s] = ring[s] /\ ring[s] # None
  BY <1>0, RingAfter
<1>b. /\ HistType' /\ due' \subseteq due /\ cur'.got = cur.got /\ (cur.hurt => cur'.hurt)
      /\ tx.msdu \in due' => cur'.hurt = cur.hurt
      /\ Used(f) /\ Refused(f) => f.msdu \notin due' /\ (f.msdu = tx.msdu => cur'.hurt)
      /\ Used(f) /\ Completed(f) => f.msdu \notin due'
      /\ out' = out \/ (/\ Used(f) /\ ~f.more
                        /\ \E p \in Seq(Frame) : out' = Append(out, p) /\ Given(p) /\ p[1].msdu = f.msdu)
  BY <1>0, <1>1, <1>f, BooksAfter
<1>c. CacheIs /\ Entries' /\ OneEntry'
  <2>1. CASE Skipped(f)
    <3>1. UNCHANGED <<cache, next>>
      BY <2>1 DEF Skipped
    <3> QED
      BY <3>1, <1>t DEF CacheIs, FragsType, IInv, Entries, OneEntry, Live, Parts
  <2>2. CASE Used(f)
    BY <2>2, <1>0, <1>1, <1>f, UsedKeepsCache
  <2> QED
    BY <1>0, <2>1, <2>2
<1>2. Types'
  <2>1. last' \in [seq : Int, frag : Int, fresh : BOOLEAN]
    <3>1. CASE Skipped(f)
      BY <3>1, <1>t DEF Skipped, FragsType
    <3>2. CASE Used(f)
      <4>1. f.seq \in Int
        BY <1>1 DEF Frame
      <4> QED
        BY <3>2, <4>1, <1>1 DEF Used
    <3> QED
      BY <1>0, <3>1, <3>2
  <2> QED
    BY <2>1, <1>q, <1>b, <1>c DEF Types, FragsType, CacheIs
<1>3. Frames'
  <2> SUFFICES ASSUME NEW s \in Slots, ring'[s] # None PROVE Sent(ring[s])'
    BY DEF Frames
  <2>1. ring'[s] = ring[s] /\ Sent(ring[s])
    BY <1>r DEF IInv, Frames
  <2> QED
    BY <2>1, <1>b, <1>t, <1>q DEF Sent
<1>4. Handed' /\ InOrder'
  <2>1. CASE out' = out
    BY <2>1 DEF IInv, Handed, InOrder, Given, Parts
  <2>2. CASE out' # out
    <3>1. PICK p \in Seq(Frame) : out' = Append(out, p) /\ Given(p) /\ p[1].msdu = f.msdu
      BY <2>2, <1>b
    <3>2. \A k \in DOMAIN out : out[k][1].msdu < f.msdu
      BY <2>2, <1>b, <1>1, <1>f, NewerThanAll DEF Used
    <3>3. out \in Seq(Seq(Frame))
      BY DEF IInv, Types, HistType
    <3>4. /\ DOMAIN out = 1 .. Len(out) /\ DOMAIN out' = 1 .. Len(out) + 1 /\ Len(out) \in Nat
          /\ out'[Len(out) + 1] = p /\ \A k \in 1 .. Len(out) : out'[k] = out[k]
      BY <3>1, <3>3
    <3>5. Handed'
      <4> SUFFICES ASSUME NEW k \in 1 .. Len(out) + 1 PROVE Given(out'[k])
        BY <3>4 DEF Handed, Given, Parts
      <4>1. CASE k = Len(out) + 1
        BY <4>1, <3>1, <3>4
      <4>2. CASE k # Len(out) + 1
        <5>1. k \in 1 .. Len(out)
          BY <4>2, <3>4
        <5> QED
          BY <5>1, <3>4 DEF IInv, Handed
      <4> QED
        BY <4>1, <4>2
    <3>6. InOrder'
      <4> SUFFICES ASSUME NEW j \in 1 .. Len(out) + 1, NEW k \in 1 .. Len(out) + 1, j < k
                   PROVE  out'[j][1].msdu < out'[k][1].msdu
        BY <3>4 DEF InOrder
      <4>1. j \in 1 .. Len(out) /\ out'[j] = out[j]
        BY <3>4
      <4>2. CASE k = Len(out) + 1
        BY <4>1, <4>2, <3>1, <3>2, <3>4
      <4>3. CASE k # Len(out) + 1
        <5>1. k \in 1 .. Len(out) /\ out'[k] = out[k]
          BY <4>3, <3>4
        <5> QED
          BY <4>1, <5>1, <3>4 DEF IInv, InOrder
      <4> QED
        BY <4>2, <4>3
    <3> QED
      BY <3>5, <3>6
  <2> QED
    BY <2>1, <2>2
<1>5. Remembered'
  <2>1. CASE Skipped(f)
    <3>1. UNCHANGED <<last, cache, out, cur>>
      BY <2>1 DEF Skipped
    <3>2. \A m \in Recent : Behind(m) => Behind(m)'
      BY <3>1, <1>r, <1>t DEF Behind, Before, Live
    <3> QED
      BY <3>1, <3>2, <1>q, <1>t DEF IInv, Remembered, About, Live
  <2>2. CASE Used(f)
    <3>0. last' = [seq |-> f.seq, frag |-> f.frag, fresh |-> TRUE] /\ ~is_duplicate_packet(f)
      BY <2>2 DEF Used
    <3>1. last'.fresh /\ last'.seq = f.msdu % SeqMod /\ last'.frag = f.frag
      BY <3>0, <1>1
    <3>2. \A m \in Recent : About(m)' => m = f.msdu
      <4> SUFFICES ASSUME NEW m \in Recent, m % SeqMod = f.msdu % SeqMod PROVE m = f.msdu
        BY <3>1 DEF About
      <4> QED
        BY <1>1, <1>t, SeqApart
    <3>o. \A k \in DOMAIN out : out[k][1].msdu < f.msdu
      BY <3>0, <1>1, <1>f, NewerThanAll
    <3>p. ASSUME NEW m, m = f.msdu PROVE Behind(m)'
      <4>1. m = tx'.msdu => last'.frag \in cur'.got
        BY <3>p, <3>1, <1>1, <1>b, <1>t DEF Sent
      <4>2. \A s \in Slots : ring'[s] # None => Before(m, last'.frag, ring'[s])
        BY <3>p, <3>1, <1>r, <1>1
      <4>3. \A i \in Places : Live(i)' => cache'[i].msdu <= m
        BY <3>p, <2>2, <1>0, <1>1, <1>f, UsedKeepsCache
      <4>4. CASE out' = out
        <5>1. \A k \in DOMAIN out' : out'[k][1].msdu < m
          BY <4>4, <3>o, <3>p
        <5>2. \A k \in DOMAIN out' : out'[k][1].msdu \in Int /\ m \in Int
          <6> SUFFICES ASSUME NEW k \in DOMAIN out PROVE out[k][1].msdu \in Int
            BY <4>4, <3>p, <1>1
          <6>1. out[k] \in Seq(Frame) /\ Len(out[k]) > 0
            BY DEF IInv, Types, HistType, Handed, Given
          <6>2. out[k][1] \in Frame
            BY <6>1
          <6> QED
            BY <6>2 DEF Frame
        <5>3. (\A k \in DOMAIN out' : out'[k][1].msdu <= m) /\ ~(\E k \in DOMAIN out' : out'[k][1].msdu = m)
          BY <5>1, <5>2
        <5>4. last'.frag \in Nat
          BY <3>1, <1>1
        <5>5. \A s \in Slots : ring'[s] # None => Before(m, last.frag, ring[s])'
          BY <4>2 DEF Before
        <5> QED
          BY <4>1, <4>3, <5>3, <5>4, <5>5 DEF Behind
      <4>5. CASE out' # out
        <5>0. ~f.more
          BY <4>5, <1>b
        <5>1. PICK p \in Seq(Frame) : out' = Append(out, p) /\ Given(p) /\ p[1].msdu = f.msdu
          BY <4>5, <1>b
        <5>2. \A k \in DOMAIN out' : out'[k][1].msdu <= m
          <6>1. out' \in Seq(Seq(Frame)) /\ out \in Seq(Seq(Frame))
            BY <1>b DEF HistType, IInv, Types
          <6>2. /\ DOMAIN out = 1 .. Len(out) /\ DOMAIN out' = 1 .. Len(out) + 1 /\ Len(out) \in Nat
                /\ out'[Len(out) + 1] = p /\ \A k \in 1 .. Len(out) : out'[k] = out[k]
            BY <5>1, <6>1
          <6> SUFFICES ASSUME NEW k \in 1 .. Len(out) + 1 PROVE out'[k][1].msdu <= m
            BY <6>2
          <6>3. CASE k = Len(out) + 1
            BY <6>2, <6>3, <5>1, <3>p, <1>1
          <6>4. CASE k # Len(out) + 1
            <7>1. k \in DOMAIN out /\ out'[k] = out[k]
              BY <6>2, <6>4
            <7>2. out[k] \in Seq(Frame) /\ Len(out[k]) > 0
              BY <7>1 DEF IInv, Types, HistType, Handed, Given
            <7>3. out[k][1] \in Frame
              BY <7>2
            <7>4. out[k][1].msdu \in Nat /\ out[k][1].msdu < f.msdu
              BY <7>1, <7>3, <3>o DEF Frame
            <7> QED
              BY <7>1, <7>4, <3>p, <1>1
          <6> QED
            BY <6>3, <6>4
        <5>3. \A s \in Slots : ring'[s] # None /\ ring'[s].msdu = m => ring'[s].frag <= last'.frag
          <6> SUFFICES ASSUME NEW s \in Slots, ring'[s] # None, ring'[s].msdu = m
                       PROVE  ring'[s].frag <= last'.frag
            OBVIOUS
          <6>1. ring'[s] = ring[s] /\ ring[s] # None
            BY <1>r
          <6>2. ring[s].frag <= f.frag
            BY <6>1, <5>0, <1>1, <1>f, <3>p DEF IInv, QueueInv, LastOnes
          <6> QED
            BY <6>1, <6>2, <3>1
        <5>4. m = tx'.msdu => tx'.of = last'.frag + 1
          <6> SUFFICES ASSUME m = tx.msdu PROVE tx.of = f.frag + 1
            BY <1>t, <3>1
          <6>1. ~(f.frag + 1 < tx.of) /\ f.frag <= tx.frag
            BY <5>0, <1>1, <3>p DEF Sent
          <6> QED
            BY <6>1, <1>1, <1>t
        <5>5. last'.frag \in Nat
          BY <3>1, <1>1
        <5>6. \A s \in Slots : ring'[s] # None => Before(m, last.frag, ring[s])'
          BY <4>2 DEF Before
        <5> QED
          BY <4>1, <4>3, <5>2, <5>3, <5>4, <5>5, <5>6 DEF Behind
      <4> QED
        BY <4>4, <4>5
    <3>3. \A m \in Recent' : About(m)' => Behind(m)'
      BY <3>2, <3>p, <1>q
    <3> QED
      BY <3>1, <3>3, <1>1, <1>q DEF Remembered
  <2> QED
    BY <1>0, <2>1, <2>2
<1>6. Complete'
  <2> SUFFICES ASSUME NEW m \in due'
               PROVE  HasEntry(m)' /\ \E s \in Slots : LastQueued(m, s)'
    BY DEF Complete
  <2>0. m \in due /\ m \in Recent
    BY <1>b DEF IInv, Got
  <2>1. PICK s \in Slots : LastQueued(m, s)
    BY <2>0 DEF IInv, Complete
  <2>2. HasEntry(m)
    BY <2>0 DEF IInv, Complete
  <2>3. /\ ring[s] # None /\ ring[s].msdu = m /\ ~ring[s].more /\ ring[s].frag \in Nat
        /\ \A k \in 0 .. ring[s].frag : Reached(m, k)
        /\ About(m) => last.frag < ring[s].frag
    BY <2>1, IsFrame DEF LastQueued, IInv, Types
  <2> DEFINE W == 0 .. ring[s].frag
  <2>4. Wanted(m, W)
    <3>1. W \in SUBSET Nat /\ \A k \in W : 0 .. k \subseteq W
      BY <2>3
    <3>2. \A t \in Slots : ring[t] # None /\ ring[t].msdu = m => ring[t].fate = "ok"
      BY <2>0 DEF IInv, Frames, Sent
    <3> QED
      BY <3>1, <3>2, <2>0, <2>2, <2>3 DEF Wanted
  <2>5. 0 \in W /\ f.msdu <= m
    <3>1. 0 \in W
      BY <2>3
    <3>2. Before(f.msdu, f.frag, ring[s])
      BY <2>3, <1>1
    <3>3. f.msdu \in Nat /\ m \in Nat
      BY <2>3, <1>1, IsFrame DEF IInv, Types, Frame
    <3>4. f.msdu <= ring[s].msdu
      BY <3>2, <3>3, <2>3 DEF Before
    <3> QED
      BY <3>1, <3>4, <2>3
  <2>w. f.msdu = m => f.frag \in W
    <3> SUFFICES ASSUME f.msdu = m PROVE f.frag \in W
      OBVIOUS
    <3>1. f.frag <= ring[s].frag
      BY <2>3, <1>1 DEF Before
    <3> QED
      BY <3>1, <2>3, <1>1
  <2> HIDE DEF W
  <2>6. f.msdu = m => (f.more \/ Skipped(f)) /\ ~(Used(f) /\ Refused(f)) /\ f.frag \in Nat
    <3> SUFFICES ASSUME f.msdu = m, ~Skipped(f), ~f.more PROVE FALSE
      BY <1>b, <1>1
    <3>1. Used(f) /\ ~Completed(f) /\ ~Refused(f) /\ ~is_duplicate_packet(f)
      BY <1>0, <1>b DEF Used
    <3>2. f.fate = "ok"
      BY <2>4, <1>1, <1>f DEF Wanted
    <3>3. ~Stored(f)
      BY DEF Stored
    <3>4. Useless(f)
      BY <3>1, <3>3 DEF Used
    <3>5. f.frag # 0 /\ rtllib_frag_cache_find(f.seq, f.frag) = {}
      BY <3>4, <3>2 DEF Useless
    <3> QED
      BY <3>1, <3>5, <2>4, <2>5, <1>1, <1>f, EntryThere
  <2>7. (\A k \in W : Reached(m, k)') /\ (0 \in W => HasEntry(m)')
    BY <2>4, <2>5, <2>6, <1>0, <1>1, <1>f, WantedKept
  <2>8. s # rxIdx
    <3> SUFFICES ASSUME s = rxIdx PROVE FALSE
      OBVIOUS
    <3>1. ring[s] = f /\ f.msdu = m /\ ~f.more
      BY <2>3, <1>f
    <3>2. Skipped(f) /\ f.fate = "ok"
      BY <3>1, <2>6, <2>4, <2>3 DEF Wanted
    <3>3. is_duplicate_packet(f)
      BY <3>2 DEF Skipped
    <3>4. About(m) /\ f.frag = last.frag
      BY <3>1, <3>3, <2>4, <2>w, <1>1, <1>f, NoGap
    <3> QED
      BY <3>1, <3>4, <2>3
  <2>9. ring'[s] = ring[s]
    BY <2>8, <1>r
  <2>10. About(m)' => last'.frag < ring[s].frag
    <3>1. CASE Skipped(f)
      BY <3>1, <2>3 DEF Skipped, About
    <3>2. CASE Used(f) /\ ~Skipped(f)
      <4> SUFFICES ASSUME About(m)' PROVE f.frag < ring[s].frag
        BY <3>2 DEF Used
      <4>1. f.msdu % SeqMod = m % SeqMod
        BY <3>2, <1>1 DEF About, Used
      <4>2. f.msdu = m
        BY <4>1, <2>0, <1>1, <1>t, SeqApart
      <4>3. f.more
        BY <4>2, <3>2, <2>6
      <4>4. f.frag <= ring[s].frag /\ f.frag # ring[s].frag
        BY <4>2, <4>3, <2>3, <1>1, <1>f DEF IInv, QueueInv, LastOnes
      <4> QED
        BY <4>4, <2>3, <1>1
    <3> QED
      BY <1>0, <3>1, <3>2
  <2>11. LastQueued(m, s)'
    BY <2>3, <2>7, <2>9, <2>10 DEF LastQueued, W
  <2> QED
    BY <2>5, <2>7, <2>11
<1>7. Coming'
  <2> SUFFICES ASSUME tx.msdu > lapse, ~cur'.hurt, tx.of - 1 \notin cur.got, NEW m, m = tx.msdu
               PROVE  /\ \A k \in Unbroken : Reached(m, k)'
                      /\ 0 \in cur.got => HasEntry(m)'
    BY <1>t, <1>b DEF Coming, Unbroken
  <2>1. ~cur.hurt /\ m \in Recent
    BY <1>b, <1>t DEF Recent
  <2>2. (\A k \in Unbroken : Reached(m, k)) /\ (0 \in cur.got => HasEntry(m))
    BY <2>1 DEF IInv, Coming
  <2>3. 0 \in cur.got <=> 0 \in Unbroken
    BY DEF Unbroken
  <2>4. Wanted(m, Unbroken)
    <3>1. Unbroken \in SUBSET Nat /\ \A k \in Unbroken : 0 .. k \subseteq Unbroken
      BY DEF Unbroken
    <3>2. \A t \in Slots : ring[t] # None /\ ring[t].msdu = m => ring[t].fate = "ok"
      BY <2>1 DEF IInv, Frames, Sent
    <3> QED
      BY <3>1, <3>2, <2>1, <2>2, <2>3 DEF Wanted
  <2>5. f.msdu <= m
    BY <1>1, <1>t DEF Recent
  <2>6. f.msdu = m => (f.more \/ Skipped(f)) /\ ~(Used(f) /\ Refused(f)) /\ f.frag \in Nat
    <3> SUFFICES ASSUME f.msdu = m PROVE f.more /\ ~(Used(f) /\ Refused(f))
      BY <1>1
    <3>1. f.frag \in cur.got /\ f.frag <= tx.frag /\ f.more = (f.frag + 1 < tx.of)
      BY <1>1 DEF Sent
    <3>2. f.frag # tx.of - 1
      BY <3>1
    <3>3. f.frag + 1 < tx.of
      BY <3>1, <3>2, <1>1, <1>t
    <3> QED
      BY <3>1, <3>3, <1>b
  <2>7. (\A k \in Unbroken : Reached(m, k)') /\ (0 \in Unbroken => HasEntry(m)')
    BY <2>4, <2>5, <2>6, <1>0, <1>1, <1>f, WantedKept
  <2> QED
    BY <2>3, <2>7
<1>8. Got'
  BY <1>b, <1>t, <1>q DEF IInv, Got
<1> QED
  BY <1>2, <1>3, <1>4, <1>5, <1>6, <1>7, <1>8, <1>c, <1>q DEF IInv
-----------------------------------------------------------------------------
LEMMA InvHolds == Spec => []IInv
<1>1. IInv /\ [Next]_vars => IInv'
  <2> SUFFICES ASSUME IInv, [Next]_vars PROVE IInv'
    OBVIOUS
  <2>1. CASE \E n \in 1 .. MaxFrags : NewMsdu(n)
    BY <2>1, NewMsduKeeps
  <2>2. CASE NextFragment
    BY <2>2, NextFragmentKeeps
  <2>3. CASE Pause
    BY <2>3, PauseKeeps
  <2>4. CASE \E fate \in {"ok", "crc", "mpdu", "msdu"} : Receive(fate)
    BY <2>4, ReceiveKeeps
  <2>5. CASE rtl8192_interrupt \/ TaskletStarts \/ TaskletEnds \/ UNCHANGED vars
    BY <2>5, TaskletKeeps
  <2>6. CASE RxFrame
    BY <2>6, RxFrameKeeps
  <2>7. CASE rtl8192_pci_resetdescring
    BY <2>7, ResetKeeps
  <2> QED
    BY <2>1, <2>2, <2>3, <2>4, <2>5, <2>6, <2>7 DEF Next
<1> QED
  BY <1>1, InitKeeps, PTL DEF Spec

(* rtllib_rx hands up whole MSDUs, in the order sent and each at most      *)
(* once, although the duplicate filter and the fragment cache know only    *)
(* sequence numbers that come again.                                       *)
THEOREM DeliveredWhole == Spec => []Delivered
<1>1. IInv => Delivered
  <2> SUFFICES ASSUME IInv PROVE Delivered
    OBVIOUS
  <2>1. TypeOK
    BY DEF IInv, Types, RingType, FragsType, HistType, TypeOK
  <2>2. Whole
    BY DEF IInv, Handed, Given, Parts, Whole
  <2> QED
    BY <2>1, <2>2 DEF IInv, Delivered
<1> QED
  BY <1>1, InvHolds, PTL

(* An MSDU whose fragments all reached the ring undamaged has been handed  *)
(* up once the ring is empty: is_duplicate_packet and                      *)
(* rtllib_frag_cache_find refuse none of them.                             *)
THEOREM NothingIsLost == Spec => []NothingLost
<1>1. IInv => NothingLost
  BY DEF IInv, Complete, LastQueued, NothingLost
<1> QED
  BY <1>1, InvHolds, PTL
=============================================================================
