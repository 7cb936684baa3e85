-------------------------- MODULE RxReorderProofs --------------------------
(***************************************************************************)
(* Proofs about RxReorder, for every window size, pool size and set of     *)
(* frames.  First arithmetic modulo 4096, then what the two list loops do  *)
(* to a sorted list, then the inductive invariant, the refinement and that *)
(* the loop is the one the model describes.                                *)
(***************************************************************************)
EXTENDS RxReorder, SequenceTheorems, WellFoundedInduction, TLAPS

(* SN_LESS compares positions correctly across the wrap, as long as they   *)
(* are less than half the sequence space apart.                            *)
LEMMA SnLess ==
    ASSUME NEW m \in Int, NEW b \in Int, -2048 <= m - b, m - b <= 2047
    PROVE  SN_LESS(m % SnMod, b % SnMod) <=> m < b
BY DEF SN_LESS, SnMod

(* Positions less than the sequence space apart have different numbers.    *)
LEMMA ModInjective ==
    ASSUME NEW m \in Int, NEW b \in Int, -4096 < m - b, m - b < 4096,
           m % SnMod = b % SnMod
    PROVE  m = b
BY DEF SnMod

(* Adding to a reduced number.                                             *)
LEMMA ModAdd ==
    ASSUME NEW b \in Int, NEW r \in Int
    PROVE  ((b % SnMod) + r) % SnMod = (b + r) % SnMod
BY DEF SnMod

(* The sequence numbers are the 12-bit numbers.                            *)
LEMMA SeqRange == \A q \in SeqNums : q \in Int /\ 0 <= q /\ q < 4096
BY DEF SeqNums, SnMod

(* Adding a step and then one more.                                        *)
LEMMA StepOne == \A b, j \in Int : b + j - 1 = b + (j - 1) /\ (b + (j - 1)) + 1 = b + j
OBVIOUS

(* Two numbers that differ by two offsets.                                 *)
LEMMA Offsets2 == \A b, j, k, m \in Int :
    0 <= j /\ j <= m /\ 0 <= k /\ k <= m /\ m < 4096
        => -4096 < (b + j) - (b + k) /\ (b + j) - (b + k) < 4096
OBVIOUS

(* A 12-bit number is a sequence number.                                   *)
LEMMA ModType == ASSUME NEW b \in Int PROVE b % SnMod \in SeqNums /\ b % SnMod # NoSeq
BY DEF SnMod, SeqNums, NoSeq

(* A move of less than the sequence space is recovered from the numbers.   *)
LEMMA MovedBy ==
    ASSUME NEW b \in Int, NEW d \in Nat, d < 4096
    PROVE  Moved(b, b % SnMod, (b + d) % SnMod) = b + d
BY DEF Moved, SnMod

-----------------------------------------------------------------------------
(* A sorted list without repetition whose numbers match their positions.   *)
Good(s) ==
    /\ s \in Seq(Entry)
    /\ \A i \in 1..Len(s) : s[i].seq = s[i].n % SnMod
    /\ \A i, j \in 1..Len(s) : i <= j => s[j].n - s[i].n >= j - i

(* What membership in a good list gives.                                   *)
LEMMA GoodFacts ==
    ASSUME NEW s, Good(s)
    PROVE  /\ s \in Seq(Entry) /\ Len(s) \in Nat
           /\ \A i \in 1..Len(s) :
                s[i] \in Entry /\ s[i].n \in Nat /\ s[i].n \in Frames /\ s[i].seq = s[i].n % SnMod
           /\ \A i, j \in 1..Len(s) : i <= j => s[j].n - s[i].n >= j - i
<1>1. s \in Seq(Entry) BY DEF Good
<1>2. Len(s) \in Nat BY <1>1, LenProperties
<1>3. ASSUME NEW i \in 1..Len(s)
      PROVE  s[i] \in Entry /\ s[i].n \in Nat /\ s[i].n \in Frames /\ s[i].seq = s[i].n % SnMod
  <2>1. s[i] \in Entry BY <1>1, ElementOfSeq
  <2>2. s[i].n \in Frames BY <2>1 DEF Entry
  <2>3. s[i].n \in Nat
    <3>1. Frames \subseteq Nat BY FrameAssumption
    <3> QED BY <2>2, <3>1, Zenon
  <2>4. s[i].seq = s[i].n % SnMod BY DEF Good
  <2> QED BY <2>1, <2>2, <2>3, <2>4
<1> QED BY <1>1, <1>2, <1>3 DEF Good

(* q is the sequence number of position b.                                 *)
NumOf(q, b) == q = b % SnMod

(* The entries lie at most half the sequence space before position b and   *)
(* not beyond the window that starts there.                                *)
Near(s, b) == \A i \in 1..Len(s) : b - 2048 <= s[i].n /\ s[i].n < b + WinSize

(* What the indication loop takes off a good list when the window start is *)
(* at position b: the low entries are those before b, the run ends at the  *)
(* new window start, everything left lies beyond it.                       *)
LEMMA DrainLemma ==
    ASSUME NEW s, Good(s), NEW b \in Int,
           NEW low \in 0..Len(s), NEW run \in 0..Len(s), NEW room \in Int,
           Near(s, b),
           Len(s) <= room, NEW q, NumOf(q, b),
           Drains(s, q, room, low, run)
    PROVE  /\ low + run \in 0..Len(s)
           /\ run <= WinSize
           /\ \A i \in 1..low : s[i].n < b
           /\ \A j \in 1..run : s[low + j].n = b + j - 1
           /\ \A i \in (low + run + 1)..Len(s) : s[i].n > b + run
<1>0. Len(s) \in Nat /\ WinSize \in Int /\ 1 <= WinSize /\ WinSize <= 255
  BY WinAssumption, GoodFacts
<1>q. Drains(s, b % SnMod, room, low, run) BY DEF NumOf
<1>a. low \in Nat /\ run \in Nat BY <1>0
<1>1. low + run \in 0..Len(s)
  BY <1>0, <1>q DEF Drains
<1>2. ASSUME NEW i \in 1..low PROVE s[i].n < b
  <2>1. i \in 1..Len(s) BY <1>0
  <2>2. s[i].n \in Nat /\ s[i].seq = s[i].n % SnMod BY <2>1, GoodFacts
  <2>3. SN_LESS(s[i].n % SnMod, b % SnMod) BY <2>2, <1>q DEF Drains
  <2>4. b - 2048 <= s[i].n /\ s[i].n < b + WinSize BY <2>1 DEF Near
  <2>5. -2048 <= s[i].n - b /\ s[i].n - b <= 2047
    <3>1. PICK x \in Int : x = s[i].n BY ONLY <2>2
    <3>2. b - 2048 <= x /\ x < b + WinSize BY ONLY <2>4, <3>1
    <3>3. -2048 <= x - b /\ x - b <= 2047 BY ONLY <3>2, <1>0, b \in Int
    <3> QED BY ONLY <3>1, <3>3
  <2> QED BY <2>2, <2>3, <2>5, SnLess
<1>3. ASSUME NEW i \in 1..Len(s) PROVE s[i].n >= b - 2048 + i - 1
  <2>1. 1 \in 1..Len(s) BY <1>0
  <2>2. s[i].n - s[1].n >= i - 1 BY <2>1, GoodFacts
  <2>3. s[i].n \in Nat /\ s[1].n \in Nat BY <2>1, GoodFacts
  <2>4. b - 2048 <= s[1].n BY <2>1 DEF Near
  <2>5. PICK x \in Int, y \in Int : x = s[i].n /\ y = s[1].n BY ONLY <2>3
  <2>6. x - y >= i - 1 /\ b - 2048 <= y /\ i \in Int BY ONLY <2>2, <2>4, <2>5, i \in 1..Len(s)
  <2>7. x >= b - 2048 + i - 1 BY ONLY <2>6, b \in Int
  <2> QED BY ONLY <2>5, <2>7
<1>4. ASSUME NEW j \in 1..run PROVE s[low + j].n = b + j - 1
  <2>1. low + j \in 1..Len(s) BY <1>0, <1>1
  <2>2. s[low + j].n \in Nat /\ s[low + j].seq = s[low + j].n % SnMod
    BY <2>1, GoodFacts
  <2>3. s[low + j].seq = ((b % SnMod) + (j - 1)) % SnMod
    <3>1. s[low + j].seq = ((b % SnMod) + j - 1) % SnMod BY <1>q DEF Drains
    <3>2. (b % SnMod) + j - 1 = (b % SnMod) + (j - 1) BY ModType DEF SeqNums, SnMod
    <3> QED BY <3>1, <3>2
  <2>4. s[low + j].n % SnMod = (b + (j - 1)) % SnMod BY <2>2, <2>3, ModAdd
  <2>5. s[low + j].n >= b - 2048 + low + j - 1 BY <1>3, <2>1
  <2>6. s[low + j].n < b + WinSize BY <2>1 DEF Near
  <2>7. -4096 < s[low + j].n - (b + (j - 1)) /\ s[low + j].n - (b + (j - 1)) < 4096
    <3>1. PICK x \in Int : x = s[low + j].n BY ONLY <2>2
    <3>2. x >= b - 2048 + low + j - 1 /\ x < b + WinSize BY ONLY <2>5, <2>6, <3>1
    <3>3. j \in Nat /\ 1 <= j BY ONLY <1>a, j \in 1..run
    <3>4. -4096 < x - (b + (j - 1)) /\ x - (b + (j - 1)) < 4096
      BY ONLY <3>2, <3>3, <1>0, <1>a, b \in Int
    <3> QED BY ONLY <3>1, <3>4
  <2>8. s[low + j].n = b + (j - 1)
    BY <2>2, <2>4, <2>7, ModInjective
  <2> QED BY <2>8
<1>5. run <= WinSize
  <2>1. CASE run = 0 BY <2>1, <1>0
  <2>2. CASE run > 0
    <3>1. s[low + run].n = b + run - 1 BY <1>4, <2>2
    <3>2. low + run \in 1..Len(s) BY <1>1, <2>2
    <3>3. s[low + run].n < b + WinSize BY <3>2 DEF Near
    <3> QED BY <3>1, <3>3, <1>0
  <2> QED BY <2>1, <2>2
<1>6. ASSUME NEW i \in (low + run + 1)..Len(s) PROVE s[i].n > b + run
  <2>0. PICK c \in Int : c = low + run + 1 BY <1>0
  <2>1. c \in 1..Len(s) /\ i \in 1..Len(s) /\ c <= i BY <1>0, <1>1, <2>0
  <2>2. s[c].n \in Nat /\ s[i].n \in Nat /\ s[c].seq = s[c].n % SnMod
    BY <2>1, GoodFacts
  <2>3. ~ SN_LESS(s[c].seq, ((b % SnMod) + run) % SnMod) /\ s[c].seq # ((b % SnMod) + run) % SnMod
    <3>1. low + run < Len(s) /\ low + run < room BY <2>0, <2>1, <1>0
    <3> QED BY <3>1, <2>0, <1>q DEF Drains
  <2>3a. ((b % SnMod) + run) % SnMod = (b + run) % SnMod BY ModAdd
  <2>4. ~ SN_LESS(s[c].n % SnMod, (b + run) % SnMod) /\ s[c].n % SnMod # (b + run) % SnMod
    <3>1. s[c].seq = s[c].n % SnMod BY ONLY <2>2
    <3> QED BY ONLY <2>3, <2>3a, <3>1, Zenon
  <2>5. s[c].n >= b - 2048 + low + run /\ s[c].n < b + WinSize
    <3>1. s[c].n >= b - 2048 + c - 1 BY ONLY <2>1, <1>3
    <3>2. s[c].n < b + WinSize BY <2>1 DEF Near
    <3> QED BY <3>1, <3>2, <2>0, <1>a
  <2>6. -2048 <= s[c].n - (b + run) /\ s[c].n - (b + run) <= 2047
    <3>1. PICK x \in Int : x = s[c].n BY ONLY <2>2
    <3>2. x >= b - 2048 + low + run /\ x < b + WinSize BY ONLY <3>1, <2>5
    <3> QED BY ONLY <3>1, <3>2, <1>0, <1>a, b \in Int
  <2>7. ~ (s[c].n < b + run)
    <3>1. s[c].n \in Int /\ b + run \in Int BY ONLY <2>2, <1>a, b \in Int
    <3> QED BY ONLY <3>1, <2>4, <2>6, SnLess
  <2>8. s[c].n # b + run BY <2>4
  <2>9. s[i].n - s[c].n >= i - c BY <2>1, GoodFacts
  <2>10. i \in Nat /\ c \in Nat /\ c <= i BY <1>0, <2>1
  <2>11. ASSUME NEW x \in Nat, NEW y \in Nat, NEW d \in Int,
                ~(x < d), x # d, y - x >= i - c
         PROVE  y > d
    BY <2>10, <2>11
  <2>12. b + run \in Int BY <1>a
  <2> QED BY <2>2, <2>7, <2>8, <2>9, <2>11, <2>12
<1> QED BY <1>1, <1>2, <1>4, <1>5, <1>6

(* The window of the new list: strictly ahead of position b.               *)
Ahead(s, b) == \A i \in 1..Len(s) : b < s[i].n /\ s[i].n < b + WinSize

(* AddReorderEntry stops behind the first k entries, and where it stops    *)
(* tells the older entries from the newer ones.                            *)
Parts(s, n, k) ==
    /\ \A i \in 1..Len(s) : i > k => n < s[i].n
    /\ ~Duplicate(s, n % SnMod, k) => \A i \in 1..Len(s) : i <= k => s[i].n < n

(* Where AddReorderEntry stops in a good list that lies within half the    *)
(* sequence space of the new frame: all entries before that place are      *)
(* older, all behind it newer, and only an equal frame is a duplicate.     *)
LEMMA StopLemma ==
    ASSUME NEW s, Good(s), NEW b \in Int, NEW n \in Nat, NEW k \in 0..Len(s),
           Ahead(s, b), b < n, n <= b + 2047,
           StopsAfter(s, n % SnMod, k)
    PROVE  Parts(s, n, k)
<1>0. Len(s) \in Nat /\ WinSize \in Int /\ 1 <= WinSize /\ WinSize <= 255
  BY WinAssumption, GoodFacts
<1>1. ASSUME NEW i \in 1..Len(s)
      PROVE  /\ SN_LESS(n % SnMod, s[i].seq) <=> n < s[i].n
             /\ n % SnMod = s[i].seq => n = s[i].n
  <2>1. s[i].n \in Nat /\ s[i].seq = s[i].n % SnMod BY GoodFacts
  <2>2. b < s[i].n /\ s[i].n < b + WinSize BY DEF Ahead
  <2>3. -2048 <= n - s[i].n /\ n - s[i].n <= 2047 BY <2>1, <2>2, <1>0
  <2>4. -4096 < n - s[i].n /\ n - s[i].n < 4096 BY <2>1, <2>3
  <2>5. SN_LESS(n % SnMod, s[i].n % SnMod) <=> n < s[i].n BY <2>1, <2>3, SnLess
  <2>6. n % SnMod = s[i].n % SnMod => n = s[i].n BY <2>1, <2>4, ModInjective
  <2> QED BY <2>1, <2>5, <2>6
<1>2. ASSUME NEW i \in 1..Len(s), i > k PROVE n < s[i].n
  <2>1. i \in (k + 1)..Len(s) BY <1>0, <1>2
  <2> QED BY <2>1, <1>1 DEF StopsAfter
<1>3. k > 0 => k \in 1..Len(s) /\ s[k].n \in Nat BY <1>0, GoodFacts
<1>4. k > 0 => s[k].n <= n BY <1>1, <1>3 DEF StopsAfter
<1>5. ASSUME ~Duplicate(s, n % SnMod, k), NEW i \in 1..Len(s), i <= k PROVE s[i].n < n
  <2>1. k > 0 /\ k \in Nat /\ i \in Nat BY <1>0, <1>5
  <2>2. s[k].seq = s[k].n % SnMod /\ s[k].n \in Nat /\ s[i].n \in Nat BY <2>1, <1>3, GoodFacts
  <2>3. s[k].seq # n % SnMod BY <1>5, <2>1 DEF Duplicate
  <2>4. s[k].n # n BY <2>2, <2>3
  <2>5. s[k].n < n BY <2>1, <2>2, <2>4, <1>4
  <2>6. s[k].n - s[i].n >= k - i BY <1>3, <1>5, <2>1, GoodFacts
  <2> QED BY <2>1, <2>2, <2>5, <2>6, <1>5
<1> QED BY <1>2, <1>5 DEF Parts

(* Frame n belongs behind the first k entries.                             *)
Around(s, k, n) == \A i \in 1..Len(s) : (i <= k => s[i].n < n) /\ (i > k => n < s[i].n)

(* t is a good list with the frames of s and n.                            *)
Inserted(t, s, n) ==
    /\ Good(t) /\ Len(t) = Len(s) + 1
    /\ \A i \in 1..Len(t) : t[i].n = n \/ \E j \in 1..Len(s) : t[i].n = s[j].n
    /\ \A j \in 1..Len(s) : \E i \in 1..Len(t) : t[i].n = s[j].n
    /\ \E i \in 1..Len(t) : t[i].n = n

(* Inserting a new frame where AddReorderEntry stops keeps a list good.    *)
LEMMA InsertLemma ==
    ASSUME NEW s, Good(s), NEW n \in Frames, NEW k \in 0..Len(s), NEW t,
           t = InsertAfter(s, [seq |-> n % SnMod, n |-> n], k),
           Around(s, k, n)
    PROVE  Inserted(t, s, n)
<1> DEFINE e == [seq |-> n % SnMod, n |-> n]
<1>0. Len(s) \in Nat /\ k \in Nat /\ k <= Len(s) /\ n \in Nat BY GoodFacts, FrameAssumption
<1>1. e \in Entry /\ e.n = n /\ e.seq = n % SnMod BY <1>0, ModType DEF Entry
<1>2. t = [i \in 1..(Len(s) + 1) |-> IF i <= k THEN s[i] ELSE IF i = k + 1 THEN e ELSE s[i - 1]]
  BY DEF InsertAfter
<1> HIDE DEF e
<1>3. ASSUME NEW i \in 1..(Len(s) + 1)
      PROVE  /\ i <= k => i \in 1..Len(s) /\ t[i] = s[i]
             /\ i = k + 1 => t[i] = e
             /\ i > k + 1 => i - 1 \in 1..Len(s) /\ t[i] = s[i - 1]
  BY <1>0, <1>2
<1>4. ASSUME NEW i \in 1..(Len(s) + 1) PROVE t[i] \in Entry
  <2>1. CASE i <= k BY <1>3, <2>1, GoodFacts
  <2>2. CASE i = k + 1 BY <1>3, <2>2, <1>1
  <2>3. CASE i > k + 1 BY <1>3, <2>3, GoodFacts
  <2> QED BY <1>0, <2>1, <2>2, <2>3
<1>5. t \in [1..(Len(s) + 1) -> Entry] BY <1>2, <1>4
<1>6. t \in Seq(Entry) /\ Len(t) = Len(s) + 1 BY <1>0, <1>5
<1>7. ASSUME NEW i \in 1..(Len(s) + 1) PROVE t[i].seq = t[i].n % SnMod
  <2>0. ASSUME NEW j \in 1..Len(s) PROVE s[j].seq = s[j].n % SnMod BY GoodFacts
  <2>1. CASE i <= k BY ONLY <1>3, <2>0, <2>1, i \in 1..(Len(s) + 1)
  <2>2. CASE i = k + 1 BY <1>3, <2>2, <1>1
  <2>3. CASE i > k + 1 BY ONLY <1>3, <2>0, <2>3, i \in 1..(Len(s) + 1)
  <2> QED BY <1>0, <2>1, <2>2, <2>3
<1>8. ASSUME NEW i \in 1..(Len(s) + 1), NEW j \in 1..(Len(s) + 1), i <= j
      PROVE  t[j].n - t[i].n >= j - i
  <2>0. i \in Nat /\ j \in Nat /\ i <= j BY <1>0, <1>8
  <2>1. CASE j <= k
    <3>1. i \in 1..Len(s) /\ j \in 1..Len(s) /\ t[i] = s[i] /\ t[j] = s[j] BY <1>0, <1>3, <1>8, <2>0, <2>1
    <3> QED BY <3>1, <2>0, GoodFacts
  <2>2. CASE i > k + 1
    <3>1. i - 1 \in 1..Len(s) /\ j - 1 \in 1..Len(s) /\ t[i] = s[i - 1] /\ t[j] = s[j - 1]
      BY <1>0, <1>3, <1>8, <2>0, <2>2
    <3>2. i - 1 <= j - 1 BY <2>0
    <3>3. s[j - 1].n - s[i - 1].n >= (j - 1) - (i - 1) BY <3>1, <3>2, GoodFacts
    <3> QED BY <3>1, <3>3, <2>0
  <2>3. CASE i = k + 1 /\ j = k + 1
    BY <1>0, <1>1, <1>3, <2>0, <2>3
  <2>4. CASE i <= k /\ j = k + 1
    <3>1. i \in 1..Len(s) /\ k \in 1..Len(s) /\ t[i] = s[i] /\ t[j].n = n
      BY <1>0, <1>1, <1>3, <2>0, <2>4
    <3>2. s[k].n - s[i].n >= k - i BY <3>1, <2>0, <2>4, GoodFacts
    <3>3. s[k].n < n /\ s[k].n \in Nat /\ s[i].n \in Nat BY <3>1, <1>0, GoodFacts DEF Around
    <3>4. PICK x \in Nat, y \in Nat : x = s[i].n /\ y = s[k].n BY ONLY <3>3
    <3>5. y - x >= k - i /\ y < n BY ONLY <3>2, <3>3, <3>4
    <3>6. n - x >= j - i
      <4>1. n \in Int /\ k \in Int /\ j = k + 1 /\ i \in Int BY ONLY <1>0, <2>0, <2>4
      <4> QED BY ONLY <4>1, <3>5
    <3>7. t[i].n = x /\ t[j].n = n BY ONLY <3>1, <3>4
    <3> QED BY ONLY <3>6, <3>7
  <2>5. CASE i = k + 1 /\ j > k + 1
    <3>1. j - 1 \in 1..Len(s) /\ k + 1 \in 1..Len(s) /\ t[j] = s[j - 1] /\ t[i].n = n
      BY <1>0, <1>1, <1>3, <2>0, <2>5
    <3>2. s[j - 1].n - s[k + 1].n >= (j - 1) - (k + 1) BY <3>1, <2>0, <2>5, <1>0, GoodFacts
    <3>3. n < s[k + 1].n /\ s[k + 1].n \in Nat /\ s[j - 1].n \in Nat BY <3>1, <1>0, GoodFacts DEF Around
    <3>4. ASSUME NEW x \in Nat, NEW y \in Nat, n < x, y - x >= (j - 1) - (k + 1)
          PROVE  y - n >= j - i
      BY <3>4, <2>0, <2>5, <1>0
    <3> QED BY <3>1, <3>2, <3>3, <3>4
  <2>6. CASE i <= k /\ j > k + 1
    <3>1. /\ i \in 1..Len(s) /\ k \in 1..Len(s) /\ j - 1 \in 1..Len(s) /\ k + 1 \in 1..Len(s)
          /\ t[i] = s[i] /\ t[j] = s[j - 1]
      BY <1>0, <1>3, <2>0, <2>6
    <3>2. s[j - 1].n - s[k + 1].n >= (j - 1) - (k + 1) /\ s[k].n - s[i].n >= k - i
      <4>1. k + 1 <= j - 1 /\ i <= k BY ONLY <2>0, <2>6, <1>0
      <4> QED BY <4>1, <3>1, GoodFacts
    <3>3. s[k].n < n /\ n < s[k + 1].n BY <3>1, <1>0 DEF Around
    <3>4. s[k].n \in Nat /\ s[k + 1].n \in Nat /\ s[j - 1].n \in Nat /\ s[i].n \in Nat
      BY <3>1, GoodFacts
    <3>5. t[i].n = s[i].n /\ t[j].n = s[j - 1].n BY <3>1
    <3>6. s[j - 1].n - s[i].n >= j - i
      <4>1. PICK w, x, y, z \in Nat : w = s[i].n /\ x = s[k].n /\ y = s[k + 1].n /\ z = s[j - 1].n
        BY <3>4
      <4>2. z - y >= (j - 1) - (k + 1) /\ x - w >= k - i /\ x < n /\ n < y
        BY ONLY <4>1, <3>2, <3>3
      <4>3. z - w >= j - i BY ONLY <4>2, <2>0, <1>0, w \in Nat, x \in Nat, y \in Nat, z \in Nat
      <4> QED BY ONLY <4>1, <4>3
    <3> QED BY ONLY <3>5, <3>6
  <2> QED BY <1>0, <2>0, <2>1, <2>2, <2>3, <2>4, <2>5, <2>6
<1>9. Good(t) BY <1>6, <1>7, <1>8 DEF Good
<1>10. ASSUME NEW i \in 1..Len(t) PROVE t[i].n = n \/ \E j \in 1..Len(s) : t[i].n = s[j].n
  <2>0. i \in 1..(Len(s) + 1) BY <1>6
  <2>1. CASE i <= k BY <2>0, <1>3, <2>1
  <2>2. CASE i = k + 1 BY <2>0, <1>1, <1>3, <2>2
  <2>3. CASE i > k + 1 BY <2>0, <1>3, <2>3
  <2> QED BY <1>0, <2>0, <2>1, <2>2, <2>3
<1>11. ASSUME NEW j \in 1..Len(s) PROVE \E i \in 1..Len(t) : t[i].n = s[j].n
  <2>1. CASE j <= k
    <3>1. j \in 1..(Len(s) + 1) BY <1>0
    <3>2. t[j] = s[j] BY <3>1, <1>3, <2>1
    <3> QED BY <3>1, <3>2, <1>6
  <2>2. CASE j > k
    <3>1. j + 1 \in 1..Len(t) /\ (j + 1) - 1 = j /\ t[j + 1] = s[j] BY <1>0, <1>3, <1>6, <2>2
    <3> QED BY <3>1
  <2> QED BY <1>0, <2>1, <2>2
<1>12. \E i \in 1..Len(t) : t[i].n = n
  <2>1. k + 1 \in 1..Len(t) /\ t[k + 1] = e BY <1>0, <1>3, <1>6
  <2> QED BY <2>1, <1>1
<1> QED BY <1>6, <1>9, <1>10, <1>11, <1>12 DEF Inserted

-----------------------------------------------------------------------------
(* The tail of a good list is good.                                        *)
LEMMA TailLemma ==
    ASSUME NEW s, Good(s), NEW k \in 0..Len(s), NEW t, t = SubSeq(s, k + 1, Len(s))
    PROVE  /\ Good(t) /\ Len(t) = Len(s) - k
           /\ \A i \in 1..Len(t) : k + i \in (k + 1)..Len(s) /\ t[i] = s[k + i]
<1>0. s \in Seq(Entry) /\ Len(s) \in Nat /\ k \in Nat /\ k <= Len(s) BY GoodFacts
<1>1. t \in Seq(Entry) /\ Len(t) = Len(s) - k BY <1>0
<1>2. ASSUME NEW i \in 1..Len(t)
      PROVE  k + i \in (k + 1)..Len(s) /\ k + i \in 1..Len(s) /\ t[i] = s[k + i]
  <2>1. i \in 1..(Len(s) - k) BY <1>1
  <2>2. k + i \in (k + 1)..Len(s) /\ k + i \in 1..Len(s) BY <1>0, <2>1
  <2>3. t[i] = s[k + 1 + i - 1] BY <1>0, <2>1
  <2>4. k + 1 + i - 1 = k + i BY <1>0, <2>1
  <2> QED BY <2>2, <2>3, <2>4
<1>3. ASSUME NEW i \in 1..Len(t) PROVE t[i].seq = t[i].n % SnMod
  BY <1>2, GoodFacts
<1>4. ASSUME NEW i \in 1..Len(t), NEW j \in 1..Len(t), i <= j
      PROVE  t[j].n - t[i].n >= j - i
  <2>1. i \in Nat /\ j \in Nat BY <1>0, <1>1
  <2>2. k + i <= k + j /\ (k + j) - (k + i) = j - i BY <1>0, <2>1, <1>4
  <2>3. s[k + j].n - s[k + i].n >= (k + j) - (k + i) BY <1>2, <2>2, GoodFacts
  <2> QED BY <1>2, <2>2, <2>3
<1> QED BY <1>1, <1>2, <1>3, <1>4 DEF Good

(* The positions of the first k entries of a good list.                    *)
LEMMA PositionsLemma ==
    ASSUME NEW s, Good(s), NEW k \in 0..Len(s)
    PROVE  /\ Positions(s, k) \in Seq(Frames) /\ Len(Positions(s, k)) = k
           /\ \A i \in 1..k : i \in 1..Len(s) /\ Positions(s, k)[i] = s[i].n
<1>0. Len(s) \in Nat /\ k \in Nat /\ k <= Len(s) BY GoodFacts
<1>1. ASSUME NEW i \in 1..k PROVE i \in 1..Len(s) /\ s[i].n \in Frames
  BY <1>0, GoodFacts
<1>2. Positions(s, k) \in [1..k -> Frames] BY <1>1 DEF Positions
<1> QED BY <1>0, <1>1, <1>2 DEF Positions

(* What the loop does to a good list, in terms of the new window start c:  *)
(* it takes exactly the entries before c.                                  *)
LEMMA SplitLemma ==
    ASSUME NEW s, Good(s), NEW b \in Nat,
           NEW low \in 0..Len(s), NEW run \in 0..Len(s), NEW room \in Int,
           Near(s, b),
           Len(s) <= room, NEW q, NumOf(q, b),
           Drains(s, q, room, low, run)
    PROVE  \E k \in 0..Len(s), c \in Nat :
             /\ k = low + run /\ c = b + run
             /\ (q + run) % SnMod = c % SnMod
             /\ Moved(b, q, c % SnMod) = c
             /\ \A i \in 1..Len(s) : i <= k => s[i].n < c
             /\ \A i \in 1..Len(s) : i > k => c < s[i].n /\ s[i].n < c + WinSize
             /\ k = 0 => c = b
<1>a. b \in Int OBVIOUS
<1>0. /\ Len(s) \in Nat /\ low \in Nat /\ run \in Nat
      /\ WinSize \in Int /\ 1 <= WinSize /\ WinSize <= 255
  <2>1. Len(s) \in Nat BY GoodFacts
  <2> QED BY <2>1, WinAssumption
<1>1. /\ low + run \in 0..Len(s)
      /\ run <= WinSize
      /\ \A i \in 1..low : s[i].n < b
      /\ \A j \in 1..run : s[low + j].n = b + j - 1
      /\ \A i \in (low + run + 1)..Len(s) : s[i].n > b + run
  BY <1>a, DrainLemma
<1>2. PICK k \in 0..Len(s), c \in Nat : k = low + run /\ c = b + run
  BY <1>0, <1>1
<1>3. (q + run) % SnMod = c % SnMod BY <1>a, <1>0, <1>2, ModAdd DEF NumOf
<1>4. Moved(b, q, c % SnMod) = c
  <2>1. run \in Nat /\ run < 4096 BY <1>0, <1>1
  <2>2. Moved(b, b % SnMod, (b + run) % SnMod) = b + run BY <1>a, <2>1 DEF Moved, SnMod
  <2> QED BY <1>2, <2>2 DEF NumOf
<1>5. ASSUME NEW i \in 1..Len(s), i <= k PROVE s[i].n < c
  <2>0. s[i].n \in Nat BY GoodFacts
  <2>1. CASE i <= low
    <3>1. s[i].n < b BY <1>0, <1>1, <2>1
    <3> QED BY <3>1, <2>0, <1>0, <1>2
  <2>2. CASE i > low
    <3>1. PICK j \in 1..run : i = low + j
      <4>1. i - low \in 1..run /\ i = low + (i - low) BY <1>0, <1>2, <1>5, <2>2
      <4> QED BY <4>1
    <3>2. s[low + j].n = b + j - 1 BY ONLY <1>1, j \in 1..run
    <3>3. s[i].n = b + j - 1 BY ONLY <3>1, <3>2
    <3> QED BY <3>3, <1>0, <1>2
  <2> QED BY <1>0, <2>1, <2>2
<1>6. ASSUME NEW i \in 1..Len(s), i > k PROVE c < s[i].n /\ s[i].n < c + WinSize
  <2>0. s[i].n \in Nat BY GoodFacts
  <2>1. i \in (low + run + 1)..Len(s) BY <1>0, <1>2, <1>6
  <2>2. s[i].n > b + run BY <1>1, <2>1
  <2>3. s[i].n < b + WinSize BY DEF Near
  <2> QED BY <2>0, <2>2, <2>3, <1>0, <1>2
<1>7. k = 0 => c = b BY <1>0, <1>2
<1> WITNESS k \in 0..Len(s), c \in Nat
<1> QED BY <1>2, <1>3, <1>4, <1>5, <1>6, <1>7

(* The packet a handler hands up before the loop: none, or one behind all  *)
(* that went up so far and before everything in s and the window start b.  *)
FirstOK(first, s, b, lst) ==
    \/ first = <<>>
    \/ \E n \in Frames : first = <<n>> /\ lst < n /\ n < b /\ \A i \in 1..Len(s) : n < s[i].n

(* Position lst, the last one handed up, lies before everything in s.      *)
Below(lst, s) == \A i \in 1..Len(s) : lst < s[i].n

(* The first k entries lie before position c.                              *)
Taken(s, k, c) == \A i \in 1..Len(s) : i <= k => s[i].n < c

(* o hands up first and the first k entries, in order, behind lst and      *)
(* before c.                                                               *)
Handed(o, s, k, first, lst, c) ==
    /\ first \in Seq(Frames) /\ o \in Seq(Frames) /\ Len(o) = Len(first) + k
    /\ \A i, j \in 1..Len(o) : i < j => o[i] < o[j]
    /\ o # <<>> => lst < o[1] /\ o[Len(o)] \in Frames /\ o[Len(o)] < c
    /\ \A i \in 1..Len(o) : \/ \E j \in 1..Len(first) : o[i] = first[j]
                            \/ \E j \in 1..Len(s) : j <= k /\ o[i] = s[j].n
    /\ \A j \in 1..Len(first) : \E i \in 1..Len(o) : o[i] = first[j]
    /\ \A j \in 1..Len(s) : j <= k => \E i \in 1..Len(o) : o[i] = s[j].n

(* The packets of one call, in order: first, then the first k entries.     *)
LEMMA OutLemma ==
    ASSUME NEW s, Good(s), NEW k \in 0..Len(s), NEW b \in Nat, NEW c \in Nat, b <= c,
           NEW lst \in Int, Below(lst, s),
           NEW first, FirstOK(first, s, b, lst),
           NEW o, o = first \o Positions(s, k),
           Taken(s, k, c)
    PROVE  Handed(o, s, k, first, lst, c)
<1> DEFINE p == Positions(s, k)
<1>0. Len(s) \in Nat /\ k \in Nat /\ k <= Len(s) BY GoodFacts
<1>1. /\ p \in Seq(Frames) /\ Len(p) = k
      /\ \A i \in 1..k : i \in 1..Len(s) /\ p[i] = s[i].n
  BY PositionsLemma
<1> HIDE DEF p
<1>2. ASSUME NEW i \in 1..k
      PROVE  /\ i \in 1..Len(s) /\ p[i] = s[i].n /\ p[i] \in Frames /\ p[i] \in Nat
             /\ lst < p[i] /\ p[i] < c
  <2>1. i \in 1..Len(s) /\ i <= k /\ p[i] = s[i].n BY <1>0, <1>1
  <2>2. s[i].n \in Nat /\ s[i].n \in Frames BY <2>1, GoodFacts
  <2>3. lst < s[i].n BY <2>1 DEF Below
  <2>4. s[i].n < c BY <2>1 DEF Taken
  <2> QED BY <2>1, <2>2, <2>3, <2>4
<1>3. ASSUME NEW i \in 1..k, NEW j \in 1..k, i < j PROVE p[i] < p[j]
  <2>0. i \in 1..Len(s) /\ j \in 1..Len(s) /\ i <= j
    <3>1. i \in 1..Len(s) /\ j \in 1..Len(s) BY <1>2
    <3>2. i <= j BY ONLY <1>3, k \in 0..Len(s), i \in 1..k, j \in 1..k, <1>0
    <3> QED BY ONLY <3>1, <3>2
  <2>1. s[j].n - s[i].n >= j - i BY ONLY <2>0, Good(s), GoodFacts
  <2>2. p[i] = s[i].n /\ p[j] = s[j].n /\ p[i] \in Nat /\ p[j] \in Nat BY <1>2
  <2> QED BY <2>1, <2>2, <1>0, <1>3
<1>4. CASE first = <<>>
  <2>1. o = p BY <1>1, <1>4, ConcatEmptySeq DEF p
  <2>2. first \in Seq(Frames) /\ Len(first) = 0 BY <1>4
  <2>3. o \in Seq(Frames) /\ Len(o) = Len(first) + k /\ Len(o) = k BY <1>0, <1>1, <2>1, <2>2
  <2>4. \A i, j \in 1..Len(o) : i < j => o[i] < o[j] BY <1>3, <2>1, <2>3
  <2>5. ASSUME o # <<>> PROVE lst < o[1] /\ o[Len(o)] \in Frames /\ o[Len(o)] < c
    <3>1. 1 \in 1..k /\ k \in 1..k BY <1>0, <2>3, <2>5
    <3> QED BY <3>1, <1>2, <2>1, <2>3
  <2>6. \A i \in 1..Len(o) : \E j \in 1..Len(s) : j <= k /\ o[i] = s[j].n
    BY <1>0, <1>2, <2>1, <2>3
  <2>7. \A j \in 1..Len(first) : \E i \in 1..Len(o) : o[i] = first[j] BY <2>2
  <2>8. ASSUME NEW j \in 1..Len(s), j <= k PROVE \E i \in 1..Len(o) : o[i] = s[j].n
    <3>1. j \in 1..k BY <1>0, <2>8
    <3> QED BY <3>1, <1>2, <2>1, <2>3
  <2> QED BY <2>2, <2>3, <2>4, <2>5, <2>6, <2>7, <2>8 DEF Handed
<1>5. ASSUME NEW n \in Frames, first = <<n>>, lst < n, n < b, \A i \in 1..Len(s) : n < s[i].n
      PROVE  Handed(o, s, k, first, lst, c)
  <2>0. first \in Seq(Frames) /\ Len(first) = 1 /\ first[1] = n BY <1>5
  <2>a. n \in Nat BY ONLY FrameAssumption, n \in Frames
  <2>1. o \in Seq(Frames) /\ Len(o) = k + 1 /\ Len(o) = Len(first) + k /\ o[1] = n
    <3>1. o = first \o p BY DEF p
    <3>2. first \o p \in Seq(Frames) /\ Len(first \o p) = 1 + k /\ (first \o p)[1] = n
      <4>1. 1 \in 1..(Len(first) + Len(p)) /\ 1 <= Len(first) BY ONLY <1>0, <1>1, <2>0
      <4>2. /\ first \o p \in Seq(Frames) /\ Len(first \o p) = Len(first) + Len(p)
            /\ (first \o p)[1] = first[1]
        <5>1. p \in Seq(Frames) /\ first \in Seq(Frames) BY ONLY <1>1, <2>0
        <5>2. 1 \in 1..(Len(first) + Len(p)) /\ 1 <= Len(first) BY ONLY <4>1
        <5> QED BY ONLY <5>1, <5>2, ConcatProperties
      <4> QED BY ONLY <4>2, <1>1, <2>0
    <3> QED BY ONLY <3>1, <3>2, <1>0, <2>0
  <2>2. ASSUME NEW i \in 1..Len(o), i > 1
        PROVE  i - 1 \in 1..k /\ o[i] = p[i - 1]
    BY <1>0, <1>1, <2>0, <2>1, <2>2 DEF p
  <2>3. ASSUME NEW i \in 1..Len(o), NEW j \in 1..Len(o), i < j PROVE o[i] < o[j]
    <3>0. i \in Nat /\ j \in Nat /\ j > 1 BY <1>0, <2>1, <2>3
    <3>1. CASE i = 1
      <4>1. n < p[j - 1] BY <1>2, <1>5, <2>2, <3>0
      <4> QED BY <4>1, <3>1, <2>1, <2>2, <3>0
    <3>2. CASE i > 1
      <4>1. i - 1 < j - 1 BY <3>0, <2>3
      <4> QED BY <4>1, <3>2, <3>0, <2>2, <1>3
    <3> QED BY <3>0, <3>1, <3>2
  <2>4. lst < o[1] BY <1>5, <2>1
  <2>5. o[Len(o)] \in Frames /\ o[Len(o)] < c
    <3>1. CASE k = 0 BY <3>1, <2>1, <2>a, <1>5
    <3>2. CASE k > 0
      <4>1. Len(o) \in 1..Len(o) /\ Len(o) > 1 BY <1>0, <2>1, <3>2
      <4>2. PICK x \in 1..k : o[Len(o)] = p[x] BY <4>1, <2>2
      <4>3. p[x] \in Frames /\ p[x] < c BY <1>2
      <4> QED BY ONLY <4>2, <4>3
    <3> QED BY ONLY <1>0, <3>1, <3>2
  <2>6. ASSUME NEW i \in 1..Len(o)
        PROVE  \/ \E j \in 1..Len(first) : o[i] = first[j]
               \/ \E j \in 1..Len(s) : j <= k /\ o[i] = s[j].n
    <3>1. CASE i = 1 BY <3>1, <2>0, <2>1
    <3>2. CASE i > 1
      <4>1. i - 1 \in 1..k /\ o[i] = p[i - 1] BY <3>2, <2>2
      <4>2. i - 1 \in 1..Len(s) /\ i - 1 <= k /\ o[i] = s[i - 1].n BY <1>0, <4>1, <1>2
      <4> QED BY <4>2
    <3> QED BY <1>0, <2>1, <3>1, <3>2
  <2>7. ASSUME NEW j \in 1..Len(first) PROVE \E i \in 1..Len(o) : o[i] = first[j]
    <3>1. 1 \in 1..Len(o) /\ j = 1 BY <1>0, <2>0, <2>1
    <3> QED BY <3>1, <2>0, <2>1
  <2>8. ASSUME NEW j \in 1..Len(s), j <= k PROVE \E i \in 1..Len(o) : o[i] = s[j].n
    <3>1. j + 1 \in 1..Len(o) /\ j + 1 > 1 /\ (j + 1) - 1 = j /\ j \in 1..k BY <1>0, <2>1, <2>8
    <3>2. o[j + 1] = s[j].n BY <3>1, <2>2, <1>2
    <3> QED BY <3>1, <3>2
  <2> QED BY ONLY <2>0, <2>1, <2>3, <2>4, <2>5, <2>6, <2>7, <2>8 DEF Handed
<1> QED BY <1>4, <1>5 DEF FirstOK

(* What the end of a handler establishes, c being the new window start.    *)
Indicated(s, b, free, first, c) ==
    /\ c \in Nat /\ b <= c /\ c <= b + Len(s) /\ base' = c /\ indicateSeq' = c % SnMod
    /\ Good(pending') /\ Ahead(pending', c)
    /\ unused' \in Nat /\ unused' + Len(pending') = free + Len(s)
    /\ out' \in Seq(Frames) /\ Len(out') <= WinSize /\ InOrderStep
    /\ \/ out' = <<>> /\ last' = last
       \/ last' \in Frames /\ last' < c
    /\ \A i \in 1..Len(out') : \/ \E j \in 1..Len(first) : out'[i] = first[j]
                               \/ \E j \in 1..Len(s) : out'[i] = s[j].n /\ s[j].n < c
    /\ \A j \in 1..Len(first) : \E i \in 1..Len(out') : out'[i] = first[j]
    /\ \A j \in 1..Len(s) : s[j].n < c => \E i \in 1..Len(out') : out'[i] = s[j].n
    /\ \A i \in 1..Len(pending') : \E j \in 1..Len(s) : pending'[i].n = s[j].n
    /\ \A j \in 1..Len(s) : s[j].n >= c => \E i \in 1..Len(pending') : pending'[i].n = s[j].n

(* The entries behind the first k lie in the window of position c.         *)
Kept(s, k, c) == \A i \in 1..Len(s) : i > k => c < s[i].n /\ s[i].n < c + WinSize

(* Taking the first k entries, those before c, is what the loops do.       *)
LEMMA TakeLemma ==
    ASSUME NEW s, Good(s), NEW b \in Nat, NEW c \in Nat, b <= c,
           NEW k \in 0..Len(s), c <= b + k, Taken(s, k, c), Kept(s, k, c),
           NEW free \in Nat, last \in Int, Below(last, s),
           NEW first, FirstOK(first, s, b, last), Len(first) + Len(s) <= WinSize,
           indicateSeq' = c % SnMod, base' = c,
           pending' = SubSeq(s, k + 1, Len(s)), unused' = free + k,
           HandUp(first \o Positions(s, k))
    PROVE  Indicated(s, b, free, first, c) /\ Len(pending') = Len(s) - k
<1>0. Len(s) \in Nat /\ WinSize \in Nat /\ k \in Nat /\ k <= Len(s)
  <2>1. Len(s) \in Nat BY GoodFacts
  <2> QED BY <2>1, WinAssumption
<1>a. Len(first) \in 0..1 BY DEF FirstOK
<1>3. /\ out' = first \o Positions(s, k)
      /\ last' = IF out' = <<>> THEN last ELSE out'[Len(out')]
  BY DEF HandUp
<1>4. /\ Good(pending') /\ Len(pending') = Len(s) - k
      /\ \A i \in 1..Len(pending') : k + i \in (k + 1)..Len(s) /\ pending'[i] = s[k + i]
  <2>1. PICK t : t = pending' OBVIOUS
  <2>2. t = SubSeq(s, k + 1, Len(s)) BY ONLY <2>1, pending' = SubSeq(s, k + 1, Len(s))
  <2>3. /\ Good(t) /\ Len(t) = Len(s) - k
        /\ \A i \in 1..Len(t) : k + i \in (k + 1)..Len(s) /\ t[i] = s[k + i]
    BY ONLY TailLemma, Good(s), k \in 0..Len(s), <2>2, ZenonT(30)
  <2> QED BY ONLY <2>1, <2>3
<1>6. /\ first \in Seq(Frames) /\ out' \in Seq(Frames) /\ Len(out') = Len(first) + k
      /\ \A i, j \in 1..Len(out') : i < j => out'[i] < out'[j]
      /\ out' # <<>> => last < out'[1] /\ out'[Len(out')] \in Frames /\ out'[Len(out')] < c
      /\ \A i \in 1..Len(out') : \/ \E j \in 1..Len(first) : out'[i] = first[j]
                                 \/ \E j \in 1..Len(s) : j <= k /\ out'[i] = s[j].n
      /\ \A j \in 1..Len(first) : \E i \in 1..Len(out') : out'[i] = first[j]
      /\ \A j \in 1..Len(s) : j <= k => \E i \in 1..Len(out') : out'[i] = s[j].n
  <2>1. PICK o, lst : o = out' /\ lst = last OBVIOUS
  <2>2. lst \in Int /\ Below(lst, s) /\ FirstOK(first, s, b, lst) BY <2>1
  <2>3. o = first \o Positions(s, k) BY <1>3, <2>1
  <2>4. Handed(o, s, k, first, lst, c)
    BY ONLY <2>2, <2>3, OutLemma, Taken(s, k, c), b <= c,
            Good(s), k \in 0..Len(s), b \in Nat, c \in Nat
  <2> QED BY ONLY <2>1, <2>4 DEF Handed
<1>7. ASSUME NEW j \in 1..Len(s) PROVE (j <= k <=> s[j].n < c) /\ (j > k <=> s[j].n >= c)
  <2>1. s[j].n \in Nat BY GoodFacts
  <2>2. (j <= k => s[j].n < c) /\ (j > k => c < s[j].n) BY DEF Taken, Kept
  <2> QED BY ONLY <2>1, <2>2, <1>0, c \in Nat, j \in 1..Len(s)
<1>8. ASSUME NEW i \in 1..Len(pending')
      PROVE /\ c < pending'[i].n /\ pending'[i].n < c + WinSize
            /\ \E j \in 1..Len(s) : pending'[i].n = s[j].n
  <2>1. PICK x \in 1..Len(s) : x > k /\ pending'[i] = s[x] BY <1>0, <1>4
  <2> QED BY <2>1 DEF Kept
<1>9. ASSUME NEW j \in 1..Len(s), s[j].n >= c PROVE \E i \in 1..Len(pending') : pending'[i].n = s[j].n
  <2>1. j > k BY <1>7, <1>9
  <2>2. j - k \in 1..Len(pending') /\ k + (j - k) = j BY <1>0, <1>4, <2>1
  <2>3. pending'[j - k] = s[k + (j - k)] BY <1>4, <2>2
  <2>4. pending'[j - k].n = s[j].n BY <2>2, <2>3
  <2> QED BY <2>2, <2>4
<1>10. unused' \in Nat /\ unused' + Len(pending') = free + Len(s)
  <2>1. Len(pending') = Len(s) - k BY <1>4
  <2> QED BY ONLY <2>1, <1>0, free \in Nat, unused' = free + k
<1>11. Len(out') <= WinSize
  <2>1. Len(out') = Len(first) + k BY <1>6
  <2> QED BY ONLY <2>1, <1>0, <1>a, Len(first) + Len(s) <= WinSize
<1>12. \/ out' = <<>> /\ last' = last
       \/ last' \in Frames /\ last' < c
  BY <1>3, <1>6
<1>13. InOrderStep BY <1>6 DEF InOrderStep
<1>14. Ahead(pending', c) BY <1>8 DEF Ahead
<1>15. /\ \A i \in 1..Len(out') : \/ \E j \in 1..Len(first) : out'[i] = first[j]
                                  \/ \E j \in 1..Len(s) : out'[i] = s[j].n /\ s[j].n < c
       /\ \A j \in 1..Len(s) : s[j].n < c => \E i \in 1..Len(out') : out'[i] = s[j].n
  BY <1>6, <1>7
<1>16. c <= b + Len(s) BY ONLY <1>0, c <= b + k, c \in Nat, b \in Nat
<1> QED BY <1>16, <1>4, <1>6, <1>8, <1>9, <1>10, <1>11, <1>12, <1>13, <1>14, <1>15 DEF Indicated

(* What happens to the pending timer.                                      *)
TimerStep(s) ==
    \/ timer' = FALSE /\ timeoutSeq' = NoSeq
    \/ timer' = TRUE /\ timeoutSeq' \in SeqNums /\ Len(pending') > 0
    \/ /\ timer' = timer /\ timeoutSeq' = timeoutSeq /\ Len(pending') = Len(s)

(* The end of RxReorderIndicatePacket, from a good list around the window  *)
(* start b.                                                                *)
LEMMA IndicateLemma ==
    ASSUME NEW s, Good(s), NEW b \in Nat, Near(s, b), NEW q, NumOf(q, b),
           NEW free \in Nat, last \in Int, Below(last, s),
           NEW first, FirstOK(first, s, b, last), Len(first) + Len(s) <= WinSize,
           IndicateAndArm(s, q, b, free, first)
    PROVE  (\E c : Indicated(s, b, free, first, c)) /\ TimerStep(s)
<1>0. Len(s) \in Nat /\ ArraySize \in Nat /\ WinSize \in Nat /\ WinSize <= ArraySize BY WinAssumption, GoodFacts
<1>a. Len(first) \in 0..1 BY DEF FirstOK
<1>1. PICK low \in 0..Len(s), run \in 0..Len(s) :
        LET k == low + run
            newInd == (q + run) % SnMod
        IN  /\ Drains(s, q, ArraySize - Len(first), low, run)
            /\ indicateSeq' = newInd
            /\ base' = Moved(b, q, newInd)
            /\ pending' = SubSeq(s, k + 1, Len(s))
            /\ unused' = free + k
            /\ HandUp(first \o Positions(s, k))
            /\ IF Len(first) + k > 0
               THEN timer' = FALSE /\ timeoutSeq' = NoSeq
               ELSE IF k < Len(s) /\ timeoutSeq = NoSeq
                    THEN timer' = TRUE /\ timeoutSeq' = newInd
                    ELSE UNCHANGED <<timer, timeoutSeq>>
  BY DEF IndicateAndArm
<1>2. PICK k \in 0..Len(s), c \in Nat :
        /\ k = low + run /\ c = b + run
        /\ (q + run) % SnMod = c % SnMod
        /\ Moved(b, q, c % SnMod) = c
        /\ \A i \in 1..Len(s) : i <= k => s[i].n < c
        /\ \A i \in 1..Len(s) : i > k => c < s[i].n /\ s[i].n < c + WinSize
        /\ k = 0 => c = b
  <2>1. PICK room \in Int : room = ArraySize - Len(first) BY <1>0, <1>a
  <2>2. Len(s) <= room BY <1>0, <1>a, <2>1
  <2>3. Drains(s, q, room, low, run) BY <1>1, <2>1
  <2> QED BY <2>2, <2>3, SplitLemma
<1>3. /\ indicateSeq' = c % SnMod /\ base' = c
      /\ pending' = SubSeq(s, k + 1, Len(s)) /\ unused' = free + k
      /\ HandUp(first \o Positions(s, k))
      /\ IF Len(first) + k > 0
         THEN timer' = FALSE /\ timeoutSeq' = NoSeq
         ELSE IF k < Len(s) /\ timeoutSeq = NoSeq
              THEN timer' = TRUE /\ timeoutSeq' = c % SnMod
              ELSE UNCHANGED <<timer, timeoutSeq>>
  BY <1>1, <1>2
<1>4. b <= c /\ c <= b + k /\ k \in Nat /\ k <= Len(s) BY <1>0, <1>2
<1>5. Taken(s, k, c) /\ Kept(s, k, c) BY <1>2 DEF Taken, Kept
<1>6. Indicated(s, b, free, first, c) /\ Len(pending') = Len(s) - k
  <2>1. /\ indicateSeq' = c % SnMod /\ base' = c
        /\ pending' = SubSeq(s, k + 1, Len(s)) /\ unused' = free + k
        /\ HandUp(first \o Positions(s, k))
    BY <1>3
  <2> QED BY ONLY <2>1, <1>4, <1>5, TakeLemma, Good(s), b \in Nat, c \in Nat,
              k \in 0..Len(s), free \in Nat, last \in Int, Below(last, s),
              FirstOK(first, s, b, last), Len(first) + Len(s) <= WinSize
<1>7. c % SnMod \in SeqNums BY ModType
<1>8. TimerStep(s)
  BY ONLY <1>0, <1>a, <1>3, <1>4, <1>6, <1>7 DEF TimerStep
<1> QED BY <1>6, <1>8

-----------------------------------------------------------------------------
(* The inductive invariant.                                                *)
IInv == /\ TypeOK /\ Synced /\ WindowInv /\ NoEntryLost
        /\ TimerCoherent /\ IndicateArrayBound /\ Settled

(* What the invariant says about the pending list, for the lemmas above.   *)
LEMMA InvFacts ==
    ASSUME IInv
    PROVE  /\ Good(pending) /\ Ahead(pending, base) /\ Below(last, pending)
           /\ base \in Int /\ last \in Int /\ last >= -1 /\ unused \in Nat /\ others \in Nat
           /\ Len(pending) \in Nat /\ Len(pending) < WinSize
           /\ unused + Len(pending) + others = EntryNum
           /\ indicateSeq = NoSeq => base = -1 /\ last = -1 /\ pending = <<>>
           /\ indicateSeq # NoSeq => base \in Nat /\ NumOf(indicateSeq, base) /\ last < base
<1>0. WinSize \in Int /\ 1 <= WinSize /\ EntryNum \in Nat BY WinAssumption
<1>1. Good(pending) BY DEF IInv, TypeOK, Synced, WindowInv, Good
<1>2. Ahead(pending, base) BY DEF IInv, WindowInv, Ahead
<1>3. base \in Int /\ unused \in Nat /\ others \in Nat BY <1>0 DEF IInv, TypeOK
<1>4. last \in Int /\ last >= -1
  <2>1. last \in Frames \/ last = -1 BY DEF IInv, TypeOK, NoPos
  <2>2. last \in Frames => last \in Nat BY FrameAssumption
  <2> QED BY <2>1, <2>2
<1>5. indicateSeq = NoSeq => base = -1 /\ last = -1 /\ pending = <<>>
  BY DEF IInv, Synced, Settled, TimerCoherent, NoPos
<1>6. indicateSeq # NoSeq => base \in Nat /\ NumOf(indicateSeq, base) /\ last < base
  <2>1. indicateSeq # NoSeq => base >= 0 /\ indicateSeq = base % SnMod BY DEF IInv, Synced
  <2>2. indicateSeq # NoSeq => last = -1 \/ last < base BY DEF IInv, Settled, NoPos
  <2> QED BY <2>1, <2>2, <1>3 DEF NumOf
<1>7. Len(pending) \in Nat BY <1>1, GoodFacts
<1>8. Below(last, pending)
  <2> SUFFICES ASSUME NEW i \in 1..Len(pending) PROVE last < pending[i].n BY DEF Below
  <2>1. pending # <<>> BY <1>7
  <2>2. last < base BY <2>1, <1>5, <1>6
  <2>3. base < pending[i].n /\ pending[i].n \in Nat BY <1>1, <1>2, GoodFacts DEF Ahead
  <2> QED BY <2>2, <2>3, <1>3, <1>4
<1>9. Len(pending) < WinSize
  <2>1. CASE Len(pending) = 0 BY <2>1, <1>0
  <2>2. CASE Len(pending) > 0
    <3>1. PICK l \in Nat : l = Len(pending) BY <1>7
    <3>2. 1 \in 1..Len(pending) /\ l \in 1..Len(pending) /\ 1 <= l BY <1>7, <2>2, <3>1
    <3>3. pending[l].n - pending[1].n >= l - 1 BY <3>2, <1>1, GoodFacts
    <3>4. base < pending[1].n /\ pending[l].n < base + WinSize BY <3>2, <1>2 DEF Ahead
    <3>5. pending[l].n \in Nat /\ pending[1].n \in Nat BY <3>2, <1>1, GoodFacts
    <3> QED BY ONLY <3>1, <3>3, <3>4, <3>5, <1>0, <1>3
  <2> QED BY ONLY <2>1, <2>2, <1>7
<1>10. unused + Len(pending) + others = EntryNum BY <1>3, <1>7 DEF IInv, NoEntryLost
<1> QED BY <1>1, <1>2, <1>3, <1>4, <1>5, <1>6, <1>7, <1>8, <1>9, <1>10

(* A handler that ends as the lemmas describe preserves the invariant.     *)
LEMMA IndicatedInv ==
    ASSUME IInv, admitted, admitted' = admitted, others' = others,
           NEW s, NEW b, NEW free \in Nat, NEW first, NEW c,
           Indicated(s, b, free, first, c), TimerStep(s), b \in Nat, base <= b,
           Len(s) \in Nat, free + Len(s) + others = EntryNum, pending # <<>> => Len(s) > 0
    PROVE  IInv'
<1>0. EntryNum \in Nat /\ others \in 0..EntryNum BY WinAssumption DEF IInv, TypeOK
<1>1. /\ c \in Nat /\ b <= c /\ base' = c /\ indicateSeq' = c % SnMod
      /\ Good(pending') /\ Ahead(pending', c)
      /\ unused' \in Nat /\ unused' + Len(pending') = free + Len(s)
      /\ out' \in Seq(Frames) /\ Len(out') <= WinSize
      /\ \/ out' = <<>> /\ last' = last
         \/ last' \in Frames /\ last' < c
  BY DEF Indicated
<1>2. c % SnMod \in SeqNums /\ c % SnMod # NoSeq BY <1>1, ModType
<1>3. pending' \in Seq(Entry) /\ Len(pending') \in Nat BY <1>1, GoodFacts
<1>4. unused' \in 0..EntryNum /\ unused' + others + Len(pending') = EntryNum
  <2>1. unused' \in Nat /\ unused' + Len(pending') = free + Len(s) BY <1>1
  <2> QED BY ONLY <2>1, <1>0, <1>3, free \in Nat, Len(s) \in Nat, free + Len(s) + others = EntryNum
<1>5. last' \in Frames \cup {NoPos} BY <1>1 DEF IInv, TypeOK
<1>6. timer' \in BOOLEAN /\ timeoutSeq' \in SeqNums \cup {NoSeq}
  BY DEF IInv, TypeOK, TimerStep
<1>7. TypeOK'
  <2>1. admitted' \in BOOLEAN BY DEF IInv, TypeOK
  <2>2. base' \in Int BY <1>1
  <2>3. out' \in Seq(Frames) BY <1>1
  <2>4. indicateSeq' \in SeqNums \cup {NoSeq} BY <1>1, <1>2
  <2>5. others' \in 0..EntryNum BY <1>0
  <2> QED BY <2>1, <2>2, <2>3, <2>4, <2>5, <1>3, <1>4, <1>5, <1>6 DEF TypeOK
<1>8. Synced'
  <2>1. base' >= 0 /\ base' # NoPos BY <1>1 DEF NoPos
  <2>2. \A i \in 1..Len(pending') : pending'[i].seq = pending'[i].n % SnMod BY <1>1, GoodFacts
  <2> QED BY <2>1, <2>2, <1>1, <1>2 DEF Synced
<1>9. WindowInv'
  <2>1. \A i \in 1..Len(pending') : base' < pending'[i].n /\ pending'[i].n < base' + WinSize
    BY <1>1 DEF Ahead
  <2>2. \A i, j \in 1..Len(pending') : i <= j => pending'[j].n - pending'[i].n >= j - i
    BY <1>1 DEF Good
  <2> QED BY <2>1, <2>2 DEF WindowInv
<1>10. NoEntryLost' BY <1>4 DEF NoEntryLost
<1>11. TimerCoherent'
  <2>0. /\ timer <=> timeoutSeq # NoSeq
        /\ timer => Len(s) > 0
        /\ timer \in BOOLEAN
    BY DEF IInv, TimerCoherent, TypeOK
  <2>a. \A x \in SeqNums : x # NoSeq BY DEF SeqNums, SnMod, NoSeq
  <2>b. Len(pending') > 0 => pending' # <<>> BY <1>3
  <2>c. (timer' <=> timeoutSeq' # NoSeq) /\ (timer' => pending' # <<>>)
    <3>1. CASE timer' = FALSE /\ timeoutSeq' = NoSeq BY <3>1
    <3>2. CASE timer' = TRUE /\ timeoutSeq' \in SeqNums /\ Len(pending') > 0
      BY ONLY <3>2, <2>a, <2>b
    <3>3. CASE timer' = timer /\ timeoutSeq' = timeoutSeq /\ Len(pending') = Len(s)
      BY ONLY <3>3, <2>0, <2>b
    <3> QED BY ONLY <3>1, <3>2, <3>3, TimerStep(s) DEF TimerStep
  <2>1. timer' <=> timeoutSeq' # NoSeq BY <2>c
  <2>2. timer' => pending' # <<>> BY <2>c
  <2> QED BY <2>1, <2>2, <1>1, <1>2 DEF TimerCoherent
<1>12. IndicateArrayBound' BY <1>1 DEF IndicateArrayBound
<1>13. Settled'
  <2>1. CASE last' = last
    <3>1. last = NoPos \/ (last < base /\ last \in Int /\ base \in Int)
      BY InvFacts DEF IInv, Settled
    <3> QED BY <3>1, <2>1, <1>1, <1>2 DEF Settled
  <2>2. CASE last' < c BY <2>2, <1>1, <1>2 DEF Settled
  <2> QED BY <2>1, <2>2, <1>1
<1> QED BY <1>7, <1>8, <1>9, <1>10, <1>11, <1>12, <1>13 DEF IInv

-----------------------------------------------------------------------------
(* One lemma per handler: what it does to the list, the window and the     *)
(* timer.                                                                  *)

(* A frame of a running stream is within half the sequence space.          *)
LEMMA ArrivesLemma ==
    ASSUME NEW n \in Int, base \in Int, Arrives(n), indicateSeq # NoSeq
    PROVE  -2048 <= n - base /\ n - base <= 2047
<1>1. PICK d \in Int : d = n - base OBVIOUS
<1>2. d \in Offsets BY <1>1 DEF Arrives
<1>3. Offsets \subseteq -2048..2047 BY FrameAssumption
<1>4. -2048 <= d /\ d <= 2047 BY ONLY <1>2, <1>3, d \in Int
<1> QED BY ONLY <1>1, <1>4

(* The frame at the window start, the first frame of a stream included.    *)
LEMMA AtWinStartLemma ==
    ASSUME IInv, NEW n \in Frames, AtWinStart(n)
    PROVE  \E c : \E b \in Nat :
             /\ Indicated(pending, b, unused, <<n>>, c) /\ TimerStep(pending)
             /\ b = n + 1 /\ base <= b
             /\ \/ base = -1 /\ pending = <<>>
                \/ base \in Nat /\ n = base
<1>0. n \in Nat /\ WinSize \in Int /\ 1 <= WinSize /\ WinSize <= 255 /\ WinSize <= ArraySize /\ ArraySize \in Nat
  BY FrameAssumption, WinAssumption
<1>1. /\ Good(pending) /\ Ahead(pending, base) /\ Below(last, pending)
      /\ base \in Int /\ last \in Int /\ last >= -1 /\ unused \in Nat
      /\ Len(pending) \in Nat /\ Len(pending) < WinSize
      /\ indicateSeq = NoSeq => base = -1 /\ last = -1 /\ pending = <<>>
      /\ indicateSeq # NoSeq => base \in Nat /\ NumOf(indicateSeq, base) /\ last < base
  BY InvFacts
<1>2. \/ indicateSeq = NoSeq /\ StartPos(n) = n
      \/ indicateSeq # NoSeq /\ StartPos(n) = n /\ n = base
  <2>1. CASE indicateSeq = NoSeq BY <2>1 DEF StartPos
  <2>2. CASE indicateSeq # NoSeq
    <3>1. n % SnMod = base % SnMod BY <2>2, <1>1 DEF AtWinStart, WinStart, NumOf
    <3>2. -2048 <= n - base /\ n - base <= 2047 BY <2>2, <1>0, <1>1, ArrivesLemma DEF AtWinStart
    <3>3. -4096 < n - base /\ n - base < 4096 BY <3>2, <1>0, <1>1
    <3>4. n = base BY <3>1, <3>3, <1>0, <1>1, ModInjective
    <3> QED BY <3>4, <2>2 DEF StartPos
  <2> QED BY <2>1, <2>2
<1>3. WinStart(n) = n % SnMod BY DEF AtWinStart
<1>4. PICK b, q : b \in Nat /\ b = n + 1 /\ q = (WinStart(n) + 1) % SnMod BY <1>0
<1>5. NumOf(q, b)
  <2>1. ((n % SnMod) + 1) % SnMod = (n + 1) % SnMod BY <1>0, ModAdd
  <2> QED BY <2>1, <1>3, <1>4 DEF NumOf
<1>6. IndicateAndArm(pending, q, b, unused, <<n>>)
  BY <1>2, <1>4 DEF AtWinStart
<1>7. base <= b /\ ((base = -1 /\ pending = <<>>) \/ (base \in Nat /\ n = base))
  BY <1>0, <1>1, <1>2, <1>4
<1>8. Near(pending, b)
  <2> SUFFICES ASSUME NEW i \in 1..Len(pending)
               PROVE  b - 2048 <= pending[i].n /\ pending[i].n < b + WinSize
    BY DEF Near
  <2>1. pending # <<>> BY <1>1
  <2>2. n = base BY <2>1, <1>1, <1>2
  <2>3. pending[i].n \in Nat /\ base < pending[i].n /\ pending[i].n < base + WinSize
    BY <1>1, GoodFacts DEF Ahead
  <2> QED BY ONLY <2>2, <2>3, <1>0, <1>4
<1>9. FirstOK(<<n>>, pending, b, last)
  <2>1. last < n
    <3>1. CASE indicateSeq = NoSeq BY <3>1, <1>0, <1>1
    <3>2. CASE indicateSeq # NoSeq BY <3>2, <1>1, <1>2
    <3> QED BY <3>1, <3>2
  <2>2. n < b BY <1>0, <1>4
  <2>3. ASSUME NEW i \in 1..Len(pending) PROVE n < pending[i].n
    <3>1. pending # <<>> BY <1>1
    <3>2. n = base BY <3>1, <1>1, <1>2
    <3> QED BY <3>2, <1>1 DEF Ahead
  <2> QED BY <2>1, <2>2, <2>3 DEF FirstOK
<1>10. Len(<<n>>) + Len(pending) <= WinSize
  <2>1. Len(<<n>>) = 1 OBVIOUS
  <2> QED BY ONLY <2>1, <1>0, <1>1
<1>11. (\E c : Indicated(pending, b, unused, <<n>>, c)) /\ TimerStep(pending)
  BY ONLY <1>1, <1>5, <1>6, <1>8, <1>9, <1>10, <1>4, IndicateLemma
<1> QED BY <1>4, <1>7, <1>11

(* The window shift: Shifted is the number of the later of the window      *)
(* start and the position that makes the frame the last of the window.     *)
LEMMA ShiftLemma ==
    ASSUME NEW n \in Nat, base \in Nat, indicateSeq = base % SnMod, base < n, n <= base + 2047
    PROVE  \E b \in Nat :
             /\ b = IF base + WinSize - 1 < n THEN n + 1 - WinSize ELSE base
             /\ NumOf(Shifted(n % SnMod), b)
             /\ Moved(base, indicateSeq, Shifted(n % SnMod)) = b
<1>0. WinSize \in Int /\ 1 <= WinSize /\ WinSize <= 255 BY WinAssumption
<1>1. WinEnd = (base + WinSize - 1) % SnMod
  <2>1. ((base % SnMod) + (WinSize - 1)) % SnMod = (base + (WinSize - 1)) % SnMod BY <1>0, ModAdd
  <2>2. (base % SnMod) + (WinSize - 1) = (base % SnMod) + WinSize - 1 BY <1>0 DEF SnMod
  <2>3. base + (WinSize - 1) = base + WinSize - 1 BY <1>0
  <2>4. WinEnd = ((base % SnMod) + WinSize - 1) % SnMod BY DEF WinEnd
  <2> QED BY ONLY <2>1, <2>2, <2>3, <2>4
<1>2. SN_LESS(WinEnd, n % SnMod) <=> base + WinSize - 1 < n
  <2>1. PICK e \in Int : e = base + WinSize - 1 BY <1>0
  <2>2. -2048 <= e - n /\ e - n <= 2047 BY <1>0, <2>1
  <2>3. SN_LESS(e % SnMod, n % SnMod) <=> e < n BY <2>2, SnLess
  <2> QED BY ONLY <2>1, <2>3, <1>1
<1>3. CASE base + WinSize - 1 < n
  <2>1. PICK b \in Nat : b = n + 1 - WinSize BY <1>0, <1>3
  <2>2. Shifted(n % SnMod) = b % SnMod
    <3>1. Shifted(n % SnMod) = IF n % SnMod >= WinSize - 1 THEN (n % SnMod) + 1 - WinSize
                               ELSE 4095 - (WinSize - ((n % SnMod) + 1)) + 1
      BY <1>2, <1>3 DEF Shifted
    <3>2. (IF n % SnMod >= WinSize - 1 THEN (n % SnMod) + 1 - WinSize
           ELSE 4095 - (WinSize - ((n % SnMod) + 1)) + 1) = b % SnMod
      BY ONLY <2>1, <1>0, n \in Nat DEF SnMod
    <3> QED BY <3>1, <3>2
  <2>3. PICK d \in Nat : d < 4096 /\ b = base + d
    <3>1. b - base \in Nat /\ b - base < 4096 /\ b = base + (b - base) BY <2>1, <1>0, <1>3
    <3> QED BY <3>1
  <2>4. Moved(base, base % SnMod, b % SnMod) = b
    BY ONLY <2>3, b \in Nat, base \in Nat DEF Moved, SnMod
  <2> QED BY <2>1, <2>2, <2>4, <1>3 DEF NumOf
<1>4. CASE ~(base + WinSize - 1 < n)
  <2>1. Shifted(n % SnMod) = indicateSeq BY <1>2, <1>4 DEF Shifted
  <2>2. Moved(base, indicateSeq, indicateSeq) = base BY ONLY base \in Nat, indicateSeq = base % SnMod DEF Moved, SnMod
  <2> QED BY <2>1, <2>2, <1>4 DEF NumOf
<1> QED BY <1>3, <1>4

(* The positions of t are those of s and n.                                *)
Adds(t, s, n) ==
    /\ \A i \in 1..Len(t) : t[i].n = n \/ \E j \in 1..Len(s) : t[i].n = s[j].n
    /\ \A j \in 1..Len(s) : \E i \in 1..Len(t) : t[i].n = s[j].n
    /\ \E i \in 1..Len(t) : t[i].n = n

(* A frame ahead of the window start.                                      *)
LEMMA BufferLemma ==
    ASSUME IInv, NEW n \in Frames, Buffer(n)
    PROVE  \E s, c : \E b \in Nat, free \in Nat :
             /\ Indicated(s, b, free, <<>>, c) /\ TimerStep(s)
             /\ base \in Nat /\ base <= b /\ n \in Nat /\ base <= n
             /\ Len(s) \in Nat /\ free + Len(s) + others = EntryNum /\ (pending # <<>> => Len(s) > 0)
             /\ s = pending \/ (Adds(s, pending, n) /\ Good(s))
<1>0. /\ n \in Nat /\ WinSize \in Int /\ 1 <= WinSize /\ WinSize <= 255 /\ WinSize <= ArraySize
      /\ ArraySize \in Nat /\ EntryNum \in Nat
  BY FrameAssumption, WinAssumption
<1>1. /\ Good(pending) /\ Ahead(pending, base) /\ Below(last, pending)
      /\ base \in Nat /\ last \in Int /\ last < base /\ unused \in Nat /\ others \in Nat
      /\ Len(pending) \in Nat /\ Len(pending) < WinSize /\ unused + Len(pending) + others = EntryNum
      /\ indicateSeq # NoSeq /\ NumOf(indicateSeq, base)
  BY InvFacts DEF Buffer
<1>a. indicateSeq = base % SnMod BY <1>1 DEF NumOf
<1>2. base < n /\ n <= base + 2047
  <2>1. -2048 <= n - base /\ n - base <= 2047 BY <1>0, <1>1, ArrivesLemma DEF Buffer
  <2>2. SN_LESS(n % SnMod, base % SnMod) <=> n < base BY <1>0, <1>1, <2>1, SnLess
  <2>3. n % SnMod # base % SnMod /\ ~SN_LESS(n % SnMod, base % SnMod) BY <1>a DEF Buffer
  <2>4. n # base BY <2>3
  <2> QED BY ONLY <2>1, <2>2, <2>3, <2>4, <1>0, <1>1
<1>3. PICK b \in Nat :
        /\ b = IF base + WinSize - 1 < n THEN n + 1 - WinSize ELSE base
        /\ NumOf(Shifted(n % SnMod), b)
        /\ Moved(base, indicateSeq, Shifted(n % SnMod)) = b
  BY ONLY <1>0, <1>1, <1>a, <1>2, ShiftLemma
<1>4. base <= b /\ b <= base + 2047 /\ b <= n /\ n < b + WinSize
  BY ONLY <1>0, <1>1, <1>2, <1>3
<1>5. PICK q : q = Shifted(n % SnMod) /\ NumOf(q, b) /\ Moved(base, indicateSeq, q) = b
  BY <1>3
<1>6. PICK k \in 0..Len(pending) :
         /\ StopsAfter(pending, n % SnMod, k)
         /\ IF unused > 0 /\ ~Duplicate(pending, n % SnMod, k)
            THEN IndicateAndArm(InsertAfter(pending, [seq |-> n % SnMod, n |-> n], k),
                                q, b, unused - 1, <<>>)
            ELSE IndicateAndArm(pending, q, b, unused, <<>>)
  BY <1>5 DEF Buffer
<1>7. /\ \A i \in 1..Len(pending) : i > k => n < pending[i].n
      /\ ~Duplicate(pending, n % SnMod, k) => \A i \in 1..Len(pending) : i <= k => pending[i].n < n
  <2>1. n \in Nat /\ base \in Int /\ base < n /\ n <= base + 2047 BY <1>0, <1>1, <1>2
  <2>2. Good(pending) /\ Ahead(pending, base) /\ StopsAfter(pending, n % SnMod, k) BY <1>1, <1>6
  <2>3. Parts(pending, n, k) BY <2>1, <2>2, StopLemma
  <2> QED BY <2>3 DEF Parts
<1>8. ASSUME NEW m \in Nat, base < m, m < base + WinSize \/ m = n
      PROVE  b - 2048 <= m /\ m < b + WinSize
  BY ONLY <1>0, <1>1, <1>4, <1>8
<1>9. CASE unused > 0 /\ ~Duplicate(pending, n % SnMod, k)
  <2>1. PICK t : t = InsertAfter(pending, [seq |-> n % SnMod, n |-> n], k) OBVIOUS
  <2>2. /\ Good(t) /\ Len(t) = Len(pending) + 1
        /\ \A i \in 1..Len(t) : t[i].n = n \/ \E j \in 1..Len(pending) : t[i].n = pending[j].n
        /\ \A j \in 1..Len(pending) : \E i \in 1..Len(t) : t[i].n = pending[j].n
        /\ \E i \in 1..Len(t) : t[i].n = n
    <3>1. \A i \in 1..Len(pending) : (i <= k => pending[i].n < n) /\ (i > k => n < pending[i].n)
      BY <1>7, <1>9
    <3>2. PICK s : s = pending OBVIOUS
    <3>3. Good(s) /\ k \in 0..Len(s) BY <3>2, <1>1
    <3>4. t = InsertAfter(s, [seq |-> n % SnMod, n |-> n], k) BY <2>1, <3>2
    <3>5. Around(s, k, n) BY <3>1, <3>2 DEF Around
    <3>6. Inserted(t, s, n) BY ONLY <3>3, <3>4, <3>5, n \in Frames, InsertLemma
    <3> QED BY ONLY <3>2, <3>6 DEF Inserted
  <2>3. Adds(t, pending, n) BY <2>2 DEF Adds
  <2>4. ASSUME NEW i \in 1..Len(t)
        PROVE  t[i].n \in Nat /\ base < t[i].n /\ (t[i].n < base + WinSize \/ t[i].n = n)
    <3>1. t[i].n \in Nat BY <2>2, GoodFacts
    <3>2. t[i].n = n \/ \E j \in 1..Len(pending) : t[i].n = pending[j].n BY <2>2
    <3> QED BY <3>1, <3>2, <1>1, <1>2 DEF Ahead
  <2>5. Near(t, b) BY <2>4, <1>8 DEF Near
  <2>6. Below(last, t)
    <3> SUFFICES ASSUME NEW i \in 1..Len(t) PROVE last < t[i].n BY DEF Below
    <3> QED BY <2>4, <1>1
  <2>7. PICK free \in Nat : free = unused - 1 BY <1>1, <1>9
  <2>8. FirstOK(<<>>, t, b, last) BY DEF FirstOK
  <2>9. Len(<<>>) + Len(t) <= WinSize
    <3>1. Len(<<>>) = 0 OBVIOUS
    <3> QED BY ONLY <3>1, <2>2, <1>0, <1>1, <1>9
  <2>10. IndicateAndArm(t, q, b, free, <<>>) BY <1>6, <1>9, <2>1, <2>7
  <2>11. (\E c : Indicated(t, b, free, <<>>, c)) /\ TimerStep(t)
    BY ONLY <2>2, <2>5, <2>6, <2>8, <2>9, <2>10, <1>1, <1>5, b \in Nat, free \in Nat, IndicateLemma
  <2>12. Len(t) \in Nat /\ free + Len(t) + others = EntryNum /\ Len(t) > 0
    <3>1. Len(t) = Len(pending) + 1 BY <2>2
    <3> QED BY ONLY <3>1, <2>7, <1>1, <1>0
  <2>13. base <= n BY ONLY <1>0, <1>1, <1>2
  <2>14. Good(t) BY <2>2
  <2> QED BY ONLY <2>14, <2>3, <2>11, <2>12, <2>13, <1>0, <1>1, <1>4, b \in Nat, free \in Nat
<1>10. CASE ~(unused > 0 /\ ~Duplicate(pending, n % SnMod, k))
  <2>1. Near(pending, b)
    <3> SUFFICES ASSUME NEW i \in 1..Len(pending)
                 PROVE  b - 2048 <= pending[i].n /\ pending[i].n < b + WinSize
      BY DEF Near
    <3>1. pending[i].n \in Nat BY <1>1, GoodFacts
    <3>2. base < pending[i].n /\ pending[i].n < base + WinSize BY <1>1 DEF Ahead
    <3> QED BY ONLY <3>1, <3>2, <1>8
  <2>2. FirstOK(<<>>, pending, b, last) BY DEF FirstOK
  <2>3. Len(<<>>) + Len(pending) <= WinSize
    <3>1. Len(<<>>) = 0 OBVIOUS
    <3> QED BY ONLY <3>1, <1>0, <1>1
  <2>4. IndicateAndArm(pending, q, b, unused, <<>>) BY <1>6, <1>10
  <2>5. (\E c : Indicated(pending, b, unused, <<>>, c)) /\ TimerStep(pending)
    BY ONLY <2>1, <2>2, <2>3, <2>4, <1>1, <1>5, b \in Nat, IndicateLemma
  <2>6. pending # <<>> => Len(pending) > 0 BY <1>1 DEF Good
  <2>7. base <= n BY ONLY <1>0, <1>1, <1>2
  <2> QED BY ONLY <2>5, <2>6, <2>7, <1>0, <1>1, <1>4, b \in Nat
<1> QED BY <1>9, <1>10

(* An old frame changes nothing but out; the first frame is never old.     *)
LEMMA DropOldLemma ==
    ASSUME IInv, NEW n \in Frames, DropOld(n)
    PROVE  /\ UNCHANGED <<admitted, indicateSeq, timeoutSeq, pending, unused, others, timer, base, last>>
           /\ out' = <<>> /\ indicateSeq # NoSeq
<1>1. n \in Nat BY FrameAssumption
<1>2. ~SN_LESS(n % SnMod, n % SnMod) BY <1>1 DEF SN_LESS, SnMod
<1>3. indicateSeq # NoSeq BY <1>2 DEF DropOld, WinStart
<1> QED BY <1>3 DEF DropOld, WinStart, StartPos

(* The timer callback: either there is nothing to do, or the oldest entry  *)
(* becomes the window start.                                               *)
LEMMA TimeoutLemma ==
    ASSUME IInv, RxPktPendingTimeout
    PROVE  \E c : \E b \in Nat :
             /\ Indicated(pending, b, unused, <<>>, c) /\ TimerStep(pending)
             /\ base \in Nat /\ base <= b /\ admitted /\ admitted' = admitted /\ others' = others
<1>0. /\ WinSize \in Int /\ 1 <= WinSize /\ WinSize <= 255
      /\ ArraySize \in Nat /\ WinSize <= ArraySize
  BY WinAssumption
<1>1. timer /\ admitted /\ timeoutSeq # NoSeq /\ pending # <<>> /\ indicateSeq # NoSeq
  BY DEF IInv, TimerCoherent, RxPktPendingTimeout
<1>2. /\ Good(pending) /\ Ahead(pending, base) /\ Below(last, pending)
      /\ base \in Nat /\ last \in Int /\ unused \in Nat
      /\ Len(pending) \in Nat /\ Len(pending) < WinSize
      /\ NumOf(indicateSeq, base)
  BY <1>1, InvFacts
<1>a. Len(pending) > 0
  <2>1. pending \in Seq(Entry) BY <1>2, GoodFacts
  <2> QED BY <2>1, <1>1, <1>2
<1>b. 1 \in 1..Len(pending) BY <1>a, <1>2
<1>3. PICK run \in 0..Len(pending) :
        /\ Drains(pending, pending[1].seq, Len(pending), 0, run)
        /\ indicateSeq' = (pending[1].seq + run) % SnMod
        /\ base' = Moved(base, indicateSeq, indicateSeq')
        /\ pending' = SubSeq(pending, run + 1, Len(pending))
        /\ unused' = unused + run
        /\ HandUp(Positions(pending, run))
        /\ timeoutSeq' = NoSeq
  BY <1>1 DEF RxPktPendingTimeout
<1>4. PICK b, q : b = pending[1].n /\ q = pending[1].seq OBVIOUS
<1>5. b \in Nat /\ base < b /\ b < base + WinSize /\ NumOf(q, b)
  <2>1. pending[1].n \in Nat /\ pending[1].seq = pending[1].n % SnMod BY <1>2, <1>b, GoodFacts
  <2>2. base < pending[1].n /\ pending[1].n < base + WinSize BY <1>2, <1>b DEF Ahead
  <2> QED BY <2>1, <2>2, <1>4 DEF NumOf
<1>6. Near(pending, b)
  <2> SUFFICES ASSUME NEW i \in 1..Len(pending)
               PROVE  b - 2048 <= pending[i].n /\ pending[i].n < b + WinSize
    BY DEF Near
  <2>1. pending[i].n \in Nat /\ 1 <= i /\ i \in Nat BY <1>2, GoodFacts
  <2>2. pending[i].n - pending[1].n >= i - 1 BY <2>1, <1>2, <1>b, GoodFacts
  <2>3. pending[i].n - b >= i - 1 BY <2>2, <1>4
  <2>4. pending[i].n < base + WinSize BY <1>2 DEF Ahead
  <2> QED BY ONLY <2>1, <2>3, <2>4, <1>0, <1>2, <1>5
<1>7. PICK k \in 0..Len(pending), c \in Nat :
        /\ k = 0 + run /\ c = b + run
        /\ (q + run) % SnMod = c % SnMod
        /\ \A i \in 1..Len(pending) : i <= k => pending[i].n < c
        /\ \A i \in 1..Len(pending) : i > k => c < pending[i].n /\ pending[i].n < c + WinSize
  <2>1. PICK s, room, low : s = pending /\ room = Len(pending) /\ low = 0 OBVIOUS
  <2>2. Drains(s, q, room, low, run) BY <1>3, <1>4, <2>1
  <2>3. Good(s) /\ Near(s, b) /\ Len(s) <= room /\ room \in Int /\ low \in 0..Len(s) /\ run \in 0..Len(s)
    BY <2>1, <1>2, <1>6
  <2>4. \E k \in 0..Len(s), c \in Nat :
          /\ k = low + run /\ c = b + run
          /\ (q + run) % SnMod = c % SnMod
          /\ Moved(b, q, c % SnMod) = c
          /\ \A i \in 1..Len(s) : i <= k => s[i].n < c
          /\ \A i \in 1..Len(s) : i > k => c < s[i].n /\ s[i].n < c + WinSize
          /\ k = 0 => c = b
    BY ONLY <2>2, <2>3, <1>5, SplitLemma
  <2> QED BY ONLY <2>1, <2>4
<1>8. k = run /\ k \in Nat /\ k <= Len(pending) BY <1>2, <1>7
<1>9. b <= c /\ c <= b + k BY ONLY <1>5, <1>7, <1>8
<1>10. indicateSeq' = c % SnMod BY <1>3, <1>4, <1>7
<1>11. base' = c
  <2>1. Moved(base, indicateSeq, indicateSeq') = base' BY <1>3
  <2>2. indicateSeq = base % SnMod BY <1>2 DEF NumOf
  <2>3. base <= c /\ c <= base + 4095 BY ONLY <1>0, <1>2, <1>5, <1>8, <1>9, c \in Nat
  <2> QED BY ONLY <2>1, <2>2, <2>3, <1>2, <1>10, c \in Nat DEF Moved, SnMod
<1>12. pending' = SubSeq(pending, k + 1, Len(pending)) /\ unused' = unused + k /\ timeoutSeq' = NoSeq
  BY <1>3, <1>8
<1>13. HandUp(<<>> \o Positions(pending, k))
  <2>1. Positions(pending, k) \in Seq(Frames) BY <1>2, PositionsLemma
  <2>2. <<>> \o Positions(pending, k) = Positions(pending, k) BY <2>1, ConcatEmptySeq
  <2> QED BY <2>2, <1>3, <1>8
<1>14. Taken(pending, k, c) /\ Kept(pending, k, c) BY <1>7 DEF Taken, Kept
<1>15. FirstOK(<<>>, pending, b, last) BY DEF FirstOK
<1>16. Len(<<>>) + Len(pending) <= WinSize
  <2>1. Len(<<>>) = 0 OBVIOUS
  <2> QED BY ONLY <2>1, <1>0, <1>2
<1>17. Indicated(pending, b, unused, <<>>, c)
  BY ONLY <1>2, <1>5, <1>9, <1>10, <1>11, <1>12, <1>13, <1>14, <1>15, <1>16, c \in Nat,
          k \in 0..Len(pending), TakeLemma
<1>18. TimerStep(pending) BY <1>12 DEF TimerStep, RxPktPendingTimeout
<1>19. admitted' = admitted /\ others' = others BY DEF RxPktPendingTimeout
<1>20. base <= b BY ONLY <1>2, <1>5
<1> QED BY ONLY <1>1, <1>2, <1>5, <1>17, <1>18, <1>19, <1>20

-----------------------------------------------------------------------------
(* The initial states satisfy the invariant.                               *)
LEMMA InitInv == Init => IInv
<1> SUFFICES ASSUME Init PROVE IInv OBVIOUS
<1>0. EntryNum \in Nat /\ WinSize \in Nat BY WinAssumption
<1>1. pending = <<>> /\ Len(pending) = 0 /\ out = <<>> /\ Len(out) = 0 BY DEF Init
<1>2. TypeOK
  <2>1. pending \in Seq(Entry) /\ out \in Seq(Frames) BY <1>1
  <2>2. unused \in 0..EntryNum /\ others \in 0..EntryNum BY <1>0 DEF Init
  <2>3. base \in Int BY DEF Init, NoPos
  <2> QED BY <2>1, <2>2, <2>3 DEF Init, TypeOK
<1>3. Synced /\ WindowInv /\ NoEntryLost /\ IndicateArrayBound /\ Settled
  BY <1>0, <1>1 DEF Init, Synced, WindowInv, NoEntryLost, IndicateArrayBound, Settled
<1>4. TimerCoherent BY <1>1 DEF Init, TimerCoherent
<1> QED BY <1>2, <1>3, <1>4 DEF IInv

(* A step that hands nothing up is in order and within the array.          *)
LEMMA NothingOut ==
    ASSUME out' = <<>>
    PROVE  InOrderStep /\ IndicateArrayBound' /\ out' \in Seq(Frames)
<1>1. Len(out') = 0 OBVIOUS
<1>2. WinSize \in Nat BY WinAssumption
<1> QED BY <1>1, <1>2 DEF InOrderStep, IndicateArrayBound

(* Taking a record from the unused list.                                   *)
LEMMA ResetInv == ASSUME IInv, ResetRxTsEntry PROVE IInv'
<1>1. pending = <<>> /\ ~timer BY DEF IInv, TimerCoherent, ResetRxTsEntry
<1>2. /\ admitted' = TRUE /\ indicateSeq' = NoSeq /\ timeoutSeq' = NoSeq
      /\ base' = NoPos /\ last' = NoPos /\ out' = <<>>
      /\ pending' = pending /\ unused' = unused /\ others' = others /\ timer' = timer
  BY DEF ResetRxTsEntry
<1>3. Len(pending') = 0 BY <1>1, <1>2
<1>4. TypeOK' BY <1>2, NothingOut DEF IInv, TypeOK, NoPos
<1>5. Synced' /\ WindowInv' /\ Settled' BY <1>2, <1>3 DEF Synced, WindowInv, Settled
<1>6. NoEntryLost' BY <1>2 DEF IInv, NoEntryLost
<1>7. TimerCoherent' BY <1>1, <1>2 DEF TimerCoherent
<1> QED BY <1>2, <1>4, <1>5, <1>6, <1>7, NothingOut DEF IInv

(* Giving a record back.                                                   *)
LEMMA RemoveInv == ASSUME IInv, RemoveTsEntry PROVE IInv'
<1>1. /\ admitted' = FALSE /\ timer' = FALSE /\ pending' = <<>>
      /\ unused' = unused + Len(pending) /\ out' = <<>>
      /\ indicateSeq' = indicateSeq /\ timeoutSeq' = timeoutSeq /\ base' = base /\ last' = last
      /\ others' = others
  BY DEF RemoveTsEntry
<1>2. Len(pending') = 0 /\ pending' \in Seq(Entry) BY <1>1
<1>3. unused' + others = EntryNum /\ unused' \in Nat /\ others \in Nat /\ EntryNum \in Nat
  <2>1. /\ unused \in Nat /\ others \in Nat /\ Len(pending) \in Nat
        /\ unused + Len(pending) + others = EntryNum
    BY InvFacts
  <2> QED BY <2>1, <1>1, WinAssumption
<1>4. TypeOK'
  <2>1. unused' \in 0..EntryNum /\ others \in 0..EntryNum
    <3>1. ASSUME NEW u \in Nat, NEW o \in Nat, NEW e \in Nat, u + o = e
          PROVE  u \in 0..e /\ o \in 0..e
      BY ONLY <3>1, u \in Nat, o \in Nat, e \in Nat
    <3> QED BY ONLY <3>1, <1>3
  <2>2. out' \in Seq(Frames) BY <1>1, NothingOut
  <2> QED BY <1>1, <1>2, <2>1, <2>2 DEF IInv, TypeOK
<1>5. Synced' BY <1>1, <1>2 DEF IInv, Synced
<1>6. WindowInv' BY <1>2 DEF WindowInv
<1>7. NoEntryLost' BY <1>1, <1>2, <1>3 DEF NoEntryLost
<1>8. TimerCoherent' BY <1>1 DEF TimerCoherent
<1>9. Settled' BY <1>1 DEF IInv, Settled
<1> QED BY <1>1, <1>4, <1>5, <1>6, <1>7, <1>8, <1>9, NothingOut DEF IInv

(* The other streams only move entries between the pool and their lists.   *)
LEMMA OthersInv == ASSUME IInv, OtherStreams PROVE IInv'
<1>0. /\ unused \in Nat /\ others \in Nat /\ Len(pending) \in Nat /\ EntryNum \in Nat
      /\ unused + Len(pending) + others = EntryNum
  BY InvFacts, WinAssumption
<1>1. /\ UNCHANGED <<admitted, indicateSeq, timeoutSeq, pending, timer, base, last>>
      /\ others' \in 0..(unused + others) /\ unused' = unused + others - others' /\ out' = <<>>
  BY DEF OtherStreams
<1>2. /\ others' \in 0..EntryNum /\ unused' \in 0..EntryNum
      /\ unused' + others' + Len(pending) = EntryNum
  <2>1. others' \in Nat /\ others' <= unused + others /\ unused' = unused + others - others'
    BY <1>0, <1>1
  <2>2. PICK u \in Nat, o \in Nat, o2 \in Nat, l \in Nat :
          u = unused /\ o = others /\ o2 = others' /\ l = Len(pending)
    BY <2>1, <1>0
  <2>3. /\ o2 <= u + o /\ u + l + o = EntryNum /\ unused' = u + o - o2 BY ONLY <2>1, <2>2, <1>0
  <2>4. EntryNum \in Nat BY ONLY <1>0
  <2>5. u + o - o2 \in 0..EntryNum /\ o2 \in 0..EntryNum /\ (u + o - o2) + o2 + l = EntryNum
    BY ONLY <2>3, <2>4, u \in Nat, o \in Nat, o2 \in Nat, l \in Nat
  <2> QED BY ONLY <2>2, <2>3, <2>5
<1>3. TypeOK' BY <1>1, <1>2, NothingOut DEF IInv, TypeOK
<1>4. Synced' /\ WindowInv' /\ TimerCoherent' /\ Settled'
  BY <1>1 DEF IInv, Synced, WindowInv, TimerCoherent, Settled
<1>5. NoEntryLost' BY <1>1, <1>2 DEF NoEntryLost
<1> QED BY <1>1, <1>3, <1>4, <1>5, NothingOut DEF IInv

(* A dropped frame.                                                        *)
LEMMA DropInv == ASSUME IInv, NEW n \in Frames, DropOld(n) PROVE IInv'
<1>1. /\ UNCHANGED <<admitted, indicateSeq, timeoutSeq, pending, unused, others, timer, base, last>>
      /\ out' = <<>>
  BY DropOldLemma
<1>2. TypeOK' BY <1>1, NothingOut DEF IInv, TypeOK
<1>3. Synced' /\ WindowInv' /\ NoEntryLost' /\ TimerCoherent' /\ Settled'
  BY <1>1 DEF IInv, Synced, WindowInv, NoEntryLost, TimerCoherent, Settled
<1> QED BY <1>1, <1>2, <1>3, NothingOut DEF IInv

(* Every step preserves the invariant and hands packets up in order.       *)
LEMMA StepInv == ASSUME IInv, Next PROVE IInv' /\ InOrderStep
<1>1. CASE ResetRxTsEntry
  BY <1>1, ResetInv, NothingOut DEF ResetRxTsEntry
<1>2. CASE RemoveTsEntry
  BY <1>2, RemoveInv, NothingOut DEF RemoveTsEntry
<1>o. CASE OtherStreams
  BY <1>o, OthersInv, NothingOut DEF OtherStreams
<1>3. CASE RxPktPendingTimeout
  <2>1. PICK c, b : /\ b \in Nat /\ Indicated(pending, b, unused, <<>>, c) /\ TimerStep(pending)
                    /\ base \in Nat /\ base <= b /\ admitted /\ admitted' = admitted
                    /\ others' = others
    BY <1>3, TimeoutLemma
  <2>2. /\ unused \in Nat /\ Len(pending) \in Nat /\ unused + Len(pending) + others = EntryNum
        /\ pending \in Seq(Entry)
    BY InvFacts, GoodFacts
  <2>3. pending # <<>> => Len(pending) > 0 BY <2>2
  <2>4. IInv' BY ONLY <2>1, <2>2, <2>3, IInv, IndicatedInv
  <2> QED BY <2>1, <2>4 DEF Indicated
<1>4. ASSUME NEW n \in Frames, DropOld(n) PROVE IInv' /\ InOrderStep
  BY <1>4, DropInv, DropOldLemma, NothingOut
<1>5. ASSUME NEW n \in Frames, AtWinStart(n) PROVE IInv' /\ InOrderStep
  <2>0. admitted /\ admitted' = admitted /\ others' = others BY <1>5 DEF AtWinStart, Arrives
  <2>1. PICK c, b : /\ b \in Nat /\ Indicated(pending, b, unused, <<n>>, c) /\ TimerStep(pending)
                    /\ base <= b
    BY <1>5, AtWinStartLemma
  <2>2. /\ unused \in Nat /\ Len(pending) \in Nat /\ unused + Len(pending) + others = EntryNum
        /\ pending \in Seq(Entry)
    BY InvFacts, GoodFacts
  <2>3. pending # <<>> => Len(pending) > 0 BY <2>2
  <2>4. IInv' BY ONLY <2>0, <2>1, <2>2, <2>3, IInv, IndicatedInv
  <2> QED BY <2>1, <2>4 DEF Indicated
<1>6. ASSUME NEW n \in Frames, Buffer(n) PROVE IInv' /\ InOrderStep
  <2>0. admitted /\ admitted' = admitted /\ others' = others BY <1>6 DEF Buffer, Arrives
  <2>1. PICK s, c, b, free :
             /\ b \in Nat /\ free \in Nat
             /\ Indicated(s, b, free, <<>>, c) /\ TimerStep(s) /\ base <= b
             /\ Len(s) \in Nat /\ free + Len(s) + others = EntryNum /\ (pending # <<>> => Len(s) > 0)
    BY <1>6, BufferLemma
  <2>2. IInv' BY ONLY <2>0, <2>1, IInv, IndicatedInv
  <2> QED BY <2>1, <2>2 DEF Indicated
<1> QED BY <1>1, <1>2, <1>o, <1>3, <1>4, <1>5, <1>6 DEF Next, RxReorderIndicatePacket

(* Stuttering preserves the invariant.                                     *)
LEMMA StutterInv == ASSUME IInv, UNCHANGED vars PROVE IInv'
BY DEF IInv, vars, TypeOK, Synced, WindowInv, NoEntryLost, TimerCoherent, IndicateArrayBound, Settled

(* The conjunction of all invariants is inductive: every handler of        *)
(* RxReorder preserves it.                                                 *)
THEOREM InvTheorem == Spec => []IInv
<1>1. IInv /\ [Next]_vars => IInv' BY StepInv, StutterInv
<1> QED BY InitInv, <1>1, PTL DEF Spec

(* The variables keep their types; RxIndicateSeq and RxTimeoutIndicateSeq  *)
(* stay 12-bit numbers or 0xffff.                                          *)
THEOREM TypeCorrect == Spec => []TypeOK
<1>1. IInv => TypeOK BY DEF IInv
<1> QED BY InvTheorem, <1>1, PTL

(* The 12-bit RxIndicateSeq and the buffered sequence numbers are the      *)
(* images of the true positions, across every wrap at 4096.                *)
THEOREM SyncedTheorem == Spec => []Synced
<1>1. IInv => Synced BY DEF IInv
<1> QED BY InvTheorem, <1>1, PTL

(* RxPendingPktList stays sorted, without duplicates and inside the        *)
(* receive window, although both its loops compare 12-bit numbers.         *)
THEOREM WindowTheorem == Spec => []WindowInv
<1>1. IInv => WindowInv BY DEF IInv
<1> QED BY InvTheorem, <1>1, PTL

(* No path of the handlers, the timer callback or RemoveTsEntry loses a    *)
(* reorder entry.                                                          *)
THEOREM EntryTheorem == Spec => []NoEntryLost
<1>1. IInv => NoEntryLost BY DEF IInv
<1> QED BY InvTheorem, <1>1, PTL

(* RxTimeoutIndicateSeq and the pending timer agree, and the timer never   *)
(* runs for an empty list or a removed stream.                             *)
THEOREM TimerTheorem == Spec => []TimerCoherent
<1>1. IInv => TimerCoherent BY DEF IInv
<1> QED BY InvTheorem, <1>1, PTL

(* One call hands up at most a window of packets, so prxbIndicateArray is  *)
(* never overrun, in RxPktPendingTimeout too, which does not test its      *)
(* bound before it writes.                                                 *)
THEOREM ArrayTheorem == Spec => []IndicateArrayBound
<1>1. IInv => IndicateArrayBound BY DEF IInv
<1> QED BY InvTheorem, <1>1, PTL

(* Frames go up in the order they were sent, each at most once, whatever   *)
(* the peer sends and whenever the timer fires.                            *)
THEOREM OrderTheorem == Spec => InOrder
<1>1. IInv /\ [Next]_vars => [InOrderStep]_vars BY StepInv
<1> QED BY InvTheorem, <1>1, PTL DEF Spec, InOrder

-----------------------------------------------------------------------------
(* The frames a handler had in hand: those of its list and the current one.*)
Held(s, first) == {s[j].n : j \in 1..Len(s)} \cup {first[j] : j \in 1..Len(first)}

(* The current packet lies before position b.                              *)
FirstBelow(first, b) == \A j \in 1..Len(first) : first[j] \in Nat /\ first[j] < b

(* Refinement.  A handler that ends as the lemmas describe is one advance  *)
(* of the abstract window over the frames it had in hand.                  *)
LEMMA AdvanceLemma ==
    ASSUME base \in Int, NEW s, NEW b \in Nat, NEW free, NEW first, NEW c, NEW B,
           Good(s), Indicated(s, b, free, first, c), base <= b,
           FirstBelow(first, b), B = Held(s, first)
    PROVE  W!Advance(B)
<1>1. c \in Nat /\ b <= c /\ base' = c BY DEF Indicated
<1>2. base' >= base BY <1>1
<1>3. \A j \in 1..Len(s) : s[j].n \in Nat BY GoodFacts
<1>4. \A j \in 1..Len(first) : first[j] \in Nat /\ first[j] < c BY <1>1 DEF FirstBelow
<1>a. B = {s[j].n : j \in 1..Len(s)} \cup {first[j] : j \in 1..Len(first)} BY DEF Held
<1>5. {out'[i] : i \in 1..Len(out')} = {m \in B : m < base'}
  <2>1. ASSUME NEW i \in 1..Len(out') PROVE out'[i] \in B /\ out'[i] < c
    <3>1. \/ \E j \in 1..Len(first) : out'[i] = first[j]
          \/ \E j \in 1..Len(s) : out'[i] = s[j].n /\ s[j].n < c
      BY DEF Indicated
    <3> QED BY <3>1, <1>4, <1>a
  <2>2. ASSUME NEW m \in B, m < c PROVE \E i \in 1..Len(out') : out'[i] = m
    <3>1. \/ \E j \in 1..Len(s) : m = s[j].n
          \/ \E j \in 1..Len(first) : m = first[j]
      BY <1>a
    <3>2. CASE \E j \in 1..Len(s) : m = s[j].n
      BY <2>2, <3>2 DEF Indicated
    <3>3. CASE \E j \in 1..Len(first) : m = first[j]
      BY <3>3 DEF Indicated
    <3> QED BY ONLY <3>1, <3>2, <3>3
  <2> QED BY <2>1, <2>2, <1>1
<1>6. {pending'[i].n : i \in 1..Len(pending')} = {m \in B : m >= base'}
  <2>1. ASSUME NEW i \in 1..Len(pending')
        PROVE  pending'[i].n \in B /\ pending'[i].n >= c
    <3>1. \E j \in 1..Len(s) : pending'[i].n = s[j].n BY DEF Indicated
    <3>2. c < pending'[i].n BY DEF Indicated, Ahead
    <3> QED BY <3>1, <3>2, <1>1, <1>3, <1>a
  <2>2. ASSUME NEW m \in B, m >= c PROVE \E i \in 1..Len(pending') : pending'[i].n = m
    <3>1. \/ \E j \in 1..Len(s) : m = s[j].n
          \/ \E j \in 1..Len(first) : m = first[j]
      BY <1>a
    <3>2. ~ \E j \in 1..Len(first) : m = first[j] BY <2>2, <1>1, <1>4
    <3>3. PICK j \in 1..Len(s) : m = s[j].n BY <3>1, <3>2
    <3>4. s[j].n >= c BY <2>2, <3>3
    <3>5. \E i \in 1..Len(pending') : pending'[i].n = s[j].n BY <3>4 DEF Indicated
    <3> QED BY <3>3, <3>5
  <2> QED BY <2>1, <2>2, <1>1
<1>7. \A m \in {pending'[i].n : i \in 1..Len(pending')} : base' < m /\ m < base' + WinSize
  BY <1>1 DEF Indicated, Ahead
<1> QED BY <1>2, <1>5, <1>6, <1>7 DEF W!Advance

(* Every step of the reorder buffer is a step of the abstract window.      *)
LEMMA StepRefines == ASSUME IInv, Next PROVE W!Next
<1> DEFINE Buf == {pending[i].n : i \in 1..Len(pending)}
<1> HIDE DEF Buf
<1>0. Good(pending) /\ Ahead(pending, base) /\ base \in Int BY InvFacts
<1>a. ASSUME NEW n, W!Receive(n), n \in Frames PROVE W!Next BY <1>a DEF W!Next
<1>1. CASE ResetRxTsEntry
  <2>1. pending' = <<>> /\ out' = <<>> /\ base' = NoPos
    BY <1>1 DEF IInv, TimerCoherent, ResetRxTsEntry
  <2>2. Len(pending') = 0 /\ Len(out') = 0 BY <2>1
  <2> QED BY <2>1, <2>2 DEF W!Next, W!Restart, W!NoPos, NoPos
<1>2. CASE RemoveTsEntry
  <2>1. pending' = <<>> /\ out' = <<>> /\ base' = base BY <1>2 DEF RemoveTsEntry
  <2>2. Len(pending') = 0 /\ Len(out') = 0 BY <2>1
  <2> QED BY <2>1, <2>2 DEF W!Next, W!Restart
<1>o. CASE OtherStreams
  <2>1. pending' = pending /\ out' = <<>> /\ base' = base BY <1>o DEF OtherStreams
  <2>2. Len(out') = 0 BY <2>1
  <2>3. {out'[i] : i \in 1..Len(out')} = {} BY <2>2
  <2>4. ASSUME NEW m \in Buf PROVE m \in Nat /\ base < m /\ m < base + WinSize
    BY <1>0, GoodFacts DEF Ahead, Buf
  <2>5. CASE indicateSeq = NoSeq
    <3>1. pending = <<>> /\ Len(pending) = 0 BY <2>5, InvFacts
    <3> QED BY <2>1, <2>3, <3>1 DEF W!Next, W!Restart
  <2>6. CASE indicateSeq # NoSeq
    <3>1. base \in Nat BY <2>6, InvFacts
    <3>2. {m \in Buf : m < base} = {} BY <3>1, <2>4
    <3>3. {m \in Buf : m >= base} = Buf BY <3>1, <2>4
    <3>4. {pending'[i].n : i \in 1..Len(pending')} = Buf BY <2>1 DEF Buf
    <3>5. W!Advance(Buf) BY <2>1, <2>3, <2>4, <3>1, <3>2, <3>3, <3>4 DEF W!Advance
    <3> QED BY <3>1, <3>5 DEF W!Next, W!Timeout, W!NoPos, Buf
  <2> QED BY <2>5, <2>6
<1>3. CASE RxPktPendingTimeout
  <2>1. PICK c, b : /\ b \in Nat /\ Indicated(pending, b, unused, <<>>, c)
                    /\ base \in Nat /\ base <= b
    BY <1>3, TimeoutLemma
  <2>2. PICK f : f = <<>> OBVIOUS
  <2>3. Len(f) = 0 BY <2>2
  <2>4. Buf = Held(pending, f) BY <2>3 DEF Held, Buf
  <2>5. W!Advance(Buf)
    <3>1. FirstBelow(f, b) BY <2>3 DEF FirstBelow
    <3>2. Indicated(pending, b, unused, f, c) BY <2>1, <2>2
    <3>3. PICK B : B = Buf OBVIOUS
    <3>4. W!Advance(B) BY ONLY <1>0, <2>1, <2>4, <3>1, <3>2, <3>3, AdvanceLemma
    <3> QED BY <3>3, <3>4 DEF W!Advance
  <2> QED BY <2>1, <2>5 DEF W!Next, W!Timeout, W!NoPos, Buf
<1>4. ASSUME NEW n \in Frames, DropOld(n) PROVE W!Next
  <2>1. pending' = pending /\ out' = <<>> /\ base' = base /\ indicateSeq # NoSeq
    BY <1>4, DropOldLemma
  <2>2. base \in Nat BY <2>1, InvFacts
  <2>3. Len(out') = 0 BY <2>1
  <2>4. ASSUME NEW m \in Buf PROVE m \in Nat /\ base < m /\ m < base + WinSize
    BY <1>0, GoodFacts DEF Ahead, Buf
  <2>5. W!Advance(Buf)
    <3>1. {m \in Buf : m < base} = {} BY <2>2, <2>4
    <3>2. {m \in Buf : m >= base} = Buf BY <2>2, <2>4
    <3>3. {out'[i] : i \in 1..Len(out')} = {} BY <2>3
    <3>4. {pending'[i].n : i \in 1..Len(pending')} = Buf BY <2>1 DEF Buf
    <3> QED BY <2>1, <2>2, <2>4, <3>1, <3>2, <3>3, <3>4 DEF W!Advance
  <2>6. W!Receive(n) BY <2>2, <2>5 DEF W!Receive, W!NoPos, Buf
  <2> QED BY <1>a, <2>6
<1>5. ASSUME NEW n \in Frames, AtWinStart(n) PROVE W!Next
  <2>0. n \in Nat BY FrameAssumption
  <2>1. PICK c, b : /\ b \in Nat /\ Indicated(pending, b, unused, <<n>>, c)
                    /\ b = n + 1 /\ base <= b
                    /\ \/ base = -1 /\ pending = <<>>
                       \/ base \in Nat /\ n = base
    BY <1>5, AtWinStartLemma
  <2>2. PICK f : f = <<n>> OBVIOUS
  <2>3. Len(f) = 1 /\ f[1] = n BY <2>2
  <2>4. Buf \cup {n} = Held(pending, f) BY <2>3 DEF Held, Buf
  <2>5. W!Advance(Buf \cup {n})
    <3>1. FirstBelow(f, b) BY <2>0, <2>1, <2>3 DEF FirstBelow
    <3>2. Indicated(pending, b, unused, f, c) BY <2>1, <2>2
    <3>3. PICK B : B = Buf \cup {n} OBVIOUS
    <3>4. W!Advance(B) BY ONLY <1>0, <2>1, <2>4, <3>1, <3>2, <3>3, AdvanceLemma
    <3> QED BY <3>3, <3>4 DEF W!Advance
  <2>6. CASE base \in Nat /\ n = base
    <3>1. W!Receive(n) BY <2>0, <2>5, <2>6 DEF W!Receive, W!NoPos, Buf
    <3> QED BY <1>a, <3>1
  <2>7. CASE base = -1 /\ pending = <<>>
    <3>1. Buf = {} /\ Len(pending) = 0 BY <2>7 DEF Buf
    <3>2. base' = n + 1
      <4>1. c \in Nat /\ b <= c /\ c <= b + Len(pending) /\ base' = c BY <2>1 DEF Indicated
      <4> QED BY ONLY <4>1, <3>1, <2>1, <2>0
    <3>3. {m \in Buf \cup {n} : m < base'} = {n} BY <2>0, <3>1, <3>2
    <3>4. {m \in Buf \cup {n} : m >= base'} = {} BY <2>0, <3>1, <3>2
    <3>5. W!First(n) BY <2>5, <2>7, <3>1, <3>2, <3>3, <3>4 DEF W!First, W!Advance, W!NoPos, Buf
    <3> QED BY <3>5 DEF W!Next
  <2> QED BY <2>1, <2>6, <2>7
<1>6. ASSUME NEW n \in Frames, Buffer(n) PROVE W!Next
  <2>1. PICK s, c, b, free :
             /\ b \in Nat /\ Indicated(s, b, free, <<>>, c)
             /\ base \in Nat /\ base <= b /\ n \in Nat /\ base <= n
             /\ s = pending \/ (Adds(s, pending, n) /\ Good(s))
    BY <1>6, BufferLemma
  <2>2. PICK f : f = <<>> OBVIOUS
  <2>3. Len(f) = 0 BY <2>2
  <2>4. Good(s) BY <1>0, <2>1
  <2>5. PICK B : B = {s[j].n : j \in 1..Len(s)} OBVIOUS
  <2>6. W!Advance(B)
    <3>1. FirstBelow(f, b) BY <2>3 DEF FirstBelow
    <3>2. Indicated(s, b, free, f, c) BY <2>1, <2>2
    <3>3. B = Held(s, f) BY <2>3, <2>5 DEF Held
    <3> QED BY ONLY <1>0, <2>1, <2>4, <3>1, <3>2, <3>3, AdvanceLemma
  <2>7. B = Buf \/ B = Buf \cup {n}
    <3>1. CASE s = pending BY <3>1, <2>5 DEF Buf
    <3>2. CASE Adds(s, pending, n)
      <4>1. ASSUME NEW i \in 1..Len(s) PROVE s[i].n \in Buf \cup {n} BY <3>2 DEF Adds, Buf
      <4>2. ASSUME NEW j \in 1..Len(pending) PROVE pending[j].n \in B BY <3>2, <2>5 DEF Adds
      <4>3. n \in B BY <3>2, <2>5 DEF Adds
      <4>4. B \subseteq Buf \cup {n} BY <4>1, <2>5
      <4>5. Buf \subseteq B BY <4>2 DEF Buf
      <4> QED BY <4>3, <4>4, <4>5
    <3> QED BY <2>1, <3>1, <3>2
  <2>8. W!Advance(Buf) \/ W!Advance(Buf \cup {n}) BY <2>6, <2>7 DEF W!Advance
  <2>9. W!Receive(n) BY <2>1, <2>8 DEF W!Receive, W!NoPos, Buf
  <2> QED BY <1>a, <2>9
<1> QED BY <1>1, <1>2, <1>o, <1>3, <1>4, <1>5, <1>6 DEF Next, RxReorderIndicatePacket

(* The reorder buffer with its 12-bit numbers implements the abstract      *)
(* ordered window (RxWindow), for every window and every peer.             *)
THEOREM Refinement == Spec => ImplementsWindow
<1>1. Init => W!Init
  <2> SUFFICES ASSUME Init PROVE W!Init OBVIOUS
  <2>1. Len(pending) = 0 /\ Len(out) = 0 BY DEF Init
  <2> QED BY <2>1 DEF Init, W!Init, W!NoPos, NoPos
<1>2. IInv /\ [Next]_vars => [W!Next]_W!vars
  <2>1. CASE Next BY <2>1, StepRefines
  <2>2. CASE UNCHANGED vars BY <2>2 DEF vars, W!vars
  <2> QED BY <2>1, <2>2
<1> QED BY InvTheorem, <1>1, <1>2, PTL DEF Spec, ImplementsWindow, W!Spec

-----------------------------------------------------------------------------
(* The loop: Drains has one outcome, and it is the loop's.                 *)

(* A set of natural numbers that is not empty has a least element.         *)
LEMMA NatMin ==
    ASSUME NEW T \in SUBSET Nat, T # {} PROVE \E x \in T : \A y \in T : x <= y
<1> DEFINE R == OpToRel(<, Nat)
<1>1. IsWellFoundedOn(R, Nat) BY NatLessThanWellFounded, Zenon
<1>2. \A x, y \in Nat : x < y => <<x, y>> \in R BY DEF OpToRel
<1> HIDE DEF R
<1>3. \E x \in T : \A y \in T : ~ (<<y, x>> \in R) BY <1>1, WFMin
<1>4. PICK x \in T : \A y \in T : ~ (<<y, x>> \in R) BY <1>3
<1>5. ASSUME NEW y \in T PROVE x <= y
  <2>1. x \in Nat /\ y \in Nat OBVIOUS
  <2>2. ~(y < x) BY <1>2, <1>4, <2>1
  <2> QED BY <2>1, <2>2
<1> QED BY <1>5

(* A number that has not moved.                                            *)
LEMMA ModSame == \A q \in SeqNums : (q + 0) % SnMod = q
<1> SUFFICES ASSUME NEW q \in SeqNums PROVE (q + 0) % SnMod = q OBVIOUS
<1>1. q \in Int /\ 0 <= q /\ q < 4096 BY SeqRange
<1>2. q + 0 = q /\ q % 4096 = q BY <1>1
<1> QED BY <1>2 DEF SnMod

(* One turn of the loop.                                                   *)
Turn(s, room, was, i) ==
    LET q == s[i].seq
    IN  IF was.taken = i - 1 /\ i <= room /\ (SN_LESS(q, was.ind) \/ q = was.ind)
        THEN [taken |-> i, ind |-> IF q = was.ind THEN (was.ind + 1) % SnMod ELSE was.ind]
        ELSE was

(* Where the loop is after i turns when it takes low old packets and then  *)
(* a run.                                                                  *)
TakenBy(i, low, run) == IF i <= low + run THEN i ELSE low + run
RunBy(i, low, run) == IF i <= low THEN 0 ELSE TakenBy(i, low, run) - low
After(i, ind, low, run) ==
    [taken |-> TakenBy(i, low, run), ind |-> (ind + RunBy(i, low, run)) % SnMod]

LEMMA TurnIs ==
    ASSUME NEW s \in Seq(Entry), NEW ind \in SeqNums, NEW room \in Nat,
           NEW low \in 0..Len(s), NEW run \in 0..Len(s), Drains(s, ind, room, low, run),
           NEW i \in 1..Len(s)
    PROVE  Turn(s, room, After(i - 1, ind, low, run), i) = After(i, ind, low, run)
<1> DEFINE q == s[i].seq
           was == After(i - 1, ind, low, run)
<1>1. Len(s) \in Nat /\ i \in Nat /\ low \in Nat /\ run \in Nat /\ low + run <= Len(s) /\ low + run <= room
  BY LenProperties DEF Drains
<1>2. q \in SeqNums
  <2>1. s[i] \in Entry BY ElementOfSeq
  <2> QED BY <2>1 DEF Entry
<1>3. ind \in Int /\ 0 <= ind /\ ind < 4096 /\ q \in Int /\ 0 <= q /\ q < 4096
  <2>1. ind \in Int /\ 0 <= ind /\ ind < 4096 BY ONLY ind \in SeqNums, SeqRange
  <2>2. q \in Int /\ 0 <= q /\ q < 4096 BY ONLY <1>2, SeqRange
  <2> QED BY ONLY <2>1, <2>2
<1>3a. ind \in Int BY ONLY ind \in SeqNums, SeqRange
<1>4. was = [taken |-> TakenBy(i - 1, low, run), ind |-> (ind + RunBy(i - 1, low, run)) % SnMod]
  BY DEF After
<1>5. CASE i <= low
  <2>1. TakenBy(i - 1, low, run) = i - 1 /\ RunBy(i - 1, low, run) = 0
    BY <1>1, <1>5 DEF TakenBy, RunBy
  <2>2. TakenBy(i, low, run) = i /\ RunBy(i, low, run) = 0
    BY <1>1, <1>5 DEF TakenBy, RunBy
  <2>3. SN_LESS(q, ind) BY <1>1, <1>5 DEF Drains
  <2>4. q # ind
    <3> SUFFICES ASSUME q = ind PROVE FALSE OBVIOUS
    <3>1. (q - ind) % SnMod = 0 BY <1>3 DEF SnMod
    <3>2. SnMod \div 2 = 2048 BY DEF SnMod
    <3> QED BY <2>3, <3>1, <3>2 DEF SN_LESS
  <2>5. (ind + 0) % SnMod = ind BY ModSame, Zenon
  <2>6. i <= room BY <1>1, <1>5
  <2>7. After(i, ind, low, run) = [taken |-> i, ind |-> ind] BY <2>2, <2>5 DEF After
  <2>8. was.taken = i - 1 /\ was.ind = ind BY <1>4, <2>1, <2>5
  <2> QED BY <2>3, <2>4, <2>6, <2>7, <2>8 DEF Turn
<1>6. CASE low < i /\ i <= low + run
  <2>1. PICK j \in 1..run : i = low + j
    <3>1. i - low \in 1..run /\ i = low + (i - low) BY <1>1, <1>6
    <3> QED BY <3>1
  <2>2. j \in Nat /\ 1 <= j BY <1>1
  <2>3. TakenBy(i - 1, low, run) = i - 1 /\ RunBy(i - 1, low, run) = j - 1
    BY <1>1, <1>6, <2>1, <2>2 DEF TakenBy, RunBy
  <2>4. TakenBy(i, low, run) = i /\ RunBy(i, low, run) = j
    BY <1>1, <1>6, <2>1, <2>2 DEF TakenBy, RunBy
  <2>5. q = (ind + j - 1) % SnMod BY <2>1 DEF Drains
  <2>5a. j \in Int /\ j - 1 \in Int BY ONLY <2>2
  <2>6. ind + j - 1 = ind + (j - 1) BY ONLY <1>3a, <2>5a, StepOne
  <2>7. (((ind + (j - 1)) % SnMod) + 1) % SnMod = (ind + j) % SnMod
    <3>1. (((ind + (j - 1)) % SnMod) + 1) % SnMod = ((ind + (j - 1)) + 1) % SnMod
      <4>1. ind + (j - 1) \in Int BY ONLY <1>3a, <2>5a
      <4>2. \A b \in Int : ((b % SnMod) + 1) % SnMod = (b + 1) % SnMod BY ONLY ModAdd
      <4> QED BY ONLY <4>1, <4>2
    <3>2. (ind + (j - 1)) + 1 = ind + j BY ONLY <1>3a, <2>5a, StepOne
    <3> QED BY ONLY <3>1, <3>2
  <2>8. was.taken = i - 1 /\ was.ind = q BY <1>4, <2>3, <2>5, <2>6
  <2>9. i <= room BY <1>1, <1>6
  <2>10. After(i, ind, low, run) = [taken |-> i, ind |-> (q + 1) % SnMod]
    BY <2>4, <2>5, <2>6, <2>7 DEF After
  <2> QED BY <2>8, <2>9, <2>10 DEF Turn
<1>7. CASE i > low + run
  <2>1. TakenBy(i - 1, low, run) = low + run /\ RunBy(i - 1, low, run) = run
    BY <1>1, <1>7 DEF TakenBy, RunBy
  <2>2. TakenBy(i, low, run) = low + run /\ RunBy(i, low, run) = run
    BY <1>1, <1>7 DEF TakenBy, RunBy
  <2>3. was = After(i, ind, low, run) BY <1>4, <2>1, <2>2 DEF After
  <2>4. was.taken = low + run /\ was.ind = (ind + run) % SnMod BY <1>4, <2>1
  <2>5. ~ (was.taken = i - 1 /\ i <= room /\ (SN_LESS(q, was.ind) \/ q = was.ind))
    <3>1. CASE i = low + run + 1
      <4>1. CASE i <= room
        <5>1. low + run < Len(s) /\ low + run < room BY <1>1, <3>1, <4>1
        <5> QED BY <5>1, <3>1, <2>4 DEF Drains
      <4>2. CASE ~(i <= room) BY <4>2
      <4> QED BY <4>1, <4>2
    <3>2. CASE i # low + run + 1 BY <3>2, <2>4, <1>1, <1>7
    <3> QED BY <3>1, <3>2
  <2>6. Turn(s, room, was, i) = was BY <2>5 DEF Turn
  <2> QED BY <2>3, <2>6
<1> QED BY <1>1, <1>5, <1>6, <1>7

(* The loop ends as Drains says.                                           *)
LEMMA LoopIs ==
    \A s \in Seq(Entry), ind \in SeqNums, room \in Nat :
        \A low, run \in 0..Len(s) : Drains(s, ind, room, low, run)
            => DrainLoop(s, ind, room) = [taken |-> low + run, ind |-> (ind + run) % SnMod]
<1> SUFFICES ASSUME NEW s \in Seq(Entry), NEW ind \in SeqNums, NEW room \in Nat,
                    NEW low \in 0..Len(s), NEW run \in 0..Len(s), Drains(s, ind, room, low, run)
             PROVE  DrainLoop(s, ind, room) = [taken |-> low + run, ind |-> (ind + run) % SnMod]
  OBVIOUS
<1> DEFINE turns == 0..Len(s)
           start == [taken |-> 0, ind |-> ind]
           V(i) == After(i, ind, low, run)
           after[i \in turns] == IF i = 0 THEN start ELSE Turn(s, room, after[i - 1], i)
           F(g) == [i \in turns |-> IF i = 0 THEN start ELSE Turn(s, room, g[i - 1], i)]
<1>1. Len(s) \in Nat /\ low \in Nat /\ run \in Nat /\ low + run <= Len(s)
      /\ ind \in Int /\ 0 <= ind /\ ind < 4096
  BY LenProperties DEF Drains, SeqNums, SnMod
<1>2. DrainLoop(s, ind, room) = after[Len(s)] BY DEF DrainLoop, Turn
<1>3. V(0) = start
  <2>1. TakenBy(0, low, run) = 0 /\ RunBy(0, low, run) = 0 BY <1>1 DEF TakenBy, RunBy
  <2>2. (ind + 0) % SnMod = ind BY ModSame, Zenon
  <2> QED BY <2>1, <2>2 DEF After
<1>4. \A i \in 1..Len(s) : Turn(s, room, V(i - 1), i) = V(i) BY TurnIs
<1> HIDE DEF V, start
<1>5. \E g : g = F(g)
  <2> DEFINE g == [i \in turns |-> V(i)]
  <2>1. ASSUME NEW i \in turns
        PROVE  V(i) = IF i = 0 THEN start ELSE Turn(s, room, g[i - 1], i)
    <3>1. CASE i = 0 BY <3>1, <1>3
    <3>2. CASE i # 0
      <4>1. i \in 1..Len(s) /\ i - 1 \in turns BY <3>2, <1>1
      <4>2. g[i - 1] = V(i - 1) BY <4>1
      <4> QED BY <3>2, <4>1, <4>2, <1>4
    <3> QED BY <3>1, <3>2
  <2>2. g = F(g) BY <2>1
  <2> QED BY <2>2
<1>6. after = F(after) BY <1>5
<1> HIDE DEF after
<1>7. \A i \in turns : after[i] = IF i = 0 THEN start ELSE Turn(s, room, after[i - 1], i)
  BY <1>6
<1>8. ASSUME NEW k \in turns, after[k] # V(k) PROVE FALSE
  <2> DEFINE T == {i \in turns : after[i] # V(i)}
  <2>1. T \in SUBSET Nat /\ T # {} BY <1>1, <1>8
  <2>2. PICK i \in T : \A j \in T : i <= j BY <2>1, NatMin
  <2>3. i # 0 BY <2>2, <1>3, <1>7
  <2>4. i \in 1..Len(s) /\ i - 1 \in turns /\ ~(i <= i - 1) BY <1>1, <2>2, <2>3
  <2>5. after[i - 1] = V(i - 1) BY <2>2, <2>4
  <2> QED BY <2>2, <2>3, <2>4, <2>5, <1>4, <1>7
<1>9. after[Len(s)] = V(Len(s)) BY <1>1, <1>8
<1>10. TakenBy(Len(s), low, run) = low + run /\ RunBy(Len(s), low, run) = run
  BY <1>1 DEF TakenBy, RunBy
<1> QED BY <1>2, <1>9, <1>10 DEF V, After

(* A good list is drained in some way from every window start about it.    *)
LEMMA DrainsSomehow ==
    ASSUME NEW s, Good(s), NEW b \in Int, Ahead(s, b), Len(s) < WinSize,
           NEW d \in 0..(WinSize + 1), NEW room \in Nat
    PROVE  \E low, run \in 0..Len(s) : Drains(s, (b + d) % SnMod, room, low, run)
<1> DEFINE c == b + d
           ind == c % SnMod
<1>1. PICK most \in Nat : most <= Len(s) /\ most <= room /\ (most < Len(s) => most = room)
  <2>1. Len(s) \in Nat BY GoodFacts
  <2>2. CASE Len(s) <= room BY <2>1, <2>2
  <2>3. CASE ~(Len(s) <= room) BY <2>1, <2>3
  <2> QED BY <2>2, <2>3
<1>2. Len(s) \in Nat /\ WinSize \in Int /\ 1 <= WinSize /\ WinSize <= 255
  BY WinAssumption, GoodFacts
<1>3. c \in Int /\ b <= c /\ c <= b + WinSize + 1 BY <1>2
<1> HIDE DEF c
<1>4. PICK low \in Nat :
        /\ low <= most /\ (low = most \/ ~SN_LESS(s[low + 1].seq, ind))
        /\ \A i \in 1..low : SN_LESS(s[i].seq, ind)
  <2> DEFINE T == {i \in 0..most : i = most \/ ~SN_LESS(s[i + 1].seq, ind)}
  <2>1. most \in T BY <1>1
  <2>1a. ASSUME NEW i \in T PROVE i \in Nat BY <1>1
  <2>2. T \in SUBSET Nat /\ T # {} BY <2>1, <2>1a, Zenon
  <2>3. PICK l \in T : \A j \in T : l <= j BY <2>2, NatMin
  <2>4. l \in Nat /\ l <= most /\ (l = most \/ ~SN_LESS(s[l + 1].seq, ind)) BY <1>1, <2>3
  <2>5. ASSUME NEW i \in 1..l PROVE SN_LESS(s[i].seq, ind)
    <3>1. i - 1 \in 0..most /\ i - 1 # most /\ ~(l <= i - 1) /\ (i - 1) + 1 = i BY <1>1, <2>4
    <3>2. i - 1 \notin T BY <2>3, <3>1
    <3> QED BY <3>1, <3>2
  <2> QED BY <2>4, <2>5
<1>5. PICK run \in Nat :
        /\ low + run <= most /\ (low + run = most \/ s[low + run + 1].seq # (ind + run) % SnMod)
        /\ \A j \in 1..run : s[low + j].seq = (ind + j - 1) % SnMod
  <2> DEFINE T == {r \in 0..(most - low) : r = most - low \/ s[low + r + 1].seq # (ind + r) % SnMod}
  <2>1. most - low \in T BY <1>1, <1>4
  <2>1a. ASSUME NEW i \in T PROVE i \in Nat BY <1>1, <1>4
  <2>2. T \in SUBSET Nat /\ T # {} BY <2>1, <2>1a, Zenon
  <2>3. PICK r \in T : \A j \in T : r <= j BY <2>2, NatMin
  <2>4. /\ r \in Nat /\ low + r <= most
        /\ low + r = most \/ s[low + r + 1].seq # (ind + r) % SnMod
    BY <1>1, <1>4, <2>3
  <2>5. ASSUME NEW j \in 1..r PROVE s[low + j].seq = (ind + j - 1) % SnMod
    <3>1. j - 1 \in 0..(most - low) /\ j - 1 # most - low /\ ~(r <= j - 1) BY <1>1, <1>4, <2>4
    <3>2. j - 1 \notin T BY <2>3, <3>1
    <3>3. s[low + (j - 1) + 1].seq = (ind + (j - 1)) % SnMod BY <3>1, <3>2
    <3>4. low + (j - 1) + 1 = low + j BY <1>4
    <3>5. ind + (j - 1) = ind + j - 1 BY <1>3 DEF SnMod
    <3> QED BY <3>3, <3>4, <3>5
  <2> QED BY <2>4, <2>5
<1>6. ASSUME low + run < Len(s), low + run < room
      PROVE  ~ (SN_LESS(s[low + run + 1].seq, (ind + run) % SnMod) \/ s[low + run + 1].seq = (ind + run) % SnMod)
  <2>1. low + run < most BY <1>1, <1>4, <1>5, <1>6
  <2>2. s[low + run + 1].seq # (ind + run) % SnMod BY <2>1, <1>5
  <2>3. PICK n : n = low + run + 1 OBVIOUS
  <2>4. n \in 1..Len(s) BY <2>3, <1>2, <1>4, <1>5, <1>6
  <2>5. s[n].n \in Nat /\ s[n].seq = s[n].n % SnMod BY <2>4, GoodFacts
  <2>6. b < s[n].n /\ s[n].n < b + WinSize BY <2>4 DEF Ahead
  <2>7. (ind + run) % SnMod = (c + run) % SnMod BY <1>3, ModAdd
  <2>8. run <= 254 BY <1>1, <1>2, <1>4, <1>5
  <2>9. -2048 <= s[n].n - (c + run) /\ s[n].n - (c + run) <= 2047
    <3>1. PICK x \in Int : x = s[n].n BY ONLY <2>5
    <3>2. b < x /\ x < b + WinSize BY ONLY <3>1, <2>6
    <3> QED BY ONLY <3>1, <3>2, <2>8, <1>2, <1>3, run \in Nat, b \in Int
  <2>10. ~ (s[n].n < c + run)
    <3>1. CASE run = 0
      <4>1. ~SN_LESS(s[n].seq, ind)
        <5>1. n = low + 1 /\ low # most BY <2>1, <2>3, <3>1, <1>4, <1>1
        <5> QED BY <5>1, <1>4
      <4>2. ~SN_LESS(s[n].n % SnMod, c % SnMod) BY <4>1, <2>5
      <4>3. -2048 <= s[n].n - c /\ s[n].n - c <= 2047 BY <2>9, <3>1, <1>3
      <4>4. ~(s[n].n < c) BY <4>2, <4>3, <2>5, <1>3, SnLess
      <4> QED BY <4>4, <3>1, <1>3
    <3>2. CASE run > 0
      <4>1. PICK m : m = low + run OBVIOUS
      <4>2. m \in 1..Len(s) /\ m <= n /\ n - m = 1
        BY ONLY <4>1, <2>3, <2>4, <3>2, <1>2, low \in Nat, run \in Nat
      <4>3. s[m].n \in Nat /\ s[m].seq = s[m].n % SnMod BY <4>2, GoodFacts
      <4>4. s[m].seq = (ind + run - 1) % SnMod
        <5>1. run \in 1..run BY <3>2
        <5>2. s[low + run].seq = (ind + run - 1) % SnMod BY <5>1, <1>5
        <5> QED BY <5>2, <4>1
      <4>5. (ind + run - 1) % SnMod = (c + (run - 1)) % SnMod
        <5>1. ind + run - 1 = ind + (run - 1) BY <1>3 DEF SnMod
        <5>2. (ind + (run - 1)) % SnMod = (c + (run - 1)) % SnMod BY <1>3, ModAdd
        <5> QED BY <5>1, <5>2
      <4>6. b < s[m].n /\ s[m].n < b + WinSize BY <4>2 DEF Ahead
      <4>7. -4096 < s[m].n - (c + (run - 1)) /\ s[m].n - (c + (run - 1)) < 4096
        <5>1. PICK x \in Int : x = s[m].n BY ONLY <4>3
        <5>2. b < x /\ x < b + WinSize BY ONLY <4>6, <5>1
        <5>3. -4096 < x - (c + (run - 1)) /\ x - (c + (run - 1)) < 4096
          BY ONLY <5>2, <2>8, <1>2, <1>3, run \in Nat, b \in Int
        <5> QED BY ONLY <5>1, <5>3
      <4>8. s[m].n = c + (run - 1)
        BY <4>3, <4>4, <4>5, <4>7, <1>3, ModInjective
      <4>9. s[n].n - s[m].n >= n - m BY <4>2, <2>4, GoodFacts
      <4>10. PICK x \in Int, y \in Int : x = s[n].n /\ y = s[m].n BY <2>5, <4>3
      <4>11. x - y >= 1 /\ y = c + (run - 1) BY <4>2, <4>8, <4>9, <4>10
      <4> QED BY <4>10, <4>11, <1>3
    <3> QED BY <3>1, <3>2
  <2>11. ~SN_LESS(s[n].n % SnMod, (c + run) % SnMod) BY <2>5, <2>9, <2>10, <1>3, SnLess
  <2> QED BY <2>2, <2>3, <2>5, <2>7, <2>11
<1>7. low \in 0..Len(s) /\ run \in 0..Len(s) /\ low + run <= Len(s) /\ low + run <= room
  BY <1>1, <1>2, <1>4, <1>5
<1>8. Drains(s, ind, room, low, run) BY <1>4, <1>5, <1>6, <1>7 DEF Drains
<1> QED BY <1>7, <1>8 DEF c

(* The while loop of RxReorderIndicatePacket ends in one way, the one that *)
(* Drains describes, from every list and window start that occur, and what *)
(* it hands up lies below the window start it leaves.                      *)
THEOREM LoopTheorem == Spec => []LoopSettles
<1>1. ASSUME IInv PROVE DrainsIsTheLoop
  <2> SUFFICES ASSUME NEW ind \in {(base + d) % SnMod : d \in 0..(WinSize + 1)},
                      NEW room \in 0..ArraySize
               PROVE  LET loop == DrainLoop(pending, ind, room)
                          outcomes == {p \in (0..Len(pending)) \X (0..Len(pending)) :
                                          Drains(pending, ind, room, p[1], p[2])}
                      IN  \E p \in outcomes :
                            /\ loop = [taken |-> p[1] + p[2], ind |-> (ind + p[2]) % SnMod]
                            /\ outcomes = {p}
    BY DEF DrainsIsTheLoop
  <2> DEFINE outcomes == {p \in (0..Len(pending)) \X (0..Len(pending)) :
                             Drains(pending, ind, room, p[1], p[2])}
  <2>0. PICK d \in 0..(WinSize + 1) : ind = (base + d) % SnMod OBVIOUS
  <2>1. /\ Good(pending) /\ Ahead(pending, base) /\ Len(pending) < WinSize /\ base \in Int
        /\ pending \in Seq(Entry) /\ Len(pending) \in Nat
        /\ WinSize \in Int /\ WinSize <= 255 /\ ArraySize \in Nat
    BY <1>1, InvFacts, GoodFacts, WinAssumption
  <2>2. room \in Nat /\ d \in Int BY <2>1
  <2>3. ind \in SeqNums BY <2>0, <2>1, <2>2, ModType
  <2>4. PICK low \in 0..Len(pending), run \in 0..Len(pending) : Drains(pending, ind, room, low, run)
    BY <2>0, <2>1, <2>2, DrainsSomehow
  <2>5. DrainLoop(pending, ind, room) = [taken |-> low + run, ind |-> (ind + run) % SnMod]
    BY <2>1, <2>2, <2>3, <2>4, LoopIs
  <2>6. ASSUME NEW l \in 0..Len(pending), NEW r \in 0..Len(pending), Drains(pending, ind, room, l, r)
        PROVE  l = low /\ r = run
    <3>1. DrainLoop(pending, ind, room) = [taken |-> l + r, ind |-> (ind + r) % SnMod]
      BY <2>1, <2>2, <2>3, <2>6, LoopIs
    <3>2. l + r = low + run /\ (ind + r) % SnMod = (ind + run) % SnMod BY <3>1, <2>5
    <3>3. ind \in Int BY <2>3 DEF SeqNums, SnMod
    <3>4. -4096 < (ind + r) - (ind + run) /\ (ind + r) - (ind + run) < 4096
      <4>1. Len(pending) \in Int /\ Len(pending) < 4096 BY ONLY <2>1
      <4>2. r \in Int /\ run \in Int /\ 0 <= r /\ r <= Len(pending) /\ 0 <= run /\ run <= Len(pending)
        BY ONLY <4>1, r \in 0..Len(pending), run \in 0..Len(pending)
      <4> QED BY ONLY <3>3, <4>1, <4>2, Offsets2
    <3>5. ind + r = ind + run BY <3>2, <3>3, <3>4, <2>1, ModInjective
    <3> QED BY <3>2, <3>3, <3>5, <2>1
  <2>7. <<low, run>> \in outcomes BY <2>4
  <2>8. outcomes = {<<low, run>>} BY <2>6, <2>7
  <2> QED BY <2>5, <2>7, <2>8
<1>2. IInv => LoopSettles BY <1>1 DEF IInv, LoopSettles
<1> QED BY InvTheorem, <1>2, PTL
=============================================================================
