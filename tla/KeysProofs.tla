------------------------------ MODULE KeysProofs ------------------------------
(***************************************************************************)
(* Proofs about keys.  First Cipher, one cipher object, for every width of *)
(* the counters, every number of keys and of frames.  Then KeyCache: the   *)
(* adapter's key table agrees with the cipher objects after every sequence *)
(* of calls, associations, restarts and silent resets, and on one          *)
(* processor no object is freed under an encryption or decryption, for     *)
(* every number of key indices, networks, objects and calls.               *)
(***************************************************************************)
EXTENDS KeyCache, Cipher, FiniteSetTheorems, TLAPS

USE DEF NoKey

(* What one key generation knows of itself.  The cached first phase of the *)
(* transmitter belongs to the current iv32.                                *)
TxCache == alg = "TKIP" /\ ~hw /\ tx.done => tx.ttak = <<key, tx.num[1]>>

(* The key streams used were made from smaller numbers than the next one;  *)
(* those of WEP from IVs at most so far behind the current one.            *)
Whole == Byte * Byte * Byte
UsedBehind ==
    /\ alg = "TKIP" => \A s \in used : \E n \in Tsc : s = StreamOf(key, n) /\ ~Leq(tx.num, n)
    /\ alg = "CCMP" => \A s \in used : \E n \in Tsc : s = StreamOf(key, n) /\ Leq(n, tx.num)
    /\ alg = "WEP" => \A s \in used : \E e \in Nat : /\ e <= (Cardinality(used) - 1) * (Byte + 1)
                                                     /\ s = <<key, (iv - e) % Whole>>

(* The last number seen is the highest one accepted, and no higher than    *)
(* the highest heard.                                                      *)
Window ==
    /\ alg = "WEP" => got = {} /\ taken = 0
    /\ ~hw => \A n \in got : Leq(n, rx.num)
    /\ (alg = "TKIP" /\ ~hw /\ ~rx.inited) => got = {} /\ rx.num = base
    /\ Leq(rx.num, heard)

(* The cached first phase of the receiver is the right one unless a newer  *)
(* iv32 was heard, after which no frame of the old one can be the newest.  *)
RxCache == (alg = "TKIP" /\ ~hw /\ rx.done /\ heard[1] = rx.num[1]) => rx.ttak = <<key, rx.num[1]>>

Finite == IsFiniteSet(got) /\ IsFiniteSet(used)

CipherInv == /\ CipherTypeOK /\ Finite /\ TxCache /\ UsedBehind /\ Window /\ RxCache
       /\ HeaderTells /\ AcceptedOnce
-----------------------------------------------------------------------------
(* Packet numbers.                                                         *)

LEMMA Pairs == ASSUME NEW a \in Tsc PROVE /\ a = <<a[1], a[2]>> /\ a[1] \in Nat /\ a[2] \in Nat
                                          /\ a[1] <= MaxHigh /\ a[2] < IvMod
BY CipherAssumption DEF Tsc

LEMMA MakePair ==
    ASSUME NEW x \in Nat, NEW y \in Nat, x <= MaxHigh, y < IvMod PROVE <<x, y>> \in Tsc
BY CipherAssumption DEF Tsc

(* Leq is a total order, and MaxTsc its maximum.                           *)
LEMMA Order ==
    ASSUME NEW a \in Tsc, NEW b \in Tsc
    PROVE  /\ Leq(a, a) /\ (Leq(a, b) \/ Leq(b, a))
           /\ (Leq(a, b) /\ Leq(b, a) => a = b)
           /\ MaxTsc(a, b) \in Tsc /\ Leq(a, MaxTsc(a, b)) /\ Leq(b, MaxTsc(a, b))
           /\ (MaxTsc(a, b) # a => ~Leq(b, a) /\ MaxTsc(a, b) = b)
BY Pairs DEF Leq, MaxTsc

LEMMA OrderTrans ==
    ASSUME NEW a \in Tsc, NEW b \in Tsc, NEW c \in Tsc, Leq(a, b), Leq(b, c) PROVE Leq(a, c)
BY Pairs DEF Leq

LEMMA OrderFirst == ASSUME NEW a \in Tsc, NEW b \in Tsc, Leq(a, b) PROVE a[1] <= b[1]
BY Pairs DEF Leq

LEMMA ModPlusOne == ASSUME NEW x \in Nat, x < IvMod PROVE (x + 1) % IvMod = IF x + 1 < IvMod THEN x + 1 ELSE 0
BY CipherAssumption

(* The carry makes the numbers grow.                                       *)
LEMMA Next16Grows ==
    ASSUME NEW n \in Tsc, n[1] < MaxHigh
    PROVE  /\ Next16(n) \in Tsc /\ ~Leq(Next16(n), n) /\ Leq(n, Next16(n))
           /\ (Next16(n)[2] # 0 => Next16(n)[1] = n[1])
<1> DEFINE lo == (n[2] + 1) % IvMod
<1>1. lo = IF n[2] + 1 < IvMod THEN n[2] + 1 ELSE 0 BY Pairs, ModPlusOne
<1>2. lo \in Nat /\ lo < IvMod /\ n[1] \in Nat /\ n[2] \in Nat BY <1>1, Pairs, CipherAssumption
<1>3. Next16(n) = <<IF lo = 0 THEN n[1] + 1 ELSE n[1], lo>> BY DEF Next16
<1> HIDE DEF lo
<1>4. Next16(n) \in Tsc BY <1>2, <1>3, MakePair, CipherAssumption
<1>5. Next16(n)[1] = (IF lo = 0 THEN n[1] + 1 ELSE n[1]) /\ Next16(n)[2] = lo BY <1>3
<1> QED BY <1>1, <1>2, <1>4, <1>5 DEF Leq

(* Quotients and remainders.                                               *)
LEMMA DivMod ==
    ASSUME NEW N \in Nat \ {0}, NEW x \in Int
    PROVE  /\ x % N \in 0 .. N - 1 /\ x \div N \in Int
           /\ x = N * (x \div N) + (x % N)
OBVIOUS

LEMMA Times == ASSUME NEW N \in Nat \ {0}, NEW d \in Int, d >= 1 PROVE N * d >= N
<1>1. N * (d - 1) >= 0 OBVIOUS
<1>2. N * d = N * (d - 1) + N OBVIOUS
<1> QED BY <1>1, <1>2

LEMMA Unique ==
    ASSUME NEW N \in Nat \ {0}, NEW q \in Int, NEW p \in Int, NEW r \in 0 .. N - 1, NEW s \in 0 .. N - 1,
           N * q + r = N * p + s
    PROVE  r = s /\ q = p
<1>1. N * (q - p) = s - r OBVIOUS
<1>2. ~(q - p >= 1)
  <2> SUFFICES ASSUME q - p >= 1 PROVE FALSE OBVIOUS
  <2>1. N * (q - p) >= N BY Times
  <2> QED BY <2>1, <1>1
<1>3. ~(p - q >= 1)
  <2> SUFFICES ASSUME p - q >= 1 PROVE FALSE OBVIOUS
  <2>1. N * (p - q) >= N BY Times
  <2>2. N * (p - q) = r - s BY <1>1
  <2> QED BY <2>1, <2>2
<1>4. q = p BY <1>2, <1>3
<1> QED BY <1>4, <1>1

LEMMA DivIs ==
    ASSUME NEW N \in Nat \ {0}, NEW x \in Int, NEW q \in Int, NEW r \in 0 .. N - 1, x = N * q + r
    PROVE  x % N = r /\ x \div N = q
BY DivMod, Unique

LEMMA ModSmall == ASSUME NEW N \in Nat \ {0}, NEW x \in 0 .. N - 1 PROVE x % N = x
<1>1. x = N * 0 + x OBVIOUS
<1> QED BY <1>1, DivIs

LEMMA ModShift ==
    ASSUME NEW N \in Nat \ {0}, NEW x \in Int, NEW y \in Int
    PROVE  ((x % N) + y) % N = (x + y) % N
<1> DEFINE a == x \div N  b == (x + y) \div N
<1>1. x % N \in 0 .. N - 1 /\ a \in Int /\ x = N * a + (x % N) BY DivMod
<1>2. (x + y) % N \in 0 .. N - 1 /\ b \in Int /\ x + y = N * b + ((x + y) % N)
  <2>1. x + y \in Int OBVIOUS
  <2> QED BY <2>1, DivMod
<1> HIDE DEF a, b
<1>3. N * (b - a) = N * b - N * a BY <1>1, <1>2
<1>4. (x % N) + y = N * (b - a) + ((x + y) % N)
  <2> DEFINE r == x % N  t == (x + y) % N  na == N * a  nb == N * b
  <2>1. r \in Int /\ t \in Int /\ na \in Int /\ nb \in Int /\ x = na + r /\ x + y = nb + t
    BY <1>1, <1>2
  <2> HIDE DEF r, t, na, nb
  <2>2. r + y = nb - na + t BY <2>1
  <2> QED BY <2>2, <1>3 DEF r, t, na, nb
<1>5. b - a \in Int /\ (x % N) + y \in Int BY <1>1, <1>2
<1> QED BY <1>2, <1>4, <1>5, DivIs

LEMMA ModInj ==
    ASSUME NEW N \in Nat \ {0}, NEW x \in Int, NEW y \in Int, x % N = y % N, x - y < N, y - x < N
    PROVE  x = y
<1> DEFINE a == x \div N  b == y \div N
<1>1. x % N \in 0 .. N - 1 /\ a \in Int /\ x = N * a + (x % N) BY DivMod
<1>2. y % N \in 0 .. N - 1 /\ b \in Int /\ y = N * b + (y % N) BY DivMod
<1> HIDE DEF a, b
<1>3. N * (a - b) = N * a - N * b BY <1>1, <1>2
<1>4. x - y = N * (a - b) BY <1>1, <1>2, <1>3
<1>5. ~(a - b >= 1)
  <2> SUFFICES ASSUME a - b >= 1 PROVE FALSE OBVIOUS
  <2>1. a - b \in Int BY <1>1, <1>2
  <2>2. N * (a - b) >= N BY <2>1, Times
  <2> QED BY <2>2, <1>4
<1>6. ~(b - a >= 1)
  <2> SUFFICES ASSUME b - a >= 1 PROVE FALSE OBVIOUS
  <2>1. b - a \in Int BY <1>1, <1>2
  <2>2. N * (b - a) >= N BY <2>1, Times
  <2>3. N * (b - a) = N * b - N * a BY <1>1, <1>2
  <2> QED BY <2>2, <2>3, <1>1, <1>2
<1>7. a = b BY <1>1, <1>2, <1>5, <1>6
<1> QED BY <1>1, <1>2, <1>7

(* Numbers and key streams correspond.                                     *)
LEMMA Streams ==
    ASSUME NEW k, NEW n \in Tsc, NEW m \in Tsc, StreamOf(k, n) = StreamOf(k, m) PROVE n = m
BY Pairs DEF StreamOf, tkip_mixing_phase1, tkip_mixing_phase2
-----------------------------------------------------------------------------
(* The private data right after a key was installed.                       *)
TxType == [num : Tsc, ttak : Ttak, done : BOOLEAN]
RxType == [num : Tsc, new : Tsc, inited : BOOLEAN, ttak : Ttak, done : BOOLEAN]

LEMMA NewTypes ==
    ASSUME NEW n \in Tsc, NEW first \in {0, 1}
    PROVE  NewTx(first) \in TxType /\ NewRx(n) \in RxType
<1>1. <<0, 0>> \in Tsc /\ <<0, 1>> \in Tsc BY MakePair, CipherAssumption
<1>2. NoTtak \in Ttak BY DEF Ttak
<1> QED BY <1>1, <1>2 DEF NewTx, NewRx, TxType, RxType

LEMMA InitInv == CipherInit => CipherInv
<1> SUFFICES ASSUME CipherInit PROVE CipherInv OBVIOUS
<1> USE CipherAssumption DEF CipherInit
<1>0. <<0, 0>> \in Tsc BY MakePair
<1>1. tx = NewTx(0) /\ rx = NewRx(<<0, 0>>) BY DEF rtllib_tkip_init, rtllib_ccmp_init
<1>2. iv \in Iv
  <2>1. 0 \in Iv BY DEF Iv
  <2> QED BY <2>1 DEF prism2_wep_init
<1>3. CipherTypeOK
  <2>1. tx \in TxType /\ rx \in RxType BY <1>0, <1>1, NewTypes
  <2> QED BY <1>0, <1>2, <2>1 DEF CipherTypeOK, TxType, RxType
<1>4. Finite /\ UsedBehind BY FS_EmptySet DEF Finite, UsedBehind
<1>5. TxCache /\ RxCache BY <1>1 DEF TxCache, RxCache, NewTx, NewRx
<1>6. Window BY <1>0, <1>1, Order DEF Window, NewRx
<1>7. HeaderTells BY DEF HeaderTells
<1>8. AcceptedOnce BY FS_EmptySet DEF AcceptedOnce
<1> QED BY <1>3, <1>4, <1>5, <1>6, <1>7, <1>8 DEF CipherInv

(* A key is installed or removed.                                          *)
LEMMA NewObjectInv ==
    ASSUME CipherInv, NEW k \in 0 .. keys', keys' \in 0 .. MaxKeys, NEW h \in BOOLEAN, NEW n \in Tsc, NEW first \in {0, 1},
           NewObject(alg, k, h, n, first), UNCHANGED iv
    PROVE  CipherInv'
<1> USE CipherAssumption DEF NewObject, CipherInv
<1>0. <<0, 0>> \in Tsc /\ <<0, 1>> \in Tsc BY MakePair
<1>3. CipherTypeOK'
  <2>1. tx' \in TxType /\ rx' \in RxType BY NewTypes
  <2> QED BY <2>1 DEF CipherTypeOK, TxType, RxType
<1>4. Finite' /\ UsedBehind' BY FS_EmptySet DEF Finite, UsedBehind
<1>5. TxCache' /\ RxCache' BY DEF TxCache, RxCache, NewTx, NewRx
<1>6. Window' BY Order DEF Window, NewRx
<1>7. HeaderTells' BY DEF HeaderTells
<1>8. AcceptedOnce' BY FS_EmptySet DEF AcceptedOnce
<1> QED BY <1>3, <1>4, <1>5, <1>6, <1>7, <1>8

LEMMA SetKeyInv == ASSUME CipherInv, SetKey PROVE CipherInv' /\ key' # key
<1>1. keys \in Nat /\ keys' = keys + 1 /\ keys' \in 0 .. MaxKeys /\ keys + 1 \in 0 .. keys' /\ key \in 0 .. keys
  BY CipherAssumption DEF SetKey, CipherInv, CipherTypeOK
<1>2. <<0, 0>> \in Tsc BY MakePair, CipherAssumption
<1>3. PICK h \in BOOLEAN, n \in Tsc, first \in {0, 1} : NewObject(alg, keys + 1, h, n, first) /\ UNCHANGED iv
  BY <1>2 DEF SetKey, rtllib_tkip_set_key, rtllib_ccmp_set_key, prism2_wep_set_key
<1>4. CipherInv' BY <1>1, <1>3, NewObjectInv
<1>5. key' = keys + 1 BY <1>3 DEF NewObject
<1> QED BY <1>1, <1>4, <1>5

LEMMA ClearKeyInv == ASSUME CipherInv, ClearKey PROVE CipherInv' /\ key' # key
<1>1. keys' = keys /\ keys' \in 0 .. MaxKeys /\ NoKey \in 0 .. keys' /\ hw \in BOOLEAN
  BY CipherAssumption DEF ClearKey, CipherInv, CipherTypeOK
<1>2. <<0, 0>> \in Tsc BY MakePair, CipherAssumption
<1>3. NewObject(alg, NoKey, hw, <<0, 0>>, 0) /\ UNCHANGED iv /\ key # NoKey BY DEF ClearKey
<1>4. CipherInv' BY <1>1, <1>2, <1>3, NewObjectInv
<1> QED BY <1>3, <1>4 DEF NewObject
-----------------------------------------------------------------------------
(* Transmission.  With TKIP the number in the header is the current one.   *)
CipherTypeParts ==
    /\ alg \in Algs /\ key \in 0 .. MaxKeys /\ key \in 0 .. keys /\ keys \in 0 .. MaxKeys /\ hw \in BOOLEAN
    /\ tx \in TxType /\ rx \in RxType /\ tx.num \in Tsc /\ rx.num \in Tsc
    /\ heard \in Tsc /\ base \in Tsc /\ got \subseteq Tsc /\ taken \in Nat

LEMMA Parts == ASSUME CipherInv PROVE CipherTypeParts
BY CipherAssumption DEF CipherTypeParts, CipherInv, CipherTypeOK, TxType, RxType

LEMMA TkipEncryptInv ==
    ASSUME CipherInv, rtllib_encrypt_fragment, rtllib_tkip_encrypt
    PROVE  CipherInv' /\ out'.stream \notin used
<1> DEFINE ttak == IF ~hw /\ ~tx.done THEN tkip_mixing_phase1(key, tx.num[1]) ELSE tx.ttak
           n == Next16(tx.num)
           s == IF hw THEN StreamOf(key, tx.num) ELSE tkip_mixing_phase2(ttak, tx.num[2])
<1>p. /\ alg = "TKIP" /\ tx' = [num |-> n, ttak |-> ttak, done |-> n[2] # 0]
      /\ out' = [num |-> tx.num, stream |-> s] /\ used' = used \cup {s}
      /\ UNCHANGED <<iv, alg, key, keys, hw, rx, res, got, taken, base, heard>>
      /\ tx.num[1] < MaxHigh
  BY DEF rtllib_encrypt_fragment, rtllib_tkip_encrypt, rxVars
<1>t. CipherTypeParts BY Parts
<1>n. n \in Tsc /\ ~Leq(n, tx.num) /\ Leq(tx.num, n) /\ (n[2] # 0 => n[1] = tx.num[1])
  BY <1>p, <1>t, Next16Grows DEF CipherTypeParts
<1>k. ~hw => ttak = <<key, tx.num[1]>>
  BY <1>p DEF CipherInv, TxCache, tkip_mixing_phase1
<1>s. s = StreamOf(key, tx.num)
  <2>1. CASE hw BY <2>1
  <2>2. CASE ~hw BY <2>2, <1>k DEF StreamOf, tkip_mixing_phase1, tkip_mixing_phase2
  <2> QED BY <2>1, <2>2
<1>y. ttak \in Ttak
  <2>1. tx.num[1] \in 0 .. MaxHigh BY <1>t, Pairs, CipherAssumption DEF CipherTypeParts
  <2>2. <<key, tx.num[1]>> \in Ttak BY <1>t, <2>1 DEF Ttak, CipherTypeParts
  <2> QED BY <1>t, <2>2 DEF CipherTypeParts, TxType, tkip_mixing_phase1
<1> HIDE DEF ttak, n, s
<1>1. CipherTypeOK'
  <2>1. tx' \in TxType BY <1>p, <1>n, <1>y DEF TxType
  <2> QED BY <1>p, <2>1 DEF CipherInv, CipherTypeOK, TxType
<1>2. Finite' BY <1>p, FS_AddElement DEF CipherInv, Finite
<1>3. TxCache'
  <2> SUFFICES ASSUME ~hw, n[2] # 0 PROVE ttak = <<key, n[1]>> BY <1>p DEF TxCache
  <2> QED BY <1>k, <1>n
<1>4. UsedBehind'
  <2> SUFFICES ASSUME NEW x \in used' PROVE \E m \in Tsc : x = StreamOf(key, m) /\ ~Leq(n, m)
    BY <1>p DEF UsedBehind
  <2>1. CASE x = s BY <2>1, <1>s, <1>n, <1>t DEF CipherTypeParts
  <2>2. CASE x \in used
    <3>1. PICK m \in Tsc : x = StreamOf(key, m) /\ ~Leq(tx.num, m) BY <2>2, <1>p DEF CipherInv, UsedBehind
    <3>2. ~Leq(n, m)
      <4> SUFFICES ASSUME Leq(n, m) PROVE FALSE OBVIOUS
      <4>1. Leq(tx.num, m) BY <1>n, <1>t, OrderTrans DEF CipherTypeParts
      <4> QED BY <3>1, <4>1
    <3> QED BY <3>1, <3>2
  <2> QED BY <2>1, <2>2, <1>p
<1>5. Window' /\ RxCache' /\ AcceptedOnce' BY <1>p DEF CipherInv, Window, RxCache, AcceptedOnce
<1>6. HeaderTells' BY <1>p, <1>s DEF HeaderTells
<1>7. s \notin used
  <2> SUFFICES ASSUME s \in used PROVE FALSE OBVIOUS
  <2>1. PICK m \in Tsc : s = StreamOf(key, m) /\ ~Leq(tx.num, m) BY <1>p DEF CipherInv, UsedBehind
  <2>2. m = tx.num BY <2>1, <1>s, <1>t, Streams DEF CipherTypeParts
  <2> QED BY <2>1, <2>2, <1>t, Order DEF CipherTypeParts
<1>8. out'.stream = s BY <1>p
<1> QED BY <1>1, <1>2, <1>3, <1>4, <1>5, <1>6, <1>7, <1>8 DEF CipherInv

(* With CCMP it is the next one.                                           *)
LEMMA CcmpEncryptInv ==
    ASSUME CipherInv, rtllib_encrypt_fragment, rtllib_ccmp_encrypt
    PROVE  CipherInv' /\ out'.stream \notin used
<1> DEFINE n == Next16(tx.num)  s == StreamOf(key, n)
<1>p. /\ alg = "CCMP" /\ tx' = [tx EXCEPT !.num = n]
      /\ out' = [num |-> n, stream |-> s] /\ used' = used \cup {s}
      /\ UNCHANGED <<iv, alg, key, keys, hw, rx, res, got, taken, base, heard>>
      /\ tx.num[1] < MaxHigh
  BY DEF rtllib_encrypt_fragment, rtllib_ccmp_encrypt, rxVars, ccmp_init_blocks
<1>t. CipherTypeParts BY Parts
<1>n. n \in Tsc /\ ~Leq(n, tx.num) /\ Leq(tx.num, n) BY <1>p, <1>t, Next16Grows DEF CipherTypeParts
<1> HIDE DEF n
<1>1. CipherTypeOK'
  <2>1. tx' \in TxType BY <1>p, <1>n, <1>t DEF TxType, CipherTypeParts
  <2> QED BY <1>p, <2>1 DEF CipherInv, CipherTypeOK, TxType
<1>2. Finite' BY <1>p, FS_AddElement DEF CipherInv, Finite
<1>3. TxCache' BY <1>p DEF TxCache
<1>m. tx'.num = n BY <1>p, <1>t DEF TxType, CipherTypeParts
<1>4. UsedBehind'
  <2> SUFFICES ASSUME NEW x \in used' PROVE \E m \in Tsc : x = StreamOf(key, m) /\ Leq(m, n)
    BY <1>p, <1>m DEF UsedBehind
  <2>1. CASE x = s BY <2>1, <1>n, Order
  <2>2. CASE x \in used
    <3>1. PICK m \in Tsc : x = StreamOf(key, m) /\ Leq(m, tx.num) BY <2>2, <1>p DEF CipherInv, UsedBehind
    <3>2. Leq(m, n) BY <3>1, <1>n, <1>t, OrderTrans DEF CipherTypeParts
    <3> QED BY <3>1, <3>2
  <2> QED BY <2>1, <2>2, <1>p
<1>5. Window' /\ RxCache' /\ AcceptedOnce' BY <1>p DEF CipherInv, Window, RxCache, AcceptedOnce
<1>6. HeaderTells' BY <1>p DEF HeaderTells
<1>7. s \notin used
  <2> SUFFICES ASSUME s \in used PROVE FALSE OBVIOUS
  <2>1. PICK m \in Tsc : s = StreamOf(key, m) /\ Leq(m, tx.num) BY <1>p DEF CipherInv, UsedBehind
  <2>2. m = n BY <2>1, <1>n, Streams
  <2> QED BY <2>1, <2>2, <1>n
<1> QED BY <1>1, <1>2, <1>3, <1>4, <1>5, <1>6, <1>7, <1>p DEF CipherInv

(* The IV of WEP moves past a weak value.                                  *)
LEMMA WeakSkipped ==
    ASSUME NEW v \in 0 .. Whole - 1, WeakIv(v)
    PROVE  v + Byte \in 0 .. Whole - 1 /\ ~WeakIv(v + Byte)
<1> DEFINE B == Byte  S == Byte * Byte  a == v \div S  q == v \div B
<1>0. B \in Nat \ {0} /\ B > 3 /\ S \in Nat \ {0} /\ v \in Int /\ S >= B /\ Whole = S * B /\ Whole \in Nat
  <2>1. B \in Nat /\ B > 3 BY CipherAssumption
  <2>2. B * B >= B /\ B * B \in Nat BY <2>1, Times
  <2> QED BY <2>1, <2>2 DEF Whole
<1>1. q % B = B - 1 /\ a % B \in 3 .. KLen - 1 BY DEF WeakIv, IvByte
<1>2. v = S * a + (v % S) /\ v % S \in 0 .. S - 1 /\ a \in Int BY <1>0, DivMod
<1>3. v = B * q + (v % B) /\ v % B \in 0 .. B - 1 /\ q \in Int BY <1>0, DivMod
<1>4. q = B * (q \div B) + (q % B) /\ q \div B \in Int BY <1>0, <1>3, DivMod
<1> HIDE DEF S, a, q, B
<1>5. a \in 0 .. B - 1
  <2>1. ~(a >= B)
    <3> SUFFICES ASSUME a >= B PROVE FALSE OBVIOUS
    <3>1. S * (a - B) >= 0 BY <1>0, <1>2
    <3>2. S * (a - B) = S * a - S * B BY <1>0, <1>2
    <3> QED BY <3>1, <3>2, <1>0, <1>2
  <2>2. ~(0 - a >= 1)
    <3> SUFFICES ASSUME 0 - a >= 1 PROVE FALSE OBVIOUS
    <3>1. 0 - a \in Int BY <1>2
    <3>2. S * (0 - a) >= S BY <3>1, <1>0, Times
    <3>3. S * (0 - a) = 0 - S * a BY <1>0, <1>2
    <3> QED BY <3>2, <3>3, <1>0, <1>2
  <2> QED BY <2>1, <2>2, <1>0, <1>2
<1>6. a % B = a BY <1>0, <1>5, ModSmall
<1>7. a + 1 <= B - 1 BY <1>0, <1>1, <1>5, <1>6, CipherAssumption DEF B
<1>8. v + B < Whole
  <2>1. S * (B - 1 - (a + 1)) >= 0 BY <1>0, <1>2, <1>7
  <2>2. S * (B - 1 - (a + 1)) = S * B - S * a - S - S BY <1>0, <1>2
  <2> QED BY <2>1, <2>2, <1>0, <1>2
<1>9. v + B \in 0 .. Whole - 1 BY <1>0, <1>8
<1>10. (v + B) \div B = q + 1
  <2>1. B * (q + 1) = B * q + B BY <1>0, <1>3
  <2>2. v + B = B * (q + 1) + (v % B) BY <2>1, <1>0, <1>3
  <2>3. v + B \in Int /\ q + 1 \in Int BY <1>0, <1>3
  <2> QED BY <2>2, <2>3, <1>0, <1>3, DivIs
<1>11. (q + 1) % B = 0
  <2> DEFINE p == q \div B
  <2>1. q + 1 = B * p + B BY <1>0, <1>1, <1>3, <1>4
  <2>2. p \in Int BY <1>4
  <2> HIDE DEF p
  <2>3. B * (p + 1) = B * p + B BY <1>0, <2>2
  <2>4. q + 1 = B * (p + 1) + 0 /\ q + 1 \in Int /\ p + 1 \in Int /\ 0 \in 0 .. B - 1
    BY <2>1, <2>2, <2>3, <1>0, <1>3
  <2> QED BY <2>4, <1>0, DivIs
<1>12. ((v + Byte) \div Byte) % Byte # Byte - 1 BY <1>0, <1>10, <1>11 DEF B
<1>13. ~WeakIv(v + Byte) BY <1>12 DEF WeakIv, IvByte
<1> QED BY <1>9, <1>13 DEF B

LEMMA WepEncryptInv ==
    ASSUME CipherInv, rtllib_encrypt_fragment, prism2_wep_encrypt
    PROVE  CipherInv' /\ out'.stream \notin used /\ ~WeakIv(iv')
<1> DEFINE v1 == (iv + 1) % Whole
           v  == IF WeakIv(v1) THEN (v1 + Byte) % Whole ELSE v1
           s  == <<key, v>>
           C  == Cardinality(used)
<1>p. /\ alg = "WEP" /\ iv' = v /\ out' = [num |-> <<0, v>>, stream |-> s] /\ used' = used \cup {s}
      /\ UNCHANGED <<tx, alg, key, keys, hw, rx, res, got, taken, base, heard>>
      /\ C < MaxSent
  BY DEF rtllib_encrypt_fragment, prism2_wep_encrypt, rxVars, Whole
<1>t. CipherTypeParts BY Parts
<1>0. Byte \in Nat /\ Byte > 3 /\ Whole \in Nat \ {0} /\ iv \in 0 .. Whole - 1 /\ MaxSent \in Nat
  <2>1. Byte \in Nat /\ Byte > 3 /\ MaxSent \in Nat BY CipherAssumption
  <2>2. Byte * Byte \in Nat \ {0} BY <2>1
  <2>3. (Byte * Byte) * Byte \in Nat \ {0} BY <2>1, <2>2
  <2> QED BY <2>1, <2>3 DEF Whole, CipherInv, CipherTypeOK, Iv
<1>1. v1 \in 0 .. Whole - 1 BY <1>0, DivMod
<1>2. v \in 0 .. Whole - 1 /\ ~WeakIv(v)
  <2>1. CASE WeakIv(v1)
    <3>1. v1 + Byte \in 0 .. Whole - 1 /\ ~WeakIv(v1 + Byte) BY <2>1, <1>1, WeakSkipped
    <3>2. (v1 + Byte) % Whole = v1 + Byte BY <3>1, <1>0, ModSmall
    <3> QED BY <2>1, <3>1, <3>2
  <2>2. CASE ~WeakIv(v1) BY <2>2, <1>1
  <2> QED BY <2>1, <2>2
<1>3. PICK g \in 1 .. Byte + 1 : v = (iv + g) % Whole
  <2>1. CASE WeakIv(v1)
    <3>1. iv + 1 \in Int /\ Byte \in Int BY <1>0
    <3>2. (v1 + Byte) % Whole = (iv + 1 + Byte) % Whole BY <3>1, <1>0, ModShift
    <3>3. iv + 1 + Byte = iv + (Byte + 1) /\ Byte + 1 \in 1 .. Byte + 1 BY <1>0
    <3> QED BY <2>1, <3>2, <3>3
  <2>2. CASE ~WeakIv(v1)
    <3>1. 1 \in 1 .. Byte + 1 BY <1>0
    <3> QED BY <2>2, <3>1
  <2> QED BY <2>1, <2>2
<1> HIDE DEF v1, v
<1>4. IsFiniteSet(used) /\ C \in Nat BY FS_CardinalityType DEF CipherInv, Finite
<1>5. ASSUME NEW x \in used
      PROVE  \E e \in Nat : /\ 1 <= e /\ e <= C * (Byte + 1) /\ e < Whole
                            /\ x = <<key, ((iv + g) - e) % Whole>> /\ x = <<key, (v - e) % Whole>>
  <2>1. PICK e \in Nat : e <= (C - 1) * (Byte + 1) /\ x = <<key, (iv - e) % Whole>>
    BY <1>p DEF CipherInv, UsedBehind
  <2>2. C * (Byte + 1) = (C - 1) * (Byte + 1) + (Byte + 1) BY <1>0, <1>4
  <2>3. e + g \in Nat /\ 1 <= e + g /\ (e + g) <= C * (Byte + 1)
    <3> DEFINE c == (C - 1) * (Byte + 1)
    <3>1. c \in Int BY <1>0, <1>4
    <3> HIDE DEF c
    <3> QED BY <2>1, <2>2, <3>1, <1>0 DEF c
  <2>4. C * (Byte + 1) < Whole
    <3>1. "WEP" \in Algs BY <1>p, <1>t DEF CipherTypeParts
    <3>2. MaxSent * (Byte + 1) <= Whole BY <3>1, WepAssumption DEF Whole
    <3>3. MaxSent * (Byte + 1) = C * (Byte + 1) + (MaxSent - C) * (Byte + 1) BY <1>0, <1>4
    <3>4. (MaxSent - C) * (Byte + 1) >= 1
      <4>1. MaxSent - C \in Int /\ MaxSent - C >= 1 /\ Byte + 1 \in Nat \ {0} BY <1>0, <1>4, <1>p
      <4>2. (Byte + 1) * (MaxSent - C) >= Byte + 1 BY <4>1, Times
      <4>3. (MaxSent - C) * (Byte + 1) = (Byte + 1) * (MaxSent - C) BY <4>1
      <4> QED BY <4>2, <4>3, <4>1, <1>0
    <3> DEFINE c == C * (Byte + 1)  d == (MaxSent - C) * (Byte + 1)  m == MaxSent * (Byte + 1)
    <3>5. c \in Int /\ d \in Int /\ m \in Int BY <1>0, <1>4
    <3>6. m <= Whole /\ m = c + d /\ d >= 1 BY <3>2, <3>3, <3>4
    <3> HIDE DEF c, d, m
    <3>7. c < Whole BY <3>5, <3>6, <1>0
    <3> QED BY <3>7 DEF c
  <2>5. iv - e = (iv + g) - (e + g) /\ iv + g \in Int /\ 0 - (e + g) \in Int BY <1>0
  <2>6. (v - (e + g)) % Whole = ((iv + g) - (e + g)) % Whole
    <3>1. (((iv + g) % Whole) + (0 - (e + g))) % Whole = ((iv + g) + (0 - (e + g))) % Whole
      BY <2>5, <1>0, ModShift
    <3>2. v \in Int BY <1>2
    <3>3. v + (0 - (e + g)) = v - (e + g) /\ (iv + g) + (0 - (e + g)) = (iv + g) - (e + g)
      BY <3>2, <2>5, <1>0
    <3> QED BY <3>1, <3>3, <1>3
  <2>7. e + g < Whole
    <3> DEFINE c == C * (Byte + 1)
    <3>1. c \in Int BY <1>0, <1>4
    <3>2. e + g <= c /\ c < Whole BY <2>3, <2>4
    <3> HIDE DEF c
    <3> QED BY <3>1, <3>2, <1>0, <2>3
  <2> QED BY <2>1, <2>3, <2>5, <2>6, <2>7
<1>6. s \notin used
  <2> SUFFICES ASSUME s \in used PROVE FALSE OBVIOUS
  <2>1. PICK e \in Nat : 1 <= e /\ e < Whole /\ s = <<key, ((iv + g) - e) % Whole>> BY <1>5
  <2>2. (iv + g) % Whole = ((iv + g) - e) % Whole BY <2>1, <1>3
  <2>3. iv + g \in Int /\ (iv + g) - e \in Int /\ (iv + g) - ((iv + g) - e) = e /\ ((iv + g) - e) - (iv + g) = 0 - e
    BY <1>0, <2>1
  <2>4. (iv + g) - ((iv + g) - e) < Whole /\ ((iv + g) - e) - (iv + g) < Whole BY <2>1, <2>3, <1>0
  <2>5. iv + g = (iv + g) - e BY <2>2, <2>3, <2>4, <1>0, ModInj
  <2> QED BY <2>5, <2>1, <2>3, <1>0
<1>7. Cardinality(used') = C + 1 /\ IsFiniteSet(used') BY <1>4, <1>6, <1>p, FS_AddElement
<1>8. UsedBehind'
  <2> SUFFICES ASSUME NEW x \in used'
               PROVE  \E e \in Nat : e <= (Cardinality(used') - 1) * (Byte + 1) /\ x = <<key, (v - e) % Whole>>
    BY <1>p DEF UsedBehind, Whole
  <2>0. Cardinality(used') - 1 = C BY <1>4, <1>7
  <2>1. CASE x = s
    <3>1. (v - 0) % Whole = v BY <1>0, <1>2, ModSmall
    <3>2. 0 <= C * (Byte + 1) BY <1>0, <1>4
    <3> QED BY <2>0, <2>1, <3>1, <3>2
  <2>2. CASE x \in used
    <3>1. PICK e \in Nat : e <= C * (Byte + 1) /\ x = <<key, (v - e) % Whole>> BY <1>5, <2>2
    <3> QED BY <2>0, <3>1
  <2> QED BY <2>1, <2>2, <1>p
<1>9. CipherTypeOK' BY <1>p, <1>2 DEF CipherInv, CipherTypeOK, Iv, Whole
<1>10. Finite' BY <1>p, <1>7 DEF CipherInv, Finite
<1>11. TxCache' /\ Window' /\ RxCache' /\ AcceptedOnce' /\ HeaderTells'
  BY <1>p DEF CipherInv, TxCache, Window, RxCache, AcceptedOnce, HeaderTells
<1> QED BY <1>p, <1>2, <1>6, <1>8, <1>9, <1>10, <1>11 DEF CipherInv
-----------------------------------------------------------------------------
(* Reception: only the receiver's part of the invariant can be disturbed.  *)
Same == UNCHANGED <<alg, key, keys, hw, base, tx, iv, out, used>>

(* What heard records of a received frame.                                 *)
Hears(f) == /\ heard' \in Tsc /\ Leq(heard, heard') /\ (f.good /\ key # NoKey => Leq(f.num, heard'))
            /\ (heard' # heard => f.good /\ ~Leq(f.num, heard))

LEMMA RxKept ==
    ASSUME CipherInv, Same, rx' \in RxType, heard' \in Tsc, Window', RxCache', AcceptedOnce', IsFiniteSet(got'),
           got' \subseteq Tsc, taken' \in Nat, res' \in {"none", "ok", "fragment", "replay", "icv", "mic", "nokey"}
    PROVE  CipherInv'
<1>1. CipherTypeOK' BY DEF CipherInv, Same, CipherTypeOK, RxType
<1>2. Finite' /\ TxCache' /\ UsedBehind' /\ HeaderTells'
  BY DEF CipherInv, Same, Finite, TxCache, UsedBehind, HeaderTells
<1> QED BY <1>1, <1>2 DEF CipherInv

(* A frame is refused and the last number seen stays.                      *)
LEMMA Refused ==
    ASSUME CipherInv, Same, NEW f \in Frames, Hears(f), rx' \in RxType, rx'.num = rx.num,
           rx.inited => rx'.inited, RxCache', NEW why \in {"ok", "fragment", "replay", "icv", "mic", "nokey"},
           Refuse(why)
    PROVE  CipherInv'
<1>1. CipherTypeParts BY Parts
<1>2. got' = got /\ taken' = taken /\ res' = why BY DEF Refuse
<1>3. Window'
  <2>1. Leq(rx'.num, heard') BY <1>1, OrderTrans DEF CipherTypeParts, Hears, CipherInv, Window
  <2>2. (alg = "TKIP" /\ ~hw /\ ~rx'.inited) => ~rx.inited OBVIOUS
  <2> QED BY <1>2, <2>1, <2>2 DEF CipherInv, Window, Same
<1>4. AcceptedOnce' BY <1>2 DEF CipherInv, AcceptedOnce, Same
<1>5. IsFiniteSet(got') /\ got' \subseteq Tsc /\ taken' \in Nat BY <1>1, <1>2 DEF CipherTypeParts, CipherInv, Finite
<1> QED BY <1>2, <1>3, <1>4, <1>5, RxKept DEF Hears

(* A frame is accepted: in software its number is a new one, and becomes   *)
(* the last one seen.                                                      *)
LEMMA Accepted ==
    ASSUME CipherInv, Same, NEW f \in Frames, Hears(f), rx' \in RxType, Accept(f), alg # "WEP", RxCache',
           Leq(rx'.num, heard'),
           ~hw => f.num \notin got /\ rx'.num = f.num /\ (\A n \in got : Leq(n, f.num)),
           alg = "TKIP" /\ ~hw => rx'.inited
    PROVE  CipherInv'
<1>1. CipherTypeParts BY Parts
<1>f. f.num \in Tsc BY DEF Frames
<1>2. got' = got \cup {f.num} /\ res' = "ok" /\ taken' = IF hw THEN taken ELSE taken + 1 BY DEF Accept
<1>3. Window' BY <1>2, <1>f, Order DEF CipherInv, Window, Same
<1>4. IsFiniteSet(got') /\ (f.num \notin got => Cardinality(got') = Cardinality(got) + 1)
  BY <1>2, FS_AddElement DEF CipherInv, Finite
<1>5. AcceptedOnce' BY <1>2, <1>4 DEF CipherInv, AcceptedOnce, Same
<1>6. got' \subseteq Tsc /\ taken' \in Nat BY <1>1, <1>2, <1>f DEF CipherTypeParts
<1> QED BY <1>2, <1>3, <1>4, <1>5, <1>6, RxKept DEF Hears

LEMMA HearsIs ==
    ASSUME CipherInv, NEW f \in Frames, rtllib_rx_frame_decrypt(f)
    PROVE  Hears(f) /\ Same
<1>1. CipherTypeParts BY Parts
<1>2. f.num \in Tsc BY DEF Frames
<1>3. Same BY DEF rtllib_rx_frame_decrypt, txVars, Same
<1>4. heard' = heard \/ (f.good /\ heard' = MaxTsc(heard, f.num)) BY DEF rtllib_rx_frame_decrypt
<1>5. key # NoKey => heard' = IF f.good THEN MaxTsc(heard, f.num) ELSE heard BY DEF rtllib_rx_frame_decrypt
<1> QED BY <1>1, <1>2, <1>3, <1>4, <1>5, Order DEF Hears, CipherTypeParts

(* Without a key nothing changes.  WEP decrypts what is undamaged.         *)
LEMMA PlainDecryptInv ==
    ASSUME CipherInv, NEW f \in Frames, rtllib_rx_frame_decrypt(f), key = NoKey \/ prism2_wep_decrypt(f)
    PROVE  CipherInv' /\ (heard' # heard => res' \notin {"replay", "icv"})
<1>1. CipherTypeParts /\ Hears(f) /\ Same BY Parts, HearsIs
<1>2. rx' = rx /\ (key = NoKey \/ alg = "WEP")
      /\ \E why \in {"ok", "fragment", "replay", "icv", "mic", "nokey"} : Refuse(why)
  BY DEF rtllib_rx_frame_decrypt, prism2_wep_decrypt
<1>3. RxCache'
  <2>1. CASE alg = "WEP" BY <1>1, <2>1 DEF RxCache, Same
  <2>2. CASE key = NoKey
    <3>1. heard' = heard BY <2>2 DEF rtllib_rx_frame_decrypt
    <3> QED BY <1>1, <1>2, <3>1 DEF CipherInv, RxCache, Same
  <2> QED BY <1>2, <2>1, <2>2
<1>4. CipherInv' BY <1>1, <1>2, <1>3, Refused DEF CipherTypeParts
<1>5. heard' # heard => res' \notin {"replay", "icv"}
  <2>1. CASE key = NoKey BY <2>1 DEF rtllib_rx_frame_decrypt
  <2>2. CASE prism2_wep_decrypt(f) BY <1>1, <2>2 DEF prism2_wep_decrypt, Refuse, Hears
  <2> QED BY <2>1, <2>2
<1> QED BY <1>4, <1>5

LEMMA CcmpDecryptInv ==
    ASSUME CipherInv, NEW f \in Frames, rtllib_rx_frame_decrypt(f), key # NoKey, rtllib_ccmp_decrypt(f)
    PROVE  CipherInv' /\ (heard' # heard => res' \notin {"replay", "icv"})
<1>1. CipherTypeParts /\ Hears(f) /\ Same /\ alg = "CCMP" BY Parts, HearsIs DEF rtllib_ccmp_decrypt
<1>f. f.num \in Tsc BY DEF Frames
<1>w. Leq(rx.num, heard) BY DEF CipherInv, Window
<1>2. RxCache' BY <1>1 DEF RxCache, Same
<1>3. CASE Leq(f.num, rx.num)
  <2>1. rx' = rx /\ Refuse("replay") BY <1>3 DEF rtllib_ccmp_decrypt
  <2>2. CipherInv' BY <1>1, <1>2, <2>1, Refused DEF CipherTypeParts
  <2>3. Leq(f.num, heard) BY <1>1, <1>f, <1>3, <1>w, OrderTrans DEF CipherTypeParts
  <2> QED BY <2>2, <2>3, <1>1 DEF Hears
<1>4. CASE ~Leq(f.num, rx.num) /\ ~f.good
  <2>1. rx' = rx /\ Refuse("icv") BY <1>4 DEF rtllib_ccmp_decrypt
  <2>2. CipherInv' BY <1>1, <1>2, <2>1, Refused DEF CipherTypeParts
  <2> QED BY <2>2, <1>1, <1>4 DEF Hears
<1>5. CASE ~Leq(f.num, rx.num) /\ f.good
  <2>1. Accept(f) /\ rx' = IF hw THEN rx ELSE [rx EXCEPT !.num = f.num] BY <1>5 DEF rtllib_ccmp_decrypt
  <2>2. rx' \in RxType /\ (~hw => rx'.num = f.num) /\ (hw => rx'.num = rx.num)
    BY <1>1, <1>f, <2>1 DEF CipherTypeParts, RxType
  <2>3. Leq(rx'.num, heard')
    <3>1. Leq(rx.num, heard') BY <1>1, <1>w, OrderTrans DEF CipherTypeParts, Hears
    <3>2. Leq(f.num, heard') BY <1>1, <1>5 DEF Hears
    <3> QED BY <2>2, <3>1, <3>2
  <2>4. ~hw => f.num \notin got /\ \A n \in got : Leq(n, f.num)
    <3> SUFFICES ASSUME ~hw PROVE f.num \notin got /\ \A n \in got : Leq(n, f.num) OBVIOUS
    <3>1. \A n \in got : Leq(n, rx.num) BY DEF CipherInv, Window
    <3>2. Leq(rx.num, f.num) BY <1>1, <1>f, <1>5, Order DEF CipherTypeParts
    <3> QED BY <1>1, <1>f, <1>5, <3>1, <3>2, OrderTrans DEF CipherTypeParts
  <2>5. CipherInv' BY <1>1, <1>2, <2>1, <2>2, <2>3, <2>4, Accepted
  <2> QED BY <2>1, <2>5 DEF Accept
<1> QED BY <1>3, <1>4, <1>5

(* The second half of TKIP, with the cache r: the MIC decides whether the  *)
(* number becomes the last one seen.                                       *)
LEMMA TkipDecryptedInv ==
    ASSUME CipherInv, NEW f \in Frames, Hears(f), Same, alg = "TKIP", key # NoKey, f.good,
           NEW r \in RxType, r.num = rx.num, rx.inited => r.inited, ~hw => r.inited,
           ~hw => r.ttak = <<key, f.num[1]>> /\ ~Leq(f.num, rx.num),
           TkipDecrypted(r, f)
    PROVE  CipherInv' /\ res' \notin {"replay", "icv"}
<1>t. CipherTypeParts BY Parts
<1>f. f.num \in Tsc BY DEF Frames
<1>w. Leq(rx.num, heard) BY DEF CipherInv, Window
<1>h. Leq(f.num, heard') /\ heard' \in Tsc /\ Leq(rx.num, heard')
  BY <1>t, <1>w, OrderTrans DEF Hears, CipherTypeParts
<1> DEFINE r1 == [r EXCEPT !.new = f.num]
<1>1. r1 \in RxType /\ r1.num = rx.num /\ r1.inited = r.inited /\ r1.ttak = r.ttak /\ r1.new = f.num
  BY <1>f DEF RxType
<1>2. CASE f.whole /\ f.mic
  <2>1. rx' = [r1 EXCEPT !.num = r1.new] /\ Accept(f) BY <1>2 DEF TkipDecrypted, rtllib_michael_mic_verify
  <2> HIDE DEF r1
  <2>2. rx' \in RxType /\ rx'.num = f.num /\ rx'.inited = r1.inited /\ rx'.ttak = r1.ttak
    BY <1>1, <1>f, <2>1 DEF RxType
  <2>3. RxCache' BY <2>2, <1>1 DEF RxCache, Same
  <2>4. ~hw => f.num \notin got /\ \A n \in got : Leq(n, f.num)
    <3> SUFFICES ASSUME ~hw PROVE f.num \notin got /\ \A n \in got : Leq(n, f.num) OBVIOUS
    <3>1. \A n \in got : Leq(n, rx.num) BY DEF CipherInv, Window
    <3>2. Leq(rx.num, f.num) BY <1>t, <1>f, Order DEF CipherTypeParts
    <3> QED BY <1>t, <1>f, <3>1, <3>2, OrderTrans DEF CipherTypeParts
  <2>5. CipherInv' BY <1>1, <1>h, <2>1, <2>2, <2>3, <2>4, Accepted
  <2> QED BY <2>1, <2>5 DEF Accept
<1>3. CASE ~(f.whole /\ f.mic)
  <2>1. rx' = r1 /\ \E why \in {"mic", "fragment"} : Refuse(why)
    BY <1>3 DEF TkipDecrypted, rtllib_michael_mic_verify
  <2> HIDE DEF r1
  <2>2. RxCache'
    <3> SUFFICES ASSUME ~hw, heard'[1] = rx.num[1] PROVE r.ttak = <<key, rx.num[1]>>
      BY <1>1, <2>1 DEF RxCache, Same
    <3>1. Leq(rx.num, f.num) BY <1>t, <1>f, Order DEF CipherTypeParts
    <3>2. rx.num[1] <= f.num[1] /\ f.num[1] <= heard'[1] BY <3>1, <1>t, <1>f, <1>h, OrderFirst DEF CipherTypeParts
    <3>3. f.num[1] = rx.num[1] BY <3>2, <1>t, <1>f, Pairs DEF CipherTypeParts
    <3> QED BY <3>3
  <2>3. PICK why \in {"mic", "fragment"} : Refuse(why) BY <2>1
  <2>4. rx' \in RxType /\ rx'.num = rx.num /\ (rx.inited => rx'.inited) BY <1>1, <2>1
  <2>5. CipherInv' BY <2>2, <2>3, <2>4, Refused
  <2> QED BY <2>3, <2>5 DEF Refuse
<1> QED BY <1>2, <1>3

LEMMA TkipDecryptInv ==
    ASSUME CipherInv, NEW f \in Frames, rtllib_rx_frame_decrypt(f), key # NoKey, rtllib_tkip_decrypt(f)
    PROVE  CipherInv' /\ (heard' # heard => res' \notin {"replay", "icv"})
<1>1. CipherTypeParts /\ Hears(f) /\ Same /\ alg = "TKIP" BY Parts, HearsIs DEF rtllib_tkip_decrypt
<1>f. f.num \in Tsc /\ f.good \in BOOLEAN BY DEF Frames
<1>w. Leq(rx.num, heard) BY DEF CipherInv, Window
<1>2. CASE hw
  <2>1. f.good /\ TkipDecrypted(rx, f) BY <1>2 DEF rtllib_rx_frame_decrypt, rtllib_tkip_decrypt
  <2> QED BY <1>1, <1>2, <2>1, TkipDecryptedInv DEF CipherTypeParts
<1>3. CASE ~hw /\ TkipReplay(f)
  <2>1. rx' = rx /\ Refuse("replay") BY <1>3 DEF rtllib_tkip_decrypt
  <2>2. Leq(f.num, heard)
    <3>1. Leq(f.num, rx.num) BY <1>3 DEF TkipReplay
    <3> QED BY <1>1, <1>f, <1>w, <3>1, OrderTrans DEF CipherTypeParts
  <2>3. heard' = heard BY <1>1, <2>2 DEF Hears
  <2>4. RxCache' BY <2>1, <2>3, <1>1 DEF CipherInv, RxCache, Same
  <2>5. CipherInv' BY <1>1, <2>1, <2>4, Refused DEF CipherTypeParts
  <2> QED BY <2>3, <2>5
<1>4. CASE ~hw /\ ~TkipReplay(f)
  <2> DEFINE ttak == TkipPhase1(f)
             right == tkip_mixing_phase2(ttak, f.num[2]) = StreamOf(key, f.num)
  <2>0. f.num[1] \in 0 .. MaxHigh /\ rx.num[1] \in Nat /\ heard[1] \in Nat /\ f.num[1] \in Nat
    BY <1>f, <1>1, Pairs, CipherAssumption DEF CipherTypeParts
  <2>1. ttak \in Ttak
    <3>1. <<key, f.num[1]>> \in Ttak BY <1>1, <2>0 DEF Ttak, CipherTypeParts
    <3> QED BY <1>1, <3>1 DEF TkipPhase1, tkip_mixing_phase1, CipherTypeParts, RxType
  <2>2. right <=> ttak = <<key, f.num[1]>>
    BY DEF StreamOf, tkip_mixing_phase1, tkip_mixing_phase2
  <2>3. f.num[1] = rx.num[1] /\ heard[1] = rx.num[1] => ttak = <<key, f.num[1]>>
    BY <1>1, <1>4 DEF TkipPhase1, tkip_mixing_phase1, CipherInv, RxCache
  <2>4. f.num[1] # rx.num[1] => ttak = <<key, f.num[1]>> BY DEF TkipPhase1, tkip_mixing_phase1
  <2> HIDE DEF ttak
  <2>5. f.good => ~Leq(f.num, rx.num)
    <3>1. CASE rx.inited BY <1>4, <3>1 DEF TkipReplay
    <3>2. CASE ~rx.inited
      <4>1. rx.num = base BY <1>1, <1>4, <3>2 DEF CipherInv, Window
      <4> QED BY <1>1, <4>1 DEF rtllib_rx_frame_decrypt
    <3> QED BY <3>1, <3>2
  <2>6. CASE f.good /\ right
    <3> DEFINE r == [rx EXCEPT !.inited = TRUE, !.ttak = ttak, !.done = TRUE]
    <3>1. TkipDecrypted(r, f) BY <1>4, <2>6 DEF rtllib_tkip_decrypt, ttak
    <3>2. r \in RxType /\ r.num = rx.num /\ r.inited /\ r.ttak = ttak BY <1>1, <2>1 DEF RxType, CipherTypeParts
    <3> HIDE DEF r
    <3> QED BY <1>1, <1>4, <2>2, <2>5, <2>6, <3>1, <3>2, TkipDecryptedInv
  <2>7. CASE ~(f.good /\ right)
    <3>1. TkipIcvError(f, ttak) BY <1>4, <2>7 DEF rtllib_tkip_decrypt, ttak
    <3>2. /\ rx' = [rx EXCEPT !.inited = TRUE, !.ttak = ttak, !.done = (f.num[1] = rx.num[1])]
          /\ Refuse("icv")
      BY <3>1 DEF TkipIcvError
    <3>3. rx' \in RxType /\ rx'.num = rx.num /\ rx'.inited /\ rx'.ttak = ttak /\ rx'.done = (f.num[1] = rx.num[1])
      BY <1>1, <2>1, <3>2 DEF RxType, CipherTypeParts
    <3>4. heard' = heard
      <4> SUFFICES ASSUME f.good, ~right, ~Leq(f.num, heard) PROVE FALSE BY <1>1, <2>7 DEF Hears
      <4>1. f.num[1] = rx.num[1] /\ heard[1] # rx.num[1] BY <2>2, <2>3, <2>4
      <4>2. Leq(heard, f.num) BY <1>1, <1>f, Order DEF CipherTypeParts
      <4>3. rx.num[1] <= heard[1] /\ heard[1] <= f.num[1] BY <4>2, <1>1, <1>f, <1>w, OrderFirst DEF CipherTypeParts
      <4> QED BY <4>1, <4>3, <2>0
    <3>5. RxCache' BY <2>3, <3>3, <3>4, <1>1 DEF RxCache, Same
    <3>6. CipherInv' BY <1>1, <3>2, <3>3, <3>5, Refused
    <3> QED BY <3>4, <3>6
  <2> QED BY <2>6, <2>7
<1> QED BY <1>2, <1>3, <1>4

(* A step keeps the invariant, uses no key stream twice, skips weak IVs    *)
(* and decrypts the newest frame.                                          *)
LEMMA NextInv ==
    ASSUME CipherInv, [CipherNext]_cipherVars
    PROVE  /\ CipherInv'
           /\ (out' # out /\ key' = key) => /\ out'.stream \notin used
                                            /\ alg = "WEP" => ~WeakIv(iv')
           /\ (heard' # heard /\ key' = key) => res' \notin {"replay", "icv"}
<1>1. CASE SetKey BY <1>1, SetKeyInv
<1>2. CASE ClearKey BY <1>2, ClearKeyInv
<1>3. CASE rtllib_encrypt_fragment
  <2>1. heard' = heard BY <1>3 DEF rtllib_encrypt_fragment, rxVars
  <2>2. CASE rtllib_tkip_encrypt
    <3>1. alg = "TKIP" BY <2>2 DEF rtllib_tkip_encrypt
    <3> QED BY <1>3, <2>1, <2>2, <3>1, TkipEncryptInv
  <2>3. CASE rtllib_ccmp_encrypt
    <3>1. alg = "CCMP" BY <2>3 DEF rtllib_ccmp_encrypt
    <3> QED BY <1>3, <2>1, <2>3, <3>1, CcmpEncryptInv
  <2>4. CASE prism2_wep_encrypt BY <1>3, <2>1, <2>4, WepEncryptInv
  <2> QED BY <1>3, <2>2, <2>3, <2>4 DEF rtllib_encrypt_fragment
<1>4. CASE \E f \in Frames : rtllib_rx_frame_decrypt(f)
  <2>1. PICK f \in Frames : rtllib_rx_frame_decrypt(f) BY <1>4
  <2>2. out' = out BY <2>1 DEF rtllib_rx_frame_decrypt, txVars
  <2>3. CASE key = NoKey \/ prism2_wep_decrypt(f) BY <2>1, <2>2, <2>3, PlainDecryptInv
  <2>4. CASE key # NoKey /\ rtllib_ccmp_decrypt(f) BY <2>1, <2>2, <2>4, CcmpDecryptInv
  <2>5. CASE key # NoKey /\ rtllib_tkip_decrypt(f) BY <2>1, <2>2, <2>5, TkipDecryptInv
  <2> QED BY <2>1, <2>3, <2>4, <2>5 DEF rtllib_rx_frame_decrypt
<1>5. CASE UNCHANGED cipherVars
  BY <1>5 DEF cipherVars, CipherInv, CipherTypeOK, Finite, TxCache, UsedBehind, Window, RxCache, HeaderTells, AcceptedOnce
<1> QED BY <1>1, <1>2, <1>3, <1>4, <1>5 DEF CipherNext

(* The key stream of a frame is the one its header announces, also where   *)
(* iv16 wraps, and software decryption accepts no number twice: for every  *)
(* width of the counters (rtllib_tkip_encrypt, rtllib_tkip_decrypt,        *)
(* rtllib_michael_mic_verify, rtllib_ccmp_decrypt).                        *)
THEOREM NumbersAlwaysAgree == CipherSpec => []NumbersAgree
<1>1. CipherInit => CipherInv BY InitInv
<1>2. CipherInv /\ [CipherNext]_cipherVars => CipherInv' BY NextInv
<1>3. CipherInv => NumbersAgree BY DEF CipherInv, NumbersAgree
<1> QED BY <1>1, <1>2, <1>3, PTL DEF CipherSpec

(* No key stream is used twice with one key, WEP skips the weak IVs, and a *)
(* frame newer than every one heard before is neither taken for a replay   *)
(* nor mixed with a stale first phase (rtllib_tkip_encrypt,                *)
(* rtllib_ccmp_encrypt, prism2_wep_encrypt, rtllib_tkip_decrypt).          *)
THEOREM StreamsAlwaysFit == CipherSpec => StreamsFit
<1>1. CipherInit => CipherInv BY InitInv
<1>2. CipherInv /\ [CipherNext]_cipherVars => CipherInv' BY NextInv
<1>3. CipherInv /\ [CipherNext]_cipherVars =>
        [(out' # out /\ key' = key) => /\ out'.stream \notin used
                                       /\ alg = "WEP" => ~WeakIv(iv')]_cipherVars
  BY NextInv
<1>4. CipherInv /\ [CipherNext]_cipherVars =>
        [(heard' # heard /\ key' = key) => res' \notin {"replay", "icv"}]_cipherVars
  BY NextInv
<1> QED BY <1>1, <1>2, <1>3, <1>4, PTL DEF CipherSpec, StreamsFit, FreshStream, NewestDecrypts
-----------------------------------------------------------------------------
(* KeyCache.                                                               *)

(* A reference is counted exactly while a frame is in the cipher's hands.  *)
Refs == \A o \in Objs : refcnt[o] = IF user.st = "busy" /\ user.o = o THEN 1 ELSE 0

(* The object of a key index is not free memory and is not retired, no two *)
(* indices share one, and a retired one is not free memory either.         *)
Held ==
    /\ \A i \in Index : crypt[i] # None => obj[crypt[i]] # None /\ crypt[i] \notin retired
    /\ \A i, j \in Index : i # j /\ crypt[i] # None => crypt[i] # crypt[j]
    /\ \A o \in retired : obj[o] # None

LeapIsOdd == leap => odd

(* What swcamtable holds once the call that is under way has ended.        *)
NewKey(e) == IF late # <<>> /\ late[1] = e THEN late[2] ELSE swcam[e]

(* swcamtable has every key, under the entry the reset will look at.       *)
SoftHolds ==
    ~odd => \A i \in Index : crypt[i] # None =>
        /\ NewKey(EntryOf(i)) # None
        /\ NewKey(EntryOf(i)).key = obj[crypt[i]].key
        /\ NewKey(EntryOf(i)).type \in Wpa <=> obj[crypt[i]].alg \in Wpa

(* So has the CAM, unless a reset has emptied it and not yet filled it.    *)
CamHolds ==
    ~odd /\ reset = "no" => \A i \in Index : crypt[i] # None =>
        /\ cam[EntryOf(i)] # None
        /\ cam[EntryOf(i)].key = obj[crypt[i]].key
        /\ cam[EntryOf(i)].type = NewKey(EntryOf(i)).type
        /\ EntryOf(i) = Pair /\ bssid = apMac => cam[EntryOf(i)].addr = apMac

KeyInv == TypeOK /\ Refs /\ Held /\ LeapIsOdd /\ SoftHolds /\ CamHolds

-----------------------------------------------------------------------------
(* Types.                                                                  *)
Table == [Entries -> Contents \cup {None}]

(* The parts of TypeOK.                                                    *)
CipherTypes ==
    /\ crypt \in [Index -> Objs \cup {None}] /\ obj \in [Objs -> Objects \cup {None}]
    /\ retired \subseteq Objs /\ dtimer \in {"off", "new", "due"}
RefType == refcnt \in [Objs -> 0 .. 1]
UserType == user = Idle \/ user \in [o : Objs, st : {"read", "busy"}]
TableTypes ==
    /\ pType \in Types /\ gType \in Types /\ cam \in Table /\ swcam \in Table
    /\ late \in {<<>>} \cup Entries \X Contents
RestTypes ==
    /\ up \in BOOLEAN /\ leap \in BOOLEAN /\ odd \in BOOLEAN
    /\ bssid \in Nets \cup {Zero} /\ apMac \in Nets \cup {Zero}
    /\ reset \in {"no", "started"} /\ ops \in 0 .. MaxOps

LEMMA KeyTypeParts ==
    TypeOK <=> CipherTypes /\ RefType /\ UserType /\ TableTypes /\ RestTypes
BY DEF TypeOK, CipherTypes, RefType, UserType, TableTypes, RestTypes, Table

(* The entry of a pairwise key is none of the entries of the key indices.  *)
LEMMA PairApart == Pair \notin Index /\ 0 \in Index /\ Index \subseteq Entries /\ Pair \in Entries
BY KeyCacheAssumption DEF Pair, Index, Entries

LEMMA ContentType ==
    ASSUME NEW t \in Wep \cup Wpa, NEW a \in Nets \cup {Zero, Bcast}, NEW k \in Keys \cup {None}
    PROVE  Content(t, a, k) \in Contents
BY DEF Content, Contents

LEMMA ContentFields ==
    ASSUME NEW t, NEW a, NEW k
    PROVE  /\ Content(t, a, k).type = t /\ Content(t, a, k).addr = a
           /\ Content(t, a, k).key = k
BY DEF Content

(* What Content builds, said once of every kind, address and key.          *)
LEMMA ContentIs ==
    ASSUME NEW t \in Wep \cup Wpa, NEW a \in Nets \cup {Zero, Bcast}, NEW k \in Keys \cup {None},
           NEW c, c = Content(t, a, k)
    PROVE  c \in Contents /\ c.key = k /\ c.type = t /\ c.addr = a
<1>1. c \in Contents BY ONLY c = Content(t, a, k), ContentType
<1>2. c.key = k /\ c.type = t /\ c.addr = a BY ONLY c = Content(t, a, k), ContentFields
<1> QED BY ONLY <1>1, <1>2

LEMMA ContentNotNone ==
    ASSUME NEW c \in Contents
    PROVE  c # None /\ c.type \in Wep \cup Wpa /\ c.key \in Keys \cup {None}
BY NamesAssumption DEF Contents

LEMMA TableSet ==
    ASSUME NEW table \in Table, NEW e \in Entries, NEW c \in Contents
    PROVE  /\ setKey(table, e, c) \in Table
           /\ setKey(table, e, c)[e] = c
           /\ \A d \in Entries : d # e => setKey(table, e, c)[d] = table[d]
BY DEF Table, setKey

LEMMA NoKeysType == NoKeys \in Table
BY DEF NoKeys, Table

(* What a silent reset writes back.                                        *)
LEMMA RestoreType ==
    ASSUME TypeOK
    PROVE  CamRestoreAllEntry \in Table
<1> SUFFICES ASSUME NEW e \in Entries
             PROVE  CamRestoreAllEntry[e] \in Contents \cup {None}
  BY DEF CamRestoreAllEntry, Table
<1>1. swcam[e] # None => swcam[e].key \in Keys \cup {None}
  BY ContentNotNone DEF TypeOK
<1>2. bssid \in Nets \cup {Zero, Bcast} /\ Zero \in Nets \cup {Zero, Bcast}
      /\ Bcast \in Nets \cup {Zero, Bcast}
  BY DEF TypeOK
<1>3. cam[e] \in Contents \cup {None}
  BY DEF TypeOK
<1> QED
  BY <1>1, <1>2, <1>3, ContentType DEF CamRestoreAllEntry
-----------------------------------------------------------------------------
(* The cipher objects.                                                     *)

(* Retiring the objects of some key indices.                               *)
LEMMA RetireType ==
    ASSUME TypeOK, NEW ks \in SUBSET Index, Retire(ks)
    PROVE  /\ retired' \subseteq Objs /\ dtimer' \in {"off", "new", "due"}
           /\ \A o \in retired' : o \in retired \/ \E i \in ks : o = crypt[i]
BY DEF TypeOK, Retire

(* A new object comes from free memory.                                    *)
LEMMA UnallocatedFree ==
    ASSUME NEW o \in Unallocated
    PROVE  o \in Objs /\ obj[o] = None
<1> DEFINE free == {x \in Objs : obj[x] = None}
<1>1. free # {}
  BY DEF Unallocated
<1>2. (CHOOSE x \in free : TRUE) \in free
  BY <1>1
<1> QED
  BY <1>1, <1>2 DEF Unallocated

(* The objects of the key indices, seen from one index.                    *)
LEMMA HeldAt ==
    ASSUME TypeOK, Held, NEW i \in Index, crypt[i] # None
    PROVE  /\ crypt[i] \in Objs /\ obj[crypt[i]] \in Objects /\ crypt[i] \notin retired
           /\ \A j \in Index : j # i => crypt[j] # crypt[i]
BY DEF TypeOK, Held

(* The object of index i gets the key; those of the others are as before.  *)
LEMMA SetCryptGives ==
    ASSUME TypeOK, Held, NEW i \in Index, NEW al \in {"WEP"} \cup Wpa, NEW k \in Keys,
           SetCrypt(i, al, k)
    PROVE  /\ CipherTypes' /\ Held'
           /\ crypt'[i] # None
           /\ obj'[crypt'[i]].alg = al /\ obj'[crypt'[i]].key = k
           /\ \A j \in Index : j # i => crypt'[j] = crypt[j]
           /\ \A j \in Index : j # i /\ crypt[j] # None => obj'[crypt[j]] = obj[crypt[j]]
           /\ \A o \in Objs : obj[o] # None => obj'[o] # None
<1>0. /\ crypt \in [Index -> Objs \cup {None}] /\ obj \in [Objs -> Objects \cup {None}]
      /\ retired \subseteq Objs /\ dtimer \in {"off", "new", "due"}
  BY DEF TypeOK
<1>1. CASE crypt[i] # None /\ obj[crypt[i]].alg = al
  <2> DEFINE o == crypt[i]
  <2>1. /\ o \in Objs /\ obj[o] \in Objects /\ o \notin retired
        /\ \A j \in Index : j # i => crypt[j] # o
    BY <1>1, HeldAt
  <2>2. obj' = [obj EXCEPT ![o].key = k] /\ UNCHANGED <<crypt, retired, dtimer>>
    BY <1>1 DEF SetCrypt
  <2>3. [obj[o] EXCEPT !.key = k] \in Objects
    BY <2>1 DEF Objects
  <2>4. obj' = [obj EXCEPT ![o] = [obj[o] EXCEPT !.key = k]]
    BY <2>2
  <2>5. obj'[o] = [obj[o] EXCEPT !.key = k] /\ \A p \in Objs : p # o => obj'[p] = obj[p]
    BY <2>1, <2>4, <1>0
  <2>6. obj'[o].alg = al /\ obj'[o].key = k
    BY <1>1, <2>1, <2>5 DEF Objects
  <2>7. obj' \in [Objs -> Objects \cup {None}]
    BY <2>1, <2>3, <2>4, <1>0
  <2>8. obj'[o] # None
    BY <2>3, <2>5, NamesAssumption
  <2>9. \A j \in Index : j # i /\ crypt[j] # None => obj'[crypt[j]] = obj[crypt[j]]
    BY <2>1, <2>5, <1>0
  <2>10. CipherTypes'
    BY <2>2, <2>7, <1>0 DEF CipherTypes
  <2>11. \A p \in Objs : obj[p] # None => obj'[p] # None
    BY <2>5, <2>8
  <2>12. Held'
    BY <2>1, <2>2, <2>8, <2>9, <2>11, <1>0 DEF Held
  <2> QED
    BY <1>1, <2>2, <2>6, <2>9, <2>10, <2>11, <2>12
<1>2. CASE ~(crypt[i] # None /\ obj[crypt[i]].alg = al)
  <2>1. PICK o \in Unallocated :
           /\ obj' = [obj EXCEPT ![o] = [alg |-> al, key |-> k]]
           /\ crypt' = [crypt EXCEPT ![i] = o] /\ Retire({i})
    BY <1>2 DEF SetCrypt
  <2>2. o \in Objs /\ obj[o] = None
    BY UnallocatedFree
  <2>3. [alg |-> al, key |-> k] \in Objects
    BY DEF Objects
  <2>4. obj'[o] = [alg |-> al, key |-> k] /\ \A p \in Objs : p # o => obj'[p] = obj[p]
    BY <2>1, <2>2, <1>0
  <2>5. crypt'[i] = o /\ \A j \in Index : j # i => crypt'[j] = crypt[j]
    BY <2>1, <1>0
  <2>6. \A j \in Index : crypt[j] # None => crypt[j] # o
    BY <2>2 DEF Held
  <2>7. /\ retired' \subseteq Objs /\ dtimer' \in {"off", "new", "due"}
        /\ \A p \in retired' : p \in retired \/ p = crypt[i]
    BY <2>1, RetireType
  <2>8. o \notin retired'
    <3> SUFFICES ASSUME o \in retired PROVE FALSE
      BY <2>2, <2>6, <2>7, NamesAssumption
    <3> QED
      BY <2>2 DEF Held
  <2>9. /\ obj'[o] # None /\ obj'[o].alg = al /\ obj'[o].key = k
        /\ \A p \in Objs : obj[p] # None => obj'[p] = obj[p]
    BY <2>2, <2>3, <2>4, NamesAssumption
  <2>10. \A j \in Index : j # i /\ crypt[j] # None => obj'[crypt[j]] = obj[crypt[j]]
    BY <2>9, <1>0 DEF Held
  <2>11. CipherTypes'
    BY <2>1, <2>2, <2>3, <2>7, <1>0 DEF CipherTypes
  <2>12. Held'
    <3>1. ASSUME NEW j \in Index, crypt'[j] # None
          PROVE  obj'[crypt'[j]] # None /\ crypt'[j] \notin retired'
      <4>1. CASE j = i
        BY <4>1, <2>5, <2>8, <2>9
      <4>2. CASE j # i
        <5>1. crypt'[j] = crypt[j] /\ crypt[j] # None
          BY <4>2, <3>1, <2>5
        <5>2. crypt[j] \notin retired /\ obj[crypt[j]] # None /\ crypt[i] # crypt[j]
          BY <5>1, <4>2 DEF Held
        <5>3. crypt[j] \notin retired'
          BY <5>2, <2>7
        <5> QED
          BY <5>1, <5>2, <5>3, <4>2, <2>10
      <4> QED
        BY <4>1, <4>2
    <3>2. ASSUME NEW j \in Index, NEW m \in Index, j # m, crypt'[j] # None
          PROVE  crypt'[j] # crypt'[m]
      BY <3>2, <2>2, <2>5, <2>6, NamesAssumption DEF Held
    <3>3. ASSUME NEW p \in retired' PROVE obj'[p] # None
      <4>1. p \in Objs /\ (p \in retired \/ p = crypt[i])
        BY <2>7
      <4>2. obj[p] # None
        BY <4>1, NamesAssumption DEF Held
      <4> QED
        BY <4>1, <4>2, <2>9
    <3> QED
      BY <3>1, <3>2, <3>3 DEF Held
  <2> QED
    BY <2>2, <2>5, <2>9, <2>10, <2>11, <2>12, NamesAssumption
<1> QED
  BY <1>1, <1>2

(* Key indices lose their objects, which are retired.                      *)
LEMMA DropGives ==
    ASSUME TypeOK, Held, NEW ks \in SUBSET Index, Retire(ks), obj' = obj,
           crypt' = [i \in Index |-> IF i \in ks THEN None ELSE crypt[i]]
    PROVE  CipherTypes' /\ Held'
<1>1. /\ retired' \subseteq Objs /\ dtimer' \in {"off", "new", "due"}
      /\ \A o \in retired' : o \in retired \/ \E i \in ks : o = crypt[i]
  BY RetireType
<1>2. \A j \in Index : crypt'[j] # None => j \notin ks /\ crypt'[j] = crypt[j]
  OBVIOUS
<1>3. CipherTypes'
  BY <1>1 DEF CipherTypes, TypeOK
<1>4. \A j \in Index : crypt'[j] # None => obj'[crypt'[j]] # None /\ crypt'[j] \notin retired'
  BY <1>1, <1>2 DEF Held
<1>5. \A i, j \in Index : i # j /\ crypt'[i] # None => crypt'[i] # crypt'[j]
  BY <1>2 DEF Held
<1>6. \A o \in retired' : obj'[o] # None
  BY <1>1, NamesAssumption DEF Held, TypeOK
<1> QED
  BY <1>3, <1>4, <1>5, <1>6 DEF Held

-----------------------------------------------------------------------------
(* The tables.                                                             *)

(* The type of late tells whether a call is under way.                     *)
LEMMA LateType ==
    ASSUME TypeOK, late # <<>>
    PROVE  late[1] \in Entries /\ late[2] \in Contents
BY DEF TypeOK

LEMMA PendingType ==
    ASSUME NEW e \in Entries, NEW c \in Contents
    PROVE  /\ <<e, c>> \in {<<>>} \cup Entries \X Contents
           /\ <<e, c>> # <<>> /\ <<e, c>>[1] = e /\ <<e, c>>[2] = c
OBVIOUS

(* Entries of different key indices are different.                         *)
LEMMA EntryApart ==
    ASSUME NEW i \in Index, NEW j \in Index, i # j, NEW e, NEW d,
           e = i \/ (i = 0 /\ e = Pair), d = j \/ (j = 0 /\ d = Pair)
    PROVE  e # d /\ e \in Entries /\ d \in Entries
BY PairApart

(* Steps that leave the keys and the copy of the table alone.              *)
LEMMA SoftKept ==
    ASSUME KeyInv, UNCHANGED <<crypt, swcam, late>>, odd => odd',
           \A i \in Index : crypt[i] # None => obj'[crypt[i]] = obj[crypt[i]]
    PROVE  SoftHolds'
<1> SUFFICES ASSUME ~odd', NEW i \in Index, crypt[i] # None
             PROVE  /\ NewKey(EntryOf(i))' # None
                    /\ NewKey(EntryOf(i))'.key = obj'[crypt[i]].key
                    /\ NewKey(EntryOf(i))'.type \in Wpa <=> obj'[crypt[i]].alg \in Wpa
  BY DEF SoftHolds
<1>1. EntryOf(i)' = EntryOf(i)
  BY DEF EntryOf
<1>2. NewKey(EntryOf(i))' = NewKey(EntryOf(i))
  BY <1>1 DEF NewKey
<1>3. /\ NewKey(EntryOf(i)) # None
      /\ NewKey(EntryOf(i)).key = obj[crypt[i]].key
      /\ NewKey(EntryOf(i)).type \in Wpa <=> obj[crypt[i]].alg \in Wpa
  BY DEF KeyInv, SoftHolds
<1> QED
  BY <1>2, <1>3

(* ... and leave the CAM alone as well.                                    *)
LEMMA CamKept ==
    ASSUME KeyInv, UNCHANGED <<crypt, swcam, late, cam, bssid, apMac>>, odd => odd',
           reset' = "no" => reset = "no",
           \A i \in Index : crypt[i] # None => obj'[crypt[i]] = obj[crypt[i]]
    PROVE  CamHolds'
<1> SUFFICES ASSUME ~odd', reset' = "no", NEW i \in Index, crypt[i] # None
             PROVE  /\ cam'[EntryOf(i)'] # None
                    /\ cam'[EntryOf(i)'].key = obj'[crypt[i]].key
                    /\ cam'[EntryOf(i)'].type = NewKey(EntryOf(i))'.type
                    /\ EntryOf(i)' = Pair /\ bssid = apMac => cam'[EntryOf(i)'].addr = apMac
  BY DEF CamHolds
<1>1. EntryOf(i)' = EntryOf(i)
  BY DEF EntryOf
<1>2. NewKey(EntryOf(i))' = NewKey(EntryOf(i))
  BY <1>1 DEF NewKey
<1>3. /\ cam[EntryOf(i)] # None
      /\ cam[EntryOf(i)].key = obj[crypt[i]].key
      /\ cam[EntryOf(i)].type = NewKey(EntryOf(i)).type
      /\ EntryOf(i) = Pair /\ bssid = apMac => cam[EntryOf(i)].addr = apMac
  BY DEF KeyInv, CamHolds
<1> QED
  BY <1>1, <1>2, <1>3

(* A call that sets a key: the CAM has it and swcamtable will.             *)
LEMMA KeyWritten ==
    ASSUME KeyInv, NEW i \in Index, NEW al \in {"WEP"} \cup Wpa, NEW k \in Keys,
           SetCrypt(i, al, k),
           NEW e \in Entries, e = (IF i = 0 /\ al \in Wpa THEN Pair ELSE i),
           NEW c \in Contents, c.key = k, c.type \in Wpa <=> al \in Wpa,
           e = Pair => c.addr = apMac,
           late = <<>>, late' = <<e, c>>, cam' = setKey(cam, e, c),
           UNCHANGED <<swcam, odd, bssid, apMac, reset>>
    PROVE  SoftHolds' /\ CamHolds'
<1>0. TypeOK /\ Held
  BY DEF KeyInv
<1>1. /\ crypt'[i] # None
      /\ obj'[crypt'[i]].alg = al /\ obj'[crypt'[i]].key = k
      /\ \A j \in Index : j # i => crypt'[j] = crypt[j]
      /\ \A j \in Index : j # i /\ crypt[j] # None => obj'[crypt[j]] = obj[crypt[j]]
  BY <1>0, SetCryptGives
<1>2. cam'[e] = c /\ \A d \in Entries : d # e => cam'[d] = cam[d]
  BY <1>0, TableSet DEF TypeOK, Table
<1>3. NewKey(e)' = c /\ \A d : d # e => NewKey(d)' = NewKey(d)
  BY PendingType DEF NewKey
<1>4. c # None
  BY ContentNotNone
<1>5. EntryOf(i)' = e
  BY <1>1 DEF EntryOf
<1>6. ASSUME NEW j \in Index, j # i, crypt'[j] # None
      PROVE  /\ crypt'[j] = crypt[j] /\ crypt[j] # None /\ obj'[crypt'[j]] = obj[crypt[j]]
             /\ EntryOf(j)' = EntryOf(j) /\ EntryOf(j) \in Entries /\ EntryOf(j) # e
  <2>1. crypt'[j] = crypt[j] /\ crypt[j] # None /\ obj'[crypt'[j]] = obj[crypt[j]]
    BY <1>6, <1>1
  <2>2. EntryOf(j)' = EntryOf(j)
    BY <2>1 DEF EntryOf
  <2>3. EntryOf(j) = j \/ (j = 0 /\ EntryOf(j) = Pair)
    BY DEF EntryOf
  <2> QED
    BY <1>6, <2>1, <2>2, <2>3, EntryApart
<1>7. SoftHolds'
  <2> SUFFICES ASSUME ~odd', NEW j \in Index, crypt'[j] # None
               PROVE  /\ NewKey(EntryOf(j))' # None
                      /\ NewKey(EntryOf(j))'.key = obj'[crypt'[j]].key
                      /\ NewKey(EntryOf(j))'.type \in Wpa <=> obj'[crypt'[j]].alg \in Wpa
    BY DEF SoftHolds
  <2>1. CASE j = i
    <3>1. NewKey(EntryOf(j))' = c
      BY <2>1, <1>3, <1>5 DEF NewKey
    <3> QED
      BY <3>1, <2>1, <1>1, <1>4
  <2>2. CASE j # i
    <3>1. NewKey(EntryOf(j))' = NewKey(EntryOf(j))
      BY <2>2, <1>6, <1>3 DEF NewKey
    <3>2. /\ NewKey(EntryOf(j)) # None
          /\ NewKey(EntryOf(j)).key = obj[crypt[j]].key
          /\ NewKey(EntryOf(j)).type \in Wpa <=> obj[crypt[j]].alg \in Wpa
      BY <2>2, <1>6 DEF KeyInv, SoftHolds
    <3> QED
      BY <3>1, <3>2, <2>2, <1>6
  <2> QED
    BY <2>1, <2>2
<1>8. CamHolds'
  <2> SUFFICES ASSUME ~odd', reset' = "no", NEW j \in Index, crypt'[j] # None
               PROVE  /\ cam'[EntryOf(j)'] # None
                      /\ cam'[EntryOf(j)'].key = obj'[crypt'[j]].key
                      /\ cam'[EntryOf(j)'].type = NewKey(EntryOf(j))'.type
                      /\ EntryOf(j)' = Pair /\ bssid' = apMac' =>
                            cam'[EntryOf(j)'].addr = apMac'
    BY DEF CamHolds
  <2>1. CASE j = i
    <3>1. NewKey(EntryOf(j))' = c /\ cam'[EntryOf(j)'] = c
      BY <2>1, <1>2, <1>3, <1>5 DEF NewKey
    <3> QED
      BY <3>1, <2>1, <1>1, <1>4, <1>5
  <2>2. CASE j # i
    <3>1. /\ NewKey(EntryOf(j))' = NewKey(EntryOf(j))
          /\ cam'[EntryOf(j)'] = cam[EntryOf(j)]
      BY <2>2, <1>2, <1>6, <1>3 DEF NewKey
    <3>2. /\ cam[EntryOf(j)] # None
          /\ cam[EntryOf(j)].key = obj[crypt[j]].key
          /\ cam[EntryOf(j)].type = NewKey(EntryOf(j)).type
          /\ EntryOf(j) = Pair /\ bssid = apMac => cam[EntryOf(j)].addr = apMac
      BY <2>2, <1>6 DEF KeyInv, CamHolds
    <3> QED
      BY <3>1, <3>2, <2>2, <1>6
  <2> QED
    BY <2>1, <2>2
<1> QED
  BY <1>7, <1>8

(* The reset writes back what swcamtable holds, if the keys are of the     *)
(* kinds that the two key types name.                                      *)
LEMMA Restored ==
    ASSUME KeyInv, late = <<>>, NEW i \in Index, crypt[i] # None, ~odd, ~Mixed(EntryOf(i))
    PROVE  /\ CamRestoreAllEntry[EntryOf(i)] \in Contents
           /\ CamRestoreAllEntry[EntryOf(i)].key = obj[crypt[i]].key
           /\ CamRestoreAllEntry[EntryOf(i)].type = swcam[EntryOf(i)].type
           /\ EntryOf(i) = Pair => CamRestoreAllEntry[EntryOf(i)].addr = bssid
<1> DEFINE e == EntryOf(i)
           c == CamRestoreAllEntry[e]
<1>1. e \in Entries /\ (e = i \/ (i = 0 /\ e = Pair)) /\ (e = Pair <=> e \notin Index)
  BY PairApart DEF EntryOf
<1>2. NewKey(e) = swcam[e]
  BY DEF NewKey
<1>3. /\ swcam[e] # None /\ swcam[e].key = obj[crypt[i]].key
      /\ swcam[e].type \in Wpa <=> obj[crypt[i]].alg \in Wpa
  BY <1>2 DEF KeyInv, SoftHolds
<1>4. swcam[e] \in Contents /\ swcam[e].type \in Wep \cup Wpa /\ swcam[e].key \in Keys \cup {None}
  BY <1>1, <1>3, ContentNotNone DEF KeyInv, TypeOK
<1>5. /\ ~(pType \in Wep /\ gType \in Wpa)
      /\ swcam[e].type = IF e = Pair \/ swcam[e].type \in Wep THEN pType ELSE gType
  BY <1>3 DEF Mixed
<1>6. /\ bssid \in Nets \cup {Zero, Bcast} /\ Zero \in Nets \cup {Zero, Bcast}
      /\ Bcast \in Nets \cup {Zero, Bcast}
  BY DEF KeyInv, TypeOK
<1>a. c = IF gType \in Wpa /\ e \in Index \ {0} /\ swcam[e] # None
            THEN Content(gType, Bcast, swcam[e].key)
        ELSE IF pType \in Wep /\ e \in Index /\ swcam[e] # None
            THEN Content(pType, Zero, swcam[e].key)
        ELSE IF pType \in Wpa /\ e = Pair
            THEN Content(pType, bssid, IF swcam[e] = None THEN None ELSE swcam[e].key)
        ELSE cam[e]
  BY <1>1 DEF CamRestoreAllEntry
<1> SUFFICES /\ c \in Contents /\ c.key = swcam[e].key /\ c.type = swcam[e].type
             /\ e = Pair => c.addr = bssid
  BY <1>3
<1> HIDE DEF e, c
<1>7. CASE e = Pair
  <2>1. e \notin Index
    BY <1>7, PairApart
  <2>2. i = 0 /\ obj[crypt[i]].alg \in Wpa
    BY <1>7, PairApart DEF e, EntryOf
  <2>3. pType \in Wpa /\ swcam[e].type = pType
    BY <1>3, <1>5, <1>7, <2>2
  <2>4. c = Content(pType, bssid, swcam[e].key)
    BY <1>a, <2>1, <2>3, <1>3, <1>7, NamesAssumption
  <2> QED
    <3>1. pType \in Wep \cup Wpa /\ swcam[e].key \in Keys \cup {None}
      BY ONLY <2>3, <1>4
    <3>2. c \in Contents /\ c.key = swcam[e].key /\ c.type = pType /\ c.addr = bssid
      BY ONLY <2>4, <3>1, <1>6, ContentIs
    <3> QED BY ONLY <2>3, <3>2
<1>8. CASE e # Pair /\ swcam[e].type \in Wep
  <2>1. pType \in Wep /\ swcam[e].type = pType /\ gType \notin Wpa /\ e \in Index
    BY <1>1, <1>5, <1>8
  <2>2. c = Content(pType, Zero, swcam[e].key)
    BY <1>a, <2>1, <1>3
  <2> QED
    <3>1. pType \in Wep \cup Wpa /\ swcam[e].key \in Keys \cup {None}
      BY ONLY <2>1, <1>4
    <3>2. Zero \in Nets \cup {Zero, Bcast}
      BY ONLY <1>6
    <3>3. c \in Contents /\ c.key = swcam[e].key /\ c.type = pType
      BY ONLY <2>2, <3>1, <3>2, ContentIs
    <3> QED BY ONLY <2>1, <3>3, <1>8
<1>9. CASE e # Pair /\ swcam[e].type \notin Wep
  <2>1. gType \in Wpa /\ swcam[e].type = gType /\ e \in Index
    BY <1>1, <1>4, <1>5, <1>9
  <2>2. e # 0
    BY <1>1, <1>3, <1>4, <1>9 DEF e, EntryOf
  <2>3. c = Content(gType, Bcast, swcam[e].key)
    BY <1>a, <2>1, <2>2, <1>3
  <2> QED
    <3>1. gType \in Wep \cup Wpa /\ swcam[e].key \in Keys \cup {None}
      BY ONLY <2>1, <1>4
    <3>2. Bcast \in Nets \cup {Zero, Bcast}
      BY ONLY <1>6
    <3>3. c \in Contents /\ c.key = swcam[e].key /\ c.type = gType
      BY ONLY <2>3, <3>1, <3>2, ContentIs
    <3> QED BY ONLY <2>1, <3>3, <1>9
<1> QED
  BY <1>7, <1>8, <1>9
-----------------------------------------------------------------------------
(* The steps of the frame paths, the timer, and time.                      *)

(* Taking and returning a reference, and the timer, change no key.         *)
LEMMA FrameKeeps ==
    ASSUME KeyInv,
           \/ \E i \in Index : GetCrypt(i)
           \/ Count \/ PutCrypt \/ SecondPasses \/ rtllib_crypt_deinit_handler
           \/ UNCHANGED vars
    PROVE  KeyInv'
<1>0. TypeOK /\ Refs /\ Held /\ LeapIsOdd
  BY DEF KeyInv
<1>t. CipherTypes /\ RefType /\ UserType /\ TableTypes /\ RestTypes
  BY <1>0, KeyTypeParts
<1>1. ASSUME UNCHANGED <<up, bssid, apMac, leap, crypt, tables, reset, ops, odd>>,
             CipherTypes', RefType', UserType', Refs', Held',
             \A i \in Index : crypt[i] # None => obj'[crypt[i]] = obj[crypt[i]]
      PROVE  KeyInv'
  <2>1. UNCHANGED <<pType, gType, cam, swcam, late>>
    BY <1>1 DEF tables
  <2>2. SoftHolds' /\ CamHolds'
    BY <1>1, <2>1, SoftKept, CamKept
  <2>3. TableTypes' /\ RestTypes' /\ LeapIsOdd'
    BY <1>0, <1>1, <2>1, <1>t DEF TableTypes, RestTypes, LeapIsOdd
  <2>4. TypeOK'
    BY <1>1, <2>1, <2>3, <1>t
       DEF TypeOK, CipherTypes, RefType, UserType, TableTypes, RestTypes, Table
  <2> QED
    BY <1>1, <2>2, <2>3, <2>4 DEF KeyInv
<1>2. CASE \E i \in Index : GetCrypt(i)
  <2> PICK i \in Index : GetCrypt(i)
    BY <1>2
  <2>1. /\ user = Idle /\ crypt[i] # None /\ user' = [o |-> crypt[i], st |-> "read"]
        /\ UNCHANGED <<up, bssid, apMac, leap, crypt, obj, refcnt, retired, dtimer, tables, reset,
                       ops, odd>>
    BY DEF GetCrypt, ciphers
  <2>2. crypt[i] \in Objs
    BY <2>1, <1>0, HeldAt
  <2>3. UserType' /\ Refs'
    BY <2>1, <2>2, <1>0 DEF UserType, Refs, Idle
  <2>4. CipherTypes' /\ RefType' /\ Held'
    BY <2>1, <1>0, <1>t DEF CipherTypes, RefType, Held
  <2> QED
    BY <2>1, <2>3, <2>4, <1>1
<1>3. CASE Count
  <2>1. /\ user.st = "read" /\ user' = [user EXCEPT !.st = "busy"]
        /\ refcnt' = [refcnt EXCEPT ![user.o] = refcnt[user.o] + 1]
        /\ UNCHANGED <<up, bssid, apMac, leap, crypt, obj, retired, dtimer, tables, reset, ops, odd>>
    BY <1>3 DEF Count
  <2>2. user \in [o : Objs, st : {"read", "busy"}]
    BY <2>1, <1>t DEF UserType, Idle
  <2>3. user' \in [o : Objs, st : {"read", "busy"}] /\ user'.o = user.o /\ user'.st = "busy"
    BY <2>1, <2>2
  <2>4. \A o \in Objs : refcnt[o] = 0
    BY <2>1, <1>0 DEF Refs
  <2>5. \A o \in Objs : refcnt'[o] = IF o = user.o THEN 1 ELSE 0
    BY <2>1, <2>2, <2>4, <1>t DEF RefType
  <2>6. Refs' /\ UserType'
    BY <2>3, <2>5 DEF Refs, UserType
  <2>7. RefType'
    BY <2>1, <2>2, <2>4, <1>t DEF RefType
  <2>8. CipherTypes' /\ Held'
    BY <2>1, <1>0, <1>t DEF CipherTypes, Held
  <2> QED
    BY <2>1, <2>6, <2>7, <2>8, <1>1
<1>4. CASE PutCrypt
  <2>1. /\ user.st = "busy" /\ user' = Idle
        /\ refcnt' = [refcnt EXCEPT ![user.o] = refcnt[user.o] - 1]
        /\ UNCHANGED <<up, bssid, apMac, leap, crypt, obj, retired, dtimer, tables, reset, ops, odd>>
    BY <1>4 DEF PutCrypt
  <2>2. user.o \in Objs
    BY <2>1, <1>t DEF UserType, Idle
  <2>3. \A o \in Objs : refcnt[o] = IF o = user.o THEN 1 ELSE 0
    BY <2>1, <1>0 DEF Refs
  <2>4. \A o \in Objs : refcnt'[o] = 0
    BY <2>1, <2>2, <2>3, <1>t DEF RefType
  <2>5. Refs' /\ UserType'
    BY <2>1, <2>4 DEF Refs, UserType, Idle
  <2>6. RefType'
    BY <2>1, <2>2, <2>3, <1>t DEF RefType
  <2>7. CipherTypes' /\ Held'
    BY <2>1, <1>0, <1>t DEF CipherTypes, Held
  <2> QED
    BY <2>1, <2>5, <2>6, <2>7, <1>1
<1>5. CASE SecondPasses \/ UNCHANGED vars
  <2>1. /\ UNCHANGED <<up, bssid, apMac, leap, crypt, obj, refcnt, retired, tables, reset, user,
                       ops, odd>>
        /\ dtimer' \in {dtimer, "due"}
    BY <1>5 DEF SecondPasses, vars, ciphers
  <2>2. CipherTypes' /\ RefType' /\ UserType' /\ Refs' /\ Held'
    BY <2>1, <1>0, <1>t DEF CipherTypes, RefType, UserType, Refs, Held
  <2> QED
    BY <2>1, <2>2, <1>1
<1>6. CASE rtllib_crypt_deinit_handler
  <2> DEFINE gone == rtllib_crypt_deinit_entries
  <2>1. /\ obj' = [o \in Objs |-> IF o \in gone THEN None ELSE obj[o]]
        /\ retired' = retired \ gone /\ dtimer' \in {"off", "new"}
        /\ UNCHANGED <<up, bssid, apMac, leap, crypt, refcnt, tables, reset, user, ops, odd>>
    BY <1>6 DEF rtllib_crypt_deinit_handler
  <2>2. gone \subseteq retired
    BY DEF rtllib_crypt_deinit_entries
  <2> HIDE DEF gone
  <2>3. \A i \in Index : crypt[i] # None => obj'[crypt[i]] = obj[crypt[i]]
    BY <2>1, <2>2, <1>0, HeldAt
  <2>4. CipherTypes'
    BY <2>1, <2>2, <1>t DEF CipherTypes
  <2>5. Held'
    BY <2>1, <2>2, <2>3, <1>0, <1>t DEF Held, CipherTypes
  <2>6. RefType' /\ UserType' /\ Refs'
    BY <2>1, <1>0, <1>t DEF RefType, UserType, Refs
  <2> QED
    BY <2>1, <2>3, <2>4, <2>5, <2>6, <1>1
<1> QED
  BY <1>2, <1>3, <1>4, <1>5, <1>6
-----------------------------------------------------------------------------
(* The calls.                                                              *)

(* A call counts itself and leaves references and frames alone.            *)
LEMMA CallCounts ==
    ASSUME TypeOK, ops < MaxOps, ops' = ops + 1
    PROVE  ops' \in 0 .. MaxOps /\ ops \in Keys /\ MaxOps \in Nat
BY KeyCacheAssumption DEF TypeOK, Keys

(* Frames and references are as before.                                    *)
LEMMA FramesKept ==
    ASSUME TypeOK, Refs, UNCHANGED <<refcnt, user>>
    PROVE  RefType' /\ UserType' /\ Refs'
BY DEF TypeOK, RefType, UserType, Refs

(* The parts make up the invariant.                                        *)
LEMMA InvParts ==
    ASSUME CipherTypes', RefType', UserType', TableTypes', RestTypes', Refs', Held', LeapIsOdd',
           SoftHolds', CamHolds'
    PROVE  KeyInv'
BY DEF KeyInv, TypeOK, CipherTypes, RefType, UserType, TableTypes, RestTypes, Table

(* While the exceptions of CamAgrees apply nothing is claimed.             *)
LEMMA OddHolds ==
    ASSUME odd'
    PROVE  LeapIsOdd' /\ SoftHolds' /\ CamHolds'
BY DEF LeapIsOdd, SoftHolds, CamHolds

(* The two calls that set a key.                                           *)
LEMMA KeyedKeeps ==
    ASSUME KeyInv, NEW i \in Index, Keyed(i, ops)
    PROVE  KeyInv'
<1>0. TypeOK /\ Refs /\ Held /\ LeapIsOdd
  BY DEF KeyInv
<1>t. CipherTypes /\ RefType /\ UserType /\ TableTypes /\ RestTypes
  BY <1>0, KeyTypeParts
<1>e. i \in Entries /\ Pair \in Entries
  BY PairApart
(* Either call writes one entry of the tables with the key of the object.  *)
<1>w. ASSUME NEW al \in {"WEP"} \cup Wpa, NEW e \in Entries, NEW c \in Contents,
             ops < MaxOps, ops' = ops + 1, late = <<>>,
             \/ SetCrypt(i, al, ops) /\ odd' = odd
             \/ SetCryptFails(i, al) /\ odd' = TRUE,
             ~odd => /\ e = (IF i = 0 /\ al \in Wpa THEN Pair ELSE i)
                     /\ c.key = ops /\ (c.type \in Wpa <=> al \in Wpa)
                     /\ e = Pair => c.addr = apMac,
             leap' = leap \/ leap' = FALSE, pType' \in Types, gType' \in Types,
             cam' = setKey(cam, e, c), late' = <<e, c>>,
             UNCHANGED <<up, bssid, apMac, refcnt, swcam, reset, user>>
      PROVE  KeyInv'
  <2>1. ops' \in 0 .. MaxOps /\ ops \in Keys
    BY <1>w, <1>0, CallCounts
  <2>2. CipherTypes' /\ Held'
    <3>1. CASE SetCrypt(i, al, ops)
      BY <3>1, <2>1, <1>0, SetCryptGives
    <3>2. CASE SetCryptFails(i, al)
      <4>1. crypt' = [crypt EXCEPT ![i] = None] /\ Retire({i}) /\ obj' = obj
        BY <3>2 DEF SetCryptFails
      <4>2. crypt' = [j \in Index |-> IF j \in {i} THEN None ELSE crypt[j]]
        BY <4>1, <1>t DEF CipherTypes
      <4> QED
        BY <4>1, <4>2, <1>0, DropGives
    <3> QED
      BY <3>1, <3>2, <1>w
  <2>3. RefType' /\ UserType' /\ Refs'
    BY <1>0, <1>w, FramesKept
  <2>4. cam' \in Table
    BY <1>w, <1>t, TableSet DEF TableTypes
  <2>5. TableTypes'
    BY <1>w, <1>t, <2>4, PendingType DEF TableTypes
  <2>6. odd' \in BOOLEAN /\ leap' \in BOOLEAN
    BY <1>w, <1>t DEF RestTypes
  <2>7. RestTypes'
    BY <1>w, <1>t, <2>1, <2>6 DEF RestTypes
  <2>8. LeapIsOdd' /\ SoftHolds' /\ CamHolds'
    <3>1. CASE odd'
      BY <3>1, OddHolds
    <3>2. CASE ~odd'
      <4>1. SetCrypt(i, al, ops) /\ odd' = odd /\ ~odd
        BY <1>w, <3>2
      <4>2. LeapIsOdd'
        BY <4>1, <1>w, <1>0 DEF LeapIsOdd
      <4>3. SoftHolds' /\ CamHolds'
        BY <4>1, <1>w, <2>1, KeyWritten
      <4> QED
        BY <4>2, <4>3
    <3> QED
      BY <3>1, <3>2
  <2> QED
    BY <2>2, <2>3, <2>5, <2>7, <2>8, InvParts
<1>1. ASSUME NEW t \in Wep, r8192_wx_set_enc(i, t, ops)
      PROVE  KeyInv'
  <2> DEFINE c == Content(t, Zero, ops)
  <2>1. ops \in Keys \cup {None}
    BY <1>0 DEF TypeOK, Keys
  <2>2. c \in Contents /\ c.key = ops /\ c.type = t
    BY <2>1, ContentType, ContentFields
  <2>3. t \notin Wpa /\ "WEP" \notin Wpa /\ i # Pair
    BY NamesAssumption, PairApart
  <2>4. /\ ops < MaxOps /\ ops' = ops + 1 /\ late = <<>>
        /\ \/ SetCrypt(i, "WEP", ops) /\ odd' = odd
           \/ SetCryptFails(i, "WEP") /\ odd' = TRUE
        /\ leap' = FALSE /\ pType' = t /\ gType' = gType
        /\ cam' = setKey(cam, i, c) /\ late' = <<i, c>>
        /\ UNCHANGED <<up, bssid, apMac, refcnt, swcam, reset, user>>
    BY <1>1 DEF r8192_wx_set_enc, MayCall
  <2>5. pType' \in Types /\ gType' \in Types
    BY <2>4, <1>t DEF Types, TableTypes
  <2> HIDE DEF c
  <2> QED
    BY <2>2, <2>3, <2>4, <2>5, <1>e, <1>w
<1>2. ASSUME NEW al \in {"WEP"} \cup Wpa, NEW t \in Wep \cup Wpa, NEW g \in BOOLEAN,
             al = "WEP" => t \in Wep, al \in Wpa => t = al /\ (g => i # 0),
             r8192_wx_set_enc_ext(i, al, t, g, ops)
      PROVE  KeyInv'
  <2> DEFINE wep == EnableHWSecurityConfig8192(t)
             e == IF wep \/ g THEN i ELSE Pair
             a == IF wep THEN Zero ELSE IF g THEN Bcast ELSE apMac
             c == Content(t, a, ops)
  <2>1. ops \in Keys \cup {None}
    BY <1>0 DEF TypeOK, Keys
  <2>2. a \in Nets \cup {Zero, Bcast}
    BY <1>t DEF RestTypes
  <2>3. /\ ops < MaxOps /\ ops' = ops + 1 /\ late = <<>>
        /\ g \/ i = 0 \/ al = "WEP"
        /\ \/ SetCrypt(i, al, ops) /\ odd' = odd
           \/ SetCryptFails(i, al) /\ odd' = TRUE
        /\ pType' = IF ~g \/ t \in Wep THEN t ELSE pType
        /\ gType' = IF g /\ ~wep THEN t ELSE gType
        /\ cam' = setKey(cam, e, c) /\ late' = <<e, c>>
        /\ UNCHANGED <<up, bssid, apMac, leap, refcnt, swcam, reset, user>>
    BY <1>2 DEF r8192_wx_set_enc_ext, MayCall
  <2>4. pType' \in Types /\ gType' \in Types
    BY <2>3, <1>t DEF Types, TableTypes
  <2>5. ~odd => (wep <=> t \in Wep)
    BY <1>0 DEF EnableHWSecurityConfig8192, LeapIsOdd
  <2>6. e \in Entries
    BY <1>e
  <2>7. a = apMac \/ wep \/ g
    OBVIOUS
  <2> HIDE DEF a, wep
  <2>8. c \in Contents /\ c.key = ops /\ c.type = t /\ c.addr = a
    BY <2>1, <2>2, ContentType, ContentFields
  <2>9. ~odd => /\ e = (IF i = 0 /\ al \in Wpa THEN Pair ELSE i)
                /\ e = Pair => a = apMac
    BY <2>3, <2>5, <2>7, <1>2, NamesAssumption, PairApart
  <2>10. t \in Wpa <=> al \in Wpa
    BY <1>2, NamesAssumption
  <2> HIDE DEF e, c
  <2> QED
    BY <2>3, <2>4, <2>6, <2>8, <2>9, <2>10, <1>w
<1>3. CASE \E t \in Wep : r8192_wx_set_enc(i, t, ops)
  BY <1>3, <1>1
<1>4. CASE \E t \in Wep, g \in BOOLEAN : r8192_wx_set_enc_ext(i, "WEP", t, g, ops)
  BY <1>4, <1>2, NamesAssumption
<1>5. CASE \E a \in Wpa, g \in BOOLEAN :
              (g => i # 0) /\ r8192_wx_set_enc_ext(i, a, a, g, ops)
  BY <1>5, <1>2, NamesAssumption
<1> QED
  BY <1>3, <1>4, <1>5 DEF Keyed

(* The other calls: a default key, keys disabled, LEAP.                    *)
LEMMA OtherCallsKeep ==
    ASSUME KeyInv,
           \/ \E i \in Index : SetEncDefault(i) \/ SetEncDisable({i}) \/ SetEncExtDisable(i)
           \/ SetEncDisable(Index) \/ rtllib_wx_set_auth
    PROVE  KeyInv'
<1>0. TypeOK /\ Refs /\ Held /\ LeapIsOdd
  BY DEF KeyInv
<1>t. CipherTypes /\ RefType /\ UserType /\ TableTypes /\ RestTypes
  BY <1>0, KeyTypeParts
<1>1. CASE \E i \in Index : SetEncDefault(i)
  <2> PICK i \in Index : SetEncDefault(i)
    BY <1>1
  <2>1. /\ ops < MaxOps /\ ops' = ops + 1 /\ late = <<>> /\ leap' = FALSE
        /\ UNCHANGED <<up, bssid, apMac, refcnt, pType, gType, cam, swcam, late, reset, user>>
        /\ \/ UNCHANGED <<crypt, obj, retired, dtimer, odd>>
           \/ SetCrypt(i, "WEP", -1) /\ odd' = TRUE
    BY DEF SetEncDefault, MayCall, tables
  <2>2. ops' \in 0 .. MaxOps /\ -1 \in Keys
    BY <2>1, <1>0, CallCounts DEF Keys
  <2>3. odd' \in BOOLEAN
    BY <2>1, <1>t DEF RestTypes
  <2>4. TableTypes' /\ RestTypes' /\ RefType' /\ UserType' /\ Refs'
    BY <2>1, <2>2, <2>3, <1>t, <1>0, FramesKept DEF TableTypes, RestTypes
  <2>5. CipherTypes' /\ Held'
    BY <2>1, <2>2, <1>0, <1>t, SetCryptGives DEF CipherTypes, Held
  <2>6. CASE odd'
    BY <2>4, <2>5, <2>6, OddHolds, InvParts
  <2>7. CASE ~odd'
    <3>1. UNCHANGED <<crypt, obj, odd>>
      BY <2>1, <2>7
    <3>2. SoftHolds' /\ CamHolds' /\ LeapIsOdd'
      BY <3>1, <2>1, SoftKept, CamKept DEF LeapIsOdd
    <3> QED
      BY <2>4, <2>5, <3>2, InvParts
  <2> QED
    BY <2>6, <2>7
<1>2. ASSUME NEW ks \in SUBSET Index, Drop(ks), ClearTables, ops < MaxOps, ops' = ops + 1,
             odd' \in BOOLEAN, (\E i \in Index \ ks : crypt[i] # None) => odd',
             leap' \in BOOLEAN, leap' => odd',
             UNCHANGED <<up, bssid, apMac, reset, user>>
      PROVE  KeyInv'
  <2>1. /\ crypt' = [i \in Index |-> IF i \in ks THEN None ELSE crypt[i]]
        /\ Retire(ks) /\ obj' = obj /\ refcnt' = refcnt
    BY <1>2 DEF Drop
  <2>2. CipherTypes' /\ Held' /\ RefType' /\ UserType' /\ Refs'
    BY <2>1, <1>0, <1>2, DropGives, FramesKept
  <2>3. TableTypes'
    BY <1>2, NoKeysType DEF ClearTables, CamResetAllEntry, TableTypes, Types
  <2>4. RestTypes'
    BY <1>2, <1>0, <1>t, CallCounts DEF RestTypes
  <2>5. ~odd' => \A i \in Index : crypt'[i] = None
    BY <1>2, <2>1
  <2>6. LeapIsOdd' /\ SoftHolds' /\ CamHolds'
    BY <1>2, <2>5 DEF LeapIsOdd, SoftHolds, CamHolds
  <2> QED
    BY <2>2, <2>3, <2>4, <2>6, InvParts
<1>3. ASSUME NEW ks \in SUBSET Index, SetEncDisable(ks)
      PROVE  KeyInv'
  <2>1. /\ Drop(ks) /\ ClearTables /\ ops < MaxOps /\ ops' = ops + 1 /\ leap' = FALSE
        /\ odd' = (\E i \in Index \ ks : crypt[i] # None)
        /\ UNCHANGED <<up, bssid, apMac, reset, user>>
    BY <1>3 DEF SetEncDisable, MayCall
  <2>2. odd' \in BOOLEAN
    BY <2>1
  <2> QED
    BY <2>1, <2>2, <1>2
<1>4. ASSUME NEW i \in Index, SetEncExtDisable(i)
      PROVE  KeyInv'
  <2>1. /\ Drop({i}) /\ ClearTables /\ ops < MaxOps /\ ops' = ops + 1 /\ leap' = leap
        /\ odd' = (leap \/ \E j \in Index \ {i} : crypt[j] # None)
        /\ UNCHANGED <<up, bssid, apMac, reset, user>>
    BY <1>4 DEF SetEncExtDisable, MayCall
  <2>2. odd' \in BOOLEAN /\ leap' \in BOOLEAN /\ (leap' => odd')
    BY <2>1, <1>t DEF RestTypes
  <2>3. {i} \in SUBSET Index
    OBVIOUS
  <2>4. (\E j \in Index \ {i} : crypt[j] # None) => odd'
    BY <2>1
  <2> QED
    BY <2>1, <2>2, <2>3, <2>4, <1>2
<1>5. CASE rtllib_wx_set_auth
  <2>1. /\ ops < MaxOps /\ ops' = ops + 1 /\ leap' = TRUE /\ odd' = TRUE
        /\ UNCHANGED <<up, bssid, apMac, crypt, obj, refcnt, retired, dtimer, pType, gType, cam,
                       swcam, late, reset, user>>
    BY <1>5 DEF rtllib_wx_set_auth, MayCall, ciphers, tables
  <2>2. CipherTypes' /\ Held' /\ TableTypes' /\ RestTypes' /\ RefType' /\ UserType' /\ Refs'
    BY <2>1, <1>0, <1>t, CallCounts, FramesKept DEF CipherTypes, Held, TableTypes, RestTypes
  <2> QED
    BY <2>1, <2>2, OddHolds, InvParts
<1>6. Index \in SUBSET Index /\ \A i \in Index : {i} \in SUBSET Index
  OBVIOUS
<1> QED
  BY <1>1, <1>3, <1>4, <1>5, <1>6

(* Association, closing and opening, the end of a call, the silent reset.  *)
LEMMA NetworkKeeps ==
    ASSUME KeyInv,
           \/ set_swcam \/ (\E n \in Nets : Associate(n))
           \/ rtl8192_down \/ _rtl8192_up \/ ResetStarts \/ ResetEnds
    PROVE  KeyInv'
<1>0. TypeOK /\ Refs /\ Held /\ LeapIsOdd
  BY DEF KeyInv
<1>t. CipherTypes /\ RefType /\ UserType /\ TableTypes /\ RestTypes
  BY <1>0, KeyTypeParts
<1>c. ASSUME UNCHANGED <<crypt, obj, refcnt, retired, dtimer, user>>
      PROVE  CipherTypes' /\ Held' /\ RefType' /\ UserType' /\ Refs'
  BY <1>c, <1>0, <1>t, FramesKept DEF CipherTypes, Held
<1>1. CASE set_swcam
  <2>1. /\ late # <<>> /\ swcam' = setKey(swcam, late[1], late[2]) /\ late' = <<>>
        /\ UNCHANGED <<up, bssid, apMac, leap, crypt, obj, refcnt, retired, dtimer, pType, gType,
                       cam, reset, user, ops, odd>>
    BY <1>1 DEF set_swcam, ciphers
  <2>2. late[1] \in Entries /\ late[2] \in Contents
    BY <2>1, <1>0, LateType
  <2>3. /\ swcam' \in Table /\ swcam'[late[1]] = late[2]
        /\ \A d \in Entries : d # late[1] => swcam'[d] = swcam[d]
    BY <2>1, <2>2, <1>t, TableSet DEF TableTypes
  <2>4. \A e \in Entries : NewKey(e)' = NewKey(e)
    BY <2>1, <2>3 DEF NewKey
  <2>5. \A i \in Index : EntryOf(i)' = EntryOf(i) /\ EntryOf(i) \in Entries
    BY <2>1, PairApart DEF EntryOf
  <2>6. \A i \in Index : NewKey(EntryOf(i))' = NewKey(EntryOf(i))
    BY <2>4, <2>5 DEF NewKey
  <2>7. SoftHolds'
    BY <2>1, <2>6 DEF KeyInv, SoftHolds
  <2>8. CamHolds'
    BY <2>1, <2>5, <2>6 DEF KeyInv, CamHolds
  <2>9. TableTypes' /\ RestTypes' /\ LeapIsOdd'
    BY <2>1, <2>3, <1>0, <1>t DEF TableTypes, RestTypes, LeapIsOdd
  <2> QED
    BY <2>1, <2>7, <2>8, <2>9, <1>c, InvParts
<1>2. CASE \E n \in Nets : Associate(n)
  <2> PICK n \in Nets : Associate(n)
    BY <1>2
  <2>1. /\ ops < MaxOps /\ ops' = ops + 1 /\ bssid' = n /\ apMac' = n
        /\ odd' = (odd \/ cam[Pair] # None)
        /\ UNCHANGED <<up, leap, crypt, obj, refcnt, retired, dtimer, pType, gType, cam, swcam,
                       late, reset, user>>
    BY DEF Associate, ciphers, tables
  <2>2. odd' \in BOOLEAN /\ (odd => odd')
    BY <2>1
  <2>3. TableTypes' /\ RestTypes' /\ LeapIsOdd'
    BY <2>1, <2>2, <1>0, <1>t, CallCounts DEF TableTypes, RestTypes, LeapIsOdd
  <2>4. SoftHolds'
    BY <2>1, <2>2, SoftKept
  <2>5. CamHolds'
    <3> SUFFICES ASSUME ~odd', reset = "no", NEW i \in Index, crypt[i] # None
                 PROVE  /\ cam[EntryOf(i)] # None
                        /\ cam[EntryOf(i)].key = obj[crypt[i]].key
                        /\ cam[EntryOf(i)].type = NewKey(EntryOf(i)).type
                        /\ EntryOf(i) # Pair
      <4>1. \A i \in Index : EntryOf(i)' = EntryOf(i) /\ NewKey(EntryOf(i))' = NewKey(EntryOf(i))
        BY <2>1 DEF EntryOf, NewKey
      <4> QED
        BY <2>1, <4>1 DEF CamHolds
    <3>1. ~odd /\ cam[Pair] = None
      BY <2>1
    <3> QED
      BY <3>1 DEF KeyInv, CamHolds
  <2> QED
    BY <2>1, <2>3, <2>4, <2>5, <1>c, InvParts
<1>3. CASE rtl8192_down
  <2>1. /\ ops < MaxOps /\ ops' = ops + 1 /\ up' = FALSE /\ bssid' = Zero
        /\ cam' = NoKeys /\ swcam' = NoKeys /\ odd' = TRUE
        /\ UNCHANGED <<apMac, leap, crypt, obj, refcnt, retired, dtimer, pType, gType, late,
                       reset, user>>
    BY <1>3 DEF rtl8192_down, MayCall, CamResetAllEntry, ciphers
  <2>2. TableTypes' /\ RestTypes'
    BY <2>1, <1>0, <1>t, CallCounts, NoKeysType DEF TableTypes, RestTypes
  <2> QED
    BY <2>1, <2>2, <1>c, OddHolds, InvParts
<1>4. CASE _rtl8192_up \/ ResetStarts
  <2>1. /\ ops < MaxOps /\ ops' = ops + 1 /\ up' \in BOOLEAN /\ cam' = NoKeys
        /\ UNCHANGED <<bssid, apMac, leap, crypt, obj, refcnt, retired, dtimer, pType, gType,
                       swcam, late, user>>
    BY <1>4, <1>t DEF _rtl8192_up, ResetStarts, MayCall, CamResetAllEntry, ciphers, RestTypes
  <2>2. odd' \in BOOLEAN /\ (odd => odd') /\ reset' \in {"no", "started"}
        /\ ((~odd' /\ reset' = "no") => ~odd /\ reset = "no" /\ cam = NoKeys)
    BY <1>4, <1>t DEF _rtl8192_up, ResetStarts, RestTypes
  <2>3. TableTypes' /\ RestTypes' /\ LeapIsOdd'
    BY <2>1, <2>2, <1>0, <1>t, CallCounts, NoKeysType DEF TableTypes, RestTypes, LeapIsOdd
  <2>4. SoftHolds'
    BY <2>1, <2>2, SoftKept
  <2>5. CamHolds'
    <3> SUFFICES ASSUME ~odd', reset' = "no", NEW i \in Index, crypt[i] # None
                 PROVE  FALSE
      BY <2>1 DEF CamHolds
    <3>1. cam[EntryOf(i)] # None
      BY <2>2 DEF KeyInv, CamHolds
    <3>2. EntryOf(i) \in Entries
      BY PairApart DEF EntryOf
    <3> QED
      BY <2>2, <3>1, <3>2 DEF NoKeys
  <2> QED
    BY <2>1, <2>3, <2>4, <2>5, <1>c, InvParts
<1>5. CASE ResetEnds
  <2>1. /\ reset' = "no" /\ cam' = CamRestoreAllEntry
        /\ odd' = (odd \/ late # <<>> \/ \E e \in Entries : Mixed(e))
        /\ UNCHANGED <<up, bssid, apMac, leap, crypt, obj, refcnt, retired, dtimer, pType, gType,
                       swcam, late, user, ops>>
    BY <1>5 DEF ResetEnds, ciphers
  <2>2. odd' \in BOOLEAN /\ (odd => odd')
    BY <2>1
  <2>3. TableTypes' /\ RestTypes' /\ LeapIsOdd'
    BY <2>1, <2>2, <1>0, <1>t, RestoreType DEF TableTypes, RestTypes, LeapIsOdd
  <2>4. SoftHolds'
    BY <2>1, <2>2, SoftKept
  <2>5. CamHolds'
    <3> SUFFICES ASSUME ~odd', NEW i \in Index, crypt[i] # None
                 PROVE  /\ cam'[EntryOf(i)] # None
                        /\ cam'[EntryOf(i)].key = obj[crypt[i]].key
                        /\ cam'[EntryOf(i)].type = NewKey(EntryOf(i)).type
                        /\ EntryOf(i) = Pair /\ bssid = apMac => cam'[EntryOf(i)].addr = apMac
      <4>1. \A i \in Index : EntryOf(i)' = EntryOf(i) /\ NewKey(EntryOf(i))' = NewKey(EntryOf(i))
        BY <2>1 DEF EntryOf, NewKey
      <4> QED
        BY <2>1, <4>1 DEF CamHolds
    <3>1. EntryOf(i) \in Entries
      BY PairApart DEF EntryOf
    <3>2. ~odd /\ late = <<>> /\ ~Mixed(EntryOf(i))
      BY <2>1, <3>1
    <3>3. NewKey(EntryOf(i)) = swcam[EntryOf(i)]
      BY <3>2 DEF NewKey
    <3>4. /\ CamRestoreAllEntry[EntryOf(i)] \in Contents
          /\ CamRestoreAllEntry[EntryOf(i)].key = obj[crypt[i]].key
          /\ CamRestoreAllEntry[EntryOf(i)].type = swcam[EntryOf(i)].type
          /\ EntryOf(i) = Pair => CamRestoreAllEntry[EntryOf(i)].addr = bssid
      BY <3>2, Restored
    <3> QED
      BY <2>1, <3>3, <3>4, ContentNotNone
  <2> QED
    BY <2>1, <2>3, <2>4, <2>5, <1>c, InvParts
<1> QED
  BY <1>1, <1>2, <1>3, <1>4, <1>5
-----------------------------------------------------------------------------
(* The invariant.                                                          *)
LEMMA InvInit == Init => KeyInv
<1> SUFFICES ASSUME Init PROVE KeyInv
  OBVIOUS
<1>1. CipherTypes /\ RefType /\ UserType
  BY DEF Init, CipherTypes, RefType, UserType
<1>n. ops \in 0 .. MaxOps
  BY KeyCacheAssumption DEF Init
<1>2. TableTypes /\ RestTypes
  BY <1>n, NoKeysType DEF Init, TableTypes, RestTypes, Types
<1>3. Refs /\ Held /\ LeapIsOdd /\ SoftHolds /\ CamHolds
  BY DEF Init, Refs, Held, LeapIsOdd, SoftHolds, CamHolds, Idle
<1> QED
  BY <1>1, <1>2, <1>3, KeyTypeParts DEF KeyInv

LEMMA InvNext ==
    ASSUME KeyInv, [Next]_vars
    PROVE  KeyInv'
BY FrameKeeps, KeyedKeeps, OtherCallsKeep, NetworkKeeps DEF Next

(* The invariant says what the run checks of the tables.                   *)
LEMMA InvGives == KeyInv => TypeOK /\ CamAgrees
<1> SUFFICES ASSUME KeyInv, ~odd, late = <<>>, reset = "no", NEW i \in Index, crypt[i] # None
             PROVE  /\ cam[EntryOf(i)] # None
                    /\ cam[EntryOf(i)].key = obj[crypt[i]].key
                    /\ cam[EntryOf(i)].type = swcam[EntryOf(i)].type
                    /\ EntryOf(i) = Pair /\ bssid = apMac => cam[EntryOf(i)].addr = apMac
  BY DEF KeyInv, CamAgrees
<1>1. NewKey(EntryOf(i)) = swcam[EntryOf(i)]
  BY DEF NewKey
<1> QED
  BY <1>1 DEF KeyInv, CamHolds

-----------------------------------------------------------------------------
(* Objects in use, on one processor.                                       *)

(* From the moment a frame path reads the pointer to the end of the        *)
(* cipher's work the object is not freed: first because nothing else runs, *)
(* then because of the reference.                                          *)
InUse == user.st # "idle" => obj[user.o] # None

LEMMA InUseNext ==
    ASSUME ~Smp, KeyInv, InUse, [Next]_vars
    PROVE  InUse'
<1>0. TypeOK /\ Refs /\ Held
  BY DEF KeyInv
<1>u. user.st # "idle" => user \in [o : Objs, st : {"read", "busy"}]
  BY <1>0 DEF TypeOK, Idle
<1>1. CASE \E i \in Index : GetCrypt(i)
  BY <1>1, <1>0 DEF GetCrypt, ciphers, InUse, Held
<1>2. CASE Count
  <2>1. /\ user.st = "read" /\ user' = [user EXCEPT !.st = "busy"] /\ obj' = obj
    BY <1>2 DEF Count
  <2>2. user'.o = user.o
    BY <2>1, <1>u
  <2> QED
    BY <2>1, <2>2 DEF InUse
<1>3. CASE PutCrypt
  BY <1>3 DEF PutCrypt, InUse, Idle
<1>4. CASE rtllib_crypt_deinit_handler
  <2>1. /\ obj' = [o \in Objs |-> IF o \in rtllib_crypt_deinit_entries THEN None ELSE obj[o]]
        /\ user' = user /\ user.st # "read"
    BY <1>4 DEF rtllib_crypt_deinit_handler, NotReading
  <2>2. user.st # "idle" => user.o \in Objs /\ refcnt[user.o] = 1
    BY <2>1, <1>u, <1>0 DEF Refs
  <2>3. user.st # "idle" => user.o \notin rtllib_crypt_deinit_entries
    BY <2>2 DEF rtllib_crypt_deinit_entries
  <2> QED
    BY <2>1, <2>2, <2>3 DEF InUse
<1>5. ASSUME user' = user, \A o \in Objs : obj[o] # None => obj'[o] # None
      PROVE  InUse'
  BY <1>5, <1>u DEF InUse
<1>6. CASE \/ SecondPasses \/ set_swcam \/ rtllib_wx_set_auth \/ (\E n \in Nets : Associate(n))
           \/ rtl8192_down \/ _rtl8192_up \/ ResetStarts \/ ResetEnds \/ UNCHANGED vars
           \/ SetEncDisable(Index)
           \/ \E i \in Index : SetEncDisable({i}) \/ SetEncExtDisable(i)
  <2>1. user' = user /\ obj' = obj
    BY <1>6 DEF SecondPasses, set_swcam, rtllib_wx_set_auth, Associate, rtl8192_down,
                _rtl8192_up, ResetStarts, ResetEnds, vars, ciphers, SetEncDisable,
                SetEncExtDisable, Drop
  <2> QED
    BY <2>1, <1>5
<1>7. CASE \E i \in Index : SetEncDefault(i) \/ Keyed(i, ops)
  <2> PICK i \in Index : SetEncDefault(i) \/ Keyed(i, ops)
    BY <1>7
  <2>1. /\ user' = user
        /\ \/ obj' = obj
           \/ \E al \in {"WEP"} \cup Wpa, k \in {-1, ops} : SetCrypt(i, al, k)
    BY DEF SetEncDefault, Keyed, r8192_wx_set_enc, r8192_wx_set_enc_ext, SetCryptFails
  <2>2. -1 \in Keys /\ ops \in Keys
    BY <1>0 DEF TypeOK, Keys
  <2> QED
    BY <2>1, <2>2, <1>0, <1>5, SetCryptGives
<1> QED
  BY <1>1, <1>2, <1>3, <1>4, <1>6, <1>7 DEF Next

-----------------------------------------------------------------------------
(* On any number of processors the tables have their types and the CAM     *)
(* holds every key of the cipher objects, after every sequence of calls,   *)
(* associations, restarts and silent resets that is not one of the named   *)
(* exceptions (setKey, set_swcam, CamRestoreAllEntry).                     *)
THEOREM CamAlwaysAgrees == Spec => [](TypeOK /\ CamAgrees)
<1>1. Init => KeyInv
  BY InvInit
<1>2. KeyInv /\ [Next]_vars => KeyInv'
  BY InvNext
<1>3. KeyInv => TypeOK /\ CamAgrees
  BY InvGives
<1> QED
  BY <1>1, <1>2, <1>3, PTL DEF Spec

(* On one processor, also: no cipher object is freed while an encryption   *)
(* or decryption works with it (rtllib_crypt_deinit_entries).              *)
THEOREM TablesAlwaysAgree ==
    ASSUME ~Smp
    PROVE  Spec => []TablesAgree
<1>1. Init => KeyInv /\ InUse
  BY InvInit DEF Init, InUse, Idle
<1>2. KeyInv /\ InUse /\ [Next]_vars => (KeyInv /\ InUse)'
  BY InvNext, InUseNext
<1>3. KeyInv /\ InUse => TablesAgree
  BY InvGives DEF TablesAgree, BusyNotFreed, InUse
<1> QED
  BY <1>1, <1>2, <1>3, PTL DEF Spec
=============================================================================
